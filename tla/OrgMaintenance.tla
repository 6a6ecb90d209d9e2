--------------------------- MODULE OrgMaintenance ---------------------------
(***************************************************************************)
(* Nightly maintenance of one organisation,                                *)
(* tools/nightly_org_maintenance_impl: a snapshot of its repositories, a   *)
(* plan and a result written by a model and validated against the          *)
(* snapshot, publication of the changes as draft pull requests, merging of *)
(* the planned candidates, and tracking in a GitHub Project and in Linear. *)
(* Scheduled nights are serialised; a dispatched one overlaps with them.   *)
(* Authors, reviewers and checks go on working on the pull requests.       *)
(***************************************************************************)
EXTENDS Integers, FiniteSets, Sequences

CONSTANTS Nights, Repos, Branches, Issues,
          Registry,        \* owner -> [kind, installed, linear]
          Owner, Disabled, Requested, MaxOrganizations,
          Found,           \* the pull request the first night finds, one of these
          Changes,         \* what a change may touch: [docs, protected]
          Reviews, Obstacles, \* review decisions and merge states the world brings about
          MaxPulls, MaxEdits, MaxMerges, CommentPage, MaxComments,
          RequireSync,     \* policy.require_tracking_sync
          NULL

VARIABLES pulls,           \* the pull requests, by number
          night,           \* what a night knows
          project,         \* the items of each GitHub Project named for the owner
          comments,        \* issue -> the markers of its comments, in order
          edits            \* of pull requests and issues by others, bounded

omvars == <<pulls, night, project, comments, edits>>

Numbers == DOMAIN pulls
Branched(repo, branch) == {p \in Numbers : pulls[p].repo = repo /\ pulls[p].branch = branch}
\* A merge deletes the branch; a closed pull request leaves it.
BranchExists(repo, branch) == \E p \in Branched(repo, branch) : pulls[p].state # "MERGED"

Pull(repo, branch, protected, docs) ==
    [repo |-> repo, branch |-> branch, state |-> "OPEN", head |-> 1, draft |-> TRUE,
     label |-> FALSE, checks |-> "none", merge |-> "CLEAN", review |-> "none",
     protected |-> protected, docs |-> docs]

NoNight == [at |-> "none", snap |-> NULL, changes |-> <<>>, merges |-> <<>>, current |-> 0,
            view |-> NULL, created |-> <<>>, merged |-> <<>>, errors |-> FALSE, sync |-> <<>>]

OMInit ==
    /\ \E p \in Found : pulls = <<p>>
    /\ edits = 0
    /\ night = [n \in Nights |-> NoNight]
    /\ project = <<>>
    /\ comments = [i \in Issues |-> <<>>]

Goes(n, at) == night' = [night EXCEPT ![n].at = at]
\* MaintenanceError: the runner is gone, what was merged stays merged.
Failed(n) == [NoNight EXCEPT !.at = "failed", !.merged = night[n].merged]
Raise(n) == night' = [night EXCEPT ![n] = Failed(n)]
-----------------------------------------------------------------------------
(* Authors, reviewers and checks                                           *)

Change(p, field, value) == pulls' = [pulls EXCEPT ![p] = [@ EXCEPT ![field] = value]]

Author(p) ==
    /\ p \in Numbers /\ pulls[p].state = "OPEN"
    /\ edits < MaxEdits /\ edits' = edits + 1
    /\ \/ pulls' = [pulls EXCEPT ![p].head = @ + 1, ![p].checks = "pending"]
       \/ pulls[p].checks # "green" /\ Change(p, "checks", "green")
       \/ /\ pulls[p].review = "none"
          /\ \E review \in Reviews : Change(p, "review", review)
       \/ /\ pulls[p].merge = "CLEAN"
          /\ \E merge \in Obstacles : Change(p, "merge", merge)
       \/ pulls[p].label /\ Change(p, "label", FALSE)
       \/ Change(p, "state", "CLOSED")
    /\ UNCHANGED <<night, project, comments>>

Discuss(i) ==
    /\ Len(comments[i]) <= CommentPage
    /\ edits < MaxEdits /\ edits' = edits + 1
    /\ comments' = [comments EXCEPT ![i] = Append(@, NULL)]
    /\ UNCHANGED <<pulls, night, project>>
-----------------------------------------------------------------------------
(* Snapshot, plan and result                                               *)

\* The organisations of a run; none when a selected one cannot be served.
build_matrix ==
    LET selected == {o \in DOMAIN Registry :
                       /\ Registry[o].kind = "organization" /\ o \notin Disabled
                       /\ Requested # {} => o \in Requested}
    IN  IF \/ Requested \ DOMAIN Registry # {}
           \/ \E o \in selected : ~Registry[o].installed \/ ~Registry[o].linear
           \/ Cardinality(selected) \notin 1..MaxOrganizations
        THEN {} ELSE selected

\* What the snapshot keeps of a pull request: of what it says, the head counts.
_sanitize_pull(p) == pulls[p].head

\* The open pull requests of each repository with their heads.
build_snapshot == [p \in {q \in Numbers : pulls[q].state = "OPEN"} |-> _sanitize_pull(p)]

\* What a plan may name: what the snapshot holds.
_open_pr_index(snap) == DOMAIN snap
_repository_index == Repos
_linear_issue_index == Issues

Start(n) ==
    /\ night[n].at = "none" /\ Owner \in build_matrix
    /\ night' = [night EXCEPT ![n].at = "snapshot", ![n].snap = build_snapshot]
    /\ UNCHANGED <<pulls, project, comments, edits>>

\* The plan is a task for one repository and at most MaxMerges candidates, each
\* given by its number, its head and an action.
validate_plan(plan, snap) ==
    /\ plan.task.repo \in _repository_index
    /\ plan.task.issue = NULL \/ plan.task.issue \in _linear_issue_index
    /\ plan.task.source # NULL => plan.task.source \in _open_pr_index(snap)
    /\ Len(plan.merges) <= MaxMerges
    /\ \A i, j \in DOMAIN plan.merges : i # j => plan.merges[i].number # plan.merges[j].number
    /\ \A i \in DOMAIN plan.merges :
          LET c == plan.merges[i] IN
          /\ c.number \in _open_pr_index(snap) /\ snap[c.number] = c.head
          /\ c.action \in {"merge_if_green", "repair_with_replacement_pr", "skip"}
          /\ c.action = "repair_with_replacement_pr" => plan.task.source = c.number

Candidates(snap) == [number : DOMAIN snap, head : {snap[p] : p \in DOMAIN snap},
                     action : {"merge_if_green", "repair_with_replacement_pr"}]
Plans(snap) ==
    [task : [repo : Repos, issue : Issues \union {NULL}, source : DOMAIN snap \union {NULL},
             protected : BOOLEAN],
     merges : {<<>>} \union {<<c>> : c \in Candidates(snap)}]

\* What git finds changed in the checkout; the result does not list it.
_git_changed_files(change) == change.changed
MaxChangedFiles == 1

\* No link that leaves the checkout, no conflict marker, no credential.
_scan_changed_content(change) == change.content = "clean"

\* A file under docs/, a readme or its like, or one with a suffix of prose.
_documentation_changed(change) == change.docs

\* The result for a task: one change, with its tests and its effect on the checkout.
validate_result(change, task) ==
    /\ change.repo = task.repo
    /\ change.tests # "failed"
    /\ Cardinality(_git_changed_files(change)) \in 1..MaxChangedFiles
    /\ _scan_changed_content(change)
    /\ _documentation_changed(change) => task.issue # NULL
    /\ change.protected => change.review /\ task.protected

\* The checkouts the implementer works in: of the task's repository and of every
\* candidate's.
prepare_workspace(plan) ==
    {plan.task.repo} \union {pulls[plan.merges[i].number].repo : i \in DOMAIN plan.merges}

Work == {[changed |-> {"f"}, content |-> "clean"], [changed |-> {}, content |-> "clean"],
         [changed |-> {"f", "g"}, content |-> "clean"], [changed |-> {"f"}, content |-> "marked"]}
Results(plan) ==
    {[repo |-> r, branch |-> b, tests |-> t,
      changed |-> w.changed, content |-> w.content,
      docs |-> c.docs, protected |-> c.protected, review |-> plan.task.protected] :
        r \in prepare_workspace(plan), b \in Branches, t \in {"passed", "failed"},
        c \in Changes, w \in Work}

\* Planning, cloning and implementing: nothing leaves the runner until publication,
\* which validates the plan and the result again.
Plan(n) ==
    /\ night[n].at = "snapshot"
    /\ \E plan \in Plans(night[n].snap) : \E change \in Results(plan) :
          IF validate_plan(plan, night[n].snap) /\ validate_result(change, plan.task)
          THEN night' = [night EXCEPT ![n].at = "push", ![n].snap = NULL,
                            ![n].changes = <<[repo |-> change.repo, branch |-> change.branch,
                                              protected |-> change.protected, docs |-> change.docs,
                                              issue |-> plan.task.issue]>>,
                            ![n].merges = plan.merges]
          ELSE Raise(n)
    /\ UNCHANGED <<pulls, project, comments, edits>>
-----------------------------------------------------------------------------
(* Publication                                                             *)

\* Any call of gh or git may fail; the night raises and leaves no ledger.
Calls == {"push", "open", "label", "confirm", "look", "ready", "look again", "merge", "merged"}
CallFails(n) ==
    /\ night[n].at \in Calls
    /\ Raise(n)
    /\ UNCHANGED <<pulls, project, comments, edits>>

\* _push_branch: a plain push is refused when the branch exists, its commit being new.
_push_branch(n) ==
    /\ night[n].at = "push"
    /\ LET c == Head(night[n].changes) IN
       IF BranchExists(c.repo, c.branch) THEN Raise(n) ELSE Goes(n, "open")
    /\ UNCHANGED <<pulls, project, comments, edits>>

\* The open pull request of the branch, or a new draft.
OpenPull(n) ==
    /\ night[n].at = "open"
    /\ LET c == Head(night[n].changes)
           found == {p \in Branched(c.repo, c.branch) : pulls[p].state = "OPEN"}
       IN  IF found # {}
           THEN /\ night' = [night EXCEPT ![n].at = "label", ![n].current = CHOOSE p \in found : TRUE]
                /\ UNCHANGED pulls
           ELSE /\ Len(pulls) < MaxPulls
                /\ pulls' = Append(pulls, Pull(c.repo, c.branch, c.protected, c.docs))
                /\ \E lost \in BOOLEAN :
                      night' = IF lost THEN [night EXCEPT ![n] = Failed(n)]
                               ELSE [night EXCEPT ![n].at = "label", ![n].current = Len(pulls) + 1]
    /\ UNCHANGED <<project, comments, edits>>

\* The label is there, is made, or was made by another night just now; any other
\* answer raises.
_ensure_label(answer) == answer \in {"exists", "created", "already_exists"}

AddLabel(n) ==
    /\ night[n].at = "label"
    /\ \E answer \in {"exists", "created", "already_exists", "refused"} :
          IF _ensure_label(answer)
          THEN /\ pulls' = [pulls EXCEPT ![night[n].current].label = TRUE]
               /\ Goes(n, "confirm")
          ELSE Raise(n) /\ UNCHANGED pulls
    /\ UNCHANGED <<project, comments, edits>>

\* The new pull request is open, or the night raises.
Confirm(n) ==
    /\ night[n].at = "confirm"
    /\ LET p == night[n].current
           c == Head(night[n].changes)
       IN  night' =
             IF pulls[p].state # "OPEN" THEN [night EXCEPT ![n] = Failed(n)]
             ELSE [night EXCEPT ![n].at = IF Len(night[n].changes) > 1 THEN "push" ELSE "look",
                                ![n].changes = Tail(@), ![n].current = 0,
                                ![n].created = Append(@, [number |-> p, issue |-> c.issue,
                                                          docs |-> c.docs])]
    /\ UNCHANGED <<pulls, project, comments, edits>>
-----------------------------------------------------------------------------
(* Merging                                                                 *)

Candidate(n) == Head(night[n].merges)
\* The candidate is done with, or all are: then the ledger is written.
Passed(n) == [night[n] EXCEPT !.at = "look", !.merges = Tail(@), !.view = NULL]

_status_checks_green(view) == view.checks = "green"

\* evaluate: the reasons not to merge.
evaluate_any_head(view, head, require_clean) ==
    /\ view.merge # "CONFLICTING" /\ (require_clean => view.merge = "CLEAN")
    /\ view.review # "CHANGES_REQUESTED" /\ _status_checks_green(view)
    /\ view.protected => view.review = "APPROVED"
evaluate(view, head, require_clean) ==
    /\ view.head = head
    /\ view.merge # "CONFLICTING" /\ (require_clean => view.merge = "CLEAN")
    /\ view.review # "CHANGES_REQUESTED" /\ _status_checks_green(view)
    /\ view.protected => view.review = "APPROVED"

\* The first view: terminal, unlabelled or ineligible candidates are passed over,
\* an eligible draft is made ready.
Look(n) ==
    /\ night[n].at = "look" /\ night[n].merges # <<>>
    /\ LET c == Candidate(n)
           view == pulls[c.number]
       IN  night' = [night EXCEPT ![n] =
             IF \/ c.action # "merge_if_green"
                \/ view.state # "OPEN"
                \/ ~view.label
                \/ ~evaluate(view, c.head, FALSE)
                \/ view.draft /\ view.protected
             THEN Passed(n)
             ELSE IF view.draft THEN [night[n] EXCEPT !.at = "ready"]
             ELSE IF evaluate(view, c.head, TRUE)
             THEN [night[n] EXCEPT !.at = "merge", !.view = view]
             ELSE Passed(n)]
    /\ UNCHANGED <<pulls, project, comments, edits>>

\* gh pr ready.
Ready(n) ==
    /\ night[n].at = "ready"
    /\ LET p == Candidate(n).number IN
       IF pulls[p].state = "OPEN"
       THEN Change(p, "draft", FALSE) /\ (Goes(n, "look again") \/ Raise(n))
       ELSE UNCHANGED pulls /\ Raise(n)
    /\ UNCHANGED <<project, comments, edits>>

\* The second view: neither the label nor the state is looked at again.
LookAgain(n) ==
    /\ night[n].at = "look again"
    /\ LET c == Candidate(n)
           view == pulls[c.number]
       IN  night' = [night EXCEPT ![n] =
             IF view.draft \/ ~evaluate(view, c.head, TRUE) THEN Passed(n)
             ELSE [night[n] EXCEPT !.at = "merge", !.view = view]]
    /\ UNCHANGED <<pulls, project, comments, edits>>

\* gh pr merge, of whatever head the pull request has by now.
Merge(n) ==
    /\ night[n].at = "merge"
    /\ LET p == Candidate(n).number IN
       IF pulls[p].state = "OPEN" /\ pulls[p].merge = "CLEAN"
       THEN Change(p, "state", "MERGED") /\ (Goes(n, "merged") \/ Raise(n))
       ELSE UNCHANGED pulls /\ Raise(n)
    /\ UNCHANGED <<project, comments, edits>>

ConfirmMerge(n) ==
    /\ night[n].at = "merged"
    /\ LET c == Candidate(n) IN
       night' = [night EXCEPT ![n] =
         IF pulls[c.number].state = "MERGED"
         THEN [Passed(n) EXCEPT !.merged = Append(@, [number |-> c.number, head |-> c.head,
                                                      view |-> night[n].view])]
         ELSE Failed(n)]
    /\ UNCHANGED <<pulls, project, comments, edits>>

\* command_publish writes the ledger once every change and candidate is done.
WriteLedger(n) ==
    /\ night[n].at = "look" /\ night[n].merges = <<>>
    /\ Goes(n, "ledger")
    /\ UNCHANGED <<pulls, project, comments, edits>>
-----------------------------------------------------------------------------
(* Tracking: sync-tracking reads the ledger, and may be run again          *)

\* Created first, then merged.
Entries(n) ==
    [i \in 1..Len(night[n].created) |->
        [number |-> night[n].created[i].number, issue |-> night[n].created[i].issue,
         docs |-> night[n].created[i].docs]]
    \o [i \in 1..Len(night[n].merged) |->
        [number |-> night[n].merged[i].number, issue |-> NULL, docs |-> FALSE]]

sync_tracking(n) ==
    /\ night[n].at \in {"ledger", "untracked"}
    /\ night' = [night EXCEPT ![n].at = IF Entries(n) = <<>> THEN "synced" ELSE "project",
                              ![n].errors = FALSE, ![n].sync = Entries(n)]
    /\ UNCHANGED <<pulls, project, comments, edits>>

\* _select_project: the one project that bears the owner's name; with several the
\* project stays unknown and the errors say so.
_select_project(n) ==
    /\ night[n].at = "project"
    /\ night' = [night EXCEPT
          ![n].at = IF project = <<>> THEN "new project" ELSE "item",
          ![n].current = IF Len(project) = 1 THEN 1 ELSE 0,
          ![n].errors = Len(project) > 1]
    /\ UNCHANGED <<pulls, project, comments, edits>>

\* _resolve_or_create_project, when the list was empty; the answer may be lost.
_resolve_or_create_project(n) ==
    /\ night[n].at = "new project"
    /\ \E done, answered \in BOOLEAN :
          /\ answered => done
          /\ project' = IF done THEN Append(project, {}) ELSE project
          /\ night' = [night EXCEPT ![n].at = "item", ![n].errors = ~answered,
                                    ![n].current = IF answered THEN Len(project) + 1 ELSE 0]
    /\ UNCHANGED <<pulls, comments, edits>>

\* _ensure_project_item: a set, as adding an item twice gives the first back.
_ensure_project_item(n) ==
    /\ night[n].at = "item"
    /\ LET e == Head(night[n].sync) IN
       \E refused \in BOOLEAN :
          /\ project' = IF night[n].current = 0 \/ refused THEN project
                        ELSE [project EXCEPT ![night[n].current] = @ \union {e.number}]
          /\ night' = [night EXCEPT ![n].at = "comment",
                          ![n].errors = @ \/ refused]
    /\ UNCHANGED <<pulls, comments, edits>>

Marker(n, e) == <<n, e.number>>
\* The first page of comments holds them all, or some of them.
Visible(i, m) == \E k \in DOMAIN comments[i] : comments[i][k] = m
Missable(i) == Len(comments[i]) > CommentPage

\* _sync_linear_comment: nothing when the marker is seen, else a comment; reading may
\* fail, and the answer of the mutation may be lost.
Posted == {[posts |-> TRUE, fails |-> FALSE], [posts |-> TRUE, fails |-> TRUE]}
_sync_linear_comment_blindly(n, e) == Posted
_sync_linear_comment(n, e) ==
    LET there == Visible(e.issue, Marker(n, e))
    IN  {[posts |-> FALSE, fails |-> TRUE]}
        \union (IF there THEN {[posts |-> FALSE, fails |-> FALSE]} ELSE {})
        \union (IF there /\ ~Missable(e.issue) THEN {} ELSE Posted)

Comment(n) ==
    /\ night[n].at = "comment"
    /\ LET e == Head(night[n].sync)
           rest == Tail(night[n].sync)
       IN  /\ e.issue # NULL => Len(comments[e.issue]) < MaxComments
           /\ \E outcome \in IF e.issue # NULL THEN _sync_linear_comment(n, e)
                             ELSE {[posts |-> FALSE, fails |-> e.docs]} :
                 /\ comments' = IF ~outcome.posts THEN comments
                                ELSE [comments EXCEPT ![e.issue] = Append(@, Marker(n, e))]
                 /\ night' = [night EXCEPT ![n].at = IF rest # <<>> THEN "item" ELSE "noted",
                                           ![n].sync = rest, ![n].errors = @ \/ outcome.fails]
    /\ UNCHANGED <<pulls, project, edits>>

\* command_sync_tracking: the ledger keeps the errors, which fail the job.
Conclude(n) ==
    /\ night[n].at = "noted"
    /\ Goes(n, IF night[n].errors /\ RequireSync THEN "untracked" ELSE "synced")
    /\ UNCHANGED <<pulls, project, comments, edits>>

OMNext ==
    \/ \E p \in 1..MaxPulls : Author(p)
    \/ \E i \in Issues : Discuss(i)
    \/ \E n \in Nights :
          \/ Start(n) \/ Plan(n) \/ CallFails(n) \/ _push_branch(n) \/ OpenPull(n) \/ AddLabel(n)
          \/ Confirm(n) \/ Look(n) \/ Ready(n) \/ LookAgain(n) \/ Merge(n) \/ ConfirmMerge(n)
          \/ WriteLedger(n) \/ sync_tracking(n) \/ _select_project(n)
          \/ _resolve_or_create_project(n) \/ _ensure_project_item(n) \/ Comment(n) \/ Conclude(n)
-----------------------------------------------------------------------------
(* A pull request that did not change between the night's last look and its *)
(* merge had the planned head, green checks, no draft and, where protected, *)
(* an approval (_merge_candidate; docs/nightly-org-maintenance.md).         *)
MergedWasChecked ==
    \A n \in Nights : \A i \in DOMAIN night[n].merged :
        LET m == night[n].merged[i]
            p == pulls[m.number]
        IN  [p EXCEPT !.state = "OPEN"] = m.view =>
               /\ p.head = m.head /\ p.checks = "green" /\ ~p.draft
               /\ p.protected => p.review = "APPROVED"

(* However often a night's tracking is repeated, an issue bears its marker  *)
(* once, unless the marker had left the page of comments that is read.     *)
TrackingIsOnce ==
    \A i \in Issues : \A j, k \in DOMAIN comments[i] :
        j < k /\ comments[i][j] # NULL /\ comments[i][j] = comments[i][k] => k > CommentPage + 1
=============================================================================
