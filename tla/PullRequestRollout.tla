-------------------------- MODULE PullRequestRollout --------------------------
(***************************************************************************)
(* The tools that change a fleet of repositories through pull requests:    *)
(*   "deep"       scripts/bootstrap_test_org_deep_fleets_live.py,           *)
(*   "zpkg"       scripts/publish_zpkg_v023_migration.py, with the plan of   *)
(*                scripts/build_zpkg_v023_migration_plan.py,                *)
(*   "installed"  scripts/bootstrap_installed_org_fleets_live.py,           *)
(*   "hhaus"      scripts/hhaus_bootstrap, one repository per run,          *)
(*   "notes"      the provenance pull requests of tools/memebank_live,      *)
(*   "astro"      scripts/bootstrap_astro_pages_portfolio_20260810.py, which *)
(*                commits to main and waits for the site instead.           *)
(* They look at main, put one commit on a branch of a fixed name, find or  *)
(* open its pull request, perhaps wait for its checks, and merge.  A run    *)
(* may die, and be started again, at any request; meanwhile CI reports and  *)
(* other people push to the branch and to main and close pull requests.     *)
(*                                                                         *)
(* What matters of a commit is the state of the managed files: the reviewed *)
(* "source", the "proposed" change, or something "foreign".                 *)
(***************************************************************************)
EXTENDS MigrationPlan

CONSTANT Jobs       \* [tool, order: the repositories, and two bounds of the model:
                    \*  starts of the tool and meddling of others]; of zpkg also
                    \* the inventory (and the plan, where people made it), the mode
                    \* of each start, the phase, and of GitHub the owners, the
                    \* directories and the reconciled blobs

VARIABLES job, repos, run, merges, meddled

prvars == <<job, repos, run, merges, meddled>>

rtool == job.tool
RepoOrder == job.order

RepoNames == {RepoOrder[n] : n \in DOMAIN RepoOrder}
PerRepo == rtool \in {"installed", "hhaus", "notes", "astro"}    \* a repository from end to end
GatedTools == {"deep", "zpkg"}
Selected == SelectSeq(RepoOrder, LAMBDA r : rtool = "zpkg" => PhaseOf(job.plan, r) = job.phase)
-----------------------------------------------------------------------------
(* GitHub.  A pull request that is open has the head of its branch.         *)

Commit(content, parent) == [content |-> content, parent |-> parent, checks |-> "none"]
Fresh(workflows) == [exists |-> TRUE, workflows |-> workflows, commits |-> <<Commit("source", 0)>>,
                     main |-> 1, branch |-> 0, pulls |-> <<>>]
OwnSite(workflows) == [Fresh(workflows) EXCEPT !.commits[1].content = "foreign"]
NotThere == [Fresh(FALSE) EXCEPT !.exists = FALSE, !.commits = <<>>, !.main = 0]

Content(r, sha) == repos[r].commits[sha].content
Checks(r, sha) == repos[r].commits[sha].checks
Pull(r, k) == repos[r].pulls[k]
HeadOf(r, k) == IF Pull(r, k).state = "open" THEN repos[r].branch ELSE Pull(r, k).head
NewSha(r) == Len(repos[r].commits) + 1

Ancestors(r, sha) ==
    LET line[i \in 0..Len(repos[r].commits)] ==
            IF i = 0 THEN {} ELSE {i} \union line[repos[r].commits[i].parent]
    IN  line[sha]

WithCommit(r, content, parent) == [repos[r] EXCEPT !.commits = Append(@, Commit(content, parent))]
OpenPulls(r) == {k \in DOMAIN repos[r].pulls : Pull(r, k).state = "open"}

\* A merge that names the head it expects; the answer is 405 or 409 otherwise.
Mergeable(r, k, sha) ==
    /\ Pull(r, k).state = "open" /\ ~Pull(r, k).draft
    /\ HeadOf(r, k) = sha /\ Content(r, repos[r].main) # "foreign"

\* The squash; the branch goes too where the repository says so.
Merged(r, k, deleted) ==
    [WithCommit(r, Content(r, HeadOf(r, k)), repos[r].main) EXCEPT
        !.main = NewSha(r), !.pulls[k].state = "merged", !.pulls[k].head = HeadOf(r, k),
        !.branch = IF deleted THEN 0 ELSE @]
-----------------------------------------------------------------------------
(* The run: where it is, the repositories left in this stage, and for each  *)
(* the result so far.                                                       *)

Result == [state |-> "selected", seen |-> 0, base |-> 0, head |-> 0, pull |-> 0, check |-> "none"]

Resting(at) == [at |-> at, stage |-> at, starts |-> 0, repo |-> RepoOrder[1], left |-> <<>>,
                res |-> [r \in RepoNames |-> Result]]

With(state) == SelectSeq(RepoOrder, LAMBDA r : run.res[r].state \in state)

\* A stage begins with its first repository; an empty stage is over at once.
Enter(rn, stage, queue) ==
    IF queue = <<>> THEN [rn EXCEPT !.at = stage, !.stage = stage, !.left = <<>>]
    ELSE [rn EXCEPT !.at = stage, !.stage = stage, !.repo = Head(queue), !.left = Tail(queue)]

At(t, at) == rtool = t /\ run.at = at
In(ts, at) == rtool \in ts /\ run.at = at
Goes(at) == run' = [run EXCEPT !.at = at]
Here == run.repo
Mine == run.res[run.repo]

\* The repository is done with in this stage, with this result.
Onward(result) ==
    LET rn == [run EXCEPT !.res[Here] = result]
    IN  run' = IF rn.left = <<>> THEN [rn EXCEPT !.at = "stage over"]
               ELSE [rn EXCEPT !.at = rn.stage, !.repo = Head(rn.left), !.left = Tail(rn.left)]

RepoFails == Onward([Mine EXCEPT !.state = "failed"])
RunFails == run' = [run EXCEPT !.at = "failed"]

\* What an error does: deep, installed and notes go on with the next repository,
\* and so does zpkg once it merges; otherwise the run is over.
Error ==
    IF rtool \in {"deep", "installed", "notes"} \/ (rtool = "zpkg" /\ run.stage = "merge")
    THEN RepoFails ELSE RunFails
-----------------------------------------------------------------------------
(* Preflight: every repository is looked at before any is touched.          *)

exact_repository(r) == repos[r].exists

classify_zpkg_sha(content) ==
    CASE content = "proposed" -> "already_migrated"
      [] content = "source" -> "approved_predecessor"
      [] OTHER -> "refused"
classify_paths(content) == IF content \in {"source", "proposed"} THEN content ELSE "refused"

\* The first repository that is not as reviewed ends the run.
preflight(r) ==
    IF ~exact_repository(r) \/ classify_zpkg_sha(Content(r, repos[r].main)) = "refused" THEN RunFails
    ELSE Onward([Mine EXCEPT !.state = "source_verified"])
preflight_all(r) ==
    IF ~repos[r].exists \/ classify_paths(Content(r, repos[r].main)) = "refused" THEN RunFails
    ELSE IF /\ Content(r, repos[r].main) = "source"
            /\ \E mu \in Members(job.plan.mutations) :
                 mu.repository = r /\ ~target_dirs_exist(mu, job.dirs) THEN RunFails
    ELSE Onward([Mine EXCEPT !.base = repos[r].main, !.state =
            IF classify_paths(Content(r, repos[r].main)) = "proposed" THEN "already_migrated"
            ELSE "source_verified"])
Preflight ==
    /\ run.at = "preflight"
    /\ IF rtool = "deep" THEN preflight(Here) ELSE preflight_all(Here)
    /\ UNCHANGED <<job, repos, merges, meddled>>

\* installed, hhaus and notes: the repository is made when it is missing (not by
\* notes); one that has the files already is done with.
main_has_expected_contract(r) == Content(r, repos[r].main) = "proposed"
initialized(r) == Content(r, repos[r].main) # "source"
ensure_repo(r) == IF repos[r].exists THEN repos[r] ELSE Fresh(FALSE)
ensure_repository(r) == IF repos[r].exists THEN repos[r] ELSE Fresh(FALSE)
ensure_site(r) == IF repos[r].exists THEN repos[r] ELSE Fresh(FALSE)

Ensure ==
    /\ PerRepo /\ run.at = "ensure"
    /\ \/ /\ rtool # "notes" \/ repos[Here].exists
          /\ repos' = [repos EXCEPT ![Here] =
                CASE rtool = "installed" -> ensure_repo(Here)
                  [] rtool = "astro" -> ensure_site(Here)
                  [] OTHER -> ensure_repository(Here)]
          /\ Goes("look")
       \/ Error /\ UNCHANGED repos
    /\ UNCHANGED <<job, merges, meddled>>

\* notes clones main and has nothing to write when the record there is current.
write_provenance(r) == Content(r, repos[r].main) # "proposed"
Complete(r) ==
    CASE rtool = "installed" -> initialized(r)
      [] rtool = "notes" -> ~write_provenance(r)
      [] OTHER -> main_has_expected_contract(r)

Look ==
    /\ PerRepo /\ rtool # "astro" /\ run.at = "look"
    /\ IF Complete(Here)
       THEN Onward([Mine EXCEPT !.state = "already_migrated"])
       ELSE run' = [run EXCEPT !.at = "branch", !.res[Here].base = repos[Here].main]
    /\ UNCHANGED <<job, repos, merges, meddled>>
-----------------------------------------------------------------------------
(* The branch.  deep looks at main again, zpkg builds on the main of its    *)
(* preflight; a branch that is there is taken over when its files are right. *)

TakesBranch(base) ==
    IF repos[Here].branch = 0 THEN run' = [run EXCEPT !.at = "create", !.res[Here].base = base]
    ELSE IF Content(Here, repos[Here].branch) # "proposed" THEN Error
    ELSE run' = [run EXCEPT !.at = "find", !.res[Here].head = repos[Here].branch]

branch_or_foundation_commit ==
    /\ At("deep", "branch")
    /\ LET main == repos[Here].main
       IN  CASE Content(Here, main) = "proposed" -> Onward([Mine EXCEPT !.state = "already_migrated"])
             [] Content(Here, main) = "foreign" -> RepoFails
             [] OTHER -> TakesBranch(main)
    /\ UNCHANGED <<job, repos, merges, meddled>>

branch_commit ==
    /\ At("zpkg", "branch")
    /\ IF Mine.state = "already_migrated" THEN Onward(Mine) ELSE TakesBranch(Mine.base)
    /\ UNCHANGED <<job, repos, merges, meddled>>

\* A commit on the base, then the ref.  Somebody may have been faster (422): the
\* same files will do.
CreateBranch ==
    /\ In(GatedTools, "create")
    /\ IF repos[Here].branch = 0
       THEN /\ repos' = [repos EXCEPT ![Here] =
                  [WithCommit(Here, "proposed", Mine.base) EXCEPT !.branch = NewSha(Here)]]
            /\ \/ run' = [run EXCEPT !.at = "find", !.res[Here].head = NewSha(Here)]
               \/ Error
       ELSE /\ UNCHANGED repos
            /\ IF Content(Here, repos[Here].branch) = "proposed"
               THEN run' = [run EXCEPT !.at = "find", !.res[Here].head = repos[Here].branch]
               ELSE Error
    /\ UNCHANGED <<job, merges, meddled>>

\* The others commit first.  installed moves its branch only forward, hhaus only
\* from where main is; the branch of notes is the run's own.
commit_files(r) == WithCommit(r, "proposed", Mine.base)
set_branch(r) == repos[r].branch = 0 \/ repos[r].branch \in Ancestors(r, Mine.base)
BranchAtMain(r) == repos[r].branch \in {0, Mine.base}

SetBranch ==
    /\ PerRepo /\ run.at = "branch"
    /\ LET allowed == CASE rtool = "installed" -> set_branch(Here)
                        [] rtool = "hhaus" -> BranchAtMain(Here)
                        [] OTHER -> TRUE
       IN  \/ /\ allowed
              /\ repos' = [repos EXCEPT ![Here] = [commit_files(Here) EXCEPT !.branch = NewSha(Here)]]
              /\ \/ run' = [run EXCEPT !.at = "find", !.res[Here].head = NewSha(Here)]
                 \/ Error
           \/ ~allowed /\ Error /\ UNCHANGED repos
    /\ UNCHANGED <<job, merges, meddled>>
-----------------------------------------------------------------------------
(* The pull request.  Looking gives its number, 0 when one must be opened,  *)
(* -1 when what is there will not do.                                       *)

Newest(r) == Len(repos[r].pulls)

find_or_create_pull_request(r, head) ==
    IF Newest(r) = 0 THEN 0
    ELSE IF Pull(r, Newest(r)).state = "merged" THEN Newest(r)
    ELSE IF Pull(r, Newest(r)).state = "open" /\ HeadOf(r, Newest(r)) = head THEN Newest(r)
    ELSE -1
find_or_create_pull(r, head) == find_or_create_pull_request(r, head)

\* Whatever its state and head.
pull(r) == Newest(r)
open_pull_request(r) == Newest(r)

OpenOnly(r) == IF OpenPulls(r) = {} THEN 0 ELSE CHOOSE k \in OpenPulls(r) : TRUE

Found ==
    CASE rtool = "deep" -> find_or_create_pull_request(Here, Mine.head)
      [] rtool = "zpkg" -> find_or_create_pull(Here, Mine.head)
      [] rtool = "installed" -> pull(Here)
      [] rtool = "notes" -> open_pull_request(Here)
      [] OTHER -> OpenOnly(Here)

\* The result with a pull request; deep sets those aside that were merged before.
WithPull(k) ==
    [Mine EXCEPT !.pull = k, !.state =
        IF rtool = "deep" /\ k \in DOMAIN repos[Here].pulls /\ Pull(Here, k).state = "merged"
        THEN "merged_pending_verify" ELSE "pull_request_open"]
HasPull(k) ==
    IF PerRepo THEN run' = [run EXCEPT !.at = "merge", !.res[Here] = WithPull(k)] ELSE Onward(WithPull(k))

FindPull ==
    /\ run.at = "find"
    /\ IF Found = -1 THEN Error
       ELSE IF Found = 0 THEN Goes("open") ELSE HasPull(Found)
    /\ UNCHANGED <<job, repos, merges, meddled>>

\* GitHub allows one open pull request of a branch; deep and zpkg look at its head.
OpenPull ==
    LET k == Newest(Here) + 1
    IN  /\ run.at = "open"
        /\ IF OpenPulls(Here) # {} \/ repos[Here].branch = 0 THEN Error /\ UNCHANGED repos
           ELSE /\ repos' = [repos EXCEPT ![Here].pulls =
                      Append(@, [state |-> "open", head |-> 0, draft |-> rtool = "zpkg"])]
                /\ \/ (rtool \in GatedTools => repos[Here].branch = Mine.head) /\ HasPull(k)
                   \/ Error
        /\ UNCHANGED <<job, merges, meddled>>
-----------------------------------------------------------------------------
(* Checks.  deep wants the verify check of the exact head to succeed; zpkg  *)
(* every check, or none where the repository has no workflows.              *)

verify_check_state(checks) == IF checks = "none" THEN "pending" ELSE checks
check_state(r, checks) == IF checks = "none" /\ ~repos[r].workflows THEN "central-only" ELSE checks
Polled(r) == IF rtool = "deep" THEN verify_check_state(Checks(r, run.res[r].head))
             ELSE check_state(r, Checks(r, run.res[r].head))

Waiting == {r \in RepoNames : run.res[r].state = "pull_request_open" /\ run.res[r].check = "none"}
Green == {"success", "central-only"}

\* One poll of one repository; in zpkg's last round none is still none.
wait_for_all_checks ==
    /\ In(GatedTools, "checks")
    /\ \E r \in Waiting :
         /\ Polled(r) \in {"success", "central-only", "failure"}
         /\ run' = [run EXCEPT !.res[r].check = Polled(r)]
    /\ UNCHANGED <<job, repos, merges, meddled>>

\* The deadline; zpkg merges nothing unless every check is green.
ChecksOver ==
    /\ In(GatedTools, "checks")
    /\ LET blocked == {r \in RepoNames : /\ run.res[r].state = "pull_request_open"
                                         /\ run.res[r].check \notin Green}
       IN  run' = IF rtool = "zpkg" /\ blocked # {} THEN [run EXCEPT !.at = "failed"]
                  ELSE Enter(run, "merge", With({"pull_request_open"}))
    /\ UNCHANGED <<job, repos, merges, meddled>>
-----------------------------------------------------------------------------
(* The merge.                                                               *)

MergesNothing ==
    /\ In(GatedTools, "merge") /\ With({"pull_request_open"}) = <<>>
    /\ Goes("verify old")
    /\ UNCHANGED <<job, repos, merges, meddled>>

merge_and_verify ==
    /\ At("deep", "merge") /\ Mine.state = "pull_request_open"
    /\ IF Mine.check = "success" THEN Goes("put") ELSE RepoFails
    /\ UNCHANGED <<job, repos, merges, meddled>>

\* The head is compared, the draft made ready and main looked at once more.
mark_ready(r, k) == [repos EXCEPT ![r].pulls[k].draft = FALSE]
merge_one ==
    /\ At("zpkg", "merge") /\ Mine.state = "pull_request_open"
    /\ IF HeadOf(Here, Mine.pull) # Mine.head THEN RepoFails /\ UNCHANGED repos
       ELSE /\ repos' = mark_ready(Here, Mine.pull)
            /\ CASE classify_paths(Content(Here, repos[Here].main)) = "proposed" ->
                      Onward([Mine EXCEPT !.state = "already_migrated"])
                 [] classify_paths(Content(Here, repos[Here].main)) = "refused" -> RepoFails
                 [] OTHER -> Goes("put")
    /\ UNCHANGED <<job, merges, meddled>>

\* installed and hhaus ask for no checks; one merged before is merged.
merge ==
    /\ In({"installed", "hhaus"}, "merge")
    /\ IF Pull(Here, Mine.pull).state = "merged" /\ rtool = "installed"
       THEN Onward([Mine EXCEPT !.state = "merged"]) ELSE Goes("put")
    /\ UNCHANGED <<job, repos, merges, meddled>>

\* notes: no check of the head is pending or bad; the time may run out.
status_ready(checks) == checks \in {"none", "success"}
merge_pull_request ==
    /\ At("notes", "merge")
    /\ \/ /\ Pull(Here, Mine.pull).state = "merged"
          /\ Onward([Mine EXCEPT !.state = "merged"])
       \/ /\ Pull(Here, Mine.pull).state # "merged" /\ status_ready(Checks(Here, Mine.head))
          /\ Goes("put")
       \/ ~status_ready(Checks(Here, Mine.head)) /\ Onward([Mine EXCEPT !.state = "not_merged"])
    /\ UNCHANGED <<job, repos, merges, meddled>>

\* The PUT with the head's sha.  An answer that is lost is asked again and then
\* refused: the request is reported as blocked though it was merged.
AfterPut == IF rtool \in {"deep", "zpkg", "hhaus"} THEN Goes("verify")
            ELSE Onward([Mine EXCEPT !.state = "merged"])
Passed(r) == Checks(r, run.res[r].head) = "success" \/ (rtool = "zpkg" /\ ~repos[r].workflows)
MergeOf(sha) ==
    [repo |-> Here, content |-> Content(Here, sha),
     passed |-> Checks(Here, sha) = "success" \/ (rtool = "zpkg" /\ ~repos[Here].workflows),
     fleet |-> \A r \in RepoNames : run.res[r].state = "pull_request_open" => Passed(r)]

put_any_head ==
    /\ run.at = "put"
    /\ IF Mergeable(Here, Mine.pull, HeadOf(Here, Mine.pull))
       THEN /\ \E deleted \in BOOLEAN : repos' = [repos EXCEPT ![Here] = Merged(Here, Mine.pull, deleted)]
            /\ merges' = merges \union {MergeOf(HeadOf(Here, Mine.pull))}
            /\ AfterPut \/ Error
       ELSE Error /\ UNCHANGED <<repos, merges>>
    /\ UNCHANGED <<job, meddled>>
put ==
    /\ run.at = "put"
    /\ IF Mergeable(Here, Mine.pull, Mine.head)
       THEN /\ \E deleted \in BOOLEAN : repos' = [repos EXCEPT ![Here] = Merged(Here, Mine.pull, deleted)]
            /\ merges' = merges \union {MergeOf(Mine.head)}
            /\ AfterPut \/ Error
       ELSE Error /\ UNCHANGED <<repos, merges>>
    /\ UNCHANGED <<job, meddled>>

\* What is on main now must be what was proposed.
Verify ==
    /\ run.at = "verify"
    /\ IF Content(Here, repos[Here].main) = "proposed"
       THEN Onward([Mine EXCEPT !.state = "merged_verified"]) ELSE Error
    /\ UNCHANGED <<job, repos, merges, meddled>>

\* deep: the ones an earlier run merged.
VerifyOld ==
    /\ run.at = "verify old"
    /\ run' = [run EXCEPT !.at = "done", !.res = [r \in RepoNames |->
          IF @[r].state # "merged_pending_verify" THEN @[r]
          ELSE [@[r] EXCEPT !.state = IF Content(r, repos[r].main) = "proposed"
                                      THEN "merged_verified" ELSE "failed"]]]
    /\ UNCHANGED <<job, repos, merges, meddled>>
-----------------------------------------------------------------------------
(* The site of an organization.  One that is an Astro site already is kept, *)
(* but for the workflow that publishes it; whether it is one is read before *)
(* the commit that the new one is put on.                                   *)

IsAstro(content) == content \in {"proposed", "foreign"}
detect_astro ==
    /\ At("astro", "look")
    /\ run' = [run EXCEPT !.at = "base", !.res[Here].seen = repos[Here].main, !.res[Here].state =
          IF IsAstro(Content(Here, repos[Here].main)) THEN "preserved_existing_astro" ELSE "generated"]
    /\ UNCHANGED <<job, repos, merges, meddled>>

wait_for_main ==
    /\ At("astro", "base")
    /\ run' = [run EXCEPT !.at = "commit", !.res[Here].base = repos[Here].main]
    /\ UNCHANGED <<job, repos, merges, meddled>>

\* The files are compared with what main has now; the commit goes on the main seen
\* before, and the ref moves only forward.
Desired(r) == IF Mine.state = "generated" THEN "proposed" ELSE Content(r, Mine.base)
Unchanged(r) ==
    /\ repos[r].workflows
    /\ Mine.state = "generated" => Content(r, repos[r].main) = "proposed"
CommitFiles ==
    /\ At("astro", "commit")
    /\ IF Unchanged(Here)
       THEN run' = [run EXCEPT !.at = "pages", !.res[Here].head = Mine.base] /\ UNCHANGED <<repos, merges>>
       ELSE IF repos[Here].main # Mine.base THEN Error /\ UNCHANGED <<repos, merges>>
       ELSE /\ repos' = [repos EXCEPT ![Here] = [WithCommit(Here, Desired(Here), Mine.base)
                            EXCEPT !.main = NewSha(Here), !.workflows = TRUE]]
            /\ run' = [run EXCEPT !.at = "pages", !.res[Here].head = NewSha(Here)]
            /\ merges' = merges \union
                 {[repo |-> Here, content |-> Desired(Here), over |-> Content(Here, Mine.base),
                   moved |-> Mine.base # Mine.seen]}
    /\ UNCHANGED <<job, meddled>>

configure_pages ==
    /\ At("astro", "pages") /\ (Goes("run") \/ Error)
    /\ UNCHANGED <<job, repos, merges, meddled>>

\* A run of the exact commit succeeded; or all of them failed, or the time is up.
wait_for_successful_run ==
    /\ At("astro", "run")
    /\ IF Checks(Here, Mine.head) = "success" THEN Goes("live") ELSE Error
    /\ UNCHANGED <<job, repos, merges, meddled>>

\* A generated site is known by its marker; of a preserved one any page will do.
wait_for_live ==
    /\ At("astro", "live")
    /\ Onward([Mine EXCEPT !.state = "live"]) \/ Error
    /\ UNCHANGED <<job, repos, merges, meddled>>
-----------------------------------------------------------------------------
(* execute (deep and zpkg), main and one (installed), publish_scaffold.     *)

\* zpkg looks at its plan, the digest that was reviewed and the owners first, and
\* at the reconciled manifests after the repositories it may change.
PlanIsReviewed ==
    /\ load_plan(job.plan)
    /\ job.modes[run.starts + 1] = "merge-reviewed" => job.reviewed
    /\ \A owner \in job.owners : validate_owner(owner)
ReconciledHold == \A item \in Members(job.plan.reconciled) : verify_reconciled_blob(item, job.blobs[item.repository])

\* main of the builder: the plan is replaced once it is complete, or left alone.
BuildPlan ==
    /\ rtool = "zpkg" /\ job.plan = NoPlan
    /\ build_plan(job.inventory) # NoPlan
    /\ job' = [job EXCEPT !.plan = build_plan(job.inventory)]
    /\ UNCHANGED <<repos, run, merges, meddled>>

execute ==
    /\ run.at \in {"idle", "done", "failed"} /\ run.starts < job.starts
    /\ rtool = "zpkg" => job.plan # NoPlan
    /\ run' = [Enter(Resting("idle"), IF PerRepo THEN "ensure" ELSE "preflight", RepoOrder)
                 EXCEPT !.starts = run.starts + 1,
                        !.at = IF rtool = "zpkg" /\ ~PlanIsReviewed THEN "failed" ELSE @]
    /\ UNCHANGED <<job, repos, merges, meddled>>

\* The mode may end zpkg after the preflight or once the pull requests are open.
EndsHere ==
    /\ rtool = "zpkg"
    /\ \/ run.stage = "preflight" /\ job.modes[run.starts] = "preflight"
       \/ run.stage = "branch" /\ job.modes[run.starts] = "create-pulls"

StageOver ==
    /\ run.at = "stage over"
    /\ run' = CASE run.stage = "preflight" /\ rtool = "zpkg" /\ ~ReconciledHold -> [run EXCEPT !.at = "failed"]
                [] EndsHere -> [run EXCEPT !.at = "done"]
                [] run.stage = "preflight" /\ ~EndsHere -> Enter(run, "branch", Selected)
                [] run.stage = "branch" /\ ~EndsHere -> [run EXCEPT !.at = "checks", !.stage = "checks"]
                [] run.stage = "merge" /\ ~PerRepo -> [run EXCEPT !.at = "verify old"]
                [] OTHER -> [run EXCEPT !.at = "done"]
    /\ UNCHANGED <<job, repos, merges, meddled>>

Dies ==
    /\ run.at \notin {"idle", "done", "failed"}
    /\ Goes("failed")
    /\ UNCHANGED <<job, repos, merges, meddled>>

\* CI reports on the commit of a branch, or on the one astro waits for.
Watched(r) == IF rtool = "astro" THEN run.res[r].head ELSE repos[r].branch
CheckReports(r, result) ==
    /\ Watched(r) # 0 /\ Checks(r, Watched(r)) \in {"none", "pending"}
    /\ Checks(r, Watched(r)) # result
    /\ repos' = [repos EXCEPT ![r].commits[Watched(r)].checks = result]
    /\ UNCHANGED <<job, run, merges, meddled>>

SomebodyPushes(r, content) ==
    /\ repos[r].exists /\ meddled < job.meddling /\ meddled' = meddled + 1
    /\ \/ repos' = [repos EXCEPT ![r] = [WithCommit(r, content, repos[r].main) EXCEPT !.main = NewSha(r)]]
       \/ repos' = [repos EXCEPT ![r] = [WithCommit(r, content, repos[r].main) EXCEPT !.branch = NewSha(r)]]
    /\ UNCHANGED <<job, run, merges>>

SomebodyCloses(r, k) ==
    /\ meddled < job.meddling /\ meddled' = meddled + 1
    /\ Pull(r, k).state = "open"
    /\ repos' = [repos EXCEPT ![r].pulls[k].state = "closed", ![r].pulls[k].head = HeadOf(r, k)]
    /\ UNCHANGED <<job, run, merges>>

PRInit ==
    /\ job \in Jobs
    /\ repos \in [RepoNames -> {Fresh(TRUE), Fresh(FALSE)} \union
                    (IF rtool \in {"installed", "hhaus", "astro"} THEN {NotThere} ELSE {}) \union
                    IF rtool = "astro" THEN {OwnSite(TRUE), OwnSite(FALSE)} ELSE {}]
    /\ run = Resting("idle")
    /\ merges = {} /\ meddled = 0

RunStep ==
    \/ BuildPlan \/ execute \/ StageOver \/ Preflight \/ Ensure \/ Look
    \/ branch_or_foundation_commit \/ branch_commit \/ CreateBranch \/ SetBranch
    \/ FindPull \/ OpenPull \/ wait_for_all_checks \/ ChecksOver
    \/ MergesNothing \/ merge_and_verify \/ merge_one \/ merge \/ merge_pull_request
    \/ put \/ Verify \/ VerifyOld \/ Dies
    \/ detect_astro \/ wait_for_main \/ CommitFiles \/ configure_pages
    \/ wait_for_successful_run \/ wait_for_live

PRNext ==
    \/ RunStep
    \/ \E r \in RepoNames, result \in {"pending", "success", "failure"} : CheckReports(r, result)
    \/ \E r \in RepoNames, content \in {"source", "proposed", "foreign"} : SomebodyPushes(r, content)
    \/ \E r \in RepoNames : \E k \in DOMAIN repos[r].pulls : SomebodyCloses(r, k)
-----------------------------------------------------------------------------
\* The manifest is one of the scan, in a repository in use, and not one of the
\* exceptions.
FromInventory(mu) ==
    \E i \in Members(job.inventory.scan) :
        /\ PathOf(i) = PathOf(mu) /\ mu.source_blob = SourceBlob(job.inventory, i)
        /\ Entry(job.inventory.immutable, i) = {}
        /\ \A t \in Entry(job.inventory.reconciled, i) : t.snapshot # i.blob
        /\ \A r \in Members(job.inventory.repositories) : r.name = i.repository => ~r.archived

(* A tool merges nothing but the files it proposed, at a head whose checks  *)
(* passed when the tool waits for checks, and zpkg merges nothing unless    *)
(* every pull request of its run had passed, nor anything of another phase  *)
(* or of a plan nobody reviewed (put, merge_one, merge_and_verify;          *)
(* somebody may push between any two requests).  A site that its owners     *)
(* wrote is replaced only if they pushed it after detect_astro had looked.  *)
(* What zpkg merges was rewritten from a manifest that the scan found in a   *)
(* repository in use, and that nobody had set aside (build_plan).            *)
MergedWasReviewed ==
    \A m \in merges : /\ rtool # "astro" => m.content = "proposed"
                      /\ rtool = "astro" /\ m.over = "foreign" => m.content = "foreign" \/ m.moved
                      /\ rtool \in GatedTools => m.passed
                      /\ rtool = "zpkg" =>
                           /\ m.fleet /\ job.reviewed /\ PhaseOf(job.plan, m.repo) = job.phase
                           /\ \A mu \in Members(job.plan.mutations) : FromInventory(mu)
=============================================================================
