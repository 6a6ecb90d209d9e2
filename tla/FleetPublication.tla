--------------------------- MODULE FleetPublication ---------------------------
(***************************************************************************)
(* The publishers that push prepared histories to new repositories:        *)
(* scripts/publish_hypesiege_streempilot_fleet.py ("fleet"), which handles *)
(* one repository of its manifest per run, and tools/memebank_live         *)
(* ("memebank"), which handles all of its repositories in one run.  Both   *)
(* publish a monorepo whose gitlinks name commits of the other             *)
(* repositories.  Several runs may be under way, a run may die or lose an  *)
(* answer at any request, and other people push to the same repositories.  *)
(*                                                                         *)
(* A root commit is what it holds: a name, a tree and the gitlinks of the  *)
(* tree.  GitHub keeps every commit it was ever sent ("objects"); the      *)
(* history of main is the commits main leads to.                           *)
(***************************************************************************)
EXTENDS Integers, FiniteSets, Sequences, SequencesExt

CONSTANTS NULL,
          Orders,                      \* [tool, plan, checkouts] somebody may start runs with
          PubRuns,
          AllowedOrgs, ExpectedLinks,  \* organizations, and their monorepo's gitlinks
          Foreign, RecoveryBase,       \* commits of other people
          MaxForeign                   \* bound of the model: what others do

VARIABLES order, remote, runs, foreign

pubvars == <<order, remote, runs, foreign>>

plan == order.plan
Names == DOMAIN order.checkouts

Absent == [exists |-> FALSE, private |-> TRUE, settings |-> FALSE, main |-> NULL,
           history |-> {}, objects |-> {}, provenance |-> FALSE]
-----------------------------------------------------------------------------
(* Sealing: reconstruct_hypesiege_streempilot_fleet.py makes the histories  *)
(* and the manifest from what a generator wrote, children first.            *)

NoLinks == <<>>

amend_root_commit(name, tree, links) == [name |-> name, tree |-> tree, links |-> links]

Kids(rs, org) == {r \in ToSet(rs) : r.org = org /\ r.kind # "monorepo"}
Kid(rs, org, name) == CHOOSE r \in Kids(rs, org) : r.name = name

\* The monorepo's checkouts of its children, at the commits just sealed.
add_local_gitlinks(rs, org) ==
    [name \in {r.name : r \in Kids(rs, org)} |->
        amend_root_commit(name, Kid(rs, org, name).tree, NoLinks)]

\* Path and URL of every child; a URL is the name of what it points at.
write_gitmodules(rs, org) == [name \in {r.name : r \in Kids(rs, org)} |-> name]

Links(rs, r) == IF r.kind = "monorepo" THEN add_local_gitlinks(rs, r.org) ELSE NoLinks

\* The manifest: the monorepo of an organization comes after its children.
reconstruct_fleet(generated) ==
    LET record(r) == [org |-> r.org, name |-> r.name, kind |-> r.kind, remote |-> r.name,
                      commit |-> amend_root_commit(r.name, r.tree, Links(generated, r)),
                      gitlinks |-> Cardinality(DOMAIN Links(generated, r)), fields |-> TRUE]
        order_of(monorepo) == SelectSeq(generated, LAMBDA r : (r.kind = "monorepo") = monorepo)
        all == order_of(FALSE) \o order_of(TRUE)
    IN  [sealed |-> TRUE, records |-> [i \in DOMAIN all |-> record(all[i])]]

\* The checkout of a sealed record, as the operator finds it.
Checkout(generated, r) ==
    LET modules == IF r.kind = "monorepo" THEN write_gitmodules(generated, r.org) ELSE NoLinks
        links == Links(generated, r)
    IN  [head |-> amend_root_commit(r.name, r.tree, links), origin |-> r.name, modules |-> modules,
         submodules |-> [path \in DOMAIN links |-> [head |-> links[path], clean |-> TRUE]],
         present |-> TRUE, config |-> "plain", storage |-> "own", clean |-> TRUE, depth |-> 1]
-----------------------------------------------------------------------------
(* The manifest of the fleet, and the checkout a record is published from.  *)

\* Names, remote, branch, visibility, kind, commit, counts and description are
\* well formed when `fields` holds.
validate_record(r) ==
    /\ r.fields /\ r.org \in AllowedOrgs /\ r.remote = r.name
    /\ r.gitlinks = IF r.kind = "monorepo" THEN ExpectedLinks[r.org] ELSE 0

OfOrg(m, org) == SelectSeq(m.records, LAMBDA r : r.org = org)
Children(m, org) == Kids(m.records, org)

\* `sealed`: the digest of the generator, the counts and totals are the expected ones.
load_manifest(m) ==
    /\ m.sealed
    /\ \A i \in DOMAIN m.records : validate_record(m.records[i])
    /\ \A i, j \in DOMAIN m.records : m.records[i].name = m.records[j].name => i = j
    /\ \A org \in AllowedOrgs :
         LET rs == OfOrg(m, org)
         IN  /\ Cardinality({i \in DOMAIN rs : rs[i].kind = "monorepo"}) = 1
             /\ rs[Len(rs)].kind = "monorepo"

select_record(m, name) ==
    LET found == {r \in ToSet(m.records) : r.name = name}
    IN  IF Cardinality(found) = 1 THEN CHOOSE r \in found : TRUE ELSE NULL

\* The gitlinks of the index; with a clean tree they are those of the head.
staged_gitlinks(checkout) == checkout.head.links

\* .gitmodules names a path and a URL for every section, each path once.
gitmodule_entries(checkout) == checkout.modules

\* Local configuration that would redirect git, and storage that borrows objects.
unsafe_local_git_config(checkout) == checkout.config # "plain"
validate_git_storage(checkout) == checkout.storage = "own"

\* The monorepo's links are those of .gitmodules, and each is the commit its
\* child's record names, checked out, clean and without history.
preflight_source(m, r, checkout) ==
    LET links == staged_gitlinks(checkout)
        urls == gitmodule_entries(checkout)
        child(path) == {c \in Children(m, r.org) : c.remote = urls[path]}
    IN  /\ checkout.present
        /\ ~unsafe_local_git_config(checkout) /\ validate_git_storage(checkout)
        /\ checkout.head = r.commit /\ checkout.origin = r.remote
        /\ checkout.clean /\ checkout.depth = 1
        /\ Cardinality(DOMAIN links) = r.gitlinks
        /\ DOMAIN links = DOMAIN urls
        /\ links # NoLinks => Cardinality(Children(m, r.org)) = r.gitlinks
        /\ \A path \in DOMAIN links :
             /\ \E c \in child(path) : c.commit = links[path]
             /\ checkout.submodules[path] = [head |-> links[path], clean |-> TRUE]
-----------------------------------------------------------------------------
(* Runs.  A step sets where the run goes next; an error of any request, a   *)
(* lost answer and the death of the process all end in "failed".            *)

Idle == [at |-> "idle", repo |-> NULL, left |-> {}, queue |-> <<>>, base |-> NULL,
         published |-> {}, failures |-> {}]

Goes(p, at) == runs' = [runs EXCEPT ![p].at = at]
At(p, t, at) == order.tool = t /\ runs[p].at = at
Over(p) == runs[p].at \in {"idle", "done", "failed"}       \* the tool may be started again
Record(p) == select_record(plan, runs[p].repo)
Target(p) == remote[runs[p].repo]

\* Main takes a commit with the ancestors of `line`, without force: main must be
\* empty or in the line.
Accepts(name, line) == remote[name].main = NULL \/ remote[name].main \in line
Pushed(name, tip, line) ==
    [remote EXCEPT ![name].main = tip, ![name].history = line, ![name].objects = @ \union line]

\* main, up to the token: the plan alone is printed without --execute.
main(p, name) ==
    /\ order.tool = "fleet" /\ Over(p)
    /\ LET r == select_record(plan, name)
           ready == load_manifest(plan) /\ r # NULL /\ preflight_source(plan, r, order.checkouts[name])
       IN  runs' = [runs EXCEPT ![p] =
              IF ready THEN [Idle EXCEPT !.at = "children", !.repo = name,
                               !.left = IF r.kind = "monorepo" THEN Children(plan, r.org) ELSE {}]
              ELSE [Idle EXCEPT !.at = "failed"]]
    /\ UNCHANGED <<order, remote, foreign>>

\* One question per child: what is its main?
verify_existence_only(p) ==
    /\ At(p, "fleet", "children")
    /\ IF runs[p].left = {} THEN Goes(p, "ensure")
       ELSE \E c \in runs[p].left :
              runs' = IF remote[c.name].exists THEN [runs EXCEPT ![p].left = @ \ {c}]
                      ELSE [runs EXCEPT ![p].at = "failed"]
    /\ UNCHANGED <<order, remote, foreign>>
verify_monorepo_children(p) ==
    /\ At(p, "fleet", "children")
    /\ IF runs[p].left = {} THEN Goes(p, "ensure")
       ELSE \E c \in runs[p].left :
              runs' = IF remote[c.name].main = c.commit THEN [runs EXCEPT ![p].left = @ \ {c}]
                      ELSE [runs EXCEPT ![p].at = "failed"]
    /\ UNCHANGED <<order, remote, foreign>>

\* Identity, owner, visibility and URLs are GitHub's to answer; the settings are
\* demanded of a repository this run did not create.
validate_repository_metadata(repository, require_settings) ==
    repository.exists /\ repository.private /\ (require_settings => repository.settings)

ensure_repository(p) ==
    /\ At(p, "fleet", "ensure")
    /\ Goes(p, IF ~Target(p).exists THEN "create"
               ELSE IF validate_repository_metadata(Target(p), TRUE) THEN "read" ELSE "failed")
    /\ UNCHANGED <<order, remote, foreign>>

Created == [Absent EXCEPT !.exists = TRUE, !.settings = TRUE]

\* The POST.  It is refused when somebody was faster; its answer may be lost.
CreateRepository(p) ==
    /\ At(p, "fleet", "create")
    /\ IF Target(p).exists THEN Goes(p, "failed") /\ UNCHANGED remote
       ELSE /\ remote' = [remote EXCEPT ![runs[p].repo] = Created]
            /\ \E next \in {"read", "failed"} : Goes(p, next)
    /\ UNCHANGED <<order, foreign>>

remote_main_commit(name) == remote[name].main

\* publish_record: a main that is there and is not the record's is left alone.
ReadMain(p) ==
    LET existing == remote_main_commit(runs[p].repo)
    IN  /\ At(p, "fleet", "read")
        /\ Goes(p, IF existing = NULL THEN "push"
                   ELSE IF existing = Record(p).commit THEN "configure" ELSE "failed")
        /\ UNCHANGED <<order, remote, foreign>>

push_main(p) ==
    /\ At(p, "fleet", "push")
    /\ IF Accepts(runs[p].repo, {Record(p).commit})
       THEN /\ remote' = Pushed(runs[p].repo, Record(p).commit, {Record(p).commit})
            /\ \E next \in {"configure", "failed"} : Goes(p, next)
       ELSE Goes(p, "failed") /\ UNCHANGED remote
    /\ UNCHANGED <<order, foreign>>

configure_repository(p) ==
    /\ At(p, "fleet", "configure")
    /\ Goes(p, IF validate_repository_metadata(Target(p), TRUE) THEN "verify" ELSE "failed")
    /\ UNCHANGED <<order, remote, foreign>>

\* The last look at the remote; only then is the record reported as published.
publish_record(p) ==
    /\ At(p, "fleet", "verify")
    /\ runs' = IF remote_main_commit(runs[p].repo) = Record(p).commit
               THEN [runs EXCEPT ![p].at = "done", ![p].published = {runs[p].repo}]
               ELSE [runs EXCEPT ![p].at = "failed"]
    /\ UNCHANGED <<order, remote, foreign>>
-----------------------------------------------------------------------------
(* memebank_live.  The records in order, the monorepo after the others and  *)
(* .github last; the failure of one record does not stop the next.          *)

IsMonorepo(p) == Record(p).kind = "monorepo"
IsGovernance(p) == Record(p).kind = "governance"

\* validate_memebank_source_v2.py: every gitlink pins the head of its child, and
\* the histories made from the archive end in the heads the manifest names.
load_source_manifest(m) ==
    /\ m.sealed
    /\ \A path \in DOMAIN m.links : \E r \in ToSet(m.records) : r.name = path /\ r.commit = m.links[path]

initialize(m, r, tree) == amend_root_commit(r.name, tree, IF r.kind = "monorepo" THEN m.links ELSE NoLinks)

validate_histories(m, checkouts) ==
    \A r \in ToSet(m.records) : initialize(m, r, checkouts[r.name].head.tree) = r.commit

load_records(m) ==
    /\ \A i, j \in DOMAIN m.records : m.records[i].name = m.records[j].name => i = j
    /\ m.records[Len(m.records)].kind = "monorepo"

reconstruct(m) == load_source_manifest(m) /\ load_records(m) /\ validate_histories(m, order.checkouts)

\* The monorepo is the last of the ordered ones; the governance repository follows.
RecordOrder(m) ==
    LET names(rs) == [i \in DOMAIN rs |-> rs[i].name]
    IN  names(SelectSeq(m.records, LAMBDA r : r.kind # "governance"))
        \o names(SelectSeq(m.records, LAMBDA r : r.kind = "governance"))

\* run_publication, up to the loop; the project and the tracking issue are
\* looked up and made there.
run_publication(p) ==
    /\ order.tool = "memebank" /\ Over(p)
    /\ runs' = [runs EXCEPT ![p] =
          IF reconstruct(plan)
          THEN [Idle EXCEPT !.at = "next", !.queue = RecordOrder(plan)]
          ELSE [Idle EXCEPT !.at = "failed"]]
    /\ UNCHANGED <<order, remote, foreign>>

\* The next record, or the ledger and the end.
NextRecord(p) ==
    /\ At(p, "memebank", "next")
    /\ runs' = IF runs[p].queue = <<>> THEN [runs EXCEPT ![p].at = "done"]
               ELSE [runs EXCEPT ![p].at = "ensure", ![p].repo = Head(runs[p].queue),
                                 ![p].queue = Tail(@), ![p].base = NULL]
    /\ UNCHANGED <<order, remote, foreign>>

record_failure(p) ==
    runs' = [runs EXCEPT ![p].at = "next", ![p].failures = @ \union {runs[p].repo}]

\* The repository is looked up, made unless it is .github, and patched.
ensure_private_repository(p) ==
    /\ At(p, "memebank", "ensure")
    /\ \/ /\ \/ ~Target(p).exists /\ ~IsGovernance(p)
             \/ Target(p).exists /\ (Target(p).private <=> ~IsGovernance(p))
          /\ remote' = [remote EXCEPT ![runs[p].repo] =
                IF @.exists THEN [@ EXCEPT !.settings = TRUE] ELSE Created]
          /\ \/ Goes(p, IF IsMonorepo(p) THEN "targets"
                        ELSE IF IsGovernance(p) THEN "provenance" ELSE "push")
             \/ record_failure(p)
       \/ record_failure(p) /\ UNCHANGED remote
    /\ UNCHANGED <<order, foreign>>

\* GitHub answers for every commit it holds, on whatever branch.
commit_reachable(name, commit) == commit \in remote[name].objects

validate_monorepo_targets(p) ==
    LET links == plan.links
        found(path) == {r \in ToSet(plan.records) : r.name = path}
    IN  /\ At(p, "memebank", "targets")
        /\ IF \A path \in DOMAIN links :
                 \E r \in found(path) : /\ r.commit = links[path]
                                        /\ commit_reachable(r.name, links[path])
           THEN Goes(p, "push") ELSE record_failure(p)
        /\ UNCHANGED <<order, remote, foreign>>

\* What is on main, and whether the approved head is known: an empty main takes
\* the approved history; one that lacks it is refused, but for memebank-e2e, where
\* the history is attached.
push_initial(p) ==
    /\ At(p, "memebank", "push")
    /\ IF Target(p).main = NULL THEN Goes(p, "first")
       ELSE IF commit_reachable(runs[p].repo, Record(p).commit) THEN Goes(p, "provenance")
       ELSE IF Record(p).kind = "e2e" THEN Goes(p, "attach") ELSE record_failure(p)
    /\ UNCHANGED <<order, remote, foreign>>

FirstPush(p) ==
    LET commit == Record(p).commit
    IN  /\ At(p, "memebank", "first")
        /\ IF Accepts(runs[p].repo, {commit})
           THEN /\ remote' = Pushed(runs[p].repo, commit, {commit})
                /\ Goes(p, "pushed") \/ record_failure(p)
           ELSE record_failure(p) /\ UNCHANGED remote
        /\ UNCHANGED <<order, foreign>>

\* What was pushed is read back.
PushedIsThere(p) ==
    /\ At(p, "memebank", "pushed")
    /\ IF Target(p).main = Record(p).commit THEN Goes(p, "provenance") ELSE record_failure(p)
    /\ UNCHANGED <<order, remote, foreign>>

\* The live main must hold the reviewed recovery; the approved head is sent on a
\* branch of its own first.
attach_e2e_source_history(p) ==
    /\ At(p, "memebank", "attach")
    /\ IF RecoveryBase \in Target(p).history
       THEN /\ remote' = [remote EXCEPT ![runs[p].repo].objects = @ \union {Record(p).commit}]
            /\ \/ runs' = [runs EXCEPT ![p].at = "join", ![p].base = Target(p).main]
               \/ record_failure(p)
       ELSE record_failure(p) /\ UNCHANGED remote
    /\ UNCHANGED <<order, foreign>>

\* A commit with both parents and the tree of main is pushed to main.
JoinHistories(p) ==
    LET joined == amend_root_commit(runs[p].repo, "joined", NoLinks)
        line == Target(p).history \union {Record(p).commit, joined}
    IN  /\ At(p, "memebank", "join")
        /\ IF runs[p].base = Target(p).main
           THEN /\ remote' = Pushed(runs[p].repo, joined, line)
                /\ Goes(p, "provenance") \/ record_failure(p)
           ELSE record_failure(p) /\ UNCHANGED remote
        /\ UNCHANGED <<order, foreign>>

\* clone_live and write_provenance: a record that is current needs no request.
\* Otherwise a branch of the run's own and a pull request carry it, which is
\* merged, or is not for one of the reasons of merge_pull_request.
publish_provenance_pr(p) ==
    LET noted == amend_root_commit(runs[p].repo, "noted", NoLinks)
        result == [runs EXCEPT ![p].at = "next", ![p].published = @ \union {runs[p].repo}]
    IN  /\ At(p, "memebank", "provenance")
        /\ \/ Target(p).provenance /\ runs' = result /\ UNCHANGED remote
           \/ /\ ~Target(p).provenance /\ Target(p).main # NULL
              /\ remote' = [Pushed(runs[p].repo, noted, Target(p).history \union {noted})
                            EXCEPT ![runs[p].repo].provenance = TRUE]
              /\ runs' = result \/ record_failure(p)
           \/ record_failure(p) /\ UNCHANGED remote
        /\ UNCHANGED <<order, foreign>>
-----------------------------------------------------------------------------
(* Other people, and the death of a run.                                    *)

Dies(p) ==
    /\ ~Over(p)
    /\ Goes(p, "failed")
    /\ UNCHANGED <<order, remote, foreign>>

\* Somebody creates a repository, or pushes to one: over what is there, or on top.
SomebodyPushes(name, commit) ==
    /\ foreign < MaxForeign /\ foreign' = foreign + 1
    /\ \E over \in BOOLEAN :
         LET here == IF remote[name].exists THEN remote[name] ELSE [Created EXCEPT !.settings = FALSE]
             before == IF over THEN {} ELSE remote[name].history
         IN  remote' = [remote EXCEPT ![name] = [here EXCEPT
                 !.main = commit, !.history = before \union {commit},
                 !.provenance = here.provenance /\ ~over,
                 !.objects = @ \union before \union {commit}]]
    /\ UNCHANGED <<order, runs>>

\* .github is a public repository that was there before.
Profile == amend_root_commit(".github", "profile", NoLinks)

PubInit ==
    /\ order \in Orders
    /\ remote = [name \in Names |->
          IF name = ".github" THEN [Created EXCEPT !.private = FALSE, !.main = Profile,
                                     !.history = {Profile}, !.objects = {Profile}]
          ELSE Absent]
    /\ runs = [p \in PubRuns |-> Idle]
    /\ foreign = 0

FleetStep(p) ==
    \/ \E name \in Names : main(p, name)
    \/ verify_monorepo_children(p) \/ ensure_repository(p) \/ CreateRepository(p)
    \/ ReadMain(p) \/ push_main(p) \/ configure_repository(p) \/ publish_record(p)

MemebankStep(p) ==
    \/ run_publication(p) \/ NextRecord(p) \/ ensure_private_repository(p)
    \/ validate_monorepo_targets(p) \/ push_initial(p) \/ FirstPush(p) \/ PushedIsThere(p)
    \/ attach_e2e_source_history(p) \/ JoinHistories(p) \/ publish_provenance_pr(p)

PubNext ==
    \/ \E p \in PubRuns : FleetStep(p) \/ MemebankStep(p) \/ Dies(p)
    \/ \E name \in Names, commit \in Foreign : SomebodyPushes(name, commit)
-----------------------------------------------------------------------------
(* Every gitlink of a published monorepo names a commit its repository      *)
(* holds, whatever order the runs came in and whoever pushed in between     *)
(* (verify_monorepo_children, validate_monorepo_targets).                   *)
GitlinksResolve ==
    \A r \in ToSet(plan.records) :
        r.kind = "monorepo" /\ r.commit \in remote[r.name].history =>
            \A path \in DOMAIN r.commit.links :
                r.commit.links[path] \in remote[order.checkouts[r.name].modules[path]].objects

(* The inductive invariant.  GitHub forgets no commit and no repository, so *)
(* what a run has seen of the children still holds when it pushes.          *)
LinksThere(r) ==
    \A path \in DOMAIN r.commit.links :
        LET child == order.checkouts[r.name].modules[path]
        IN  child \in Names /\ r.commit.links[path] \in remote[child].objects

RemoteOK ==
    /\ DOMAIN remote = Names
    /\ \A name \in Names :
         /\ DOMAIN remote[name] = DOMAIN Absent
         /\ remote[name].main = NULL \/ remote[name].main \in remote[name].objects
         /\ remote[name].exists \/ remote[name].objects = {}

\* A run of the fleet tool has looked at its source, then at each child in turn.
FleetRun(p) ==
    /\ load_manifest(plan) /\ Record(p) # NULL
    /\ preflight_source(plan, Record(p), order.checkouts[runs[p].repo])
    /\ Record(p).kind = "monorepo" =>
         \A c \in Children(plan, Record(p).org) \ runs[p].left : c.commit \in remote[c.name].objects
    /\ runs[p].at = "children" \/ runs[p].left = {}
    /\ runs[p].at \in {"read", "push", "configure", "verify"} /\ runs[p].repo \in Names => Target(p).exists

\* A run of memebank_live has reconstructed its sources; it pushes a monorepo only
\* after its targets, and joins only the history of the end-to-end repository.
MemebankRun(p) ==
    /\ reconstruct(plan)
    /\ runs[p].at \in {"push", "first"} /\ IsMonorepo(p) =>
         \A path \in DOMAIN plan.links : path \in Names /\ plan.links[path] \in remote[path].objects
    /\ runs[p].at \in {"attach", "join"} => ~IsMonorepo(p)
    /\ runs[p].at \notin {"next", "ensure"} /\ runs[p].repo \in Names => Target(p).exists

RunInv(p) ==
    ~Over(p) => /\ order.tool = "fleet" => FleetRun(p)
                /\ order.tool = "memebank" => MemebankRun(p)

PubInv ==
    /\ order \in Orders
    /\ RemoteOK
    /\ DOMAIN runs = PubRuns /\ \A p \in PubRuns : DOMAIN runs[p] = DOMAIN Idle /\ RunInv(p)
    /\ \A r \in ToSet(plan.records) :
         r.kind = "monorepo" /\ r.commit \in remote[r.name].history => LinksThere(r)
=============================================================================
