--------------------------- MODULE MCRecoveryWorker ---------------------------
(* Two workers, one job of two attempts, a required source and an optional  *)
(* one without a token.                                                     *)
EXTENDS RecoveryWorker

MCSpecs == <<"chatgpt", "linear">>

MCPayload == [j \in Jobs |->
    [well_formed |-> TRUE, forbidden |-> Mandatory, chatgpt_scan |-> TRUE,
     claude_scan |-> FALSE, scheduled_for |-> 0]]

Url(kind, value) == [repo |-> "r", kind |-> kind, value |-> value]

\* A branch that is published without a pull request, and the same with one.
Item(s, ph) ==
    [fields |-> TRUE, content |-> "plain", origin |-> "chatgpt", id |-> s, repo |-> "r", kind |-> "code", owned |-> TRUE,
     expected |-> NULL, branch |-> "b", pull_required |-> TRUE, may_create |-> TRUE,
     artifact |-> [kind |-> "archive", commit |-> 7, paths |-> {"relative"}],
     git |-> TRUE, remote_present |-> TRUE, head |-> NULL,
     local_branches |-> {"b"}, dirty |-> FALSE, collected |-> TRUE,
     repo_exists |-> TRUE, repo_url |-> Url("tree", 0),
     remote_branches |-> {[name |-> "b", sha |-> 7]}, commits |-> {},
     pulls |-> IF ph = "done" THEN {[number |-> 1, url |-> Url("pull", 1), head |-> "b"]}
               ELSE {},
     claimed_repo |-> NULL, claimed_commit |-> NULL, claimed_branch |-> NULL,
     claimed_pull |-> NULL]

MCObserved == [sp \in ToSet(Specs) \X {"open", "done"} |-> Item(sp[1], sp[2])]

MCUnusable == {[Item("chatgpt", "open") EXCEPT !.content = "credential"]}

WorkerSymmetry == Permutations(Workers)
=============================================================================
