---------------------------- MODULE JobLifecycle ----------------------------
(***************************************************************************)
(* What the queue promises about one job, without rows, leases, workers or *)
(* time: a job is started at most `limit` times, a job that is not started *)
(* can still be, and a finished job stays finished.  Several jobs may move *)
(* in one step, since a claim sweeps the whole table.                      *)
(***************************************************************************)
EXTENDS Naturals

CONSTANT Job

VARIABLES life, tries, limit

lifeVars == <<life, tries, limit>>

Finished == {"succeeded", "failed", "cancelled"}

LifeInit ==
  /\ life = [j \in Job |-> "absent"]
  /\ tries = [j \in Job |-> 0]
  /\ limit = [j \in Job |-> 0]

Same(j) == life'[j] = life[j] /\ tries'[j] = tries[j] /\ limit'[j] = limit[j]

Enqueue(j) ==
  /\ life[j] = "absent" /\ life'[j] = "queued"
  /\ tries'[j] = 0 /\ limit'[j] > 0

\* A start uses up one try.  A job whose worker vanished is started again
\* without being seen in the queue when one claim both sweeps and leases it.
Start(j) ==
  /\ life[j] \in {"queued", "running"} /\ life'[j] = "running"
  /\ tries[j] < limit[j]
  /\ tries'[j] = tries[j] + 1 /\ limit'[j] = limit[j]

Requeue(j) ==
  /\ life[j] = "running" /\ life'[j] = "queued"
  /\ tries[j] < limit[j]
  /\ tries'[j] = tries[j] /\ limit'[j] = limit[j]

Finish(j) ==
  /\ life[j] = "running" /\ life'[j] \in {"succeeded", "failed"}
  /\ tries'[j] = tries[j] /\ limit'[j] = limit[j]

Cancel(j) ==
  /\ life[j] \in {"queued", "running"} /\ life'[j] = "cancelled"
  /\ tries'[j] = tries[j] /\ limit'[j] = limit[j]

Move(j) == Same(j) \/ Enqueue(j) \/ Start(j) \/ Requeue(j) \/ Finish(j) \/ Cancel(j)

LifeNext == \A j \in Job : Move(j)

LifeSpec == LifeInit /\ [][LifeNext]_lifeVars
=============================================================================
