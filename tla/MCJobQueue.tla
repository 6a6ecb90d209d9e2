----------------------------- MODULE MCJobQueue -----------------------------
(* Instances of JobQueue for TLC.                                          *)
EXTENDS JobQueue, TLC

CONSTANTS j1, j2, w1, c1, c2

Req(o, p, t, prio, max, avail, key, run) ==
  [org |-> o, repo |-> p, task_type |-> t, priority |-> prio,
   max_attempts |-> max, available |-> avail, key |-> key, run_id |-> run]

NoLimits == [x \in {} |-> 0]
AnyFilter == [orgs |-> {}, repositories |-> {}, task_types |-> {}]

OneRepoCap == (<<"org", "a">> :> 1)

\* Two jobs of one repository that runs one at a time, the first one keyed; the
\* window of one row is filled by the job in front.
LiveRequests ==
  {Req("org", "a", "build", 0, 2, 0, "k", NULL),
   Req("org", "a", "build", 1, 1, 1, NULL, NULL)}

LiveFilters == {AnyFilter}
=============================================================================
