------------------------------ MODULE JobQueue ------------------------------
(***************************************************************************)
(* The leased job queue of the coordinator: the table `jobs` and the six   *)
(* operations of src/db.rs that change it, together with the clients that  *)
(* enqueue work and the workers that execute it.                           *)
(*                                                                         *)
(* Each SQL transaction is one step.  `claim_job_once` is serializable and *)
(* row-locks what it updates; heartbeat, complete and cancel re-check the  *)
(* row they update under its lock.  `create_job` is two statements outside *)
(* a transaction, so it is two steps here.                                 *)
(*                                                                         *)
(* Time is relative: `lease` and `available` hold what is left until the   *)
(* instant the column stores, and Tick lets one unit pass everywhere.      *)
(* An expired lease counts -1 (lease_expires_at < now), a due job counts 0 *)
(* (available_at <= now).                                                  *)
(*                                                                         *)
(* Columns no operation decides by are left out (payload, budget_usd,      *)
(* updated_at, last_error); `result` is the attempt that reported it.      *)
(*                                                                         *)
(* A worker is modelled by its executions: what it believes it holds after *)
(* a claim answered it.  The same worker id may have several of them, as   *)
(* the handlers' default worker ids do.                                    *)
(***************************************************************************)
EXTENDS Integers, FiniteSets

CONSTANTS
  Job,           \* row identifiers (UUIDs)
  Client,        \* concurrent POST /v1/jobs handlers
  Worker,        \* worker ids
  Request,       \* the CreateJobRequests clients send, with their header key
  Filter,        \* the (orgs, repositories, task_types) filters of claims
  LeaseSeconds,  \* the lease_seconds of claims and heartbeats
  RetryDelay,    \* the retry_delay_seconds of completions, any integers
  MaxRetryDelay, \* what they are clamped to (86400 in the code)
  SlackTask,     \* the task type "slack_agent_run"
  ClaimWindow,   \* LIMIT of the candidate query (200 in the code)
  OrgConcurrency, DefaultOrgConcurrency,    \* workers.* of the configuration
  RepoConcurrency, DefaultRepoConcurrency,
  NULL           \* SQL NULL / None

VARIABLES
  jobs,        \* the table: row id -> row
  creating,    \* per client: the request between its read and its insert
  replies,     \* what clients with a key were answered: [key, job]
  executions,  \* what workers believe they hold
  stale        \* history: jobs that accepted a call from an old execution

vars == <<jobs, creating, replies, executions, stale>>

Live == {"queued", "running"}
Terminal == {"succeeded", "failed", "cancelled"}
Status == Live \cup Terminal

Row == [status: Status, req: Request, created: Nat, available: Nat,
        claimed_by: Worker \cup {NULL}, lease: Int \cup {NULL},
        attempts: Nat, result: Nat]

Execution == [job: Job, worker: Worker, attempt: Nat, left: Int,
              phase: {"working", "reported"}]

Reply == [key: {r.key : r \in Request}, job: Job]

ASSUME QueueAssumption ==
  /\ IsFiniteSet(Job)
  /\ NULL \notin Int /\ NULL \notin Worker /\ NULL \notin Request
  /\ LeaseSeconds \subseteq Nat /\ RetryDelay \subseteq Int
  /\ MaxRetryDelay \in Nat
  /\ ClaimWindow \in Nat \ {0}
  /\ \A r \in Request : /\ r.max_attempts \in Int /\ r.priority \in Int
                        /\ r.available \in Nat

\* The defaults are validated to be positive; an override of zero is accepted
\* and stops its organisation or repository.
ASSUME LimitAssumption ==
  /\ DefaultOrgConcurrency \in Nat \ {0}
  /\ DefaultRepoConcurrency \in Nat \ {0}
  /\ \A o \in DOMAIN OrgConcurrency : OrgConcurrency[o] \in Nat
  /\ \A p \in DOMAIN RepoConcurrency : RepoConcurrency[p] \in Nat

-----------------------------------------------------------------------------
(* Requests and limits                                                     *)

\* CreateJobRequest::validate; the text checks are about the request's bytes.
validate(r) ==
  /\ r.max_attempts \in 1..100
  /\ r.priority \in (-1000)..1000

\* Mutant: the Slack key check is forgotten.
validate_no_key(r) == TRUE

\* A Slack run must be enqueued under its own run id.
validate_idempotency_key(r) ==
  r.task_type = SlackTask => r.key # NULL /\ r.key = r.run_id

accepts(f, r) ==
  /\ f.orgs = {} \/ r.org \in f.orgs
  /\ f.repositories = {} \/ {<<r.repo>>, <<r.org, r.repo>>} \cap f.repositories # {}
  /\ f.task_types = {} \/ r.task_type \in f.task_types

org_limit(o) ==
  IF o \in DOMAIN OrgConcurrency THEN OrgConcurrency[o]
                                 ELSE DefaultOrgConcurrency

repo_limit(o, p) ==
  IF <<o, p>> \in DOMAIN RepoConcurrency THEN RepoConcurrency[<<o, p>>]
                                         ELSE DefaultRepoConcurrency

-----------------------------------------------------------------------------
(* The table                                                               *)

WithKey(t, k) == {j \in DOMAIN t : t[j].req.key = k}

OrgRunning(t, o) == {j \in DOMAIN t : t[j].status = "running" /\ t[j].req.org = o}

RepoRunning(t, o, p) == {j \in OrgRunning(t, o) : t[j].req.repo = p}

\* The row create_job inserts.
NewRow(r) ==
  [status |-> "queued", req |-> r, created |-> Cardinality(DOMAIN jobs),
   available |-> r.available, claimed_by |-> NULL, lease |-> NULL,
   attempts |-> 0, result |-> 0]

\* Mutant: the lease column is not cleared.
ReleasedKeepsLease(row) == [row EXCEPT !.claimed_by = NULL]

Released(row) == [row EXCEPT !.claimed_by = NULL, !.lease = NULL]

\* Mutant: a lease counts as expired at its last instant.
ExpiredEarly(row) == row.status = "running" /\ row.lease # NULL /\ row.lease <= 0

Expired(row) == row.status = "running" /\ row.lease # NULL /\ row.lease < 0

\* Mutant: the sweep requeues whatever attempts are left.
SweepRowRequeues(row) ==
  IF ~Expired(row) THEN row ELSE [Released(row) EXCEPT !.status = "queued"]

\* Mutant: the second UPDATE, for the last attempt, is missing.
SweepRowForgets(row) ==
  IF Expired(row) /\ row.attempts < row.req.max_attempts
  THEN [Released(row) EXCEPT !.status = "queued"] ELSE row

\* The two UPDATEs that open a claim: an expired lease goes back to the queue
\* while attempts remain and fails the job after the last one.
SweepRow(row) ==
  IF ~Expired(row) THEN row
  ELSE IF row.attempts < row.req.max_attempts
  THEN [Released(row) EXCEPT !.status = "queued"]
  ELSE [Released(row) EXCEPT !.status = "failed"]

Sweep(t) == [j \in DOMAIN t |-> SweepRow(t[j])]

\* ORDER BY priority DESC, created_at ASC
Before(t, i, j) ==
  \/ t[i].req.priority > t[j].req.priority
  \/ /\ t[i].req.priority = t[j].req.priority
     /\ t[i].created < t[j].created

\* FOR UPDATE SKIP LOCKED ... LIMIT: rows locked by other transactions are
\* passed over before the window is cut.
Candidates(t, locked) ==
  LET due == {j \in DOMAIN t \ locked : /\ t[j].status = "queued"
                                        /\ t[j].available = 0
                                        /\ t[j].attempts < t[j].req.max_attempts}
  IN {j \in due : Cardinality({i \in due : Before(t, i, j)}) < ClaimWindow}

\* Mutant: the caps are compared off by one.
BelowCapsOffByOne(t, j) ==
  LET r == t[j].req
  IN /\ Cardinality(OrgRunning(t, r.org)) <= org_limit(r.org)
     /\ Cardinality(RepoRunning(t, r.org, r.repo)) <= repo_limit(r.org, r.repo)

BelowCaps(t, j) ==
  LET r == t[j].req
  IN /\ Cardinality(OrgRunning(t, r.org)) < org_limit(r.org)
     /\ Cardinality(RepoRunning(t, r.org, r.repo)) < repo_limit(r.org, r.repo)

\* The candidates at which the loop over the window would stop.
Claimable(t, f, locked) ==
  LET eligible == {j \in Candidates(t, locked) : accepts(f, t[j].req) /\ BelowCaps(t, j)}
  IN {j \in eligible : \A i \in eligible : ~Before(t, i, j)}

\* Mutant: the claim does not count the attempt.
ClaimedRowUncounted(row, w, seconds) ==
  [row EXCEPT !.status = "running", !.claimed_by = w, !.lease = seconds]

ClaimedRow(row, w, seconds) ==
  [row EXCEPT !.status = "running", !.claimed_by = w, !.lease = seconds,
              !.attempts = @ + 1]

-----------------------------------------------------------------------------
(* Enqueueing                                                              *)

\* create_job, first statement: a known key is answered with its job.
CreateJob(c, r) ==
  /\ creating[c] = NULL
  /\ validate(r) /\ validate_idempotency_key(r)
  /\ IF r.key # NULL /\ WithKey(jobs, r.key) # {}
     THEN /\ \E j \in WithKey(jobs, r.key) : replies' = replies \cup {[key |-> r.key, job |-> j]}
          /\ UNCHANGED creating
     ELSE /\ creating' = [creating EXCEPT ![c] = r]
          /\ UNCHANGED replies
  /\ UNCHANGED <<jobs, executions, stale>>

\* Mutant: the insert trusts the read before it.
InsertKeyedBlindly(c, id) ==
  /\ creating[c] # NULL
  /\ creating[c].key # NULL
  /\ id \notin DOMAIN jobs
  /\ jobs' = [j \in DOMAIN jobs \cup {id} |->
                IF j = id THEN NewRow(creating[c]) ELSE jobs[j]]
  /\ replies' = replies \cup {[key |-> creating[c].key, job |-> id]}
  /\ creating' = [creating EXCEPT ![c] = NULL]
  /\ UNCHANGED <<executions, stale>>

\* create_job, second statement, of a request with a key: INSERT ... ON
\* CONFLICT (idempotency_key) DO NOTHING, and the read of the winner.
InsertKeyed(c, id) ==
  /\ creating[c] # NULL
  /\ LET r == creating[c] IN
     /\ r.key # NULL
     /\ IF WithKey(jobs, r.key) # {}
        THEN /\ \E j \in WithKey(jobs, r.key) :
                  replies' = replies \cup {[key |-> r.key, job |-> j]}
             /\ UNCHANGED jobs
        ELSE /\ id \notin DOMAIN jobs
             /\ jobs' = [j \in DOMAIN jobs \cup {id} |->
                           IF j = id THEN NewRow(r) ELSE jobs[j]]
             /\ replies' = replies \cup {[key |-> r.key, job |-> id]}
  /\ creating' = [creating EXCEPT ![c] = NULL]
  /\ UNCHANGED <<executions, stale>>

InsertUnkeyed(c, id) ==
  /\ creating[c] # NULL
  /\ creating[c].key = NULL
  /\ id \notin DOMAIN jobs
  /\ jobs' = [j \in DOMAIN jobs \cup {id} |->
                IF j = id THEN NewRow(creating[c]) ELSE jobs[j]]
  /\ creating' = [creating EXCEPT ![c] = NULL]
  /\ UNCHANGED <<replies, executions, stale>>

\* The handler dies between its two statements.
ClientCrash(c) ==
  /\ creating[c] # NULL
  /\ creating' = [creating EXCEPT ![c] = NULL]
  /\ UNCHANGED <<jobs, replies, executions, stale>>

-----------------------------------------------------------------------------
(* Executing                                                               *)

\* claim_job: sweep, choose, lease.  With nothing to choose the sweep commits
\* alone.  `locked` is what SKIP LOCKED passes over.
ClaimJob(w, f, seconds, locked) ==
  LET swept == Sweep(jobs)
      choice == Claimable(swept, f, locked)
  IN /\ IF choice = {}
        THEN jobs' = swept /\ UNCHANGED executions
        ELSE \E j \in choice :
               /\ jobs' = [swept EXCEPT ![j] = ClaimedRow(@, w, seconds)]
               /\ executions' = executions \cup
                    {[job |-> j, worker |-> w, attempt |-> swept[j].attempts + 1,
                      left |-> seconds, phase |-> "working"]}
     /\ UNCHANGED <<creating, replies, stale>>

\* complete_job and heartbeat_job look only at the status and the worker id.
OwnedBy(row, w) == row.status = "running" /\ row.claimed_by = w

\* History: e's call was accepted though a later attempt holds the job.
NoteStale(e) ==
  stale' = IF jobs[e.job].attempts # e.attempt THEN stale \cup {e.job} ELSE stale

HeartbeatJob(e, seconds) ==
  /\ e.phase = "working"
  /\ OwnedBy(jobs[e.job], e.worker)
  /\ jobs' = [jobs EXCEPT ![e.job] = [@ EXCEPT !.lease = seconds]]
  /\ executions' = (executions \ {e}) \cup {[e EXCEPT !.left = seconds]}
  /\ NoteStale(e)
  /\ UNCHANGED <<creating, replies>>

SucceededRow(row, e) ==
  [Released(row) EXCEPT !.status = "succeeded", !.result = e.attempt]

clamp(delay) ==
  CASE delay < 0 -> 0 [] delay > MaxRetryDelay -> MaxRetryDelay [] OTHER -> delay

\* Mutant: the delay is taken as the worker sends it.
RetriedRowUnclamped(row, e, delay) ==
  [Released(row) EXCEPT !.status = "queued", !.result = e.attempt, !.available = delay]

RetriedRow(row, e, delay) ==
  [Released(row) EXCEPT !.status = "queued", !.result = e.attempt,
                        !.available = clamp(delay)]

FailedRow(row, e) ==
  [Released(row) EXCEPT !.status = "failed", !.result = e.attempt]

\* The rows complete_job may leave, by outcome and retryable.
CompletedRows(row, e) ==
  {SucceededRow(row, e), FailedRow(row, e)}
    \cup (IF row.attempts < row.req.max_attempts
          THEN {RetriedRow(row, e, d) : d \in RetryDelay} ELSE {})

\* The answer may be lost, and then the worker repeats the call.
CompleteJob(e) ==
  /\ OwnedBy(jobs[e.job], e.worker)
  /\ \E row \in CompletedRows(jobs[e.job], e) : jobs' = [jobs EXCEPT ![e.job] = row]
  /\ \/ executions' = executions \ {e}
     \/ executions' = (executions \ {e}) \cup {[e EXCEPT !.phase = "reported"]}
  /\ NoteStale(e)
  /\ UNCHANGED <<creating, replies>>

\* A worker stops: it crashed, or a call of its answered with an error.
Abandon(e) ==
  /\ executions' = executions \ {e}
  /\ UNCHANGED <<jobs, creating, replies, stale>>

\* Mutant: the status is not checked.
CancelAnyJob(j) ==
  /\ jobs' = [jobs EXCEPT ![j] = [Released(@) EXCEPT !.status = "cancelled"]]
  /\ UNCHANGED <<creating, replies, executions, stale>>

CancelJob(j) ==
  /\ jobs[j].status \in Live
  /\ jobs' = [jobs EXCEPT ![j] = [Released(@) EXCEPT !.status = "cancelled"]]
  /\ UNCHANGED <<creating, replies, executions, stale>>

-----------------------------------------------------------------------------
(* Time                                                                    *)

Less(n, floor) == IF n > floor THEN n - 1 ELSE n

TickRow(row) ==
  [row EXCEPT !.available = Less(@, 0),
              !.lease = IF @ = NULL THEN NULL ELSE Less(@, -1)]

TickExecution(e) == [e EXCEPT !.left = Less(@, -1)]

Tick ==
  /\ jobs' = [j \in DOMAIN jobs |-> TickRow(jobs[j])]
  /\ executions' = {TickExecution(e) : e \in executions}
  /\ UNCHANGED <<creating, replies, stale>>

-----------------------------------------------------------------------------
Init ==
  /\ jobs = [j \in {} |-> NULL]
  /\ creating = [c \in Client |-> NULL]
  /\ replies = {}
  /\ executions = {}
  /\ stale = {}

Next ==
  \/ \E c \in Client, r \in Request : CreateJob(c, r)
  \/ \E c \in Client, id \in Job : InsertKeyed(c, id)
  \/ \E c \in Client, id \in Job : InsertUnkeyed(c, id)
  \/ \E c \in Client : ClientCrash(c)
  \/ \E w \in Worker, f \in Filter, seconds \in LeaseSeconds, locked \in SUBSET DOMAIN jobs :
        ClaimJob(w, f, seconds, locked)
  \/ \E e \in executions, seconds \in LeaseSeconds : HeartbeatJob(e, seconds)
  \/ \E e \in executions : CompleteJob(e)
  \/ \E e \in executions : Abandon(e)
  \/ \E j \in DOMAIN jobs : CancelJob(j)
  \/ Tick

Spec == Init /\ [][Next]_vars

\* A worker that takes any job keeps polling, time passes, and an execution
\* ends by itself: its worker reports, or stops and sends no more heartbeats.
\* The claim that is fair passes over no locked row.
AnyJob == [orgs |-> {}, repositories |-> {}, task_types |-> {}]

Poll == \E w \in Worker, seconds \in LeaseSeconds : ClaimJob(w, AnyJob, seconds, {})

EndExecution == \E e \in executions : CompleteJob(e) \/ Abandon(e)

FairSpec == Spec /\ WF_vars(Tick) /\ WF_vars(Poll) /\ WF_vars(EndExecution)

-----------------------------------------------------------------------------
(* Properties                                                              *)

\* Rows, pending inserts, answers and executions keep their types, times never
\* count below their floors, and a row is made from a request.
TypeOK ==
  /\ DOMAIN jobs \subseteq Job
  /\ jobs \in [DOMAIN jobs -> Row]
  /\ creating \in [Client -> Request \cup {NULL}]
  /\ replies \subseteq Reply
  /\ executions \subseteq Execution
  /\ stale \subseteq Job

\* The running jobs of an organisation and of a repository never exceed the
\* configured caps, whatever leases expire, are requeued and re-claimed in
\* one transaction (claim_job_once counts after its own sweep).
CapsRespected ==
  /\ \A r \in Request : Cardinality(OrgRunning(jobs, r.org)) <= org_limit(r.org)
  /\ \A r \in Request : Cardinality(RepoRunning(jobs, r.org, r.repo)) <= repo_limit(r.org, r.repo)

\* A job that waits can still be claimed and no job is claimed more often
\* than max_attempts: neither the sweep, nor a retryable failure, nor a
\* create leaves a row queued with its attempts spent, which no claim would
\* ever look at again.
QueuedIsClaimable ==
  \A j \in DOMAIN jobs :
    /\ jobs[j].attempts <= jobs[j].req.max_attempts
    /\ jobs[j].status = "queued" => jobs[j].attempts < jobs[j].req.max_attempts

\* jobs_running_lease_chk of the schema, and its converse: a row names a
\* worker and a lease exactly while it runs, through sweep, completion,
\* cancellation and retry.
LeaseIffRunning ==
  \A j \in DOMAIN jobs :
    /\ jobs[j].status = "running" <=> jobs[j].claimed_by # NULL
    /\ jobs[j].claimed_by # NULL <=> jobs[j].lease # NULL

\* Idempotent enqueueing: two concurrent create_job calls with one key, in
\* any order of their reads and inserts, are answered with one job, and the
\* table has one row for it.
OneJobPerKey ==
  /\ \A i, j \in DOMAIN jobs : jobs[i].req.key = jobs[j].req.key /\ jobs[i].req.key # NULL => i = j
  /\ \A a, b \in replies : a.key = b.key => a.job = b.job
  /\ \A a \in replies : a.job \in DOMAIN jobs /\ jobs[a.job].req.key = a.key

\* A Slack run is executed as one job: validate_idempotency_key ties its key
\* to the run id and the unique key does the rest.
OneJobPerSlackRun ==
  \A i, j \in DOMAIN jobs :
    /\ jobs[i].req.task_type = SlackTask /\ jobs[j].req.task_type = SlackTask
    /\ jobs[i].req.run_id = jobs[j].req.run_id
    => i = j

Working(e) == e.phase = "working" /\ e.left >= 0

\* Mutual exclusion of the lease: two executions of one job are both inside
\* their leases only if the queue has accepted a call from an execution it
\* had already given up on, which takes a reused worker id.
ExclusiveLease ==
  \A d, e \in executions :
    d.job = e.job /\ d.job \notin stale /\ Working(d) /\ Working(e) => d = e

\* What makes the lease exclusive: an attempt number is granted to one
\* execution, and until a stale call is accepted a live execution's job is
\* still at that attempt, finished or running under a lease that outlives the
\* worker's own view of it.
LiveExecutionHoldsLease ==
  \A e \in executions :
    /\ e.job \in DOMAIN jobs
    /\ e.attempt <= jobs[e.job].attempts
    /\ \A d \in executions : d.job = e.job /\ d.attempt = e.attempt => d = e
    /\ Working(e) /\ e.job \notin stale =>
         /\ jobs[e.job].attempts = e.attempt
         /\ \/ jobs[e.job].status \in Terminal
            \/ jobs[e.job].status = "running" /\ jobs[e.job].lease >= e.left

\* Rows and pending inserts passed validation, whichever statement made them.
OnlyValidRequests ==
  /\ \A j \in DOMAIN jobs : validate(jobs[j].req) /\ validate_idempotency_key(jobs[j].req)
  /\ \A c \in Client : creating[c] # NULL =>
       validate(creating[c]) /\ validate_idempotency_key(creating[c])

\* The inductive invariant of the proofs.
IInv ==
  /\ TypeOK
  /\ OnlyValidRequests
  /\ QueuedIsClaimable
  /\ LeaseIffRunning
  /\ OneJobPerKey
  /\ CapsRespected
  /\ LiveExecutionHoldsLease

\* The step property behind retries: a finished job is never touched again,
\* by a late completion, a late heartbeat, the sweep or a cancel.
TerminalIsFinal ==
  [][\A j \in DOMAIN jobs : jobs[j].status \in Terminal => jobs'[j].status = jobs[j].status
                               /\ jobs'[j].result = jobs[j].result]_vars

\* Every job is eventually finished: workers may crash at any point of any
\* attempt and heartbeat for as long as they work, the candidate window may
\* be filled by jobs the caps block, and still nothing waits forever.
EveryJobFinishes ==
  \A j \in Job : j \in DOMAIN jobs ~> j \in DOMAIN jobs /\ jobs[j].status \in Terminal

\* The queue implements the life cycle of its jobs.
Lifecycle == INSTANCE JobLifecycle WITH
  life <- [j \in Job |-> IF j \in DOMAIN jobs THEN jobs[j].status ELSE "absent"],
  tries <- [j \in Job |-> IF j \in DOMAIN jobs THEN jobs[j].attempts ELSE 0],
  limit <- [j \in Job |-> IF j \in DOMAIN jobs THEN jobs[j].req.max_attempts ELSE 0]

\* A step of the queue moves every job as the life cycle allows: started at
\* most max_attempts times, requeued only while it may be started again,
\* never revived, including the claim that sweeps and re-leases in one step.
ImplementsLifecycle == Lifecycle!LifeSpec
=============================================================================
