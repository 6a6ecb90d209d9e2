--------------------------- MODULE JobQueueProofs ---------------------------
(***************************************************************************)
(* Proofs about JobQueue for every set of jobs, workers, clients, requests *)
(* and every configuration of caps.                                        *)
(***************************************************************************)
EXTENDS JobQueue, FiniteSetTheorems, TLAPS

-----------------------------------------------------------------------------
(* What the row operators produce                                          *)

\* Clearing the worker and the lease keeps a row a row, and the rest of it.
LEMMA ReleasedType ==
  ASSUME NEW row \in Row
  PROVE  /\ Released(row) \in Row
         /\ Released(row).claimed_by = NULL /\ Released(row).lease = NULL
         /\ Released(row).req = row.req /\ Released(row).attempts = row.attempts
BY DEF Released, Row

\* The sweep of claim_job_once leaves a row alone unless its lease expired,
\* and then queues or fails it without its lease.
LEMMA SweepRowFacts ==
  ASSUME NEW row \in Row
  PROVE  /\ SweepRow(row) \in Row
         /\ SweepRow(row).req = row.req
         /\ SweepRow(row).attempts = row.attempts
         /\ ~Expired(row) => SweepRow(row) = row
         /\ Expired(row) => /\ SweepRow(row).claimed_by = NULL
                            /\ SweepRow(row).lease = NULL
                            /\ SweepRow(row).status = 
                                 IF row.attempts < row.req.max_attempts
                                 THEN "queued" ELSE "failed"
<1>1. CASE ~Expired(row)
  BY <1>1 DEF SweepRow
<1>2. CASE Expired(row) /\ row.attempts < row.req.max_attempts
  BY <1>2, ReleasedType DEF SweepRow, Row, Status, Live, Terminal
<1>3. CASE Expired(row) /\ ~(row.attempts < row.req.max_attempts)
  BY <1>3, ReleasedType DEF SweepRow, Row, Status, Live, Terminal
<1>4. QED
  BY <1>1, <1>2, <1>3

\* A claimed row runs under the given worker and lease and has one more attempt.
LEMMA ClaimedRowFacts ==
  ASSUME NEW row \in Row, NEW w \in Worker, NEW seconds \in Nat
  PROVE  /\ ClaimedRow(row, w, seconds) \in Row
         /\ ClaimedRow(row, w, seconds).req = row.req
         /\ ClaimedRow(row, w, seconds).attempts = row.attempts + 1
         /\ ClaimedRow(row, w, seconds).status = "running"
         /\ ClaimedRow(row, w, seconds).claimed_by = w
         /\ ClaimedRow(row, w, seconds).lease = seconds
<1> DEFINE Granted(l, n) ==
      [row EXCEPT !.status = "running", !.claimed_by = w, !.lease = l, !.attempts = n]
<1>1. row.attempts + 1 \in Nat /\ seconds \in Int \cup {NULL}
  BY DEF Row
<1>2. \A n \in Nat, l \in Int \cup {NULL} :
         /\ Granted(l, n) \in Row
         /\ Granted(l, n).req = row.req /\ Granted(l, n).attempts = n
         /\ Granted(l, n).status = "running"
         /\ Granted(l, n).claimed_by = w /\ Granted(l, n).lease = l
  BY DEF Row, Status, Live, Terminal
<1>3. ClaimedRow(row, w, seconds) = Granted(seconds, row.attempts + 1)
  BY Zenon DEF ClaimedRow
<1> HIDE DEF Granted
<1>4. QED
  BY <1>1, <1>2, <1>3

\* What complete_job leaves is a row without a lease, finished or queued while
\* attempts remain.
LEMMA CompletedRowFacts ==
  ASSUME NEW row \in Row, NEW e \in Execution, NEW new \in CompletedRows(row, e)
  PROVE  /\ new \in Row
         /\ new.req = row.req
         /\ new.attempts = row.attempts
         /\ new.status \in {"succeeded", "failed", "queued"}
         /\ new.status = "queued" => row.attempts < row.req.max_attempts
         /\ new.claimed_by = NULL
         /\ new.lease = NULL
<1>1. CASE new = SucceededRow(row, e)
  BY <1>1, ReleasedType DEF SucceededRow, Row, Execution, Status, Live, Terminal
<1>2. CASE new = FailedRow(row, e)
  BY <1>2, ReleasedType DEF FailedRow, Row, Execution, Status, Live, Terminal
<1>3. ASSUME row.attempts < row.req.max_attempts,
             NEW d \in RetryDelay, new = RetriedRow(row, e, d)
      PROVE  /\ new \in Row
             /\ new.req = row.req
             /\ new.attempts = row.attempts
             /\ new.status = "queued"
             /\ new.claimed_by = NULL
             /\ new.lease = NULL
  <2>1. clamp(d) \in Nat
    BY QueueAssumption DEF clamp
  <2>2. QED
    BY <1>3, <2>1, ReleasedType DEF RetriedRow, Row, Execution, Status, Live, Terminal
<1>4. QED
  BY <1>1, <1>2, <1>3 DEF CompletedRows

\* Counting down stops at the floor.
LEMMA LessFacts ==
  ASSUME NEW n \in Int, NEW floor \in Int
  PROVE  /\ Less(n, floor) \in Int /\ Less(n, floor) <= n
         /\ n >= floor => Less(n, floor) >= floor
         /\ \A m \in Int : m <= n => Less(m, floor) <= Less(n, floor)
BY DEF Less

\* Time changes nothing of a row but what is left of its two instants.
LEMMA TickRowFacts ==
  ASSUME NEW row \in Row
  PROVE  /\ TickRow(row) \in Row
         /\ TickRow(row).req = row.req /\ TickRow(row).attempts = row.attempts
         /\ TickRow(row).status = row.status /\ TickRow(row).claimed_by = row.claimed_by
         /\ TickRow(row).result = row.result
         /\ TickRow(row).lease = IF row.lease = NULL THEN NULL ELSE Less(row.lease, -1)
<1> DEFINE Later(a, l) == [row EXCEPT !.available = a, !.lease = l]
           lease == IF row.lease = NULL THEN NULL ELSE Less(row.lease, -1)
<1>1. Less(row.available, 0) \in Nat
  BY DEF Row, Less
<1>2. lease \in Int \cup {NULL}
  BY LessFacts DEF Row
<1>3. \A a \in Nat, l \in Int \cup {NULL} :
         /\ Later(a, l) \in Row
         /\ Later(a, l).req = row.req /\ Later(a, l).attempts = row.attempts
         /\ Later(a, l).status = row.status /\ Later(a, l).claimed_by = row.claimed_by
         /\ Later(a, l).result = row.result /\ Later(a, l).lease = l
  BY DEF Row
<1>4. TickRow(row) = Later(Less(row.available, 0), lease)
  BY Zenon DEF TickRow
<1> HIDE DEF Later, lease
<1>5. /\ TickRow(row) \in Row
      /\ TickRow(row).req = row.req /\ TickRow(row).attempts = row.attempts
      /\ TickRow(row).status = row.status /\ TickRow(row).claimed_by = row.claimed_by
      /\ TickRow(row).result = row.result /\ TickRow(row).lease = lease
  BY <1>1, <1>2, <1>3, <1>4
<1>6. QED
  BY <1>5 DEF lease

\* Time changes nothing of an execution but what is left of its lease.
LEMMA TickExecutionFacts ==
  ASSUME NEW e \in Execution
  PROVE  /\ TickExecution(e) \in Execution
         /\ TickExecution(e).job = e.job /\ TickExecution(e).attempt = e.attempt
         /\ TickExecution(e).phase = e.phase /\ TickExecution(e).left = Less(e.left, -1)
<1>1. Less(e.left, -1) \in Int
  BY LessFacts DEF Execution
<1>2. \A l \in Int : LET d == [e EXCEPT !.left = l]
                      IN /\ d \in Execution /\ d.job = e.job /\ d.attempt = e.attempt
                         /\ d.phase = e.phase /\ d.left = l
  BY DEF Execution
<1>3. QED
  BY <1>1, <1>2 DEF TickExecution

-----------------------------------------------------------------------------
(* What the operators on the table produce                                 *)

Table == [DOMAIN jobs -> Row]

\* The sweep keeps the set of rows and treats each of them by itself.
LEMMA SweepFacts ==
  ASSUME jobs \in Table
  PROVE  /\ Sweep(jobs) \in Table
         /\ DOMAIN Sweep(jobs) = DOMAIN jobs
         /\ \A j \in DOMAIN jobs : Sweep(jobs)[j] = SweepRow(jobs[j])
BY SweepRowFacts DEF Sweep, Table

\* The row inserted by create_job.
LEMMA NewRowType ==
  ASSUME NEW r \in Request, jobs \in Table, DOMAIN jobs \subseteq Job
  PROVE  /\ NewRow(r) \in Row
         /\ NewRow(r).req = r /\ NewRow(r).status = "queued" /\ NewRow(r).attempts = 0
         /\ NewRow(r).claimed_by = NULL /\ NewRow(r).lease = NULL
<1>1. Cardinality(DOMAIN jobs) \in Nat
  BY QueueAssumption, FS_Subset, FS_CardinalityType
<1>2. r.available \in Nat
  BY QueueAssumption
<1>3. QED
  BY <1>1, <1>2 DEF NewRow, Row, Status, Live

\* A claim either only sweeps, or leases one queued job of the swept table
\* that has attempts left and whose caps are not reached.
LEMMA ClaimEffect ==
  ASSUME NEW w \in Worker, NEW f \in Filter, NEW seconds \in LeaseSeconds,
         NEW locked \in SUBSET DOMAIN jobs, ClaimJob(w, f, seconds, locked),
         jobs \in Table
  PROVE  LET swept == Sweep(jobs) IN
         \/ jobs' = swept /\ executions' = executions
         \/ \E j \in DOMAIN jobs :
              /\ swept[j].status = "queued"
              /\ swept[j].attempts < swept[j].req.max_attempts
              /\ BelowCaps(swept, j)
              /\ jobs' = [swept EXCEPT ![j] = ClaimedRow(swept[j], w, seconds)]
              /\ executions' = executions \cup
                    {[job |-> j, worker |-> w, attempt |-> swept[j].attempts + 1,
                      left |-> seconds, phase |-> "working"]}
<1> DEFINE swept == Sweep(jobs)
<1>1. CASE Claimable(swept, f, locked) = {}
  BY <1>1 DEF ClaimJob
<1>2. CASE Claimable(swept, f, locked) # {}
  <2>1. PICK j \in Claimable(swept, f, locked) :
          /\ jobs' = [swept EXCEPT ![j] = ClaimedRow(swept[j], w, seconds)]
          /\ executions' = executions \cup
                    {[job |-> j, worker |-> w, attempt |-> swept[j].attempts + 1,
                      left |-> seconds, phase |-> "working"]}
    BY <1>2, Zenon DEF ClaimJob
  <2>2. /\ j \in DOMAIN swept
        /\ swept[j].status = "queued"
        /\ swept[j].attempts < swept[j].req.max_attempts
        /\ BelowCaps(swept, j)
    BY DEF Claimable, Candidates
  <2>3. j \in DOMAIN jobs
    BY <2>2, SweepFacts
  <2>4. QED
    BY <2>1, <2>2, <2>3
<1>3. QED
  BY <1>1, <1>2
-----------------------------------------------------------------------------
(* Type correctness                                                        *)

\* The empty table is well typed.
LEMMA TypeInit == Init => TypeOK
BY DEF Init, TypeOK

\* Every operation of the queue keeps the types.
LEMMA TypeStep == TypeOK /\ [Next]_vars => TypeOK'
<1> SUFFICES ASSUME TypeOK, [Next]_vars
             PROVE  TypeOK'
  OBVIOUS
<1>0. jobs \in Table /\ DOMAIN jobs \subseteq Job
  BY DEF TypeOK, Table
<1>1. ASSUME NEW c \in Client, NEW r \in Request, CreateJob(c, r)
      PROVE  TypeOK'
  <2>1. \A j \in WithKey(jobs, r.key) : [key |-> r.key, job |-> j] \in Reply
    BY <1>0 DEF WithKey, Reply
  <2>2. QED
    BY <1>1, <2>1 DEF CreateJob, TypeOK
<1>2. ASSUME NEW c \in Client, NEW id \in Job, InsertKeyed(c, id)
      PROVE  TypeOK'
  <2> DEFINE r == creating[c]
  <2>1. r \in Request
    BY <1>2 DEF InsertKeyed, TypeOK
  <2>2. \A j \in Job : [key |-> r.key, job |-> j] \in Reply
    BY <2>1 DEF Reply
  <2>3. WithKey(jobs, r.key) \subseteq Job
    BY <1>0 DEF WithKey
  <2>4. NewRow(r) \in Row
    BY <1>0, <2>1, NewRowType
  <2> HIDE DEF r
  <2>5. /\ creating' = [creating EXCEPT ![c] = NULL]
        /\ UNCHANGED <<executions, stale>>
        /\ \/ \E j \in WithKey(jobs, r.key) :
                /\ replies' = replies \cup {[key |-> r.key, job |-> j]}
                /\ jobs' = jobs
           \/ /\ replies' = replies \cup {[key |-> r.key, job |-> id]}
              /\ jobs' = [j \in DOMAIN jobs \cup {id} |-> IF j = id THEN NewRow(r) ELSE jobs[j]]
    BY <1>2 DEF InsertKeyed, r
  <2>6. replies' \subseteq Reply
    BY <2>2, <2>3, <2>5 DEF TypeOK
  <2>7. DOMAIN jobs' \subseteq Job /\ jobs' \in [DOMAIN jobs' -> Row]
    BY <1>0, <2>4, <2>5 DEF Table
  <2>8. QED
    BY <2>5, <2>6, <2>7 DEF TypeOK
<1>3. ASSUME NEW c \in Client, NEW id \in Job, InsertUnkeyed(c, id)
      PROVE  TypeOK'
  <2>1. creating[c] \in Request
    BY <1>3 DEF InsertUnkeyed, TypeOK
  <2>2. NewRow(creating[c]) \in Row
    BY <1>0, <2>1, NewRowType
  <2>3. DOMAIN jobs' \subseteq Job /\ jobs' \in [DOMAIN jobs' -> Row]
    BY <1>0, <1>3, <2>2 DEF InsertUnkeyed, Table
  <2>4. QED
    BY <1>3, <2>3 DEF InsertUnkeyed, TypeOK
<1>4. ASSUME NEW c \in Client, ClientCrash(c)
      PROVE  TypeOK'
  BY <1>4 DEF ClientCrash, TypeOK
<1>5. ASSUME NEW w \in Worker, NEW f \in Filter, NEW seconds \in LeaseSeconds,
             NEW locked \in SUBSET DOMAIN jobs, ClaimJob(w, f, seconds, locked)
      PROVE  TypeOK'
  <2> DEFINE swept == Sweep(jobs)
  <2>1. swept \in Table /\ DOMAIN swept = DOMAIN jobs
    BY <1>0, SweepFacts
  <2>2. seconds \in Nat
    BY QueueAssumption
  <2>3. UNCHANGED <<creating, replies, stale>>
    BY <1>5 DEF ClaimJob
  <2>4. CASE jobs' = swept /\ executions' = executions
    BY <1>0, <2>1, <2>3, <2>4 DEF TypeOK, Table
  <2>5. ASSUME NEW j \in DOMAIN jobs,
               jobs' = [swept EXCEPT ![j] = ClaimedRow(swept[j], w, seconds)],
               executions' = executions \cup
                    {[job |-> j, worker |-> w, attempt |-> swept[j].attempts + 1,
                      left |-> seconds, phase |-> "working"]}
        PROVE  TypeOK'
    <3>1. ClaimedRow(swept[j], w, seconds) \in Row
      BY <2>1, <2>2, ClaimedRowFacts DEF Table
    <3>2. jobs' \in Table /\ DOMAIN jobs' = DOMAIN jobs
      BY <2>1, <2>5, <3>1 DEF Table
    <3>3. swept[j].attempts + 1 \in Nat
      BY <2>1 DEF Table, Row
    <3>4. executions' \subseteq Execution
      BY <1>0, <2>2, <2>5, <3>3 DEF TypeOK, Execution
    <3>5. QED
      BY <1>0, <2>3, <3>2, <3>4 DEF TypeOK, Table
  <2>6. QED
    BY <1>0, <1>5, <2>4, <2>5, ClaimEffect
<1>6. ASSUME NEW e \in executions, NEW seconds \in LeaseSeconds, HeartbeatJob(e, seconds)
      PROVE  TypeOK'
  <2>1. e \in Execution /\ seconds \in Nat
    BY QueueAssumption DEF TypeOK
  <2>2. [e EXCEPT !.left = seconds] \in Execution
    BY <2>1 DEF Execution
  <2>3. executions' \subseteq Execution
    BY <1>6, <2>2 DEF HeartbeatJob, TypeOK
  <2>4. \A row \in Row : [row EXCEPT !.lease = seconds] \in Row
    BY <2>1 DEF Row
  <2>5. DOMAIN jobs' = DOMAIN jobs /\ jobs' \in Table
    BY <1>0, <1>6, <2>4 DEF HeartbeatJob, Table
  <2>6. stale' \subseteq Job
    BY <1>6, <2>1 DEF HeartbeatJob, NoteStale, TypeOK, Execution
  <2>7. QED
    BY <1>0, <1>6, <2>3, <2>5, <2>6 DEF HeartbeatJob, TypeOK, Table
<1>7. ASSUME NEW e \in executions, CompleteJob(e)
      PROVE  TypeOK'
  <2>1. e \in Execution
    BY DEF TypeOK
  <2>2. [e EXCEPT !.phase = "reported"] \in Execution
    BY <2>1 DEF Execution
  <2>3. executions' \subseteq Execution
    BY <1>7, <2>2 DEF CompleteJob, TypeOK
  <2>4. PICK row \in CompletedRows(jobs[e.job], e) : jobs' = [jobs EXCEPT ![e.job] = row]
    BY <1>7 DEF CompleteJob
  <2>5. e.job \in DOMAIN jobs => row \in Row
    BY <1>0, <2>1, CompletedRowFacts DEF Table
  <2>6. DOMAIN jobs' = DOMAIN jobs /\ jobs' \in Table
    BY <1>0, <2>4, <2>5 DEF Table
  <2>7. stale' \subseteq Job
    BY <1>7, <2>1 DEF CompleteJob, NoteStale, TypeOK, Execution
  <2>8. QED
    BY <1>0, <1>7, <2>3, <2>6, <2>7 DEF CompleteJob, TypeOK, Table
<1>8. ASSUME NEW e \in executions, Abandon(e)
      PROVE  TypeOK'
  BY <1>8 DEF Abandon, TypeOK
<1>9. ASSUME NEW j \in DOMAIN jobs, CancelJob(j)
      PROVE  TypeOK'
  <2>1. [Released(jobs[j]) EXCEPT !.status = "cancelled"] \in Row
    BY <1>0, ReleasedType DEF Table, Row, Status, Terminal
  <2>2. DOMAIN jobs' = DOMAIN jobs /\ jobs' \in Table
    BY <1>0, <1>9, <2>1 DEF CancelJob, Table
  <2>3. QED
    BY <1>0, <1>9, <2>2 DEF CancelJob, TypeOK, Table
<1>10. ASSUME Tick
       PROVE  TypeOK'
  <2>1. DOMAIN jobs' = DOMAIN jobs /\ jobs' \in Table
    BY <1>0, <1>10, TickRowFacts DEF Tick, Table
  <2>2. executions' \subseteq Execution
    BY <1>10, TickExecutionFacts DEF Tick, TypeOK
  <2>3. QED
    BY <1>0, <1>10, <2>1, <2>2 DEF Tick, TypeOK, Table
<1>11. CASE UNCHANGED vars
  BY <1>11 DEF vars, TypeOK
<1>12. QED
  BY <1>1, <1>2, <1>3, <1>4, <1>5, <1>6, <1>7, <1>8, <1>9, <1>10, <1>11 DEF Next

\* Every reachable state of the queue is well typed, for every instance.
THEOREM TypeCorrect == Spec => []TypeOK
BY TypeInit, TypeStep, PTL DEF Spec

-----------------------------------------------------------------------------
(* What holds of every row by itself                                       *)

RowOK(row) ==
  /\ validate(row.req) /\ validate_idempotency_key(row.req)
  /\ row.attempts <= row.req.max_attempts
  /\ row.status = "queued" => row.attempts < row.req.max_attempts
  /\ row.status = "running" <=> row.claimed_by # NULL
  /\ row.claimed_by # NULL <=> row.lease # NULL

RowsOK == \A j \in DOMAIN jobs : RowOK(jobs[j])

\* RowsOK is QueuedIsClaimable and LeaseIffRunning, taken row by row.
LEMMA RowsOKMeaning ==
  /\ IInv => RowsOK
  /\ RowsOK => QueuedIsClaimable /\ LeaseIffRunning
BY DEF IInv, RowsOK, RowOK, QueuedIsClaimable, LeaseIffRunning, OnlyValidRequests

\* The numbers of a request are integers.
LEMMA NumericRequest ==
  ASSUME NEW row \in Row
  PROVE  row.req \in Request /\ row.req.max_attempts \in Int /\ row.attempts \in Nat
BY QueueAssumption DEF Row

\* The sweep keeps a row claimable or finished, and leased exactly if it runs.
LEMMA SweepRowOK ==
  ASSUME NEW row \in Row, RowOK(row)
  PROVE  RowOK(SweepRow(row))
<1>1. CASE ~Expired(row)
  BY <1>1, SweepRowFacts
<1>2. CASE Expired(row)
  BY <1>2, SweepRowFacts, NumericRequest DEF RowOK
<1>3. QED
  BY <1>1, <1>2

\* A claimed row is leased and within max_attempts.
LEMMA ClaimedRowOK ==
  ASSUME NEW row \in Row, NEW w \in Worker, NEW seconds \in Nat,
         RowOK(row), row.attempts < row.req.max_attempts
  PROVE  RowOK(ClaimedRow(row, w, seconds))
<1>1. w # NULL /\ seconds # NULL
  BY QueueAssumption
<1>2. row.attempts + 1 <= row.req.max_attempts
  BY NumericRequest
<1>3. QED
  BY <1>1, <1>2, ClaimedRowFacts DEF RowOK

\* A completed row is released, and queued only with attempts left.
LEMMA CompletedRowOK ==
  ASSUME NEW row \in Row, NEW e \in Execution, NEW new \in CompletedRows(row, e), RowOK(row)
  PROVE  RowOK(new)
BY CompletedRowFacts DEF RowOK

\* Time neither takes nor gives a lease.
LEMMA TickRowOK ==
  ASSUME NEW row \in Row, RowOK(row)
  PROVE  RowOK(TickRow(row))
<1>1. row.lease # NULL => Less(row.lease, -1) # NULL
  BY LessFacts, QueueAssumption DEF Row
<1>2. QED
  BY <1>1, TickRowFacts DEF RowOK

\* A new row of a validated request can be claimed.
LEMMA NewRowOK ==
  ASSUME NEW r \in Request, validate(r), validate_idempotency_key(r),
         jobs \in Table, DOMAIN jobs \subseteq Job
  PROVE  RowOK(NewRow(r))
BY NewRowType DEF RowOK, validate

\* The empty table satisfies what is said of every row.
LEMMA RowsInit == Init => RowsOK /\ OnlyValidRequests
BY DEF Init, RowsOK, OnlyValidRequests

\* Every operation keeps rows claimable or finished, leased exactly if running,
\* and made from validated requests.
LEMMA RowsStep == IInv /\ [Next]_vars => RowsOK' /\ OnlyValidRequests'
<1> SUFFICES ASSUME IInv, [Next]_vars
             PROVE  RowsOK' /\ OnlyValidRequests'
  OBVIOUS
<1>0. /\ jobs \in Table /\ DOMAIN jobs \subseteq Job /\ RowsOK
      /\ executions \subseteq Execution
      /\ creating \in [Client -> Request \cup {NULL}]
      /\ \A c \in Client : creating[c] # NULL =>
           validate(creating[c]) /\ validate_idempotency_key(creating[c])
  BY RowsOKMeaning DEF IInv, TypeOK, Table, OnlyValidRequests
<1>a. ASSUME RowsOK', creating' = creating
      PROVE  OnlyValidRequests'
  BY <1>0, <1>a DEF RowsOK, RowOK, OnlyValidRequests
<1>b. ASSUME RowsOK', NEW c \in Client, creating' = [creating EXCEPT ![c] = NULL]
      PROVE  OnlyValidRequests'
  BY <1>0, <1>b DEF RowsOK, RowOK, OnlyValidRequests
<1>1. ASSUME NEW c \in Client, NEW r \in Request, CreateJob(c, r)
      PROVE  RowsOK' /\ OnlyValidRequests'
  <2>1. RowsOK'
    BY <1>0, <1>1 DEF CreateJob, RowsOK
  <2>2. \A d \in Client : creating'[d] # NULL =>
           validate(creating'[d]) /\ validate_idempotency_key(creating'[d])
    BY <1>0, <1>1 DEF CreateJob
  <2>3. QED
    BY <2>1, <2>2 DEF OnlyValidRequests, RowsOK, RowOK
<1>2. ASSUME NEW c \in Client, NEW id \in Job, InsertKeyed(c, id)
      PROVE  RowsOK' /\ OnlyValidRequests'
  <2>1. creating[c] \in Request /\ RowOK(NewRow(creating[c]))
    BY <1>0, <1>2, NewRowOK DEF InsertKeyed
  <2>2. \/ jobs' = jobs
        \/ jobs' = [j \in DOMAIN jobs \cup {id} |->
                      IF j = id THEN NewRow(creating[c]) ELSE jobs[j]]
    BY <1>2 DEF InsertKeyed
  <2>3. RowsOK'
    BY <1>0, <2>1, <2>2 DEF RowsOK
  <2>4. QED
    BY <1>b, <1>2, <2>3 DEF InsertKeyed
<1>3. ASSUME NEW c \in Client, NEW id \in Job, InsertUnkeyed(c, id)
      PROVE  RowsOK' /\ OnlyValidRequests'
  <2>1. creating[c] \in Request /\ RowOK(NewRow(creating[c]))
    BY <1>0, <1>3, NewRowOK DEF InsertUnkeyed
  <2>2. jobs' = [j \in DOMAIN jobs \cup {id} |->
                   IF j = id THEN NewRow(creating[c]) ELSE jobs[j]]
    BY <1>3 DEF InsertUnkeyed
  <2>3. RowsOK'
    BY <1>0, <2>1, <2>2 DEF RowsOK
  <2>4. QED
    BY <1>b, <1>3, <2>3 DEF InsertUnkeyed
<1>4. ASSUME NEW c \in Client, ClientCrash(c)
      PROVE  RowsOK' /\ OnlyValidRequests'
  BY <1>0, <1>b, <1>4 DEF ClientCrash, RowsOK
<1>5. ASSUME NEW w \in Worker, NEW f \in Filter, NEW seconds \in LeaseSeconds,
             NEW locked \in SUBSET DOMAIN jobs, ClaimJob(w, f, seconds, locked)
      PROVE  RowsOK' /\ OnlyValidRequests'
  <2> DEFINE swept == Sweep(jobs)
  <2>1. /\ swept \in Table /\ DOMAIN swept = DOMAIN jobs
        /\ \A j \in DOMAIN jobs : swept[j] = SweepRow(jobs[j])
    BY <1>0, SweepFacts
  <2>2. \A j \in DOMAIN jobs : RowOK(swept[j])
    BY <1>0, <2>1, SweepRowOK DEF RowsOK, Table
  <2>3. seconds \in Nat
    BY QueueAssumption
  <2> HIDE DEF swept
  <2>4. ASSUME jobs' = swept
        PROVE  RowsOK'
    BY <2>1, <2>2, <2>4 DEF RowsOK
  <2>5. ASSUME NEW j \in DOMAIN jobs,
               swept[j].attempts < swept[j].req.max_attempts,
               jobs' = [swept EXCEPT ![j] = ClaimedRow(swept[j], w, seconds)]
        PROVE  RowsOK'
    <3>1. RowOK(ClaimedRow(swept[j], w, seconds))
      BY <2>1, <2>2, <2>3, <2>5, ClaimedRowOK DEF Table
    <3>2. QED
      BY <2>1, <2>2, <2>5, <3>1 DEF RowsOK, Table
  <2>6. RowsOK'
    BY <1>0, <1>5, <2>4, <2>5, ClaimEffect DEF swept
  <2>7. QED
    BY <1>5, <1>a, <2>6 DEF ClaimJob
<1>6. ASSUME NEW e \in executions, NEW seconds \in LeaseSeconds, HeartbeatJob(e, seconds)
      PROVE  RowsOK' /\ OnlyValidRequests'
  <2>1. seconds \in Nat /\ seconds # NULL
    BY QueueAssumption
  <2>2. ASSUME NEW row \in Row, RowOK(row), OwnedBy(row, e.worker)
        PROVE  RowOK([row EXCEPT !.lease = seconds])
    BY <2>1, <2>2 DEF RowOK, Row, OwnedBy
  <2>3. RowsOK'
    BY <1>0, <1>6, <2>2 DEF HeartbeatJob, RowsOK, Table
  <2>4. QED
    BY <1>6, <1>a, <2>3 DEF HeartbeatJob
<1>7. ASSUME NEW e \in executions, CompleteJob(e)
      PROVE  RowsOK' /\ OnlyValidRequests'
  <2>1. PICK row \in CompletedRows(jobs[e.job], e) : jobs' = [jobs EXCEPT ![e.job] = row]
    BY <1>7 DEF CompleteJob
  <2>2. e.job \in DOMAIN jobs => RowOK(row)
    BY <1>0, CompletedRowOK DEF RowsOK, Table
  <2>3. RowsOK'
    BY <1>0, <2>1, <2>2 DEF RowsOK, Table
  <2>4. QED
    BY <1>7, <1>a, <2>3 DEF CompleteJob
<1>8. ASSUME NEW e \in executions, Abandon(e)
      PROVE  RowsOK' /\ OnlyValidRequests'
  BY <1>0, <1>8, <1>a DEF Abandon, RowsOK
<1>9. ASSUME NEW j \in DOMAIN jobs, CancelJob(j)
      PROVE  RowsOK' /\ OnlyValidRequests'
  <2> DEFINE new == [Released(jobs[j]) EXCEPT !.status = "cancelled"]
  <2>1. RowOK(new)
    BY <1>0, ReleasedType DEF RowsOK, RowOK, Table, Row
  <2>2. jobs' = [jobs EXCEPT ![j] = new]
    BY <1>9 DEF CancelJob
  <2> HIDE DEF new
  <2>3. RowsOK'
    BY <1>0, <2>1, <2>2 DEF RowsOK, Table
  <2>4. QED
    BY <1>9, <1>a, <2>3 DEF CancelJob
<1>10. ASSUME Tick
       PROVE  RowsOK' /\ OnlyValidRequests'
  <2>1. RowsOK'
    BY <1>0, <1>10, TickRowOK DEF Tick, RowsOK, Table
  <2>2. QED
    BY <1>10, <1>a, <2>1 DEF Tick
<1>11. CASE UNCHANGED vars
  BY <1>0, <1>11, <1>a DEF vars, RowsOK
<1>12. QED
  BY <1>1, <1>2, <1>3, <1>4, <1>5, <1>6, <1>7, <1>8, <1>9, <1>10, <1>11 DEF Next

-----------------------------------------------------------------------------
(* What a step does to the table as a whole                                *)

\* The rows stay the same jobs and no new one runs.
Calm ==
  /\ DOMAIN jobs' = DOMAIN jobs
  /\ \A j \in DOMAIN jobs : /\ jobs'[j].req = jobs[j].req
                            /\ jobs'[j].attempts = jobs[j].attempts
                            /\ jobs'[j].status = "running" => jobs[j].status = "running"

\* A heartbeat changes only the lease of a running row.
LEMMA HeartbeatCalm ==
  ASSUME TypeOK, NEW e \in executions, NEW seconds \in LeaseSeconds, HeartbeatJob(e, seconds)
  PROVE  Calm
<1>1. jobs \in Table
  BY DEF TypeOK, Table
<1>2. \A row \in Row : LET new == [row EXCEPT !.lease = seconds]
                       IN new.req = row.req /\ new.attempts = row.attempts /\ new.status = row.status
  BY DEF Row
<1>3. QED
  BY <1>1, <1>2 DEF HeartbeatJob, Calm, Table

\* A completion only takes a row out of what runs.
LEMMA CompleteCalm ==
  ASSUME TypeOK, NEW e \in executions, CompleteJob(e)
  PROVE  Calm
<1>1. jobs \in Table /\ e \in Execution
  BY DEF TypeOK, Table
<1>2. PICK row \in CompletedRows(jobs[e.job], e) : jobs' = [jobs EXCEPT ![e.job] = row]
  BY DEF CompleteJob
<1>3. e.job \in DOMAIN jobs => /\ row.req = jobs[e.job].req
                               /\ row.attempts = jobs[e.job].attempts
                               /\ row.status # "running"
  BY <1>1, CompletedRowFacts DEF Table
<1>4. QED
  BY <1>1, <1>2, <1>3 DEF Calm, Table

\* So does a cancellation.
LEMMA CancelCalm ==
  ASSUME TypeOK, NEW j \in DOMAIN jobs, CancelJob(j)
  PROVE  Calm
<1> DEFINE new == [Released(jobs[j]) EXCEPT !.status = "cancelled"]
<1>1. jobs \in Table
  BY DEF TypeOK, Table
<1>2. new.req = jobs[j].req /\ new.attempts = jobs[j].attempts /\ new.status # "running"
  BY <1>1, ReleasedType DEF Table, Row
<1>3. jobs' = [jobs EXCEPT ![j] = new]
  BY DEF CancelJob
<1> HIDE DEF new
<1>4. QED
  BY <1>1, <1>2, <1>3 DEF Calm, Table

\* Time changes no status and no request.
LEMMA TickCalm ==
  ASSUME TypeOK, Tick
  PROVE  Calm
<1>1. jobs \in Table
  BY DEF TypeOK, Table
<1>2. QED
  BY <1>1, TickRowFacts DEF Tick, Calm, Table

\* The sweep by itself is calm too.
LEMMA SweepCalm ==
  ASSUME jobs \in Table
  PROVE  \A j \in DOMAIN jobs : /\ Sweep(jobs)[j].req = jobs[j].req
                                /\ Sweep(jobs)[j].attempts = jobs[j].attempts
                                /\ Sweep(jobs)[j].status = "running" => jobs[j].status = "running"
BY SweepFacts, SweepRowFacts DEF Table

\* A claim neither adds rows nor changes a request.
LEMMA ClaimKeepsRequests ==
  ASSUME TypeOK, NEW w \in Worker, NEW f \in Filter, NEW seconds \in LeaseSeconds,
         NEW locked \in SUBSET DOMAIN jobs, ClaimJob(w, f, seconds, locked)
  PROVE  /\ DOMAIN jobs' = DOMAIN jobs
         /\ \A j \in DOMAIN jobs : jobs'[j].req = jobs[j].req
<1> DEFINE swept == Sweep(jobs)
<1>1. jobs \in Table
  BY DEF TypeOK, Table
<1>2. /\ swept \in Table /\ DOMAIN swept = DOMAIN jobs
      /\ \A j \in DOMAIN jobs : swept[j].req = jobs[j].req
  BY <1>1, SweepFacts, SweepCalm
<1>3. seconds \in Nat
  BY QueueAssumption
<1>4. ASSUME NEW j \in DOMAIN jobs
      PROVE  ClaimedRow(swept[j], w, seconds).req = swept[j].req
  BY <1>2, <1>3, ClaimedRowFacts DEF Table
<1>5. \/ jobs' = swept
      \/ \E j \in DOMAIN jobs : jobs' = [swept EXCEPT ![j] = ClaimedRow(swept[j], w, seconds)]
  BY <1>1, ClaimEffect
<1> HIDE DEF swept
<1>6. CASE jobs' = swept
  BY <1>2, <1>6
<1>7. ASSUME NEW j \in DOMAIN jobs,
             jobs' = [swept EXCEPT ![j] = ClaimedRow(swept[j], w, seconds)]
      PROVE  /\ DOMAIN jobs' = DOMAIN jobs
             /\ \A i \in DOMAIN jobs : jobs'[i].req = jobs[i].req
  <2>1. DOMAIN jobs' = DOMAIN jobs
    BY <1>2, <1>7 DEF Table
  <2>2. \A i \in DOMAIN jobs : jobs'[i] = IF i = j THEN ClaimedRow(swept[j], w, seconds) ELSE swept[i]
    BY <1>2, <1>7 DEF Table
  <2>3. QED
    BY <1>2, <1>4, <2>1, <2>2
<1>8. QED
  BY <1>5, <1>6, <1>7

-----------------------------------------------------------------------------
(* Idempotent enqueueing                                                   *)

\* No rows and no answers: nothing has been enqueued twice.
LEMMA KeyInit == Init => OneJobPerKey
BY DEF Init, OneJobPerKey

\* Every operation keeps one row and one answer per key: the unique constraint
\* decides between two creates that both read nothing.
LEMMA KeyStep == IInv /\ [Next]_vars => OneJobPerKey'
<1> SUFFICES ASSUME IInv, [Next]_vars
             PROVE  OneJobPerKey'
  OBVIOUS
<1>0. TypeOK /\ OneJobPerKey /\ jobs \in Table /\ DOMAIN jobs \subseteq Job
  BY DEF IInv, TypeOK, Table
<1>a. ASSUME DOMAIN jobs' = DOMAIN jobs, \A j \in DOMAIN jobs : jobs'[j].req = jobs[j].req,
             replies' = replies
      PROVE  OneJobPerKey'
  BY <1>0, <1>a DEF OneJobPerKey
<1>1. ASSUME NEW c \in Client, NEW r \in Request, CreateJob(c, r)
      PROVE  OneJobPerKey'
  <2>1. jobs' = jobs
    BY <1>1 DEF CreateJob
  <2>2. CASE r.key # NULL /\ WithKey(jobs, r.key) # {}
    <3>1. PICK j \in WithKey(jobs, r.key) : replies' = replies \cup {[key |-> r.key, job |-> j]}
      BY <1>1, <2>2 DEF CreateJob
    <3>2. j \in DOMAIN jobs /\ jobs[j].req.key = r.key
      BY DEF WithKey
    <3>3. \A a \in replies' : a.job \in DOMAIN jobs /\ jobs[a.job].req.key = a.key
      BY <1>0, <3>1, <3>2 DEF OneJobPerKey
    <3>4. \A a, b \in replies' : a.key = b.key => a.job = b.job
      BY <1>0, <2>2, <3>1, <3>2, <3>3 DEF OneJobPerKey
    <3>5. QED
      BY <1>0, <2>1, <3>3, <3>4 DEF OneJobPerKey
  <2>3. CASE ~(r.key # NULL /\ WithKey(jobs, r.key) # {})
    BY <1>a, <1>1, <2>1, <2>3 DEF CreateJob
  <2>4. QED
    BY <2>2, <2>3
<1>2. ASSUME NEW c \in Client, NEW id \in Job, InsertKeyed(c, id)
      PROVE  OneJobPerKey'
  <2> DEFINE r == creating[c]
  <2>0. r \in Request /\ r.key # NULL
    BY <1>0, <1>2 DEF InsertKeyed, TypeOK
  <2>1. CASE WithKey(jobs, r.key) # {}
    <3>1. PICK j \in WithKey(jobs, r.key) : replies' = replies \cup {[key |-> r.key, job |-> j]}
      BY <1>2, <2>1 DEF InsertKeyed
    <3>2. j \in DOMAIN jobs /\ jobs[j].req.key = r.key /\ jobs' = jobs
      BY <1>2, <2>1 DEF WithKey, InsertKeyed
    <3> HIDE DEF r
    <3>3. \A a \in replies' : a.job \in DOMAIN jobs /\ jobs[a.job].req.key = a.key
      BY <1>0, <3>1, <3>2 DEF OneJobPerKey
    <3>4. \A a, b \in replies' : a.key = b.key => a.job = b.job
      BY <1>0, <2>0, <3>1, <3>2, <3>3 DEF OneJobPerKey
    <3>5. QED
      BY <1>0, <3>2, <3>3, <3>4 DEF OneJobPerKey
  <2>2. CASE WithKey(jobs, r.key) = {}
    <3>1. /\ id \notin DOMAIN jobs
          /\ jobs' = [j \in DOMAIN jobs \cup {id} |-> IF j = id THEN NewRow(r) ELSE jobs[j]]
          /\ replies' = replies \cup {[key |-> r.key, job |-> id]}
      BY <1>2, <2>2 DEF InsertKeyed
    <3>2. NewRow(r).req = r
      BY <1>0, <2>0, NewRowType
    <3>3. \A j \in DOMAIN jobs : jobs[j].req.key # r.key
      BY <2>2 DEF WithKey
    <3> HIDE DEF r
    <3>4. /\ DOMAIN jobs' = DOMAIN jobs \cup {id}
          /\ jobs'[id].req = r
          /\ \A j \in DOMAIN jobs : jobs'[j] = jobs[j]
      BY <3>1, <3>2
    <3>5. \A a \in replies : a.key # r.key
      BY <1>0, <3>3 DEF OneJobPerKey
    <3>6. QED
      BY <1>0, <3>1, <3>3, <3>4, <3>5 DEF OneJobPerKey
  <2>3. QED
    BY <2>1, <2>2
<1>3. ASSUME NEW c \in Client, NEW id \in Job, InsertUnkeyed(c, id)
      PROVE  OneJobPerKey'
  <2>1. creating[c] \in Request /\ creating[c].key = NULL
    BY <1>0, <1>3 DEF InsertUnkeyed, TypeOK
  <2>2. NewRow(creating[c]).req = creating[c]
    BY <1>0, <2>1, NewRowType
  <2>3. /\ id \notin DOMAIN jobs /\ replies' = replies
        /\ DOMAIN jobs' = DOMAIN jobs \cup {id}
        /\ jobs'[id].req.key = NULL
        /\ \A j \in DOMAIN jobs : jobs'[j] = jobs[j]
    BY <1>3, <2>1, <2>2 DEF InsertUnkeyed
  <2>4. QED
    BY <1>0, <2>3 DEF OneJobPerKey
<1>4. ASSUME NEW c \in Client, ClientCrash(c)
      PROVE  OneJobPerKey'
  BY <1>4, <1>a DEF ClientCrash
<1>5. ASSUME NEW w \in Worker, NEW f \in Filter, NEW seconds \in LeaseSeconds,
             NEW locked \in SUBSET DOMAIN jobs, ClaimJob(w, f, seconds, locked)
      PROVE  OneJobPerKey'
  BY <1>0, <1>5, <1>a, ClaimKeepsRequests DEF ClaimJob
<1>6. ASSUME NEW e \in executions, NEW seconds \in LeaseSeconds, HeartbeatJob(e, seconds)
      PROVE  OneJobPerKey'
  BY <1>0, <1>6, <1>a, HeartbeatCalm DEF Calm, HeartbeatJob
<1>7. ASSUME NEW e \in executions, CompleteJob(e)
      PROVE  OneJobPerKey'
  BY <1>0, <1>7, <1>a, CompleteCalm DEF Calm, CompleteJob
<1>8. ASSUME NEW e \in executions, Abandon(e)
      PROVE  OneJobPerKey'
  BY <1>8, <1>a DEF Abandon
<1>9. ASSUME NEW j \in DOMAIN jobs, CancelJob(j)
      PROVE  OneJobPerKey'
  BY <1>0, <1>9, <1>a, CancelCalm DEF Calm, CancelJob
<1>10. ASSUME Tick
       PROVE  OneJobPerKey'
  BY <1>0, <1>10, <1>a, TickCalm DEF Calm, Tick
<1>11. CASE UNCHANGED vars
  BY <1>11, <1>a DEF vars
<1>12. QED
  BY <1>1, <1>2, <1>3, <1>4, <1>5, <1>6, <1>7, <1>8, <1>9, <1>10, <1>11 DEF Next

-----------------------------------------------------------------------------
(* The concurrency caps                                                    *)

\* Both caps are natural numbers.
LEMMA LimitsAreNat ==
  /\ \A o : org_limit(o) \in Nat
  /\ \A o, p : repo_limit(o, p) \in Nat
BY LimitAssumption DEF org_limit, repo_limit

\* Sets of rows are finite, and a smaller one has no more elements.
LEMMA RowSets ==
  ASSUME NEW S, NEW T, T \subseteq Job, S \subseteq T
  PROVE  /\ IsFiniteSet(S) /\ IsFiniteSet(T)
         /\ Cardinality(S) \in Nat /\ Cardinality(T) \in Nat
         /\ Cardinality(S) <= Cardinality(T)
<1>1. IsFiniteSet(T)
  BY QueueAssumption, FS_Subset
<1>2. IsFiniteSet(S)
  BY <1>1, FS_Subset
<1>3. QED
  BY <1>1, <1>2, FS_Subset, FS_CardinalityType

\* A claimed row adds at most itself to what runs.
LEMMA OneMoreRow ==
  ASSUME NEW S, NEW T, T \subseteq Job, NEW j \in Job, S \subseteq T \cup {j},
         NEW n \in Nat, Cardinality(T) < n
  PROVE  Cardinality(S) <= n
<1>1. IsFiniteSet(T) /\ Cardinality(T) \in Nat
  BY RowSets
<1>2. Cardinality(T \cup {j}) <= Cardinality(T) + 1 /\ Cardinality(T \cup {j}) \in Nat
  <2>1. IsFiniteSet(T \cup {j})
    BY <1>1, FS_AddElement
  <2>2. Cardinality(T \cup {j}) \in Nat
    BY <2>1, FS_CardinalityType
  <2>3. Cardinality(T \cup {j}) = Cardinality(T) \/ Cardinality(T \cup {j}) = Cardinality(T) + 1
    BY <1>1, FS_AddElement
  <2>4. QED
    BY <1>1, <2>2, <2>3
<1>3. Cardinality(S) <= Cardinality(T \cup {j}) /\ Cardinality(S) \in Nat
  BY RowSets
<1>4. QED
  BY <1>1, <1>2, <1>3

\* Nothing runs in the empty table.
LEMMA CapsInit == Init => CapsRespected
<1> SUFFICES ASSUME Init PROVE CapsRespected
  OBVIOUS
<1>1. \A o, p : OrgRunning(jobs, o) = {} /\ RepoRunning(jobs, o, p) = {}
  BY DEF Init, OrgRunning, RepoRunning
<1>2. Cardinality({}) = 0
  BY FS_EmptySet
<1>3. QED
  BY <1>1, <1>2, LimitsAreNat DEF CapsRespected

\* Fewer running rows keep within the caps.
LEMMA CapsShrink ==
  ASSUME TypeOK, CapsRespected,
         \A o : OrgRunning(jobs', o) \subseteq OrgRunning(jobs, o),
         \A o, p : RepoRunning(jobs', o, p) \subseteq RepoRunning(jobs, o, p)
  PROVE  CapsRespected'
<1>1. \A o, p : OrgRunning(jobs, o) \subseteq Job /\ RepoRunning(jobs, o, p) \subseteq Job
  BY DEF TypeOK, OrgRunning, RepoRunning
<1>2. \A r \in Request : Cardinality(OrgRunning(jobs', r.org)) <= org_limit(r.org)
  <2> TAKE r \in Request
  <2>1. /\ Cardinality(OrgRunning(jobs', r.org)) <= Cardinality(OrgRunning(jobs, r.org))
        /\ Cardinality(OrgRunning(jobs', r.org)) \in Nat
        /\ Cardinality(OrgRunning(jobs, r.org)) \in Nat
    BY <1>1, RowSets
  <2>2. QED
    BY <2>1, LimitsAreNat DEF CapsRespected
<1>3. \A r \in Request : Cardinality(RepoRunning(jobs', r.org, r.repo)) <= repo_limit(r.org, r.repo)
  <2> TAKE r \in Request
  <2>1. /\ Cardinality(RepoRunning(jobs', r.org, r.repo))
             <= Cardinality(RepoRunning(jobs, r.org, r.repo))
        /\ Cardinality(RepoRunning(jobs', r.org, r.repo)) \in Nat
        /\ Cardinality(RepoRunning(jobs, r.org, r.repo)) \in Nat
    BY <1>1, RowSets
  <2>2. QED
    BY <2>1, LimitsAreNat DEF CapsRespected
<1>4. QED
  BY <1>2, <1>3 DEF CapsRespected

\* A step that starts no job and changes no request keeps within the caps.
LEMMA CalmCaps ==
  ASSUME TypeOK, CapsRespected, Calm
  PROVE  CapsRespected'
<1>1. \A o : OrgRunning(jobs', o) \subseteq OrgRunning(jobs, o)
  BY DEF Calm, OrgRunning
<1>2. \A o, p : RepoRunning(jobs', o, p) \subseteq RepoRunning(jobs, o, p)
  BY <1>1 DEF Calm, OrgRunning, RepoRunning
<1>3. QED
  BY <1>1, <1>2, CapsShrink

\* create_job adds no running row.
LEMMA InsertCaps ==
  ASSUME TypeOK, CapsRespected, NEW r \in Request, NEW id, id \notin DOMAIN jobs,
         jobs' = [j \in DOMAIN jobs \cup {id} |-> IF j = id THEN NewRow(r) ELSE jobs[j]]
  PROVE  CapsRespected'
<1>1. NewRow(r).status # "running"
  BY NewRowType DEF TypeOK, Table
<1>2. /\ DOMAIN jobs' = DOMAIN jobs \cup {id}
      /\ jobs'[id].status # "running"
      /\ \A j \in DOMAIN jobs : jobs'[j] = jobs[j]
  BY <1>1
<1>3. \A o : OrgRunning(jobs', o) \subseteq OrgRunning(jobs, o)
  BY <1>2 DEF OrgRunning
<1>4. \A o, p : RepoRunning(jobs', o, p) \subseteq RepoRunning(jobs, o, p)
  BY <1>2, <1>3 DEF OrgRunning, RepoRunning
<1>5. QED
  BY <1>3, <1>4, CapsShrink

\* The claim counts after its sweep and adds one row to what it counted.
LEMMA ClaimCaps ==
  ASSUME TypeOK, CapsRespected, NEW w \in Worker, NEW seconds \in LeaseSeconds,
         NEW j \in DOMAIN jobs, BelowCaps(Sweep(jobs), j),
         jobs' = [Sweep(jobs) EXCEPT ![j] = ClaimedRow(Sweep(jobs)[j], w, seconds)]
  PROVE  CapsRespected'
<1> DEFINE swept == Sweep(jobs)
           o == swept[j].req.org
           p == swept[j].req.repo
<1>1. jobs \in Table /\ DOMAIN jobs \subseteq Job
  BY DEF TypeOK, Table
<1>2. /\ swept \in Table /\ DOMAIN swept = DOMAIN jobs
      /\ \A i \in DOMAIN jobs : /\ swept[i].req = jobs[i].req
                                /\ swept[i].status = "running" => jobs[i].status = "running"
  BY <1>1, SweepFacts, SweepCalm
<1>3. /\ DOMAIN jobs' = DOMAIN jobs
      /\ jobs'[j].req = swept[j].req
      /\ \A i \in DOMAIN jobs : i # j => jobs'[i] = swept[i]
  <2>1. ClaimedRow(swept[j], w, seconds).req = swept[j].req
    BY <1>2, ClaimedRowFacts, QueueAssumption DEF Table
  <2>2. QED
    BY <1>2, <2>1 DEF Table
<1>4. /\ Cardinality(OrgRunning(swept, o)) < org_limit(o)
      /\ Cardinality(RepoRunning(swept, o, p)) < repo_limit(o, p)
  BY DEF BelowCaps
<1>5. /\ OrgRunning(jobs', o) \subseteq OrgRunning(swept, o) \cup {j}
      /\ RepoRunning(jobs', o, p) \subseteq RepoRunning(swept, o, p) \cup {j}
  BY <1>2, <1>3 DEF OrgRunning, RepoRunning
<1>6. \A q : q # o => OrgRunning(jobs', q) \subseteq OrgRunning(jobs, q)
  BY <1>2, <1>3 DEF OrgRunning
<1>7. \A q, s : <<q, s>> # <<o, p>> => RepoRunning(jobs', q, s) \subseteq RepoRunning(jobs, q, s)
  BY <1>2, <1>3 DEF OrgRunning, RepoRunning
<1>8. \A q, s : /\ OrgRunning(jobs, q) \subseteq Job /\ RepoRunning(jobs, q, s) \subseteq Job
                /\ OrgRunning(swept, q) \subseteq Job /\ RepoRunning(swept, q, s) \subseteq Job
  BY <1>1, <1>2 DEF OrgRunning, RepoRunning
<1> HIDE DEF swept, o, p
<1>9. \A r \in Request : Cardinality(OrgRunning(jobs', r.org)) <= org_limit(r.org)
  <2> TAKE r \in Request
  <2>1. CASE r.org = o
    BY <1>1, <1>4, <1>5, <1>8, <2>1, OneMoreRow, LimitsAreNat
  <2>2. CASE r.org # o
    <3>1. /\ Cardinality(OrgRunning(jobs', r.org)) <= Cardinality(OrgRunning(jobs, r.org))
          /\ Cardinality(OrgRunning(jobs', r.org)) \in Nat
          /\ Cardinality(OrgRunning(jobs, r.org)) \in Nat
      BY <1>6, <1>8, <2>2, RowSets
    <3>2. QED
      BY <3>1, LimitsAreNat DEF CapsRespected
  <2>3. QED
    BY <2>1, <2>2
<1>10. \A r \in Request : Cardinality(RepoRunning(jobs', r.org, r.repo)) <= repo_limit(r.org, r.repo)
  <2> TAKE r \in Request
  <2>1. CASE <<r.org, r.repo>> = <<o, p>>
    BY <1>1, <1>4, <1>5, <1>8, <2>1, OneMoreRow, LimitsAreNat
  <2>2. CASE <<r.org, r.repo>> # <<o, p>>
    <3>1. /\ Cardinality(RepoRunning(jobs', r.org, r.repo))
               <= Cardinality(RepoRunning(jobs, r.org, r.repo))
          /\ Cardinality(RepoRunning(jobs', r.org, r.repo)) \in Nat
          /\ Cardinality(RepoRunning(jobs, r.org, r.repo)) \in Nat
      BY <1>7, <1>8, <2>2, RowSets
    <3>2. QED
      BY <3>1, LimitsAreNat DEF CapsRespected
  <2>3. QED
    BY <2>1, <2>2
<1>11. QED
  BY <1>9, <1>10 DEF CapsRespected

\* No step takes an organisation or a repository over its cap.
LEMMA CapsStep == IInv /\ [Next]_vars => CapsRespected'
<1> SUFFICES ASSUME IInv, [Next]_vars
             PROVE  CapsRespected'
  OBVIOUS
<1>0. TypeOK /\ CapsRespected /\ jobs \in Table
  BY DEF IInv, TypeOK, Table
<1>a. ASSUME jobs' = jobs
      PROVE  CapsRespected'
  BY <1>0, <1>a DEF CapsRespected
<1>1. ASSUME NEW c \in Client, NEW r \in Request, CreateJob(c, r)
      PROVE  CapsRespected'
  BY <1>1, <1>a DEF CreateJob
<1>2. ASSUME NEW c \in Client, NEW id \in Job, InsertKeyed(c, id)
      PROVE  CapsRespected'
  <2>1. creating[c] \in Request
    BY <1>0, <1>2 DEF InsertKeyed, TypeOK
  <2>2. CASE jobs' = jobs
    BY <2>2, <1>a
  <2>3. CASE jobs' # jobs
    <3>1. /\ id \notin DOMAIN jobs
          /\ jobs' = [j \in DOMAIN jobs \cup {id} |->
                        IF j = id THEN NewRow(creating[c]) ELSE jobs[j]]
      BY <1>2, <2>3 DEF InsertKeyed
    <3>2. QED
      BY <1>0, <2>1, <3>1, InsertCaps
  <2>4. QED
    BY <2>2, <2>3
<1>3. ASSUME NEW c \in Client, NEW id \in Job, InsertUnkeyed(c, id)
      PROVE  CapsRespected'
  <2>1. creating[c] \in Request
    BY <1>0, <1>3 DEF InsertUnkeyed, TypeOK
  <2>2. QED
    BY <1>0, <1>3, <2>1, InsertCaps DEF InsertUnkeyed
<1>4. ASSUME NEW c \in Client, ClientCrash(c)
      PROVE  CapsRespected'
  BY <1>4, <1>a DEF ClientCrash
<1>5. ASSUME NEW w \in Worker, NEW f \in Filter, NEW seconds \in LeaseSeconds,
             NEW locked \in SUBSET DOMAIN jobs, ClaimJob(w, f, seconds, locked)
      PROVE  CapsRespected'
  <2>1. CASE jobs' = Sweep(jobs)
    <3>1. Calm
      BY <1>0, <2>1, SweepFacts, SweepCalm DEF Calm
    <3>2. QED
      BY <1>0, <3>1, CalmCaps
  <2>2. CASE jobs' # Sweep(jobs)
    <3>1. PICK j \in DOMAIN jobs :
            /\ BelowCaps(Sweep(jobs), j)
            /\ jobs' = [Sweep(jobs) EXCEPT ![j] = ClaimedRow(Sweep(jobs)[j], w, seconds)]
      BY <1>0, <1>5, <2>2, ClaimEffect
    <3>2. QED
      BY <1>0, <3>1, ClaimCaps
  <2>3. QED
    BY <2>1, <2>2
<1>6. ASSUME NEW e \in executions, NEW seconds \in LeaseSeconds, HeartbeatJob(e, seconds)
      PROVE  CapsRespected'
  BY <1>0, <1>6, HeartbeatCalm, CalmCaps
<1>7. ASSUME NEW e \in executions, CompleteJob(e)
      PROVE  CapsRespected'
  BY <1>0, <1>7, CompleteCalm, CalmCaps
<1>8. ASSUME NEW e \in executions, Abandon(e)
      PROVE  CapsRespected'
  BY <1>8, <1>a DEF Abandon
<1>9. ASSUME NEW j \in DOMAIN jobs, CancelJob(j)
      PROVE  CapsRespected'
  BY <1>0, <1>9, CancelCalm, CalmCaps
<1>10. ASSUME Tick
       PROVE  CapsRespected'
  BY <1>0, <1>10, TickCalm, CalmCaps
<1>11. CASE UNCHANGED vars
  BY <1>11, <1>a DEF vars
<1>12. QED
  BY <1>1, <1>2, <1>3, <1>4, <1>5, <1>6, <1>7, <1>8, <1>9, <1>10, <1>11 DEF Next

-----------------------------------------------------------------------------
(* Exclusive leases                                                        *)

\* What LiveExecutionHoldsLease says of one execution, given the row of its
\* job and the set of stale jobs.
HoldsLease(row, e, S) ==
  Working(e) /\ e.job \notin S =>
    /\ row.attempts = e.attempt
    /\ \/ row.status \in Terminal
       \/ row.status = "running" /\ row.lease >= e.left

\* There are no executions at first.
LEMMA ExecInit == Init => LiveExecutionHoldsLease
BY DEF Init, LiveExecutionHoldsLease

\* The sweep passes over the job of an execution that is inside its lease.
LEMMA SweepHolds ==
  ASSUME NEW row \in Row, NEW e \in Execution, NEW S, HoldsLease(row, e, S)
  PROVE  HoldsLease(SweepRow(row), e, S)
<1>1. CASE Working(e) /\ e.job \notin S
  <2>1. ~Expired(row)
    <3>1. e.left \in Int /\ e.left >= 0
      BY <1>1 DEF Working, Execution
    <3>2. CASE row.status \in Terminal
      BY <3>2 DEF Terminal, Expired
    <3>3. CASE row.status = "running" /\ row.lease >= e.left
      BY <3>1, <3>3 DEF Expired, Row
    <3>4. QED
      BY <1>1, <3>2, <3>3 DEF HoldsLease
  <2>2. QED
    BY <2>1, SweepRowFacts
<1>2. CASE ~(Working(e) /\ e.job \notin S)
  BY <1>2 DEF HoldsLease
<1>3. QED
  BY <1>1, <1>2

\* Steps that change neither the table nor what the executions are.
LEMMA ExecSame ==
  ASSUME LiveExecutionHoldsLease,
         DOMAIN jobs \subseteq DOMAIN jobs',
         \A j \in DOMAIN jobs : jobs'[j] = jobs[j],
         executions' \subseteq executions, stale' = stale
  PROVE  LiveExecutionHoldsLease'
BY DEF LiveExecutionHoldsLease, Working

\* What LiveExecutionHoldsLease says, execution by execution.
LEMMA ExecMeaning ==
  ASSUME LiveExecutionHoldsLease, NEW e \in executions
  PROVE  /\ e.job \in DOMAIN jobs
         /\ e.attempt <= jobs[e.job].attempts
         /\ \A d \in executions : d.job = e.job /\ d.attempt = e.attempt => d = e
         /\ HoldsLease(jobs[e.job], e, stale)
BY DEF LiveExecutionHoldsLease, HoldsLease, Working

\* The same in the next state.
LEMMA ExecMeaningNext ==
  ASSUME \A e \in executions' :
           /\ e.job \in DOMAIN jobs'
           /\ e.attempt <= jobs'[e.job].attempts
           /\ \A d \in executions' : d.job = e.job /\ d.attempt = e.attempt => d = e
           /\ HoldsLease(jobs'[e.job], e, stale')
  PROVE  LiveExecutionHoldsLease'
BY DEF LiveExecutionHoldsLease, HoldsLease, Working

\* A claim: the sweep spares the jobs of live executions, and the job it then
\* leases is a queued one, which no live execution holds; its attempt number
\* is new.
LEMMA ClaimExec ==
  ASSUME TypeOK, LiveExecutionHoldsLease,
         NEW w \in Worker, NEW f \in Filter, NEW seconds \in LeaseSeconds,
         NEW locked \in SUBSET DOMAIN jobs, ClaimJob(w, f, seconds, locked)
  PROVE  LiveExecutionHoldsLease'
<1> DEFINE swept == Sweep(jobs)
<1>0. jobs \in Table /\ executions \subseteq Execution /\ stale' = stale /\ seconds \in Nat
  BY QueueAssumption DEF TypeOK, Table, ClaimJob
<1>1. /\ swept \in Table /\ DOMAIN swept = DOMAIN jobs
      /\ \A j \in DOMAIN jobs : /\ swept[j] = SweepRow(jobs[j])
                                /\ swept[j].attempts = jobs[j].attempts
  BY <1>0, SweepFacts, SweepCalm
<1>2. \A e \in executions :
        /\ e.job \in DOMAIN jobs
        /\ e.attempt <= swept[e.job].attempts
        /\ \A d \in executions : d.job = e.job /\ d.attempt = e.attempt => d = e
        /\ HoldsLease(swept[e.job], e, stale)
  <2> TAKE e \in executions
  <2>1. /\ e.job \in DOMAIN jobs
        /\ e.attempt <= jobs[e.job].attempts
        /\ \A d \in executions : d.job = e.job /\ d.attempt = e.attempt => d = e
        /\ HoldsLease(jobs[e.job], e, stale)
    BY ExecMeaning
  <2>2. HoldsLease(SweepRow(jobs[e.job]), e, stale)
    BY <1>0, <2>1, SweepHolds DEF Table
  <2>3. QED
    BY <1>1, <2>1, <2>2
<1>3. CASE jobs' = swept /\ executions' = executions
  BY <1>0, <1>1, <1>2, <1>3, ExecMeaningNext
<1>4. ASSUME NEW j \in DOMAIN jobs, swept[j].status = "queued",
             jobs' = [swept EXCEPT ![j] = ClaimedRow(swept[j], w, seconds)],
             executions' = executions \cup
                    {[job |-> j, worker |-> w, attempt |-> swept[j].attempts + 1,
                      left |-> seconds, phase |-> "working"]}
      PROVE  LiveExecutionHoldsLease'
  <2> DEFINE n == [job |-> j, worker |-> w, attempt |-> swept[j].attempts + 1,
                   left |-> seconds, phase |-> "working"]
             row == ClaimedRow(swept[j], w, seconds)
  <2>1. /\ row.attempts = swept[j].attempts + 1 /\ row.status = "running"
        /\ row.lease = seconds /\ swept[j].attempts \in Nat
    BY <1>0, <1>1, ClaimedRowFacts DEF Table, Row
  <2>2. /\ DOMAIN jobs' = DOMAIN jobs /\ jobs'[j] = row
        /\ \A i \in DOMAIN jobs : i # j => jobs'[i] = swept[i]
    BY <1>1, <1>4 DEF Table
  <2>3. n.job = j /\ n.attempt = swept[j].attempts + 1 /\ n.left = seconds
    OBVIOUS
  <2>4. executions' = executions \cup {n}
    BY <1>4
  <2> HIDE DEF n, row, swept
  <2>5. ASSUME NEW e \in executions
        PROVE  /\ e.job \in DOMAIN jobs'
               /\ e.attempt <= jobs'[e.job].attempts
               /\ HoldsLease(jobs'[e.job], e, stale')
               /\ e.job = j => e.attempt <= swept[j].attempts
    <3>0. e.attempt \in Nat
      BY <1>0 DEF Execution
    <3>1. CASE e.job # j
      BY <1>0, <1>2, <2>2, <3>1
    <3>2. CASE e.job = j
      <4>1. ~(Working(e) /\ e.job \notin stale)
        BY <1>2, <1>4, <3>2 DEF HoldsLease, Terminal
      <4>2. HoldsLease(jobs'[e.job], e, stale')
        BY <1>0, <4>1 DEF HoldsLease
      <4>3. QED
        BY <1>2, <2>1, <2>2, <3>0, <3>2, <4>2
    <3>3. QED
      BY <3>1, <3>2
  <2>6. /\ n.job \in DOMAIN jobs' /\ n.attempt <= jobs'[n.job].attempts
        /\ HoldsLease(jobs'[n.job], n, stale')
    BY <1>0, <2>1, <2>2, <2>3 DEF HoldsLease
  <2>7. \A e \in executions : ~(e.job = n.job /\ e.attempt = n.attempt)
    <3> TAKE e \in executions
    <3>1. e.attempt \in Nat
      BY <1>0 DEF Execution
    <3>2. QED
      BY <2>1, <2>3, <2>5, <3>1
  <2>8. QED
    BY <1>2, <2>4, <2>5, <2>6, <2>7, ExecMeaningNext
<1>5. QED
  BY <1>0, <1>3, <1>4, ClaimEffect

\* A call e makes about its job: an execution that is not e and is live is not
\* the one whose attempt the row counts, unless the job becomes stale.
LEMMA OtherExecution ==
  ASSUME LiveExecutionHoldsLease, NEW e \in executions, NoteStale(e),
         NEW d \in executions, d # e, d.job = e.job, Working(d)
  PROVE  d.job \in stale'
<1>1. CASE d.job \in stale
  BY <1>1 DEF NoteStale
<1>2. CASE d.job \notin stale
  <2>1. jobs[e.job].attempts = d.attempt /\ d.attempt # e.attempt
    BY <1>2 DEF LiveExecutionHoldsLease
  <2>2. QED
    BY <2>1 DEF NoteStale
<1>3. QED
  BY <1>1, <1>2

\* A heartbeat gives the row and the caller's view of it the same lease.
LEMMA HeartbeatExec ==
  ASSUME TypeOK, LiveExecutionHoldsLease, NEW e \in executions,
         NEW seconds \in LeaseSeconds, HeartbeatJob(e, seconds)
  PROVE  LiveExecutionHoldsLease'
<1> DEFINE n == [e EXCEPT !.left = seconds]
           row == [jobs[e.job] EXCEPT !.lease = seconds]
<1>0. /\ jobs \in Table /\ executions \subseteq Execution /\ seconds \in Nat
      /\ e.job \in DOMAIN jobs /\ NoteStale(e)
  BY QueueAssumption, ExecMeaning DEF TypeOK, Table, HeartbeatJob
<1>1. n.job = e.job /\ n.attempt = e.attempt /\ n.left = seconds
  BY <1>0 DEF Execution
<1>2. row.attempts = jobs[e.job].attempts /\ row.status = "running" /\ row.lease = seconds
  BY <1>0 DEF HeartbeatJob, OwnedBy, Table, Row
<1>3. executions' = (executions \ {e}) \cup {n} /\ jobs' = [jobs EXCEPT ![e.job] = row]
  BY DEF HeartbeatJob
<1> HIDE DEF n, row
<1>4. /\ DOMAIN jobs' = DOMAIN jobs /\ jobs'[e.job] = row
      /\ \A j \in DOMAIN jobs : j # e.job => jobs'[j] = jobs[j]
  BY <1>0, <1>3 DEF Table
<1>5. stale \subseteq stale' /\ (e.job \notin stale' => jobs[e.job].attempts = e.attempt)
  BY <1>0 DEF NoteStale
<1>6. ASSUME NEW d \in executions, d # e
      PROVE  /\ d.job \in DOMAIN jobs' /\ d.attempt <= jobs'[d.job].attempts
             /\ HoldsLease(jobs'[d.job], d, stale')
             /\ ~(d.job = e.job /\ d.attempt = e.attempt)
  <2>1. /\ d.job \in DOMAIN jobs /\ d.attempt <= jobs[d.job].attempts
        /\ HoldsLease(jobs[d.job], d, stale)
        /\ ~(d.job = e.job /\ d.attempt = e.attempt)
    BY <1>6, ExecMeaning
  <2>2. CASE d.job = e.job
    <3>1. HoldsLease(jobs'[d.job], d, stale')
      BY <1>0, <1>6, <2>2, OtherExecution DEF HoldsLease
    <3>2. QED
      BY <1>2, <1>4, <2>1, <2>2, <3>1
  <2>3. CASE d.job # e.job
    BY <1>4, <1>5, <2>1, <2>3 DEF HoldsLease
  <2>4. QED
    BY <2>2, <2>3
<1>7. /\ n.job \in DOMAIN jobs' /\ n.attempt <= jobs'[n.job].attempts
      /\ HoldsLease(jobs'[n.job], n, stale')
  BY <1>0, <1>1, <1>2, <1>4, <1>5, ExecMeaning DEF HoldsLease
<1>8. \A d, x \in executions' : d.job = x.job /\ d.attempt = x.attempt => d = x
  BY <1>1, <1>3, <1>6, ExecMeaning
<1>9. QED
  BY <1>3, <1>6, <1>7, <1>8, ExecMeaningNext

\* A completion ends the caller's own claim on the job; any other live
\* execution of it shows that the completion was stale.
LEMMA CompleteExec ==
  ASSUME TypeOK, LiveExecutionHoldsLease, NEW e \in executions, CompleteJob(e)
  PROVE  LiveExecutionHoldsLease'
<1> DEFINE n == [e EXCEPT !.phase = "reported"]
<1>0. /\ jobs \in Table /\ executions \subseteq Execution /\ e \in Execution
      /\ e.job \in DOMAIN jobs /\ NoteStale(e)
  BY ExecMeaning DEF TypeOK, Table, CompleteJob
<1>1. n.job = e.job /\ n.attempt = e.attempt /\ n.phase = "reported"
  BY <1>0 DEF Execution
<1>2. PICK row \in CompletedRows(jobs[e.job], e) : jobs' = [jobs EXCEPT ![e.job] = row]
  BY DEF CompleteJob
<1>3. row.attempts = jobs[e.job].attempts
  BY <1>0, CompletedRowFacts DEF Table
<1>4. executions' \subseteq (executions \ {e}) \cup {n}
  BY DEF CompleteJob
<1> HIDE DEF n
<1>5. /\ DOMAIN jobs' = DOMAIN jobs /\ jobs'[e.job] = row
      /\ \A j \in DOMAIN jobs : j # e.job => jobs'[j] = jobs[j]
  BY <1>0, <1>2 DEF Table
<1>6. stale \subseteq stale'
  BY <1>0 DEF NoteStale
<1>7. ASSUME NEW d \in executions, d # e
      PROVE  /\ d.job \in DOMAIN jobs' /\ d.attempt <= jobs'[d.job].attempts
             /\ HoldsLease(jobs'[d.job], d, stale')
             /\ ~(d.job = e.job /\ d.attempt = e.attempt)
  <2>1. /\ d.job \in DOMAIN jobs /\ d.attempt <= jobs[d.job].attempts
        /\ HoldsLease(jobs[d.job], d, stale)
        /\ ~(d.job = e.job /\ d.attempt = e.attempt)
    BY <1>7, ExecMeaning
  <2>2. CASE d.job = e.job
    <3>1. HoldsLease(jobs'[d.job], d, stale')
      BY <1>0, <1>7, <2>2, OtherExecution DEF HoldsLease
    <3>2. QED
      BY <1>3, <1>5, <2>1, <2>2, <3>1
  <2>3. CASE d.job # e.job
    BY <1>5, <1>6, <2>1, <2>3 DEF HoldsLease
  <2>4. QED
    BY <2>2, <2>3
<1>8. /\ n.job \in DOMAIN jobs' /\ n.attempt <= jobs'[n.job].attempts
      /\ HoldsLease(jobs'[n.job], n, stale')
  BY <1>0, <1>1, <1>3, <1>5, ExecMeaning DEF HoldsLease, Working
<1>9. \A d, x \in executions' : d.job = x.job /\ d.attempt = x.attempt => d = x
  BY <1>1, <1>4, <1>7, ExecMeaning
<1>10. QED
  BY <1>4, <1>7, <1>8, <1>9, ExecMeaningNext

\* A cancelled job keeps its attempt count and is finished.
LEMMA CancelExec ==
  ASSUME TypeOK, LiveExecutionHoldsLease, NEW j \in DOMAIN jobs, CancelJob(j)
  PROVE  LiveExecutionHoldsLease'
<1> DEFINE new == [Released(jobs[j]) EXCEPT !.status = "cancelled"]
<1>0. jobs \in Table /\ executions' = executions /\ stale' = stale
  BY DEF TypeOK, Table, CancelJob
<1>1. new.attempts = jobs[j].attempts /\ new.status \in Terminal
  BY <1>0, ReleasedType DEF Table, Row, Terminal
<1>2. jobs' = [jobs EXCEPT ![j] = new]
  BY DEF CancelJob
<1> HIDE DEF new
<1>3. /\ DOMAIN jobs' = DOMAIN jobs /\ jobs'[j] = new
      /\ \A i \in DOMAIN jobs : i # j => jobs'[i] = jobs[i]
  BY <1>0, <1>2 DEF Table
<1>4. ASSUME NEW e \in executions
      PROVE  /\ e.job \in DOMAIN jobs' /\ e.attempt <= jobs'[e.job].attempts
             /\ HoldsLease(jobs'[e.job], e, stale')
  <2>1. CASE e.job = j
    BY <1>0, <1>1, <1>3, <2>1, ExecMeaning DEF HoldsLease
  <2>2. CASE e.job # j
    BY <1>0, <1>3, <2>2, ExecMeaning
  <2>3. QED
    BY <2>1, <2>2
<1>5. QED
  BY <1>0, <1>4, ExecMeaning, ExecMeaningNext

\* Time passes for the row and for the worker's view of it alike.
LEMMA TickExec ==
  ASSUME TypeOK, LeaseIffRunning, LiveExecutionHoldsLease, Tick
  PROVE  LiveExecutionHoldsLease'
<1>0. /\ jobs \in Table /\ executions \subseteq Execution /\ stale' = stale
      /\ DOMAIN jobs' = DOMAIN jobs
      /\ \A j \in DOMAIN jobs : jobs'[j] = TickRow(jobs[j])
      /\ executions' = {TickExecution(e) : e \in executions}
  BY DEF TypeOK, Table, Tick
<1>1. ASSUME NEW e \in executions
      PROVE  LET d == TickExecution(e) IN
             /\ d.job \in DOMAIN jobs' /\ d.attempt <= jobs'[d.job].attempts
             /\ HoldsLease(jobs'[d.job], d, stale')
  <2> DEFINE d == TickExecution(e)
             row == jobs[e.job]
  <2>1. /\ e \in Execution /\ e.job \in DOMAIN jobs /\ row \in Row
        /\ e.attempt <= row.attempts /\ HoldsLease(row, e, stale)
    BY <1>0, ExecMeaning DEF Table
  <2>2. d.job = e.job /\ d.attempt = e.attempt /\ d.phase = e.phase /\ d.left = Less(e.left, -1)
    BY <2>1, TickExecutionFacts
  <2>3. /\ TickRow(row).attempts = row.attempts /\ TickRow(row).status = row.status
        /\ TickRow(row).lease = IF row.lease = NULL THEN NULL ELSE Less(row.lease, -1)
    BY <2>1, TickRowFacts
  <2>4. jobs'[d.job] = TickRow(row)
    BY <1>0, <2>1, <2>2
  <2> HIDE DEF d
  <2>5. e.left \in Int /\ (row.lease \in Int \/ row.lease = NULL)
    BY <2>1 DEF Execution, Row
  <2> HIDE DEF row
  <2>6. Working(d) => Working(e)
    BY <2>2, <2>5 DEF Working, Less
  <2>7. ASSUME Working(d), d.job \notin stale, row.status \notin Terminal
        PROVE  TickRow(row).lease >= d.left
    <3>1. row.lease >= e.left /\ e.left >= 0 /\ row.status = "running"
      BY <2>1, <2>2, <2>6, <2>7 DEF HoldsLease, Working
    <3>2. CASE row.lease \in Int
      <4>1. row.lease # NULL
        BY <3>2, QueueAssumption
      <4>2. Less(e.left, -1) <= Less(row.lease, -1)
        BY <2>5, <3>1, <3>2 DEF Less
      <4>3. Less(e.left, -1) \in Int /\ Less(row.lease, -1) \in Int
        BY <2>5, <3>2 DEF Less
      <4>4. QED
        BY <2>2, <2>3, <4>1, <4>2, <4>3
    <3>3. CASE row.lease = NULL
      <4>1. FALSE
        BY <2>1, <3>1, <3>3 DEF LeaseIffRunning, row
      <4>2. QED
        BY <4>1
    <3>4. QED
      BY <2>5, <3>2, <3>3
  <2>8. QED
    BY <1>0, <2>1, <2>2, <2>3, <2>4, <2>6, <2>7 DEF HoldsLease, d, row
<1>2. \A d, e \in executions : LET x == TickExecution(d) y == TickExecution(e)
                               IN x.job = y.job /\ x.attempt = y.attempt => x = y
  BY <1>0, TickExecutionFacts, ExecMeaning
<1>3. QED
  BY <1>0, <1>1, <1>2, ExecMeaningNext

\* Every step keeps the leases of live executions.
LEMMA ExecStep == IInv /\ [Next]_vars => LiveExecutionHoldsLease'
<1> SUFFICES ASSUME IInv, [Next]_vars
             PROVE  LiveExecutionHoldsLease'
  OBVIOUS
<1>0. TypeOK /\ LeaseIffRunning /\ LiveExecutionHoldsLease
  BY DEF IInv
<1>1. ASSUME NEW c \in Client, NEW r \in Request, CreateJob(c, r)
      PROVE  LiveExecutionHoldsLease'
  BY <1>0, <1>1, ExecSame DEF CreateJob
<1>2. ASSUME NEW c \in Client, NEW id \in Job, InsertKeyed(c, id)
      PROVE  LiveExecutionHoldsLease'
  <2>1. DOMAIN jobs \subseteq DOMAIN jobs' /\ \A j \in DOMAIN jobs : jobs'[j] = jobs[j]
    BY <1>2 DEF InsertKeyed
  <2>2. QED
    BY <1>0, <1>2, <2>1, ExecSame DEF InsertKeyed
<1>3. ASSUME NEW c \in Client, NEW id \in Job, InsertUnkeyed(c, id)
      PROVE  LiveExecutionHoldsLease'
  <2>1. DOMAIN jobs \subseteq DOMAIN jobs' /\ \A j \in DOMAIN jobs : jobs'[j] = jobs[j]
    BY <1>3 DEF InsertUnkeyed
  <2>2. QED
    BY <1>0, <1>3, <2>1, ExecSame DEF InsertUnkeyed
<1>4. ASSUME NEW c \in Client, ClientCrash(c)
      PROVE  LiveExecutionHoldsLease'
  BY <1>0, <1>4, ExecSame DEF ClientCrash
<1>5. ASSUME NEW w \in Worker, NEW f \in Filter, NEW seconds \in LeaseSeconds,
             NEW locked \in SUBSET DOMAIN jobs, ClaimJob(w, f, seconds, locked)
      PROVE  LiveExecutionHoldsLease'
  BY <1>0, <1>5, ClaimExec
<1>6. ASSUME NEW e \in executions, NEW seconds \in LeaseSeconds, HeartbeatJob(e, seconds)
      PROVE  LiveExecutionHoldsLease'
  BY <1>0, <1>6, HeartbeatExec
<1>7. ASSUME NEW e \in executions, CompleteJob(e)
      PROVE  LiveExecutionHoldsLease'
  BY <1>0, <1>7, CompleteExec
<1>8. ASSUME NEW e \in executions, Abandon(e)
      PROVE  LiveExecutionHoldsLease'
  BY <1>0, <1>8, ExecSame DEF Abandon
<1>9. ASSUME NEW j \in DOMAIN jobs, CancelJob(j)
      PROVE  LiveExecutionHoldsLease'
  BY <1>0, <1>9, CancelExec
<1>10. ASSUME Tick
       PROVE  LiveExecutionHoldsLease'
  BY <1>0, <1>10, TickExec
<1>11. CASE UNCHANGED vars
  BY <1>0, <1>11, ExecSame DEF vars
<1>12. QED
  BY <1>1, <1>2, <1>3, <1>4, <1>5, <1>6, <1>7, <1>8, <1>9, <1>10, <1>11 DEF Next

-----------------------------------------------------------------------------
(* The theorems                                                            *)

\* The conjuncts of IInv hold in every reachable state: together they are
\* inductive.
THEOREM Invariance == Spec => []IInv
<1>1. Init => IInv
  BY TypeInit, RowsInit, RowsOKMeaning, KeyInit, CapsInit, ExecInit DEF IInv
<1>2. IInv /\ [Next]_vars => IInv'
  <2> SUFFICES ASSUME IInv, [Next]_vars PROVE IInv'
    OBVIOUS
  <2>1. TypeOK' /\ RowsOK' /\ OnlyValidRequests'
    BY TypeStep, RowsStep DEF IInv
  <2>2. QueuedIsClaimable' /\ LeaseIffRunning'
    BY <2>1 DEF RowsOK, RowOK, QueuedIsClaimable, LeaseIffRunning
  <2>3. OneJobPerKey' /\ CapsRespected' /\ LiveExecutionHoldsLease'
    BY KeyStep, CapsStep, ExecStep
  <2>4. QED
    BY <2>1, <2>2, <2>3 DEF IInv
<1>3. QED
  BY <1>1, <1>2, PTL DEF Spec

\* claim_job_once never lets more jobs of an organisation or of a repository
\* run than the configuration allows, for any number of workers, any caps and
\* any set of rows SKIP LOCKED passes over.
THEOREM CapsHold == Spec => []CapsRespected
<1>1. IInv => CapsRespected
  BY DEF IInv
<1>2. QED
  BY <1>1, Invariance, PTL

\* No row is left queued with its attempts spent, and no job is claimed more
\* often than max_attempts.
THEOREM QueuedStaysClaimable == Spec => []QueuedIsClaimable
<1>1. IInv => QueuedIsClaimable
  BY DEF IInv
<1>2. QED
  BY <1>1, Invariance, PTL

\* A row has an owner and a lease exactly while it runs: the schema's
\* jobs_running_lease_chk never fails.
THEOREM LeaseIsRunning == Spec => []LeaseIffRunning
<1>1. IInv => LeaseIffRunning
  BY DEF IInv
<1>2. QED
  BY <1>1, Invariance, PTL

\* Any number of concurrent create_job calls with one idempotency key are
\* answered with one job.
THEOREM IdempotentEnqueue == Spec => []OneJobPerKey
<1>1. IInv => OneJobPerKey
  BY DEF IInv
<1>2. QED
  BY <1>1, Invariance, PTL

\* A Slack run never becomes two jobs.
THEOREM SlackRunOnce == Spec => []OneJobPerSlackRun
<1>1. IInv => OneJobPerSlackRun
  <2> SUFFICES ASSUME IInv, NEW i \in DOMAIN jobs, NEW j \in DOMAIN jobs,
                      jobs[i].req.task_type = SlackTask, jobs[j].req.task_type = SlackTask,
                      jobs[i].req.run_id = jobs[j].req.run_id
               PROVE  i = j
    BY DEF OneJobPerSlackRun
  <2>1. /\ jobs[i].req.key # NULL /\ jobs[i].req.key = jobs[i].req.run_id
        /\ jobs[j].req.key = jobs[j].req.run_id
    BY DEF IInv, OnlyValidRequests, validate_idempotency_key
  <2>2. QED
    BY <2>1 DEF IInv, OneJobPerKey
<1>2. QED
  BY <1>1, Invariance, PTL

\* Two executions of one job are inside their leases at once only after the
\* queue accepted a stale call, for any number of workers, even when they
\* share a worker id.
THEOREM LeaseIsExclusive == Spec => []ExclusiveLease
<1>1. IInv => ExclusiveLease
  <2> SUFFICES ASSUME LiveExecutionHoldsLease, NEW d \in executions, NEW e \in executions,
                      d.job = e.job, d.job \notin stale, Working(d), Working(e)
               PROVE  d = e
    BY DEF IInv, ExclusiveLease
  <2>1. jobs[d.job].attempts = d.attempt /\ jobs[e.job].attempts = e.attempt
    BY DEF LiveExecutionHoldsLease
  <2>2. QED
    BY <2>1, ExecMeaning
<1>2. QED
  BY <1>1, Invariance, PTL

-----------------------------------------------------------------------------
(* The life cycle                                                          *)

\* How a step may change one row.
RowMove(row, new) ==
  /\ new.req = row.req
  /\ \/ /\ new.status = row.status /\ new.attempts = row.attempts
        /\ new.result = row.result
     \/ /\ row.status \in Live /\ new.status = "running"
        /\ row.attempts < row.req.max_attempts /\ new.attempts = row.attempts + 1
     \/ /\ row.status = "running" /\ new.status = "queued"
        /\ row.attempts < row.req.max_attempts /\ new.attempts = row.attempts
     \/ /\ row.status = "running" /\ new.status \in {"succeeded", "failed"}
        /\ new.attempts = row.attempts
     \/ /\ row.status \in Live /\ new.status = "cancelled"
        /\ new.attempts = row.attempts

\* How a step may change the table: rows move, and a new row is queued.
TableMoves ==
  /\ DOMAIN jobs \subseteq DOMAIN jobs'
  /\ \A j \in DOMAIN jobs : RowMove(jobs[j], jobs'[j])
  /\ \A j \in DOMAIN jobs' \ DOMAIN jobs :
       jobs'[j].status = "queued" /\ jobs'[j].attempts = 0 /\ jobs'[j].req.max_attempts > 0

\* A step that leaves the table alone moves no job.
LEMMA SameMoves ==
  ASSUME jobs' = jobs
  PROVE  TableMoves
BY DEF TableMoves, RowMove

\* Only one row changes.
LEMMA OneRowMoves ==
  ASSUME jobs \in Table, NEW j \in DOMAIN jobs, NEW new,
         jobs' = [jobs EXCEPT ![j] = new], RowMove(jobs[j], new)
  PROVE  TableMoves
<1>1. /\ DOMAIN jobs' = DOMAIN jobs /\ jobs'[j] = new
      /\ \A i \in DOMAIN jobs : i # j => jobs'[i] = jobs[i]
  BY DEF Table
<1>2. \A i \in DOMAIN jobs : i # j => RowMove(jobs[i], jobs'[i])
  BY <1>1 DEF RowMove
<1>3. QED
  BY <1>1, <1>2 DEF TableMoves

\* An insert moves one job from absent to queued.
LEMMA InsertMoves ==
  ASSUME jobs \in Table, DOMAIN jobs \subseteq Job, NEW r \in Request, validate(r),
         NEW id, id \notin DOMAIN jobs,
         jobs' = [j \in DOMAIN jobs \cup {id} |-> IF j = id THEN NewRow(r) ELSE jobs[j]]
  PROVE  TableMoves
<1>1. NewRow(r).status = "queued" /\ NewRow(r).attempts = 0 /\ NewRow(r).req.max_attempts > 0
  BY NewRowType DEF validate
<1>2. /\ DOMAIN jobs' = DOMAIN jobs \cup {id} /\ jobs'[id] = NewRow(r)
      /\ \A j \in DOMAIN jobs : jobs'[j] = jobs[j]
  OBVIOUS
<1>3. \A j \in DOMAIN jobs : RowMove(jobs[j], jobs'[j])
  BY <1>2 DEF RowMove
<1>4. QED
  BY <1>1, <1>2, <1>3 DEF TableMoves

\* The sweep requeues or fails what has expired, and the claim may start, in
\* the same step, a job it has just requeued.
LEMMA ClaimMoves ==
  ASSUME jobs \in Table, NEW w \in Worker, NEW f \in Filter, NEW seconds \in LeaseSeconds,
         NEW locked \in SUBSET DOMAIN jobs, ClaimJob(w, f, seconds, locked)
  PROVE  TableMoves
<1> DEFINE swept == Sweep(jobs)
<1>1. /\ swept \in Table /\ DOMAIN swept = DOMAIN jobs
      /\ \A j \in DOMAIN jobs : swept[j] = SweepRow(jobs[j])
  BY SweepFacts
<1>2. ASSUME NEW row \in Row
      PROVE  RowMove(row, SweepRow(row))
  <2>1. CASE ~Expired(row)
    <3>1. SweepRow(row) = row
      BY <2>1, SweepRowFacts
    <3>2. QED
      BY <3>1 DEF RowMove
  <2>2. CASE Expired(row)
    BY <2>2, SweepRowFacts DEF RowMove, Expired
  <2>3. QED
    BY <2>1, <2>2
<1>3. ASSUME NEW row \in Row, SweepRow(row).status = "queued",
             SweepRow(row).attempts < SweepRow(row).req.max_attempts
      PROVE  RowMove(row, ClaimedRow(SweepRow(row), w, seconds))
  <2>1. seconds \in Nat /\ SweepRow(row) \in Row
    BY QueueAssumption, SweepRowFacts
  <2>2. SweepRow(row).req = row.req /\ SweepRow(row).attempts = row.attempts
    BY SweepRowFacts
  <2>3. row.status \in Live
    BY <1>3, SweepRowFacts DEF Expired, Live
  <2>4. QED
    BY <1>3, <2>1, <2>2, <2>3, ClaimedRowFacts DEF RowMove
<1>4. CASE jobs' = swept
  BY <1>1, <1>2, <1>4 DEF TableMoves, Table
<1>5. ASSUME NEW j \in DOMAIN jobs, swept[j].status = "queued",
             swept[j].attempts < swept[j].req.max_attempts,
             jobs' = [swept EXCEPT ![j] = ClaimedRow(swept[j], w, seconds)]
      PROVE  TableMoves
  <2>1. /\ DOMAIN jobs' = DOMAIN jobs /\ jobs'[j] = ClaimedRow(SweepRow(jobs[j]), w, seconds)
        /\ \A i \in DOMAIN jobs : i # j => jobs'[i] = SweepRow(jobs[i])
    BY <1>1, <1>5 DEF Table
  <2>2. RowMove(jobs[j], jobs'[j])
    BY <1>1, <1>3, <1>5, <2>1 DEF Table
  <2>3. QED
    BY <1>2, <2>1, <2>2 DEF TableMoves, Table
<1>6. QED
  BY <1>4, <1>5, ClaimEffect

\* Every operation moves every job as the life cycle allows.
LEMMA StepMoves == IInv /\ [Next]_vars => TableMoves
<1> SUFFICES ASSUME IInv, [Next]_vars
             PROVE  TableMoves
  OBVIOUS
<1>0. /\ jobs \in Table /\ DOMAIN jobs \subseteq Job /\ executions \subseteq Execution
      /\ creating \in [Client -> Request \cup {NULL}]
      /\ \A c \in Client : creating[c] # NULL => validate(creating[c])
      /\ \A e \in executions : e.job \in DOMAIN jobs
  BY DEF IInv, TypeOK, Table, OnlyValidRequests, LiveExecutionHoldsLease
<1>1. ASSUME NEW c \in Client, NEW r \in Request, CreateJob(c, r)
      PROVE  TableMoves
  BY <1>1, SameMoves DEF CreateJob
<1>2. ASSUME NEW c \in Client, NEW id \in Job, InsertKeyed(c, id)
      PROVE  TableMoves
  <2>1. creating[c] \in Request /\ validate(creating[c])
    BY <1>0, <1>2 DEF InsertKeyed
  <2>2. CASE jobs' = jobs
    BY <2>2, SameMoves
  <2>3. CASE jobs' # jobs
    <3>1. /\ id \notin DOMAIN jobs
          /\ jobs' = [j \in DOMAIN jobs \cup {id} |->
                        IF j = id THEN NewRow(creating[c]) ELSE jobs[j]]
      BY <1>2, <2>3 DEF InsertKeyed
    <3>2. QED
      BY <1>0, <2>1, <3>1, InsertMoves
  <2>4. QED
    BY <2>2, <2>3
<1>3. ASSUME NEW c \in Client, NEW id \in Job, InsertUnkeyed(c, id)
      PROVE  TableMoves
  <2>1. creating[c] \in Request /\ validate(creating[c])
    BY <1>0, <1>3 DEF InsertUnkeyed
  <2>2. QED
    BY <1>0, <1>3, <2>1, InsertMoves DEF InsertUnkeyed
<1>4. ASSUME NEW c \in Client, ClientCrash(c)
      PROVE  TableMoves
  BY <1>4, SameMoves DEF ClientCrash
<1>5. ASSUME NEW w \in Worker, NEW f \in Filter, NEW seconds \in LeaseSeconds,
             NEW locked \in SUBSET DOMAIN jobs, ClaimJob(w, f, seconds, locked)
      PROVE  TableMoves
  BY <1>0, <1>5, ClaimMoves
<1>6. ASSUME NEW e \in executions, NEW seconds \in LeaseSeconds, HeartbeatJob(e, seconds)
      PROVE  TableMoves
  <2> DEFINE new == [jobs[e.job] EXCEPT !.lease = seconds]
  <2>1. RowMove(jobs[e.job], new)
    BY <1>0 DEF RowMove, Table, Row
  <2>2. jobs' = [jobs EXCEPT ![e.job] = new]
    BY <1>6 DEF HeartbeatJob
  <2> HIDE DEF new
  <2>3. QED
    BY <1>0, <2>1, <2>2, OneRowMoves
<1>7. ASSUME NEW e \in executions, CompleteJob(e)
      PROVE  TableMoves
  <2>1. PICK row \in CompletedRows(jobs[e.job], e) : jobs' = [jobs EXCEPT ![e.job] = row]
    BY <1>7 DEF CompleteJob
  <2>2. RowMove(jobs[e.job], row)
    BY <1>0, <1>7, CompletedRowFacts DEF CompleteJob, OwnedBy, RowMove, Table
  <2>3. QED
    BY <1>0, <2>1, <2>2, OneRowMoves
<1>8. ASSUME NEW e \in executions, Abandon(e)
      PROVE  TableMoves
  BY <1>8, SameMoves DEF Abandon
<1>9. ASSUME NEW j \in DOMAIN jobs, CancelJob(j)
      PROVE  TableMoves
  <2> DEFINE new == [Released(jobs[j]) EXCEPT !.status = "cancelled"]
  <2>1. new.req = jobs[j].req /\ new.attempts = jobs[j].attempts /\ new.status = "cancelled"
    BY <1>0, ReleasedType DEF Table, Row
  <2>2. jobs' = [jobs EXCEPT ![j] = new]
    BY <1>9 DEF CancelJob
  <2> HIDE DEF new
  <2>3. RowMove(jobs[j], new)
    BY <1>9, <2>1 DEF CancelJob, RowMove
  <2>4. QED
    BY <1>0, <2>2, <2>3, OneRowMoves
<1>10. ASSUME Tick
       PROVE  TableMoves
  <2>1. ASSUME NEW row \in Row
        PROVE  RowMove(row, TickRow(row))
    BY TickRowFacts DEF RowMove
  <2>2. QED
    BY <1>0, <1>10, <2>1 DEF Tick, TableMoves, Table
<1>11. CASE UNCHANGED vars
  BY <1>11, SameMoves DEF vars
<1>12. QED
  BY <1>1, <1>2, <1>3, <1>4, <1>5, <1>6, <1>7, <1>8, <1>9, <1>10, <1>11 DEF Next

\* A finished job keeps its status and its result for ever.
THEOREM FinishedStaysFinished == Spec => TerminalIsFinal
<1>1. IInv /\ [Next]_vars =>
        [\A j \in DOMAIN jobs : jobs[j].status \in Terminal =>
            jobs'[j].status = jobs[j].status /\ jobs'[j].result = jobs[j].result]_vars
  BY StepMoves DEF TableMoves, RowMove, Live, Terminal
<1>2. QED
  BY <1>1, Invariance, PTL DEF Spec, TerminalIsFinal

\* Every behaviour of the queue is one of the life cycle: whatever claims,
\* sweeps, stale calls and cancellations do, a job is started at most
\* max_attempts times, waits only while it may be started, and ends once.
THEOREM QueueImplementsLifecycle == Spec => ImplementsLifecycle
<1>1. Init => Lifecycle!LifeInit
  BY DEF Init, Lifecycle!LifeInit
<1>2. IInv /\ IInv' /\ [Next]_vars => [Lifecycle!LifeNext]_(Lifecycle!lifeVars)
  <2> SUFFICES ASSUME IInv, IInv', [Next]_vars, NEW j \in Job
               PROVE  Lifecycle!Move(j)
    BY DEF Lifecycle!LifeNext
  <2>1. TableMoves
    BY StepMoves
  <2>2. CASE j \notin DOMAIN jobs'
    <3>1. j \notin DOMAIN jobs
      BY <2>1, <2>2 DEF TableMoves
    <3>2. Lifecycle!Same(j)
      BY <2>2, <3>1 DEF Lifecycle!Same
    <3>3. QED
      BY <3>2 DEF Lifecycle!Move
  <2>3. CASE j \in DOMAIN jobs' /\ j \notin DOMAIN jobs
    <3>1. Lifecycle!Enqueue(j)
      BY <2>1, <2>3 DEF TableMoves, Lifecycle!Enqueue
    <3>2. QED
      BY <3>1 DEF Lifecycle!Move
  <2>4. CASE j \in DOMAIN jobs
    <3>1. j \in DOMAIN jobs' /\ RowMove(jobs[j], jobs'[j])
      BY <2>1, <2>4 DEF TableMoves
    <3>2. QED
      BY <2>4, <3>1 DEF RowMove, Live, Lifecycle!Move, Lifecycle!Same, Lifecycle!Start,
         Lifecycle!Requeue, Lifecycle!Finish, Lifecycle!Cancel
  <2>5. QED
    BY <2>2, <2>3, <2>4
<1>3. QED
  BY <1>1, <1>2, Invariance, PTL DEF Spec, ImplementsLifecycle, Lifecycle!LifeSpec
=============================================================================
