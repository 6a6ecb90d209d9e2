--------------------------- MODULE LinearDelivery ---------------------------
(***************************************************************************)
(* The Linear delivery worker: POST /v1/linear/deliver-next claims a push  *)
(* job, delivers each of its directives to Linear under the mutation       *)
(* ledger, and completes the job.                                          *)
(*                                                                         *)
(* A handler is a process: every ledger statement and every HTTP request   *)
(* of deliver_job is a step of its own.  The job queue appears through     *)
(* what JobLifecycle promises of it: a lease may expire at any time, since *)
(* the handler sends no heartbeats and sleeps as long as Linear's          *)
(* Retry-After says.                                                       *)
(*                                                                         *)
(* Linear is external: attachments are keyed by issue and URL, the state   *)
(* update is idempotent, and a comment is posted once per request that     *)
(* arrives.  A comment request whose sender stopped waiting may still be   *)
(* on the wire.  Pacing, timings and the texts are left out.               *)
(***************************************************************************)
EXTENDS Naturals, Sequences, FiniteSetsExt

CONSTANTS
  Job,          \* the push jobs
  Payload,      \* job -> its directives, or NULL when the envelope is rejected
  Repo,         \* job -> organisation and repository
  MaxAttempts,  \* max_attempts of a push job (3 in the code)
  Handler,      \* concurrent deliver-next handlers, over all replicas
  WorkerOf,     \* handler -> the worker_id of its request
  MaxRetries,   \* LINEAR_MAX_RETRIES
  Routed,       \* issues that resolve to the configured team and project
  CanClose,     \* a completed state is configured
  PageSize,     \* comments(first: 100) of the issue query
  MaxChatter,   \* bound: comments other people write on an issue
  NULL

VARIABLES
  jobs,     \* job -> [status, attempts, claimed_by, last_error]
  ledger,   \* linear_mutations: key -> status, "absent" without a row
  handler,  \* handler -> its local state
  comments, \* Linear: key -> comments that carry the key's marker
  chatter,  \* Linear: issue -> comments without a marker
  attached, \* Linear: issues with the attachment of a commit
  closed,   \* Linear: issues in the completed state
  wire,     \* key -> comment requests that may still arrive
  missed    \* history: keys whose comment a snapshot failed to show

vars == <<jobs, ledger, handler, comments, chatter, attached, closed, wire, missed>>
linearVars == <<comments, chatter, attached, closed, wire>>

\* The key of a directive names repository, commit, issue, keyword and action,
\* and not the job.
mutation_key(j, d) == [repo |-> Repo[j], directive |-> d]

Directives == UNION {{Payload[j][n] : n \in DOMAIN Payload[j]} : j \in {i \in Job : Payload[i] # NULL}}
Key == {mutation_key(j, d) : j \in Job, d \in Directives}
Issue == {d.issue : d \in Directives}

ASSUME LinearAssumption ==
  /\ MaxAttempts \in Nat \ {0} /\ MaxRetries \in Nat /\ PageSize \in Nat /\ MaxChatter \in Nat
  /\ CanClose \in BOOLEAN
  /\ NULL \notin Job
  /\ \A j \in Job : Payload[j] # NULL =>
       Payload[j] \in Seq([issue: STRING, commit: STRING, closes: BOOLEAN])

Step == {"idle", "check", "begin", "fetch", "attach", "comment", "close", "succeed", "fail", "complete"}
Call == {"fetch", "attach", "comment", "close"}
Verdict == {"delivered", "retryable", "policy", "rate_limited"}

Row == [status: {"queued", "running", "succeeded", "failed"}, attempts: 0..MaxAttempts,
        claimed_by: {WorkerOf[h] : h \in Handler} \cup {NULL}, last_error: Verdict \cup {"expired", NULL}]

Local == [pc: Step, job: Job \cup {NULL}, n: Nat, attempt: 0..MaxRetries,
          seen: BOOLEAN, done: BOOLEAN, verdict: Verdict]

Idle == [pc |-> "idle", job |-> NULL, n |-> 1, attempt |-> 0,
         seen |-> FALSE, done |-> FALSE, verdict |-> "delivered"]

-----------------------------------------------------------------------------
(* The handler's position                                                  *)

Directive(h) == Payload[handler[h].job][handler[h].n]
KeyOf(h) == mutation_key(handler[h].job, Directive(h))

\* h goes on at step pc; each call starts its own count of retries.
Goto(h, pc) == [handler EXCEPT ![h] = [@ EXCEPT !.pc = pc, !.attempt = 0]]

NextDirective(h) ==
  [handler EXCEPT ![h] = [Idle EXCEPT !.pc = "check", !.job = handler[h].job, !.n = handler[h].n + 1]]

\* deliver_directive returns an error, which deliver_job notes in the ledger.
Fails(h, verdict) ==
  handler' = [handler EXCEPT ![h] = [Idle EXCEPT !.pc = "fail", !.job = handler[h].job,
                                                 !.n = handler[h].n, !.verdict = verdict]]

\* deliver_job returns.
Returns(h, verdict) ==
  handler' = [handler EXCEPT ![h] = [Idle EXCEPT !.pc = "complete", !.job = handler[h].job,
                                                 !.verdict = verdict]]

-----------------------------------------------------------------------------
(* The queue                                                               *)

\* The envelope is accepted and names at least one directive.
from_job(j) == Payload[j] # NULL /\ Payload[j] # <<>>

\* claim_job, and the part of deliver_job before its loop.
Claim(h, j) ==
  /\ handler[h].pc = "idle"
  /\ jobs[j].status = "queued" /\ jobs[j].attempts < MaxAttempts
  /\ jobs' = [jobs EXCEPT ![j] = [@ EXCEPT !.status = "running", !.attempts = jobs[j].attempts + 1,
                                           !.claimed_by = WorkerOf[h]]]
  /\ handler' = [handler EXCEPT ![h] =
       IF from_job(j)
       THEN [Idle EXCEPT !.job = j, !.pc = "check"]
       ELSE [Idle EXCEPT !.job = j, !.pc = "complete", !.verdict = "policy"]]
  /\ UNCHANGED <<ledger, linearVars, missed>>

\* The sweep of a later claim: back to the queue, or failed after the last
\* attempt, which keeps an earlier error.
Expire(j) ==
  /\ jobs[j].status = "running"
  /\ jobs' = [jobs EXCEPT ![j] =
       IF jobs[j].attempts < MaxAttempts
       THEN [@ EXCEPT !.status = "queued", !.claimed_by = NULL]
       ELSE [@ EXCEPT !.status = "failed", !.claimed_by = NULL,
                      !.last_error = IF jobs[j].last_error = NULL THEN "expired" ELSE jobs[j].last_error]]
  /\ UNCHANGED <<ledger, handler, linearVars, missed>>

\* What complete_job makes of the handler's verdict; only "retryable" has its
\* retryable flag set.
Outcome(row, verdict) ==
  CASE verdict = "delivered" -> "succeeded"
    [] verdict = "retryable" /\ row.attempts < MaxAttempts -> "queued"
    [] OTHER -> "failed"

\* complete_job; without the job the answer is an error and nothing changes.
Complete(h) ==
  LET j == handler[h].job IN
  /\ handler[h].pc = "complete"
  /\ jobs' = IF jobs[j].status = "running" /\ jobs[j].claimed_by = WorkerOf[h]
             THEN [jobs EXCEPT ![j] =
                    [@ EXCEPT !.status = Outcome(jobs[j], handler[h].verdict),
                              !.claimed_by = NULL,
                              !.last_error = IF handler[h].verdict = "delivered" THEN NULL
                                             ELSE handler[h].verdict]]
             ELSE jobs
  /\ handler' = [handler EXCEPT ![h] = Idle]
  /\ UNCHANGED <<ledger, linearVars, missed>>

-----------------------------------------------------------------------------
(* The ledger                                                              *)

\* Mutant: any row counts as delivered.
SkipsKnown(k) == ledger[k] # "absent"

is_succeeded(k) == ledger[k] = "succeeded"

\* The head of deliver_job's loop.
CheckLedger(h) ==
  /\ handler[h].pc = "check"
  /\ IF handler[h].n > Len(Payload[handler[h].job]) THEN Returns(h, "delivered")
     ELSE IF is_succeeded(KeyOf(h)) THEN handler' = NextDirective(h)
     ELSE handler' = Goto(h, "begin")
  /\ UNCHANGED <<jobs, ledger, linearVars, missed>>

\* begin_linear_mutation: an upsert that also reopens a succeeded row.
Begin(h) ==
  /\ handler[h].pc = "begin"
  /\ ledger' = [ledger EXCEPT ![KeyOf(h)] = "pending"]
  /\ handler' = Goto(h, "fetch")
  /\ UNCHANGED <<jobs, linearVars, missed>>

\* A statement of the ledger fails, as the loser of two first begins does; or
\* it is applied and its answer is lost.
LedgerFails(h) ==
  /\ \/ handler[h].pc = "check" /\ handler[h].n <= Len(Payload[handler[h].job])
        /\ UNCHANGED ledger
     \/ handler[h].pc = "begin" /\ ledger' \in {ledger, [ledger EXCEPT ![KeyOf(h)] = "pending"]}
     \/ handler[h].pc = "succeed" /\ ledger' \in {ledger, [ledger EXCEPT ![KeyOf(h)] = "succeeded"]}
  /\ Returns(h, "retryable")
  /\ UNCHANGED <<jobs, linearVars, missed>>

Succeed(h) ==
  /\ handler[h].pc = "succeed"
  /\ ledger' = [ledger EXCEPT ![KeyOf(h)] = "succeeded"]
  /\ handler' = NextDirective(h)
  /\ UNCHANGED <<jobs, linearVars, missed>>

\* The error of noting the failure is ignored.
NoteFailure(h) ==
  /\ handler[h].pc = "fail"
  /\ ledger' \in {ledger, [ledger EXCEPT ![KeyOf(h)] = "failed"]}
  /\ Returns(h, handler[h].verdict)
  /\ UNCHANGED <<jobs, linearVars, missed>>

-----------------------------------------------------------------------------
(* The calls of deliver_directive                                          *)

\* A handler that decided to comment and whose request has not been answered.
Committed(h, k) ==
  /\ handler[h].pc \in {"attach", "comment"} /\ ~handler[h].seen
  /\ KeyOf(h) = k

\* The comments on the issue that do not carry k's marker.
OtherComments(k) ==
  chatter[k.directive.issue]
    + MapThenSumSet(LAMBDA c : comments[c],
                    {c \in Key \ {k} : c.directive.issue = k.directive.issue})

\* Whether a page of the issue's comments shows the marker: with enough other
\* comments the page may not.
Shown(k) ==
  {shown \in BOOLEAN : /\ shown => comments[k] > 0
                       /\ ~shown => comments[k] = 0 \/ OtherComments(k) >= PageSize}

validate_issue(i) == i \in Routed

\* fetch_issue and validate_issue.
FetchAnswered(h) ==
  LET k == KeyOf(h) IN
  /\ handler[h].pc = "fetch"
  /\ IF validate_issue(Directive(h).issue)
     THEN \E shown \in Shown(k) :
            /\ handler' = [handler EXCEPT ![h] =
                 [@ EXCEPT !.pc = "attach", !.attempt = 0, !.seen = shown,
                           !.done = Directive(h).issue \in closed]]
            /\ missed' = IF /\ ~shown
                            /\ \/ comments[k] > 0 \/ wire[k] > 0
                               \/ \E g \in Handler \ {h} : Committed(g, k)
                         THEN missed \cup {k} ELSE missed
     ELSE Fails(h, "policy") /\ UNCHANGED missed
  /\ UNCHANGED <<jobs, ledger, linearVars>>

\* After the comment: the state update of a closing directive, if it is needed.
AfterComment(h) ==
  IF Directive(h).closes /\ ~handler[h].done
  THEN IF CanClose THEN handler' = Goto(h, "close") ELSE Fails(h, "policy")
  ELSE handler' = Goto(h, "succeed")

\* The comment is left out when the snapshot showed the marker.
AfterAttachment(h) ==
  IF handler[h].seen THEN AfterComment(h) ELSE handler' = Goto(h, "comment")

Attach(h) == attached' = attached \cup {<<Directive(h).issue, Directive(h).commit>>}

AttachAnswered(h) ==
  /\ handler[h].pc = "attach"
  /\ Attach(h)
  /\ AfterAttachment(h)
  /\ UNCHANGED <<jobs, ledger, comments, chatter, closed, wire, missed>>

CommentAnswered(h) ==
  /\ handler[h].pc = "comment"
  /\ comments' = [comments EXCEPT ![KeyOf(h)] = @ + 1]
  /\ AfterComment(h)
  /\ UNCHANGED <<jobs, ledger, chatter, attached, closed, wire, missed>>

Close(h) == closed' = closed \cup {Directive(h).issue}

CloseAnswered(h) ==
  /\ handler[h].pc = "close"
  /\ Close(h)
  /\ handler' = Goto(h, "succeed")
  /\ UNCHANGED <<jobs, ledger, comments, chatter, attached, wire, missed>>

-----------------------------------------------------------------------------
(* graphql: what else a call can come to                                   *)

\* Mutant: comments are retried like every other call.
retry_any(call) == TRUE

retry_ambiguous(call) == call # "comment"

\* Mutant: the count of retries wraps instead of ending the loop.
RetryForever(h, verdict) ==
  handler' = [handler EXCEPT ![h] = [@ EXCEPT !.attempt = (handler[h].attempt + 1) % (MaxRetries + 1)]]

\* Mutant: the loop runs once too often.
RetryOnceMore(h, verdict) ==
  IF handler[h].attempt <= MaxRetries
  THEN handler' = [handler EXCEPT ![h] = [@ EXCEPT !.attempt = handler[h].attempt + 1]]
  ELSE Fails(h, verdict)

\* Another round of the loop, or the error the last one returns.
Retry(h, verdict) ==
  IF handler[h].attempt < MaxRetries
  THEN handler' = [handler EXCEPT ![h] = [@ EXCEPT !.attempt = handler[h].attempt + 1]]
  ELSE Fails(h, verdict)

\* HTTP 429.
TooManyRequests(h) ==
  /\ handler[h].pc \in Call
  /\ Retry(h, "retryable")
  /\ UNCHANGED <<jobs, ledger, linearVars, missed>>

\* HTTP 200 with RATELIMITED among its errors: the last round returns the
\* policy error of every other GraphQL error.
GraphQLRateLimited(h) ==
  /\ handler[h].pc \in Call
  /\ Retry(h, "rate_limited")
  /\ UNCHANGED <<jobs, ledger, linearVars, missed>>

\* The request of a call without an answer had its effect, has it later, or
\* never has.  A late attachment or state update is like a prompt one.
MaybeApplied(h) ==
  /\ \/ handler[h].pc = "attach" /\ Attach(h) /\ UNCHANGED <<closed, wire>>
     \/ handler[h].pc = "close" /\ Close(h) /\ UNCHANGED <<attached, wire>>
     \/ handler[h].pc = "comment" /\ wire' = [wire EXCEPT ![KeyOf(h)] = @ + 1]
        /\ UNCHANGED <<attached, closed>>
     \/ UNCHANGED <<attached, closed, wire>>
  /\ UNCHANGED <<comments, chatter>>

\* A server error, a timeout or a broken connection.
NoAnswer(h) ==
  /\ handler[h].pc \in Call
  /\ MaybeApplied(h)
  /\ IF retry_ambiguous(handler[h].pc) THEN Retry(h, "retryable") ELSE Fails(h, "retryable")
  /\ UNCHANGED <<jobs, ledger, missed>>

\* Mutant: the answer is not checked for success.
UnreadableIsSuccess(h) ==
  /\ \/ handler[h].pc = "attach" /\ AfterAttachment(h)
     \/ handler[h].pc = "comment" /\ AfterComment(h)
     \/ handler[h].pc = "close" /\ handler' = Goto(h, "succeed")
  /\ UNCHANGED <<jobs, ledger, linearVars, missed>>

\* Too long, malformed, without data, or without success: true.
Unreadable(h) ==
  /\ handler[h].pc \in Call
  /\ MaybeApplied(h)
  /\ Fails(h, "retryable")
  /\ UNCHANGED <<jobs, ledger, missed>>

\* Any other status, GraphQL error or transport error.
Refused(h) ==
  /\ handler[h].pc \in Call
  /\ MaybeApplied(h)
  /\ Fails(h, "policy")
  /\ UNCHANGED <<jobs, ledger, missed>>

-----------------------------------------------------------------------------
(* The world outside                                                       *)

\* The process of a handler dies; a call it had under way may take effect.
Crash(h) ==
  /\ handler[h].pc # "idle"
  /\ IF handler[h].pc \in Call THEN MaybeApplied(h) ELSE UNCHANGED linearVars
  /\ handler' = [handler EXCEPT ![h] = Idle]
  /\ UNCHANGED <<jobs, ledger, missed>>

Arrive(k) ==
  /\ wire[k] > 0
  /\ wire' = [wire EXCEPT ![k] = @ - 1]
  /\ comments' = [comments EXCEPT ![k] = @ + 1]
  /\ UNCHANGED <<jobs, ledger, handler, chatter, attached, closed, missed>>

Lose(k) ==
  /\ wire[k] > 0
  /\ wire' = [wire EXCEPT ![k] = @ - 1]
  /\ UNCHANGED <<jobs, ledger, handler, comments, chatter, attached, closed, missed>>

Discuss(i) ==
  /\ chatter[i] < MaxChatter
  /\ chatter' = [chatter EXCEPT ![i] = @ + 1]
  /\ UNCHANGED <<jobs, ledger, handler, comments, attached, closed, wire, missed>>

-----------------------------------------------------------------------------
Init ==
  /\ jobs = [j \in Job |-> [status |-> "queued", attempts |-> 0,
                            claimed_by |-> NULL, last_error |-> NULL]]
  /\ ledger = [k \in Key |-> "absent"]
  /\ handler = [h \in Handler |-> Idle]
  /\ comments = [k \in Key |-> 0]
  /\ chatter = [i \in Issue |-> 0]
  /\ attached = {} /\ closed = {}
  /\ wire = [k \in Key |-> 0]
  /\ missed = {}

\* What a handler does by itself, whatever Linear answers.
Work(h) ==
  \/ CheckLedger(h) \/ Begin(h) \/ LedgerFails(h) \/ Succeed(h) \/ NoteFailure(h)
  \/ FetchAnswered(h) \/ AttachAnswered(h) \/ CommentAnswered(h) \/ CloseAnswered(h)
  \/ TooManyRequests(h) \/ GraphQLRateLimited(h) \/ NoAnswer(h) \/ Unreadable(h)
  \/ Refused(h) \/ Complete(h)

Next ==
  \/ \E h \in Handler, j \in Job : Claim(h, j)
  \/ \E j \in Job : Expire(j)
  \/ \E h \in Handler : Work(h)
  \/ \E h \in Handler : Crash(h)
  \/ \E k \in Key : Arrive(k)
  \/ \E k \in Key : Lose(k)
  \/ \E i \in Issue : Discuss(i)

Spec == Init /\ [][Next]_vars

\* Handlers run, someone keeps calling deliver-next, and claims sweep.
FairSpec ==
  /\ Spec
  /\ \A h \in Handler : WF_vars(Work(h))
  /\ WF_vars(\E h \in Handler, j \in Job : Claim(h, j))
  /\ \A j \in Job : WF_vars(Expire(j))

-----------------------------------------------------------------------------
(* Properties                                                              *)

\* Rows and handlers keep their types: in particular a job is claimed at most
\* MaxAttempts times and a call is tried at most MaxRetries + 1 times.
TypeOK ==
  /\ jobs \in [Job -> Row]
  /\ ledger \in [Key -> {"absent", "pending", "succeeded", "failed"}]
  /\ handler \in [Handler -> Local]
  /\ comments \in [Key -> Nat] /\ wire \in [Key -> Nat]
  /\ chatter \in [Issue -> 0..MaxChatter]
  /\ attached \subseteq Issue \X STRING /\ closed \subseteq Issue /\ missed \subseteq Key

\* Everything a directive asks for has happened at Linear.
Delivered(k) ==
  /\ <<k.directive.issue, k.directive.commit>> \in attached
  /\ comments[k] > 0
  /\ k.directive.closes => k.directive.issue \in closed

\* The ledger never claims more than Linear has: whatever calls fail, repeat,
\* arrive late or race another handler, a succeeded row means attachment,
\* marked comment and state are there.
LedgerIsTrue == \A k \in Key : ledger[k] = "succeeded" => Delivered(k)

\* A push job ends as succeeded only when every directive of it is delivered,
\* by this attempt, an earlier one or another job, and also when a handler
\* that lost its lease completes it under a shared worker id.
SucceededIsDelivered ==
  \A j \in Job : jobs[j].status = "succeeded" =>
    Payload[j] # NULL /\ \A n \in DOMAIN Payload[j] : Delivered(mutation_key(j, Payload[j][n]))

\* The marker protocol: a marker is posted twice only if some fetch did not
\* show a comment that was already posted, on the wire, or about to be sent
\* by another handler.  Retries, lost answers and crashes alone never
\* duplicate it.
DuplicateOnlyWhenMissed == \A k \in Key : comments[k] > 1 => k \in missed

\* What a handler may rely on at each step: the directives before its own are
\* delivered, and so is what it has already done, or found done, of its own.
HandlerProgress(h) ==
  LET x == handler[h] IN
  /\ x.pc # "idle" => x.job \in Job
  /\ x.pc \notin {"idle", "complete"} =>
       /\ Payload[x.job] # NULL
       /\ x.n \in 1..(Len(Payload[x.job]) + 1)
       /\ x.pc # "check" => x.n <= Len(Payload[x.job])
       /\ \A m \in 1..(x.n - 1) : Delivered(mutation_key(x.job, Payload[x.job][m]))
  /\ x.pc = "complete" /\ x.verdict = "delivered" =>
       /\ Payload[x.job] # NULL
       /\ \A m \in DOMAIN Payload[x.job] : Delivered(mutation_key(x.job, Payload[x.job][m]))
  /\ x.pc = "fail" => x.verdict # "delivered"
  /\ x.pc \in {"attach", "comment", "close"} =>
       /\ x.seen => comments[KeyOf(h)] > 0
       /\ x.done => Directive(h).issue \in closed
  /\ x.pc \in {"comment", "close"} =>
       <<Directive(h).issue, Directive(h).commit>> \in attached
  /\ x.pc = "comment" => ~x.seen
  /\ x.pc = "close" => comments[KeyOf(h)] > 0
  /\ x.pc = "succeed" => Delivered(KeyOf(h))

Progress == \A h \in Handler : HandlerProgress(h)

\* The marker protocol as long as no fetch missed a comment: of the comments
\* posted, on the wire and about to be sent there is at most one.
MarkerProtocol ==
  \A k \in Key \ missed :
    /\ comments[k] + wire[k] <= 1
    /\ \A g, h \in Handler : Committed(g, k) /\ Committed(h, k) => g = h
    /\ \A h \in Handler : Committed(h, k) => comments[k] + wire[k] = 0

\* The inductive invariant of the proofs.
IInv == TypeOK /\ LedgerIsTrue /\ SucceededIsDelivered /\ Progress /\ MarkerProtocol

\* What docs/linear-delivery.md says of the comment.
MarkedOnce == \A k \in Key : comments[k] <= 1

\* What docs/linear-delivery.md says of rate limits: the job is requeued.
RateLimitRequeues ==
  \A j \in Job : jobs[j].status = "failed" /\ jobs[j].last_error = "rate_limited" =>
    jobs[j].attempts = MaxAttempts

\* Every push job ends: calls are tried a bounded number of times, attempts
\* are bounded, and a handler that vanished loses its job.
EveryPushJobEnds == \A j \in Job : <>(jobs[j].status \in {"succeeded", "failed"})
=============================================================================
