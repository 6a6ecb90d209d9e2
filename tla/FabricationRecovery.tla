------------------------- MODULE FabricationRecovery -------------------------
(***************************************************************************)
(* The recovery oracle for fenced fabrication workers and broker ACKs,     *)
(* scripts/fabrication_recovery_protocol.py: one job, its claims, durable  *)
(* checkpoints, result, failure, dead letter and ACK.  A worker that was   *)
(* once granted a fence may send any command under it at any later time,   *)
(* so every delayed, repeated or reordered command is one of the steps.    *)
(***************************************************************************)
EXTENDS Integers, FiniteSets

CONSTANTS Workers, MaxFence, MaxDeliveries, MaxSequence, Checkpoints, Failures, Letters, NULL

VARIABLES fab,         \* JobState
          grants,      \* the pairs of a fence and a worker ever claimed
          terminals    \* the terminal digests ever given out

fabvars == <<fab, grants, terminals>>

initial ==
    [phase |-> "queued", fence |-> 0, worker |-> NULL, delivery_count |-> 0,
     sequence |-> 0, checkpoint |-> NULL, artifact |-> NULL, failure |-> NULL,
     retryable |-> NULL, dlq |-> NULL, acked |-> FALSE]

\* JobState.validate, by phase.
validate(s) ==
    /\ s.delivery_count <= MaxDeliveries
    /\ (s.sequence = 0) = (s.checkpoint = NULL)
    /\ CASE s.phase = "queued" ->
              /\ s.fence = 0 /\ s.worker = NULL /\ s.delivery_count = 0
              /\ {s.artifact, s.failure, s.retryable, s.dlq} = {NULL} /\ ~s.acked
         [] s.phase = "running" ->
              {s.artifact, s.failure, s.retryable, s.dlq} = {NULL} /\ ~s.acked
         [] s.phase = "failed" ->
              /\ s.failure # NULL /\ s.retryable # NULL
              /\ s.artifact = NULL /\ s.dlq = NULL /\ ~s.acked
         [] s.phase = "completed" ->
              s.artifact # NULL /\ {s.failure, s.retryable, s.dlq} = {NULL}
         [] OTHER ->
              s.failure # NULL /\ s.retryable # NULL /\ s.dlq # NULL /\ s.artifact = NULL
    /\ s.phase # "queued" => s.fence > 0 /\ s.delivery_count > 0 /\ s.worker # NULL

Terminal == {"completed", "dead-lettered"}
\* A digest of all but the ACK, and of no state that is not terminal.
terminal_digest(s) == [s EXCEPT !.acked = FALSE]

\* attempt: a new state must be valid; a command that is refused changes nothing.
Becomes(s) ==
    /\ validate(s)
    /\ fab' = s
    /\ terminals' = IF s.phase \in Terminal THEN terminals \union {terminal_digest(s)}
                    ELSE terminals

_require_worker(f, w) == fab.phase # "queued" /\ w = fab.worker
_require_owner(f, w) == fab.phase # "queued" /\ f = fab.fence /\ w = fab.worker
-----------------------------------------------------------------------------
claim(f, w, delivery) ==
    /\ delivery <= MaxDeliveries
    /\ \/ fab.phase \in {"queued", "running"}
       \/ fab.phase = "failed" /\ fab.retryable
    /\ f > fab.fence /\ delivery > fab.delivery_count
    /\ Becomes([fab EXCEPT !.phase = "running", !.fence = f, !.worker = w,
                           !.delivery_count = delivery, !.failure = NULL, !.retryable = NULL])
    /\ grants' = grants \union {<<f, w>>}

\* The next checkpoint; the same one again is accepted and changes nothing.
checkpoint(f, w, sequence, data) ==
    /\ _require_owner(f, w) /\ fab.phase = "running"
    /\ sequence = fab.sequence + 1
    /\ Becomes([fab EXCEPT !.sequence = sequence, !.checkpoint = data])
    /\ UNCHANGED grants

complete(f, w, artifact) ==
    /\ _require_owner(f, w) /\ fab.phase = "running" /\ fab.sequence > 0
    /\ Becomes([fab EXCEPT !.phase = "completed", !.artifact = artifact])
    /\ UNCHANGED grants

fail(f, w, failure, retryable) ==
    /\ _require_owner(f, w) /\ fab.phase = "running"
    /\ Becomes([fab EXCEPT !.phase = "failed", !.failure = failure, !.retryable = retryable])
    /\ UNCHANGED grants

dead_letter(f, w, dlq) ==
    /\ _require_owner(f, w) /\ fab.phase = "failed"
    /\ fab.retryable => fab.delivery_count >= MaxDeliveries
    /\ Becomes([fab EXCEPT !.phase = "dead-lettered", !.dlq = dlq])
    /\ UNCHANGED grants

ack(digest) ==
    /\ fab.phase \in Terminal /\ digest = terminal_digest(fab) /\ ~fab.acked
    /\ Becomes([fab EXCEPT !.acked = TRUE])
    /\ UNCHANGED grants

FabInit == fab = initial /\ grants = {} /\ terminals = {}

\* The artifact a worker completes with is the one it made under its fence.
FabNext ==
    \/ \E f \in 1..MaxFence, w \in Workers, d \in 1..MaxDeliveries : claim(f, w, d)
    \/ \E g \in grants :
          \/ \E q \in 1..MaxSequence, data \in Checkpoints : checkpoint(g[1], g[2], q, data)
          \/ complete(g[1], g[2], g)
          \/ \E failure \in Failures, retryable \in BOOLEAN : fail(g[1], g[2], failure, retryable)
          \/ \E dlq \in Letters : dead_letter(g[1], g[2], dlq)
    \/ \E digest \in terminals : ack(digest)
-----------------------------------------------------------------------------
FabTypeOK ==
    /\ fab \in [phase : {"queued", "running", "failed"} \union Terminal, fence : Nat,
                worker : Workers \union {NULL}, delivery_count : Nat, sequence : Nat,
                checkpoint : Checkpoints \union {NULL}, artifact : (Nat \X Workers) \union {NULL},
                failure : Failures \union {NULL}, retryable : BOOLEAN \union {NULL},
                dlq : Letters \union {NULL}, acked : BOOLEAN]
    /\ grants \subseteq Nat \X Workers
\* Every grant is of the job's fence or an earlier one.
LastGrantRules == \A g \in grants : g[1] <= fab.fence
ArtifactIsTheOwners == fab.phase = "completed" => fab.artifact = <<fab.fence, fab.worker>>
FabInv == FabTypeOK /\ LastGrantRules /\ ArtifactIsTheOwners

(* A completed job holds what its last claimant made under its last fence,  *)
(* whichever delayed commands of earlier claimants arrive (_require_owner). *)
ResultIsTheLastClaims ==
    fab.phase = "completed" =>
        /\ fab.artifact = <<fab.fence, fab.worker>>
        /\ \A g \in grants : g[1] <= fab.fence
=============================================================================
