--------------------------- MODULE MutationReceipts ---------------------------
(***************************************************************************)
(* Intents to change a Linear or GitHub object, the results of trying, and *)
(* the report that says which intents may be tried now:                    *)
(* tools/artifact_recovery/mutation_receipts.py and                        *)
(* mutation_receipts_contract.py.                                          *)
(*                                                                         *)
(* An intent and a result are identified by their digest, that is by what  *)
(* they say.  Around the report is the world it is made for: writers that  *)
(* propose, and try an intent only while a current report calls it ready,  *)
(* somebody else who changes targets, and the clock.                       *)
(***************************************************************************)
EXTENDS RecoveryCommon

CONSTANTS Targets, Keys, Workflows, Compensations,
          Policies,          \* policy versions, each with the limits below
          MaxSkew, MaxSnapshotAge, MaxLease, MaxTries,
          MaxTime, MaxIntents, MaxVersion   \* bounds of the model

VARIABLES time, policy,
          target,   \* target -> its snapshot
          intents,  \* the intents of the report
          results   \* and its results

vars == <<time, policy, target, intents, results>>

limits == [skew |-> MaxSkew, snapshot_age |-> MaxSnapshotAge,
           lease |-> MaxLease, attempts |-> MaxTries]

-----------------------------------------------------------------------------
(* The contract: what an intent and a result must be.                      *)

\* _normalize_lease
ValidLease(lease) ==
    lease # NULL => lease.expires_at - lease.acquired_at \in 1 .. limits.lease

\* _normalize_chain
ValidChain(chain) == (chain.sequence = 0) <=> (chain.previous = NULL)

\* _normalize_target
ValidTarget(t) == t.system \in {"linear", "github"} /\ ValidLease(t.lease)

\* _normalize_intent
ValidIntent(i) ==
    /\ i.system \in {"linear", "github"}
    /\ i.relation => i.analysed
    /\ ValidLease(i.lease) /\ ValidChain(i.chain)

\* _normalize_result, against the intent it names.
ValidResult(r) ==
    LET i == r.intent
        changed == r.outcome \in {"accepted", "compensated"}
    IN  /\ i \in intents
        /\ r.key = i.key /\ r.target = i.target /\ r.before = i.observed
        /\ changed <=> r.after # NULL
        /\ changed => r.receipt
        /\ (r.outcome = "compensated") <=> (r.compensates # NULL)

\* The loop over the results: when they happened, and what they compensate.
ValidTiming(r) ==
    LET i == r.intent
    IN  /\ r.at <= time + limits.skew
        /\ r.at >= i.observed_at - limits.skew
        /\ i.lease # NULL =>
             /\ r.at >= i.lease.acquired_at - limits.skew
             /\ r.at <= i.lease.expires_at + limits.skew
        /\ r.compensates # NULL =>
             r.compensates \in results /\ r.compensates.outcome = "accepted"
-----------------------------------------------------------------------------
(* _assess_intent                                                          *)

Accepted(r) == r.outcome \in {"accepted", "compensated"}
ResultsOf(i) == {r \in results : r.intent = i}
CollidesUntried(key) ==
    \E a, b \in intents : /\ a # b /\ a.key = key /\ b.key = key
                          /\ ResultsOf(a) = {} /\ ResultsOf(b) = {}
Collides(key) == \E a, b \in intents : a # b /\ a.key = key /\ b.key = key

VersionChanged(i, t) == t.version # i.observed

LeaseExpired(i, t) == i.lease # NULL /\ t.lease # NULL /\ time > i.lease.expires_at

\* The reasons that concern the target as it is now.
TargetReason(i, t) == [
    target_system_mismatch |-> t.system # i.system,
    target_resource_mismatch |-> t.resource_kind # i.resource_kind,
    target_version_changed |-> VersionChanged(i, t),
    routing_changed |-> t.routing # i.routing,
    authorization_changed |-> t.authorization # i.authorization,
    policy_changed |-> i.policy # policy,
    snapshot_stale |-> time - t.observed_at > limits.snapshot_age
                       \/ time - i.observed_at > limits.snapshot_age,
    lease_changed |-> \/ i.lease = NULL \/ t.lease = NULL
                      \/ i.lease.token # t.lease.token
                      \/ i.lease.owner # t.lease.owner
                      \/ i.lease.expires_at # t.lease.expires_at,
    lease_expired |-> LeaseExpired(i, t)]

\* The reasons that concern the step before, if there is one.
ChainReason(i) ==
    LET p == i.chain.previous
    IN  IF p = NULL THEN {}
        ELSE IF p \notin results THEN {"previous_result_missing"}
        ELSE IF ~Accepted(p) THEN {"previous_result_not_accepted"}
        ELSE IF \/ p.intent.chain.workflow # i.chain.workflow
                \/ p.intent.chain.sequence + 1 # i.chain.sequence
        THEN {"previous_chain_mismatch"}
        ELSE IF ~target[p.target].resolvable \/ target[p.target].version # p.after
        THEN {"previous_subject_changed"}
        ELSE {}

Reasons(i) ==
    LET t == target[i.target]
        when(condition, reason) == IF condition THEN {reason} ELSE {}
        failed == \E r \in ResultsOf(i) : r.outcome = "provider_error"
        chained == i.chain.previous # NULL
    IN  when(Collides(i.key), "idempotency_key_reused")
        \union when(Cardinality(ResultsOf(i)) >= limits.attempts, "attempt_budget_exhausted")
        \union (IF ~t.resolvable THEN {"target_unresolved"}
                ELSE {c \in DOMAIN TargetReason(i, t) : TargetReason(i, t)[c]})
        \union ChainReason(i)
        \union when(failed, "provider_failure")
        \union when(failed /\ chained, "compensation_required")
        \union when(failed /\ chained /\ i.compensation = "none", "compensation_unavailable")

BlockedByChain == {"previous_result_missing", "previous_result_not_accepted",
                   "previous_chain_mismatch", "previous_subject_changed",
                   "compensation_unavailable"}
Denied == {"authorization_changed", "policy_changed"}
Conflict == {"idempotency_key_reused", "attempt_budget_exhausted",
             "target_system_mismatch", "target_resource_mismatch",
             "target_version_changed", "routing_changed"}

\* The last assignment to `decision` wins: the snapshot and the lease are
\* looked at after the authorization, and the chain last.
Decision(i) ==
    LET reasons == Reasons(i)
        has(codes) == reasons \intersect codes # {}
    IN  IF \E r \in ResultsOf(i) : Accepted(r) THEN "replay"
        ELSE IF has(BlockedByChain) THEN "blocked_by_chain"
        ELSE IF has({"target_unresolved"}) THEN "unverifiable"
        ELSE IF has({"lease_expired"}) THEN "expired"
        ELSE IF has({"snapshot_stale", "lease_changed"}) THEN "conflict"
        ELSE IF has(Denied) THEN "denied"
        ELSE IF has(Conflict) THEN "conflict"
        ELSE "ready"

\* _apply_collision_control: of several ready intents for one version of one
\* target none stays ready.
Assessment(i) ==
    IF /\ Decision(i) = "ready"
       /\ \E j \in intents \ {i} :
            /\ Decision(j) = "ready"
            /\ <<j.system, j.target, j.observed>> = <<i.system, i.target, i.observed>>
    THEN "conflict" ELSE Decision(i)

\* The report is rejected as a whole.
Invalid ==
    \/ \E t \in Targets : ~ValidTarget(target[t])
    \/ \E i \in intents : ~ValidIntent(i)
    \/ \E r \in results : ~ValidResult(r) \/ ~ValidTiming(r)
    \/ \E i \in intents :
         \/ Cardinality({r \in ResultsOf(i) : Accepted(r)}) > 1
         \/ target[i.target].resolvable /\
              \/ target[i.target].observed_at > time + limits.skew
              \/ i.observed_at > time + limits.skew
              \/ i.lease # NULL /\ i.lease.acquired_at > time + limits.skew

build_mutation_receipts_report ==
    IF Invalid THEN REJECTED ELSE [i \in intents |-> Assessment(i)]

Status(report) ==
    IF \E i \in DOMAIN report : report[i] \notin {"ready", "replay"} THEN "blocked"
    ELSE IF \E i \in DOMAIN report : report[i] # "replay" /\ "provider_failure" \in Reasons(i)
    THEN "partial" ELSE "complete"

\* _build_failure_ledger.  A replay has a reason code, so it is listed.
FailureLedger(report) ==
    {i \in DOMAIN report : report[i] # "ready" \/ Reasons(i) # {}}
-----------------------------------------------------------------------------
(* The world.                                                              *)

Init ==
    /\ time = 0
    /\ policy \in Policies
    /\ target = [t \in Targets |->
         [system |-> "linear", resource_kind |-> "linear_issue", version |-> 0,
          routing |-> 0, authorization |-> 0, observed_at |-> 0, resolvable |-> TRUE,
          lease |-> [token |-> 0, owner |-> "w", acquired_at |-> 0, expires_at |-> MaxLease]]]
    /\ intents = {}
    /\ results = {}

Steps == {r \in results : Accepted(r)}

\* A writer looks at a target and writes down what it wants to do.
Propose(t, key) ==
    /\ Cardinality(intents) < MaxIntents
    /\ \E w \in Workflows, previous \in Steps \union {NULL}, comp \in Compensations :
         /\ previous # NULL => previous.intent.chain.workflow = w
         /\ intents' = intents \union
             {[system |-> target[t].system, resource_kind |-> target[t].resource_kind,
               target |-> t, observed |-> target[t].version, observed_at |-> time,
               relation |-> FALSE, analysed |-> FALSE, key |-> key, policy |-> policy,
               routing |-> target[t].routing, authorization |-> target[t].authorization,
               lease |-> target[t].lease, compensation |-> comp,
               chain |-> [workflow |-> w, previous |-> previous,
                          sequence |-> IF previous = NULL THEN 0
                                       ELSE previous.intent.chain.sequence + 1]]}
    /\ UNCHANGED <<time, policy, target, results>>

\* A writer tries a ready intent; the provider takes it, perhaps as the
\* compensation of an earlier change, refuses it or fails.
Try(i) ==
    /\ build_mutation_receipts_report # REJECTED
    /\ build_mutation_receipts_report[i] = "ready"
    /\ \E outcome \in {"accepted", "rejected", "provider_error", "compensated"},
          undone \in {r \in results : r.outcome = "accepted"} \union {NULL} :
         LET taken == outcome \in {"accepted", "compensated"}
         IN  /\ (outcome = "compensated") <=> (undone # NULL)
             /\ target' = IF taken
                          THEN [target EXCEPT ![i.target].version = @ + 1,
                                              ![i.target].observed_at = time]
                          ELSE target
             /\ results' = results \union
                 {[intent |-> i, key |-> i.key, target |-> i.target, outcome |-> outcome,
                   receipt |-> taken, before |-> i.observed,
                   after |-> IF taken THEN target[i.target].version + 1 ELSE NULL,
                   at |-> time, compensates |-> undone]}
    /\ UNCHANGED <<time, policy, intents>>

\* Somebody else edits the target.
Edit(t) ==
    /\ target[t].version < MaxVersion
    /\ target' = [target EXCEPT ![t].version = @ + 1, ![t].observed_at = time]
    /\ UNCHANGED <<time, policy, intents, results>>

\* The lease of a target is taken over.
TakeOver(t) ==
    /\ time > target[t].lease.expires_at
    /\ target' = [target EXCEPT ![t].observed_at = time,
                    ![t].lease = [token |-> @.token + 1, owner |-> "v", acquired_at |-> time,
                                  expires_at |-> time + MaxLease]]
    /\ UNCHANGED <<time, policy, intents, results>>

\* The target cannot be looked up any more, or again.
Resolvable(t) ==
    /\ target' = [target EXCEPT ![t].resolvable = ~@]
    /\ UNCHANGED <<time, policy, intents, results>>

ChangePolicy ==
    /\ policy' \in Policies \ {policy}
    /\ UNCHANGED <<time, target, intents, results>>

Tick ==
    /\ time < MaxTime
    /\ time' = time + 1
    /\ UNCHANGED <<policy, target, intents, results>>

Next ==
    \/ \E t \in Targets, k \in Keys : Propose(t, k)
    \/ \E i \in intents : Try(i)
    \/ \E t \in Targets : Edit(t) \/ TakeOver(t) \/ Resolvable(t)
    \/ ChangePolicy \/ Tick

Spec == Init /\ [][Next]_vars
-----------------------------------------------------------------------------
(* A writer that tries only what a current report calls ready never has    *)
(* two changes accepted under one idempotency key, though several intents  *)
(* may carry it, tries are repeated, and targets and leases change.        *)
KeyAcceptedOnce ==
    \A r, s \in results : Accepted(r) /\ Accepted(s) /\ r.key = s.key => r = s

(* A result is of an intent there is, under that intent's key.             *)
MutationInv ==
    /\ \A r \in results : r.intent \in intents /\ r.key = r.intent.key
    /\ KeyAcceptedOnce
=============================================================================
