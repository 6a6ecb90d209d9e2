---------------------------- MODULE DeliveryPlan ----------------------------
(***************************************************************************)
(* What the two daily-briefing delivery machines have in common: plans,    *)
(* destination receipts and the rule for the scheduled baseline.           *)
(*                                                                         *)
(* A run key is <<prefix, suffix>>: daily-portfolio:<prefix>:<suffix>; the *)
(* suffix of a scheduled key is its date, a number.                        *)
(***************************************************************************)
EXTENDS Integers

CONSTANTS
  Plan,       \* the PlanSpecs callers submit
  Receipt,    \* the DestinationReceipts callers submit
  Worker,     \* the processes that drive deliveries
  owner,      \* the owner name each of them uses, perhaps the same
  Now,        \* the clock readings callers pass in
  Ttl,        \* the lease lengths callers ask for
  NULL

RunKey == {p.run_key : p \in Plan}

DeliveryStatus == {"planned", "delivering", "ambiguous", "failed", "delivered"}

RunRecord == [spec: Plan, status: DeliveryStatus, generation: Nat, attempts: Nat,
              receipt: Receipt \cup {NULL}]

LeaseToken == [run_key: RunKey, owner: {owner[w] : w \in Worker}, fence: Nat, expires_at: Nat]

ScheduledBaseline == [scheduled_run_key: {p.scheduled_run_key : p \in Plan},
                      plan_digest: {p.plan_digest : p \in Plan},
                      delivery_digest: {p.delivery_digest : p \in Plan},
                      receipt_id: {r.receipt_id : r \in Receipt}]

ASSUME DeliveryAssumption ==
  /\ Now \subseteq Nat /\ Ttl \subseteq Nat
  /\ \A p \in Plan : p.scheduled_run_key \in STRING \X Nat
  /\ NULL \notin Receipt /\ NULL \notin LeaseToken /\ NULL \notin ScheduledBaseline
  /\ NULL \notin [date: Nat, receipt_id: {r.receipt_id : r \in Receipt}]

\* The date a scheduled key names.
scheduled_date(key) == key[2]

\* Mutant: a manual plan may carry the scheduled key of its date.
validate_plan_any_mode(p) ==
  p.scheduled_run_key[1] = "scheduled" /\ p.idempotency_key = p.run_key

\* The parts of a plan's identity agree; the text checks are about bytes.
validate_plan(p) ==
  /\ p.scheduled_run_key[1] = "scheduled"
  /\ p.idempotency_key = p.run_key
  /\ IF p.mode = "scheduled" THEN p.run_key = p.scheduled_run_key
                             ELSE p.run_key[1] = p.mode

validate_receipt(r) == r.delivered_at # 0

\* What a receipt of plan p does to the baseline b.
Effect == {"keep", "replace", "conflict"}

\* Mutant: a manual run counts as a scheduled one.
baseline_replacement_manual(b, p, r) ==
  IF b = NULL \/ scheduled_date(p.scheduled_run_key) > scheduled_date(b.scheduled_run_key)
  THEN "replace" ELSE "keep"

baseline_replacement(b, p, r) ==
  LET date == scheduled_date(p.scheduled_run_key)
      current == scheduled_date(b.scheduled_run_key)
      same == /\ b.plan_digest = p.plan_digest
              /\ b.delivery_digest = p.delivery_digest
              /\ b.receipt_id = r.receipt_id
  IN CASE p.mode = "manual"  -> "keep"
       [] p.mode # "manual" /\ b = NULL -> "replace"
       [] p.mode # "manual" /\ b # NULL /\ date > current -> "replace"
       [] p.mode # "manual" /\ b # NULL /\ date < current -> "keep"
       [] OTHER -> IF same THEN "keep" ELSE "conflict"

BaselineOf(p, r) ==
  [scheduled_run_key |-> p.scheduled_run_key, plan_digest |-> p.plan_digest,
   delivery_digest |-> p.delivery_digest, receipt_id |-> r.receipt_id]

\* Every transition advances the generation by one.
Advance(run, status) == [run EXCEPT !.status = status, !.generation = @ + 1]

Started(run) == [Advance(run, "delivering") EXCEPT !.attempts = @ + 1]

Delivered(run, r) == [Advance(run, "delivered") EXCEPT !.receipt = r]

NewRun(p) ==
  [spec |-> p, status |-> "planned", generation |-> 0, attempts |-> 0, receipt |-> NULL]
=============================================================================
