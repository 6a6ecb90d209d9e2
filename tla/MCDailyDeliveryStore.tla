------------------------ MODULE MCDailyDeliveryStore -----------------------
(* Instances of DailyDeliveryStore for TLC.                                *)
EXTENDS DailyDeliveryStore, TLC

CONSTANTS w1, w2

PlanOf(mode, suffix, date, digest) ==
  [run_key |-> <<mode, suffix>>, scheduled_run_key |-> <<"scheduled", date>>, mode |-> mode,
   plan_digest |-> digest, delivery_digest |-> digest, destination |-> "slack",
   idempotency_key |-> <<mode, suffix>>]

ReceiptOf(id, digest, at) ==
  [receipt_id |-> id, destination |-> "slack", body_digest |-> digest, delivered_at |-> at]

\* Two workers that use one owner name.
SharedOwner == [w \in {w1, w2} |-> "coordinator"]

\* A scheduled run, a recovery of its date that disagrees, a manual run of a
\* later date, and one that claims to be scheduled.
Plans ==
  {PlanOf("scheduled", 1, 1, "A"), PlanOf("recovery", 1, 1, "B"), PlanOf("manual", 2, 3, "A"),
   [PlanOf("manual", 1, 1, "B") EXCEPT !.mode = "scheduled"]}
Receipts == {ReceiptOf(1, "A", 1), ReceiptOf(2, "B", 0)}

DeliverySymmetry == Permutations({w1, w2})
=============================================================================
