-------------------------- MODULE MCLinearDelivery --------------------------
(* Instances of LinearDelivery for TLC.                                    *)
EXTENDS LinearDelivery

CONSTANTS j1, h1, h2

D(i, c, closes) == [issue |-> i, commit |-> c, closes |-> closes]

\* One push that closes an issue and references an issue of another project.
OnePush == [j \in Job |-> <<D("DEN-1", "c1", TRUE), D("DEN-2", "c1", FALSE)>>]

OneRepo == [j \in Job |-> "org/a"]
SharedWorker == [h \in Handler |-> "linear-delivery-prod-1"]
=============================================================================
