-------------------------- MODULE DeliveryProtocol --------------------------
(***************************************************************************)
(* What a daily-briefing delivery promises, without workers, leases or     *)
(* clocks.  A run is sent only from `planned` or after a known failure;    *)
(* once an attempt is in doubt nothing but a confirmed receipt moves the   *)
(* run; a delivered run is final; every change of a run is one generation; *)
(* the scheduled baseline moves only with a confirmed receipt and only to  *)
(* a later date.                                                           *)
(***************************************************************************)
EXTENDS Naturals

CONSTANTS Key, None

VARIABLES phase, generation, receipt, base

protocolVars == <<phase, generation, receipt, base>>

ProtocolInit ==
  /\ phase = [k \in Key |-> "absent"]
  /\ generation = [k \in Key |-> 0]
  /\ receipt = [k \in Key |-> None]
  /\ base = None

Becomes(k, to) ==
  /\ phase' = [phase EXCEPT ![k] = to]
  /\ generation' = [generation EXCEPT ![k] = @ + 1]

Schedule(k) ==
  /\ phase[k] = "absent"
  /\ phase' = [phase EXCEPT ![k] = "planned"]
  /\ UNCHANGED <<generation, receipt, base>>

Attempt(k) ==
  /\ phase[k] \in {"planned", "failed"}
  /\ Becomes(k, "delivering")
  /\ UNCHANGED <<receipt, base>>

Conclude(k) ==
  /\ phase[k] = "delivering"
  /\ Becomes(k, "failed") \/ Becomes(k, "ambiguous")
  /\ UNCHANGED <<receipt, base>>

Confirm(k) ==
  /\ phase[k] \in {"delivering", "ambiguous"}
  /\ Becomes(k, "delivered")
  /\ receipt[k] = None /\ receipt'[k] # None
  /\ \A x \in Key \ {k} : receipt'[x] = receipt[x]
  /\ \/ base' = base
     \/ /\ base' # None /\ base'.receipt_id = receipt'[k].receipt_id
        /\ base = None \/ base'.date > base.date

ProtocolNext == \E k \in Key : Schedule(k) \/ Attempt(k) \/ Conclude(k) \/ Confirm(k)

ProtocolSpec == ProtocolInit /\ [][ProtocolNext]_protocolVars
=============================================================================
