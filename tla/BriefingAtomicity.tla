------------------------- MODULE BriefingAtomicity --------------------------
(***************************************************************************)
(* The reference protocol for failure-atomic briefing delivery             *)
(* (scripts/daily_briefing_atomicity_model.py): one durable record, and    *)
(* commands that are applied whole or refused.  An owner that dies is      *)
(* taken over under a newer fence; its message may still arrive.           *)
(***************************************************************************)
EXTENDS Integers, FiniteSets

CONSTANTS Owners, Compositions, Destinations, Attempts, Evidence, Receipts,
          MaxFence, MaxSends, NULL

VARIABLES record,      \* the durable DeliveryState
          sends,       \* deliveries begun so far
          pending,     \* attempts begun whose message may still be sent
          received,    \* how many messages arrived, by attempt
          wrongly      \* how often an attempt was called absent that did or may arrive

bavars == <<record, sends, pending, received, wrongly>>

initial ==
    [phase |-> "pending", fence |-> 0, owner |-> NULL, composition |-> NULL,
     destination |-> NULL, attempt |-> NULL, receipt |-> NULL,
     reconciled |-> NULL, reconciliation |-> NULL]

DeliveryFields(s) == {s.destination, s.attempt, s.receipt}
\* DeliveryState.validate
Valid(s) ==
    /\ s.phase = "pending" => s = initial
    /\ s.phase # "pending" =>
         /\ s.fence > 0 /\ s.owner # NULL
         /\ (s.reconciled = NULL) = (s.reconciliation = NULL)
    /\ s.phase = "claimed" =>
         s.composition = NULL /\ s.reconciled = NULL /\ DeliveryFields(s) = {NULL}
    /\ s.phase \in {"composed", "delivery_started", "ambiguous", "delivered"} =>
         s.composition # NULL
    /\ s.phase = "composed" => DeliveryFields(s) = {NULL}
    /\ s.phase \in {"delivery_started", "ambiguous", "delivered"} =>
         s.destination # NULL /\ s.attempt # NULL
    /\ s.phase \in {"delivery_started", "ambiguous"} => s.receipt = NULL
    /\ s.phase = "delivered" => s.receipt # NULL
-----------------------------------------------------------------------------
(* apply: for each command the records that may replace s, s itself for a  *)
(* command that was applied before, none where it is refused.              *)

claim(s, fence, owner) ==
    IF s.phase = "pending" THEN {[s EXCEPT !.phase = "claimed", !.fence = fence, !.owner = owner]}
    ELSE IF fence = s.fence /\ owner = s.owner THEN {s}
    ELSE {}

takeover_restarting(s, fence, owner) ==
    IF s.phase = "pending" \/ fence <= s.fence THEN {}
    ELSE {[s EXCEPT !.phase = IF s.phase = "delivery_started" THEN "composed" ELSE s.phase,
                    !.destination = IF s.phase = "delivery_started" THEN NULL ELSE @,
                    !.attempt = IF s.phase = "delivery_started" THEN NULL ELSE @,
                    !.fence = fence, !.owner = owner]}
takeover(s, fence, owner) ==
    IF s.phase = "pending" \/ fence <= s.fence THEN {}
    ELSE {[s EXCEPT !.phase = IF s.phase = "delivery_started" THEN "ambiguous" ELSE s.phase,
                    !.fence = fence, !.owner = owner]}

compose(s, fence, composition) ==
    IF fence # s.fence THEN {}
    ELSE IF s.phase = "claimed"
    THEN {[s EXCEPT !.phase = "composed", !.composition = composition]}
    ELSE IF s.phase # "pending" /\ s.composition = composition THEN {s}
    ELSE {}

begin_delivery(s, fence, destination, attempt) ==
    IF fence # s.fence \/ s.reconciled = attempt THEN {}
    ELSE IF s.phase = "composed"
    THEN {[s EXCEPT !.phase = "delivery_started", !.destination = destination,
                    !.attempt = attempt, !.receipt = NULL]}
    ELSE IF s.destination = destination /\ s.attempt = attempt THEN {s}
    ELSE {}

mark_ambiguous(s, fence, attempt) ==
    IF fence # s.fence \/ s.attempt # attempt THEN {}
    ELSE IF s.phase = "delivery_started" THEN {[s EXCEPT !.phase = "ambiguous"]}
    ELSE IF s.phase = "ambiguous" THEN {s}
    ELSE {}

record_receipt(s, fence, attempt, receipt) ==
    IF fence # s.fence \/ s.attempt # attempt THEN {}
    ELSE IF s.phase \in {"delivery_started", "ambiguous"}
    THEN {[s EXCEPT !.phase = "delivered", !.receipt = receipt]}
    ELSE IF s.phase = "delivered" /\ s.receipt = receipt THEN {s}
    ELSE {}

prove_absent(s, fence, attempt, evidence) ==
    IF fence # s.fence THEN {}
    ELSE IF s.phase = "ambiguous" /\ s.attempt = attempt
    THEN {[s EXCEPT !.phase = "composed", !.destination = NULL, !.attempt = NULL,
                    !.receipt = NULL, !.reconciled = attempt, !.reconciliation = evidence]}
    ELSE IF s.phase = "composed" /\ s.reconciled = attempt /\ s.reconciliation = evidence
    THEN {s}
    ELSE {}
-----------------------------------------------------------------------------
BAInit ==
    /\ record = initial
    /\ sends = 0 /\ pending = {}
    /\ received = [a \in Attempts |-> 0] /\ wrongly = 0

\* attempt: the durable record is replaced by a valid successor or kept.
Replaced(successors) ==
    /\ Valid(record)
    /\ \E s \in successors : Valid(s) /\ record' = s

Own(fence) ==
    /\ \E owner \in Owners :
          Replaced(claim(record, fence, owner) \union takeover(record, fence, owner))
    /\ UNCHANGED <<sends, pending, received, wrongly>>

Compose(fence) ==
    /\ \E composition \in Compositions : Replaced(compose(record, fence, composition))
    /\ UNCHANGED <<sends, pending, received, wrongly>>

\* A begin that changed the record is what a message is sent for.
BeginDelivery(fence) ==
    /\ sends < MaxSends
    /\ \E d \in Destinations, a \in Attempts :
          /\ Replaced(begin_delivery(record, fence, d, a))
          /\ LET changed == record' # record
             IN  /\ sends' = IF changed THEN sends + 1 ELSE sends
                 /\ pending' = IF changed THEN pending \union {a} ELSE pending
    /\ UNCHANGED <<received, wrongly>>

MarkAmbiguous(fence) ==
    /\ \E a \in Attempts : Replaced(mark_ambiguous(record, fence, a))
    /\ UNCHANGED <<sends, pending, received, wrongly>>

RecordReceipt(fence) ==
    /\ \E a \in Attempts, r \in Receipts : Replaced(record_receipt(record, fence, a, r))
    /\ UNCHANGED <<sends, pending, received, wrongly>>

ProveAbsent(fence) ==
    /\ \E a \in Attempts, e \in Evidence :
          /\ Replaced(prove_absent(record, fence, a, e))
          /\ wrongly' = IF record' # record /\ (a \in pending \/ received[a] > 0)
                        THEN wrongly + 1 ELSE wrongly
    /\ UNCHANGED <<sends, pending, received>>

\* The message of an attempt arrives, or never will.
MessageArrives(a) ==
    /\ a \in pending
    /\ pending' = pending \ {a}
    /\ received' = [received EXCEPT ![a] = @ + 1]
    /\ UNCHANGED <<record, sends, wrongly>>

MessageLost(a) ==
    /\ a \in pending
    /\ pending' = pending \ {a}
    /\ UNCHANGED <<record, sends, received, wrongly>>

BANext ==
    \/ \E fence \in 1..MaxFence :
          \/ Own(fence) \/ Compose(fence) \/ BeginDelivery(fence)
          \/ MarkAmbiguous(fence) \/ RecordReceipt(fence) \/ ProveAbsent(fence)
    \/ \E a \in Attempts : MessageArrives(a) \/ MessageLost(a)
-----------------------------------------------------------------------------
Maybe(S) == S \union {NULL}
Begun == {"delivery_started", "ambiguous", "delivered"}
Records ==
    [phase : {"pending", "claimed", "composed"} \union Begun, fence : Nat,
     owner : Maybe(Owners), composition : Maybe(Compositions),
     destination : Maybe(Destinations), attempt : Maybe(Attempts), receipt : Maybe(Receipts),
     reconciled : Maybe(Attempts), reconciliation : Maybe(Evidence)]
BATypeOK ==
    /\ record \in Records
    /\ sends \in Nat /\ wrongly \in Nat
    /\ pending \subseteq Attempts /\ received \in [Attempts -> Nat]

(* While no attempt was called absent by mistake, the record knows of every *)
(* message that has arrived or may.                                         *)
RecordKnows ==
    wrongly = 0 =>
        \A a \in Attempts :
            /\ a \in pending \/ received[a] > 0 => record.attempt = a /\ record.phase \in Begun
            /\ a \in pending => received[a] = 0
            /\ received[a] <= 1
BAInv == BATypeOK /\ RecordKnows

(* However owners die and are taken over and commands are repeated, two    *)
(* messages arrive only if an attempt was called absent whose message had  *)
(* arrived or was still to arrive.                                         *)
TwoMessagesNeedAWrongProof ==
    \A a, b \in Attempts :
        (a # b /\ received[a] > 0 /\ received[b] > 0) \/ received[a] > 1 => wrongly > 0
=============================================================================
