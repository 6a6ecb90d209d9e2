-------------------------- MODULE BriefingReceipts --------------------------
(***************************************************************************)
(* The receipt contracts of a daily briefing                               *)
(* (scripts/daily_briefing_receipts.py): the manifest of lane receipts     *)
(* that makes a briefing ready for composition, and the fenced delivery    *)
(* document that transition_delivery takes from command to command.        *)
(*                                                                         *)
(* Whoever knows the operation and the fencing token may issue a command,  *)
(* in any order; whoever began a delivery sends the briefing at some later *)
(* time, or never.                                                         *)
(***************************************************************************)
EXTENDS Integers, FiniteSets

CONSTANTS ExpectedLanes,
          LaneReceipts,        \* receipts lanes may write
          WindowStart, WindowEnd,
          Operations, MaxToken, MaxAttempt

VARIABLES manifest,            \* the receipts collected so far
          doc,                 \* the delivery document
          transit,             \* deliveries begun and not yet sent
          arrived,             \* <<operation, token>> of the messages that arrived
          misjudged            \* deliveries declared failed that did or may arrive

brvars == <<manifest, doc, transit, arrived, misjudged>>

NoDocument == [state |-> "none"]

READY_STATUSES == {"success", "no_results"}
TERMINAL_LANE_STATUSES == READY_STATUSES \union {"failed", "blocked", "unavailable", "skipped"}

\* The exact keys of a receipt, and the types, lengths and patterns of its values.
Legible(r) == r.fields

\* No key of payloads or credentials, however deep.
_walk_public_safe(r) == r.keys = "public"

\* The file is bounded, UTF-8, JSON without a key given twice, and an object.
load_json(r) == r.file = "object"

\* A receipt that is ready names its result, any other one its reason.
ValidReceipt(r) ==
    /\ Legible(r) /\ _walk_public_safe(r)
    /\ r.status \in TERMINAL_LANE_STATUSES
    /\ r.retained > r.observed
    /\ WindowStart <= r.observed /\ r.observed < WindowEnd
    /\ IF r.status \in READY_STATUSES
       THEN /\ r.result /\ ~r.reason
            /\ (r.status = "no_results") <=> (r.items = 0)
       ELSE ~r.result /\ r.reason

\* validate_lane_manifest: a receipt for every expected lane and no other,
\* no operation or path twice.
Unique(receipts, Id(_)) == \A r, s \in receipts : Id(r) = Id(s) => r = s

ValidManifest(receipts) ==
    /\ \A r \in receipts : load_json(r) /\ ValidReceipt(r)
    /\ WindowStart < WindowEnd
    /\ {r.lane : r \in receipts} = ExpectedLanes
    /\ Unique(receipts, LAMBDA r : r.lane)
    /\ Unique(receipts, LAMBDA r : r.operation)
    /\ Unique(receipts, LAMBDA r : r.path)

ReadyForComposition(receipts) ==
    ValidManifest(receipts) /\ \A r \in receipts : r.status \in READY_STATUSES
-----------------------------------------------------------------------------
(* transition_delivery                                                     *)

validate_delivery_state(d) ==
    /\ d.state \in {"prepared", "claimed", "delivering", "delivered", "retryable",
                    "terminal_failed", "reconciling"}
    /\ d.token > 0 /\ d.attempt > 0
    /\ d.receipt = (d.state = "delivered")
    /\ d.failure = (d.state \in {"retryable", "terminal_failed", "reconciling"})

Commands ==
    [kind : {"claim", "begin_delivery", "accept_receipt", "record_retryable_failure",
             "record_terminal_failure", "mark_ambiguous", "reconcile_not_delivered"},
     operation : Operations, token : 1..MaxToken, receipt : BOOLEAN, failure : BOOLEAN]

same_owner(d, c) == c.token = d.token /\ c.operation = d.operation

\* The states a command is legal from.
Legal(kind) ==
    CASE kind = "claim" -> {"prepared", "retryable"}
      [] kind = "begin_delivery" -> {"claimed"}
      [] kind = "accept_receipt" -> {"delivering", "reconciling"}
      [] kind = "record_retryable_failure" -> {"delivering"}
      [] kind = "record_terminal_failure" -> {"claimed", "delivering", "reconciling"}
      [] kind = "mark_ambiguous" -> {"delivering"}
      [] kind = "reconcile_not_delivered" -> {"reconciling"}

\* A claim needs a newer token, every other command the current one.
AdmittedInDoubt(d, c) ==
    /\ d.state \in Legal(c.kind) \/ (c.kind = "claim" /\ d.state = "reconciling")
    /\ IF c.kind = "claim" THEN c.token > d.token ELSE same_owner(d, c)
Admitted(d, c) ==
    /\ d.state \in Legal(c.kind)
    /\ IF c.kind = "claim" THEN c.token > d.token ELSE same_owner(d, c)
    /\ c.kind = "accept_receipt" => c.receipt
    /\ c.kind \in {"record_retryable_failure", "record_terminal_failure", "mark_ambiguous"}
         => c.failure

Successor(d, c) ==
    LET moved(state, receipt, failure) ==
            [d EXCEPT !.state = state, !.receipt = receipt, !.failure = failure]
    IN  CASE c.kind = "claim" ->
               [moved("claimed", FALSE, FALSE) EXCEPT
                   !.operation = c.operation, !.token = c.token,
                   !.attempt = @ + (IF d.state = "retryable" THEN 1 ELSE 0)]
          [] c.kind = "begin_delivery" -> [d EXCEPT !.state = "delivering"]
          [] c.kind = "accept_receipt" -> moved("delivered", TRUE, FALSE)
          [] c.kind \in {"record_retryable_failure", "reconcile_not_delivered"} ->
               moved("retryable", FALSE, TRUE)
          [] c.kind = "record_terminal_failure" -> moved("terminal_failed", FALSE, TRUE)
          [] c.kind = "mark_ambiguous" -> moved("reconciling", FALSE, TRUE)
-----------------------------------------------------------------------------
BRInit ==
    /\ manifest = {}
    /\ doc = NoDocument
    /\ transit = {} /\ arrived = {} /\ misjudged = {}

\* A lane hands in its receipt.
HandIn(r) ==
    /\ doc = NoDocument /\ r \notin manifest
    /\ manifest' = manifest \union {r}
    /\ UNCHANGED <<doc, transit, arrived, misjudged>>

\* A briefing composed from a ready manifest gets a delivery document.
Prepare ==
    /\ doc = NoDocument
    /\ ReadyForComposition(manifest)
    /\ \E op \in Operations :
          doc' = [state |-> "prepared", operation |-> op, token |-> 1, attempt |-> 1,
                  receipt |-> FALSE, failure |-> FALSE]
    /\ UNCHANGED <<manifest, transit, arrived, misjudged>>

\* transition_delivery; a command that is refused changes nothing.
transition_delivery(c) ==
    /\ doc # NoDocument
    /\ doc.attempt <= MaxAttempt
    /\ validate_delivery_state(doc)
    /\ Admitted(doc, c)
    /\ doc' = Successor(doc, c)
    /\ validate_delivery_state(doc')
    /\ LET sender == <<doc.operation, doc.token>>
       IN  /\ transit' = IF c.kind = "begin_delivery" THEN transit \union {sender} ELSE transit
           /\ misjudged' = IF /\ c.kind \in {"record_retryable_failure", "reconcile_not_delivered"}
                              /\ sender \in transit \union arrived
                           THEN misjudged \union {sender} ELSE misjudged
    /\ UNCHANGED <<manifest, arrived>>

\* The channel takes a message now, or loses it.
Arrive(sender) ==
    /\ transit' = transit \ {sender}
    /\ arrived' = arrived \union {sender}
    /\ UNCHANGED <<manifest, doc, misjudged>>

Lose(sender) ==
    /\ transit' = transit \ {sender}
    /\ UNCHANGED <<manifest, doc, arrived, misjudged>>

BRNext ==
    \/ \E r \in LaneReceipts : HandIn(r)
    \/ Prepare
    \/ \E c \in Commands : transition_delivery(c)
    \/ \E s \in transit : Arrive(s) \/ Lose(s)
-----------------------------------------------------------------------------
Senders == Operations \X Nat
Documents ==
    [state : {"prepared", "claimed", "delivering", "delivered", "retryable",
              "terminal_failed", "reconciling"},
     operation : Operations, token : Nat, attempt : Nat, receipt : BOOLEAN, failure : BOOLEAN]
BRTypeOK ==
    /\ doc = NoDocument \/ doc \in Documents
    /\ transit \subseteq Senders /\ arrived \subseteq Senders /\ misjudged \subseteq Senders
    /\ IsFiniteSet(arrived) /\ IsFiniteSet(misjudged)

\* The document's owner has begun a delivery that nobody called failed.
Owning(sender) ==
    /\ doc # NoDocument
    /\ doc.state \in {"delivering", "reconciling", "delivered", "terminal_failed"}
    /\ sender = <<doc.operation, doc.token>>
(* Every message that arrived or may is of the document's owner, or of one  *)
(* whose delivery was called failed although the message was on its way.    *)
EveryMessageIsKnown == \A s \in arrived \union transit : s \in misjudged \/ Owning(s)
BRInv == BRTypeOK /\ EveryMessageIsKnown

(* Readers get a briefing twice only if somebody declared a delivery       *)
(* failed whose message had arrived or was still under way.                *)
TwiceOnlyIfMisjudged == Cardinality(arrived) <= 1 + Cardinality(misjudged)
=============================================================================
