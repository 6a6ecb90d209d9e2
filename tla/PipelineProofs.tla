--------------------------- MODULE PipelineProofs ---------------------------
(* Proofs about the parts of MCPipelines: the briefing, its atomicity model *)
(* and delivery document, the task digest, the nightly maintenance and the  *)
(* fabrication protocol.                                                    *)
EXTENDS MCPipelines, FiniteSetTheorems, SequenceTheorems, TLAPS

-----------------------------------------------------------------------------
(* The fabrication protocol                                                 *)

LEMMA FabInitially == ASSUME F!FabInit PROVE F!FabInv
BY DEF F!FabInit, F!initial, F!FabInv, F!FabTypeOK, F!LastGrantRules, F!ArtifactIsTheOwners, F!Terminal

(* A claim moves the fence past every grant; a command of any grant needs   *)
(* the fence and the worker of the last one.                                *)
LEMMA FabStep == ASSUME F!FabInv, F!FabNext PROVE F!FabInv'
<1> USE DEF F!FabInv, F!FabTypeOK, F!LastGrantRules, F!ArtifactIsTheOwners, F!Terminal, F!Becomes
<1>1. ASSUME NEW f \in 1..MaxFence, NEW w \in Workers, NEW d \in 1..Claims, F!claim(f, w, d)
      PROVE  F!FabInv'
  <2>1. f \in Nat /\ d \in Nat /\ f > fab.fence
    BY <1>1 DEF F!claim
  <2>2. /\ fab' = [fab EXCEPT !.phase = "running", !.fence = f, !.worker = w,
                              !.delivery_count = d, !.failure = NULL, !.retryable = NULL]
        /\ grants' = grants \union {<<f, w>>}
    BY <1>1 DEF F!claim
  <2>3. F!FabTypeOK'
    <3>1. grants' \subseteq Nat \X Workers
      <4>1. <<f, w>> \in Nat \X Workers BY <2>1
      <4> QED BY <2>2, <4>1
    <3>2. NULL \in Failures \union {NULL} /\ NULL \in BOOLEAN \union {NULL}
          /\ w \in Workers \union {NULL}
      OBVIOUS
    <3> QED BY <2>1, <2>2, <3>1, <3>2
  <2>4. \A g \in grants' : g[1] <= fab'.fence
    BY <2>1, <2>2
  <2> QED BY <2>2, <2>3, <2>4
<1>2. ASSUME NEW g \in grants, NEW q \in 1..MaxSequence, NEW data \in Checkpoints,
             F!checkpoint(g[1], g[2], q, data)
      PROVE  F!FabInv'
  <2>1. q \in Nat
    OBVIOUS
  <2>2. fab' = [fab EXCEPT !.sequence = q, !.checkpoint = data] /\ grants' = grants
    BY <1>2 DEF F!checkpoint
  <2>3. fab.phase = "running" BY <1>2 DEF F!checkpoint
  <2> QED BY <2>1, <2>2, <2>3
<1>3. ASSUME NEW g \in grants, F!complete(g[1], g[2], g)
      PROVE  F!FabInv'
  <2>1. g = <<fab.fence, fab.worker>> /\ g \in Nat \X Workers
    BY <1>3 DEF F!complete, F!_require_owner
  <2> QED BY <1>3, <2>1 DEF F!complete
<1>4. ASSUME NEW g \in grants, NEW failure \in Failures, NEW retryable \in BOOLEAN,
             F!fail(g[1], g[2], failure, retryable)
      PROVE  F!FabInv'
  BY <1>4 DEF F!fail
<1>5. ASSUME NEW g \in grants, NEW dlq \in Letters, F!dead_letter(g[1], g[2], dlq)
      PROVE  F!FabInv'
  BY <1>5 DEF F!dead_letter
<1>6. ASSUME NEW digest \in terminals, F!ack(digest)
      PROVE  F!FabInv'
  BY <1>6 DEF F!ack
<1> QED BY <1>1, <1>2, <1>3, <1>4, <1>5, <1>6 DEF F!FabNext
-----------------------------------------------------------------------------
(* The atomicity model                                                      *)

LEMMA BAInitially == ASSUME A!BAInit PROVE A!BAInv
BY DEF A!BAInit, A!initial, A!BAInv, A!BATypeOK, A!Records, A!RecordKnows, A!Maybe, A!Begun

(* What a command may make of the record while it leaves the messages as    *)
(* they are: a begun attempt stays the record's and stays begun.            *)
LEMMA KeptBegun ==
  ASSUME A!BAInv, A!BATypeOK', UNCHANGED <<pending, received, wrongly>>,
         record.phase \in A!Begun => record'.attempt = record.attempt /\ record'.phase \in A!Begun
  PROVE  A!BAInv'
BY DEF A!BAInv, A!RecordKnows, A!BATypeOK

LEMMA OwnStep == ASSUME A!BAInv, NEW fence \in 1..MaxFence, A!Own(fence) PROVE A!BAInv'
<1>1. PICK owner \in Owners :
        record' \in A!claim(record, fence, owner) \union A!takeover(record, fence, owner)
  BY DEF A!Own, A!Replaced
<1>2. fence \in Nat OBVIOUS
<1>3. UNCHANGED <<sends, pending, received, wrongly>> BY DEF A!Own
<1>4. /\ A!BATypeOK'
      /\ record.phase \in A!Begun => record'.attempt = record.attempt /\ record'.phase \in A!Begun
  <2> owner \in A!Maybe(Owners) BY DEF A!Maybe
  <2>1. CASE record' = record
    BY <1>3, <2>1 DEF A!BAInv, A!BATypeOK
  <2>2. CASE record' = [record EXCEPT !.phase = "claimed", !.fence = fence, !.owner = owner]
             /\ record.phase = "pending"
    BY <1>2, <1>3, <2>2 DEF A!BAInv, A!BATypeOK, A!Records, A!Begun
  <2>3. CASE record' = [record EXCEPT
                !.phase = IF record.phase = "delivery_started" THEN "ambiguous" ELSE record.phase,
                !.fence = fence, !.owner = owner]
    BY <1>2, <1>3, <2>3 DEF A!BAInv, A!BATypeOK, A!Records, A!Begun
  <2> QED BY <1>1, <2>1, <2>2, <2>3 DEF A!claim, A!takeover
<1> QED BY <1>3, <1>4, KeptBegun

LEMMA ComposeStep == ASSUME A!BAInv, NEW fence \in 1..MaxFence, A!Compose(fence) PROVE A!BAInv'
<1>1. PICK c \in Compositions : record' \in A!compose(record, fence, c)
  BY DEF A!Compose, A!Replaced
<1>2. UNCHANGED <<sends, pending, received, wrongly>> BY DEF A!Compose
<1>3. /\ A!BATypeOK'
      /\ record.phase \in A!Begun => record'.attempt = record.attempt /\ record'.phase \in A!Begun
  <2> c \in A!Maybe(Compositions) BY DEF A!Maybe
  <2> QED BY <1>1, <1>2 DEF A!compose, A!BAInv, A!BATypeOK, A!Records, A!Begun
<1> QED BY <1>2, <1>3, KeptBegun

LEMMA MarkAmbiguousStep == ASSUME A!BAInv, NEW fence \in 1..MaxFence, A!MarkAmbiguous(fence) PROVE A!BAInv'
<1>1. PICK a \in Attempts : record' \in A!mark_ambiguous(record, fence, a)
  BY DEF A!MarkAmbiguous, A!Replaced
<1>2. UNCHANGED <<sends, pending, received, wrongly>> BY DEF A!MarkAmbiguous
<1>3. /\ A!BATypeOK'
      /\ record.phase \in A!Begun => record'.attempt = record.attempt /\ record'.phase \in A!Begun
  BY <1>1, <1>2 DEF A!mark_ambiguous, A!BAInv, A!BATypeOK, A!Records, A!Begun
<1> QED BY <1>2, <1>3, KeptBegun

LEMMA RecordReceiptStep == ASSUME A!BAInv, NEW fence \in 1..MaxFence, A!RecordReceipt(fence) PROVE A!BAInv'
<1>1. PICK a \in Attempts, r \in Receipts : record' \in A!record_receipt(record, fence, a, r)
  BY DEF A!RecordReceipt, A!Replaced
<1>2. UNCHANGED <<sends, pending, received, wrongly>> BY DEF A!RecordReceipt
<1>3. /\ A!BATypeOK'
      /\ record.phase \in A!Begun => record'.attempt = record.attempt /\ record'.phase \in A!Begun
  <2> r \in A!Maybe(Receipts) BY DEF A!Maybe
  <2> QED BY <1>1, <1>2 DEF A!record_receipt, A!BAInv, A!BATypeOK, A!Records, A!Begun
<1> QED BY <1>2, <1>3, KeptBegun

(* An attempt is begun from a composed record, which knows of no message.   *)
LEMMA BeginDeliveryStep == ASSUME A!BAInv, NEW fence \in 1..MaxFence, A!BeginDelivery(fence) PROVE A!BAInv'
<1>1. PICK d \in Destinations, a \in Attempts :
        /\ A!Replaced(A!begin_delivery(record, fence, d, a))
        /\ sends' = IF record' # record THEN sends + 1 ELSE sends
        /\ pending' = IF record' # record THEN pending \union {a} ELSE pending
  BY DEF A!BeginDelivery
<1>2. UNCHANGED <<received, wrongly>> BY DEF A!BeginDelivery
<1>3. record' \in A!begin_delivery(record, fence, d, a)
  BY <1>1 DEF A!Replaced
<1>4. CASE record' = record
  <2>1. UNCHANGED pending /\ UNCHANGED sends BY <1>1, <1>4
  <2> QED BY <1>2, <1>4, <2>1 DEF A!BAInv, A!BATypeOK, A!RecordKnows
<1>5. CASE record' # record
  <2>1. /\ record.phase = "composed"
        /\ record' = [record EXCEPT !.phase = "delivery_started", !.destination = d,
                                    !.attempt = a, !.receipt = NULL]
    BY <1>3, <1>5 DEF A!begin_delivery
  <2>2. A!BATypeOK'
    <3> d \in A!Maybe(Destinations) /\ a \in A!Maybe(Attempts) /\ NULL \in A!Maybe(Receipts)
      BY DEF A!Maybe
    <3>1. record' \in A!Records
      BY <2>1 DEF A!BAInv, A!BATypeOK, A!Records, A!Begun
    <3> QED BY <1>1, <1>2, <3>1 DEF A!BAInv, A!BATypeOK
  <2>3. wrongly = 0 => \A b \in Attempts : b \notin pending /\ received[b] = 0
    BY <2>1 DEF A!BAInv, A!BATypeOK, A!RecordKnows, A!Records, A!Begun
  <2>4. pending' = pending \union {a} /\ record'.attempt = a /\ record'.phase \in A!Begun
    BY <1>1, <1>5, <2>1 DEF A!BAInv, A!BATypeOK, A!Records, A!Begun
  <2> QED BY <1>2, <2>2, <2>3, <2>4 DEF A!BAInv, A!RecordKnows
<1> QED BY <1>4, <1>5

(* An attempt called absent that may arrive is counted; one that cannot     *)
(* leaves the composed record knowing of no message.                        *)
LEMMA ProveAbsentStep == ASSUME A!BAInv, NEW fence \in 1..MaxFence, A!ProveAbsent(fence) PROVE A!BAInv'
<1>1. PICK a \in Attempts, e \in Evidence :
        /\ A!Replaced(A!prove_absent(record, fence, a, e))
        /\ wrongly' = IF record' # record /\ (a \in pending \/ received[a] > 0)
                      THEN wrongly + 1 ELSE wrongly
  BY DEF A!ProveAbsent
<1>2. UNCHANGED <<sends, pending, received>> BY DEF A!ProveAbsent
<1>3. record' \in A!prove_absent(record, fence, a, e)
  BY <1>1 DEF A!Replaced
<1>4. CASE record' = record
  <2>1. UNCHANGED wrongly BY <1>1, <1>4
  <2> QED BY <1>2, <1>4, <2>1 DEF A!BAInv, A!BATypeOK, A!RecordKnows
<1>5. CASE record' # record
  <2>1. /\ record.phase = "ambiguous" /\ record.attempt = a
        /\ record' = [record EXCEPT !.phase = "composed", !.destination = NULL, !.attempt = NULL,
                          !.receipt = NULL, !.reconciled = a, !.reconciliation = e]
    BY <1>3, <1>5 DEF A!prove_absent
  <2>2. A!BATypeOK'
    <3> /\ NULL \in A!Maybe(Destinations) /\ NULL \in A!Maybe(Attempts) /\ NULL \in A!Maybe(Receipts)
        /\ a \in A!Maybe(Attempts) /\ e \in A!Maybe(Evidence)
      BY DEF A!Maybe
    <3>1. record' \in A!Records
      BY <2>1 DEF A!BAInv, A!BATypeOK, A!Records, A!Begun
    <3> QED BY <1>1, <1>2, <3>1 DEF A!BAInv, A!BATypeOK
  <2>3. wrongly' = 0 => \A b \in Attempts : b \notin pending /\ received[b] = 0
    BY <1>1, <1>5, <2>1 DEF A!BAInv, A!BATypeOK, A!RecordKnows
  <2> QED BY <1>2, <2>2, <2>3 DEF A!BAInv, A!RecordKnows
<1> QED BY <1>4, <1>5

LEMMA MessageStep == ASSUME A!BAInv, NEW a \in Attempts, A!MessageArrives(a) \/ A!MessageLost(a) PROVE A!BAInv'
<1> USE DEF A!BAInv, A!BATypeOK, A!RecordKnows
<1>1. CASE A!MessageArrives(a)
  BY <1>1 DEF A!MessageArrives
<1>2. CASE A!MessageLost(a)
  BY <1>2 DEF A!MessageLost
<1> QED BY <1>1, <1>2

LEMMA BAStep == ASSUME A!BAInv, A!BANext PROVE A!BAInv'
BY OwnStep, ComposeStep, BeginDeliveryStep, MarkAmbiguousStep, RecordReceiptStep, ProveAbsentStep,
   MessageStep DEF A!BANext

LEMMA BASafe == ASSUME A!BAInv PROVE A!TwoMessagesNeedAWrongProof
BY DEF A!BAInv, A!BATypeOK, A!RecordKnows, A!TwoMessagesNeedAWrongProof
-----------------------------------------------------------------------------
(* The delivery document of the receipts                                    *)

(* The instance's cardinalities are the ones of FiniteSetTheorems.          *)
LEMMA SameFiniteness == \A S : R!IsFiniteSet(S) <=> IsFiniteSet(S)
BY DEF R!IsFiniteSet, IsFiniteSet

LEMMA SameCardinality == \A S : R!Cardinality(S) = Cardinality(S)
BY DEF R!Cardinality, Cardinality, R!IsFiniteSet, IsFiniteSet

LEMMA BRInitially == ASSUME R!BRInit PROVE R!BRInv
<1>1. R!IsFiniteSet({}) BY FS_EmptySet, SameFiniteness
<1> QED BY <1>1 DEF R!BRInit, R!BRInv, R!BRTypeOK, R!EveryMessageIsKnown

LEMMA PrepareStep == ASSUME R!BRInv, R!Prepare PROVE R!BRInv'
<1>1. PICK op \in Operations :
        doc' = [state |-> "prepared", operation |-> op, token |-> 1, attempt |-> 1,
                receipt |-> FALSE, failure |-> FALSE]
  BY DEF R!Prepare
<1>2. doc = R!NoDocument /\ UNCHANGED <<transit, arrived, misjudged>>
  BY DEF R!Prepare
<1>3. doc' \in R!Documents
  BY <1>1 DEF R!Documents
<1>4. \A s \in arrived \union transit : s \in misjudged
  BY <1>2 DEF R!BRInv, R!EveryMessageIsKnown, R!Owning
<1> QED BY <1>2, <1>3, <1>4 DEF R!BRInv, R!BRTypeOK, R!EveryMessageIsKnown

(* A command is legal from a document only: its successor is one again.     *)
LEMMA SuccessorIsADocument ==
  ASSUME R!BRInv, NEW c \in R!Commands, R!transition_delivery(c)
  PROVE  doc \in R!Documents /\ doc' \in R!Documents
<1>1. doc \in R!Documents /\ doc' = R!Successor(doc, c)
  BY DEF R!BRInv, R!BRTypeOK, R!transition_delivery
<1>2. c.operation \in Operations /\ c.token \in Nat
  BY DEF R!Commands
<1>3. doc.state \in R!Legal(c.kind)
  BY DEF R!transition_delivery, R!Admitted
<1>4. CASE c.kind = "claim"
  <2>1. doc' = [doc EXCEPT !.state = "claimed", !.receipt = FALSE, !.failure = FALSE,
                  !.operation = c.operation, !.token = c.token,
                  !.attempt = doc.attempt + (IF doc.state = "retryable" THEN 1 ELSE 0)]
    BY <1>1, <1>4 DEF R!Successor, R!Documents
  <2>2. doc.attempt + (IF doc.state = "retryable" THEN 1 ELSE 0) \in Nat
    BY <1>1 DEF R!Documents
  <2> QED BY <1>1, <1>2, <2>1, <2>2 DEF R!Documents
<1>5. CASE c.kind # "claim"
  BY <1>1, <1>5 DEF R!Successor, R!Documents, R!Commands
<1> QED BY <1>1, <1>4, <1>5

LEMMA TransitionStep ==
  ASSUME R!BRInv, NEW c \in R!Commands, R!transition_delivery(c) PROVE R!BRInv'
<1> DEFINE sender == <<doc.operation, doc.token>>
<1>1. doc \in R!Documents /\ doc' \in R!Documents
  BY SuccessorIsADocument
<1>2. /\ doc # R!NoDocument /\ doc' # R!NoDocument
      /\ sender \in R!Senders
  <2>1. sender \in R!Senders BY <1>1 DEF R!Senders, R!Documents
  <2>2. doc # R!NoDocument BY DEF R!transition_delivery
  <2>3. R!NoDocument \notin R!Documents BY DEF R!NoDocument, R!Documents
  <2> QED BY <1>1, <2>1, <2>2, <2>3
<1>3. /\ UNCHANGED arrived
      /\ doc' = R!Successor(doc, c) /\ doc.state \in R!Legal(c.kind)
      /\ transit' = IF c.kind = "begin_delivery" THEN transit \union {sender} ELSE transit
      /\ misjudged' = IF /\ c.kind \in {"record_retryable_failure", "reconcile_not_delivered"}
                         /\ sender \in transit \union arrived
                      THEN misjudged \union {sender} ELSE misjudged
  BY DEF R!transition_delivery, R!Admitted
<1>4. R!BRTypeOK'
  <2>1. R!IsFiniteSet(misjudged')
    <3>1. IsFiniteSet(misjudged) BY SameFiniteness DEF R!BRInv, R!BRTypeOK
    <3>2. IsFiniteSet(misjudged \union {sender}) BY <3>1, FS_AddElement
    <3> QED BY <1>3, <3>1, <3>2, SameFiniteness
  <2>2. transit' \subseteq R!Senders /\ misjudged' \subseteq R!Senders
    BY <1>2, <1>3 DEF R!BRInv, R!BRTypeOK
  <2> QED BY <1>1, <1>3, <2>1, <2>2 DEF R!BRInv, R!BRTypeOK
<1>5. misjudged \subseteq misjudged' BY <1>3
<1>6. R!EveryMessageIsKnown'
  <2> SUFFICES ASSUME NEW s \in (arrived \union transit)', s \notin misjudged'
               PROVE  R!Owning(s)'
    BY DEF R!EveryMessageIsKnown
  <2>1. s \in arrived \union transit => R!Owning(s)
    BY <1>5 DEF R!BRInv, R!EveryMessageIsKnown
  <2>2. CASE c.kind = "claim"
    BY <1>3, <2>1, <2>2 DEF R!Owning, R!Legal
  <2>3. CASE c.kind = "begin_delivery"
    <3>1. doc.state = "claimed" BY <1>3, <2>3 DEF R!Legal
    <3>2. s = sender BY <1>3, <2>1, <2>3, <3>1 DEF R!Owning
    <3>3. doc' = [doc EXCEPT !.state = "delivering"] BY <1>3, <2>3 DEF R!Successor
    <3> QED BY <1>1, <1>2, <3>2, <3>3 DEF R!Owning, R!Documents
  <2>4. CASE c.kind \in {"record_retryable_failure", "reconcile_not_delivered"}
    BY <1>3, <2>1, <2>4 DEF R!Owning
  <2>5. CASE c.kind \in {"accept_receipt", "record_terminal_failure", "mark_ambiguous"}
    <3>1. R!Owning(s) BY <1>3, <2>1, <2>5
    <3>2. /\ doc'.state \in {"delivered", "terminal_failed", "reconciling"}
          /\ doc'.operation = doc.operation /\ doc'.token = doc.token
      BY <1>1, <1>3, <2>5 DEF R!Successor, R!Documents
    <3> QED BY <1>2, <3>1, <3>2 DEF R!Owning
  <2> QED BY <2>2, <2>3, <2>4, <2>5 DEF R!Commands
<1> QED BY <1>4, <1>6 DEF R!BRInv

LEMMA MessageOfReceiptsStep ==
  ASSUME R!BRInv, NEW s \in transit, R!Arrive(s) \/ R!Lose(s) PROVE R!BRInv'
<1> USE DEF R!BRInv, R!BRTypeOK, R!EveryMessageIsKnown, R!Owning
<1>1. CASE R!Arrive(s)
  <2>1. arrived' = arrived \union {s} /\ transit' = transit \ {s} /\ UNCHANGED <<doc, misjudged>>
    BY <1>1 DEF R!Arrive
  <2>2. R!IsFiniteSet(arrived')
    <3>1. IsFiniteSet(arrived) BY SameFiniteness
    <3>2. IsFiniteSet(arrived \union {s}) BY <3>1, FS_AddElement
    <3> QED BY <2>1, <3>2, SameFiniteness
  <2> QED BY <2>1, <2>2
<1>2. CASE R!Lose(s)
  BY <1>2 DEF R!Lose
<1> QED BY <1>1, <1>2

LEMMA BRStep == ASSUME R!BRInv, R!BRNext PROVE R!BRInv'
<1>1. ASSUME NEW r, R!HandIn(r) PROVE R!BRInv'
  BY <1>1 DEF R!HandIn, R!BRInv, R!BRTypeOK, R!EveryMessageIsKnown, R!Owning
<1> QED BY <1>1, PrepareStep, TransitionStep, MessageOfReceiptsStep DEF R!BRNext

(* All messages but the owner's are of misjudged deliveries.                *)
LEMMA BRSafe == ASSUME R!BRInv PROVE R!TwiceOnlyIfMisjudged
<1> DEFINE sender == <<doc.operation, doc.token>>
           known == misjudged \union {sender}
<1>1. IsFiniteSet(misjudged) BY SameFiniteness DEF R!BRInv, R!BRTypeOK
<1>2. arrived \subseteq known
  BY DEF R!BRInv, R!EveryMessageIsKnown, R!Owning
<1>3. /\ IsFiniteSet(known)
      /\ Cardinality(known) = Cardinality(misjudged) \/ Cardinality(known) = Cardinality(misjudged) + 1
  BY <1>1, FS_AddElement
<1>4. Cardinality(arrived) <= Cardinality(known) /\ IsFiniteSet(arrived)
  BY <1>2, <1>3, FS_Subset
<1>5. Cardinality(arrived) \in Nat /\ Cardinality(misjudged) \in Nat /\ Cardinality(known) \in Nat
  BY <1>1, <1>3, <1>4, FS_CardinalityType
<1> QED BY <1>3, <1>4, <1>5, SameCardinality DEF R!TwiceOnlyIfMisjudged
-----------------------------------------------------------------------------
(* The task digest                                                          *)

LEMMA DatesAreNumbers == ASSUME NEW h \in Nat PROVE D!Date(h) \in Nat
BY DayAssumption DEF D!Date

LEMMA NoRunIsARun == D!NoRun \in D!WorkflowRuns
BY DEF D!NoRun, D!WorkflowRuns

LEMMA TDInitially == ASSUME D!TDInit PROVE D!TDInv
<1>1. \A r \in Twins : job[r].at = "none"
  BY DEF D!TDInit, D!NoRun
<1>2. D!TDTypeOK
  BY NoRunIsARun DEF D!TDInit, D!TDTypeOK
<1>3. D!MailHasItsReceipt
  BY <1>1 DEF D!TDInit, D!MailHasItsReceipt, D!Busy
<1> QED BY <1>2, <1>3 DEF D!TDInv

(* A step that ends a run that has not mailed, or starts one, disturbs no   *)
(* date: the other runs are as they were.                                   *)
LEMMA QuietRun ==
  ASSUME D!TDInv, NEW r \in Twins, NEW run \in D!WorkflowRuns, run.at \in {"none", "guarded"},
         job' = [job EXCEPT ![r] = run], job[r].at # "mailed",
         UNCHANGED <<hour, uploaded, mails, explained>>
  PROVE  D!TDInv'
<1>1. D!TDTypeOK'
  BY DEF D!TDInv, D!TDTypeOK
<1>2. /\ \A q \in Twins \ {r} : job'[q] = job[q]
      /\ job'[r].at \in {"none", "guarded"}
  BY DEF D!TDInv, D!TDTypeOK
<1>3. D!MailHasItsReceipt'
  <2> SUFFICES ASSUME NEW d \in DOMAIN mails \ explained
               PROVE  /\ mails[d] <= 1
                      /\ mails[d] = 1 => d \in uploaded
                             \/ \E q \in Twins : D!Busy(q, d)' /\ job'[q].at = "mailed"
                      /\ \A q \in Twins : D!Busy(q, d)' /\ job'[q].at = "clear" => mails[d] = 0
                      /\ \A q, p \in Twins : D!Busy(q, d)' /\ D!Busy(p, d)' => q = p
    BY DEF D!MailHasItsReceipt
  <2>1. \A q \in Twins : D!Busy(q, d)' => D!Busy(q, d) /\ job'[q] = job[q]
    BY <1>2 DEF D!Busy
  <2>2. \A q \in Twins : D!Busy(q, d) /\ job[q].at = "mailed" => D!Busy(q, d)' /\ job'[q] = job[q]
    BY <1>2 DEF D!Busy
  <2> QED BY <2>1, <2>2 DEF D!TDInv, D!MailHasItsReceipt
<1> QED BY <1>1, <1>3 DEF D!TDInv

LEMMA GuardStep == ASSUME D!TDInv, NEW r \in Twins, D!Guard(r) PROVE D!TDInv'
<1>1. PICK force \in BOOLEAN :
        job' = [job EXCEPT ![r] = [D!NoRun EXCEPT !.at = "guarded", !.force = force, !.guard = D!Date(hour)]]
  BY DEF D!Guard
<1>2. D!Date(hour) \in Nat BY DatesAreNumbers DEF D!TDInv, D!TDTypeOK
<1> DEFINE run == [D!NoRun EXCEPT !.at = "guarded", !.force = force, !.guard = D!Date(hour)]
<1>3. run \in D!WorkflowRuns /\ run.at = "guarded"
  <2>1. D!NoRun \in D!WorkflowRuns BY NoRunIsARun
  <2> QED BY <1>2, <2>1 DEF D!WorkflowRuns
<1>4. job[r].at = "none" /\ UNCHANGED <<hour, uploaded, mails, explained>> BY DEF D!Guard
<1> HIDE DEF run
<1> QED BY <1>1, <1>3, <1>4, QuietRun DEF run

(* A run that goes on after its look at the date's receipt did so alone, or *)
(* the date's second mail is explained.                                     *)
LEMMA LookUpStep == ASSUME D!TDInv, NEW r \in Twins, D!LookUp(r) PROVE D!TDInv'
<1> DEFINE date == D!Date(hour)
<1>1. job[r].at = "guarded" /\ UNCHANGED <<hour, uploaded, mails>> BY DEF D!LookUp
<1>2. PICK answer \in D!Answers :
        IF ~job[r].force /\ (D!get_json(answer, TRUE) = "error" \/ D!receipt_artifacts(answer, date))
        THEN job' = [job EXCEPT ![r] = D!NoRun] /\ UNCHANGED explained
        ELSE /\ \E w \in DigestWorkflows, task \in DigestTasks :
                   job' = [job EXCEPT ![r].at = "clear", ![r].date = date,
                                      ![r].digest = D!collect_digest(w, task)]
             /\ explained' = IF job[r].force \/ answer # "ok" \/ D!Overlaps(r, date)
                             THEN explained \union {date} ELSE explained
  BY DEF D!LookUp
<1>3. CASE job' = [job EXCEPT ![r] = D!NoRun] /\ UNCHANGED explained
  BY <1>1, <1>3, NoRunIsARun, QuietRun DEF D!NoRun
<1>4. ASSUME NEW digest \in D!Digests,
             job' = [job EXCEPT ![r].at = "clear", ![r].date = date, ![r].digest = digest],
             explained' = IF job[r].force \/ answer # "ok" \/ D!Overlaps(r, date)
                          THEN explained \union {date} ELSE explained,
             job[r].force \/ ~(D!get_json(answer, TRUE) = "error" \/ D!receipt_artifacts(answer, date))
      PROVE  D!TDInv'
  <2>1. date \in Nat BY DatesAreNumbers DEF D!TDInv, D!TDTypeOK
  <2> DEFINE run == [job[r] EXCEPT !.at = "clear", !.date = date, !.digest = digest]
  <2>2. job[r] \in D!WorkflowRuns BY DEF D!TDInv, D!TDTypeOK
  <2>3. run \in D!WorkflowRuns /\ run.at = "clear" /\ run.date = date
    BY <2>1, <2>2 DEF D!WorkflowRuns
  <2>4. job' = [job EXCEPT ![r] = run]
    BY <1>4
  <2> HIDE DEF run
  <2>5. D!TDTypeOK'
    <3>1. job' \in [Twins -> D!WorkflowRuns] BY <2>3, <2>4 DEF D!TDInv, D!TDTypeOK
    <3>2. explained' \subseteq Nat BY <1>4, <2>1 DEF D!TDInv, D!TDTypeOK
    <3> QED BY <1>1, <3>1, <3>2 DEF D!TDInv, D!TDTypeOK
  <2>6. /\ \A q \in Twins \ {r} : job'[q] = job[q]
        /\ job'[r].at = "clear" /\ job'[r].date = date
    BY <2>3, <2>4 DEF D!TDInv, D!TDTypeOK
  <2>7. explained \subseteq explained' BY <1>4
  <2>8. ASSUME NEW d \in DOMAIN mails \ explained'
        PROVE  /\ mails[d] <= 1
               /\ mails[d] = 1 => d \in uploaded
                      \/ \E q \in Twins : D!Busy(q, d)' /\ job'[q].at = "mailed"
               /\ \A q \in Twins : D!Busy(q, d)' /\ job'[q].at = "clear" => mails[d] = 0
               /\ \A q, p \in Twins : D!Busy(q, d)' /\ D!Busy(p, d)' => q = p
    <3>1. /\ mails[d] <= 1
          /\ mails[d] = 1 => d \in uploaded \/ \E q \in Twins : D!Busy(q, d) /\ job[q].at = "mailed"
          /\ \A q \in Twins : D!Busy(q, d) /\ job[q].at = "clear" => mails[d] = 0
          /\ \A q, p \in Twins : D!Busy(q, d) /\ D!Busy(p, d) => q = p
          /\ mails[d] \in Nat
      BY <2>7, <2>8 DEF D!TDInv, D!TDTypeOK, D!MailHasItsReceipt
    <3>2. \A q \in Twins \ {r} : (D!Busy(q, d)' <=> D!Busy(q, d)) /\ job'[q] = job[q]
      BY <2>6 DEF D!Busy
    <3>3. ~D!Busy(r, d) BY <1>1 DEF D!Busy
    <3>4. CASE d # date
      <4>1. ~D!Busy(r, d)' BY <2>6, <3>4 DEF D!Busy
      <4> QED BY <3>1, <3>2, <3>3, <4>1
    <3>5. CASE d = date
      <4>1. ~job[r].force /\ answer = "ok" /\ ~D!Overlaps(r, date)
        BY <1>4, <2>8, <3>5
      <4>2. d \notin uploaded
        BY <1>4, <3>5, <4>1 DEF D!receipt_artifacts, D!get_json
      <4>3. \A q \in Twins : ~D!Busy(q, d)
        BY <3>3, <3>5, <4>1 DEF D!Overlaps, D!Busy
      <4>4. mails[d] = 0 BY <3>1, <4>2, <4>3
      <4> QED BY <3>2, <4>3, <4>4
    <3> QED BY <3>4, <3>5
  <2>9. D!MailHasItsReceipt'
    BY <1>1, <2>8 DEF D!MailHasItsReceipt
  <2> QED BY <2>5, <2>9 DEF D!TDInv
<1>5. \A w \in DigestWorkflows, task \in DigestTasks : D!collect_digest(w, task) \in D!Digests
  BY DEF D!Digests
<1> QED BY <1>2, <1>3, <1>4, <1>5

LEMMA MailStep == ASSUME D!TDInv, NEW r \in Twins, D!Mail(r) PROVE D!TDInv'
<1>1. PICK outcome \in {"accepted", "refused", "lost"} :
          /\ mails' = IF outcome = "refused" THEN mails
                      ELSE [mails EXCEPT ![job[r].date] = @ + 1]
          /\ job' = IF outcome = "accepted" THEN [job EXCEPT ![r].at = "mailed", ![r].digest = NULL]
                    ELSE [job EXCEPT ![r] = D!NoRun]
          /\ explained' = IF outcome = "lost" THEN explained \union {job[r].date} ELSE explained
  BY DEF D!Mail
<1>2. job[r].at = "clear" /\ UNCHANGED <<hour, uploaded>> BY DEF D!Mail
<1>3. job[r] \in D!WorkflowRuns /\ job[r].date \in Nat BY DEF D!TDInv, D!TDTypeOK, D!WorkflowRuns
<1>4. CASE outcome = "refused"
  BY <1>1, <1>2, <1>4, NoRunIsARun, QuietRun DEF D!NoRun
<1>5. CASE outcome # "refused"
  <2> DEFINE date == job[r].date
             run == IF outcome = "accepted" THEN [job[r] EXCEPT !.at = "mailed", !.digest = NULL]
                    ELSE D!NoRun
  <2>1. /\ run \in D!WorkflowRuns
        /\ outcome = "accepted" => run.at = "mailed" /\ run.date = date
        /\ outcome # "accepted" => run.at = "none"
    BY <1>3, NoRunIsARun DEF D!WorkflowRuns, D!NoRun
  <2>2. job' = [job EXCEPT ![r] = run]
    BY <1>1
  <2>3. mails' = [mails EXCEPT ![date] = @ + 1]
    BY <1>1, <1>5
  <2> HIDE DEF run
  <2>4. D!TDTypeOK'
    <3>1. job' \in [Twins -> D!WorkflowRuns] BY <2>1, <2>2 DEF D!TDInv, D!TDTypeOK
    <3>2. explained' \subseteq Nat BY <1>1, <1>3 DEF D!TDInv, D!TDTypeOK
    <3>3. mails' \in [0..D!Date(MaxHour) -> Nat]
      <4> DEFINE days == 0..D!Date(MaxHour)
      <4>1. mails \in [days -> Nat] BY DEF D!TDInv, D!TDTypeOK
      <4> HIDE DEF days
      <4>2. \A d \in days : mails[d] + 1 \in Nat BY <4>1
      <4> HIDE DEF date
      <4>3. mails' \in [days -> Nat] BY <2>3, <4>1, <4>2
      <4> QED BY <4>3 DEF days
    <3> QED BY <1>2, <3>1, <3>2, <3>3 DEF D!TDInv, D!TDTypeOK
  <2>5. /\ \A q \in Twins \ {r} : job'[q] = job[q]
        /\ job'[r] = run
    BY <2>2 DEF D!TDInv, D!TDTypeOK
  <2>6. /\ explained \subseteq explained' /\ DOMAIN mails' = DOMAIN mails
        /\ \A d \in DOMAIN mails \ {date} : mails'[d] = mails[d]
        /\ date \in DOMAIN mails => mails'[date] = mails[date] + 1
    BY <1>1, <2>3 DEF D!TDInv, D!TDTypeOK
  <2>7. ASSUME NEW d \in DOMAIN mails \ explained'
        PROVE  /\ mails'[d] <= 1
               /\ mails'[d] = 1 => d \in uploaded
                      \/ \E q \in Twins : D!Busy(q, d)' /\ job'[q].at = "mailed"
               /\ \A q \in Twins : D!Busy(q, d)' /\ job'[q].at = "clear" => mails'[d] = 0
               /\ \A q, p \in Twins : D!Busy(q, d)' /\ D!Busy(p, d)' => q = p
    <3>1. /\ mails[d] <= 1
          /\ mails[d] = 1 => d \in uploaded \/ \E q \in Twins : D!Busy(q, d) /\ job[q].at = "mailed"
          /\ \A q \in Twins : D!Busy(q, d) /\ job[q].at = "clear" => mails[d] = 0
          /\ \A q, p \in Twins : D!Busy(q, d) /\ D!Busy(p, d) => q = p
          /\ mails[d] \in Nat
      BY <2>6, <2>7 DEF D!TDInv, D!TDTypeOK, D!MailHasItsReceipt
    <3>2. \A q \in Twins \ {r} : (D!Busy(q, d)' <=> D!Busy(q, d)) /\ job'[q] = job[q]
      BY <2>5 DEF D!Busy
    <3>3. CASE d # date
      <4>1. ~D!Busy(r, d) BY <3>3 DEF D!Busy
      <4>2. ~D!Busy(r, d)' BY <2>1, <2>5, <3>3 DEF D!Busy
      <4> QED BY <2>6, <3>1, <3>2, <3>3, <4>1, <4>2
    <3>4. CASE d = date
      <4>1. outcome = "accepted" BY <1>1, <1>5, <2>7, <3>4
      <4>2. D!Busy(r, d) BY <1>2, <3>4 DEF D!Busy
      <4>3. mails[d] = 0 /\ mails'[d] = 1 BY <1>2, <2>6, <3>1, <3>4, <4>2
      <4>4. D!Busy(r, d)' /\ job'[r].at = "mailed" BY <2>1, <2>5, <3>4, <4>1 DEF D!Busy
      <4>5. \A q \in Twins \ {r} : ~D!Busy(q, d) BY <3>1, <4>2
      <4> QED BY <3>2, <4>3, <4>4, <4>5
    <3> QED BY <3>3, <3>4
  <2>8. D!MailHasItsReceipt'
    BY <1>2, <2>6, <2>7 DEF D!MailHasItsReceipt
  <2> QED BY <2>4, <2>8 DEF D!TDInv
<1> QED BY <1>4, <1>5

(* A run that ends after its mail leaves a receipt of the date, or an       *)
(* explanation.                                                             *)
LEMMA EndedRun ==
  ASSUME D!TDInv, NEW r \in Twins, job' = [job EXCEPT ![r] = D!NoRun], job[r].at = "mailed",
         uploaded \subseteq uploaded', uploaded' \subseteq Nat,
         explained \subseteq explained', explained' \subseteq Nat,
         job[r].date \in uploaded' \union explained',
         UNCHANGED <<hour, mails>>
  PROVE  D!TDInv'
<1>1. D!TDTypeOK'
  BY NoRunIsARun DEF D!TDInv, D!TDTypeOK
<1>2. /\ \A q \in Twins \ {r} : job'[q] = job[q]
      /\ job'[r].at = "none"
  BY DEF D!TDInv, D!TDTypeOK, D!NoRun
<1>3. ASSUME NEW d \in DOMAIN mails \ explained'
      PROVE  /\ mails[d] <= 1
             /\ mails[d] = 1 => d \in uploaded'
                    \/ \E q \in Twins : D!Busy(q, d)' /\ job'[q].at = "mailed"
             /\ \A q \in Twins : D!Busy(q, d)' /\ job'[q].at = "clear" => mails[d] = 0
             /\ \A q, p \in Twins : D!Busy(q, d)' /\ D!Busy(p, d)' => q = p
  <2>1. /\ mails[d] <= 1
        /\ mails[d] = 1 => d \in uploaded \/ \E q \in Twins : D!Busy(q, d) /\ job[q].at = "mailed"
        /\ \A q \in Twins : D!Busy(q, d) /\ job[q].at = "clear" => mails[d] = 0
        /\ \A q, p \in Twins : D!Busy(q, d) /\ D!Busy(p, d) => q = p
    BY <1>3 DEF D!TDInv, D!MailHasItsReceipt
  <2>2. \A q \in Twins : D!Busy(q, d)' => D!Busy(q, d) /\ job'[q] = job[q]
    BY <1>2 DEF D!Busy
  <2>3. \A q \in Twins \ {r} : D!Busy(q, d) => D!Busy(q, d)' /\ job'[q] = job[q]
    BY <1>2 DEF D!Busy
  <2>4. D!Busy(r, d) => d \in uploaded'
    BY <1>3 DEF D!Busy
  <2> QED BY <2>1, <2>2, <2>3, <2>4
<1>4. D!MailHasItsReceipt'
  BY <1>3 DEF D!MailHasItsReceipt
<1> QED BY <1>1, <1>4 DEF D!TDInv

LEMMA UploadStep == ASSUME D!TDInv, NEW r \in Twins, D!Upload(r) PROVE D!TDInv'
<1>1. job[r] \in D!WorkflowRuns /\ uploaded \subseteq Nat /\ explained \subseteq Nat
  BY DEF D!TDInv, D!TDTypeOK
<1>2. job[r].guard \in Nat /\ job[r].date \in Nat
  BY <1>1 DEF D!WorkflowRuns
<1>3. /\ job' = [job EXCEPT ![r] = D!NoRun] /\ job[r].at = "mailed"
      /\ uploaded' = uploaded \union {job[r].guard}
      /\ explained' = IF job[r].guard = job[r].date THEN explained ELSE explained \union {job[r].date}
      /\ UNCHANGED <<hour, mails>>
  BY DEF D!Upload
<1>4. /\ uploaded \subseteq uploaded' /\ uploaded' \subseteq Nat
      /\ explained \subseteq explained' /\ explained' \subseteq Nat
      /\ job[r].date \in uploaded' \union explained'
  BY <1>1, <1>2, <1>3
<1> QED BY <1>3, <1>4, EndedRun

LEMMA RunnerLostStep == ASSUME D!TDInv, NEW r \in Twins, D!RunnerLost(r) PROVE D!TDInv'
<1>1. job[r] \in D!WorkflowRuns /\ uploaded \subseteq Nat /\ explained \subseteq Nat
  BY DEF D!TDInv, D!TDTypeOK
<1>2. job[r].date \in Nat
  BY <1>1 DEF D!WorkflowRuns
<1>3. /\ job' = [job EXCEPT ![r] = D!NoRun]
      /\ explained' = IF job[r].at = "mailed" THEN explained \union {job[r].date} ELSE explained
      /\ UNCHANGED <<hour, uploaded, mails>>
  BY DEF D!RunnerLost
<1>4. CASE job[r].at = "mailed"
  <2>1. /\ explained \subseteq explained' /\ explained' \subseteq Nat
        /\ job[r].date \in uploaded' \union explained'
    BY <1>1, <1>2, <1>3, <1>4
  <2> QED BY <1>1, <1>3, <1>4, <2>1, EndedRun
<1>5. CASE job[r].at # "mailed"
  BY <1>3, <1>5, NoRunIsARun, QuietRun DEF D!NoRun
<1> QED BY <1>4, <1>5

LEMMA TDStep == ASSUME D!TDInv, D!TDNext PROVE D!TDInv'
<1>1. CASE D!TDTick
  BY <1>1 DEF D!TDTick, D!TDInv, D!TDTypeOK, D!MailHasItsReceipt, D!Busy
<1> QED BY <1>1, GuardStep, LookUpStep, MailStep, UploadStep, RunnerLostStep DEF D!TDNext

LEMMA TDSafe == ASSUME D!TDInv PROVE D!SecondMailIsExplained
BY DEF D!TDInv, D!TDTypeOK, D!MailHasItsReceipt, D!SecondMailIsExplained
-----------------------------------------------------------------------------
(* The comments of the nightly maintenance                                  *)

CommentsAreLists == DOMAIN comments = Issues /\ \A i \in Issues : \E S : comments[i] \in Seq(S)
CommentsInv == CommentsAreLists /\ O!TrackingIsOnce

(* A marker that is appended is new to the list, or stands beyond the page. *)
LEMMA AppendedMarker ==
  ASSUME CommentsInv, NEW i, NEW m,
         comments' = [comments EXCEPT ![i] = Append(@, m)],
         m = NULL \/ Len(comments[i]) > CommentPage
           \/ \A k \in DOMAIN comments[i] : comments[i][k] # m
  PROVE  CommentsInv'
<1>1. CASE i \notin Issues
  <2>1. DOMAIN comments' = Issues /\ \A h \in Issues : comments'[h] = comments[h]
    BY <1>1 DEF CommentsInv, CommentsAreLists
  <2> QED BY <2>1 DEF CommentsInv, CommentsAreLists, O!TrackingIsOnce
<1>2. CASE i \in Issues
  <2> DEFINE s == comments[i]
             t == Append(s, m)
  <2>1. PICK S : s \in Seq(S)
    BY <1>2 DEF CommentsInv, CommentsAreLists
  <2>2. s \in Seq(S \union {m})
    BY <2>1
  <2>3. /\ t \in Seq(S \union {m}) /\ Len(t) = Len(s) + 1 /\ Len(s) \in Nat
        /\ DOMAIN s = 1..Len(s) /\ DOMAIN t = 1..(Len(s) + 1)
        /\ \A k \in 1..Len(s) : t[k] = s[k]
        /\ t[Len(s) + 1] = m
    BY <2>2
  <2>4. /\ DOMAIN comments' = Issues /\ comments'[i] = t
        /\ \A h \in Issues \ {i} : comments'[h] = comments[h]
    BY <1>2 DEF CommentsInv, CommentsAreLists
  <2>5. CommentsAreLists'
    BY <2>3, <2>4 DEF CommentsInv, CommentsAreLists
  <2>6. ASSUME NEW j \in DOMAIN t, NEW k \in DOMAIN t, j < k, t[j] # NULL, t[j] = t[k]
        PROVE  k > CommentPage + 1
    <3> HIDE DEF t
    <3>1. CASE k \in 1..Len(s)
      <4>1. j \in 1..Len(s) BY <2>3, <2>6, <3>1
      <4>2. s[j] # NULL /\ s[j] = s[k] /\ j \in DOMAIN s /\ k \in DOMAIN s
        BY <2>3, <2>6, <3>1, <4>1
      <4> QED BY <1>2, <2>6, <4>2 DEF CommentsInv, O!TrackingIsOnce
    <3>2. CASE k = Len(s) + 1
      <4>1. j \in DOMAIN s /\ s[j] = m /\ m # NULL BY <2>3, <2>6, <3>2
      <4>2. Len(s) > CommentPage BY <4>1
      <4> QED BY <2>3, <3>2, <4>2, PageAssumption
    <3> QED BY <2>3, <3>1, <3>2
  <2>7. O!TrackingIsOnce'
    <3> SUFFICES ASSUME NEW h \in Issues, NEW j \in DOMAIN comments'[h], NEW k \in DOMAIN comments'[h],
                        j < k, comments'[h][j] # NULL, comments'[h][j] = comments'[h][k]
                 PROVE  k > CommentPage + 1
      BY DEF O!TrackingIsOnce
    <3>1. CASE h = i BY <2>4, <2>6, <3>1
    <3>2. CASE h # i BY <2>4, <3>2 DEF CommentsInv, O!TrackingIsOnce
    <3> QED BY <3>1, <3>2
  <2> QED BY <2>5, <2>7 DEF CommentsInv
<1> QED BY <1>1, <1>2

LEMMA KeptComments == ASSUME CommentsInv, UNCHANGED comments PROVE CommentsInv'
BY DEF CommentsInv, CommentsAreLists, O!TrackingIsOnce

LEMMA CommentStep == ASSUME CommentsInv, NEW n \in Nights, O!Comment(n) PROVE CommentsInv'
<1> DEFINE e == Head(night[n].sync)
<1>1. PICK outcome \in IF e.issue # NULL THEN O!_sync_linear_comment(n, e)
                       ELSE {[posts |-> FALSE, fails |-> e.docs]} :
        comments' = IF ~outcome.posts THEN comments
                    ELSE [comments EXCEPT ![e.issue] = Append(@, O!Marker(n, e))]
  BY DEF O!Comment
<1>2. CASE ~outcome.posts BY <1>1, <1>2, KeptComments
<1>3. CASE outcome.posts
  <2>1. outcome \in O!_sync_linear_comment(n, e) BY <1>1, <1>3
  <2>2. ~O!Visible(e.issue, O!Marker(n, e)) \/ O!Missable(e.issue)
    BY <1>3, <2>1 DEF O!_sync_linear_comment
  <2>3. \/ \A k \in DOMAIN comments[e.issue] : comments[e.issue][k] # O!Marker(n, e)
        \/ Len(comments[e.issue]) > CommentPage
    BY <2>2 DEF O!Visible, O!Missable
  <2> QED BY <1>1, <1>3, <2>3, AppendedMarker
<1> QED BY <1>2, <1>3

LEMMA OMInitially == ASSUME O!OMInit PROVE CommentsInv
<1>1. comments = [i \in Issues |-> <<>>] BY DEF O!OMInit
<1>2. <<>> \in Seq({}) OBVIOUS
<1>3. CommentsAreLists BY <1>1, <1>2 DEF CommentsAreLists
<1>4. \A i \in Issues : DOMAIN comments[i] = {} BY <1>1
<1> QED BY <1>3, <1>4 DEF CommentsInv, O!TrackingIsOnce

(* Only Comment and Discuss write to an issue.                              *)
LEMMA OMStep == ASSUME CommentsInv, O!OMNext PROVE CommentsInv'
<1>1. ASSUME NEW p, O!Author(p) PROVE UNCHANGED comments BY <1>1 DEF O!Author
<1>2. ASSUME NEW i, O!Discuss(i) PROVE CommentsInv'
  <2>1. comments' = [comments EXCEPT ![i] = Append(@, NULL)] BY <1>2 DEF O!Discuss
  <2> QED BY <2>1, AppendedMarker
<1>3. ASSUME NEW n \in Nights,
             O!Start(n) \/ O!Plan(n) \/ O!CallFails(n) \/ O!_push_branch(n) \/ O!OpenPull(n) \/ O!AddLabel(n)
      PROVE  UNCHANGED comments
  BY <1>3 DEF O!Start, O!Plan, O!CallFails, O!_push_branch, O!OpenPull, O!AddLabel
<1>4. ASSUME NEW n \in Nights,
             O!Confirm(n) \/ O!Look(n) \/ O!Ready(n) \/ O!LookAgain(n) \/ O!Merge(n) \/ O!ConfirmMerge(n)
      PROVE  UNCHANGED comments
  BY <1>4 DEF O!Confirm, O!Look, O!Ready, O!LookAgain, O!Merge, O!ConfirmMerge
<1>5. ASSUME NEW n \in Nights,
             \/ O!WriteLedger(n) \/ O!sync_tracking(n) \/ O!_select_project(n)
             \/ O!_resolve_or_create_project(n) \/ O!_ensure_project_item(n) \/ O!Conclude(n)
      PROVE  UNCHANGED comments
  BY <1>5 DEF O!WriteLedger, O!sync_tracking, O!_select_project, O!_resolve_or_create_project,
     O!_ensure_project_item, O!Conclude
<1> QED BY <1>1, <1>2, <1>3, <1>4, <1>5, KeptComments, CommentStep DEF O!OMNext
-----------------------------------------------------------------------------
(* The merges of the nightly maintenance                                    *)

PullFields == {"repo", "branch", "state", "head", "draft", "label", "checks", "merge", "review",
               "protected", "docs"}
NightFields == {"at", "snap", "changes", "merges", "current", "view", "created", "merged",
                "errors", "sync"}

\* A view of a pull request that may be merged if it is the planned one.
Passes(view, head) ==
    /\ view.head = head /\ view.checks = "green" /\ ~view.draft
    /\ view.protected => view.review = "APPROVED"
Viewed(view, head) == DOMAIN view = PullFields /\ Passes(view, head)

PullsOK ==
    /\ \E S : pulls \in Seq(S)
    /\ \A p \in DOMAIN pulls : DOMAIN pulls[p] = PullFields
\* What a night holds: it plans merges of pull requests there are, and on its way to a
\* merge, and of what it merged, it has a view that passed.
NightOK(v, numbers) ==
    /\ DOMAIN v = NightFields
    /\ v.at = "snapshot" => DOMAIN v.snap \subseteq numbers
    /\ \E S : v.merges \in Seq(S)
    /\ \A k \in DOMAIN v.merges : v.merges[k].number \in numbers
    /\ v.at \in {"ready", "look again", "merge", "merged"} => v.merges # <<>>
    /\ v.at \in {"merge", "merged"} => Viewed(v.view, Head(v.merges).head)
    /\ \E S : v.merged \in Seq(S)
    /\ \A i \in DOMAIN v.merged : Viewed(v.merged[i].view, v.merged[i].head)
MergeInv ==
    /\ PullsOK
    /\ DOMAIN night = Nights
    /\ \A n \in Nights : NightOK(night[n], DOMAIN pulls)

\* The step is the night's: the others stay as they are.
OnlyNight(n) ==
    /\ DOMAIN night' = Nights
    /\ \A m \in Nights \ {n} : night'[m] = night[m]

(* A night that moves leaves the others alone; pull requests do not vanish. *)
LEMMA NightMoves ==
  ASSUME MergeInv, NEW n \in Nights, OnlyNight(n),
         PullsOK', DOMAIN pulls \subseteq DOMAIN pulls', NightOK(night'[n], DOMAIN pulls')
  PROVE  MergeInv'
<1>1. ASSUME NEW m \in Nights PROVE NightOK(night'[m], DOMAIN pulls')
  <2>1. CASE m = n BY <2>1
  <2>2. CASE m # n
    <3>1. night'[m] = night[m] /\ NightOK(night[m], DOMAIN pulls) BY <2>2 DEF MergeInv, OnlyNight
    <3> QED BY <3>1 DEF NightOK
  <2> QED BY <2>1, <2>2
<1> QED BY <1>1 DEF MergeInv, OnlyNight

(* The world moves: no night does.                                          *)
LEMMA WorldMoves ==
  ASSUME MergeInv, UNCHANGED night, PullsOK', DOMAIN pulls \subseteq DOMAIN pulls'
  PROVE  MergeInv'
BY DEF MergeInv, NightOK

LEMMA KeptPulls == ASSUME PullsOK, UNCHANGED pulls PROVE PullsOK' /\ DOMAIN pulls' = DOMAIN pulls
BY DEF PullsOK

LEMMA ChangedPull ==
  ASSUME PullsOK, NEW p, NEW v, DOMAIN v = PullFields, pulls' = [pulls EXCEPT ![p] = v]
  PROVE  PullsOK' /\ DOMAIN pulls' = DOMAIN pulls
<1>1. PICK S : pulls \in Seq(S) BY DEF PullsOK
<1> DEFINE T == S \union {v}
<1>2. DOMAIN pulls = 1..Len(pulls) /\ Len(pulls) \in Nat /\ \A q \in DOMAIN pulls : pulls[q] \in T BY <1>1
<1>3. DOMAIN pulls' = DOMAIN pulls OBVIOUS
<1>4. \A q \in DOMAIN pulls : pulls'[q] = pulls[q] \/ pulls'[q] = v OBVIOUS
<1>5. pulls' = [q \in DOMAIN pulls |-> IF q = p THEN v ELSE pulls[q]] OBVIOUS
<1>6. pulls' \in [1..Len(pulls) -> T] BY <1>2, <1>5
<1>7. pulls' \in Seq(T) BY <1>2, <1>6
<1> QED BY <1>3, <1>4, <1>7 DEF PullsOK

LEMMA FieldChanged ==
  ASSUME PullsOK, NEW p, NEW field, NEW value, O!Change(p, field, value)
  PROVE  PullsOK' /\ DOMAIN pulls' = DOMAIN pulls
<1> DEFINE v == [pulls[p] EXCEPT ![field] = value]
<1>1. CASE p \in DOMAIN pulls
  <2>1. DOMAIN v = PullFields BY <1>1 DEF PullsOK
  <2>2. pulls' = [pulls EXCEPT ![p] = v] BY DEF O!Change
  <2> HIDE DEF v
  <2> QED BY <2>1, <2>2, ChangedPull
<1>2. CASE p \notin DOMAIN pulls
  <2>1. pulls' = [q \in DOMAIN pulls |-> pulls[q]] BY <1>2 DEF O!Change
  <2>2. pulls = [q \in DOMAIN pulls |-> pulls[q]] BY DEF PullsOK
  <2> QED BY <2>1, <2>2, KeptPulls
<1> QED BY <1>1, <1>2

(* A step that changes neither the planned merges nor the merged ones and   *)
(* is not on its way to a merge.                                            *)
LEMMA Elsewhere ==
  ASSUME MergeInv, NEW n \in Nights, OnlyNight(n), UNCHANGED pulls, DOMAIN night'[n] = NightFields,
         night'[n].merges = night[n].merges, night'[n].merged = night[n].merged,
         night'[n].at \notin {"snapshot", "ready", "look again", "merge", "merged"}
  PROVE  MergeInv'
<1>1. PullsOK' /\ DOMAIN pulls' = DOMAIN pulls BY KeptPulls DEF MergeInv
<1>2. NightOK(night[n], DOMAIN pulls) BY DEF MergeInv
<1>3. NightOK(night'[n], DOMAIN pulls) BY <1>2 DEF NightOK
<1> QED BY <1>1, <1>3, NightMoves

LEMMA FailedOK ==
  ASSUME MergeInv, NEW n \in Nights, NEW numbers PROVE NightOK(O!Failed(n), numbers)
<1>1. /\ O!Failed(n).at = "failed" /\ DOMAIN O!Failed(n) = NightFields
      /\ O!Failed(n).merges = <<>> /\ O!Failed(n).merged = night[n].merged
  BY DEF O!Failed, O!NoNight, NightFields
<1>2. <<>> \in Seq({}) /\ DOMAIN <<>> = {} OBVIOUS
<1> QED BY <1>1, <1>2 DEF MergeInv, NightOK

LEMMA Raised ==
  ASSUME MergeInv, NEW n \in Nights, O!Raise(n), PullsOK', DOMAIN pulls \subseteq DOMAIN pulls'
  PROVE  MergeInv'
<1>1. OnlyNight(n) /\ night'[n] = O!Failed(n) BY DEF O!Raise, OnlyNight, MergeInv
<1> QED BY <1>1, FailedOK, NightMoves

(* The candidate is passed over.                                            *)
LEMMA PassedOK ==
  ASSUME MergeInv, NEW n \in Nights, night[n].merges # <<>> PROVE NightOK(O!Passed(n), DOMAIN pulls)
<1>1. NightOK(night[n], DOMAIN pulls) BY DEF MergeInv
<1>2. /\ O!Passed(n).at = "look" /\ DOMAIN O!Passed(n) = NightFields
      /\ O!Passed(n).merges = Tail(night[n].merges) /\ O!Passed(n).merged = night[n].merged
  BY <1>1 DEF O!Passed, NightOK, NightFields
<1>3. PICK S : night[n].merges \in Seq(S) BY <1>1 DEF NightOK
<1>4. Tail(night[n].merges) \in Seq(S) BY <1>3
<1>5. \A k \in DOMAIN Tail(night[n].merges) :
         k + 1 \in DOMAIN night[n].merges /\ Tail(night[n].merges)[k] = night[n].merges[k + 1]
  BY <1>3
<1>6. \A k \in DOMAIN Tail(night[n].merges) : Tail(night[n].merges)[k].number \in DOMAIN pulls
  BY <1>1, <1>5 DEF NightOK
<1> QED BY <1>1, <1>2, <1>4, <1>6 DEF NightOK

(* Authors, reviewers and checks.                                           *)
LEMMA AuthorMerges == ASSUME MergeInv, NEW p, O!Author(p) PROVE MergeInv'
<1>1. PullsOK /\ UNCHANGED night BY DEF MergeInv, O!Author
<1>2. CASE pulls' = [pulls EXCEPT ![p].head = @ + 1, ![p].checks = "pending"]
  <2> DEFINE v == [pulls[p] EXCEPT !.head = @ + 1, !.checks = "pending"]
  <2>1. p \in DOMAIN pulls BY DEF O!Author, O!Numbers
  <2>2. DOMAIN v = PullFields BY <1>1, <2>1 DEF PullsOK
  <2>3. pulls' = [pulls EXCEPT ![p] = v] BY <1>2, <2>1
  <2> HIDE DEF v
  <2> QED BY <1>1, <2>2, <2>3, ChangedPull, WorldMoves
<1>3. ASSUME NEW field, NEW value, O!Change(p, field, value) PROVE MergeInv'
  BY <1>1, <1>3, FieldChanged, WorldMoves
<1>4. \/ pulls' = [pulls EXCEPT ![p].head = @ + 1, ![p].checks = "pending"]
      \/ \E field, value : O!Change(p, field, value)
  BY DEF O!Author
<1> QED BY <1>2, <1>3, <1>4

(* The snapshot holds pull requests there are, and the plan names those.    *)
LEMMA StartMerges == ASSUME MergeInv, NEW n \in Nights, O!Start(n) PROVE MergeInv'
<1>1. PullsOK' /\ DOMAIN pulls' = DOMAIN pulls BY KeptPulls DEF MergeInv, O!Start
<1>2. NightOK(night[n], DOMAIN pulls) /\ n \in DOMAIN night BY DEF MergeInv
<1>3. OnlyNight(n) BY DEF O!Start, OnlyNight, MergeInv
<1>4. /\ DOMAIN night'[n] = NightFields /\ night'[n].at = "snapshot"
      /\ night'[n].snap = O!build_snapshot
      /\ night'[n].merges = night[n].merges /\ night'[n].merged = night[n].merged
  BY <1>2 DEF O!Start, NightOK, NightFields
<1>5. DOMAIN O!build_snapshot \subseteq DOMAIN pulls BY DEF O!build_snapshot, O!Numbers
<1>6. NightOK(night'[n], DOMAIN pulls) BY <1>2, <1>4, <1>5 DEF NightOK
<1> QED BY <1>1, <1>3, <1>6, NightMoves

LEMMA PlanMerges == ASSUME MergeInv, NEW n \in Nights, O!Plan(n) PROVE MergeInv'
<1>1. PullsOK' /\ DOMAIN pulls' = DOMAIN pulls BY KeptPulls DEF MergeInv, O!Plan
<1>2. NightOK(night[n], DOMAIN pulls) /\ n \in DOMAIN night BY DEF MergeInv
<1>3. PICK plan \in O!Plans(night[n].snap) : \E change \in O!Results(plan) :
        IF O!validate_plan(plan, night[n].snap) /\ O!validate_result(change, plan.task)
        THEN night' = [night EXCEPT ![n].at = "push", ![n].snap = NULL,
                          ![n].changes = <<[repo |-> change.repo, branch |-> change.branch,
                                            protected |-> change.protected, docs |-> change.docs,
                                            issue |-> plan.task.issue]>>,
                          ![n].merges = plan.merges]
        ELSE O!Raise(n)
  BY DEF O!Plan
<1>4. CASE O!Raise(n) BY <1>1, <1>4, Raised
<1>5. CASE O!validate_plan(plan, night[n].snap) /\ ~O!Raise(n)
  <2>1. PICK change : night' = [night EXCEPT ![n].at = "push", ![n].snap = NULL,
                          ![n].changes = <<[repo |-> change.repo, branch |-> change.branch,
                                            protected |-> change.protected, docs |-> change.docs,
                                            issue |-> plan.task.issue]>>,
                          ![n].merges = plan.merges]
    BY <1>3, <1>5
  <2>2. OnlyNight(n) BY <1>2, <2>1 DEF OnlyNight, MergeInv
  <2>3. /\ DOMAIN night'[n] = NightFields /\ night'[n].at = "push"
        /\ night'[n].merges = plan.merges /\ night'[n].merged = night[n].merged
    BY <1>2, <2>1 DEF NightOK, NightFields
  <2>4. DOMAIN night[n].snap \subseteq DOMAIN pulls BY <1>2 DEF O!Plan, NightOK
  <2>5. \A i \in DOMAIN plan.merges : plan.merges[i].number \in DOMAIN pulls
    BY <1>5, <2>4 DEF O!validate_plan, O!_open_pr_index
  <2>6. plan.merges \in Seq(O!Candidates(night[n].snap))
    <3> DEFINE C == O!Candidates(night[n].snap)
    <3>1. plan.merges = <<>> \/ \E c \in C : plan.merges = <<c>>
      BY DEF O!Plans
    <3> HIDE DEF C
    <3>2. <<>> \in Seq(C) /\ \A c \in C : <<c>> \in Seq(C) OBVIOUS
    <3>3. plan.merges \in Seq(C) BY <3>1, <3>2
    <3> QED BY <3>3 DEF C
  <2>7. NightOK(night'[n], DOMAIN pulls) BY <1>2, <2>3, <2>5, <2>6 DEF NightOK
  <2> QED BY <1>1, <2>2, <2>7, NightMoves
<1> QED BY <1>3, <1>4, <1>5

LEMMA CallFailsMerges == ASSUME MergeInv, NEW n \in Nights, O!CallFails(n) PROVE MergeInv'
<1>1. PullsOK' /\ DOMAIN pulls' = DOMAIN pulls BY KeptPulls DEF MergeInv, O!CallFails
<1> QED BY <1>1, Raised DEF O!CallFails

(* The steps of publication: they leave the planned merges alone.           *)
LEMMA GoesElsewhere ==
  ASSUME MergeInv, NEW n \in Nights, NEW at, O!Goes(n, at), UNCHANGED pulls,
         at \notin {"snapshot", "ready", "look again", "merge", "merged"}
  PROVE  MergeInv'
<1>1. NightOK(night[n], DOMAIN pulls) /\ n \in DOMAIN night BY DEF MergeInv
<1>2. OnlyNight(n) BY DEF O!Goes, OnlyNight, MergeInv
<1>3. /\ DOMAIN night'[n] = NightFields /\ night'[n].at = at
      /\ night'[n].merges = night[n].merges /\ night'[n].merged = night[n].merged
  BY <1>1 DEF O!Goes, NightOK, NightFields
<1> QED BY <1>2, <1>3, Elsewhere

LEMMA PushMerges == ASSUME MergeInv, NEW n \in Nights, O!_push_branch(n) PROVE MergeInv'
<1>1. PullsOK' /\ DOMAIN pulls' = DOMAIN pulls BY KeptPulls DEF MergeInv, O!_push_branch
<1>2. O!Raise(n) \/ O!Goes(n, "open") BY DEF O!_push_branch
<1>3. UNCHANGED pulls BY DEF O!_push_branch
<1> QED BY <1>1, <1>2, <1>3, Raised, GoesElsewhere

LEMMA OpenPullMerges == ASSUME MergeInv, NEW n \in Nights, O!OpenPull(n) PROVE MergeInv'
<1>1. NightOK(night[n], DOMAIN pulls) /\ n \in DOMAIN night /\ PullsOK BY DEF MergeInv
<1> DEFINE c == Head(night[n].changes)
           new == O!Pull(c.repo, c.branch, c.protected, c.docs)
<1>2. PullsOK' /\ DOMAIN pulls \subseteq DOMAIN pulls'
  <2>1. CASE UNCHANGED pulls BY <1>1, <2>1, KeptPulls
  <2>2. CASE pulls' = Append(pulls, new)
    <3>1. DOMAIN new = PullFields BY DEF O!Pull, PullFields
    <3> HIDE DEF new
    <3>2. PICK S : pulls \in Seq(S) BY <1>1 DEF PullsOK
    <3>3. pulls \in Seq(S \union {new}) BY <3>2
    <3>4. pulls' \in Seq(S \union {new}) BY <2>2, <3>3
    <3>5. /\ DOMAIN pulls = 1..Len(pulls) /\ DOMAIN pulls' = 1..(Len(pulls) + 1) /\ Len(pulls) \in Nat
          /\ \A q \in 1..Len(pulls) : pulls'[q] = pulls[q]
          /\ pulls'[Len(pulls) + 1] = new
      BY <2>2, <3>3
    <3>6. \A q \in DOMAIN pulls' : pulls'[q] = new \/ (q \in DOMAIN pulls /\ pulls'[q] = pulls[q])
      BY <3>5
    <3> QED BY <1>1, <3>1, <3>4, <3>5, <3>6 DEF PullsOK
  <2> QED BY <2>1, <2>2 DEF O!OpenPull
<1>3. \/ night' = [night EXCEPT ![n] = O!Failed(n)]
      \/ \E p : night' = [night EXCEPT ![n].at = "label", ![n].current = p]
  BY DEF O!OpenPull
<1>4. CASE night' = [night EXCEPT ![n] = O!Failed(n)] BY <1>2, <1>4, Raised DEF O!Raise
<1>5. ASSUME NEW p, night' = [night EXCEPT ![n].at = "label", ![n].current = p] PROVE MergeInv'
  <2>1. OnlyNight(n) BY <1>5 DEF OnlyNight, MergeInv
  <2>2. /\ DOMAIN night'[n] = NightFields /\ night'[n].at = "label"
        /\ night'[n].merges = night[n].merges /\ night'[n].merged = night[n].merged
    BY <1>1, <1>5 DEF NightOK, NightFields
  <2>3. NightOK(night'[n], DOMAIN pulls') BY <1>1, <1>2, <2>2 DEF NightOK
  <2> QED BY <1>2, <2>1, <2>3, NightMoves
<1> QED BY <1>3, <1>4, <1>5

LEMMA AddLabelMerges == ASSUME MergeInv, NEW n \in Nights, O!AddLabel(n) PROVE MergeInv'
<1>1. NightOK(night[n], DOMAIN pulls) /\ n \in DOMAIN night /\ PullsOK BY DEF MergeInv
<1>2. CASE O!Raise(n) /\ UNCHANGED pulls BY <1>1, <1>2, KeptPulls, Raised
<1>3. CASE O!Goes(n, "confirm") /\ pulls' = [pulls EXCEPT ![night[n].current].label = TRUE]
  <2>1. PullsOK' /\ DOMAIN pulls' = DOMAIN pulls
    BY <1>1, <1>3, FieldChanged DEF O!Change
  <2>2. OnlyNight(n) BY <1>3 DEF O!Goes, OnlyNight, MergeInv
  <2>3. /\ DOMAIN night'[n] = NightFields /\ night'[n].at = "confirm"
        /\ night'[n].merges = night[n].merges /\ night'[n].merged = night[n].merged
    BY <1>1, <1>3 DEF O!Goes, NightOK, NightFields
  <2>4. NightOK(night'[n], DOMAIN pulls') BY <1>1, <2>1, <2>3 DEF NightOK
  <2> QED BY <2>1, <2>2, <2>4, NightMoves
<1> QED BY <1>2, <1>3 DEF O!AddLabel

LEMMA ConfirmMerges == ASSUME MergeInv, NEW n \in Nights, O!Confirm(n) PROVE MergeInv'
<1>1. NightOK(night[n], DOMAIN pulls) /\ n \in DOMAIN night BY DEF MergeInv
<1>2. PullsOK' /\ DOMAIN pulls' = DOMAIN pulls BY KeptPulls DEF MergeInv, O!Confirm
<1>3. UNCHANGED pulls BY DEF O!Confirm
<1>4. \/ O!Raise(n)
      \/ \E at \in {"push", "look"} : \E entry :
            night' = [night EXCEPT ![n].at = at, ![n].changes = Tail(@), ![n].current = 0,
                                   ![n].created = Append(@, entry)]
  BY DEF O!Confirm, O!Raise
<1>5. ASSUME NEW at \in {"push", "look"}, NEW entry,
             night' = [night EXCEPT ![n].at = at, ![n].changes = Tail(@), ![n].current = 0,
                                    ![n].created = Append(@, entry)]
      PROVE  MergeInv'
  <2>1. OnlyNight(n) BY <1>5 DEF OnlyNight, MergeInv
  <2>2. /\ DOMAIN night'[n] = NightFields /\ night'[n].at = at
        /\ night'[n].merges = night[n].merges /\ night'[n].merged = night[n].merged
    BY <1>1, <1>5 DEF NightOK, NightFields
  <2> QED BY <1>3, <2>1, <2>2, Elsewhere
<1> QED BY <1>2, <1>4, <1>5, Raised

(* Merging: a view leads to a merge only when it passed.                    *)
LEMMA ViewOK ==
  ASSUME MergeInv, NEW n \in Nights, night[n].merges # <<>>
  PROVE  DOMAIN pulls[O!Candidate(n).number] = PullFields
<1>1. NightOK(night[n], DOMAIN pulls) BY DEF MergeInv
<1>2. PICK S : night[n].merges \in Seq(S) BY <1>1 DEF NightOK
<1>3. 1 \in DOMAIN night[n].merges /\ Head(night[n].merges) = night[n].merges[1] BY <1>2
<1>4. O!Candidate(n).number \in DOMAIN pulls BY <1>1, <1>3 DEF NightOK, O!Candidate
<1> QED BY <1>4 DEF MergeInv, PullsOK

\* The candidate was looked at and goes on to be merged.
Taken(n, view) == [night[n] EXCEPT !.at = "merge", !.view = view]

LEMMA TakenOK ==
  ASSUME MergeInv, NEW n \in Nights, night[n].merges # <<>>, NEW view,
         DOMAIN view = PullFields, O!evaluate(view, O!Candidate(n).head, TRUE), ~view.draft
  PROVE  NightOK(Taken(n, view), DOMAIN pulls)
<1>1. NightOK(night[n], DOMAIN pulls) BY DEF MergeInv
<1>2. /\ DOMAIN Taken(n, view) = NightFields /\ Taken(n, view).at = "merge"
      /\ Taken(n, view).view = view
      /\ Taken(n, view).merges = night[n].merges /\ Taken(n, view).merged = night[n].merged
  BY <1>1 DEF Taken, NightOK, NightFields
<1>3. Viewed(view, Head(night[n].merges).head)
  BY DEF Viewed, Passes, O!evaluate, O!_status_checks_green, O!Candidate
<1> QED BY <1>1, <1>2, <1>3 DEF NightOK

LEMMA LookMerges == ASSUME MergeInv, NEW n \in Nights, O!Look(n) PROVE MergeInv'
<1>1. NightOK(night[n], DOMAIN pulls) /\ n \in DOMAIN night BY DEF MergeInv
<1>2. PullsOK' /\ DOMAIN pulls' = DOMAIN pulls BY KeptPulls DEF MergeInv, O!Look
<1>3. night[n].merges # <<>> BY DEF O!Look
<1>4. OnlyNight(n) BY DEF O!Look, OnlyNight, MergeInv
<1> DEFINE view == pulls[O!Candidate(n).number]
<1>5. \/ night'[n] = O!Passed(n)
      \/ night'[n] = [night[n] EXCEPT !.at = "ready"]
      \/ /\ night'[n] = Taken(n, view) /\ ~view.draft
         /\ O!evaluate(view, O!Candidate(n).head, TRUE)
  BY <1>1 DEF O!Look, Taken
<1>6. NightOK(night'[n], DOMAIN pulls)
  <2>1. CASE night'[n] = O!Passed(n) BY <1>3, <2>1, PassedOK
  <2>2. CASE night'[n] = [night[n] EXCEPT !.at = "ready"]
    <3>1. /\ DOMAIN night'[n] = NightFields /\ night'[n].at = "ready"
          /\ night'[n].merges = night[n].merges /\ night'[n].merged = night[n].merged
      BY <1>1, <2>2 DEF NightOK, NightFields
    <3> QED BY <1>1, <1>3, <3>1 DEF NightOK
  <2>3. CASE /\ night'[n] = Taken(n, view) /\ ~view.draft
             /\ O!evaluate(view, O!Candidate(n).head, TRUE)
    BY <1>3, <2>3, ViewOK, TakenOK
  <2> QED BY <1>5, <2>1, <2>2, <2>3
<1> QED BY <1>2, <1>4, <1>6, NightMoves

LEMMA ReadyMerges == ASSUME MergeInv, NEW n \in Nights, O!Ready(n) PROVE MergeInv'
<1>1. NightOK(night[n], DOMAIN pulls) /\ n \in DOMAIN night /\ PullsOK BY DEF MergeInv
<1>2. PullsOK' /\ DOMAIN pulls' = DOMAIN pulls
  BY <1>1, KeptPulls, FieldChanged DEF O!Ready
<1>3. CASE O!Raise(n) BY <1>2, <1>3, Raised
<1>4. CASE O!Goes(n, "look again")
  <2>1. OnlyNight(n) BY <1>4 DEF O!Goes, OnlyNight, MergeInv
  <2>2. /\ DOMAIN night'[n] = NightFields /\ night'[n].at = "look again"
        /\ night'[n].merges = night[n].merges /\ night'[n].merged = night[n].merged
    BY <1>1, <1>4 DEF O!Goes, NightOK, NightFields
  <2>3. night[n].merges # <<>> BY <1>1 DEF O!Ready, NightOK
  <2>4. NightOK(night'[n], DOMAIN pulls') BY <1>1, <1>2, <2>2, <2>3 DEF NightOK
  <2> QED BY <1>2, <2>1, <2>4, NightMoves
<1> QED BY <1>3, <1>4 DEF O!Ready

LEMMA LookAgainMerges == ASSUME MergeInv, NEW n \in Nights, O!LookAgain(n) PROVE MergeInv'
<1>1. NightOK(night[n], DOMAIN pulls) /\ n \in DOMAIN night BY DEF MergeInv
<1>2. PullsOK' /\ DOMAIN pulls' = DOMAIN pulls BY KeptPulls DEF MergeInv, O!LookAgain
<1>3. night[n].merges # <<>> BY <1>1 DEF O!LookAgain, NightOK
<1>4. OnlyNight(n) BY DEF O!LookAgain, OnlyNight, MergeInv
<1> DEFINE view == pulls[O!Candidate(n).number]
<1>5. \/ night'[n] = O!Passed(n)
      \/ /\ night'[n] = Taken(n, view) /\ ~view.draft
         /\ O!evaluate(view, O!Candidate(n).head, TRUE)
  BY <1>1 DEF O!LookAgain, Taken
<1>6. NightOK(night'[n], DOMAIN pulls) BY <1>3, <1>5, PassedOK, ViewOK, TakenOK
<1> QED BY <1>2, <1>4, <1>6, NightMoves

LEMMA MergeMerges == ASSUME MergeInv, NEW n \in Nights, O!Merge(n) PROVE MergeInv'
<1>1. NightOK(night[n], DOMAIN pulls) /\ n \in DOMAIN night /\ PullsOK BY DEF MergeInv
<1>2. PullsOK' /\ DOMAIN pulls' = DOMAIN pulls
  BY <1>1, KeptPulls, FieldChanged DEF O!Merge
<1>3. CASE O!Raise(n) BY <1>2, <1>3, Raised
<1>4. CASE O!Goes(n, "merged")
  <2>1. OnlyNight(n) BY <1>4 DEF O!Goes, OnlyNight, MergeInv
  <2>2. /\ DOMAIN night'[n] = NightFields /\ night'[n].at = "merged"
        /\ night'[n].view = night[n].view
        /\ night'[n].merges = night[n].merges /\ night'[n].merged = night[n].merged
    BY <1>1, <1>4 DEF O!Goes, NightOK, NightFields
  <2>3. night[n].merges # <<>> /\ Viewed(night[n].view, Head(night[n].merges).head)
    BY <1>1 DEF O!Merge, NightOK
  <2>4. NightOK(night'[n], DOMAIN pulls') BY <1>1, <1>2, <2>2, <2>3 DEF NightOK
  <2> QED BY <1>2, <2>1, <2>4, NightMoves
<1> QED BY <1>3, <1>4 DEF O!Merge

LEMMA ConfirmMergeMerges == ASSUME MergeInv, NEW n \in Nights, O!ConfirmMerge(n) PROVE MergeInv'
<1>1. NightOK(night[n], DOMAIN pulls) /\ n \in DOMAIN night BY DEF MergeInv
<1>2. PullsOK' /\ DOMAIN pulls' = DOMAIN pulls BY KeptPulls DEF MergeInv, O!ConfirmMerge
<1>3. night[n].merges # <<>> /\ Viewed(night[n].view, O!Candidate(n).head)
  BY <1>1 DEF O!ConfirmMerge, NightOK, O!Candidate
<1>4. OnlyNight(n) BY DEF O!ConfirmMerge, OnlyNight, MergeInv
<1> DEFINE m == [number |-> O!Candidate(n).number, head |-> O!Candidate(n).head, view |-> night[n].view]
<1>5. CASE night'[n] = O!Failed(n) BY <1>2, <1>4, <1>5, FailedOK, NightMoves
<1>6. CASE night'[n] = [O!Passed(n) EXCEPT !.merged = Append(@, m)]
  <2>1. NightOK(O!Passed(n), DOMAIN pulls) BY <1>3, PassedOK
  <2>2. O!Passed(n).at = "look" /\ O!Passed(n).merged = night[n].merged
    BY <1>1 DEF O!Passed, NightOK, NightFields
  <2>3. m.view = night[n].view /\ m.head = O!Candidate(n).head OBVIOUS
  <2> HIDE DEF m
  <2>4. /\ DOMAIN night'[n] = NightFields /\ night'[n].at = "look"
        /\ night'[n].merges = O!Passed(n).merges /\ night'[n].merged = Append(night[n].merged, m)
    BY <1>6, <2>1, <2>2 DEF NightOK, NightFields
  <2>5. PICK S : night[n].merged \in Seq(S) BY <1>1 DEF NightOK
  <2>6. night[n].merged \in Seq(S \union {m}) BY <2>5
  <2>7. Append(night[n].merged, m) \in Seq(S \union {m}) BY <2>6
  <2>8. \A i \in DOMAIN Append(night[n].merged, m) :
           \/ Append(night[n].merged, m)[i] = m
           \/ i \in DOMAIN night[n].merged /\ Append(night[n].merged, m)[i] = night[n].merged[i]
    BY <2>6
  <2>9. \A i \in DOMAIN night'[n].merged : Viewed(night'[n].merged[i].view, night'[n].merged[i].head)
    BY <1>1, <1>3, <2>3, <2>4, <2>8 DEF NightOK
  <2>10. NightOK(night'[n], DOMAIN pulls) BY <2>1, <2>4, <2>7, <2>9 DEF NightOK
  <2> QED BY <1>2, <1>4, <2>10, NightMoves
<1> QED BY <1>1, <1>5, <1>6 DEF O!ConfirmMerge

(* Tracking leaves the merges alone.                                        *)
LEMMA TrackingMerges ==
  ASSUME MergeInv, NEW n \in Nights,
         \/ O!WriteLedger(n) \/ O!sync_tracking(n) \/ O!_select_project(n)
         \/ O!_resolve_or_create_project(n) \/ O!_ensure_project_item(n) \/ O!Comment(n) \/ O!Conclude(n)
  PROVE  MergeInv'
<1>1. DOMAIN night[n] = NightFields /\ n \in DOMAIN night BY DEF MergeInv, NightOK
<1>2. CASE O!WriteLedger(n) BY <1>2, GoesElsewhere DEF O!WriteLedger
<1>3. CASE O!Conclude(n) BY <1>3, GoesElsewhere DEF O!Conclude
<1>4. CASE O!sync_tracking(n)
  <2> DEFINE at == IF O!Entries(n) = <<>> THEN "synced" ELSE "project"
             sync == O!Entries(n)
  <2>1. /\ at \in {"synced", "project"}
        /\ night' = [night EXCEPT ![n].at = at, ![n].errors = FALSE, ![n].sync = sync]
    BY <1>4 DEF O!sync_tracking
  <2> HIDE DEF at, sync
  <2>2. OnlyNight(n) BY <2>1 DEF OnlyNight, MergeInv
  <2>3. UNCHANGED pulls BY <1>4 DEF O!sync_tracking
  <2>4. /\ DOMAIN night'[n] = NightFields /\ night'[n].at = at
        /\ night'[n].merges = night[n].merges /\ night'[n].merged = night[n].merged
    BY <1>1, <2>1 DEF NightFields
  <2> QED BY <2>1, <2>2, <2>3, <2>4, Elsewhere
<1>5. CASE O!_select_project(n)
  <2> DEFINE at == IF project = <<>> THEN "new project" ELSE "item"
             current == IF Len(project) = 1 THEN 1 ELSE 0
             errors == Len(project) > 1
  <2>1. /\ at \in {"new project", "item"}
        /\ night' = [night EXCEPT ![n].at = at, ![n].current = current, ![n].errors = errors]
    BY <1>5 DEF O!_select_project
  <2> HIDE DEF at, current, errors
  <2>2. OnlyNight(n) BY <2>1 DEF OnlyNight, MergeInv
  <2>3. UNCHANGED pulls BY <1>5 DEF O!_select_project
  <2>4. /\ DOMAIN night'[n] = NightFields /\ night'[n].at = at
        /\ night'[n].merges = night[n].merges /\ night'[n].merged = night[n].merged
    BY <1>1, <2>1 DEF NightFields
  <2> QED BY <2>1, <2>2, <2>3, <2>4, Elsewhere
<1>6. CASE O!_resolve_or_create_project(n)
  <2>1. PICK errors, current :
          night' = [night EXCEPT ![n].at = "item", ![n].errors = errors, ![n].current = current]
    BY <1>6 DEF O!_resolve_or_create_project
  <2>2. OnlyNight(n) BY <2>1 DEF OnlyNight, MergeInv
  <2>3. UNCHANGED pulls BY <1>6 DEF O!_resolve_or_create_project
  <2>4. /\ DOMAIN night'[n] = NightFields /\ night'[n].at = "item"
        /\ night'[n].merges = night[n].merges /\ night'[n].merged = night[n].merged
    BY <1>1, <2>1 DEF NightFields
  <2> QED BY <2>2, <2>3, <2>4, Elsewhere
<1>7. CASE O!_ensure_project_item(n)
  <2>1. PICK errors :
          night' = [night EXCEPT ![n].at = "comment", ![n].errors = errors]
    BY <1>7 DEF O!_ensure_project_item
  <2>2. OnlyNight(n) BY <2>1 DEF OnlyNight, MergeInv
  <2>3. UNCHANGED pulls BY <1>7 DEF O!_ensure_project_item
  <2>4. /\ DOMAIN night'[n] = NightFields /\ night'[n].at = "comment"
        /\ night'[n].merges = night[n].merges /\ night'[n].merged = night[n].merged
    BY <1>1, <2>1 DEF NightFields
  <2> QED BY <2>2, <2>3, <2>4, Elsewhere
<1>8. CASE O!Comment(n)
  <2>1. PICK rest, outcome :
          night' = [night EXCEPT ![n].at = IF rest # <<>> THEN "item" ELSE "noted",
                                 ![n].sync = rest, ![n].errors = @ \/ outcome.fails]
    BY <1>8 DEF O!Comment
  <2>2. OnlyNight(n) BY <2>1 DEF OnlyNight, MergeInv
  <2>3. UNCHANGED pulls BY <1>8 DEF O!Comment
  <2>4. /\ DOMAIN night'[n] = NightFields /\ night'[n].at \in {"item", "noted"}
        /\ night'[n].merges = night[n].merges /\ night'[n].merged = night[n].merged
    BY <1>1, <2>1 DEF NightFields
  <2> QED BY <2>2, <2>3, <2>4, Elsewhere
<1> QED BY <1>2, <1>3, <1>4, <1>5, <1>6, <1>7, <1>8

LEMMA MergesInitially == ASSUME O!OMInit PROVE MergeInv
<1>1. PICK p \in {Old(FALSE, TRUE), Old(TRUE, FALSE)} : pulls = <<p>> BY DEF O!OMInit
<1>2. DOMAIN p = PullFields BY DEF Old, PullFields
<1>3. PullsOK
  <2>1. <<p>> \in Seq({p}) /\ DOMAIN <<p>> = {1} /\ <<p>>[1] = p OBVIOUS
  <2> QED BY <1>1, <1>2, <2>1 DEF PullsOK
<1>4. night = [n \in Nights |-> O!NoNight] BY DEF O!OMInit
<1>5. NightOK(O!NoNight, DOMAIN pulls)
  <2>1. /\ DOMAIN O!NoNight = NightFields /\ O!NoNight.at = "none"
        /\ O!NoNight.merges = <<>> /\ O!NoNight.merged = <<>>
    BY DEF O!NoNight, NightFields
  <2>2. <<>> \in Seq({}) /\ DOMAIN <<>> = {} OBVIOUS
  <2> QED BY <2>1, <2>2 DEF NightOK
<1> QED BY <1>3, <1>4, <1>5 DEF MergeInv

LEMMA MergesStep == ASSUME MergeInv, O!OMNext PROVE MergeInv'
<1>1. ASSUME NEW i, O!Discuss(i) PROVE MergeInv'
  <2>1. UNCHANGED <<pulls, night>> BY <1>1 DEF O!Discuss
  <2>2. PullsOK' /\ DOMAIN pulls' = DOMAIN pulls BY <2>1, KeptPulls DEF MergeInv
  <2> QED BY <2>1, <2>2, WorldMoves
<1> QED
  BY <1>1, AuthorMerges, StartMerges, PlanMerges, CallFailsMerges, PushMerges, OpenPullMerges,
     AddLabelMerges, ConfirmMerges, LookMerges, ReadyMerges, LookAgainMerges, MergeMerges,
     ConfirmMergeMerges, TrackingMerges
  DEF O!OMNext

(* A pull request equal to the view that passed passes itself.              *)
LEMMA MergesSafe == ASSUME MergeInv PROVE O!MergedWasChecked
<1> SUFFICES ASSUME NEW n \in Nights, NEW i \in DOMAIN night[n].merged,
                    NEW m, m = night[n].merged[i], NEW p, p = pulls[m.number],
                    [p EXCEPT !.state = "OPEN"] = m.view
             PROVE  /\ p.head = m.head /\ p.checks = "green" /\ ~p.draft
                    /\ p.protected => p.review = "APPROVED"
  BY DEF O!MergedWasChecked
<1>1. Viewed(m.view, m.head) BY DEF MergeInv, NightOK
<1>2. DOMAIN p = PullFields BY <1>1 DEF Viewed
<1>3. /\ p.head = m.view.head /\ p.checks = m.view.checks /\ p.draft = m.view.draft
      /\ p.protected = m.view.protected /\ p.review = m.view.review
  BY <1>2 DEF PullFields
<1> QED BY <1>1, <1>3 DEF Viewed, Passes
-----------------------------------------------------------------------------
(* The briefing                                                             *)

BriefItems == {i1, i2}
BriefFacts == {Act, Ignore}

LEMMA FactFacts ==
  ASSUME NEW f \in BriefFacts
  PROVE  B!_ranking(f) \in Int /\ B!DispositionOrder[f.disposition] \in Int /\ f.date \in Int
<1>1. CASE f = Act
  BY <1>1 DEF Act, Rank, B!_ranking, B!RankWeights, B!ConfidenceScores, B!DispositionOrder
<1>2. CASE f = Ignore
  BY <1>2 DEF Ignore, Rank, B!_ranking, B!RankWeights, B!ConfidenceScores, B!DispositionOrder
<1> QED BY <1>1, <1>2 DEF BriefFacts

(* Of the facts lanes report of an item one has the highest rank.           *)
LEMMA HighestFacts ==
  ASSUME NEW facts \in SUBSET BriefFacts, facts # {}
  PROVE  B!Highest(facts) \in facts
<1> DEFINE a == B!_ranking(Act)
           b == B!_ranking(Ignore)
<1>1. a \in Int /\ b \in Int BY FactFacts DEF BriefFacts
<1>2. \E f \in facts : \A g \in facts : B!_ranking(g) <= B!_ranking(f)
  <2>1. CASE facts = {Act} BY <1>1, <2>1
  <2>2. CASE facts = {Ignore} BY <1>1, <2>2
  <2>3. CASE facts = {Act, Ignore}
    <3>1. CASE a <= b BY <1>1, <2>3, <3>1
    <3>2. CASE b <= a BY <1>1, <2>3, <3>2
    <3> QED BY <1>1, <3>1, <3>2
  <2> QED BY <2>1, <2>2, <2>3 DEF BriefFacts
<1> QED BY <1>2 DEF B!Highest

TakenInput(input) == \A l \in Lanes : B!TakenLane(input[l])

LEMMA MergedFacts ==
  ASSUME NEW input, TakenInput(input), NEW i \in B!Reported(input)
  PROVE  B!Merged(input, i) \in BriefFacts
<1> DEFINE facts == {input[l].items[i] : l \in B!LanesOf(input, i)}
<1>1. facts # {} BY DEF B!Reported
<1>2. facts \subseteq BriefFacts
  BY DEF TakenInput, B!TakenLane, B!LanesOf, BriefFacts
<1>3. B!Highest(facts) \in facts BY <1>1, <1>2, HighestFacts
<1> QED BY <1>2, <1>3 DEF B!Merged

(* The identity breaks every tie, so one of two items comes first.          *)
LEMMA LowerTotal ==
  ASSUME NEW a1 \in Int, NEW a2 \in Int, NEW a3 \in Int, NEW a4 \in Int,
         NEW b1 \in Int, NEW b2 \in Int, NEW b3 \in Int, NEW b4 \in Int, a4 # b4
  PROVE  \/ B!Lower(<<a1, a2, a3, a4>>, <<b1, b2, b3, b4>>)
         \/ B!Lower(<<b1, b2, b3, b4>>, <<a1, a2, a3, a4>>)
<1> DEFINE a == <<a1, a2, a3, a4>>
           b == <<b1, b2, b3, b4>>
<1>1. /\ DOMAIN a = 1..4 /\ a[1] = a1 /\ a[2] = a2 /\ a[3] = a3 /\ a[4] = a4
      /\ DOMAIN b = 1..4 /\ b[1] = b1 /\ b[2] = b2 /\ b[3] = b3 /\ b[4] = b4
  OBVIOUS
<1>2. /\ 1..(1 - 1) = {} /\ 1..(2 - 1) = {1} /\ 1..(3 - 1) = {1, 2} /\ 1..(4 - 1) = {1, 2, 3}
      /\ 1 \in 1..4 /\ 2 \in 1..4 /\ 3 \in 1..4 /\ 4 \in 1..4
  OBVIOUS
<1> HIDE DEF a, b
<1>3. CASE a1 # b1
  <2>1. a[1] < b[1] \/ b[1] < a[1] BY <1>1, <1>3
  <2>2. \A k \in 1..(1 - 1) : a[k] = b[k] BY <1>2
  <2> QED BY <1>1, <1>2, <2>1, <2>2 DEF B!Lower, a, b
<1>4. CASE a1 = b1 /\ a2 # b2
  <2>1. a[2] < b[2] \/ b[2] < a[2] BY <1>1, <1>4
  <2>2. \A k \in 1..(2 - 1) : a[k] = b[k] BY <1>1, <1>2, <1>4
  <2> QED BY <1>1, <1>2, <2>1, <2>2 DEF B!Lower, a, b
<1>5. CASE a1 = b1 /\ a2 = b2 /\ a3 # b3
  <2>1. a[3] < b[3] \/ b[3] < a[3] BY <1>1, <1>5
  <2>2. \A k \in 1..(3 - 1) : a[k] = b[k] BY <1>1, <1>2, <1>5
  <2> QED BY <1>1, <1>2, <2>1, <2>2 DEF B!Lower, a, b
<1>6. CASE a1 = b1 /\ a2 = b2 /\ a3 = b3
  <2>1. a[4] < b[4] \/ b[4] < a[4] BY <1>1
  <2>2. \A k \in 1..(4 - 1) : a[k] = b[k] BY <1>1, <1>2, <1>6
  <2> QED BY <1>1, <1>2, <2>1, <2>2 DEF B!Lower, a, b
<1> QED BY <1>3, <1>4, <1>5, <1>6

LEMMA BriefCardinality == \A S : B!Cardinality(S) = Cardinality(S)
BY DEF B!Cardinality, Cardinality, B!IsFiniteSet, IsFiniteSet

(* The identities in some order: every one has its place.                   *)
LEMMA IdsFacts ==
  ASSUME NEW S, IsFiniteSet(S)
  PROVE  /\ B!SetToSeq(S) \in [1..Cardinality(S) -> S]
         /\ Cardinality(S) \in Nat
         /\ \A x \in S : \E n \in 1..Cardinality(S) : B!SetToSeq(S)[n] = x
         /\ \A m, n \in 1..Cardinality(S) : B!SetToSeq(S)[m] = B!SetToSeq(S)[n] => m = n
<1> DEFINE c == Cardinality(S)
           f == B!SetToSeq(S)
<1>1. c \in Nat /\ ExistsBijection(1..c, S)
  BY FS_CardinalityType
<1>2. \E g \in [1..c -> S] : B!IsInjective(g)
  BY <1>1 DEF ExistsBijection, Bijection, Injection, IsInjective, B!IsInjective
<1>3. f \in [1..c -> S] /\ B!IsInjective(f)
  BY <1>2, BriefCardinality DEF B!SetToSeq
<1>4. f \in Injection(1..c, S)
  BY <1>3 DEF Injection, IsInjective, B!IsInjective
<1>5. Cardinality(1..c) = c
  BY <1>1, FS_Interval
<1>6. f \in Surjection(1..c, S)
  BY <1>4, <1>5, FS_Injection
<1>7. \A x \in S : \E n \in 1..c : f[n] = x
  BY <1>6 DEF Surjection
<1> QED BY <1>1, <1>3, <1>7 DEF B!IsInjective

LEMMA ItemsAreFinite == IsFiniteSet(BriefItems)
<1>1. IsFiniteSet({i1}) BY FS_Singleton
<1>2. IsFiniteSet({i1} \union {i2}) BY <1>1, FS_AddElement
<1>3. {i1} \union {i2} = {i1, i2} OBVIOUS
<1> QED BY <1>2, <1>3 DEF BriefItems

LEMMA OneComesFirst ==
  ASSUME NEW input, TakenInput(input), NEW ids, ids = B!SetToSeq(BriefItems),
         NEW x \in B!Reported(input), NEW y \in B!Reported(input), x # y
  PROVE  B!Before(input, ids, x, y) \/ B!Before(input, ids, y, x)
<1>1. x \in BriefItems /\ y \in BriefItems BY DEF B!Reported, BriefItems
<1>2. IsFiniteSet(BriefItems) BY ItemsAreFinite
<1> DEFINE px == CHOOSE n \in DOMAIN ids : ids[n] = x
           py == CHOOSE n \in DOMAIN ids : ids[n] = y
           fx == B!Merged(input, x)
           fy == B!Merged(input, y)
<1>3. px \in Int /\ py \in Int /\ px # py
  <2>1. DOMAIN ids = 1..Cardinality(BriefItems) BY <1>2, IdsFacts
  <2>2. px \in DOMAIN ids /\ ids[px] = x BY <1>1, <1>2, <2>1, IdsFacts
  <2>3. py \in DOMAIN ids /\ ids[py] = y BY <1>1, <1>2, <2>1, IdsFacts
  <2> HIDE DEF px, py
  <2> QED BY <2>1, <2>2, <2>3
<1>4. fx \in BriefFacts /\ fy \in BriefFacts BY MergedFacts
<1> DEFINE dx == B!DispositionOrder[fx.disposition]
           dy == B!DispositionOrder[fy.disposition]
           rx == -B!_ranking(fx)
           ry == -B!_ranking(fy)
<1>5. dx \in Int /\ dy \in Int /\ rx \in Int /\ ry \in Int /\ fx.date \in Int /\ fy.date \in Int
  <2> HIDE DEF fx, fy
  <2>1. \A f \in BriefFacts : B!_ranking(f) \in Int /\ B!DispositionOrder[f.disposition] \in Int
                              /\ f.date \in Int
    BY FactFacts
  <2> QED BY <1>4, <2>1
<1>6. \/ B!Lower(<<dx, rx, fx.date, px>>, <<dy, ry, fy.date, py>>)
      \/ B!Lower(<<dy, ry, fy.date, py>>, <<dx, rx, fx.date, px>>)
  <2> HIDE DEF dx, dy, rx, ry, px, py, fx, fy
  <2> QED BY <1>3, <1>5, LowerTotal
<1> QED BY <1>6 DEF B!Before, B!_sort_key

(* So the changed items can be sorted, and sorting loses none of them.      *)
LEMMA RankedFacts ==
  ASSUME NEW input, TakenInput(input), NEW S \in SUBSET B!Reported(input)
  PROVE  /\ B!Ranked(input, S) \in [1..Cardinality(S) -> S]
         /\ Cardinality(S) \in Nat
         /\ \A x \in S : \E n \in 1..Cardinality(S) : B!Ranked(input, S)[n] = x
<1> DEFINE ids == B!SetToSeq(BriefItems)
           In(s) == \A m, n \in DOMAIN s : m < n => B!Before(input, ids, s[m], s[n])
<1>1. S \subseteq BriefItems BY DEF B!Reported, BriefItems
<1>2. IsFiniteSet(S) BY <1>1, ItemsAreFinite, FS_Subset
<1>3. Cardinality(S) \in Nat BY <1>2, FS_CardinalityType
<1>4. \E s \in B!SetToSeqs(S) : In(s)
  <2> HIDE DEF In
  <2>1. CASE S = {}
    <3>1. Cardinality(S) = 0 BY <2>1, FS_EmptySet
    <3>2. <<>> \in B!SetToSeqs(S)
      BY <2>1, <3>1, BriefCardinality DEF B!SetToSeqs
    <3>3. In(<<>>) BY DEF In
    <3> QED BY <3>2, <3>3
  <2>2. ASSUME NEW x, S = {x} PROVE \E s \in B!SetToSeqs(S) : In(s)
    <3>1. Cardinality(S) = 1 BY <2>2, FS_Singleton
    <3>2. <<x>> \in B!SetToSeqs(S)
      <4>1. <<x>> \in [1..1 -> {x}] OBVIOUS
      <4>2. \A m, n \in 1..1 : m = n OBVIOUS
      <4> QED BY <2>2, <3>1, <4>1, <4>2, BriefCardinality DEF B!SetToSeqs
    <3>3. In(<<x>>)
      <4>1. \A m, n \in DOMAIN <<x>> : ~(m < n) OBVIOUS
      <4> QED BY <4>1 DEF In
    <3> QED BY <3>2, <3>3
  <2>3. ASSUME NEW x, NEW y, x # y, S = {x, y}, B!Before(input, ids, x, y)
        PROVE  \E s \in B!SetToSeqs(S) : In(s)
    <3>1. Cardinality(S) = 2
      <4>1. IsFiniteSet({x}) /\ Cardinality({x}) = 1 BY FS_Singleton
      <4>2. y \notin {x} /\ S = {x} \union {y} BY <2>3
      <4>3. Cardinality({x} \union {y}) = 1 + 1 BY <4>1, <4>2, FS_AddElement
      <4> QED BY <4>2, <4>3
    <3> DEFINE s == <<x, y>>
    <3>2. DOMAIN s = {1, 2} /\ s[1] = x /\ s[2] = y /\ 1..2 = {1, 2} OBVIOUS
    <3>3. s \in [1..2 -> {x, y}] OBVIOUS
    <3> HIDE DEF s
    <3>4. \A m, n \in 1..2 : m # n => s[m] # s[n] BY <2>3, <3>2
    <3>5. s \in B!SetToSeqs(S)
      BY <2>3, <3>1, <3>3, <3>4, BriefCardinality DEF B!SetToSeqs
    <3>6. In(s)
      <4>1. \A m, n \in DOMAIN s : m < n => m = 1 /\ n = 2 BY <3>2
      <4> QED BY <2>3, <3>2, <4>1 DEF In
    <3> QED BY <3>5, <3>6
  <2>4. CASE S = {i1, i2} /\ i1 # i2
    <3>1. i1 \in B!Reported(input) /\ i2 \in B!Reported(input) BY <2>4
    <3>2. B!Before(input, ids, i1, i2) \/ B!Before(input, ids, i2, i1)
      BY <2>4, <3>1, OneComesFirst
    <3>3. S = {i2, i1} BY <2>4
    <3> QED BY <2>3, <2>4, <3>2, <3>3
  <2>5. S = {} \/ S = {i1} \/ S = {i2} \/ S = {i1, i2}
    BY <1>1 DEF BriefItems
  <2>6. i1 = i2 => {i1, i2} = {i1} OBVIOUS
  <2> QED BY <2>1, <2>2, <2>4, <2>5, <2>6
<1> DEFINE s == B!Ranked(input, S)
<1>5. s \in B!SetToSeqs(S)
  BY <1>4 DEF B!Ranked, B!Sorted, BriefItems
<1> HIDE DEF s
<1>6. s \in [1..Cardinality(S) -> S]
      /\ \A m, n \in 1..Cardinality(S) : m # n => s[m] # s[n]
  BY <1>5, BriefCardinality DEF B!SetToSeqs
<1>7. s \in Injection(1..Cardinality(S), S)
  BY <1>6 DEF Injection, IsInjective
<1>8. Cardinality(1..Cardinality(S)) = Cardinality(S)
  BY <1>3, FS_Interval
<1>9. s \in Surjection(1..Cardinality(S), S)
  BY <1>2, <1>7, <1>8, FS_Injection
<1> QED BY <1>3, <1>6, <1>9 DEF Surjection, s

(* A plan within the limit selects every changed item.                      *)
LEMMA SelectedFacts ==
  ASSUME NEW input, TakenInput(input), NEW S \in SUBSET B!Reported(input),
         B!Cardinality(S) <= MaxItems
  PROVE  S \subseteq B!ToSet(B!Selected(input, S))
<1> DEFINE s == B!Ranked(input, S)
           c == Cardinality(S)
<1>1. s \in [1..c -> S] /\ c \in Nat /\ \A x \in S : \E n \in 1..c : s[n] = x
  BY RankedFacts
<1>2. c <= MaxItems BY BriefCardinality
<1>3. B!Selected(input, S) = B!FirstOf(s) BY DEF B!Selected
<1> HIDE DEF s, c
<1>4. s \in Seq(S) /\ Len(s) = c
  BY <1>1, SeqDef, LenProperties
<1>5. ~(Len(s) > MaxItems) BY <1>1, <1>2, <1>4, BriefingAssumption
<1>6. B!FirstOf(s) = SubSeq(s, 1, c) BY <1>4, <1>5 DEF B!FirstOf
<1>7. SubSeq(s, 1, c) = s BY <1>1, <1>4
<1>8. S \subseteq B!ToSet(s) BY <1>1 DEF B!ToSet
<1> QED BY <1>3, <1>6, <1>7, <1>8

(* What compose_briefing returns: a plan of this run and this material, and *)
(* as new only what it will tell or the baseline already holds.             *)
LEMMA ComposedFacts ==
  ASSUME NEW input, TakenInput(input), NEW run, NEW plan \in B!compose_briefing(input, run)
  PROVE  /\ B!Agrees(input)
         /\ plan.run = run /\ plan.baseline = B!NextBaseline(input, run)
         /\ plan.status # "duplicate_delivery" =>
               \A i \in B!Reported(input) :
                  \/ B!Holds(state.baseline.items, i, plan.baseline.items[i])
                  \/ i \in B!ToSet(plan.items)
                  \/ ~(plan.counts.changed <= MaxItems)
<1> DEFINE new == B!NewPlan(input, run)
           changed == B!Changed(input, state.baseline)
           failures == B!LaneFailures(input, state.baseline)
<1>1. B!Agrees(input) /\ plan \in B!Composed(new, B!Delivery(run.key))
  BY DEF B!compose_briefing
<1>2. /\ DOMAIN new = {"status", "run", "items", "lane_failures", "counts", "baseline",
                       "source_digest", "delivery_digest"}
      /\ new.run = run /\ new.baseline = B!NextBaseline(input, run)
      /\ new.items = B!Selected(input, changed)
      /\ new.counts = [changed |-> B!Cardinality(changed), selected |-> Len(new.items)]
  BY DEF B!NewPlan, B!DeltaPlan, B!Sealed, B!Sourced, B!Draft
<1> HIDE DEF new
<1>3. CASE B!Delivery(run.key) = {}
  <2>1. plan = new BY <1>1, <1>3 DEF B!Composed
  <2>2. new.counts.changed = B!Cardinality(changed) BY <1>2
  <2>3. changed \subseteq B!Reported(input) BY DEF B!Changed
  <2>4. ASSUME NEW i \in B!Reported(input), i \notin changed
        PROVE  B!Holds(state.baseline.items, i, new.baseline.items[i])
    <3>1. B!Holds(state.baseline.items, i, B!Fingerprint(B!Merged(input, i)))
      BY <2>4 DEF B!Changed
    <3>2. new.baseline.items[i] = B!Fingerprint(B!Merged(input, i))
      BY <1>2 DEF B!NextBaseline
    <3> QED BY <3>1, <3>2
  <2> HIDE DEF changed
  <2>5. new.counts.changed <= MaxItems => changed \subseteq B!ToSet(new.items)
    BY <1>2, <2>2, <2>3, SelectedFacts
  <2> QED BY <1>1, <1>2, <2>1, <2>4, <2>5
<1>4. CASE B!Delivery(run.key) # {}
  <2>1. PICK d : plan = [new EXCEPT !.status = "duplicate_delivery", !.items = <<>>,
                                    !.lane_failures = {}, !.counts.selected = 0,
                                    !.delivery_digest = d.delivery_digest]
    BY <1>1, <1>4 DEF B!Composed
  <2>2. plan.run = new.run /\ plan.baseline = new.baseline /\ plan.status = "duplicate_delivery"
    BY <1>2, <2>1
  <2> QED BY <1>1, <1>2, <2>2
<1> QED BY <1>3, <1>4

(* A delivery of the same run and material is found again.                  *)
LEMMA RetrySafe == ASSUME B!BPInv PROVE B!RetryIsRecognised
<1> SUFFICES ASSUME NEW d \in B!ToSet(state.deliveries)
             PROVE  \E plan \in B!compose_briefing(committed[d.key].input, committed[d.key].run) :
                       plan.status = "duplicate_delivery"
  BY DEF B!RetryIsRecognised
<1> DEFINE input == committed[d.key].input
           run == committed[d.key].run
           new == B!NewPlan(input, run)
           plan == [new EXCEPT !.status = "duplicate_delivery", !.items = <<>>,
                               !.lane_failures = {}, !.counts.selected = 0,
                               !.delivery_digest = d.delivery_digest]
<1>1. run.key = d.key /\ B!Agrees(input) /\ d.source_digest = <<run, B!NextBaseline(input, run)>>
  BY DEF B!BPInv, B!SoundDeliveries
<1> HIDE DEF input, run
<1>2. /\ DOMAIN new = {"status", "run", "items", "lane_failures", "counts", "baseline",
                       "source_digest", "delivery_digest"}
      /\ new.source_digest = <<run, B!NextBaseline(input, run)>>
  BY DEF B!NewPlan, B!DeltaPlan, B!Sealed, B!Sourced, B!Draft, B!_source_digest
<1>3. d \in B!Delivery(run.key) BY <1>1 DEF B!Delivery
<1>4. plan \in B!Composed(new, B!Delivery(run.key))
  <2> HIDE DEF new
  <2>1. d \in {e \in B!Delivery(run.key) : e.source_digest = new.source_digest} BY <1>1, <1>2, <1>3
  <2>2. B!Composed(new, B!Delivery(run.key)) =
          {[new EXCEPT !.status = "duplicate_delivery", !.items = <<>>,
                       !.lane_failures = {}, !.counts.selected = 0,
                       !.delivery_digest = e.delivery_digest] :
           e \in {e \in B!Delivery(run.key) : e.source_digest = new.source_digest}}
    BY <1>3, Zenon DEF B!Composed
  <2> QED BY <2>1, <2>2, Zenon
<1>5. plan.status = "duplicate_delivery"
  <2> HIDE DEF new
  <2> QED BY <1>2
<1> QED BY <1>1, <1>4, <1>5 DEF B!compose_briefing, input, run

Told == briefed \union omitted

LEMMA BPInitially == ASSUME B!BPInit PROVE B!BPInv
<1>1. \A p \in Twins : B!SoundInvocation(inv[p], Told)
  BY DEF B!BPInit, B!Idle, B!SoundInvocation
<1>2. B!SoundDeliveries(state.deliveries, committed)
  <2>1. state.deliveries = <<>> BY DEF B!BPInit, B!empty_state
  <2>2. B!ToSet(<<>>) = {} BY DEF B!ToSet
  <2> QED BY <2>1, <2>2 DEF B!SoundDeliveries
<1>3. B!BaselineWasBriefed
  BY DEF B!BPInit, B!empty_state, B!BaselineWasBriefed
<1> QED BY <1>1, <1>2, <1>3 DEF B!BPInit, B!BPInv, Told

(* What was told stays told: the invocations that stand still keep what     *)
(* they know, and so does the saved state.                                  *)
LEMMA StillSound ==
  ASSUME NEW v, NEW told, NEW more, told \subseteq more, B!SoundInvocation(v, told)
  PROVE  B!SoundInvocation(v, more)
BY DEF B!SoundInvocation, B!ToldOrToTell

(* A step of one invocation that saves no state.                            *)
LEMMA OwnInvocation ==
  ASSUME B!BPInv, NEW p \in Twins, NEW v, B!SoundInvocation(v, Told'),
         inv' = [inv EXCEPT ![p] = v], Told \subseteq Told', UNCHANGED <<files, state, committed>>
  PROVE  B!BPInv'
<1>1. inv' = [q \in Twins |-> inv'[q]] BY DEF B!BPInv
<1>2. \A q \in Twins : B!SoundInvocation(inv'[q], Told')
  BY StillSound DEF B!BPInv, Told
<1>3. B!SoundDeliveries(state'.deliveries, committed') BY DEF B!BPInv
<1>4. B!BaselineWasBriefed' BY DEF B!BPInv, B!BaselineWasBriefed, Told
<1> QED BY <1>1, <1>2, <1>3, <1>4 DEF B!BPInv, Told

LEMMA IdleIsSound == \A told : B!SoundInvocation(B!Idle, told)
BY DEF B!Idle, B!SoundInvocation

LEMMA WriteLaneStep == ASSUME B!BPInv, NEW l \in Lanes, B!WriteLane(l) PROVE B!BPInv'
<1>1. files' \in [Lanes -> {NoFile, BadFile} \union
         {g \in {File("ok", 0, (i1 :> Act) @@ (i2 :> Ignore)), File("degraded", 1, i1 :> Act),
                 File("ok", 0, i1 :> Ignore)} : B!IsLaneFile(g)}]
  BY DEF B!BPInv, B!WriteLane
<1>2. UNCHANGED <<inv, state, briefed, omitted, committed>> BY DEF B!WriteLane
<1> QED BY <1>1, <1>2 DEF B!BPInv, B!BaselineWasBriefed

LEMMA MakeManifestStep == ASSUME B!BPInv, NEW p \in Twins, B!MakeManifest(p) PROVE B!BPInv'
<1>1. PICK run, m : inv' = [inv EXCEPT ![p].at = "manifest", ![p].run = run, ![p].manifest = m]
  BY DEF B!MakeManifest
<1> DEFINE v == [inv[p] EXCEPT !.at = "manifest", !.run = run, !.manifest = m]
<1>2. inv' = [inv EXCEPT ![p] = v] BY <1>1 DEF B!BPInv
<1>3. B!SoundInvocation(v, Told')
  <2>1. DOMAIN inv[p] = {"at", "run", "manifest", "input", "plan"}
    BY DEF B!BPInv, B!SoundInvocation
  <2>2. DOMAIN v = {"at", "run", "manifest", "input", "plan"} /\ v.at = "manifest"
    BY <2>1
  <2> HIDE DEF v
  <2> QED BY <2>2 DEF B!SoundInvocation
<1> HIDE DEF v
<1> QED BY <1>2, <1>3, OwnInvocation DEF B!MakeManifest, Told

(* What collect takes of a lane's file holds facts of the briefing's items. *)
LEMMA CollectFacts ==
  ASSUME B!BPInv, NEW l \in Lanes, NEW e, NEW lane, lane = B!CollectLane(files[l], e), lane # NULL
  PROVE  B!TakenLane(lane)
<1> DEFINE f == files[l]
           read == B!_read_relative_regular_file(f)
<1>1. f \in {NoFile, BadFile} \/ B!IsLaneFile(f)
  BY DEF B!BPInv
<1>2. ASSUME NEW reason PROVE B!TakenLane(B!_unavailable_lane(reason))
  BY DEF B!TakenLane, B!_unavailable_lane
<1>3. CASE read = NULL
  BY <1>3, FileAssumption DEF B!CollectLane
<1>4. CASE read # NULL /\ read = NoFile
  BY <1>2, <1>4 DEF B!CollectLane
<1>5. CASE read # NULL /\ read # NoFile
  <2>1. f \notin {NoFile, BadFile}
    BY <1>5 DEF B!_read_relative_regular_file, B!_read_descriptor
  <2>2. B!IsLaneFile(f) BY <1>1, <2>1
  <2>3. lane = B!_unavailable_lane("stale") \/ lane = B!_to_input_envelope(f)
    BY <1>5 DEF B!CollectLane
  <2>4. B!TakenLane(B!_to_input_envelope(f))
    <3>1. B!_to_input_envelope(f).items = f.items BY DEF B!_to_input_envelope
    <3>2. DOMAIN f.items \subseteq {i1, i2} /\ \A i \in DOMAIN f.items : f.items[i] \in {Act, Ignore}
      BY <2>2 DEF B!IsLaneFile
    <3> QED BY <3>1, <3>2 DEF B!TakenLane
  <2> QED BY <1>2, <2>3, <2>4
<1> QED BY <1>3, <1>4, <1>5

LEMMA CollectStep == ASSUME B!BPInv, NEW p \in Twins, B!Collect(p) PROVE B!BPInv'
<1> DEFINE input == [l \in Lanes |-> B!CollectLane(files[l], inv[p].manifest[l])]
<1>1. B!CollectedInput(p, input) /\ UNCHANGED <<files, state, briefed, omitted, committed>>
  BY DEF B!Collect
<1>2. CASE inv' = [inv EXCEPT ![p] = B!Idle]
  BY <1>1, <1>2, IdleIsSound, OwnInvocation DEF Told
<1>3. CASE /\ ~\E l \in Lanes : input[l] = NULL
           /\ inv' = [inv EXCEPT ![p].at = "input", ![p].input = input, ![p].manifest = NULL]
  <2>1. \A l \in Lanes : B!TakenLane(input[l])
    BY <1>3, CollectFacts
  <2> HIDE DEF input
  <2> DEFINE v == [inv[p] EXCEPT !.at = "input", !.input = input, !.manifest = NULL]
  <2>2. inv' = [inv EXCEPT ![p] = v] BY <1>3 DEF B!BPInv
  <2>3. DOMAIN inv[p] = {"at", "run", "manifest", "input", "plan"}
    BY DEF B!BPInv, B!SoundInvocation
  <2>4. /\ DOMAIN v = {"at", "run", "manifest", "input", "plan"}
        /\ v.at = "input" /\ v.input = input
    BY <2>3
  <2> HIDE DEF v
  <2>5. B!SoundInvocation(v, Told') BY <2>1, <2>4 DEF B!SoundInvocation
  <2> QED BY <1>1, <2>2, <2>5, OwnInvocation DEF Told
<1> QED BY <1>1, <1>2, <1>3 DEF B!CollectedInput

LEMMA PlanStep == ASSUME B!BPInv, NEW p \in Twins, B!Plan(p) PROVE B!BPInv'
<1> DEFINE input == inv[p].input
           run == inv[p].run
<1>1. /\ inv[p].at = "input"
      /\ B!PlanMade(p, B!compose_briefing(input, run))
      /\ UNCHANGED <<files, state, briefed, omitted, committed>>
  BY DEF B!Plan
<1>2. CASE inv' = [inv EXCEPT ![p] = B!Idle]
  BY <1>1, <1>2, IdleIsSound, OwnInvocation DEF Told
<1>3. ASSUME NEW plan \in B!compose_briefing(input, run),
             inv' = [inv EXCEPT ![p].at = "plan", ![p].plan = plan]
      PROVE  B!BPInv'
  <2>1. TakenInput(input) BY <1>1 DEF B!BPInv, B!SoundInvocation, TakenInput
  <2>2. /\ B!Agrees(input)
        /\ plan.run = run /\ plan.baseline = B!NextBaseline(input, run)
        /\ plan.status # "duplicate_delivery" =>
              \A i \in B!Reported(input) :
                 \/ B!Holds(state.baseline.items, i, plan.baseline.items[i])
                 \/ i \in B!ToSet(plan.items)
                 \/ ~(plan.counts.changed <= MaxItems)
    BY <1>3, <2>1, ComposedFacts
  <2>3. \A i : B!Holds(state.baseline.items, i, plan.baseline.items[i])
                => <<i, plan.baseline.items[i]>> \in Told
    BY DEF B!BPInv, B!BaselineWasBriefed, B!Holds, Told
  <2> DEFINE v == [inv[p] EXCEPT !.at = "plan", !.plan = plan]
  <2>4. inv' = [inv EXCEPT ![p] = v] BY <1>3 DEF B!BPInv
  <2>5. DOMAIN inv[p] = {"at", "run", "manifest", "input", "plan"}
    BY DEF B!BPInv, B!SoundInvocation
  <2>6. /\ DOMAIN v = {"at", "run", "manifest", "input", "plan"}
        /\ v.at = "plan" /\ v.plan = plan /\ v.input = input /\ v.run = run
    BY <2>5
  <2> HIDE DEF input, run
  <2> HIDE DEF v
  <2>7. Told' = Told BY <1>1 DEF Told
  <2>8. v.plan.status # "duplicate_delivery" => B!ToldOrToTell(v, Told)
    BY <2>2, <2>3, <2>6 DEF B!ToldOrToTell
  <2>9. B!SoundInvocation(v, Told)
    BY <2>1, <2>2, <2>6, <2>8 DEF B!SoundInvocation, TakenInput
  <2> QED BY <1>1, <2>4, <2>7, <2>9, OwnInvocation
<1> QED BY <1>1, <1>2, <1>3 DEF B!PlanMade

LEMMA AbandonStep == ASSUME B!BPInv, NEW p \in Twins, B!Abandon(p) PROVE B!BPInv'
BY IdleIsSound, OwnInvocation DEF B!Abandon, Told

(* Delivering tells what the plan holds, and says that there was more.      *)
LEMMA DeliverStep == ASSUME B!BPInv, NEW p \in Twins, B!Deliver(p) PROVE B!BPInv'
<1> DEFINE plan == inv[p].plan
           input == inv[p].input
           v == [inv[p] EXCEPT !.at = "delivered"]
           said(S) == {<<i, plan.baseline.items[i]>> : i \in S}
           selected == B!ToSet(plan.items)
<1>1. /\ inv[p].at = "plan"
      /\ inv' = [inv EXCEPT ![p].at = "delivered"]
      /\ UNCHANGED <<files, state, committed>>
  BY DEF B!Deliver
<1>2. inv' = [inv EXCEPT ![p] = v] BY <1>1 DEF B!BPInv
<1>3. B!SoundInvocation(inv[p], Told) BY DEF B!BPInv, Told
<1>4. /\ DOMAIN v = {"at", "run", "manifest", "input", "plan"}
      /\ v.at = "delivered" /\ v.plan = plan /\ v.input = input /\ v.run = inv[p].run
  BY <1>3 DEF B!SoundInvocation
<1>5. plan.status = "duplicate_delivery" => Told' = Told
  BY DEF B!Deliver, Told
<1>6. plan.status # "duplicate_delivery" =>
        /\ briefed' = briefed \union said(selected)
        /\ omitted' = IF plan.counts.changed <= MaxItems THEN omitted
                      ELSE omitted \union said(DOMAIN plan.baseline.items \ selected)
  BY DEF B!Deliver
<1>7. Told \subseteq Told' BY <1>5, <1>6 DEF Told
<1>8. plan.status # "duplicate_delivery" => B!ToldOrToTell(v, Told')
  <2> SUFFICES ASSUME plan.status # "duplicate_delivery", NEW i \in B!Reported(input)
               PROVE  <<i, plan.baseline.items[i]>> \in Told'
    BY <1>4 DEF B!ToldOrToTell
  <2>1. DOMAIN plan.baseline.items = B!Reported(input)
    BY <1>1, <1>3 DEF B!SoundInvocation, B!NextBaseline
  <2>2. \/ <<i, plan.baseline.items[i]>> \in Told
        \/ i \in selected
        \/ ~(plan.counts.changed <= MaxItems)
    BY <1>1, <1>3 DEF B!SoundInvocation, B!ToldOrToTell
  <2> HIDE DEF selected
  <2>3. CASE i \in selected
    BY <1>6, <2>3 DEF Told
  <2>4. CASE i \notin selected /\ ~(plan.counts.changed <= MaxItems)
    BY <1>6, <2>1, <2>4 DEF Told
  <2> QED BY <1>7, <2>2, <2>3, <2>4
<1> HIDE DEF v
<1>9. B!SoundInvocation(v, Told')
  BY <1>1, <1>3, <1>4, <1>8 DEF B!SoundInvocation
<1> QED BY <1>1, <1>2, <1>7, <1>9, OwnInvocation

(* The oldest deliveries are forgotten, and nothing else is retained.       *)
LEMMA RetainedFacts ==
  ASSUME NEW s, s \in Seq(B!ToSet(s)), NEW r
  PROVE  LET kept == B!Retained(Append(s, r))
         IN  kept \in Seq(B!ToSet(kept)) /\ B!ToSet(kept) \subseteq B!ToSet(s) \union {r}
<1> DEFINE T == B!ToSet(s) \union {r}
           t == Append(s, r)
           n == Len(t)
           m == n - MaxRecords + 1
           kept == B!Retained(t)
<1>1. s \in Seq(T) /\ r \in T
  <2>1. B!ToSet(s) \subseteq T OBVIOUS
  <2> QED BY <2>1
<1> HIDE DEF T
<1>2. t \in Seq(T) BY <1>1
<1>3. n \in Nat BY <1>2
<1>4. kept \in Seq(T)
  <2>1. CASE n > MaxRecords
    <3>1. kept = SubSeq(t, m, n) BY <2>1 DEF B!Retained
    <3>2. m \in 1..(n + 1)  BY <1>3, <2>1, BriefingAssumption
    <3> HIDE DEF t, n, m
    <3>3. SubSeq(t, m, n) \in Seq(T)
      <4>1. \A i \in m..n : i \in 1..Len(t) BY <1>3, <3>2 DEF n
      <4>2. \A i \in m..n : t[i] \in T BY <1>2, <4>1
      <4> QED BY <1>2, <1>3, <3>2, <4>2, SubSeqProperties DEF n
    <3> QED BY <3>1, <3>3
  <2>2. CASE ~(n > MaxRecords)
    BY <1>2, <2>2 DEF B!Retained
  <2> QED BY <2>1, <2>2
<1> HIDE DEF kept
<1>5. DOMAIN kept = 1..Len(kept) /\ Len(kept) \in Nat /\ kept \in [1..Len(kept) -> T]
  BY <1>4, LenProperties
<1>6. B!ToSet(kept) \subseteq T BY <1>5 DEF B!ToSet
<1>7. kept \in [1..Len(kept) -> B!ToSet(kept)] BY <1>5 DEF B!ToSet
<1>8. kept \in Seq(B!ToSet(kept)) BY <1>5, <1>7, SeqDef
<1> QED BY <1>6, <1>8 DEF T, kept, t

(* A commit that changes the state is of a run no retained delivery is of,  *)
(* and its baseline is the plan's, told by its delivery.                    *)
LEMMA CommitStep == ASSUME B!BPInv, NEW p \in Twins, B!Commit(p) PROVE B!BPInv'
<1> DEFINE plan == inv[p].plan
           input == inv[p].input
           run == inv[p].run
           existing == B!Delivery(plan.run.key)
           next == B!Committed(plan, existing)
<1>1. /\ inv[p].at = "delivered"
      /\ B!StateSaved(p, next)
      /\ inv' = [inv EXCEPT ![p] = B!Idle]
      /\ UNCHANGED <<files, briefed, omitted>>
  BY DEF B!Commit, B!commit_delivery
<1>2. CASE state' = state
  <2>1. committed' = committed BY <1>1, <1>2 DEF B!StateSaved
  <2> QED BY <1>1, <1>2, <2>1, IdleIsSound, OwnInvocation DEF Told
<1>3. CASE state' # state
  <2>1. next # {state} /\ next # {} /\ state' \in next
    BY <1>1, <1>3 DEF B!StateSaved
  <2>2. /\ B!validate_plan(plan) /\ plan.status # "duplicate_delivery" /\ existing = {}
        /\ next = {[baseline |-> IF plan.run.mode = "scheduled" THEN plan.baseline ELSE state.baseline,
                    deliveries |-> B!Retained(Append(state.deliveries, B!Record(plan)))]}
    BY <2>1 DEF B!Committed
  <2>3. /\ state'.baseline = plan.baseline \/ state'.baseline = state.baseline
        /\ state'.deliveries = B!Retained(Append(state.deliveries, B!Record(plan)))
    BY <2>1, <2>2
  <2>4. committed' = [k \in DOMAIN committed \union {run.key} |->
                        IF k = run.key THEN [input |-> input, run |-> run] ELSE committed[k]]
    BY <1>1, <1>3 DEF B!StateSaved
  <2>5. B!SoundInvocation(inv[p], Told) BY DEF B!BPInv, Told
  <2>6. /\ B!Agrees(input) /\ plan.run = run /\ plan.baseline = B!NextBaseline(input, run)
        /\ B!ToldOrToTell(inv[p], Told)
    BY <1>1, <2>2, <2>5 DEF B!SoundInvocation
  <2>7. B!BaselineWasBriefed'
    <3>1. \A i \in DOMAIN plan.baseline.items : <<i, plan.baseline.items[i]>> \in Told
      <4>1. DOMAIN plan.baseline.items = B!Reported(input) BY <2>6 DEF B!NextBaseline
      <4> QED BY <1>1, <2>6, <4>1 DEF B!ToldOrToTell
    <3>2. \A i \in DOMAIN state.baseline.items : <<i, state.baseline.items[i]>> \in Told
      BY DEF B!BPInv, B!BaselineWasBriefed, Told
    <3> HIDE DEF plan
    <3> QED BY <1>1, <2>3, <3>1, <3>2 DEF B!BaselineWasBriefed, Told
  <2>8. B!SoundDeliveries(state'.deliveries, committed')
    <3> DEFINE kept == B!Retained(Append(state.deliveries, B!Record(plan)))
    <3>1. B!SoundDeliveries(state.deliveries, committed) BY DEF B!BPInv
    <3>2. kept \in Seq(B!ToSet(kept)) /\ B!ToSet(kept) \subseteq B!ToSet(state.deliveries) \union {B!Record(plan)}
      BY <3>1, RetainedFacts DEF B!SoundDeliveries
    <3>3. ASSUME NEW d \in B!ToSet(state.deliveries)
          PROVE  d.key \in DOMAIN committed' /\ committed'[d.key] = committed[d.key]
      <4>1. d.key # run.key BY <2>2, <2>6 DEF B!Delivery
      <4>2. d.key \in DOMAIN committed BY <3>1 DEF B!SoundDeliveries
      <4> HIDE DEF run, input
      <4> QED BY <2>4, <4>1, <4>2
    <3>4. /\ B!Record(plan).key = run.key
          /\ B!Record(plan).source_digest = <<run, B!NextBaseline(input, run)>>
      BY <2>2, <2>6 DEF B!Record, B!validate_plan, B!_source_digest
    <3>5. run.key \in DOMAIN committed' /\ committed'[run.key] = [input |-> input, run |-> run]
      <4> HIDE DEF run, input
      <4> QED BY <2>4
    <3> HIDE DEF kept
    <3>6. ASSUME NEW d \in B!ToSet(kept)
          PROVE  /\ d.key \in DOMAIN committed'
                 /\ committed'[d.key].run.key = d.key
                 /\ B!Agrees(committed'[d.key].input)
                 /\ d.source_digest = <<committed'[d.key].run,
                        B!NextBaseline(committed'[d.key].input, committed'[d.key].run)>>
      <4>1. CASE d \in B!ToSet(state.deliveries)
        BY <3>1, <3>3, <4>1 DEF B!SoundDeliveries
      <4>2. CASE d = B!Record(plan)
        <5> HIDE DEF run, input
        <5> QED BY <2>6, <3>4, <3>5, <4>2
      <4> QED BY <3>2, <4>1, <4>2
    <3> QED BY <2>3, <3>2, <3>6 DEF B!SoundDeliveries, kept
  <2>9. /\ inv' = [q \in Twins |-> inv'[q]]
        /\ \A q \in Twins : B!SoundInvocation(inv'[q], Told')
    <3>1. Told' = Told BY <1>1 DEF Told
    <3> QED BY <1>1, <3>1, IdleIsSound DEF B!BPInv, Told
  <2> QED BY <1>1, <2>7, <2>8, <2>9 DEF B!BPInv, Told
<1> QED BY <1>2, <1>3

LEMMA BPStep == ASSUME B!BPInv, B!BPNext PROVE B!BPInv'
BY WriteLaneStep, MakeManifestStep, CollectStep, PlanStep, DeliverStep, CommitStep, AbandonStep
DEF B!BPNext

-----------------------------------------------------------------------------
(* The composition: a step of one part leaves the others alone.             *)

IInv ==
    /\ B!BPInv /\ A!BAInv /\ R!BRInv /\ D!TDInv /\ F!FabInv
    /\ part \in {"maintenance", "overlap"} => CommentsInv /\ MergeInv

LEMMA BriefingStandsStill == ASSUME UNCHANGED bpvars, B!BPInv PROVE B!BPInv'
BY DEF bpvars, B!BPInv, B!BaselineWasBriefed
LEMMA AtomicityStandsStill == ASSUME UNCHANGED bavars, A!BAInv PROVE A!BAInv'
BY DEF bavars, A!BAInv, A!BATypeOK, A!RecordKnows
LEMMA ReceiptsStandStill == ASSUME UNCHANGED brvars, R!BRInv PROVE R!BRInv'
BY DEF brvars, R!BRInv, R!BRTypeOK, R!EveryMessageIsKnown, R!Owning
LEMMA DigestStandsStill == ASSUME UNCHANGED tdvars, D!TDInv PROVE D!TDInv'
BY DEF tdvars, D!TDInv, D!TDTypeOK, D!MailHasItsReceipt, D!Busy
LEMMA FabricationStandsStill == ASSUME UNCHANGED fabvars, F!FabInv PROVE F!FabInv'
BY DEF fabvars, F!FabInv, F!FabTypeOK, F!LastGrantRules, F!ArtifactIsTheOwners

LEMMA MaintenanceStandsStill ==
  ASSUME UNCHANGED omvars, CommentsInv, MergeInv PROVE CommentsInv' /\ MergeInv'
BY KeptComments, KeptPulls, WorldMoves DEF omvars, MergeInv

(* What the protocols know of messages, mails, grants and merges, whatever  *)
(* the parts do.                                                            *)
THEOREM Invariance == Spec => []IInv
<1>1. Init => IInv
  BY BPInitially, BAInitially, BRInitially, TDInitially, FabInitially, OMInitially, MergesInitially DEF Init, IInv
<1>2. IInv /\ [Next]_vars => IInv'
  <2> SUFFICES ASSUME IInv, [Next]_vars PROVE IInv'
    OBVIOUS
  <2>1. UNCHANGED bavars \/ A!BANext BY DEF Next, vars
  <2>2. UNCHANGED brvars \/ R!BRNext BY DEF Next, vars
  <2>3. UNCHANGED tdvars \/ D!TDNext BY DEF Next, vars
  <2>4. UNCHANGED fabvars \/ F!FabNext BY DEF Next, vars
  <2>5. A!BAInv' BY <2>1, AtomicityStandsStill, BAStep DEF IInv
  <2>6. R!BRInv' BY <2>2, ReceiptsStandStill, BRStep DEF IInv
  <2>7. D!TDInv' BY <2>3, DigestStandsStill, TDStep DEF IInv
  <2>8. F!FabInv' BY <2>4, FabricationStandsStill, FabStep DEF IInv
  <2>9. part' = part /\ (UNCHANGED omvars \/ O!OMNext) BY DEF Next, vars
  <2>10. part' \in {"maintenance", "overlap"} => CommentsInv' /\ MergeInv'
    BY <2>9, MaintenanceStandsStill, OMStep, MergesStep DEF IInv
  <2>11. UNCHANGED bpvars \/ B!BPNext BY DEF Next, vars
  <2>12. B!BPInv' BY <2>11, BriefingStandsStill, BPStep DEF IInv
  <2> QED BY <2>5, <2>6, <2>7, <2>8, <2>10, <2>12 DEF IInv
<1> QED BY <1>1, <1>2, PTL DEF Spec

(* Whichever plans are composed from one state, and in whatever order they  *)
(* are delivered, abandoned or committed, an item is suppressed as known    *)
(* only in a form some delivered briefing told or said it left out          *)
(* (compose_briefing, commit_delivery), whatever the limits are.            *)
THEOREM SuppressedWasBriefed == Spec => []BaselineWasBriefed
<1>1. IInv => BaselineWasBriefed
  BY DEF IInv, B!BPInv, BaselineWasBriefed
<1> QED BY <1>1, Invariance, PTL

(* While a delivery is retained, composing its run again from the material  *)
(* it was committed of yields a duplicate, whatever other runs committed in *)
(* between (_source_digest_payload, compose_briefing).                      *)
THEOREM RetryRecognised == Spec => []RetryIsRecognised
<1>1. IInv => RetryIsRecognised
  BY RetrySafe DEF IInv, RetryIsRecognised
<1> QED BY <1>1, Invariance, PTL

(* However owners of the atomicity model die, are taken over and repeat     *)
(* commands, two messages need an attempt called absent by mistake          *)
(* (daily_briefing_atomicity_model.py apply).                               *)
THEOREM TwoNeedAWrongProof == Spec => []TwoMessagesNeedAWrongProof
<1>1. IInv => TwoMessagesNeedAWrongProof
  BY BASafe DEF IInv, TwoMessagesNeedAWrongProof
<1> QED BY <1>1, Invariance, PTL

(* Whatever commands transition_delivery is given, every briefing after the *)
(* first is of a delivery called failed that had arrived or was on its way. *)
THEOREM TwiceIfMisjudged == Spec => []TwiceOnlyIfMisjudged
<1>1. IInv => TwiceOnlyIfMisjudged
  BY BRSafe DEF IInv, TwiceOnlyIfMisjudged
<1> QED BY <1>1, Invariance, PTL

(* However many refs run the digest's workflow and wherever they are lost,  *)
(* a date is mailed twice only for one of the stated reasons.               *)
THEOREM SecondMailExplained == Spec => []SecondMailIsExplained
<1>1. IInv => SecondMailIsExplained
  BY TDSafe DEF IInv, SecondMailIsExplained
<1> QED BY <1>1, Invariance, PTL

(* Whichever delayed commands of earlier claimants arrive, a completed      *)
(* fabrication job holds the artifact of its last claim (_require_owner).   *)
THEOREM ResultOfTheLastClaim == Spec => []ResultIsTheLastClaims
<1>1. IInv => ResultIsTheLastClaims
  BY DEF IInv, ResultIsTheLastClaims, F!ResultIsTheLastClaims, F!FabInv, F!LastGrantRules,
     F!ArtifactIsTheOwners
<1> QED BY <1>1, Invariance, PTL

(* However often a night's tracking is repeated, by however many nights, an *)
(* issue bears a marker twice only where the first had left the page that   *)
(* is read (_sync_linear_comment).                                          *)
THEOREM TrackedOnce == Spec => []TrackingIsOnce
<1>1. IInv => TrackingIsOnce
  BY DEF IInv, CommentsInv, TrackingIsOnce
<1> QED BY <1>1, Invariance, PTL

(* A night merges nothing it had not looked at: unless somebody changed the *)
(* pull request between its last look and gh pr merge, what was merged had  *)
(* the planned head, green checks, no draft and, where protected, an        *)
(* approval, however authors and nights interleave (_merge_candidate).      *)
THEOREM MergedChecked == Spec => []MergedWasChecked
<1>1. IInv => MergedWasChecked
  BY MergesSafe DEF IInv, MergedWasChecked
<1> QED BY <1>1, Invariance, PTL
=============================================================================
