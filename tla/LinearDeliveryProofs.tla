------------------------ MODULE LinearDeliveryProofs ------------------------
(***************************************************************************)
(* Proofs about LinearDelivery for every set of jobs, payloads, handlers   *)
(* and worker ids, every page size and every number of retries.            *)
(***************************************************************************)
EXTENDS LinearDelivery, TLAPS

\* What Linear has only grows: comments, attachments and completed issues.
Growth ==
  /\ attached \subseteq attached' /\ closed \subseteq closed'
  /\ \A k \in Key : comments'[k] >= comments[k]

\* The elements of a sequence over S are in S.
LEMMA SeqElement ==
  ASSUME NEW S, NEW s \in Seq(S), NEW n \in DOMAIN s
  PROVE  s[n] \in S
OBVIOUS

\* A handler inside a directive works on a directive of its job, whose key is
\* one of the keys.
LEMMA OwnDirective ==
  ASSUME NEW h \in Handler, HandlerProgress(h),
         handler[h].pc \in {"begin", "succeed", "fail"} \cup Call
  PROVE  /\ handler[h].job \in Job /\ Payload[handler[h].job] # NULL
         /\ handler[h].n \in DOMAIN Payload[handler[h].job]
         /\ Directive(h) \in [issue: STRING, commit: STRING, closes: BOOLEAN]
         /\ Directive(h) \in Directives
         /\ KeyOf(h) \in Key
         /\ KeyOf(h).directive = Directive(h)
         /\ Directive(h).issue \in Issue /\ Directive(h).commit \in STRING
<1>1. /\ handler[h].job \in Job /\ Payload[handler[h].job] # NULL
      /\ handler[h].n \in 1..(Len(Payload[handler[h].job]) + 1)
      /\ handler[h].n <= Len(Payload[handler[h].job])
  BY DEF HandlerProgress, Call
<1>2. Payload[handler[h].job] \in Seq([issue: STRING, commit: STRING, closes: BOOLEAN])
  BY <1>1, LinearAssumption
<1>3. handler[h].n \in DOMAIN Payload[handler[h].job]
  BY <1>1, <1>2
<1>4. Directive(h) \in [issue: STRING, commit: STRING, closes: BOOLEAN]
  BY <1>2, <1>3, SeqElement, Zenon DEF Directive
<1>5. Directive(h) \in Directives
  BY <1>1, <1>3 DEF Directive, Directives
<1>6. KeyOf(h) \in Key /\ KeyOf(h).directive = Directive(h)
  BY <1>1, <1>5 DEF KeyOf, Key, mutation_key
<1> QED BY <1>1, <1>3, <1>4, <1>5, <1>6 DEF Issue

\* What is delivered stays delivered.
LEMMA DeliveredStays ==
  ASSUME TypeOK, TypeOK', Growth, NEW k \in Key, Delivered(k)
  PROVE  Delivered(k)'
BY DEF TypeOK, Growth, Delivered

\* The keys of a job's directives are keys.
LEMMA JobKeys ==
  ASSUME NEW j \in Job, Payload[j] # NULL, NEW m \in DOMAIN Payload[j]
  PROVE  mutation_key(j, Payload[j][m]) \in Key
<1>1. Payload[j][m] \in Directives
  BY DEF Directives
<1> QED BY <1>1 DEF Key

\* A handler that does not move keeps what it relies on.
LEMMA OthersProgress ==
  ASSUME TypeOK, TypeOK', Growth, NEW g \in Handler, HandlerProgress(g), handler'[g] = handler[g]
  PROVE  HandlerProgress(g)'
<1> DEFINE x == handler[g]
<1>1. /\ x.pc # "idle" => x.job \in Job
      /\ x.pc = "fail" => x.verdict # "delivered"
      /\ x.pc = "comment" => ~x.seen
  BY DEF HandlerProgress
<1>2. ASSUME x.pc \notin {"idle", "complete"}
      PROVE /\ Payload[x.job] # NULL
            /\ x.n \in 1..(Len(Payload[x.job]) + 1)
            /\ x.pc # "check" => x.n <= Len(Payload[x.job])
            /\ \A m \in 1..(x.n - 1) : Delivered(mutation_key(x.job, Payload[x.job][m]))'
  <2>1. /\ Payload[x.job] # NULL /\ x.job \in Job
        /\ x.n \in 1..(Len(Payload[x.job]) + 1)
        /\ x.pc # "check" => x.n <= Len(Payload[x.job])
        /\ \A m \in 1..(x.n - 1) : Delivered(mutation_key(x.job, Payload[x.job][m]))
    BY <1>2 DEF HandlerProgress
  <2>2. Payload[x.job] \in Seq([issue: STRING, commit: STRING, closes: BOOLEAN])
    BY <2>1, LinearAssumption
  <2>3. ASSUME NEW m \in 1..(x.n - 1)
        PROVE Delivered(mutation_key(x.job, Payload[x.job][m]))'
    <3>1. m \in DOMAIN Payload[x.job] BY <2>1, <2>2
    <3>2. mutation_key(x.job, Payload[x.job][m]) \in Key BY <2>1, <3>1, JobKeys
    <3> QED BY <2>1, <3>2, DeliveredStays
  <2> QED BY <2>1, <2>3
<1>3. ASSUME x.pc = "complete", x.verdict = "delivered"
      PROVE /\ Payload[x.job] # NULL
            /\ \A m \in DOMAIN Payload[x.job] : Delivered(mutation_key(x.job, Payload[x.job][m]))'
  <2>1. /\ Payload[x.job] # NULL /\ x.job \in Job
        /\ \A m \in DOMAIN Payload[x.job] : Delivered(mutation_key(x.job, Payload[x.job][m]))
    BY <1>3 DEF HandlerProgress
  <2>2. ASSUME NEW m \in DOMAIN Payload[x.job]
        PROVE Delivered(mutation_key(x.job, Payload[x.job][m]))'
    <3>1. mutation_key(x.job, Payload[x.job][m]) \in Key BY <2>1, JobKeys
    <3> QED BY <2>1, <3>1, DeliveredStays
  <2> QED BY <2>1, <2>2
<1>4. KeyOf(g)' = KeyOf(g) /\ Directive(g)' = Directive(g)
  BY DEF KeyOf, Directive, mutation_key
<1>5. ASSUME x.pc \in {"attach", "comment", "close", "succeed"}
      PROVE KeyOf(g) \in Key
  BY <1>5, OwnDirective DEF Call
<1>6. x.pc \in {"attach", "comment", "close"} =>
         /\ x.seen => comments'[KeyOf(g)] > 0
         /\ x.done => Directive(g).issue \in closed'
  BY <1>5 DEF HandlerProgress, Growth, TypeOK
<1>7. x.pc \in {"comment", "close"} =>
         <<Directive(g).issue, Directive(g).commit>> \in attached'
  BY DEF HandlerProgress, Growth
<1>8. x.pc = "close" => comments'[KeyOf(g)] > 0
  BY <1>5 DEF HandlerProgress, Growth, TypeOK
<1>9. x.pc = "succeed" => Delivered(KeyOf(g))'
  BY <1>4, <1>5, DeliveredStays DEF HandlerProgress
<1> QED
  BY <1>1, <1>2, <1>3, <1>4, <1>6, <1>7, <1>8, <1>9 DEF HandlerProgress

-----------------------------------------------------------------------------
(* Steps, by what they do to the handler                                   *)

\* Only h's local state changes.
LEMMA HandlerUpdate ==
  ASSUME TypeOK, NEW h \in Handler, NEW r, handler' = [handler EXCEPT ![h] = r]
  PROVE  handler'[h] = r /\ \A g \in Handler \ {h} : handler'[g] = handler[g]
BY DEF TypeOK

\* A new local state of the right type keeps the type of all.
LEMMA LocalTyped ==
  ASSUME TypeOK, NEW h \in Handler, NEW r \in Local, handler' = [handler EXCEPT ![h] = r]
  PROVE  handler' \in [Handler -> Local]
BY DEF TypeOK

\* An idle handler has a handler's type.
LEMMA IdleTyped == Idle \in Local
BY LinearAssumption DEF Idle, Local, Step, Verdict

\* The fields of a handler.
LEMMA LocalFields ==
  ASSUME TypeOK, NEW h \in Handler
  PROVE  /\ handler[h] \in Local
         /\ handler[h].pc \in Step /\ handler[h].job \in Job \cup {NULL}
         /\ handler[h].n \in Nat /\ handler[h].attempt \in 0..MaxRetries
         /\ handler[h].seen \in BOOLEAN /\ handler[h].done \in BOOLEAN
         /\ handler[h].verdict \in Verdict
BY DEF TypeOK, Local

\* Goto changes the step and starts a new count.
LEMMA GotoFields ==
  ASSUME TypeOK, NEW h \in Handler, NEW pc \in Step, handler' = Goto(h, pc)
  PROVE  /\ handler' \in [Handler -> Local]
         /\ \A g \in Handler \ {h} : handler'[g] = handler[g]
         /\ handler'[h].pc = pc /\ handler'[h].job = handler[h].job
         /\ handler'[h].n = handler[h].n
         /\ handler'[h].seen = handler[h].seen /\ handler'[h].done = handler[h].done
<1> DEFINE r(a) == [handler[h] EXCEPT !.pc = pc, !.attempt = a]
<1>1. handler' = [handler EXCEPT ![h] = r(0)]
  BY Zenon DEF Goto
<1>2. \A a \in 0..MaxRetries :
        /\ r(a) \in Local /\ r(a).pc = pc /\ r(a).job = handler[h].job
        /\ r(a).n = handler[h].n /\ r(a).seen = handler[h].seen /\ r(a).done = handler[h].done
  BY LocalFields DEF Local
<1>3. 0 \in 0..MaxRetries
  BY LinearAssumption
<1> HIDE DEF r
<1> QED BY <1>1, <1>2, <1>3, HandlerUpdate, LocalTyped

\* Fails moves h to the step that notes the failure, at the same directive.
LEMMA FailsFields ==
  ASSUME TypeOK, NEW h \in Handler, NEW verdict \in Verdict, Fails(h, verdict)
  PROVE  /\ handler' \in [Handler -> Local]
         /\ \A g \in Handler \ {h} : handler'[g] = handler[g]
         /\ handler'[h].pc = "fail" /\ handler'[h].job = handler[h].job
         /\ handler'[h].n = handler[h].n /\ handler'[h].verdict = verdict
<1> DEFINE r == [Idle EXCEPT !.pc = "fail", !.job = handler[h].job,
                             !.n = handler[h].n, !.verdict = verdict]
<1>1. handler' = [handler EXCEPT ![h] = r]
  BY DEF Fails
<1>2. r \in Local /\ r.pc = "fail" /\ r.job = handler[h].job /\ r.n = handler[h].n
      /\ r.verdict = verdict
  BY LocalFields, IdleTyped DEF Local, Idle, Step
<1> HIDE DEF r
<1> QED BY <1>1, <1>2, HandlerUpdate, LocalTyped

\* Returns moves h to the completion of its job.
LEMMA ReturnsFields ==
  ASSUME TypeOK, NEW h \in Handler, NEW verdict \in Verdict, Returns(h, verdict)
  PROVE  /\ handler' \in [Handler -> Local]
         /\ \A g \in Handler \ {h} : handler'[g] = handler[g]
         /\ handler'[h].pc = "complete" /\ handler'[h].job = handler[h].job
         /\ handler'[h].verdict = verdict
<1> DEFINE r == [Idle EXCEPT !.pc = "complete", !.job = handler[h].job, !.verdict = verdict]
<1>1. handler' = [handler EXCEPT ![h] = r]
  BY DEF Returns
<1>2. r \in Local /\ r.pc = "complete" /\ r.job = handler[h].job /\ r.verdict = verdict
  BY LocalFields, IdleTyped DEF Local, Idle, Step
<1> HIDE DEF r
<1> QED BY <1>1, <1>2, HandlerUpdate, LocalTyped

\* NextDirective moves h to the ledger check of the next directive.
LEMMA NextDirectiveFields ==
  ASSUME TypeOK, NEW h \in Handler, handler' = NextDirective(h)
  PROVE  /\ handler' \in [Handler -> Local]
         /\ \A g \in Handler \ {h} : handler'[g] = handler[g]
         /\ handler'[h].pc = "check" /\ handler'[h].job = handler[h].job
         /\ handler'[h].n = handler[h].n + 1
<1> DEFINE r(n) == [Idle EXCEPT !.pc = "check", !.job = handler[h].job, !.n = n]
<1>1. handler' = [handler EXCEPT ![h] = r(handler[h].n + 1)]
  BY Zenon DEF NextDirective
<1>2. \A n \in Nat : r(n) \in Local /\ r(n).pc = "check" /\ r(n).job = handler[h].job /\ r(n).n = n
  BY LocalFields, IdleTyped DEF Local, Idle, Step
<1>3. handler[h].n + 1 \in Nat
  BY LocalFields
<1> HIDE DEF r
<1>4. /\ r(handler[h].n + 1) \in Local /\ r(handler[h].n + 1).pc = "check"
      /\ r(handler[h].n + 1).job = handler[h].job /\ r(handler[h].n + 1).n = handler[h].n + 1
  BY <1>2, <1>3, Zenon
<1>5. handler'[h] = r(handler[h].n + 1) /\ \A g \in Handler \ {h} : handler'[g] = handler[g]
  BY <1>1, HandlerUpdate, Zenon
<1>6. handler' \in [Handler -> Local]
  BY <1>1, <1>4, LocalTyped, Zenon
<1> QED BY <1>4, <1>5, <1>6, Zenon

\* A retry only counts, or fails.
LEMMA RetryFields ==
  ASSUME TypeOK, NEW h \in Handler, NEW verdict \in Verdict, Retry(h, verdict)
  PROVE  /\ handler' \in [Handler -> Local]
         /\ \A g \in Handler \ {h} : handler'[g] = handler[g]
         /\ handler'[h].job = handler[h].job /\ handler'[h].n = handler[h].n
         /\ \/ /\ handler'[h].pc = handler[h].pc
               /\ handler'[h].seen = handler[h].seen /\ handler'[h].done = handler[h].done
            \/ handler'[h].pc = "fail" /\ handler'[h].verdict = verdict
<1>1. CASE handler[h].attempt < MaxRetries
  <2> DEFINE r(a) == [handler[h] EXCEPT !.attempt = a]
  <2>1. handler' = [handler EXCEPT ![h] = r(handler[h].attempt + 1)]
    BY <1>1, Zenon DEF Retry
  <2>2. \A a \in 0..MaxRetries :
          /\ r(a) \in Local /\ r(a).pc = handler[h].pc /\ r(a).job = handler[h].job
          /\ r(a).n = handler[h].n /\ r(a).seen = handler[h].seen /\ r(a).done = handler[h].done
    BY LocalFields DEF Local
  <2>3. handler[h].attempt + 1 \in 0..MaxRetries
    BY <1>1, LocalFields, LinearAssumption
  <2> HIDE DEF r
  <2> QED BY <2>1, <2>2, <2>3, HandlerUpdate, LocalTyped
<1>2. CASE ~(handler[h].attempt < MaxRetries)
  <2>1. Fails(h, verdict) BY <1>2 DEF Retry
  <2> QED BY <2>1, FailsFields
<1> QED BY <1>1, <1>2

-----------------------------------------------------------------------------
(* The invariant, by what a step changes                                   *)

\* The directives of j, all delivered.
JobDelivered(j) ==
  Payload[j] # NULL /\ \A n \in DOMAIN Payload[j] : Delivered(mutation_key(j, Payload[j][n]))

\* A job whose directives are delivered keeps them delivered.
LEMMA JobDeliveredStays ==
  ASSUME TypeOK, TypeOK', Growth, NEW j \in Job, JobDelivered(j)
  PROVE  JobDelivered(j)'
<1>1. ASSUME NEW n \in DOMAIN Payload[j]
      PROVE  Delivered(mutation_key(j, Payload[j][n]))'
  <2>1. mutation_key(j, Payload[j][n]) \in Key
    BY JobKeys DEF JobDelivered
  <2> QED BY <2>1, DeliveredStays DEF JobDelivered
<1> QED BY <1>1 DEF JobDelivered

\* A step of one handler keeps the facts about deliveries if it keeps them for
\* the rows it writes and for itself.
LEMMA DeliveriesKept ==
  ASSUME IInv, TypeOK', Growth, NEW h \in Handler, HandlerProgress(h)',
         \A g \in Handler \ {h} : handler'[g] = handler[g],
         \A k \in Key : ledger'[k] = "succeeded" => ledger[k] = "succeeded" \/ Delivered(k)',
         \A j \in Job : jobs'[j].status = "succeeded" =>
                          jobs[j].status = "succeeded" \/ JobDelivered(j)
  PROVE  LedgerIsTrue' /\ SucceededIsDelivered' /\ Progress'
<1> USE DEF IInv
<1>1. LedgerIsTrue'
  BY DeliveredStays DEF LedgerIsTrue
<1>2. ASSUME NEW j \in Job, jobs'[j].status = "succeeded"
      PROVE  JobDelivered(j)'
  <2>1. JobDelivered(j)
    BY <1>2 DEF SucceededIsDelivered, JobDelivered
  <2> QED BY <2>1, JobDeliveredStays
<1>3. SucceededIsDelivered'
  BY <1>2 DEF SucceededIsDelivered, JobDelivered
<1>4. ASSUME NEW g \in Handler PROVE HandlerProgress(g)'
  <2>1. CASE g = h BY <2>1
  <2>2. CASE g # h BY <2>2, OthersProgress DEF Progress
  <2> QED BY <2>1, <2>2
<1> QED BY <1>1, <1>3, <1>4 DEF Progress

\* Steps after which no more comments are posted, on the wire or decided than
\* before keep the marker protocol.
LEMMA MarkerKept ==
  ASSUME TypeOK, TypeOK', MarkerProtocol, missed \subseteq missed',
         \A k \in Key : comments'[k] + wire'[k] <= comments[k] + wire[k],
         \A g \in Handler, k \in Key : Committed(g, k)' => Committed(g, k)
  PROVE  MarkerProtocol'
<1> SUFFICES ASSUME NEW k \in Key, k \notin missed'
             PROVE /\ comments'[k] + wire'[k] <= 1
                   /\ \A g, h \in Handler : Committed(g, k)' /\ Committed(h, k)' => g = h
                   /\ \A h \in Handler : Committed(h, k)' => comments'[k] + wire'[k] = 0
  BY DEF MarkerProtocol
<1>1. /\ comments[k] + wire[k] <= 1
      /\ \A g, h \in Handler : Committed(g, k) /\ Committed(h, k) => g = h
      /\ \A h \in Handler : Committed(h, k) => comments[k] + wire[k] = 0
  BY DEF MarkerProtocol
<1>2. /\ comments[k] \in Nat /\ wire[k] \in Nat
      /\ comments'[k] \in Nat /\ wire'[k] \in Nat
  BY DEF TypeOK
<1> QED BY <1>1, <1>2

\* So does the request of a handler that had decided to send it.
LEMMA MarkerSent ==
  ASSUME TypeOK, TypeOK', MarkerProtocol, missed' = missed,
         NEW h \in Handler, NEW c \in Key, Committed(h, c),
         comments'[c] + wire'[c] = comments[c] + wire[c] + 1,
         \A k \in Key \ {c} : comments'[k] + wire'[k] = comments[k] + wire[k],
         \A k \in Key : ~Committed(h, k)',
         \A g \in Handler \ {h}, k \in Key : Committed(g, k)' => Committed(g, k)
  PROVE  MarkerProtocol'
<1> SUFFICES ASSUME NEW k \in Key, k \notin missed'
             PROVE /\ comments'[k] + wire'[k] <= 1
                   /\ \A f, g \in Handler : Committed(f, k)' /\ Committed(g, k)' => f = g
                   /\ \A g \in Handler : Committed(g, k)' => comments'[k] + wire'[k] = 0
  BY DEF MarkerProtocol
<1>1. /\ comments[k] + wire[k] <= 1
      /\ \A f, g \in Handler : Committed(f, k) /\ Committed(g, k) => f = g
      /\ \A g \in Handler : Committed(g, k) => comments[k] + wire[k] = 0
  BY DEF MarkerProtocol
<1>2. /\ comments[k] \in Nat /\ wire[k] \in Nat
      /\ comments'[k] \in Nat /\ wire'[k] \in Nat
  BY DEF TypeOK
<1>3. CASE k = c BY <1>1, <1>2, <1>3
<1>4. CASE k # c BY <1>1, <1>2, <1>4
<1> QED BY <1>3, <1>4

\* A handler that does not move is committed as before.
LEMMA OthersCommitted ==
  ASSUME NEW g \in Handler, handler'[g] = handler[g], NEW k
  PROVE  Committed(g, k)' <=> Committed(g, k)
BY DEF Committed, KeyOf, Directive, mutation_key

\* Of one that moves it is enough that it is committed to what it was.
LEMMA MoverCommitted ==
  ASSUME NEW h \in Handler, NEW k, handler'[h].job = handler[h].job, handler'[h].n = handler[h].n,
         handler'[h].seen = handler[h].seen, handler[h].pc \in {"attach", "comment"}, Committed(h, k)'
  PROVE  Committed(h, k)
BY DEF Committed, KeyOf, Directive, mutation_key

-----------------------------------------------------------------------------
(* The handler's own steps                                                 *)

\* A step that changes only the handler and, with reason, the ledger.
LEMMA LocalStep ==
  ASSUME IInv, NEW h \in Handler,
         UNCHANGED <<jobs, comments, chatter, attached, closed, wire, missed>>,
         ledger' \in [Key -> {"absent", "pending", "succeeded", "failed"}],
         \A k \in Key : ledger'[k] = "succeeded" => ledger[k] = "succeeded" \/ Delivered(k),
         handler' \in [Handler -> Local],
         \A g \in Handler \ {h} : handler'[g] = handler[g],
         HandlerProgress(h)',
         \A k \in Key : Committed(h, k)' => Committed(h, k)
  PROVE  IInv'
<1> USE DEF IInv
<1>1. TypeOK'
  BY DEF TypeOK
<1>2. Growth
  BY DEF Growth, TypeOK
<1>3. \A k \in Key : Delivered(k) => Delivered(k)'
  BY <1>1, <1>2, DeliveredStays
<1>4. LedgerIsTrue' /\ SucceededIsDelivered' /\ Progress'
  BY <1>1, <1>2, <1>3, DeliveriesKept
<1>5. \A g \in Handler, k \in Key : Committed(g, k)' => Committed(g, k)
  BY OthersCommitted
<1>6. MarkerProtocol'
  BY <1>1, <1>5, MarkerKept DEF TypeOK
<1> QED BY <1>1, <1>4, <1>6

\* The directives before the n-th stay delivered.
LEMMA PrefixStays ==
  ASSUME TypeOK, TypeOK', Growth, NEW j \in Job, Payload[j] # NULL,
         NEW n \in 1..(Len(Payload[j]) + 1),
         \A m \in 1..(n - 1) : Delivered(mutation_key(j, Payload[j][m]))
  PROVE  \A m \in 1..(n - 1) : Delivered(mutation_key(j, Payload[j][m]))'
<1>1. Payload[j] \in Seq([issue: STRING, commit: STRING, closes: BOOLEAN])
  BY LinearAssumption
<1>2. SUFFICES ASSUME NEW m \in 1..(n - 1) PROVE Delivered(mutation_key(j, Payload[j][m]))'
  OBVIOUS
<1>3. m \in DOMAIN Payload[j]
  BY <1>1
<1>4. mutation_key(j, Payload[j][m]) \in Key
  BY <1>3, JobKeys
<1> QED BY <1>4, DeliveredStays

\* A handler that has failed or returned an error relies on little.
LEMMA FailedProgress ==
  ASSUME IInv, TypeOK', Growth, NEW h \in Handler, NEW verdict \in Verdict \ {"delivered"},
         handler[h].pc \in Call, Fails(h, verdict)
  PROVE  HandlerProgress(h)' /\ \A k \in Key : ~Committed(h, k)'
<1> USE DEF IInv
<1> DEFINE x == handler[h]
           y == handler'[h]
<1>1. y.pc = "fail" /\ y.job = x.job /\ y.n = x.n /\ y.verdict = verdict
  BY FailsFields
<1>2. /\ x.job \in Job /\ Payload[x.job] # NULL
      /\ x.n \in 1..(Len(Payload[x.job]) + 1) /\ x.n <= Len(Payload[x.job])
      /\ \A m \in 1..(x.n - 1) : Delivered(mutation_key(x.job, Payload[x.job][m]))
  BY DEF Progress, HandlerProgress, Call
<1>3. PICK j \in Job, n \in 1..(Len(Payload[x.job]) + 1) : j = x.job /\ n = x.n
  BY <1>2
<1>4. \A m \in 1..(n - 1) : Delivered(mutation_key(j, Payload[j][m]))'
  BY <1>2, <1>3, PrefixStays
<1>5. HandlerProgress(h)'
  BY <1>1, <1>2, <1>3, <1>4 DEF HandlerProgress
<1> QED BY <1>1, <1>5 DEF Committed

\* A handler that returns an error relies on nothing.
LEMMA ReturnedProgress ==
  ASSUME IInv, NEW h \in Handler, NEW verdict \in Verdict \ {"delivered"},
         handler[h].pc # "idle", Returns(h, verdict)
  PROVE  HandlerProgress(h)' /\ \A k \in Key : ~Committed(h, k)'
<1> USE DEF IInv
<1>1. /\ handler'[h].pc = "complete" /\ handler'[h].job = handler[h].job
      /\ handler'[h].verdict = verdict
  BY ReturnsFields
<1>2. handler[h].job \in Job
  BY DEF Progress, HandlerProgress
<1> QED BY <1>1, <1>2 DEF HandlerProgress, Committed

\* The ledger check skips a directive only when it is delivered.
LEMMA CheckLedgerStep ==
  ASSUME IInv, NEW h \in Handler, CheckLedger(h) PROVE IInv'
<1> USE DEF IInv
<1>1. /\ UNCHANGED <<jobs, ledger, comments, chatter, attached, closed, wire, missed>>
      /\ handler[h].pc = "check"
  BY DEF CheckLedger, linearVars
<1>2. PICK j \in Job : j = handler[h].job
  BY <1>1 DEF Progress, HandlerProgress
<1>3. Payload[j] # NULL /\ handler[h].n \in 1..(Len(Payload[j]) + 1)
  BY <1>1, <1>2 DEF Progress, HandlerProgress
<1>4. PICK n \in 1..(Len(Payload[j]) + 1) : n = handler[h].n
  BY <1>3
<1>5. \A m \in 1..(n - 1) : Delivered(mutation_key(j, Payload[j][m]))
  BY <1>1, <1>2, <1>4 DEF Progress, HandlerProgress
<1>6. Payload[j] \in Seq([issue: STRING, commit: STRING, closes: BOOLEAN])
  BY <1>3, LinearAssumption
<1>7. \A m : Delivered(mutation_key(j, Payload[j][m]))' <=> Delivered(mutation_key(j, Payload[j][m]))
  BY <1>1 DEF Delivered
<1>8. ledger' \in [Key -> {"absent", "pending", "succeeded", "failed"}]
  BY <1>1 DEF TypeOK
<1>9. CASE n > Len(Payload[j])
  <2>1. Returns(h, "delivered")
    BY <1>2, <1>4, <1>9 DEF CheckLedger
  <2>2. /\ handler' \in [Handler -> Local] /\ \A g \in Handler \ {h} : handler'[g] = handler[g]
        /\ handler'[h].pc = "complete" /\ handler'[h].job = j
    BY <1>2, <2>1, ReturnsFields DEF Verdict
  <2>3. \A m \in DOMAIN Payload[j] : m \in 1..(n - 1)
    BY <1>6, <1>9
  <2>4. \A m \in DOMAIN Payload[j] : Delivered(mutation_key(j, Payload[j][m]))'
    BY <1>5, <1>7, <2>3
  <2>5. HandlerProgress(h)'
    BY <1>3, <2>2, <2>4 DEF HandlerProgress
  <2> QED BY <1>1, <1>8, <2>2, <2>5, LocalStep DEF Committed
<1>10. CASE ~(n > Len(Payload[j])) /\ is_succeeded(KeyOf(h))
  <2>1. handler' = NextDirective(h)
    BY <1>2, <1>4, <1>10 DEF CheckLedger
  <2>2. /\ handler' \in [Handler -> Local] /\ \A g \in Handler \ {h} : handler'[g] = handler[g]
        /\ handler'[h].pc = "check" /\ handler'[h].job = j /\ handler'[h].n = n + 1
    BY <1>2, <1>4, <2>1, NextDirectiveFields
  <2>3. n \in DOMAIN Payload[j] /\ n + 1 \in 1..(Len(Payload[j]) + 1)
    BY <1>6, <1>10
  <2>4. KeyOf(h) = mutation_key(j, Payload[j][n]) /\ KeyOf(h) \in Key
    BY <1>2, <1>3, <1>4, <2>3, JobKeys DEF KeyOf, Directive
  <2>5. Delivered(mutation_key(j, Payload[j][n]))'
    BY <1>7, <1>10, <2>4 DEF is_succeeded, LedgerIsTrue
  <2>6. \A m \in 1..((n + 1) - 1) : m = n \/ m \in 1..(n - 1)
    BY <2>3
  <2>7. \A m \in 1..((n + 1) - 1) : Delivered(mutation_key(j, Payload[j][m]))'
    BY <1>5, <1>7, <2>5, <2>6
  <2>8. HandlerProgress(h)'
    BY <1>3, <2>2, <2>3, <2>7 DEF HandlerProgress
  <2> QED BY <1>1, <1>8, <2>2, <2>8, LocalStep DEF Committed
<1>11. CASE ~(n > Len(Payload[j])) /\ ~is_succeeded(KeyOf(h))
  <2>1. handler' = Goto(h, "begin")
    BY <1>2, <1>4, <1>11 DEF CheckLedger
  <2>2. /\ handler' \in [Handler -> Local] /\ \A g \in Handler \ {h} : handler'[g] = handler[g]
        /\ handler'[h].pc = "begin" /\ handler'[h].job = j /\ handler'[h].n = n
    BY <1>2, <1>4, <2>1, GotoFields DEF Step
  <2>3. n <= Len(Payload[j])
    BY <1>6, <1>11
  <2>4. HandlerProgress(h)'
    BY <1>3, <1>5, <1>7, <2>2, <2>3 DEF HandlerProgress
  <2> QED BY <1>1, <1>8, <2>2, <2>4, LocalStep DEF Committed
<1> QED BY <1>9, <1>10, <1>11

\* A handler that stays at its directive has to account for its new step only.
LEMMA MovedProgress ==
  ASSUME IInv, TypeOK', Growth, NEW h \in Handler,
         handler[h].pc \in {"begin", "succeed"} \cup Call,
         handler'[h].job = handler[h].job, handler'[h].n = handler[h].n,
         handler'[h].pc \in Call \cup {"succeed"},
         handler'[h].pc \in {"attach", "comment", "close"} =>
           /\ handler'[h].seen => comments'[KeyOf(h)] > 0
           /\ handler'[h].done => Directive(h).issue \in closed',
         handler'[h].pc \in {"comment", "close", "succeed"} =>
           <<Directive(h).issue, Directive(h).commit>> \in attached',
         handler'[h].pc = "comment" => ~handler'[h].seen,
         handler'[h].pc \in {"close", "succeed"} => comments'[KeyOf(h)] > 0,
         handler'[h].pc = "succeed" /\ Directive(h).closes => Directive(h).issue \in closed'
  PROVE  HandlerProgress(h)'
<1> USE DEF IInv
<1>1. /\ handler[h].job \in Job /\ Payload[handler[h].job] # NULL
      /\ handler[h].n \in 1..(Len(Payload[handler[h].job]) + 1)
      /\ handler[h].n <= Len(Payload[handler[h].job])
      /\ \A m \in 1..(handler[h].n - 1) :
           Delivered(mutation_key(handler[h].job, Payload[handler[h].job][m]))
  BY DEF Progress, HandlerProgress, Call
<1>2. PICK j \in Job, n \in 1..(Len(Payload[handler[h].job]) + 1) :
        j = handler[h].job /\ n = handler[h].n
  BY <1>1
<1>3. \A m \in 1..(n - 1) : Delivered(mutation_key(j, Payload[j][m]))'
  BY <1>1, <1>2, PrefixStays
<1>4. Directive(h)' = Directive(h) /\ KeyOf(h)' = KeyOf(h)
  BY DEF Directive, KeyOf, mutation_key
<1>5. KeyOf(h).directive = Directive(h)
  BY OwnDirective DEF Progress
<1>6. handler'[h].pc = "succeed" => Delivered(KeyOf(h))'
  BY <1>4, <1>5 DEF Delivered
<1> QED BY <1>1, <1>2, <1>3, <1>4, <1>6 DEF HandlerProgress, Call

\* Opening a ledger row claims nothing.
LEMMA BeginStep ==
  ASSUME IInv, NEW h \in Handler, Begin(h) PROVE IInv'
<1> USE DEF IInv
<1>1. /\ UNCHANGED <<jobs, comments, chatter, attached, closed, wire, missed>>
      /\ handler[h].pc = "begin" /\ handler' = Goto(h, "fetch")
      /\ ledger' = [ledger EXCEPT ![KeyOf(h)] = "pending"]
  BY DEF Begin, linearVars
<1>2. /\ handler' \in [Handler -> Local] /\ \A g \in Handler \ {h} : handler'[g] = handler[g]
      /\ handler'[h].pc = "fetch" /\ handler'[h].job = handler[h].job /\ handler'[h].n = handler[h].n
  BY <1>1, GotoFields DEF Step
<1>3. /\ ledger' \in [Key -> {"absent", "pending", "succeeded", "failed"}]
      /\ \A k \in Key : ledger'[k] = "succeeded" => ledger[k] = "succeeded"
  BY <1>1 DEF TypeOK
<1>4. TypeOK' /\ Growth
  BY <1>1, <1>2, <1>3 DEF TypeOK, Growth
<1>5. HandlerProgress(h)'
  BY <1>1, <1>2, <1>4, MovedProgress DEF Call
<1> QED BY <1>1, <1>2, <1>3, <1>5, LocalStep DEF Committed

\* A failed ledger statement may have been applied, and claims no more for it.
LEMMA LedgerFailsStep ==
  ASSUME IInv, NEW h \in Handler, LedgerFails(h) PROVE IInv'
<1> USE DEF IInv
<1>1. /\ UNCHANGED <<jobs, comments, chatter, attached, closed, wire, missed>>
      /\ handler[h].pc # "idle" /\ Returns(h, "retryable")
  BY DEF LedgerFails, linearVars
<1>2. /\ handler' \in [Handler -> Local] /\ \A g \in Handler \ {h} : handler'[g] = handler[g]
  BY <1>1, ReturnsFields DEF Verdict
<1>3. HandlerProgress(h)' /\ \A k \in Key : ~Committed(h, k)'
  BY <1>1, ReturnedProgress DEF Verdict
<1>4. handler[h].pc = "succeed" => Delivered(KeyOf(h))
  BY DEF Progress, HandlerProgress
<1>5. /\ ledger' \in [Key -> {"absent", "pending", "succeeded", "failed"}]
      /\ \A k \in Key : ledger'[k] = "succeeded" => ledger[k] = "succeeded" \/ Delivered(k)
  <2>1. CASE UNCHANGED ledger BY <2>1 DEF TypeOK
  <2>2. CASE ledger' = [ledger EXCEPT ![KeyOf(h)] = "pending"] BY <2>2 DEF TypeOK
  <2>3. CASE handler[h].pc = "succeed" /\ ledger' = [ledger EXCEPT ![KeyOf(h)] = "succeeded"]
    BY <1>4, <2>3 DEF TypeOK
  <2> QED BY <2>1, <2>2, <2>3 DEF LedgerFails
<1> QED BY <1>1, <1>2, <1>3, <1>5, LocalStep

\* Noting a failure claims nothing.
LEMMA NoteFailureStep ==
  ASSUME IInv, NEW h \in Handler, NoteFailure(h) PROVE IInv'
<1> USE DEF IInv
<1>1. /\ UNCHANGED <<jobs, comments, chatter, attached, closed, wire, missed>>
      /\ handler[h].pc = "fail" /\ Returns(h, handler[h].verdict)
      /\ ledger' \in {ledger, [ledger EXCEPT ![KeyOf(h)] = "failed"]}
  BY DEF NoteFailure, linearVars
<1>2. handler[h].verdict \in Verdict \ {"delivered"}
  BY <1>1, LocalFields DEF Progress, HandlerProgress
<1>3. /\ handler' \in [Handler -> Local] /\ \A g \in Handler \ {h} : handler'[g] = handler[g]
  BY <1>1, <1>2, ReturnsFields
<1>4. HandlerProgress(h)' /\ \A k \in Key : ~Committed(h, k)'
  BY <1>1, <1>2, ReturnedProgress
<1>5. /\ ledger' \in [Key -> {"absent", "pending", "succeeded", "failed"}]
      /\ \A k \in Key : ledger'[k] = "succeeded" => ledger[k] = "succeeded"
  BY <1>1 DEF TypeOK
<1> QED BY <1>1, <1>3, <1>4, <1>5, LocalStep

\* A row is marked succeeded by a handler whose directive is delivered.
LEMMA SucceedStep ==
  ASSUME IInv, NEW h \in Handler, Succeed(h) PROVE IInv'
<1> USE DEF IInv
<1>1. /\ UNCHANGED <<jobs, comments, chatter, attached, closed, wire, missed>>
      /\ handler[h].pc = "succeed" /\ handler' = NextDirective(h)
      /\ ledger' = [ledger EXCEPT ![KeyOf(h)] = "succeeded"]
  BY DEF Succeed, linearVars
<1>2. /\ handler[h].job \in Job /\ Payload[handler[h].job] # NULL
      /\ handler[h].n \in 1..(Len(Payload[handler[h].job]) + 1)
      /\ handler[h].n <= Len(Payload[handler[h].job])
      /\ \A m \in 1..(handler[h].n - 1) :
           Delivered(mutation_key(handler[h].job, Payload[handler[h].job][m]))
      /\ Delivered(KeyOf(h))
  BY <1>1 DEF Progress, HandlerProgress
<1>3. PICK j \in Job, n \in 1..(Len(Payload[handler[h].job]) + 1) :
        j = handler[h].job /\ n = handler[h].n
  BY <1>2
<1>4. Payload[j] # NULL /\ n <= Len(Payload[j]) /\ n \in 1..(Len(Payload[j]) + 1)
      /\ Payload[j] \in Seq([issue: STRING, commit: STRING, closes: BOOLEAN])
  BY <1>2, <1>3, LinearAssumption
<1>5. /\ handler' \in [Handler -> Local] /\ \A g \in Handler \ {h} : handler'[g] = handler[g]
      /\ handler'[h].pc = "check" /\ handler'[h].job = j /\ handler'[h].n = n + 1
  BY <1>1, <1>3, NextDirectiveFields
<1>6. /\ ledger' \in [Key -> {"absent", "pending", "succeeded", "failed"}]
      /\ \A k \in Key : ledger'[k] = "succeeded" => ledger[k] = "succeeded" \/ Delivered(k)
  BY <1>1, <1>2 DEF TypeOK
<1>7. \A m : Delivered(mutation_key(j, Payload[j][m]))' <=> Delivered(mutation_key(j, Payload[j][m]))
  BY <1>1 DEF Delivered
<1>8. Delivered(mutation_key(j, Payload[j][n]))
  BY <1>2, <1>3 DEF KeyOf, Directive
<1>9. n + 1 \in 1..(Len(Payload[j]) + 1) /\ \A m \in 1..((n + 1) - 1) : m = n \/ m \in 1..(n - 1)
  BY <1>4
<1>10. \A m \in 1..((n + 1) - 1) : Delivered(mutation_key(j, Payload[j][m]))'
  BY <1>2, <1>3, <1>7, <1>8, <1>9
<1>11. HandlerProgress(h)'
  BY <1>4, <1>5, <1>9, <1>10 DEF HandlerProgress
<1> QED BY <1>1, <1>5, <1>6, <1>11, LocalStep DEF Committed

\* A call that had no effect and is tried again or given up.
LEMMA RetryStep ==
  ASSUME IInv, NEW h \in Handler, handler[h].pc \in Call,
         NEW verdict \in Verdict \ {"delivered"}, Retry(h, verdict) \/ Fails(h, verdict),
         TypeOK', Growth
  PROVE  /\ \A g \in Handler \ {h} : handler'[g] = handler[g]
         /\ HandlerProgress(h)'
         /\ \A k \in Key : Committed(h, k)' => Committed(h, k)
         /\ handler'[h].pc = handler[h].pc \/ handler'[h].pc = "fail"
<1> USE DEF IInv
<1>1. CASE Fails(h, verdict)
  BY <1>1, FailedProgress, FailsFields
<1>2. CASE Retry(h, verdict) /\ handler[h].attempt < MaxRetries
  <2>1. handler' = [handler EXCEPT ![h] = [@ EXCEPT !.attempt = handler[h].attempt + 1]]
    BY <1>2 DEF Retry
  <2>2. handler'[h] = [handler[h] EXCEPT !.attempt = handler[h].attempt + 1]
    BY <2>1, HandlerUpdate, Zenon
  <2>3. /\ handler'[h].pc = handler[h].pc /\ handler'[h].job = handler[h].job
        /\ handler'[h].n = handler[h].n /\ handler'[h].seen = handler[h].seen
        /\ handler'[h].done = handler[h].done
    BY <2>2, LocalFields DEF Local
  <2>4. \A g \in Handler \ {h} : handler'[g] = handler[g]
    BY <1>2, RetryFields
  <2>5. \A k : Committed(h, k)' <=> Committed(h, k)
    BY <2>3 DEF Committed, KeyOf, Directive, mutation_key
  <2>6. KeyOf(h) \in Key
    BY OwnDirective DEF Progress
  <2>7. comments[KeyOf(h)] \in Nat /\ comments'[KeyOf(h)] \in Nat
        /\ comments'[KeyOf(h)] >= comments[KeyOf(h)]
    BY <2>6 DEF TypeOK, Growth
  <2>8. HandlerProgress(h)
    BY DEF Progress
  <2>9. /\ handler[h].pc \in {"attach", "comment", "close"} =>
           /\ handler[h].seen => comments'[KeyOf(h)] > 0
           /\ handler[h].done => Directive(h).issue \in closed'
        /\ handler[h].pc \in {"comment", "close"} =>
             <<Directive(h).issue, Directive(h).commit>> \in attached'
        /\ handler[h].pc = "comment" => ~handler[h].seen
        /\ handler[h].pc = "close" => comments'[KeyOf(h)] > 0
    BY <2>7, <2>8 DEF HandlerProgress, Growth
  <2>10. HandlerProgress(h)'
    BY <2>3, <2>9, MovedProgress DEF Call
  <2> QED BY <2>3, <2>4, <2>5, <2>10
<1>3. CASE Retry(h, verdict) /\ ~(handler[h].attempt < MaxRetries)
  <2>1. Fails(h, verdict) BY <1>3 DEF Retry
  <2> QED BY <2>1, FailedProgress, FailsFields
<1> QED BY <1>1, <1>2, <1>3

\* Rate limits change nothing at Linear.
LEMMA NoEffectStep ==
  ASSUME IInv, NEW h \in Handler, TooManyRequests(h) \/ GraphQLRateLimited(h)
  PROVE  IInv'
<1> USE DEF IInv
<1>1. /\ UNCHANGED <<jobs, ledger, comments, chatter, attached, closed, wire, missed>>
      /\ handler[h].pc \in Call
  BY DEF TooManyRequests, GraphQLRateLimited, linearVars
<1>2. PICK verdict \in Verdict \ {"delivered"} : Retry(h, verdict) \/ Fails(h, verdict)
  BY DEF TooManyRequests, GraphQLRateLimited, Verdict
<1>3. handler' \in [Handler -> Local]
  BY <1>2, RetryFields, FailsFields
<1>4. TypeOK' /\ Growth
  BY <1>1, <1>3 DEF TypeOK, Growth
<1>5. ledger' \in [Key -> {"absent", "pending", "succeeded", "failed"}]
  BY <1>4 DEF TypeOK
<1> QED BY <1>1, <1>2, <1>3, <1>4, <1>5, RetryStep, LocalStep

-----------------------------------------------------------------------------
(* Queue steps and the world outside                                       *)

\* A step that moves no handler and writes no ledger row.
LEMMA QuietKept ==
  ASSUME IInv, TypeOK', Growth, UNCHANGED <<ledger, handler>>,
         \A j \in Job : jobs'[j].status = "succeeded" => jobs[j].status = "succeeded"
  PROVE  LedgerIsTrue' /\ SucceededIsDelivered' /\ Progress'
<1> USE DEF IInv
<1>1. LedgerIsTrue'
  BY DeliveredStays DEF LedgerIsTrue
<1>2. ASSUME NEW j \in Job, jobs'[j].status = "succeeded"
      PROVE  JobDelivered(j)'
  <2>1. JobDelivered(j)
    BY <1>2 DEF SucceededIsDelivered, JobDelivered
  <2> QED BY <2>1, JobDeliveredStays
<1>3. SucceededIsDelivered'
  BY <1>2 DEF SucceededIsDelivered, JobDelivered
<1>4. Progress'
  BY OthersProgress DEF Progress
<1> QED BY <1>1, <1>3, <1>4

\* The fields of a job's row.
LEMMA RowFields ==
  ASSUME TypeOK, NEW j \in Job
  PROVE  /\ jobs[j] \in Row /\ jobs[j].attempts \in 0..MaxAttempts
         /\ jobs[j].claimed_by \in {WorkerOf[h] : h \in Handler} \cup {NULL}
         /\ jobs[j].last_error \in Verdict \cup {"expired", NULL}
BY DEF TypeOK, Row

\* A row with fields of the right types is a row.
LEMMA RowTyped ==
  ASSUME TypeOK, NEW j \in Job, NEW r \in Row, jobs' = [jobs EXCEPT ![j] = r]
  PROVE  jobs' \in [Job -> Row] /\ jobs'[j] = r /\ \A i \in Job \ {j} : jobs'[i] = jobs[i]
BY DEF TypeOK

\* An expired lease ends no job as succeeded and moves no handler.
LEMMA ExpireStep ==
  ASSUME IInv, NEW j \in Job, Expire(j) PROVE IInv'
<1> USE DEF IInv
<1>1. UNCHANGED <<ledger, handler, comments, chatter, attached, closed, wire, missed>>
  BY DEF Expire, linearVars
<1> DEFINE q == [jobs[j] EXCEPT !.status = "queued", !.claimed_by = NULL]
           f == [jobs[j] EXCEPT !.status = "failed", !.claimed_by = NULL,
                   !.last_error = IF jobs[j].last_error = NULL THEN "expired" ELSE jobs[j].last_error]
           r == IF jobs[j].attempts < MaxAttempts THEN q ELSE f
<1>2. jobs' = [jobs EXCEPT ![j] = r]
  BY Zenon DEF Expire
<1>3. q \in Row /\ q.status # "succeeded" /\ f \in Row /\ f.status # "succeeded"
  BY RowFields DEF Row
<1>4. r \in Row /\ r.status # "succeeded"
  BY <1>3, Zenon
<1> HIDE DEF r
<1>5. jobs' \in [Job -> Row] /\ \A i \in Job : jobs'[i].status = "succeeded" => jobs[i].status = "succeeded"
  BY <1>2, <1>4, RowTyped
<1>6. TypeOK' /\ Growth
  BY <1>1, <1>5 DEF TypeOK, Growth
<1>7. LedgerIsTrue' /\ SucceededIsDelivered' /\ Progress'
  BY <1>1, <1>5, <1>6, QuietKept
<1>8. \A g \in Handler, k \in Key : Committed(g, k)' => Committed(g, k)
  BY <1>1, OthersCommitted
<1>9. MarkerProtocol'
  BY <1>1, <1>6, <1>8, MarkerKept DEF TypeOK
<1> QED BY <1>6, <1>7, <1>9

\* A late comment arrives or is lost, or people comment.
LEMMA WorldStep ==
  ASSUME IInv, \/ \E k \in Key : Arrive(k) \/ Lose(k)
               \/ \E i \in Issue : Discuss(i)
  PROVE  IInv'
<1> USE DEF IInv
<1>1. UNCHANGED <<jobs, ledger, handler, attached, closed, missed>>
  BY DEF Arrive, Lose, Discuss
<1>2. /\ comments' \in [Key -> Nat] /\ wire' \in [Key -> Nat] /\ chatter' \in [Issue -> 0..MaxChatter]
      /\ \A k \in Key : comments'[k] >= comments[k]
      /\ \A k \in Key : comments'[k] + wire'[k] <= comments[k] + wire[k]
  <2>1. CASE \E k \in Key : Arrive(k)
    BY <2>1 DEF Arrive, TypeOK
  <2>2. CASE \E k \in Key : Lose(k)
    BY <2>2 DEF Lose, TypeOK
  <2>3. CASE \E i \in Issue : Discuss(i)
    BY <2>3, LinearAssumption DEF Discuss, TypeOK
  <2> QED BY <2>1, <2>2, <2>3
<1>3. TypeOK' /\ Growth
  BY <1>1, <1>2 DEF TypeOK, Growth
<1>4. LedgerIsTrue' /\ SucceededIsDelivered' /\ Progress'
  BY <1>1, <1>3, QuietKept
<1>5. \A g \in Handler, k \in Key : Committed(g, k)' => Committed(g, k)
  BY <1>1, OthersCommitted
<1>6. MarkerProtocol'
  BY <1>1, <1>2, <1>3, <1>5, MarkerKept
<1> QED BY <1>3, <1>4, <1>6

\* A claim starts a handler at the first directive or with a policy error.
LEMMA ClaimStep ==
  ASSUME IInv, NEW h \in Handler, NEW j \in Job, Claim(h, j) PROVE IInv'
<1> USE DEF IInv
<1>1. /\ UNCHANGED <<ledger, comments, chatter, attached, closed, wire, missed>>
      /\ jobs[j].attempts < MaxAttempts
  BY DEF Claim, linearVars
<1> DEFINE row(a) == [jobs[j] EXCEPT !.status = "running", !.attempts = a, !.claimed_by = WorkerOf[h]]
<1>2. jobs' = [jobs EXCEPT ![j] = row(jobs[j].attempts + 1)]
  BY Zenon DEF Claim
<1>3. \A a \in 0..MaxAttempts : row(a) \in Row /\ row(a).status = "running"
  BY RowFields DEF Row
<1>4. jobs[j].attempts + 1 \in 0..MaxAttempts
  BY <1>1, RowFields, LinearAssumption
<1> HIDE DEF row
<1>5. row(jobs[j].attempts + 1) \in Row /\ row(jobs[j].attempts + 1).status = "running"
  BY <1>3, <1>4, Zenon
<1>6. jobs' \in [Job -> Row] /\ \A i \in Job : jobs'[i].status = "succeeded" => jobs[i].status = "succeeded"
  BY <1>2, <1>5, RowTyped
<1> DEFINE bad == [Idle EXCEPT !.job = j, !.pc = "complete", !.verdict = "policy"]
           good == [Idle EXCEPT !.job = j, !.pc = "check"]
           r == IF from_job(j) THEN good ELSE bad
<1>7. handler' = [handler EXCEPT ![h] = r]
  BY Zenon DEF Claim
<1>8. /\ bad \in Local /\ bad.job = j /\ bad.pc = "complete" /\ bad.verdict = "policy"
      /\ good \in Local /\ good.job = j /\ good.pc = "check" /\ good.n = 1
  <2>1. /\ bad \in Local /\ bad.job = j /\ bad.pc = "complete" /\ bad.verdict = "policy"
        /\ good \in Local /\ good.job = j /\ good.pc = "check" /\ good.n = Idle.n
    BY IdleTyped DEF Local, Step, Verdict
  <2>2. Idle.n = 1
    BY DEF Idle
  <2> QED BY <2>1, <2>2
<1> HIDE DEF bad, good
<1>9. r \in Local
  BY <1>8
<1>10. /\ handler' \in [Handler -> Local] /\ \A g \in Handler \ {h} : handler'[g] = handler[g]
       /\ handler'[h] = r
  BY <1>7, <1>9, HandlerUpdate, LocalTyped
<1>11. TypeOK' /\ Growth
  BY <1>1, <1>6, <1>10 DEF TypeOK, Growth
<1>12. HandlerProgress(h)'
  <2>1. CASE ~from_job(j)
    <3>1. handler'[h].job = j /\ handler'[h].pc = "complete" /\ handler'[h].verdict = "policy"
      BY <1>8, <1>10, <2>1
    <3> QED BY <3>1 DEF HandlerProgress
  <2>2. CASE from_job(j)
    <3>1. handler'[h].job = j /\ handler'[h].pc = "check" /\ handler'[h].n = 1
      BY <1>8, <1>10, <2>2
    <3>2. Payload[j] # NULL /\ 1 \in 1..(Len(Payload[j]) + 1) /\ 1..(1 - 1) = {}
      BY <2>2, LinearAssumption DEF from_job
    <3> QED BY <3>1, <3>2 DEF HandlerProgress
  <2> QED BY <2>1, <2>2
<1>13. handler'[h].pc \in {"check", "complete"}
  BY <1>8, <1>10
<1>14. LedgerIsTrue' /\ SucceededIsDelivered' /\ Progress'
  BY <1>1, <1>6, <1>10, <1>11, <1>12, DeliveriesKept
<1>15. \A g \in Handler, k \in Key : Committed(g, k)' => Committed(g, k)
  <2> SUFFICES ASSUME NEW g \in Handler, NEW k \in Key, Committed(g, k)' PROVE Committed(g, k)
    OBVIOUS
  <2>1. CASE g = h BY <1>13, <2>1 DEF Committed
  <2>2. CASE g # h BY <1>10, <2>2, OthersCommitted
  <2> QED BY <2>1, <2>2
<1>16. MarkerProtocol'
  BY <1>1, <1>11, <1>15, MarkerKept DEF TypeOK
<1> QED BY <1>11, <1>14, <1>16

\* A job is completed as succeeded by a handler that delivered all of it.
LEMMA CompleteStep ==
  ASSUME IInv, NEW h \in Handler, Complete(h) PROVE IInv'
<1> USE DEF IInv
<1>1. /\ UNCHANGED <<ledger, comments, chatter, attached, closed, wire, missed>>
      /\ handler[h].pc = "complete" /\ handler' = [handler EXCEPT ![h] = Idle]
  BY DEF Complete, linearVars
<1>2. PICK j \in Job : j = handler[h].job
  BY <1>1 DEF Progress, HandlerProgress
<1> DEFINE verdict == handler[h].verdict
           status == Outcome(jobs[j], verdict)
           error == IF verdict = "delivered" THEN NULL ELSE verdict
           r == [jobs[j] EXCEPT !.status = status, !.claimed_by = NULL, !.last_error = error]
<1>3. jobs' = jobs \/ jobs' = [jobs EXCEPT ![j] = r]
  BY <1>2, Zenon DEF Complete
<1>4. status \in {"queued", "succeeded", "failed"} /\ (status = "succeeded" => verdict = "delivered")
  BY DEF Outcome
<1>5. error \in Verdict \cup {"expired", NULL}
  BY LocalFields
<1> HIDE DEF status, error
<1>6. r \in Row /\ r.status = status
  BY <1>4, <1>5, RowFields DEF Row
<1>7. JobDelivered(j) \/ verdict # "delivered"
  BY <1>1, <1>2 DEF Progress, HandlerProgress, JobDelivered
<1> HIDE DEF r, verdict
<1>8. jobs' \in [Job -> Row] /\ \A i \in Job : jobs'[i].status = "succeeded" =>
                                   jobs[i].status = "succeeded" \/ JobDelivered(i)
  <2>1. CASE jobs' = jobs BY <2>1 DEF TypeOK
  <2>2. CASE jobs' = [jobs EXCEPT ![j] = r]
    BY <1>4, <1>6, <1>7, <2>2, RowTyped
  <2> QED BY <1>3, <2>1, <2>2
<1>9. /\ handler' \in [Handler -> Local] /\ \A g \in Handler \ {h} : handler'[g] = handler[g]
      /\ handler'[h] = Idle /\ handler'[h].pc = "idle"
  BY <1>1, IdleTyped, HandlerUpdate, LocalTyped DEF Idle
<1>10. TypeOK' /\ Growth
  BY <1>1, <1>8, <1>9 DEF TypeOK, Growth
<1>11. HandlerProgress(h)'
  BY <1>9 DEF HandlerProgress
<1>12. LedgerIsTrue' /\ SucceededIsDelivered' /\ Progress'
  BY <1>1, <1>8, <1>9, <1>10, <1>11, DeliveriesKept
<1>13. \A g \in Handler, k \in Key : Committed(g, k)' => Committed(g, k)
  <2> SUFFICES ASSUME NEW g \in Handler, NEW k \in Key, Committed(g, k)' PROVE Committed(g, k)
    OBVIOUS
  <2>1. CASE g = h BY <1>9, <2>1 DEF Committed
  <2>2. CASE g # h BY <1>9, <2>2, OthersCommitted
  <2> QED BY <2>1, <2>2
<1>14. MarkerProtocol'
  BY <1>1, <1>10, <1>13, MarkerKept DEF TypeOK
<1> QED BY <1>10, <1>12, <1>14

-----------------------------------------------------------------------------
(* Answered calls                                                          *)

\* A fetch that commits h to a comment either finds no other one or is a miss.
LEMMA FetchStep ==
  ASSUME IInv, NEW h \in Handler, FetchAnswered(h) PROVE IInv'
<1> USE DEF IInv
<1>1. /\ UNCHANGED <<jobs, ledger, comments, chatter, attached, closed, wire>>
      /\ handler[h].pc = "fetch"
  BY DEF FetchAnswered, linearVars
<1>2. PICK k \in Key : k = KeyOf(h)
  BY <1>1, OwnDirective DEF Progress, Call
<1>3. ledger' \in [Key -> {"absent", "pending", "succeeded", "failed"}]
  BY <1>1 DEF TypeOK
<1>4. CASE validate_issue(Directive(h).issue)
  <2>1. PICK shown \in Shown(k) :
          /\ handler' = [handler EXCEPT ![h] =
               [@ EXCEPT !.pc = "attach", !.attempt = 0, !.seen = shown,
                         !.done = Directive(h).issue \in closed]]
          /\ missed' = IF /\ ~shown
                          /\ \/ comments[k] > 0 \/ wire[k] > 0
                             \/ \E g \in Handler \ {h} : Committed(g, k)
                       THEN missed \cup {k} ELSE missed
    BY <1>2, <1>4, Zenon DEF FetchAnswered
  <2>2. shown \in BOOLEAN /\ (shown => comments[k] > 0)
    BY <2>1, Zenon DEF Shown
  <2> DEFINE done == Directive(h).issue \in closed
             r(a) == [handler[h] EXCEPT !.pc = "attach", !.attempt = a, !.seen = shown, !.done = done]
  <2>3. handler' = [handler EXCEPT ![h] = r(0)]
    BY <2>1, Zenon
  <2>4. done \in BOOLEAN
    OBVIOUS
  <2> HIDE DEF done
  <2>5. \A a \in 0..MaxRetries :
          /\ r(a) \in Local /\ r(a).pc = "attach" /\ r(a).job = handler[h].job
          /\ r(a).n = handler[h].n /\ r(a).seen = shown /\ r(a).done = done
    BY <2>2, <2>4, LocalFields DEF Local, Step
  <2>6. 0 \in 0..MaxRetries
    BY LinearAssumption
  <2> HIDE DEF r
  <2>7. /\ handler' \in [Handler -> Local] /\ \A g \in Handler \ {h} : handler'[g] = handler[g]
        /\ handler'[h].pc = "attach" /\ handler'[h].job = handler[h].job
        /\ handler'[h].n = handler[h].n /\ handler'[h].seen = shown /\ handler'[h].done = done
    BY <2>3, <2>5, <2>6, HandlerUpdate, LocalTyped
  <2>8. TypeOK' /\ Growth
    BY <1>1, <2>1, <2>7 DEF TypeOK, Growth
  <2>9. HandlerProgress(h)'
    BY <1>1, <1>2, <2>2, <2>7, <2>8, MovedProgress DEF Call, done
  <2>10. LedgerIsTrue' /\ SucceededIsDelivered' /\ Progress'
    BY <1>1, <2>7, <2>8, <2>9, DeliveriesKept
  <2>11. \A c \in Key : Committed(h, c)' => c = k /\ ~shown
    BY <1>2, <2>7 DEF Committed, KeyOf, Directive, mutation_key
  <2>12. \A g \in Handler \ {h}, c \in Key : Committed(g, c)' => Committed(g, c)
    BY <2>7, OthersCommitted
  <2>13. ~shown /\ k \notin missed' =>
           comments[k] + wire[k] = 0 /\ \A g \in Handler \ {h} : ~Committed(g, k)
    BY <2>1 DEF TypeOK
  <2>14. MarkerProtocol'
    <3> SUFFICES ASSUME NEW c \in Key, c \notin missed'
                 PROVE /\ comments'[c] + wire'[c] <= 1
                       /\ \A f, g \in Handler : Committed(f, c)' /\ Committed(g, c)' => f = g
                       /\ \A g \in Handler : Committed(g, c)' => comments'[c] + wire'[c] = 0
      BY DEF MarkerProtocol
    <3>1. c \notin missed /\ comments'[c] = comments[c] /\ wire'[c] = wire[c]
      BY <1>1, <2>1
    <3>2. /\ comments[c] + wire[c] <= 1
          /\ \A f, g \in Handler : Committed(f, c) /\ Committed(g, c) => f = g
          /\ \A g \in Handler : Committed(g, c) => comments[c] + wire[c] = 0
      BY <3>1 DEF MarkerProtocol
    <3>3. CASE c = k /\ ~shown
      BY <2>12, <2>13, <3>1, <3>2, <3>3
    <3>4. CASE ~(c = k /\ ~shown)
      BY <2>11, <2>12, <3>1, <3>2, <3>4
    <3> QED BY <3>3, <3>4
  <2> QED BY <2>8, <2>10, <2>14
<1>5. CASE ~validate_issue(Directive(h).issue)
  <2>1. Fails(h, "policy") /\ missed' = missed
    BY <1>5 DEF FetchAnswered
  <2>2. handler' \in [Handler -> Local] /\ \A g \in Handler \ {h} : handler'[g] = handler[g]
    BY <2>1, FailsFields DEF Verdict
  <2>3. TypeOK' /\ Growth
    BY <1>1, <2>1, <2>2 DEF TypeOK, Growth
  <2>4. HandlerProgress(h)' /\ \A c \in Key : ~Committed(h, c)'
    BY <1>1, <2>1, <2>3, FailedProgress DEF Call, Verdict
  <2> QED BY <1>1, <1>3, <2>1, <2>2, <2>4, LocalStep
<1> QED BY <1>4, <1>5

\* Where a handler goes after the comment, once attachment and comment are there.
LEMMA AfterCommentFields ==
  ASSUME IInv, NEW h \in Handler, handler[h].pc \in {"attach", "comment"}, AfterComment(h),
         TypeOK', Growth,
         <<Directive(h).issue, Directive(h).commit>> \in attached', comments'[KeyOf(h)] > 0
  PROVE  HandlerProgress(h)' /\ \A k \in Key : ~Committed(h, k)'
<1> USE DEF IInv
<1>1. CASE Directive(h).closes /\ ~handler[h].done /\ ~CanClose
  <2>1. Fails(h, "policy") BY <1>1, LinearAssumption DEF AfterComment
  <2> QED BY <2>1, FailedProgress DEF Call, Verdict
<1>2. CASE Directive(h).closes /\ ~handler[h].done /\ CanClose
  <2>1. handler' = Goto(h, "close") BY <1>2 DEF AfterComment
  <2>2. /\ handler'[h].pc = "close" /\ handler'[h].job = handler[h].job /\ handler'[h].n = handler[h].n
        /\ handler'[h].seen = handler[h].seen /\ handler'[h].done = handler[h].done
    BY <2>1, GotoFields DEF Step
  <2>3. HandlerProgress(h)'
    BY <1>2, <2>2, MovedProgress DEF Call
  <2> QED BY <2>2, <2>3 DEF Committed
<1>3. CASE ~(Directive(h).closes /\ ~handler[h].done)
  <2>1. handler' = Goto(h, "succeed") BY <1>3 DEF AfterComment
  <2>2. /\ handler'[h].pc = "succeed" /\ handler'[h].job = handler[h].job /\ handler'[h].n = handler[h].n
    BY <2>1, GotoFields DEF Step
  <2>3. Directive(h).closes => Directive(h).issue \in closed'
    BY <1>3 DEF Progress, HandlerProgress, Growth
  <2>4. HandlerProgress(h)'
    BY <2>2, <2>3, MovedProgress DEF Call
  <2> QED BY <2>2, <2>4 DEF Committed
<1> QED BY <1>1, <1>2, <1>3

\* AfterComment keeps the type of the handlers.
LEMMA AfterCommentTyped ==
  ASSUME TypeOK, NEW h \in Handler, AfterComment(h)
  PROVE  handler' \in [Handler -> Local] /\ \A g \in Handler \ {h} : handler'[g] = handler[g]
<1>1. Fails(h, "policy") \/ handler' = Goto(h, "close") \/ handler' = Goto(h, "succeed")
  BY DEF AfterComment
<1> QED BY <1>1, FailsFields, GotoFields DEF Verdict, Step

\* The attachment is there before the handler goes on.
LEMMA AttachStep ==
  ASSUME IInv, NEW h \in Handler, AttachAnswered(h) PROVE IInv'
<1> USE DEF IInv
<1>1. /\ UNCHANGED <<jobs, ledger, comments, chatter, closed, wire, missed>>
      /\ handler[h].pc = "attach" /\ AfterAttachment(h)
      /\ attached' = attached \cup {<<Directive(h).issue, Directive(h).commit>>}
  BY DEF AttachAnswered, Attach
<1>2. /\ Directive(h).issue \in Issue /\ Directive(h).commit \in STRING /\ KeyOf(h) \in Key
  BY <1>1, OwnDirective DEF Progress, Call
<1>3. CASE handler[h].seen
  <2>1. AfterComment(h) BY <1>1, <1>3 DEF AfterAttachment
  <2>2. handler' \in [Handler -> Local] /\ \A g \in Handler \ {h} : handler'[g] = handler[g]
    BY <2>1, AfterCommentTyped
  <2>3. TypeOK' /\ Growth
    BY <1>1, <1>2, <2>2 DEF TypeOK, Growth
  <2>4. comments'[KeyOf(h)] > 0
    BY <1>1, <1>3 DEF Progress, HandlerProgress
  <2>5. HandlerProgress(h)' /\ \A k \in Key : ~Committed(h, k)'
    BY <1>1, <2>1, <2>3, <2>4, AfterCommentFields
  <2>6. LedgerIsTrue' /\ SucceededIsDelivered' /\ Progress'
    BY <1>1, <2>2, <2>3, <2>5, DeliveriesKept
  <2>7. \A g \in Handler, k \in Key : Committed(g, k)' => Committed(g, k)
    BY <2>2, <2>5, OthersCommitted
  <2>8. MarkerProtocol'
    BY <1>1, <2>3, <2>7, MarkerKept DEF TypeOK
  <2> QED BY <2>3, <2>6, <2>8
<1>4. CASE ~handler[h].seen
  <2>1. handler' = Goto(h, "comment") BY <1>1, <1>4 DEF AfterAttachment
  <2>2. /\ handler' \in [Handler -> Local] /\ \A g \in Handler \ {h} : handler'[g] = handler[g]
        /\ handler'[h].pc = "comment" /\ handler'[h].job = handler[h].job /\ handler'[h].n = handler[h].n
        /\ handler'[h].seen = handler[h].seen /\ handler'[h].done = handler[h].done
    BY <2>1, GotoFields DEF Step
  <2>3. TypeOK' /\ Growth
    BY <1>1, <1>2, <2>2 DEF TypeOK, Growth
  <2>4. handler[h].done => Directive(h).issue \in closed
    BY <1>1 DEF Progress, HandlerProgress
  <2>5. HandlerProgress(h)'
    BY <1>1, <1>4, <2>2, <2>3, <2>4, MovedProgress DEF Call
  <2>6. LedgerIsTrue' /\ SucceededIsDelivered' /\ Progress'
    BY <1>1, <2>2, <2>3, <2>5, DeliveriesKept
  <2>7. \A k \in Key : Committed(h, k)' => Committed(h, k)
    BY <1>1, <2>2, MoverCommitted
  <2>8. \A g \in Handler, k \in Key : Committed(g, k)' => Committed(g, k)
    BY <2>2, <2>7, OthersCommitted
  <2>9. MarkerProtocol'
    BY <1>1, <2>3, <2>8, MarkerKept DEF TypeOK
  <2> QED BY <2>3, <2>6, <2>9
<1> QED BY <1>3, <1>4

\* A posted comment ends the commitment of the handler that posted it.
LEMMA CommentStep ==
  ASSUME IInv, NEW h \in Handler, CommentAnswered(h) PROVE IInv'
<1> USE DEF IInv
<1>1. /\ UNCHANGED <<jobs, ledger, chatter, attached, closed, wire, missed>>
      /\ handler[h].pc = "comment" /\ AfterComment(h)
      /\ comments' = [comments EXCEPT ![KeyOf(h)] = @ + 1]
  BY DEF CommentAnswered
<1>2. PICK c \in Key : c = KeyOf(h)
  BY <1>1, OwnDirective DEF Progress, Call
<1>3. /\ comments' \in [Key -> Nat] /\ comments'[c] = comments[c] + 1 /\ comments[c] \in Nat
      /\ wire[c] \in Nat /\ \A k \in Key \ {c} : comments'[k] = comments[k]
  BY <1>1, <1>2 DEF TypeOK
<1>4. handler' \in [Handler -> Local] /\ \A g \in Handler \ {h} : handler'[g] = handler[g]
  BY <1>1, AfterCommentTyped
<1>5. TypeOK' /\ Growth
  <2>1. \A k \in Key : comments'[k] >= comments[k]
    BY <1>3 DEF TypeOK
  <2> QED BY <1>1, <1>3, <1>4, <2>1 DEF TypeOK, Growth
<1>6. <<Directive(h).issue, Directive(h).commit>> \in attached' /\ comments'[KeyOf(h)] > 0
  BY <1>1, <1>2, <1>3 DEF Progress, HandlerProgress
<1>7. HandlerProgress(h)' /\ \A k \in Key : ~Committed(h, k)'
  BY <1>1, <1>5, <1>6, AfterCommentFields
<1>8. LedgerIsTrue' /\ SucceededIsDelivered' /\ Progress'
  BY <1>1, <1>4, <1>5, <1>7, DeliveriesKept
<1>9. Committed(h, c)
  BY <1>1, <1>2 DEF Committed, Progress, HandlerProgress
<1>10. \A g \in Handler \ {h}, k \in Key : Committed(g, k)' => Committed(g, k)
  BY <1>4, OthersCommitted
<1>11. MarkerProtocol'
  BY <1>1, <1>3, <1>5, <1>7, <1>9, <1>10, MarkerSent
<1> QED BY <1>5, <1>8, <1>11

\* The issue is completed before the handler goes on.
LEMMA CloseStep ==
  ASSUME IInv, NEW h \in Handler, CloseAnswered(h) PROVE IInv'
<1> USE DEF IInv
<1>1. /\ UNCHANGED <<jobs, ledger, comments, chatter, attached, wire, missed>>
      /\ handler[h].pc = "close" /\ handler' = Goto(h, "succeed")
      /\ closed' = closed \cup {Directive(h).issue}
  BY DEF CloseAnswered, Close
<1>2. Directive(h).issue \in Issue
  BY <1>1, OwnDirective DEF Progress, Call
<1>3. /\ handler' \in [Handler -> Local] /\ \A g \in Handler \ {h} : handler'[g] = handler[g]
      /\ handler'[h].pc = "succeed" /\ handler'[h].job = handler[h].job /\ handler'[h].n = handler[h].n
  BY <1>1, GotoFields DEF Step
<1>4. TypeOK' /\ Growth
  BY <1>1, <1>2, <1>3 DEF TypeOK, Growth
<1>5. <<Directive(h).issue, Directive(h).commit>> \in attached' /\ comments'[KeyOf(h)] > 0
  BY <1>1 DEF Progress, HandlerProgress
<1>6. HandlerProgress(h)'
  BY <1>1, <1>3, <1>4, <1>5, MovedProgress DEF Call
<1>7. LedgerIsTrue' /\ SucceededIsDelivered' /\ Progress'
  BY <1>1, <1>3, <1>4, <1>6, DeliveriesKept
<1>8. \A g \in Handler, k \in Key : Committed(g, k)' => Committed(g, k)
  <2> SUFFICES ASSUME NEW g \in Handler, NEW k \in Key, Committed(g, k)' PROVE Committed(g, k)
    OBVIOUS
  <2>1. CASE g = h BY <1>3, <2>1 DEF Committed
  <2>2. CASE g # h BY <1>3, <2>2, OthersCommitted
  <2> QED BY <2>1, <2>2
<1>9. MarkerProtocol'
  BY <1>1, <1>4, <1>8, MarkerKept DEF TypeOK
<1> QED BY <1>4, <1>7, <1>9

-----------------------------------------------------------------------------
(* Calls without an answer                                                 *)

\* What a request without an answer may have done: something that grows the
\* world, and a comment goes on the wire only from the comment call.
LEMMA MaybeAppliedGrows ==
  ASSUME IInv, NEW h \in Handler, handler[h].pc \in Call, MaybeApplied(h)
  PROVE  /\ attached' \subseteq Issue \X STRING /\ closed' \subseteq Issue
         /\ attached \subseteq attached' /\ closed \subseteq closed'
         /\ UNCHANGED <<comments, chatter>>
         /\ wire' \in [Key -> Nat]
         /\ \/ wire' = wire
            \/ handler[h].pc = "comment" /\ wire' = [wire EXCEPT ![KeyOf(h)] = @ + 1]
<1> USE DEF IInv
<1>1. /\ Directive(h).issue \in Issue /\ Directive(h).commit \in STRING /\ KeyOf(h) \in Key
  BY OwnDirective DEF Progress
<1> QED BY <1>1 DEF MaybeApplied, Attach, Close, TypeOK

\* After such a call the handler retries, fails or is gone; the marker protocol
\* needs that after a comment it does not retry.
LEMMA NoAnswerKept ==
  ASSUME IInv, NEW h \in Handler, handler[h].pc \in Call, MaybeApplied(h),
         UNCHANGED <<jobs, ledger, missed>>,
         handler' \in [Handler -> Local], \A g \in Handler \ {h} : handler'[g] = handler[g],
         TypeOK' /\ Growth => HandlerProgress(h)' /\ \A k \in Key : Committed(h, k)' => Committed(h, k),
         handler[h].pc = "comment" => handler'[h].pc \in {"fail", "idle"}
  PROVE  IInv'
<1> USE DEF IInv
<1>1. /\ attached' \subseteq Issue \X STRING /\ closed' \subseteq Issue
      /\ attached \subseteq attached' /\ closed \subseteq closed'
      /\ UNCHANGED <<comments, chatter>> /\ wire' \in [Key -> Nat]
      /\ \/ wire' = wire
         \/ handler[h].pc = "comment" /\ wire' = [wire EXCEPT ![KeyOf(h)] = @ + 1]
  BY MaybeAppliedGrows
<1>2. TypeOK' /\ Growth
  BY <1>1 DEF TypeOK, Growth
<1>3. LedgerIsTrue' /\ SucceededIsDelivered' /\ Progress'
  BY <1>2, DeliveriesKept
<1>4. \A g \in Handler \ {h}, k \in Key : Committed(g, k)' => Committed(g, k)
  BY OthersCommitted
<1>5. MarkerProtocol'
  <2>1. CASE wire' = wire
    <3>1. \A g \in Handler, k \in Key : Committed(g, k)' => Committed(g, k)
      BY <1>2, <1>4
    <3> QED BY <1>1, <1>2, <2>1, <3>1, MarkerKept DEF TypeOK
  <2>2. CASE handler[h].pc = "comment" /\ wire' = [wire EXCEPT ![KeyOf(h)] = @ + 1]
    <3>1. PICK c \in Key : c = KeyOf(h)
      BY OwnDirective DEF Progress
    <3>2. /\ comments'[c] + wire'[c] = comments[c] + wire[c] + 1
          /\ \A k \in Key \ {c} : comments'[k] + wire'[k] = comments[k] + wire[k]
      BY <1>1, <2>2, <3>1 DEF TypeOK
    <3>3. Committed(h, c)
      BY <2>2, <3>1 DEF Committed, Progress, HandlerProgress
    <3>4. \A k \in Key : ~Committed(h, k)'
      BY <2>2 DEF Committed
    <3> QED BY <1>2, <1>4, <3>2, <3>3, <3>4, MarkerSent
  <2> QED BY <1>1, <2>1, <2>2
<1> QED BY <1>2, <1>3, <1>5

\* A call without a usable answer may have had its effect; a comment is not retried.
LEMMA NoAnswerStep ==
  ASSUME IInv, NEW h \in Handler, NoAnswer(h) \/ Unreadable(h) \/ Refused(h) PROVE IInv'
<1> USE DEF IInv
<1>1. handler[h].pc \in Call /\ MaybeApplied(h) /\ UNCHANGED <<jobs, ledger, missed>>
  BY DEF NoAnswer, Unreadable, Refused
<1>2. PICK verdict \in Verdict \ {"delivered"} :
        /\ Retry(h, verdict) \/ Fails(h, verdict)
        /\ handler[h].pc = "comment" => Fails(h, verdict)
  BY DEF NoAnswer, Unreadable, Refused, retry_ambiguous, Verdict
<1>3. handler' \in [Handler -> Local] /\ \A g \in Handler \ {h} : handler'[g] = handler[g]
  BY <1>1, <1>2, RetryFields, FailsFields
<1>4. TypeOK' /\ Growth => HandlerProgress(h)' /\ \A k \in Key : Committed(h, k)' => Committed(h, k)
  BY <1>1, <1>2, RetryStep
<1>5. handler[h].pc = "comment" => handler'[h].pc = "fail"
  BY <1>1, <1>2, FailsFields
<1> QED BY <1>1, <1>3, <1>4, <1>5, NoAnswerKept

\* A handler that dies leaves at most its last call behind.
LEMMA CrashStep ==
  ASSUME IInv, NEW h \in Handler, Crash(h) PROVE IInv'
<1> USE DEF IInv
<1>1. /\ handler' = [handler EXCEPT ![h] = Idle] /\ UNCHANGED <<jobs, ledger, missed>>
      /\ handler[h].pc \in Call => MaybeApplied(h)
      /\ handler[h].pc \notin Call => UNCHANGED <<comments, chatter, attached, closed, wire>>
  BY DEF Crash, linearVars
<1>2. /\ handler' \in [Handler -> Local] /\ \A g \in Handler \ {h} : handler'[g] = handler[g]
      /\ handler'[h].pc = "idle"
  BY <1>1, IdleTyped, HandlerUpdate, LocalTyped DEF Idle
<1>3. HandlerProgress(h)' /\ \A k \in Key : ~Committed(h, k)'
  BY <1>2 DEF HandlerProgress, Committed
<1>4. CASE handler[h].pc \in Call
  BY <1>1, <1>2, <1>3, <1>4, NoAnswerKept
<1>5. CASE handler[h].pc \notin Call
  <2>1. ledger' \in [Key -> {"absent", "pending", "succeeded", "failed"}]
    BY <1>1 DEF TypeOK
  <2> QED BY <1>1, <1>2, <1>3, <1>5, <2>1, LocalStep
<1> QED BY <1>4, <1>5

-----------------------------------------------------------------------------
(* The theorems                                                            *)

\* The initial state satisfies the invariant.
LEMMA InitIInv == Init => IInv
<1> SUFFICES ASSUME Init PROVE IInv
  OBVIOUS
<1>1. TypeOK
  <2>1. handler \in [Handler -> Local]
    BY IdleTyped DEF Init
  <2>2. jobs \in [Job -> Row]
    <3> DEFINE r(a) == [status |-> "queued", attempts |-> a, claimed_by |-> NULL, last_error |-> NULL]
    <3>1. \A a \in 0..MaxAttempts : r(a) \in Row
      BY DEF Row
    <3>2. 0 \in 0..MaxAttempts
      BY LinearAssumption
    <3>3. jobs = [j \in Job |-> r(0)]
      BY Zenon DEF Init
    <3> HIDE DEF r
    <3> QED BY <3>1, <3>2, <3>3
  <2> QED BY <2>1, <2>2, LinearAssumption DEF Init, TypeOK
<1>2. \A h \in Handler : handler[h].pc = "idle"
  BY DEF Init, Idle
<1>3. LedgerIsTrue /\ SucceededIsDelivered
  BY DEF Init, LedgerIsTrue, SucceededIsDelivered
<1>4. Progress
  BY <1>2 DEF Progress, HandlerProgress
<1>5. MarkerProtocol
  BY <1>2 DEF Init, MarkerProtocol, Committed
<1> QED BY <1>1, <1>3, <1>4, <1>5 DEF IInv

\* Every step preserves the invariant.
LEMMA NextIInv == IInv /\ [Next]_vars => IInv'
<1> SUFFICES ASSUME IInv, [Next]_vars PROVE IInv'
  OBVIOUS
<1>1. CASE \E h \in Handler, j \in Job : Claim(h, j)
  BY <1>1, ClaimStep
<1>2. CASE \E j \in Job : Expire(j)
  BY <1>2, ExpireStep
<1>3. ASSUME NEW h \in Handler, Work(h) PROVE IInv'
  <2>1. CASE CheckLedger(h) BY <2>1, CheckLedgerStep
  <2>2. CASE Begin(h) BY <2>2, BeginStep
  <2>3. CASE LedgerFails(h) BY <2>3, LedgerFailsStep
  <2>4. CASE Succeed(h) BY <2>4, SucceedStep
  <2>5. CASE NoteFailure(h) BY <2>5, NoteFailureStep
  <2>6. CASE FetchAnswered(h) BY <2>6, FetchStep
  <2>7. CASE AttachAnswered(h) BY <2>7, AttachStep
  <2>8. CASE CommentAnswered(h) BY <2>8, CommentStep
  <2>9. CASE CloseAnswered(h) BY <2>9, CloseStep
  <2>10. CASE TooManyRequests(h) \/ GraphQLRateLimited(h) BY <2>10, NoEffectStep
  <2>11. CASE NoAnswer(h) \/ Unreadable(h) \/ Refused(h) BY <2>11, NoAnswerStep
  <2>12. CASE Complete(h) BY <2>12, CompleteStep
  <2> QED BY <1>3, <2>1, <2>2, <2>3, <2>4, <2>5, <2>6, <2>7, <2>8, <2>9, <2>10, <2>11, <2>12 DEF Work
<1>4. CASE \E h \in Handler : Crash(h)
  BY <1>4, CrashStep
<1>5. CASE \/ \E k \in Key : Arrive(k) \/ Lose(k)
           \/ \E i \in Issue : Discuss(i)
  BY <1>5, WorldStep
<1>6. CASE UNCHANGED vars
  <2>1. UNCHANGED <<jobs, ledger, handler, comments, chatter, attached, closed, wire, missed>>
    BY <1>6 DEF vars
  <2>2. TypeOK' /\ Growth
    BY <2>1 DEF IInv, TypeOK, Growth
  <2>3. LedgerIsTrue' /\ SucceededIsDelivered' /\ Progress'
    BY <2>1, <2>2, QuietKept
  <2>4. \A g \in Handler, k \in Key : Committed(g, k)' => Committed(g, k)
    BY <2>1, OthersCommitted
  <2>5. MarkerProtocol'
    BY <2>1, <2>2, <2>4, MarkerKept DEF IInv, TypeOK
  <2> QED BY <2>2, <2>3, <2>5 DEF IInv
<1> QED BY <1>1, <1>2, <1>3, <1>4, <1>5, <1>6 DEF Next

\* The inductive invariant holds for any number of handlers and replicas.
THEOREM Invariance == Spec => []IInv
<1> QED BY InitIInv, NextIInv, PTL DEF Spec

\* Rows, counters and handlers keep their types: no call is tried more than
\* MaxRetries + 1 times and no job claimed more than MaxAttempts times.
THEOREM TypeCorrect == Spec => []TypeOK
<1>1. IInv => TypeOK BY DEF IInv
<1> QED BY <1>1, Invariance, PTL

\* A succeeded ledger row means that Linear has attachment, comment and state.
THEOREM LedgerTells == Spec => []LedgerIsTrue
<1>1. IInv => LedgerIsTrue BY DEF IInv
<1> QED BY <1>1, Invariance, PTL

\* A succeeded push job has all its directives delivered.
THEOREM SucceededTells == Spec => []SucceededIsDelivered
<1>1. IInv => SucceededIsDelivered BY DEF IInv
<1> QED BY <1>1, Invariance, PTL

\* A marker is posted twice only if a fetch missed a comment that was posted,
\* on the wire or about to be sent.
THEOREM DuplicateNeedsMiss == Spec => []DuplicateOnlyWhenMissed
<1>1. IInv => DuplicateOnlyWhenMissed
  <2> SUFFICES ASSUME IInv, NEW k \in Key, comments[k] > 1 PROVE k \in missed
    BY DEF DuplicateOnlyWhenMissed
  <2>1. comments[k] \in Nat /\ wire[k] \in Nat
    BY DEF IInv, TypeOK
  <2>2. k \notin missed => comments[k] + wire[k] <= 1
    BY DEF IInv, MarkerProtocol
  <2> QED BY <2>1, <2>2
<1> QED BY <1>1, Invariance, PTL
=============================================================================
