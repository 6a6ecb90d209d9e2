------------------------ MODULE DailyDeliveryProofs -------------------------
(***************************************************************************)
(* Proofs about DailyDelivery for every set of plans, workers, owner names *)
(* and clock readings and every counter width.                             *)
(***************************************************************************)
EXTENDS DailyDelivery, TLAPS

-----------------------------------------------------------------------------
(* What the operators on run records and leases produce                    *)

\* A transition changes the status and adds one to the generation.
LEMMA AdvanceFacts ==
  ASSUME NEW run \in RunRecord, NEW status \in DeliveryStatus
  PROVE  /\ Advance(run, status) \in RunRecord
         /\ Advance(run, status).status = status
         /\ Advance(run, status).generation = run.generation + 1
         /\ Advance(run, status).attempts = run.attempts
         /\ Advance(run, status).receipt = run.receipt
         /\ Advance(run, status).spec = run.spec
<1> DEFINE At(g) == [run EXCEPT !.status = status, !.generation = g]
<1>1. run.generation + 1 \in Nat
  BY DEF RunRecord
<1>2. \A g \in Nat : /\ At(g) \in RunRecord /\ At(g).status = status /\ At(g).generation = g
                     /\ At(g).attempts = run.attempts /\ At(g).receipt = run.receipt
                     /\ At(g).spec = run.spec
  BY DEF RunRecord
<1>3. Advance(run, status) = At(run.generation + 1)
  BY Zenon DEF Advance
<1> HIDE DEF At
<1>4. QED
  BY <1>1, <1>2, <1>3

\* A begun attempt also counts.
LEMMA StartedFacts ==
  ASSUME NEW run \in RunRecord
  PROVE  /\ Started(run) \in RunRecord
         /\ Started(run).status = "delivering"
         /\ Started(run).generation = run.generation + 1
         /\ Started(run).receipt = run.receipt /\ Started(run).spec = run.spec
<1> DEFINE a == Advance(run, "delivering")
           At(n) == [a EXCEPT !.attempts = n]
<1>1. /\ a \in RunRecord /\ a.status = "delivering" /\ a.generation = run.generation + 1
      /\ a.receipt = run.receipt /\ a.spec = run.spec
  BY AdvanceFacts DEF DeliveryStatus
<1> HIDE DEF a
<1>2. a.attempts + 1 \in Nat
  BY <1>1 DEF RunRecord
<1>3. \A n \in Nat : /\ At(n) \in RunRecord /\ At(n).status = a.status
                     /\ At(n).generation = a.generation /\ At(n).receipt = a.receipt
                     /\ At(n).spec = a.spec
  BY <1>1 DEF RunRecord
<1>4. Started(run) = At(a.attempts + 1)
  BY Zenon DEF Started, a
<1> HIDE DEF At
<1>5. QED
  BY <1>1, <1>2, <1>3, <1>4

\* A delivered run carries its receipt.
LEMMA DeliveredFacts ==
  ASSUME NEW run \in RunRecord, NEW r \in Receipt
  PROVE  /\ Delivered(run, r) \in RunRecord
         /\ Delivered(run, r).status = "delivered"
         /\ Delivered(run, r).generation = run.generation + 1
         /\ Delivered(run, r).receipt = r /\ Delivered(run, r).spec = run.spec
<1> DEFINE a == Advance(run, "delivered")
           d == [a EXCEPT !.receipt = r]
<1>1. a \in RunRecord /\ a.status = "delivered" /\ a.generation = run.generation + 1 /\ a.spec = run.spec
  BY AdvanceFacts DEF DeliveryStatus
<1> HIDE DEF a
<1>2. /\ d \in RunRecord /\ d.status = a.status /\ d.spec = a.spec
      /\ d.generation = a.generation /\ d.receipt = r
  BY <1>1 DEF RunRecord
<1>3. Delivered(run, r) = d
  BY DEF Delivered, a
<1> HIDE DEF d
<1>4. QED
  BY <1>1, <1>2, <1>3

\* A token that acquire hands out.
LEMMA TokenFacts ==
  ASSUME NEW k \in RunKey, NEW w \in Worker, NEW f \in Nat, NEW x \in Nat
  PROVE  /\ Token(k, w, f, x) \in LeaseToken /\ Token(k, w, f, x) # NULL
         /\ Token(k, w, f, x).run_key = k /\ Token(k, w, f, x).fence = f
BY DeliveryAssumption DEF Token, LeaseToken

\* Renewing keeps run, owner and fence.
LEMMA RenewFacts ==
  ASSUME NEW t \in LeaseToken, NEW x \in Nat
  PROVE  LET n == [t EXCEPT !.expires_at = x]
         IN n \in LeaseToken /\ n # NULL /\ n.run_key = t.run_key /\ n.fence = t.fence
<1>1. [t EXCEPT !.expires_at = x] \in LeaseToken
  BY DEF LeaseToken
<1>2. QED
  BY <1>1, DeliveryAssumption DEF LeaseToken

\* The baseline a receipt leaves is a baseline.
LEMMA BaselineOfType ==
  ASSUME NEW p \in Plan, NEW r \in Receipt
  PROVE  BaselineOf(p, r) \in ScheduledBaseline
BY DEF BaselineOf, ScheduledBaseline

\* A planned run has been sent zero times and has no receipt.
LEMMA NewRunFacts ==
  ASSUME NEW p \in Plan
  PROVE  /\ NewRun(p) \in RunRecord
         /\ NewRun(p).status = "planned" /\ NewRun(p).generation = 0 /\ NewRun(p).receipt = NULL
         /\ NewRun(p).spec = p
BY DEF NewRun, RunRecord, DeliveryStatus

Runs == [DOMAIN runs -> RunRecord]
Leases == [DOMAIN leases -> LeaseToken]

\* The run an active token is about exists.
LEMMA ActiveRun ==
  ASSUME TypeOK, NEW w \in Worker, held[w] # NULL, NEW now, require_active(held[w], now)
  PROVE  /\ held[w] \in LeaseToken
         /\ held[w].run_key \in DOMAIN leases /\ held[w].run_key \in DOMAIN runs
         /\ held[w].run_key \in RunKey
         /\ leases[held[w].run_key].fence = held[w].fence
         /\ runs[held[w].run_key] \in RunRecord
BY DEF TypeOK, require_active
-----------------------------------------------------------------------------
(* Type correctness                                                        *)

\* The empty machine is well typed.
LEMMA TypeInit == Init => TypeOK
BY CounterAssumption DEF Init, TypeOK

\* One run changes and its lease is dropped.
LEMMA TypeEndsLease ==
  ASSUME TypeOK, NEW k \in DOMAIN runs, NEW new \in RunRecord,
         runs' = [runs EXCEPT ![k] = new], leases' = WithoutLease(k),
         next_fence' = next_fence, held' = held, sends' = sends,
         scheduled_baseline' \in ScheduledBaseline \cup {NULL}
  PROVE  TypeOK'
<1>1. DOMAIN runs' = DOMAIN runs /\ runs' \in [DOMAIN runs' -> RunRecord]
  BY DEF TypeOK
<1>2. /\ DOMAIN leases' \subseteq DOMAIN leases
      /\ leases' \in [DOMAIN leases' -> LeaseToken]
  BY DEF TypeOK, WithoutLease
<1>3. QED
  BY <1>1, <1>2 DEF TypeOK

\* Every operation keeps the types and the width of the counters.
LEMMA TypeStep == TypeOK /\ [Next]_vars => TypeOK'
<1> SUFFICES ASSUME TypeOK, [Next]_vars
             PROVE  TypeOK'
  OBVIOUS
<1>1. ASSUME NEW p \in Plan, plan(p)
      PROVE  TypeOK'
  <2>1. p.run_key \in RunKey /\ NewRun(p) \in RunRecord
    BY NewRunFacts DEF RunKey
  <2>2. /\ DOMAIN runs' = DOMAIN runs \cup {p.run_key}
        /\ runs' \in [DOMAIN runs' -> RunRecord]
    BY <1>1, <2>1 DEF plan, TypeOK
  <2>3. QED
    BY <1>1, <2>1, <2>2 DEF plan, TypeOK
<1>2. ASSUME NEW w \in Worker, NEW k \in RunKey, NEW now \in Now, NEW ttl \in Ttl,
             acquire(w, k, now, ttl)
      PROVE  TypeOK'
  <2> DEFINE t == Token(k, w, next_fence + 1, now + ttl)
  <2>1. next_fence + 1 \in Nat /\ now + ttl \in Nat /\ next_fence + 1 \in 0..MaxCounter
    BY <1>2, DeliveryAssumption, CounterAssumption DEF TypeOK, acquire
  <2>2. t \in LeaseToken
    BY <2>1, TokenFacts
  <2>3. leases' = WithLease(k, t) /\ held' = [held EXCEPT ![w] = t]
    BY <1>2 DEF acquire
  <2> HIDE DEF t
  <2>4. /\ DOMAIN leases' = DOMAIN leases \cup {k}
        /\ leases' \in [DOMAIN leases' -> LeaseToken]
    BY <2>2, <2>3 DEF TypeOK, WithLease
  <2>5. held' \in [Worker -> LeaseToken \cup {NULL}]
    BY <2>2, <2>3 DEF TypeOK
  <2>6. QED
    BY <1>2, <2>1, <2>4, <2>5 DEF TypeOK, acquire
<1>3. ASSUME NEW w \in Worker, NEW now \in Now, NEW ttl \in Ttl, renew(w, now, ttl)
      PROVE  TypeOK'
  <2> DEFINE t == [held[w] EXCEPT !.expires_at = now + ttl]
             k == held[w].run_key
  <2>1. held[w] \in LeaseToken /\ k \in DOMAIN leases
    BY <1>3, ActiveRun DEF renew
  <2>2. now + ttl \in Nat
    BY DeliveryAssumption
  <2>3. t \in LeaseToken
    BY <2>1, <2>2, RenewFacts
  <2>4. leases' = WithLease(k, t) /\ held' = [held EXCEPT ![w] = t]
    BY <1>3 DEF renew
  <2> HIDE DEF t, k
  <2>5. DOMAIN leases' = DOMAIN leases /\ leases' \in [DOMAIN leases' -> LeaseToken]
    BY <2>1, <2>3, <2>4 DEF TypeOK, WithLease
  <2>6. held' \in [Worker -> LeaseToken \cup {NULL}]
    BY <2>3, <2>4 DEF TypeOK
  <2>7. QED
    BY <1>3, <2>5, <2>6 DEF TypeOK, renew
<1>4. ASSUME NEW w \in Worker, NEW now \in Now, release(w, now)
      PROVE  TypeOK'
  BY <1>4 DEF release, TypeOK, WithoutLease
<1>5. ASSUME NEW w \in Worker, NEW now \in Now, NEW g \in Generation, begin_delivery(w, now, g)
      PROVE  TypeOK'
  <2> DEFINE k == held[w].run_key
  <2>1. /\ held[w] \in LeaseToken /\ k \in DOMAIN runs /\ k \in RunKey
        /\ runs[k] \in RunRecord
    BY <1>5, ActiveRun DEF begin_delivery
  <2>2. g \in Nat /\ g + 1 \in Nat
    BY CounterAssumption DEF Generation
  <2>3. \A n \in Nat : [run |-> k, generation |-> n, worker |-> w, fence |-> held[w].fence] \in Send
    BY <2>1 DEF Send, LeaseToken
  <2>4. sends' \subseteq Send
    BY <1>5, <2>2, <2>3 DEF begin_delivery, Permit, TypeOK
  <2>5. DOMAIN runs' = DOMAIN runs /\ runs' \in [DOMAIN runs' -> RunRecord]
    BY <1>5, <2>1, StartedFacts DEF begin_delivery, TypeOK
  <2>6. QED
    BY <1>5, <2>4, <2>5 DEF begin_delivery, TypeOK
<1>6. ASSUME NEW w \in Worker, NEW now \in Now, NEW g \in Generation,
             NEW status \in {"failed", "ambiguous"}, MarkOutcome(w, now, g, status)
      PROVE  TypeOK'
  <2> DEFINE k == held[w].run_key
  <2>1. k \in DOMAIN runs /\ runs[k] \in RunRecord
    BY <1>6, ActiveRun DEF MarkOutcome
  <2>2. Advance(runs[k], status) \in RunRecord
    BY <2>1, AdvanceFacts DEF DeliveryStatus
  <2>3. QED
    BY <1>6, <2>1, <2>2, TypeEndsLease DEF MarkOutcome, TypeOK
<1>7. ASSUME NEW k \in RunKey, NEW now \in Now, recover_expired_delivery(k, now)
      PROVE  TypeOK'
  <2>1. k \in DOMAIN runs /\ runs[k] \in RunRecord
    BY <1>7 DEF recover_expired_delivery, TypeOK
  <2>2. Advance(runs[k], "ambiguous") \in RunRecord
    BY <2>1, AdvanceFacts DEF DeliveryStatus
  <2>3. QED
    BY <1>7, <2>1, <2>2, TypeEndsLease DEF recover_expired_delivery, TypeOK
<1>8. ASSUME NEW w \in Worker, NEW now \in Now, NEW g \in Generation, NEW r \in Receipt,
             record_receipt(w, now, g, r)
      PROVE  TypeOK'
  <2> DEFINE k == held[w].run_key
  <2>1. k \in DOMAIN runs /\ runs[k] \in RunRecord
    BY <1>8, ActiveRun DEF record_receipt
  <2>2. Delivered(runs[k], r) \in RunRecord
    BY <2>1, DeliveredFacts
  <2>3. BaselineOf(runs[k].spec, r) \in ScheduledBaseline
    BY <2>1, BaselineOfType DEF RunRecord
  <2>4. scheduled_baseline' \in ScheduledBaseline \cup {NULL}
    BY <1>8, <2>3 DEF record_receipt, TypeOK
  <2>5. QED
    BY <1>8, <2>1, <2>2, <2>4, TypeEndsLease DEF record_receipt
<1>9. ASSUME NEW w \in Worker, Restart(w)
      PROVE  TypeOK'
  BY <1>9 DEF Restart, TypeOK
<1>10. CASE UNCHANGED vars
  BY <1>10 DEF vars, TypeOK
<1>11. QED
  BY <1>1, <1>2, <1>3, <1>4, <1>5, <1>6, <1>7, <1>8, <1>9, <1>10
     DEF Next, mark_failed, mark_ambiguous

\* The machine's state is well typed in every reachable state, and no counter
\* passes its width.
THEOREM TypeCorrect == Spec => []TypeOK
BY TypeInit, TypeStep, PTL DEF Spec

-----------------------------------------------------------------------------
(* One sender per attempt                                                  *)

\* Nothing has been leased or sent at first.
LEMMA SendInit == Init => FencesIssued /\ InFlightLease /\ SingleSender
BY DEF Init, FencesIssued, InFlightLease, SingleSender

\* A run that is not in flight afterwards advances and drops its lease.
LEMMA SendEndsLease ==
  ASSUME IInv, NEW k \in DOMAIN runs, NEW new \in RunRecord,
         runs' = [runs EXCEPT ![k] = new], leases' = WithoutLease(k),
         new.status # "delivering", new.generation = runs[k].generation + 1,
         next_fence' = next_fence, held' = held, sends' = sends
  PROVE  FencesIssued' /\ InFlightLease' /\ SingleSender'
<1>1. /\ DOMAIN runs' = DOMAIN runs /\ runs'[k] = new
      /\ \A x \in DOMAIN runs : x # k => runs'[x] = runs[x]
  BY DEF IInv, TypeOK
<1>2. /\ DOMAIN leases' = DOMAIN leases \ {k}
      /\ \A x \in DOMAIN leases' : leases'[x] = leases[x]
  BY DEF WithoutLease
<1>3. \A s \in sends : s.generation <= runs'[s.run].generation
  <2> TAKE s \in sends
  <2>1. /\ s.run \in DOMAIN runs /\ s.generation <= runs[s.run].generation
        /\ s.generation \in Nat /\ runs[s.run].generation \in Nat
    BY DEF IInv, FencesIssued, TypeOK, Send, RunRecord
  <2>2. QED
    BY <1>1, <2>1
<1>4. FencesIssued'
  BY <1>1, <1>2, <1>3 DEF IInv, FencesIssued
<1>5. InFlightLease'
  BY <1>1, <1>2 DEF IInv, InFlightLease
<1>6. QED
  BY <1>4, <1>5 DEF IInv, SingleSender

\* acquire hands out a fence nobody has seen, and never for a run in flight.
LEMMA AcquireSend ==
  ASSUME IInv, NEW w \in Worker, NEW k \in RunKey, NEW now \in Now, NEW ttl \in Ttl,
         acquire(w, k, now, ttl)
  PROVE  FencesIssued' /\ InFlightLease' /\ SingleSender'
<1> DEFINE f == next_fence + 1
           t == Token(k, w, f, now + ttl)
<1>1. next_fence \in Nat /\ f \in Nat /\ now + ttl \in Nat
  BY DeliveryAssumption, CounterAssumption DEF IInv, TypeOK
<1>2. t.fence = f /\ t # NULL
  BY <1>1, TokenFacts
<1>3. /\ next_fence' = f /\ leases' = WithLease(k, t) /\ held' = [held EXCEPT ![w] = t]
      /\ runs' = runs /\ sends' = sends /\ runs[k].status # "delivering"
  BY DEF acquire
<1> HIDE DEF t
<1>4. /\ DOMAIN leases' = DOMAIN leases \cup {k} /\ leases'[k] = t
      /\ \A x \in DOMAIN leases : x # k => leases'[x] = leases[x]
  BY <1>3 DEF WithLease
<1>5. held'[w] = t /\ \A v \in Worker : v # w => held'[v] = held[v]
  BY <1>3 DEF IInv, TypeOK
<1>6. \A v \in Worker : held[v] # NULL => held[v].fence \in Nat /\ held[v].fence < f
  BY <1>1 DEF IInv, TypeOK, FencesIssued, LeaseToken
<1>7. \A s \in sends : s.fence \in Nat /\ s.fence < f
  BY <1>1 DEF IInv, TypeOK, FencesIssued, Send
<1>8. \A x \in DOMAIN leases : leases[x].fence \in Nat /\ leases[x].fence < f
  BY <1>1 DEF IInv, TypeOK, FencesIssued, LeaseToken
<1>9. FencesIssued'
  <2>1. \A x \in DOMAIN leases' : leases'[x].fence <= next_fence'
    BY <1>1, <1>2, <1>3, <1>4, <1>8
  <2>2. \A v \in Worker : held'[v] # NULL => held'[v].fence <= next_fence'
    BY <1>1, <1>2, <1>3, <1>5, <1>6
  <2>3. \A u, v \in Worker :
          held'[u] # NULL /\ held'[v] # NULL /\ held'[u].fence = held'[v].fence => u = v
    <3> SUFFICES ASSUME NEW u \in Worker, NEW v \in Worker, held'[u] # NULL, held'[v] # NULL,
                        held'[u].fence = held'[v].fence
                 PROVE  u = v
      OBVIOUS
    <3>1. CASE u = w /\ v # w
      BY <1>1, <1>2, <1>5, <1>6, <3>1
    <3>2. CASE u # w /\ v = w
      BY <1>1, <1>2, <1>5, <1>6, <3>2
    <3>3. CASE u # w /\ v # w
      BY <1>5, <3>3 DEF IInv, FencesIssued
    <3>4. QED
      BY <3>1, <3>2, <3>3
  <2>4. ASSUME NEW s \in sends
        PROVE  /\ s.run \in DOMAIN runs' /\ s.generation <= runs'[s.run].generation
               /\ s.fence <= next_fence'
               /\ \A v \in Worker : held'[v] # NULL /\ held'[v].fence = s.fence => v = s.worker
    <3>1. s.run \in DOMAIN runs' /\ s.generation <= runs'[s.run].generation
      BY <1>3 DEF IInv, FencesIssued
    <3>2. s.fence <= next_fence'
      BY <1>1, <1>3, <1>7
    <3>3. \A v \in Worker : held'[v] # NULL /\ held'[v].fence = s.fence => v = s.worker
      BY <1>1, <1>2, <1>5, <1>7 DEF IInv, FencesIssued
    <3>4. QED
      BY <3>1, <3>2, <3>3
  <2>5. QED
    BY <1>3, <2>1, <2>2, <2>3, <2>4 DEF FencesIssued
<1>10. InFlightLease'
  BY <1>3, <1>4 DEF IInv, InFlightLease
<1>11. QED
  BY <1>3, <1>9, <1>10 DEF IInv, SingleSender

\* renew changes no fence.
LEMMA RenewSend ==
  ASSUME IInv, NEW w \in Worker, NEW now \in Now, NEW ttl \in Ttl, renew(w, now, ttl)
  PROVE  FencesIssued' /\ InFlightLease' /\ SingleSender'
<1> DEFINE t == [held[w] EXCEPT !.expires_at = now + ttl]
           k == held[w].run_key
<1>1. /\ held[w] \in LeaseToken /\ held[w] # NULL /\ k \in DOMAIN leases
      /\ leases[k].fence = held[w].fence
  BY ActiveRun DEF renew, IInv
<1>2. now + ttl \in Nat
  BY DeliveryAssumption
<1>3. t.fence = held[w].fence
  BY <1>1, <1>2, RenewFacts
<1>4. /\ leases' = WithLease(k, t) /\ held' = [held EXCEPT ![w] = t]
      /\ next_fence' = next_fence /\ runs' = runs /\ sends' = sends
  BY DEF renew
<1> HIDE DEF t, k
<1>5. DOMAIN leases' = DOMAIN leases /\ \A x \in DOMAIN leases : leases'[x].fence = leases[x].fence
  BY <1>1, <1>3, <1>4 DEF WithLease
<1>6. \A v \in Worker : held'[v] # NULL => held[v] # NULL /\ held'[v].fence = held[v].fence
  BY <1>1, <1>3, <1>4 DEF IInv, TypeOK
<1>7. FencesIssued'
  BY <1>4, <1>5, <1>6 DEF IInv, FencesIssued
<1>8. InFlightLease'
  BY <1>4, <1>5 DEF IInv, InFlightLease
<1>9. QED
  BY <1>4, <1>7, <1>8 DEF IInv, SingleSender

\* begin_delivery: a first begin opens a generation that was never sent, and a
\* repeated one comes from the holder of the lease, who is the sender.
LEMMA BeginSend ==
  ASSUME IInv, NEW w \in Worker, NEW now \in Now, NEW g \in Generation, begin_delivery(w, now, g)
  PROVE  FencesIssued' /\ InFlightLease' /\ SingleSender'
<1> DEFINE k == held[w].run_key
           Grant(n) == [run |-> k, generation |-> n, worker |-> w, fence |-> held[w].fence]
<1>1. /\ held[w] \in LeaseToken /\ held[w] # NULL /\ k \in DOMAIN leases /\ k \in DOMAIN runs
      /\ leases[k].fence = held[w].fence /\ runs[k] \in RunRecord /\ runs[k].generation = g
      /\ next_fence' = next_fence /\ leases' = leases /\ held' = held
  BY ActiveRun DEF begin_delivery, IInv
<1>2. g \in Nat
  BY CounterAssumption DEF Generation
<1>3. \A n : /\ Grant(n).run = k /\ Grant(n).generation = n /\ Grant(n).worker = w
             /\ Grant(n).fence = held[w].fence
  OBVIOUS
<1>4. \A s \in sends : /\ s.run \in DOMAIN runs /\ s.generation <= runs[s.run].generation
                       /\ s.generation \in Nat /\ runs[s.run].generation \in Nat
  BY DEF IInv, FencesIssued, TypeOK, Send, RunRecord
<1>5. CASE runs' = [runs EXCEPT ![k] = Started(@)] /\ sends' = sends \cup {Grant(g + 1)}
  <2>1. /\ DOMAIN runs' = DOMAIN runs /\ runs'[k].generation = g + 1
        /\ \A x \in DOMAIN runs : x # k => runs'[x] = runs[x]
    BY <1>1, <1>5, StartedFacts DEF IInv, TypeOK
  <2> HIDE DEF k, Grant
  <2>2. \A s \in sends : s.generation <= runs'[s.run].generation
    <3> TAKE s \in sends
    <3>1. CASE s.run = k
      BY <1>1, <1>2, <1>4, <2>1, <3>1
    <3>2. CASE s.run # k
      BY <1>4, <2>1, <3>2
    <3>3. QED
      BY <3>1, <3>2
  <2>3. \A s \in sends : ~(s.run = k /\ s.generation = g + 1)
    BY <1>1, <1>2, <1>4
  <2>4. SingleSender'
    BY <1>3, <1>5, <2>3 DEF IInv, SingleSender
  <2>5. FencesIssued'
    <3>1. ASSUME NEW s \in sends
          PROVE  /\ s.run \in DOMAIN runs' /\ s.generation <= runs'[s.run].generation
                 /\ s.fence <= next_fence'
                 /\ \A v \in Worker : held'[v] # NULL /\ held'[v].fence = s.fence => v = s.worker
      BY <1>1, <1>4, <2>1, <2>2 DEF IInv, FencesIssued
    <3>2. LET s == Grant(g + 1)
          IN /\ s.run \in DOMAIN runs' /\ s.generation <= runs'[s.run].generation
             /\ s.fence <= next_fence'
             /\ \A v \in Worker : held'[v] # NULL /\ held'[v].fence = s.fence => v = s.worker
      BY <1>1, <1>2, <1>3, <2>1 DEF IInv, FencesIssued
    <3>3. QED
      BY <1>1, <1>5, <3>1, <3>2 DEF IInv, FencesIssued
  <2>6. InFlightLease'
    <3> SUFFICES ASSUME NEW x \in DOMAIN runs', runs'[x].status = "delivering"
                 PROVE  /\ x \in DOMAIN leases'
                        /\ \E s \in sends' : /\ s.run = x /\ s.generation = runs'[x].generation
                                             /\ s.fence = leases'[x].fence
      BY DEF InFlightLease
    <3>1. CASE x = k
      <4>1. Grant(g + 1) \in sends'
        BY <1>5
      <4>2. QED
        BY <1>1, <1>3, <2>1, <3>1, <4>1
    <3>2. CASE x # k
      <4>1. runs'[x] = runs[x] /\ x \in DOMAIN runs
        BY <2>1, <3>2
      <4>2. PICK s \in sends : /\ s.run = x /\ s.generation = runs[x].generation
                               /\ s.fence = leases[x].fence
        BY <4>1 DEF IInv, InFlightLease
      <4>3. x \in DOMAIN leases
        BY <4>1 DEF IInv, InFlightLease
      <4>4. QED
        BY <1>1, <1>5, <4>1, <4>2, <4>3
    <3>3. QED
      BY <3>1, <3>2
  <2>7. QED
    BY <2>4, <2>5, <2>6
<1>6. CASE runs[k].status = "delivering" /\ runs' = runs /\ sends' = sends \cup {Grant(g)}
  <2>1. PICK s \in sends : s.run = k /\ s.generation = g /\ s.fence = leases[k].fence
    BY <1>1, <1>6 DEF IInv, InFlightLease
  <2>2. s.worker = w
    BY <1>1, <2>1 DEF IInv, FencesIssued
  <2>3. s = Grant(g)
    BY <1>1, <2>1, <2>2 DEF IInv, TypeOK, Send
  <2>4. sends' = sends
    BY <1>6, <2>3
  <2>5. QED
    BY <1>1, <1>6, <2>4 DEF IInv, FencesIssued, InFlightLease, SingleSender
<1>7. QED
  BY <1>1, <1>5, <1>6 DEF begin_delivery, Permit

\* Every action keeps what SingleSender rests on.
LEMMA SendStep == IInv /\ [Next]_vars => FencesIssued' /\ InFlightLease' /\ SingleSender'
<1> SUFFICES ASSUME IInv, [Next]_vars
             PROVE  FencesIssued' /\ InFlightLease' /\ SingleSender'
  OBVIOUS
<1>0. TypeOK
  BY DEF IInv
<1>1. ASSUME NEW p \in Plan, plan(p)
      PROVE  FencesIssued' /\ InFlightLease' /\ SingleSender'
  <2>1. /\ DOMAIN runs' = DOMAIN runs \cup {p.run_key} /\ p.run_key \notin DOMAIN runs
        /\ runs'[p.run_key].status = "planned"
        /\ \A x \in DOMAIN runs : runs'[x] = runs[x]
        /\ UNCHANGED <<next_fence, leases, held, sends>>
    BY <1>1, NewRunFacts DEF plan
  <2>2. QED
    BY <2>1 DEF IInv, FencesIssued, InFlightLease, SingleSender
<1>2. ASSUME NEW w \in Worker, NEW k \in RunKey, NEW now \in Now, NEW ttl \in Ttl,
             acquire(w, k, now, ttl)
      PROVE  FencesIssued' /\ InFlightLease' /\ SingleSender'
  BY <1>2, AcquireSend
<1>3. ASSUME NEW w \in Worker, NEW now \in Now, NEW ttl \in Ttl, renew(w, now, ttl)
      PROVE  FencesIssued' /\ InFlightLease' /\ SingleSender'
  BY <1>3, RenewSend
<1>4. ASSUME NEW w \in Worker, NEW now \in Now, release(w, now)
      PROVE  FencesIssued' /\ InFlightLease' /\ SingleSender'
  <2>1. /\ DOMAIN leases' = DOMAIN leases \ {held[w].run_key}
        /\ \A x \in DOMAIN leases' : leases'[x] = leases[x]
        /\ runs[held[w].run_key].status # "delivering"
        /\ UNCHANGED <<next_fence, runs, held, sends>>
    BY <1>4 DEF release, WithoutLease
  <2>2. FencesIssued' /\ SingleSender'
    BY <2>1 DEF IInv, FencesIssued, SingleSender
  <2>3. InFlightLease'
    BY <2>1 DEF IInv, InFlightLease
  <2>4. QED
    BY <2>2, <2>3
<1>5. ASSUME NEW w \in Worker, NEW now \in Now, NEW g \in Generation, begin_delivery(w, now, g)
      PROVE  FencesIssued' /\ InFlightLease' /\ SingleSender'
  BY <1>5, BeginSend
<1>6. ASSUME NEW w \in Worker, NEW now \in Now, NEW g \in Generation,
             NEW status \in {"failed", "ambiguous"}, MarkOutcome(w, now, g, status)
      PROVE  FencesIssued' /\ InFlightLease' /\ SingleSender'
  <2> DEFINE k == held[w].run_key
             new == Advance(runs[k], status)
  <2>1. k \in DOMAIN runs /\ runs[k] \in RunRecord
    BY <1>0, <1>6, ActiveRun DEF MarkOutcome
  <2>2. new \in RunRecord /\ new.status # "delivering" /\ new.generation = runs[k].generation + 1
    BY <2>1, AdvanceFacts DEF DeliveryStatus
  <2>3. /\ runs' = [runs EXCEPT ![k] = new] /\ leases' = WithoutLease(k)
        /\ UNCHANGED <<next_fence, held, sends>>
    BY <1>6 DEF MarkOutcome
  <2> HIDE DEF k, new
  <2>4. QED
    BY <2>1, <2>2, <2>3, SendEndsLease
<1>7. ASSUME NEW k \in RunKey, NEW now \in Now, recover_expired_delivery(k, now)
      PROVE  FencesIssued' /\ InFlightLease' /\ SingleSender'
  <2> DEFINE new == Advance(runs[k], "ambiguous")
  <2>1. k \in DOMAIN runs /\ runs[k] \in RunRecord
    BY <1>0, <1>7 DEF recover_expired_delivery, TypeOK
  <2>2. new \in RunRecord /\ new.status # "delivering" /\ new.generation = runs[k].generation + 1
    BY <2>1, AdvanceFacts DEF DeliveryStatus
  <2>3. /\ runs' = [runs EXCEPT ![k] = new] /\ leases' = WithoutLease(k)
        /\ UNCHANGED <<next_fence, held, sends>>
    BY <1>7 DEF recover_expired_delivery
  <2> HIDE DEF new
  <2>4. QED
    BY <2>1, <2>2, <2>3, SendEndsLease
<1>8. ASSUME NEW w \in Worker, NEW now \in Now, NEW g \in Generation, NEW r \in Receipt,
             record_receipt(w, now, g, r)
      PROVE  FencesIssued' /\ InFlightLease' /\ SingleSender'
  <2> DEFINE k == held[w].run_key
             new == Delivered(runs[k], r)
  <2>1. k \in DOMAIN runs /\ runs[k] \in RunRecord
    BY <1>0, <1>8, ActiveRun DEF record_receipt
  <2>2. new \in RunRecord /\ new.status # "delivering" /\ new.generation = runs[k].generation + 1
    BY <2>1, DeliveredFacts
  <2>3. /\ runs' = [runs EXCEPT ![k] = new] /\ leases' = WithoutLease(k)
        /\ UNCHANGED <<next_fence, held, sends>>
    BY <1>8 DEF record_receipt
  <2> HIDE DEF k, new
  <2>4. QED
    BY <2>1, <2>2, <2>3, SendEndsLease
<1>9. ASSUME NEW w \in Worker, Restart(w)
      PROVE  FencesIssued' /\ InFlightLease' /\ SingleSender'
  BY <1>0, <1>9 DEF Restart, TypeOK, IInv, FencesIssued, InFlightLease, SingleSender
<1>10. CASE UNCHANGED vars
  BY <1>10 DEF vars, IInv, FencesIssued, InFlightLease, SingleSender
<1>11. QED
  BY <1>1, <1>2, <1>3, <1>4, <1>5, <1>6, <1>7, <1>8, <1>9, <1>10
     DEF Next, mark_failed, mark_ambiguous

\* The inductive invariant holds in every reachable state.
THEOREM Invariance == Spec => []IInv
<1>1. Init => IInv
  BY TypeInit, SendInit DEF IInv
<1>2. IInv /\ [Next]_vars => IInv'
  BY TypeStep, SendStep DEF IInv
<1>3. QED
  BY <1>1, <1>2, PTL DEF Spec

\* One holder of one fence may send a given attempt, for any number of
\* workers, runs and owner names, and whatever the clocks read.
THEOREM OneSenderPerAttempt == Spec => []SingleSender
<1>1. IInv => SingleSender
  BY DEF IInv
<1>2. QED
  BY <1>1, Invariance, PTL

\* An attempt in flight keeps the lease of its sender until it is concluded.
THEOREM InFlightKeepsLease == Spec => []InFlightLease
<1>1. IInv => InFlightLease
  BY DEF IInv
<1>2. QED
  BY <1>1, Invariance, PTL

\* Nothing lets a worker send a run whose outcome is in doubt or that is
\* already delivered.
THEOREM DoubtIsNotResent == Spec => NoResendInDoubt
<1>1. IInv /\ [Next]_vars =>
        [\A s \in sends' \ sends : runs[s.run].status \notin {"ambiguous", "delivered"}]_vars
  <2> SUFFICES ASSUME IInv, Next, NEW s \in sends' \ sends
               PROVE  runs[s.run].status \notin {"ambiguous", "delivered"}
    BY DEF vars
  <2>1. PICK w \in Worker, now \in Now, g \in Generation : begin_delivery(w, now, g)
    BY DEF Next, plan, acquire, renew, release, mark_failed, mark_ambiguous, MarkOutcome,
       recover_expired_delivery, record_receipt, Restart
  <2>2. s.run = held[w].run_key
    BY <2>1 DEF begin_delivery, Permit
  <2>3. QED
    BY <2>1, <2>2 DEF begin_delivery
<1>2. QED
  BY <1>1, Invariance, PTL DEF Spec, NoResendInDoubt

-----------------------------------------------------------------------------
(* The four kinds of steps.  Whatever the operation, what the runs have    *)
(* reached stays, gains a planned run, or moves one run by one generation.*)

Same(j) == /\ runs'[j].spec = runs[j].spec /\ runs'[j].status = runs[j].status
           /\ runs'[j].generation = runs[j].generation /\ runs'[j].receipt = runs[j].receipt

Stays == /\ scheduled_baseline' = scheduled_baseline /\ DOMAIN runs' = DOMAIN runs
         /\ \A j \in DOMAIN runs : Same(j)

Enters(k) ==
  /\ k \in RunKey \ DOMAIN runs /\ DOMAIN runs' = DOMAIN runs \cup {k}
  /\ \A j \in DOMAIN runs : Same(j)
  /\ runs'[k].status = "planned" /\ runs'[k].generation = 0 /\ runs'[k].receipt = NULL
  /\ validate_plan(runs'[k].spec) /\ scheduled_baseline' = scheduled_baseline

Passes(k, from, to) ==
  /\ k \in DOMAIN runs /\ DOMAIN runs' = DOMAIN runs
  /\ \A j \in DOMAIN runs \ {k} : Same(j)
  /\ runs'[k].spec = runs[k].spec /\ runs'[k].generation = runs[k].generation + 1
  /\ runs[k].status \in from /\ runs'[k].status \in to

Attempts(k) ==
  /\ Passes(k, {"planned", "failed"}, {"delivering"})
  /\ runs'[k].receipt = runs[k].receipt /\ scheduled_baseline' = scheduled_baseline

Concludes(k) ==
  /\ Passes(k, {"delivering"}, {"failed", "ambiguous"})
  /\ runs'[k].receipt = runs[k].receipt /\ scheduled_baseline' = scheduled_baseline

Confirms(k, r) ==
  LET effect == baseline_replacement(scheduled_baseline, runs[k].spec, r)
  IN /\ Passes(k, {"delivering", "ambiguous"}, {"delivered"})
     /\ runs'[k].receipt = r /\ effect # "conflict" /\ r.body_digest = runs[k].spec.delivery_digest
     /\ scheduled_baseline' = IF effect = "replace" THEN BaselineOf(runs[k].spec, r)
                                                    ELSE scheduled_baseline

Moves == Stays \/ \E k \in RunKey : \/ Enters(k) \/ Attempts(k) \/ Concludes(k)
                                    \/ \E r \in Receipt : Confirms(k, r)

\* One run is replaced: what that leaves of the others.
LEMMA OneRun ==
  ASSUME TypeOK, NEW k \in DOMAIN runs, NEW new, runs' = [runs EXCEPT ![k] = new]
  PROVE  /\ DOMAIN runs' = DOMAIN runs /\ runs'[k] = new
         /\ \A j \in DOMAIN runs \ {k} : Same(j)
BY DEF TypeOK, Same

\* An attempt that ends without a receipt.
LEMMA ConcludeMoves ==
  ASSUME TypeOK, NEW k \in DOMAIN runs, NEW status \in {"failed", "ambiguous"},
         runs[k].status = "delivering", runs' = [runs EXCEPT ![k] = Advance(@, status)],
         scheduled_baseline' = scheduled_baseline
  PROVE  Concludes(k)
<1> DEFINE new == Advance(runs[k], status)
<1>1. runs[k] \in RunRecord
  BY DEF TypeOK
<1>2. /\ new.status = status /\ new.generation = runs[k].generation + 1
      /\ new.receipt = runs[k].receipt /\ new.spec = runs[k].spec
  BY <1>1, AdvanceFacts DEF DeliveryStatus
<1>3. runs' = [runs EXCEPT ![k] = new]
  OBVIOUS
<1> HIDE DEF new
<1>4. /\ DOMAIN runs' = DOMAIN runs /\ runs'[k] = new
      /\ \A j \in DOMAIN runs \ {k} : Same(j)
  BY <1>3, OneRun
<1>5. QED
  BY <1>2, <1>4 DEF Concludes, Passes

\* Every step is of one of the four kinds.
LEMMA StepKinds == TypeOK /\ [Next]_vars => Moves
<1> SUFFICES ASSUME TypeOK, [Next]_vars
             PROVE  Moves
  OBVIOUS
<1>1. ASSUME NEW p \in Plan, plan(p)
      PROVE  Moves
  <2>1. p.run_key \in RunKey \ DOMAIN runs /\ validate_plan(p)
    BY <1>1 DEF plan, RunKey
  <2>2. /\ DOMAIN runs' = DOMAIN runs \cup {p.run_key} /\ runs'[p.run_key] = NewRun(p)
        /\ \A j \in DOMAIN runs : runs'[j] = runs[j]
        /\ scheduled_baseline' = scheduled_baseline
    BY <1>1 DEF plan
  <2>3. Enters(p.run_key)
    BY <2>1, <2>2, NewRunFacts DEF Enters, Same
  <2>4. QED
    BY <2>1, <2>3 DEF Moves
<1>2. ASSUME UNCHANGED <<runs, scheduled_baseline>>
      PROVE  Moves
  BY <1>2 DEF Moves, Stays, Same
<1>3. ASSUME NEW w \in Worker, NEW now \in Now, NEW g \in Generation, begin_delivery(w, now, g)
      PROVE  Moves
  <2> DEFINE k == held[w].run_key
             new == Started(runs[k])
  <2>1. k \in DOMAIN runs /\ runs[k] \in RunRecord /\ k \in RunKey
    BY <1>3, ActiveRun DEF begin_delivery
  <2>2. /\ new.status = "delivering" /\ new.generation = runs[k].generation + 1
        /\ new.receipt = runs[k].receipt /\ new.spec = runs[k].spec
    BY <2>1, StartedFacts
  <2>3. \/ UNCHANGED <<runs, scheduled_baseline>>
        \/ /\ runs' = [runs EXCEPT ![k] = new] /\ scheduled_baseline' = scheduled_baseline
           /\ runs[k].status \in {"planned", "failed"}
    BY <1>3 DEF begin_delivery
  <2> HIDE DEF k, new
  <2>4. ASSUME runs' = [runs EXCEPT ![k] = new], scheduled_baseline' = scheduled_baseline,
               runs[k].status \in {"planned", "failed"}
        PROVE  Attempts(k)
    <3>1. /\ DOMAIN runs' = DOMAIN runs /\ runs'[k] = new
          /\ \A j \in DOMAIN runs \ {k} : Same(j)
      BY <2>1, <2>4, OneRun
    <3>2. QED
      BY <2>1, <2>2, <2>4, <3>1 DEF Attempts, Passes
  <2>5. QED
    BY <1>2, <2>1, <2>3, <2>4 DEF Moves
<1>4. ASSUME NEW w \in Worker, NEW now \in Now, NEW g \in Generation,
             NEW status \in {"failed", "ambiguous"}, MarkOutcome(w, now, g, status)
      PROVE  Moves
  <2>1. held[w].run_key \in DOMAIN runs /\ held[w].run_key \in RunKey
    BY <1>4, ActiveRun DEF MarkOutcome
  <2>2. Concludes(held[w].run_key)
    BY <1>4, <2>1, ConcludeMoves DEF MarkOutcome
  <2>3. QED
    BY <2>1, <2>2 DEF Moves
<1>5. ASSUME NEW k \in RunKey, NEW now \in Now, recover_expired_delivery(k, now)
      PROVE  Moves
  BY <1>5, ConcludeMoves DEF recover_expired_delivery, Moves
<1>6. ASSUME NEW w \in Worker, NEW now \in Now, NEW g \in Generation, NEW r \in Receipt,
             record_receipt(w, now, g, r)
      PROVE  Moves
  <2> DEFINE k == held[w].run_key
             new == Delivered(runs[k], r)
  <2>1. k \in DOMAIN runs /\ runs[k] \in RunRecord /\ k \in RunKey
    BY <1>6, ActiveRun DEF record_receipt
  <2>2. /\ new.status = "delivered" /\ new.generation = runs[k].generation + 1
        /\ new.receipt = r /\ new.spec = runs[k].spec
    BY <2>1, DeliveredFacts
  <2>3. LET effect == baseline_replacement(scheduled_baseline, runs[k].spec, r)
        IN /\ runs' = [runs EXCEPT ![k] = new] /\ runs[k].status \in {"delivering", "ambiguous"}
           /\ r.body_digest = runs[k].spec.delivery_digest /\ effect # "conflict"
           /\ scheduled_baseline' = IF effect = "replace" THEN BaselineOf(runs[k].spec, r)
                                                          ELSE scheduled_baseline
    BY <1>6 DEF record_receipt
  <2> HIDE DEF k, new
  <2>4. /\ DOMAIN runs' = DOMAIN runs /\ runs'[k] = new
        /\ \A j \in DOMAIN runs \ {k} : Same(j)
    BY <2>1, <2>3, OneRun
  <2>5. Passes(k, {"delivering", "ambiguous"}, {"delivered"})
    BY <2>1, <2>2, <2>3, <2>4 DEF Passes
  <2>6. Confirms(k, r)
    BY <2>2, <2>3, <2>4, <2>5 DEF Confirms
  <2>7. QED
    BY <2>1, <2>6 DEF Moves
<1>7. CASE Next
  BY <1>1, <1>2, <1>3, <1>4, <1>5, <1>6, <1>7 DEF Next, acquire, renew, release, mark_failed,
     mark_ambiguous, Restart
<1>8. QED
  BY <1>2, <1>7 DEF vars

\* Receipts come with delivery only, and for the body that was planned.
LEMMA WholeStep ==
  ASSUME TypeOK, RunsAreWhole, Moves
  PROVE  RunsAreWhole'
<1>1. CASE Stays
  BY <1>1 DEF Stays, Same, RunsAreWhole
<1>2. ASSUME NEW k \in RunKey, Enters(k)
      PROVE  RunsAreWhole'
  BY <1>2 DEF Enters, Same, RunsAreWhole
<1>3. ASSUME NEW k \in RunKey, Attempts(k) \/ Concludes(k)
      PROVE  RunsAreWhole'
  BY <1>3 DEF Attempts, Concludes, Passes, Same, RunsAreWhole
<1>4. ASSUME NEW k \in RunKey, NEW r \in Receipt, Confirms(k, r)
      PROVE  RunsAreWhole'
  BY <1>4, DeliveryAssumption DEF Confirms, Passes, Same, RunsAreWhole
<1>5. QED
  BY <1>1, <1>2, <1>3, <1>4 DEF Moves

-----------------------------------------------------------------------------
(* The scheduled baseline                                        *)

\* What a receipt that does not conflict does to the baseline.
LEMMA ReplacementRule ==
  ASSUME NEW p \in Plan, NEW r \in Receipt, NEW b \in ScheduledBaseline \cup {NULL},
         baseline_replacement(b, p, r) # "conflict"
  PROVE  LET effect == baseline_replacement(b, p, r)
             date == scheduled_date(p.scheduled_run_key)
             current == scheduled_date(b.scheduled_run_key)
         IN /\ date \in Nat
            /\ p.mode = "manual" => effect = "keep"
            /\ p.mode # "manual" /\ b = NULL => effect = "replace"
            /\ p.mode # "manual" /\ b # NULL =>
                 /\ current \in Nat
                 /\ date > current => effect = "replace"
                 /\ date < current => effect = "keep"
                 /\ date = current =>
                      /\ effect = "keep" /\ b.plan_digest = p.plan_digest
                      /\ b.delivery_digest = p.delivery_digest /\ b.receipt_id = r.receipt_id
<1> DEFINE date == scheduled_date(p.scheduled_run_key)
           current == scheduled_date(b.scheduled_run_key)
           same == /\ b.plan_digest = p.plan_digest
                   /\ b.delivery_digest = p.delivery_digest
                   /\ b.receipt_id = r.receipt_id
<1>1. date \in Nat
  BY DeliveryAssumption DEF scheduled_date
<1>2. b # NULL => current \in Nat
  BY DeliveryAssumption DEF scheduled_date, ScheduledBaseline
<1>3. baseline_replacement(b, p, r) =
        CASE p.mode = "manual"  -> "keep"
          [] p.mode # "manual" /\ b = NULL -> "replace"
          [] p.mode # "manual" /\ b # NULL /\ date > current -> "replace"
          [] p.mode # "manual" /\ b # NULL /\ date < current -> "keep"
          [] OTHER -> IF same THEN "keep" ELSE "conflict"
  BY DEF baseline_replacement
<1> HIDE DEF date, current, same
<1>4. CASE p.mode = "manual"
  BY <1>1, <1>3, <1>4 DEF date
<1>5. CASE p.mode # "manual" /\ b = NULL
  BY <1>1, <1>3, <1>5 DEF date
<1>6. CASE p.mode # "manual" /\ b # NULL /\ date > current
  BY <1>1, <1>2, <1>3, <1>6 DEF date, current
<1>7. CASE p.mode # "manual" /\ b # NULL /\ date < current
  BY <1>1, <1>2, <1>3, <1>7 DEF date, current
<1>8. CASE p.mode # "manual" /\ b # NULL /\ date = current
  <2>1. baseline_replacement(b, p, r) = IF same THEN "keep" ELSE "conflict"
    BY <1>1, <1>2, <1>3, <1>8
  <2>2. QED
    BY <1>1, <1>2, <1>8, <2>1 DEF date, current, same
<1>9. QED
  BY <1>1, <1>2, <1>4, <1>5, <1>6, <1>7, <1>8

\* As long as no run is confirmed, the baseline has nothing to follow.
LEMMA BaselineKept ==
  ASSUME TypeOK, BaselineIsConfirmed, Confirmed' = Confirmed, scheduled_baseline' = scheduled_baseline,
         \A k \in Confirmed : runs'[k].spec = runs[k].spec /\ runs'[k].receipt = runs[k].receipt
  PROVE  BaselineIsConfirmed'
BY DEF BaselineIsConfirmed

\* A confirmed receipt moves run and baseline together.
LEMMA BaselineConfirms ==
  ASSUME TypeOK, RunsAreWhole, BaselineIsConfirmed, NEW k \in RunKey, NEW r \in Receipt, Confirms(k, r)
  PROVE  BaselineIsConfirmed'
<1> DEFINE p == runs[k].spec
           date == scheduled_date(p.scheduled_run_key)
           current == scheduled_date(scheduled_baseline.scheduled_run_key)
           effect == baseline_replacement(scheduled_baseline, p, r)
           D(j) == scheduled_date(runs[j].spec.scheduled_run_key)
<1>1. /\ k \in DOMAIN runs /\ DOMAIN runs' = DOMAIN runs
      /\ \A j \in DOMAIN runs \ {k} : Same(j)
      /\ runs'[k].spec = p /\ runs[k].status # "delivered" /\ runs'[k].status = "delivered"
      /\ runs'[k].receipt = r /\ effect # "conflict" /\ r.body_digest = p.delivery_digest
      /\ scheduled_baseline' = IF effect = "replace" THEN BaselineOf(p, r) ELSE scheduled_baseline
  BY DEF Confirms, Passes
<1>2. p \in Plan /\ scheduled_baseline \in ScheduledBaseline \cup {NULL}
  BY <1>1 DEF TypeOK, RunRecord
<1>3. /\ \A j \in Confirmed : j # k /\ runs'[j].spec = runs[j].spec /\ runs'[j].receipt = runs[j].receipt
      /\ Confirmed' = IF p.mode # "manual" THEN Confirmed \cup {k} ELSE Confirmed
  BY <1>1 DEF Confirmed, Same
<1>4. /\ BaselineOf(p, r) # NULL /\ BaselineOf(p, r).scheduled_run_key = p.scheduled_run_key
      /\ BaselineOf(p, r).delivery_digest = r.body_digest
  BY <1>1, <1>2, BaselineOfType, DeliveryAssumption DEF BaselineOf
<1>5. CASE p.mode = "manual"
  <2>1. scheduled_baseline' = scheduled_baseline /\ Confirmed' = Confirmed
    BY <1>1, <1>2, <1>3, <1>5, ReplacementRule
  <2>2. QED
    BY <1>3, <2>1, BaselineKept
<1>6. CASE p.mode # "manual" /\ scheduled_baseline = NULL
  <2>1. Confirmed = {} /\ Confirmed' = {k} /\ scheduled_baseline' = BaselineOf(p, r)
    BY <1>1, <1>2, <1>3, <1>6, ReplacementRule DEF BaselineIsConfirmed
  <2>2. date \in Nat
    BY <1>1, <1>2, ReplacementRule
  <2>3. QED
    BY <1>1, <1>4, <2>1, <2>2 DEF BaselineIsConfirmed
<1>7. CASE p.mode # "manual" /\ scheduled_baseline # NULL
  <2>1. /\ date \in Nat /\ current \in Nat
        /\ date > current => scheduled_baseline' = BaselineOf(p, r)
        /\ ~(date > current) => scheduled_baseline' = scheduled_baseline
        /\ date = current => /\ scheduled_baseline.plan_digest = p.plan_digest
                             /\ scheduled_baseline.delivery_digest = p.delivery_digest
                             /\ scheduled_baseline.receipt_id = r.receipt_id
    BY <1>1, <1>2, <1>7, ReplacementRule
  <2>2. /\ \E j \in Confirmed :
             D(j) = current /\ runs[j].receipt.body_digest = scheduled_baseline.delivery_digest
        /\ \A j \in Confirmed :
             D(j) <= current /\ (D(j) = current => scheduled_baseline = BaselineOf(runs[j].spec, runs[j].receipt))
    BY <1>7 DEF BaselineIsConfirmed
  <2>3. \A j \in Confirmed : D(j) \in Nat
    BY DeliveryAssumption DEF Confirmed, scheduled_date, TypeOK, RunRecord
  <2>4. Confirmed' = Confirmed \cup {k}
    BY <1>3, <1>7
  <2>5. CASE date > current
    <3>1. \A j \in Confirmed : D(j) < date
      BY <2>1, <2>2, <2>3, <2>5
    <3>2. QED
      BY <1>1, <1>3, <1>4, <2>1, <2>3, <2>4, <2>5, <3>1 DEF BaselineIsConfirmed
  <2>6. CASE date < current
    BY <1>1, <1>3, <1>7, <2>1, <2>2, <2>3, <2>4, <2>6 DEF BaselineIsConfirmed
  <2>7. CASE date = current
    <3>1. PICK j \in Confirmed : D(j) = current
      BY <2>2
    <3>2. scheduled_baseline.scheduled_run_key = runs[j].spec.scheduled_run_key /\ runs[j].spec \in Plan
      BY <2>2, <3>1 DEF BaselineOf, Confirmed, TypeOK, RunRecord
    <3>3. p.scheduled_run_key[1] = "scheduled" /\ runs[j].spec.scheduled_run_key[1] = "scheduled"
      BY <1>1 DEF Confirmed, RunsAreWhole, validate_plan
    <3>4. p.scheduled_run_key = runs[j].spec.scheduled_run_key
      BY <1>2, <2>7, <3>1, <3>2, <3>3, DeliveryAssumption DEF scheduled_date
    <3>5. scheduled_baseline = BaselineOf(p, r)
      BY <1>2, <1>7, <2>1, <2>7, <3>2, <3>4 DEF BaselineOf, ScheduledBaseline
    <3>6. QED
      BY <1>1, <1>3, <1>7, <2>1, <2>2, <2>3, <2>4, <2>7, <3>5 DEF BaselineIsConfirmed
  <2>8. QED
    BY <2>1, <2>5, <2>6, <2>7
<1>8. QED
  BY <1>5, <1>6, <1>7

\* The baseline follows the confirmed runs through every step.
LEMMA BaselineStep ==
  ASSUME TypeOK, RunsAreWhole, BaselineIsConfirmed, Moves
  PROVE  BaselineIsConfirmed'
<1>1. ASSUME Confirmed' = Confirmed, scheduled_baseline' = scheduled_baseline,
             \A j \in Confirmed : Same(j)
      PROVE  BaselineIsConfirmed'
  BY <1>1, BaselineKept DEF Same
<1>2. CASE Stays
  BY <1>1, <1>2 DEF Stays, Same, Confirmed
<1>3. ASSUME NEW k \in RunKey, Enters(k)
      PROVE  BaselineIsConfirmed'
  BY <1>1, <1>3 DEF Enters, Same, Confirmed
<1>4. ASSUME NEW k \in RunKey, Attempts(k) \/ Concludes(k)
      PROVE  BaselineIsConfirmed'
  <2>1. /\ k \in DOMAIN runs /\ DOMAIN runs' = DOMAIN runs /\ scheduled_baseline' = scheduled_baseline
        /\ \A j \in DOMAIN runs \ {k} : Same(j)
        /\ runs[k].status # "delivered" /\ runs'[k].status # "delivered"
    BY <1>4 DEF Attempts, Concludes, Passes
  <2>2. QED
    BY <1>1, <2>1 DEF Same, Confirmed
<1>5. ASSUME NEW k \in RunKey, NEW r \in Receipt, Confirms(k, r)
      PROVE  BaselineIsConfirmed'
  BY <1>5, BaselineConfirms
<1>6. QED
  BY <1>2, <1>3, <1>4, <1>5 DEF Moves

-----------------------------------------------------------------------------
\* What is durable stays in order.
LEMMA DurableInvariance == Spec => []Durable
<1>1. Init => Durable
  BY DEF Init, Durable, RunsAreWhole, BaselineIsConfirmed, Confirmed
<1>2. TypeOK /\ Durable /\ [Next]_vars => Durable'
  BY StepKinds, WholeStep, BaselineStep DEF Durable
<1>3. QED
  BY <1>1, <1>2, TypeCorrect, PTL DEF Spec

\* The baseline is the newest scheduled date with a confirmed receipt, and no
\* receipt of that date disagrees with it.
THEOREM BaselineConfirmed == Spec => []BaselineIsConfirmed
<1>1. Durable => BaselineIsConfirmed
  BY DEF Durable
<1>2. QED
  BY <1>1, DurableInvariance, PTL

-----------------------------------------------------------------------------
(* The delivery protocol                                                   *)

phaseMap == [k \in RunKey |-> IF k \in DOMAIN runs THEN runs[k].status ELSE "absent"]
generationMap == [k \in RunKey |-> IF k \in DOMAIN runs THEN runs[k].generation ELSE 0]
receiptMap == [k \in RunKey |-> IF k \in DOMAIN runs THEN runs[k].receipt ELSE NULL]
baseMap == IF scheduled_baseline = NULL THEN NULL
           ELSE [date |-> scheduled_date(scheduled_baseline.scheduled_run_key),
                 receipt_id |-> scheduled_baseline.receipt_id]

\* A row that passes to another status becomes it in the protocol.
LEMMA PassesBecomes ==
  ASSUME TypeOK, NEW k \in RunKey, NEW from, NEW to, Passes(k, from, {to})
  PROVE  /\ phaseMap' = [phaseMap EXCEPT ![k] = to]
         /\ generationMap' = [generationMap EXCEPT ![k] = @ + 1]
         /\ phaseMap[k] \in from
         /\ \A x \in RunKey \ {k} : receiptMap'[x] = receiptMap[x]
         /\ receiptMap[k] = runs[k].receipt /\ receiptMap'[k] = runs'[k].receipt
<1>1. /\ k \in DOMAIN runs /\ DOMAIN runs' = DOMAIN runs
      /\ \A j \in DOMAIN runs \ {k} : Same(j)
      /\ runs'[k].generation = runs[k].generation + 1
      /\ runs[k].status \in from /\ runs'[k].status = to
  BY DEF Passes
<1>2. phaseMap' = [phaseMap EXCEPT ![k] = to]
  BY <1>1 DEF phaseMap, Same
<1>3. generationMap' = [generationMap EXCEPT ![k] = @ + 1]
  BY <1>1 DEF generationMap, Same
<1>4. QED
  BY <1>1, <1>2, <1>3 DEF phaseMap, receiptMap, Same

\* A receipt and its scheduled_baseline are what the protocol allows.
LEMMA ConfirmsBase ==
  ASSUME TypeOK, NEW k \in RunKey, NEW r \in Receipt, Confirms(k, r)
  PROVE  \/ baseMap' = baseMap
         \/ /\ baseMap' # NULL /\ baseMap'.receipt_id = r.receipt_id
            /\ baseMap = NULL \/ baseMap'.date > baseMap.date
<1> DEFINE p == runs[k].spec
           effect == baseline_replacement(scheduled_baseline, p, r)
<1>1. /\ p \in Plan /\ scheduled_baseline \in ScheduledBaseline \cup {NULL} /\ effect # "conflict"
      /\ scheduled_baseline' = IF effect = "replace" THEN BaselineOf(p, r) ELSE scheduled_baseline
  BY DEF Confirms, Passes, TypeOK, RunRecord
<1>2. CASE effect # "replace"
  BY <1>1, <1>2 DEF baseMap
<1>3. CASE effect = "replace"
  <2>1. /\ scheduled_baseline' = BaselineOf(p, r) /\ scheduled_baseline' # NULL
    BY <1>1, <1>3, BaselineOfType, DeliveryAssumption
  <2>2. baseMap' = [date |-> scheduled_date(p.scheduled_run_key), receipt_id |-> r.receipt_id]
    BY <2>1 DEF baseMap, BaselineOf
  <2>3. scheduled_baseline = NULL \/ scheduled_date(p.scheduled_run_key) > scheduled_date(scheduled_baseline.scheduled_run_key)
    BY <1>1, <1>3, ReplacementRule
  <2>4. baseMap' # NULL
    <3>1. scheduled_date(p.scheduled_run_key) \in Nat
      BY <1>1, DeliveryAssumption DEF scheduled_date
    <3>2. QED
      BY <2>2, <3>1, DeliveryAssumption
  <2>5. QED
    BY <2>2, <2>3, <2>4 DEF baseMap
<1>4. QED
  BY <1>2, <1>3

\* The machine implements the delivery protocol: whatever leases and clocks do, a run is attempted only when planned or failed, leaves
\* doubt only by a receipt, and the scheduled_baseline only moves to later dates with one.
THEOREM MachineImplementsProtocol == Spec => ImplementsProtocol
<1>1. Init => Protocol!ProtocolInit
  BY DEF Init, Protocol!ProtocolInit
<1>2. TypeOK /\ Durable /\ [Next]_vars => [Protocol!ProtocolNext]_(Protocol!protocolVars)
  <2> SUFFICES ASSUME TypeOK, Durable, [Next]_vars
               PROVE  Protocol!ProtocolNext \/ UNCHANGED Protocol!protocolVars
    OBVIOUS
  <2>1. Moves
    BY StepKinds
  <2>2. CASE Stays
    <3>1. phaseMap' = phaseMap /\ generationMap' = generationMap /\ receiptMap' = receiptMap
      BY <2>2 DEF Stays, Same, phaseMap, generationMap, receiptMap
    <3>2. baseMap' = baseMap
      BY <2>2 DEF Stays, baseMap
    <3>3. QED
      BY <3>1, <3>2 DEF Protocol!protocolVars, phaseMap, generationMap, receiptMap, baseMap
  <2>3. ASSUME NEW k \in RunKey, Enters(k)
        PROVE  Protocol!Schedule(k)
    <3>1. phaseMap' = [phaseMap EXCEPT ![k] = "planned"] /\ phaseMap[k] = "absent"
      BY <2>3 DEF Enters, Same, phaseMap
    <3>2. generationMap' = generationMap
      BY <2>3 DEF Enters, Same, generationMap
    <3>3. receiptMap' = receiptMap
      BY <2>3 DEF Enters, Same, receiptMap
    <3>4. baseMap' = baseMap
      BY <2>3 DEF Enters, baseMap
    <3>5. QED
      BY <3>1, <3>2, <3>3, <3>4 DEF Protocol!Schedule, phaseMap, generationMap, receiptMap, baseMap
  <2>4. ASSUME NEW k \in RunKey, Attempts(k)
        PROVE  Protocol!Attempt(k)
    <3>1. /\ phaseMap' = [phaseMap EXCEPT ![k] = "delivering"]
          /\ generationMap' = [generationMap EXCEPT ![k] = @ + 1]
          /\ phaseMap[k] \in {"planned", "failed"}
          /\ \A x \in RunKey : receiptMap'[x] = receiptMap[x]
      BY <2>1, <2>4, PassesBecomes DEF Attempts
    <3>2. receiptMap' = receiptMap
      BY <3>1 DEF receiptMap
    <3>3. baseMap' = baseMap
      BY <2>4 DEF Attempts, baseMap
    <3>4. QED
      BY <3>1, <3>2, <3>3
         DEF Protocol!Attempt, Protocol!Becomes, phaseMap, generationMap, receiptMap, baseMap
  <2>5. ASSUME NEW k \in RunKey, Concludes(k)
        PROVE  Protocol!Conclude(k)
    <3>1. PICK to \in {"failed", "ambiguous"} : Passes(k, {"delivering"}, {to})
      BY <2>5 DEF Concludes, Passes
    <3>2. /\ phaseMap' = [phaseMap EXCEPT ![k] = to]
          /\ generationMap' = [generationMap EXCEPT ![k] = @ + 1]
          /\ phaseMap[k] = "delivering"
          /\ \A x \in RunKey : receiptMap'[x] = receiptMap[x]
      <4>1. /\ phaseMap' = [phaseMap EXCEPT ![k] = to]
            /\ generationMap' = [generationMap EXCEPT ![k] = @ + 1]
            /\ phaseMap[k] \in {"delivering"}
            /\ \A x \in RunKey \ {k} : receiptMap'[x] = receiptMap[x]
            /\ receiptMap[k] = runs[k].receipt /\ receiptMap'[k] = runs'[k].receipt
        BY <2>1, <3>1, PassesBecomes, Zenon
      <4>2. QED
        BY <2>5, <4>1 DEF Concludes
    <3>3. receiptMap' = receiptMap
      BY <3>2 DEF receiptMap
    <3>4. baseMap' = baseMap
      BY <2>5 DEF Concludes, baseMap
    <3>5. QED
      BY <3>2, <3>3, <3>4
         DEF Protocol!Conclude, Protocol!Becomes, phaseMap, generationMap, receiptMap, baseMap
  <2>6. ASSUME NEW k \in RunKey, NEW r \in Receipt, Confirms(k, r)
        PROVE  Protocol!Confirm(k)
    <3>1. /\ phaseMap' = [phaseMap EXCEPT ![k] = "delivered"]
          /\ generationMap' = [generationMap EXCEPT ![k] = @ + 1]
          /\ phaseMap[k] \in {"delivering", "ambiguous"}
          /\ \A x \in RunKey \ {k} : receiptMap'[x] = receiptMap[x]
          /\ receiptMap[k] = runs[k].receipt /\ receiptMap'[k] = r
      BY <2>1, <2>6, PassesBecomes DEF Confirms
    <3>2. receiptMap[k] = NULL /\ receiptMap'[k] # NULL
      <4>1. runs[k].receipt = NULL
        BY <2>6 DEF Confirms, Passes, Durable, RunsAreWhole
      <4>2. QED
        BY <3>1, <4>1, DeliveryAssumption
    <3>3. \/ baseMap' = baseMap
          \/ /\ baseMap' # NULL /\ baseMap'.receipt_id = receiptMap'[k].receipt_id
             /\ baseMap = NULL \/ baseMap'.date > baseMap.date
      BY <2>1, <2>6, <3>1, ConfirmsBase
    <3>4. QED
      BY <3>1, <3>2, <3>3
         DEF Protocol!Confirm, Protocol!Becomes, phaseMap, generationMap, receiptMap, baseMap
  <2>7. QED
    BY <2>1, <2>2, <2>3, <2>4, <2>5, <2>6 DEF Moves, Protocol!ProtocolNext
<1>3. QED
  BY <1>1, <1>2, TypeCorrect, DurableInvariance, PTL DEF Spec, ImplementsProtocol, Protocol!ProtocolSpec
=============================================================================
