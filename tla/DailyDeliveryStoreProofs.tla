---------------------- MODULE DailyDeliveryStoreProofs ----------------------
(***************************************************************************)
(* Proofs about DailyDeliveryStore for every set of plans, receipts,       *)
(* workers, owner names and clock readings, and every number of claims.    *)
(***************************************************************************)
EXTENDS DailyDeliveryStore, TLAPS

-----------------------------------------------------------------------------
(* What the operators on rows and tokens produce                           *)

\* A transition changes the status and adds one to the generation.
LEMMA AdvanceFacts ==
  ASSUME NEW run \in StoredRun, NEW status \in DeliveryStatus
  PROVE  LET a == Advance(run, status)
         IN /\ a \in StoredRun /\ a.status = status /\ a.generation = run.generation + 1
            /\ a.receipt = run.receipt /\ a.spec = run.spec /\ a.lease = run.lease
<1> DEFINE At(g) == [run EXCEPT !.status = status, !.generation = g]
<1>1. run.generation + 1 \in Nat
  BY DEF StoredRun
<1>2. \A g \in Nat : /\ At(g) \in StoredRun /\ At(g).status = status /\ At(g).generation = g
                     /\ At(g).receipt = run.receipt /\ At(g).spec = run.spec
                     /\ At(g).lease = run.lease
  BY DEF StoredRun
<1>3. Advance(run, status) = At(run.generation + 1)
  BY Zenon DEF Advance
<1> HIDE DEF At
<1>4. QED
  BY <1>1, <1>2, <1>3

\* A begun attempt keeps the lease it was begun with.
LEMMA StartedFacts ==
  ASSUME NEW run \in StoredRun
  PROVE  LET a == Started(run)
         IN /\ a \in StoredRun /\ a.status = "delivering" /\ a.generation = run.generation + 1
            /\ a.receipt = run.receipt /\ a.spec = run.spec /\ a.lease = run.lease
<1> DEFINE b == Advance(run, "delivering")
           At(n) == [b EXCEPT !.attempts = n]
<1>1. /\ b \in StoredRun /\ b.status = "delivering" /\ b.generation = run.generation + 1
      /\ b.receipt = run.receipt /\ b.spec = run.spec /\ b.lease = run.lease
  BY AdvanceFacts DEF DeliveryStatus
<1> HIDE DEF b
<1>2. b.attempts + 1 \in Nat
  BY <1>1 DEF StoredRun
<1>3. \A n \in Nat : /\ At(n) \in StoredRun /\ At(n).status = b.status
                     /\ At(n).generation = b.generation /\ At(n).receipt = b.receipt
                     /\ At(n).spec = b.spec /\ At(n).lease = b.lease
  BY <1>1 DEF StoredRun
<1>4. Started(run) = At(b.attempts + 1)
  BY Zenon DEF Started, b
<1> HIDE DEF At
<1>5. QED
  BY <1>1, <1>2, <1>3, <1>4

\* Giving the lease back leaves the rest of the row alone.
LEMMA ReleasedFacts ==
  ASSUME NEW run \in StoredRun
  PROVE  LET a == Released(run)
         IN /\ a \in StoredRun /\ a.lease = NULL /\ a.status = run.status
            /\ a.generation = run.generation /\ a.receipt = run.receipt /\ a.spec = run.spec
BY DEF StoredRun, Released

\* A delivered row carries its receipt and no lease.
LEMMA DeliveredFacts ==
  ASSUME NEW run \in StoredRun, NEW r \in Receipt
  PROVE  LET a == Released(Delivered(run, r))
         IN /\ a \in StoredRun /\ a.lease = NULL /\ a.status = "delivered"
            /\ a.generation = run.generation + 1 /\ a.receipt = r /\ a.spec = run.spec
<1> DEFINE a == Advance(run, "delivered")
           d == [a EXCEPT !.receipt = r]
<1>1. a \in StoredRun /\ a.status = "delivered" /\ a.generation = run.generation + 1 /\ a.spec = run.spec
  BY AdvanceFacts DEF DeliveryStatus
<1> HIDE DEF a
<1>2. /\ d \in StoredRun /\ d.status = a.status /\ d.spec = a.spec
      /\ d.generation = a.generation /\ d.receipt = r
  BY <1>1 DEF StoredRun
<1>3. Delivered(run, r) = d
  BY DEF Delivered, a
<1> HIDE DEF d
<1>4. QED
  BY <1>1, <1>2, <1>3, ReleasedFacts

\* Ending an attempt with an outcome gives the lease back.
LEMMA ConcludedFacts ==
  ASSUME NEW run \in StoredRun, NEW status \in DeliveryStatus
  PROVE  LET a == Released(Advance(run, status))
         IN /\ a \in StoredRun /\ a.lease = NULL /\ a.status = status
            /\ a.generation = run.generation + 1 /\ a.receipt = run.receipt /\ a.spec = run.spec
BY AdvanceFacts, ReleasedFacts

\* A lease on a row changes nothing else of it.
LEMMA LeasedFacts ==
  ASSUME NEW run \in StoredRun, NEW t \in LeaseToken
  PROVE  LET a == [run EXCEPT !.lease = t]
         IN /\ a \in StoredRun /\ a.lease = t /\ a.status = run.status
            /\ a.generation = run.generation /\ a.receipt = run.receipt /\ a.spec = run.spec
BY DEF StoredRun

\* Renewing keeps run, owner and fence.
LEMMA RenewFacts ==
  ASSUME NEW t \in LeaseToken, NEW x \in Nat
  PROVE  LET n == [t EXCEPT !.expires_at = x]
         IN n \in LeaseToken /\ n.run_key = t.run_key /\ n.fence = t.fence
BY DEF LeaseToken

\* The baseline a receipt leaves is a baseline.
LEMMA BaselineOfType ==
  ASSUME NEW p \in Plan, NEW r \in Receipt
  PROVE  BaselineOf(p, r) \in ScheduledBaseline
BY DEF BaselineOf, ScheduledBaseline

\* A token that claim hands out.
LEMMA TokenFacts ==
  ASSUME NEW k \in RunKey, NEW w \in Worker, NEW f \in Nat, NEW x \in Nat
  PROVE  LET t == [run_key |-> k, owner |-> owner[w], fence |-> f, expires_at |-> x]
         IN t \in LeaseToken /\ t # NULL /\ t.run_key = k /\ t.fence = f
BY DeliveryAssumption DEF LeaseToken

-----------------------------------------------------------------------------
(* The four kinds of steps.  Whatever the operation, the durable part of   *)
(* the store stays, gains a planned run, or moves one run by one generation.*)

Same(j) == /\ rows'[j].spec = rows[j].spec /\ rows'[j].status = rows[j].status
           /\ rows'[j].generation = rows[j].generation /\ rows'[j].receipt = rows[j].receipt

Stays == baseline' = baseline /\ DOMAIN rows' = DOMAIN rows /\ \A j \in DOMAIN rows : Same(j)

Enters(k) ==
  /\ k \in RunKey \ DOMAIN rows /\ DOMAIN rows' = DOMAIN rows \cup {k}
  /\ \A j \in DOMAIN rows : Same(j)
  /\ rows'[k].status = "planned" /\ rows'[k].generation = 0 /\ rows'[k].receipt = NULL
  /\ baseline' = baseline

Passes(k, from, to) ==
  /\ k \in DOMAIN rows /\ DOMAIN rows' = DOMAIN rows
  /\ \A j \in DOMAIN rows \ {k} : Same(j)
  /\ rows'[k].spec = rows[k].spec /\ rows'[k].generation = rows[k].generation + 1
  /\ rows[k].status \in from /\ rows'[k].status \in to

Attempts(k) ==
  /\ Passes(k, {"planned", "failed"}, {"delivering"})
  /\ rows'[k].receipt = rows[k].receipt /\ baseline' = baseline

Concludes(k) ==
  /\ Passes(k, {"delivering"}, {"failed", "ambiguous"})
  /\ rows'[k].receipt = rows[k].receipt /\ baseline' = baseline

Confirms(k, r) ==
  LET effect == baseline_replacement(baseline, rows[k].spec, r)
  IN /\ Passes(k, {"delivering", "ambiguous"}, {"delivered"})
     /\ rows'[k].receipt = r /\ effect # "conflict"
     /\ baseline' = IF effect = "replace" THEN BaselineOf(rows[k].spec, r) ELSE baseline

Moves == Stays \/ \E k \in RunKey : \/ Enters(k) \/ Attempts(k) \/ Concludes(k)
                                    \/ \E r \in Receipt : Confirms(k, r)

\* What one changed row has to satisfy for the tables to stay in order.
RowInOrder(row) ==
  /\ row.status = "delivering" => row.lease # NULL
  /\ row.status = "delivered" => row.lease = NULL
  /\ (row.status = "delivered") <=> (row.receipt # NULL)
  /\ row.receipt # NULL => row.receipt.body_digest = row.spec.delivery_digest

\* An invariant of the rows and tokens alone.
Tables == TypeOK /\ SchemaChecks /\ FencesIssued /\ FencesUnique /\ PlansAreValid

\* A row that changes and keeps its plan, and its fence or none.
LEMMA OneRow ==
  ASSUME Tables, NEW k \in DOMAIN rows, NEW new \in StoredRun,
         rows' = [rows EXCEPT ![k] = new], new.spec = rows[k].spec, RowInOrder(new),
         new.lease # NULL => rows[k].lease # NULL /\ new.lease.fence = rows[k].lease.fence,
         fence_seq' = fence_seq, held' = held,
         sends' \subseteq Send, baseline' \in ScheduledBaseline \cup {NULL}
  PROVE  Tables'
<1>1. /\ DOMAIN rows' = DOMAIN rows /\ rows'[k] = new
      /\ \A j \in DOMAIN rows : j # k => rows'[j] = rows[j]
  BY DEF Tables, TypeOK
<1>2. TypeOK'
  BY <1>1 DEF Tables, TypeOK
<1>3. SchemaChecks'
  BY <1>1 DEF Tables, SchemaChecks, RowInOrder
<1>4. FencesIssued'
  BY <1>1 DEF Tables, FencesIssued
<1>5. FencesUnique'
  BY <1>1 DEF Tables, FencesUnique
<1>6. PlansAreValid'
  BY <1>1 DEF Tables, PlansAreValid
<1>7. QED
  BY <1>2, <1>3, <1>4, <1>5, <1>6 DEF Tables

-----------------------------------------------------------------------------
(* Every operation keeps the tables in order and is one of the four kinds  *)

\* The token of a worker is for a row.
LEMMA HeldRow ==
  ASSUME Tables, NEW w \in Worker, held[w] # NULL
  PROVE  /\ held[w] \in LeaseToken /\ held[w].run_key \in DOMAIN rows
         /\ held[w].run_key \in RunKey /\ rows[held[w].run_key] \in StoredRun
BY DEF Tables, TypeOK, FencesIssued

\* A row whose other columns stay: nothing moves.
LEMMA LeaseOnly ==
  ASSUME Tables, NEW k \in DOMAIN rows, NEW new \in StoredRun,
         rows' = [rows EXCEPT ![k] = new], new.spec = rows[k].spec, new.status = rows[k].status,
         new.generation = rows[k].generation, new.receipt = rows[k].receipt, baseline' = baseline
  PROVE  Stays
<1>1. /\ DOMAIN rows' = DOMAIN rows /\ rows'[k] = new
      /\ \A j \in DOMAIN rows : j # k => rows'[j] = rows[j]
  BY DEF Tables, TypeOK
<1>2. QED
  BY <1>1 DEF Stays, Same

\* A new row has no lease, no receipt and a plan that was validated.
LEMMA PlanStep ==
  ASSUME Tables, NEW p \in Plan, plan(p)
  PROVE  Tables' /\ Moves
<1> DEFINE k == p.run_key
           new == [spec |-> p, status |-> "planned", generation |-> 0, attempts |-> 0,
                   receipt |-> NULL, lease |-> NULL]
<1>1. new \in StoredRun /\ k \in RunKey /\ validate_plan(p) /\ k \notin DOMAIN rows
  BY DEF plan, StoredRun, DeliveryStatus, RunKey
<1>2. /\ DOMAIN rows' = DOMAIN rows \cup {k} /\ rows'[k] = new
      /\ \A j \in DOMAIN rows : rows'[j] = rows[j]
      /\ rows' \in [DOMAIN rows' -> StoredRun]
  BY <1>1 DEF plan, Tables, TypeOK
<1>3. UNCHANGED <<fence_seq, baseline, held, sends>>
  BY DEF plan
<1>4. /\ new.spec = p /\ new.status = "planned" /\ new.generation = 0 /\ new.receipt = NULL
      /\ new.lease = NULL
  OBVIOUS
<1> HIDE DEF new
<1>5. TypeOK'
  BY <1>1, <1>2, <1>3 DEF Tables, TypeOK
<1>6. SchemaChecks'
  BY <1>2, <1>4 DEF Tables, SchemaChecks
<1>7. FencesIssued' /\ FencesUnique'
  BY <1>1, <1>2, <1>3, <1>4 DEF Tables, FencesIssued, FencesUnique
<1>8. PlansAreValid'
  BY <1>1, <1>2, <1>4 DEF Tables, PlansAreValid
<1>9. Enters(k)
  BY <1>1, <1>2, <1>3, <1>4 DEF Enters, Same
<1>10. QED
  BY <1>1, <1>5, <1>6, <1>7, <1>8, <1>9 DEF Tables, Moves

\* A claim takes a fence that neither a row nor a worker has.
LEMMA ClaimStep ==
  ASSUME Tables, NEW w \in Worker, NEW k \in RunKey, NEW now \in Now, NEW seconds \in Ttl,
         claim(w, k, now, seconds)
  PROVE  Tables' /\ Stays
<1> DEFINE t == [run_key |-> k, owner |-> owner[w], fence |-> fence_seq + 1,
                 expires_at |-> now + seconds]
           new == [rows[k] EXCEPT !.lease = t]
<1>1. /\ fence_seq \in Nat /\ fence_seq + 1 \in Nat /\ fence_seq + 1 \in 0..MaxFence
      /\ now + seconds \in Nat /\ k \in DOMAIN rows /\ rows[k] \in StoredRun
      /\ rows[k].status # "delivered"
  BY DeliveryAssumption, StoreAssumption DEF claim, Tables, TypeOK
<1>2. t \in LeaseToken /\ t # NULL /\ t.run_key = k /\ t.fence = fence_seq + 1
  BY <1>1, TokenFacts
<1>3. /\ rows' = [rows EXCEPT ![k] = new] /\ held' = [held EXCEPT ![w] = t]
      /\ fence_seq' = fence_seq + 1 /\ baseline' = baseline /\ sends' = sends
  BY DEF claim
<1> HIDE DEF t
<1>4. /\ new \in StoredRun /\ new.lease = t /\ new.status = rows[k].status
      /\ new.generation = rows[k].generation /\ new.receipt = rows[k].receipt /\ new.spec = rows[k].spec
  BY <1>1, <1>2, LeasedFacts
<1> HIDE DEF new
<1>5. /\ DOMAIN rows' = DOMAIN rows /\ rows'[k] = new
      /\ \A j \in DOMAIN rows : j # k => rows'[j] = rows[j]
      /\ held'[w] = t /\ \A v \in Worker : v # w => held'[v] = held[v]
  BY <1>1, <1>3 DEF Tables, TypeOK
<1>6. /\ \A j \in DOMAIN rows : rows[j].lease # NULL => rows[j].lease.fence \in Nat /\ rows[j].lease.fence <= fence_seq
      /\ \A v \in Worker : held[v] # NULL => held[v].fence \in Nat /\ held[v].fence <= fence_seq
  BY DEF Tables, TypeOK, FencesIssued, StoredRun, LeaseToken
<1>7. TypeOK'
  BY <1>1, <1>2, <1>3, <1>4, <1>5 DEF Tables, TypeOK
<1>8. SchemaChecks'
  BY <1>1, <1>2, <1>4, <1>5 DEF Tables, SchemaChecks
<1>9. FencesIssued'
  <2>1. \A j \in DOMAIN rows' : rows'[j].lease # NULL => rows'[j].lease.fence <= fence_seq'
    BY <1>1, <1>2, <1>3, <1>4, <1>5, <1>6
  <2>2. \A v \in Worker : held'[v] # NULL => held'[v].fence <= fence_seq' /\ held'[v].run_key \in DOMAIN rows'
    BY <1>1, <1>2, <1>3, <1>5, <1>6 DEF Tables, FencesIssued
  <2>3. QED
    BY <2>1, <2>2 DEF FencesIssued
<1>10. FencesUnique'
  <2>1. \A i, j \in DOMAIN rows' :
          rows'[i].lease # NULL /\ rows'[j].lease # NULL /\ rows'[i].lease.fence = rows'[j].lease.fence => i = j
    BY <1>1, <1>2, <1>4, <1>5, <1>6 DEF Tables, FencesUnique
  <2>2. \A u, v \in Worker :
          held'[u] # NULL /\ held'[v] # NULL /\ held'[u].fence = held'[v].fence => u = v
    BY <1>1, <1>2, <1>5, <1>6 DEF Tables, FencesUnique
  <2>3. QED
    BY <2>1, <2>2 DEF FencesUnique
<1>11. PlansAreValid'
  BY <1>4, <1>5 DEF Tables, PlansAreValid
<1>12. Stays
  BY <1>1, <1>3, <1>4, LeaseOnly
<1>13. QED
  BY <1>7, <1>8, <1>9, <1>10, <1>11, <1>12 DEF Tables

\* A rolled-back claim only skips a fence.
LEMMA AbortStep ==
  ASSUME Tables, NEW k \in RunKey, NEW now \in Now, NEW seconds \in Ttl,
         ClaimAborts(k, now, seconds)
  PROVE  Tables' /\ Stays
<1>1. /\ fence_seq \in Nat /\ fence_seq' = fence_seq + 1 /\ fence_seq' \in 0..MaxFence
      /\ UNCHANGED <<rows, baseline, held, sends>>
  BY StoreAssumption DEF ClaimAborts, Tables, TypeOK
<1>2. TypeOK'
  BY <1>1 DEF Tables, TypeOK
<1>3. FencesIssued'
  <2>1. /\ \A j \in DOMAIN rows : rows[j].lease # NULL => rows[j].lease.fence \in Nat /\ rows[j].lease.fence <= fence_seq
        /\ \A v \in Worker : held[v] # NULL => held[v].fence \in Nat /\ held[v].fence <= fence_seq
    BY DEF Tables, TypeOK, FencesIssued, StoredRun, LeaseToken
  <2>2. QED
    BY <1>1, <2>1 DEF Tables, FencesIssued
<1>4. SchemaChecks' /\ FencesUnique' /\ PlansAreValid'
  BY <1>1 DEF Tables, SchemaChecks, FencesUnique, PlansAreValid
<1>5. QED
  BY <1>1, <1>2, <1>3, <1>4 DEF Tables, Stays, Same

\* A renewal keeps the fence in the row and in the token.
LEMMA RenewStep ==
  ASSUME Tables, NEW w \in Worker, NEW now \in Now, NEW seconds \in Ttl, renew(w, now, seconds)
  PROVE  Tables' /\ Stays
<1> DEFINE k == held[w].run_key
           x == now + seconds
           t == [held[w] EXCEPT !.expires_at = x]
           l == [rows[k].lease EXCEPT !.expires_at = x]
           new == [rows[k] EXCEPT !.lease = l]
<1>1. /\ held[w] \in LeaseToken /\ k \in DOMAIN rows /\ rows[k] \in StoredRun
      /\ rows[k].lease # NULL /\ rows[k].lease \in LeaseToken /\ held[w] # NULL
  BY HeldRow DEF renew, LeaseMatches, StoredRun
<1>2. x \in Nat
  BY DeliveryAssumption
<1>3. /\ rows' = [rows EXCEPT ![k] = new] /\ held' = [held EXCEPT ![w] = t]
      /\ UNCHANGED <<fence_seq, baseline, sends>>
  BY DEF renew
<1>4. /\ t \in LeaseToken /\ t.run_key = k /\ t.fence = held[w].fence
      /\ l \in LeaseToken /\ l.fence = rows[k].lease.fence /\ l # NULL /\ t # NULL
  BY <1>1, <1>2, RenewFacts, DeliveryAssumption
<1> HIDE DEF t, l, x
<1>5. /\ new \in StoredRun /\ new.lease = l /\ new.status = rows[k].status
      /\ new.generation = rows[k].generation /\ new.receipt = rows[k].receipt /\ new.spec = rows[k].spec
  BY <1>1, <1>4, LeasedFacts
<1> HIDE DEF new
<1>6. /\ DOMAIN rows' = DOMAIN rows /\ rows'[k] = new
      /\ \A j \in DOMAIN rows : j # k => rows'[j] = rows[j]
      /\ held'[w] = t /\ \A v \in Worker : v # w => held'[v] = held[v]
  BY <1>1, <1>3 DEF Tables, TypeOK
<1>7. TypeOK'
  BY <1>3, <1>4, <1>5, <1>6 DEF Tables, TypeOK
<1>8. SchemaChecks'
  BY <1>1, <1>4, <1>5, <1>6 DEF Tables, SchemaChecks
<1>9. FencesIssued'
  BY <1>1, <1>3, <1>4, <1>5, <1>6 DEF Tables, FencesIssued
<1>10. FencesUnique'
  BY <1>1, <1>4, <1>5, <1>6 DEF Tables, FencesUnique
<1>11. PlansAreValid'
  BY <1>5, <1>6 DEF Tables, PlansAreValid
<1>12. Stays
  BY <1>1, <1>3, <1>5, LeaseOnly
<1>13. QED
  BY <1>7, <1>8, <1>9, <1>10, <1>11, <1>12 DEF Tables

\* A lease is given back only where no attempt is in flight.
LEMMA ReleaseStep ==
  ASSUME Tables, NEW w \in Worker, NEW now \in Now, release(w, now)
  PROVE  Tables' /\ Stays
<1> DEFINE k == held[w].run_key
           new == Released(rows[k])
<1>1. k \in DOMAIN rows /\ rows[k] \in StoredRun
  BY HeldRow DEF release
<1>2. /\ rows' = [rows EXCEPT ![k] = new] /\ UNCHANGED <<fence_seq, baseline, held, sends>>
      /\ rows[k].status \notin {"delivering", "delivered"}
  BY DEF release
<1>3. /\ new \in StoredRun /\ new.lease = NULL /\ new.status = rows[k].status
      /\ new.generation = rows[k].generation /\ new.receipt = rows[k].receipt /\ new.spec = rows[k].spec
  BY <1>1, ReleasedFacts
<1> HIDE DEF new, k
<1>4. RowInOrder(new)
  BY <1>1, <1>2, <1>3 DEF RowInOrder, Tables, SchemaChecks
<1>5. sends' \subseteq Send /\ baseline' \in ScheduledBaseline \cup {NULL}
  BY <1>2 DEF Tables, TypeOK
<1>6. QED
  BY <1>1, <1>2, <1>3, <1>4, <1>5, OneRow, LeaseOnly

\* A send permitted to a worker is well formed.
LEMMA PermitType ==
  ASSUME Tables, NEW w \in Worker, held[w] # NULL, NEW g \in Nat, Permit(w, g)
  PROVE  sends' \subseteq Send
<1>1. held[w] \in LeaseToken
  BY HeldRow
<1>2. [run |-> held[w].run_key, generation |-> g, worker |-> w, fence |-> held[w].fence] \in Send
  BY <1>1 DEF Send, LeaseToken
<1>3. QED
  BY <1>2 DEF Permit, Tables, TypeOK

\* The UPDATE of begin_delivery moves a planned or failed run into flight,
\* under the lease that it compared.
LEMMA BeginStep ==
  ASSUME Tables, NEW w \in Worker, NEW now \in Now, NEW g \in Generation, BeginApplied(w, now, g)
  PROVE  Tables' /\ Moves
<1> DEFINE k == held[w].run_key
           new == Started(rows[k])
<1>1. k \in DOMAIN rows /\ rows[k] \in StoredRun /\ k \in RunKey
  BY HeldRow DEF BeginApplied
<1>2. /\ rows' = [rows EXCEPT ![k] = new] /\ UNCHANGED <<fence_seq, baseline, held>>
      /\ rows[k].lease # NULL /\ rows[k].status \in {"planned", "failed"}
      /\ held[w] # NULL /\ Permit(w, g + 1)
  BY DEF BeginApplied, LeaseMatches
<1>3. /\ new \in StoredRun /\ new.lease = rows[k].lease /\ new.status = "delivering"
      /\ new.generation = rows[k].generation + 1 /\ new.receipt = rows[k].receipt
      /\ new.spec = rows[k].spec
  BY <1>1, StartedFacts
<1> HIDE DEF new, k
<1>4. RowInOrder(new)
  BY <1>1, <1>2, <1>3 DEF RowInOrder, Tables, SchemaChecks
<1>5. g + 1 \in Nat
  BY StoreAssumption DEF Generation
<1>6. sends' \subseteq Send /\ baseline' \in ScheduledBaseline \cup {NULL}
  BY <1>2, <1>5, PermitType DEF Tables, TypeOK
<1>7. Tables'
  BY <1>1, <1>2, <1>3, <1>4, <1>6, OneRow
<1>8. Attempts(k)
  <2>1. /\ DOMAIN rows' = DOMAIN rows /\ rows'[k] = new
        /\ \A j \in DOMAIN rows : j # k => rows'[j] = rows[j]
    BY <1>1, <1>2 DEF Tables, TypeOK
  <2>2. QED
    BY <1>1, <1>2, <1>3, <2>1 DEF Attempts, Passes, Same
<1>9. QED
  BY <1>1, <1>7, <1>8 DEF Moves

\* The second look of begin_delivery writes nothing.
LEMMA BegunStep ==
  ASSUME Tables, NEW w \in Worker, NEW g \in Generation, BeginAlreadyApplied(w, g)
  PROVE  Tables' /\ Stays
<1>1. held[w] # NULL /\ Permit(w, g) /\ UNCHANGED <<fence_seq, rows, baseline, held>>
  BY DEF BeginAlreadyApplied
<1>2. g \in Nat
  BY StoreAssumption DEF Generation
<1>3. sends' \subseteq Send
  BY <1>1, <1>2, PermitType
<1>4. TypeOK'
  BY <1>1, <1>3 DEF Tables, TypeOK
<1>5. SchemaChecks' /\ FencesIssued' /\ FencesUnique' /\ PlansAreValid'
  BY <1>1 DEF Tables, SchemaChecks, FencesIssued, FencesUnique, PlansAreValid
<1>6. QED
  BY <1>1, <1>4, <1>5 DEF Tables, Stays, Same

\* An attempt that ends without a receipt, by its holder or by recovery.
LEMMA ConcludeStep ==
  ASSUME Tables, NEW k \in DOMAIN rows, NEW status \in {"failed", "ambiguous"},
         rows[k].status = "delivering",
         rows' = [rows EXCEPT ![k] = Released(Advance(@, status))],
         UNCHANGED <<fence_seq, baseline, held, sends>>
  PROVE  Tables' /\ Moves
<1> DEFINE new == Released(Advance(rows[k], status))
<1>1. rows[k] \in StoredRun /\ k \in RunKey
  BY DEF Tables, TypeOK
<1>2. /\ new \in StoredRun /\ new.lease = NULL /\ new.status = status
      /\ new.generation = rows[k].generation + 1 /\ new.receipt = rows[k].receipt
      /\ new.spec = rows[k].spec
  BY <1>1, ConcludedFacts DEF DeliveryStatus
<1>3. rows' = [rows EXCEPT ![k] = new]
  OBVIOUS
<1> HIDE DEF new
<1>4. RowInOrder(new)
  BY <1>2 DEF RowInOrder, Tables, SchemaChecks
<1>5. sends' \subseteq Send /\ baseline' \in ScheduledBaseline \cup {NULL}
  BY DEF Tables, TypeOK
<1>6. Tables'
  BY <1>2, <1>3, <1>4, <1>5, OneRow
<1>7. Concludes(k)
  <2>1. /\ DOMAIN rows' = DOMAIN rows /\ rows'[k] = new
        /\ \A j \in DOMAIN rows : j # k => rows'[j] = rows[j]
    BY <1>3 DEF Tables, TypeOK
  <2>2. QED
    BY <1>2, <2>1 DEF Concludes, Passes, Same
<1>8. QED
  BY <1>1, <1>6, <1>7 DEF Moves

\* A receipt closes the run and reconciles the baseline in one transaction.
LEMMA ReceiptStep ==
  ASSUME Tables, NEW w \in Worker, NEW now \in Now, NEW g \in Generation, NEW r \in Receipt,
         record_receipt(w, now, g, r)
  PROVE  Tables' /\ Moves
<1> DEFINE k == held[w].run_key
           new == Released(Delivered(rows[k], r))
           effect == baseline_replacement(baseline, rows[k].spec, r)
<1>1. k \in DOMAIN rows /\ rows[k] \in StoredRun /\ k \in RunKey /\ rows[k].spec \in Plan
  BY HeldRow DEF record_receipt, StoredRun
<1>2. /\ rows' = [rows EXCEPT ![k] = new] /\ UNCHANGED <<fence_seq, held, sends>>
      /\ rows[k].status \in {"delivering", "ambiguous"}
      /\ r.body_digest = rows[k].spec.delivery_digest
      /\ effect # "conflict"
      /\ baseline' = IF effect = "replace" THEN BaselineOf(rows[k].spec, r) ELSE baseline
  BY DEF record_receipt, reconcile_baseline
<1>3. /\ new \in StoredRun /\ new.lease = NULL /\ new.status = "delivered"
      /\ new.generation = rows[k].generation + 1 /\ new.receipt = r
      /\ new.spec = rows[k].spec
  BY <1>1, DeliveredFacts
<1> HIDE DEF new, k
<1>4. RowInOrder(new)
  BY <1>2, <1>3, DeliveryAssumption DEF RowInOrder
<1>5. sends' \subseteq Send
  BY <1>2 DEF Tables, TypeOK
<1>6. baseline' \in ScheduledBaseline \cup {NULL}
  BY <1>1, <1>2, BaselineOfType DEF Tables, TypeOK
<1>7. Tables'
  BY <1>1, <1>2, <1>3, <1>4, <1>5, <1>6, OneRow
<1>8. Confirms(k, r)
  <2>1. /\ DOMAIN rows' = DOMAIN rows /\ rows'[k] = new
        /\ \A j \in DOMAIN rows : j # k => rows'[j] = rows[j]
    BY <1>1, <1>2 DEF Tables, TypeOK
  <2>2. Passes(k, {"delivering", "ambiguous"}, {"delivered"})
    BY <1>1, <1>2, <1>3, <2>1 DEF Passes, Same
  <2>3. QED
    BY <1>2, <1>3, <2>1, <2>2 DEF Confirms
<1>9. QED
  BY <1>1, <1>7, <1>8 DEF Moves

\* Every step keeps the tables in order and is of one of the four kinds.
LEMMA StepKinds == Tables /\ [Next]_vars => Tables' /\ Moves
<1> SUFFICES ASSUME Tables, [Next]_vars
             PROVE  Tables' /\ Moves
  OBVIOUS
<1>1. ASSUME NEW p \in Plan, plan(p)
      PROVE  Tables' /\ Moves
  BY <1>1, PlanStep
<1>2. ASSUME NEW w \in Worker, NEW k \in RunKey, NEW now \in Now, NEW seconds \in Ttl,
             claim(w, k, now, seconds)
      PROVE  Tables' /\ Moves
  BY <1>2, ClaimStep DEF Moves
<1>3. ASSUME NEW k \in RunKey, NEW now \in Now, NEW seconds \in Ttl, ClaimAborts(k, now, seconds)
      PROVE  Tables' /\ Moves
  BY <1>3, AbortStep DEF Moves
<1>4. ASSUME NEW w \in Worker, NEW now \in Now, NEW seconds \in Ttl, renew(w, now, seconds)
      PROVE  Tables' /\ Moves
  BY <1>4, RenewStep DEF Moves
<1>5. ASSUME NEW w \in Worker, NEW now \in Now, release(w, now)
      PROVE  Tables' /\ Moves
  BY <1>5, ReleaseStep DEF Moves
<1>6. ASSUME NEW w \in Worker, NEW now \in Now, NEW g \in Generation, begin_delivery(w, now, g)
      PROVE  Tables' /\ Moves
  BY <1>6, BeginStep, BegunStep DEF Moves, begin_delivery
<1>7. ASSUME NEW w \in Worker, NEW now \in Now, NEW g \in Generation,
             NEW s \in {"failed", "ambiguous"}, mark_attempt_outcome(w, now, g, s)
      PROVE  Tables' /\ Moves
  <2>1. held[w].run_key \in DOMAIN rows
    BY <1>7, HeldRow DEF mark_attempt_outcome
  <2>2. QED
    BY <1>7, <2>1, ConcludeStep DEF mark_attempt_outcome
<1>8. ASSUME NEW k \in RunKey, NEW now \in Now, recover_expired_delivery(k, now)
      PROVE  Tables' /\ Moves
  BY <1>8, ConcludeStep DEF recover_expired_delivery
<1>9. ASSUME NEW w \in Worker, NEW now \in Now, NEW g \in Generation, NEW r \in Receipt,
             record_receipt(w, now, g, r)
      PROVE  Tables' /\ Moves
  BY <1>9, ReceiptStep
<1>10. ASSUME NEW w \in Worker, Restart(w)
       PROVE  Tables' /\ Moves
  <2>1. /\ held'[w] = NULL /\ \A v \in Worker : v # w => held'[v] = held[v]
        /\ held' \in [Worker -> LeaseToken \cup {NULL}]
        /\ UNCHANGED <<fence_seq, rows, baseline, sends>>
    BY <1>10 DEF Restart, Tables, TypeOK
  <2>2. TypeOK' /\ SchemaChecks' /\ PlansAreValid'
    BY <2>1 DEF Tables, TypeOK, SchemaChecks, PlansAreValid
  <2>3. FencesIssued' /\ FencesUnique'
    BY <2>1 DEF Tables, FencesIssued, FencesUnique
  <2>4. QED
    BY <2>1, <2>2, <2>3 DEF Tables, Moves, Stays, Same
<1>11. CASE UNCHANGED vars
  BY <1>11 DEF vars, Tables, TypeOK, SchemaChecks, FencesIssued, FencesUnique, PlansAreValid,
     Moves, Stays, Same
<1>12. QED
  BY <1>1, <1>2, <1>3, <1>4, <1>5, <1>6, <1>7, <1>8, <1>9, <1>10, <1>11 DEF Next

-----------------------------------------------------------------------------
(* The scheduled baseline                                                  *)

\* What a receipt that does not conflict does to the baseline.
LEMMA ReplacementRule ==
  ASSUME NEW p \in Plan, NEW r \in Receipt, NEW b \in ScheduledBaseline \cup {NULL},
         baseline_replacement(b, p, r) # "conflict"
  PROVE  LET effect == baseline_replacement(b, p, r)
             date == scheduled_date(p.scheduled_run_key)
             current == scheduled_date(b.scheduled_run_key)
         IN /\ date \in Nat
            /\ p.mode = "manual" => effect = "keep"
            /\ p.mode # "manual" /\ b = NULL => effect = "replace"
            /\ p.mode # "manual" /\ b # NULL =>
                 /\ current \in Nat
                 /\ date > current => effect = "replace"
                 /\ date < current => effect = "keep"
                 /\ date = current =>
                      /\ effect = "keep" /\ b.plan_digest = p.plan_digest
                      /\ b.delivery_digest = p.delivery_digest /\ b.receipt_id = r.receipt_id
<1> DEFINE date == scheduled_date(p.scheduled_run_key)
           current == scheduled_date(b.scheduled_run_key)
           same == /\ b.plan_digest = p.plan_digest
                   /\ b.delivery_digest = p.delivery_digest
                   /\ b.receipt_id = r.receipt_id
<1>1. date \in Nat
  BY DeliveryAssumption DEF scheduled_date
<1>2. b # NULL => current \in Nat
  BY DeliveryAssumption DEF scheduled_date, ScheduledBaseline
<1>3. baseline_replacement(b, p, r) =
        CASE p.mode = "manual"  -> "keep"
          [] p.mode # "manual" /\ b = NULL -> "replace"
          [] p.mode # "manual" /\ b # NULL /\ date > current -> "replace"
          [] p.mode # "manual" /\ b # NULL /\ date < current -> "keep"
          [] OTHER -> IF same THEN "keep" ELSE "conflict"
  BY DEF baseline_replacement
<1> HIDE DEF date, current, same
<1>4. CASE p.mode = "manual"
  BY <1>1, <1>3, <1>4 DEF date
<1>5. CASE p.mode # "manual" /\ b = NULL
  BY <1>1, <1>3, <1>5 DEF date
<1>6. CASE p.mode # "manual" /\ b # NULL /\ date > current
  BY <1>1, <1>2, <1>3, <1>6 DEF date, current
<1>7. CASE p.mode # "manual" /\ b # NULL /\ date < current
  BY <1>1, <1>2, <1>3, <1>7 DEF date, current
<1>8. CASE p.mode # "manual" /\ b # NULL /\ date = current
  <2>1. baseline_replacement(b, p, r) = IF same THEN "keep" ELSE "conflict"
    BY <1>1, <1>2, <1>3, <1>8
  <2>2. QED
    BY <1>1, <1>2, <1>8, <2>1 DEF date, current, same
<1>9. QED
  BY <1>1, <1>2, <1>4, <1>5, <1>6, <1>7, <1>8

\* As long as no run is confirmed, the baseline has nothing to follow.
LEMMA BaselineKept ==
  ASSUME Tables, BaselineIsConfirmed, Confirmed' = Confirmed, baseline' = baseline,
         \A k \in Confirmed : rows'[k].spec = rows[k].spec /\ rows'[k].receipt = rows[k].receipt
  PROVE  BaselineIsConfirmed'
BY DEF BaselineIsConfirmed

\* A confirmed receipt moves run and baseline together.
LEMMA BaselineConfirms ==
  ASSUME Tables, Tables', BaselineIsConfirmed, NEW k \in RunKey, NEW r \in Receipt, Confirms(k, r)
  PROVE  BaselineIsConfirmed'
<1> DEFINE p == rows[k].spec
           date == scheduled_date(p.scheduled_run_key)
           current == scheduled_date(baseline.scheduled_run_key)
           effect == baseline_replacement(baseline, p, r)
           D(j) == scheduled_date(rows[j].spec.scheduled_run_key)
<1>1. /\ k \in DOMAIN rows /\ DOMAIN rows' = DOMAIN rows
      /\ \A j \in DOMAIN rows \ {k} : Same(j)
      /\ rows'[k].spec = p /\ rows[k].status # "delivered" /\ rows'[k].status = "delivered"
      /\ rows'[k].receipt = r /\ effect # "conflict"
      /\ baseline' = IF effect = "replace" THEN BaselineOf(p, r) ELSE baseline
  BY DEF Confirms, Passes
<1>2. p \in Plan /\ baseline \in ScheduledBaseline \cup {NULL}
  BY <1>1 DEF Tables, TypeOK, StoredRun
<1>3. /\ \A j \in Confirmed : j # k /\ rows'[j].spec = rows[j].spec /\ rows'[j].receipt = rows[j].receipt
      /\ Confirmed' = IF p.mode # "manual" THEN Confirmed \cup {k} ELSE Confirmed
  BY <1>1 DEF Confirmed, Same
<1>4. BaselineOf(p, r) # NULL /\ BaselineOf(p, r).scheduled_run_key = p.scheduled_run_key
  BY <1>2, BaselineOfType, DeliveryAssumption DEF BaselineOf
<1>5. CASE p.mode = "manual"
  <2>1. baseline' = baseline /\ Confirmed' = Confirmed
    BY <1>1, <1>2, <1>3, <1>5, ReplacementRule
  <2>2. QED
    BY <1>3, <2>1, BaselineKept
<1>6. CASE p.mode # "manual" /\ baseline = NULL
  <2>1. Confirmed = {} /\ Confirmed' = {k} /\ baseline' = BaselineOf(p, r)
    BY <1>1, <1>2, <1>3, <1>6, ReplacementRule DEF BaselineIsConfirmed
  <2>2. date \in Nat
    BY <1>1, <1>2, ReplacementRule
  <2>3. QED
    BY <1>1, <1>4, <2>1, <2>2 DEF BaselineIsConfirmed
<1>7. CASE p.mode # "manual" /\ baseline # NULL
  <2>1. /\ date \in Nat /\ current \in Nat
        /\ date > current => baseline' = BaselineOf(p, r)
        /\ ~(date > current) => baseline' = baseline
        /\ date = current => /\ baseline.plan_digest = p.plan_digest
                             /\ baseline.delivery_digest = p.delivery_digest
                             /\ baseline.receipt_id = r.receipt_id
    BY <1>1, <1>2, <1>7, ReplacementRule
  <2>2. /\ \E j \in Confirmed : D(j) = current
        /\ \A j \in Confirmed :
             D(j) <= current /\ (D(j) = current => baseline = BaselineOf(rows[j].spec, rows[j].receipt))
    BY <1>7 DEF BaselineIsConfirmed
  <2>3. \A j \in Confirmed : D(j) \in Nat
    BY DeliveryAssumption DEF Confirmed, scheduled_date, Tables, TypeOK, StoredRun
  <2>4. Confirmed' = Confirmed \cup {k}
    BY <1>3, <1>7
  <2>5. CASE date > current
    <3>1. \A j \in Confirmed : D(j) < date
      BY <2>1, <2>2, <2>3, <2>5
    <3>2. QED
      BY <1>1, <1>3, <1>4, <2>1, <2>3, <2>4, <2>5, <3>1 DEF BaselineIsConfirmed
  <2>6. CASE date < current
    BY <1>1, <1>3, <1>7, <2>1, <2>2, <2>3, <2>4, <2>6 DEF BaselineIsConfirmed
  <2>7. CASE date = current
    <3>1. PICK j \in Confirmed : D(j) = current
      BY <2>2
    <3>2. baseline.scheduled_run_key = rows[j].spec.scheduled_run_key /\ rows[j].spec \in Plan
      BY <2>2, <3>1 DEF BaselineOf, Confirmed, Tables, TypeOK, StoredRun
    <3>3. p.scheduled_run_key[1] = "scheduled" /\ rows[j].spec.scheduled_run_key[1] = "scheduled"
      BY <1>1 DEF Confirmed, Tables, PlansAreValid, validate_plan
    <3>4. p.scheduled_run_key = rows[j].spec.scheduled_run_key
      BY <1>2, <2>7, <3>1, <3>2, <3>3, DeliveryAssumption DEF scheduled_date
    <3>5. baseline = BaselineOf(p, r)
      BY <1>2, <1>7, <2>1, <2>7, <3>2, <3>4 DEF BaselineOf, ScheduledBaseline
    <3>6. QED
      BY <1>1, <1>3, <1>7, <2>1, <2>2, <2>3, <2>4, <2>7, <3>5 DEF BaselineIsConfirmed
  <2>8. QED
    BY <2>1, <2>5, <2>6, <2>7
<1>8. QED
  BY <1>5, <1>6, <1>7

\* The baseline follows the confirmed runs through every step.
LEMMA BaselineStep ==
  ASSUME Tables, Tables', BaselineIsConfirmed, Moves
  PROVE  BaselineIsConfirmed'
<1>1. ASSUME Confirmed' = Confirmed, baseline' = baseline,
             \A j \in Confirmed : Same(j)
      PROVE  BaselineIsConfirmed'
  BY <1>1, BaselineKept DEF Same
<1>2. CASE Stays
  BY <1>1, <1>2 DEF Stays, Same, Confirmed
<1>3. ASSUME NEW k \in RunKey, Enters(k)
      PROVE  BaselineIsConfirmed'
  BY <1>1, <1>3 DEF Enters, Same, Confirmed
<1>4. ASSUME NEW k \in RunKey, Attempts(k) \/ Concludes(k)
      PROVE  BaselineIsConfirmed'
  <2>1. /\ k \in DOMAIN rows /\ DOMAIN rows' = DOMAIN rows /\ baseline' = baseline
        /\ \A j \in DOMAIN rows \ {k} : Same(j)
        /\ rows[k].status # "delivered" /\ rows'[k].status # "delivered"
    BY <1>4 DEF Attempts, Concludes, Passes
  <2>2. QED
    BY <1>1, <2>1 DEF Same, Confirmed
<1>5. ASSUME NEW k \in RunKey, NEW r \in Receipt, Confirms(k, r)
      PROVE  BaselineIsConfirmed'
  BY <1>5, BaselineConfirms
<1>6. QED
  BY <1>2, <1>3, <1>4, <1>5 DEF Moves

-----------------------------------------------------------------------------
(* The theorems                                                            *)

\* An empty store satisfies the invariant.
LEMMA InvInit == Init => IInv
<1> SUFFICES ASSUME Init
             PROVE  IInv
  OBVIOUS
<1>1. TypeOK
  BY StoreAssumption DEF Init, TypeOK
<1>2. SchemaChecks /\ FencesIssued /\ FencesUnique /\ PlansAreValid
  BY DEF Init, SchemaChecks, FencesIssued, FencesUnique, PlansAreValid
<1>3. BaselineIsConfirmed
  BY DEF Init, BaselineIsConfirmed, Confirmed
<1>4. QED
  BY <1>1, <1>2, <1>3 DEF IInv

\* The inductive invariant holds in every reachable state.
THEOREM Invariance == Spec => []IInv
<1>1. IInv /\ [Next]_vars => IInv'
  BY StepKinds, BaselineStep DEF IInv, Tables
<1>2. QED
  BY InvInit, <1>1, PTL DEF Spec

\* The tables hold what their columns allow, for any number of runs and claims.
THEOREM TypeCorrect == Spec => []TypeOK
<1>1. IInv => TypeOK
  BY DEF IInv
<1>2. QED
  BY <1>1, Invariance, PTL

\* The checks of the schema never refuse what an operation writes.
THEOREM SchemaHolds == Spec => []SchemaChecks
<1>1. IInv => SchemaChecks
  BY DEF IInv
<1>2. QED
  BY <1>1, Invariance, PTL

\* No two rows and no two workers ever hold the same fence, whatever owner
\* names the workers use and however many claims are rolled back.
THEOREM FencesAreUnique == Spec => []FencesUnique
<1>1. IInv => FencesUnique
  BY DEF IInv
<1>2. QED
  BY <1>1, Invariance, PTL

\* The baseline is the newest scheduled date that has a committed receipt.
THEOREM BaselineConfirmed == Spec => []BaselineIsConfirmed
<1>1. IInv => BaselineIsConfirmed
  BY DEF IInv
<1>2. QED
  BY <1>1, Invariance, PTL

\* Neither begin_delivery's UPDATE nor its second look at the row lets a run in
\* doubt, or a delivered one, be sent.
THEOREM DoubtIsNotResent == Spec => NoResendInDoubt
<1>1. IInv /\ [Next]_vars =>
        [\A s \in sends' \ sends : rows[s.run].status \notin {"ambiguous", "delivered"}]_vars
  <2> SUFFICES ASSUME IInv, Next, NEW s \in sends' \ sends
               PROVE  rows[s.run].status \notin {"ambiguous", "delivered"}
    BY DEF vars
  <2>1. PICK w \in Worker, now \in Now, g \in Generation : begin_delivery(w, now, g)
    BY DEF Next, plan, claim, ClaimAborts, renew, release, mark_attempt_outcome,
       recover_expired_delivery, record_receipt, Restart
  <2>2. s.run = held[w].run_key
    BY <2>1 DEF begin_delivery, BeginApplied, BeginAlreadyApplied, Permit
  <2>3. QED
    BY <2>1, <2>2 DEF begin_delivery, BeginApplied, BeginAlreadyApplied
<1>2. QED
  BY <1>1, Invariance, PTL DEF Spec, NoResendInDoubt

-----------------------------------------------------------------------------
(* The delivery protocol                                                   *)

phaseMap == [k \in RunKey |-> IF k \in DOMAIN rows THEN rows[k].status ELSE "absent"]
generationMap == [k \in RunKey |-> IF k \in DOMAIN rows THEN rows[k].generation ELSE 0]
receiptMap == [k \in RunKey |-> IF k \in DOMAIN rows THEN rows[k].receipt ELSE NULL]
baseMap == IF baseline = NULL THEN NULL
           ELSE [date |-> scheduled_date(baseline.scheduled_run_key),
                 receipt_id |-> baseline.receipt_id]

\* A row that passes to another status becomes it in the protocol.
LEMMA PassesBecomes ==
  ASSUME Tables, Tables', NEW k \in RunKey, NEW from, NEW to, Passes(k, from, {to})
  PROVE  /\ phaseMap' = [phaseMap EXCEPT ![k] = to]
         /\ generationMap' = [generationMap EXCEPT ![k] = @ + 1]
         /\ phaseMap[k] \in from
         /\ \A x \in RunKey \ {k} : receiptMap'[x] = receiptMap[x]
         /\ receiptMap[k] = rows[k].receipt /\ receiptMap'[k] = rows'[k].receipt
<1>1. /\ k \in DOMAIN rows /\ DOMAIN rows' = DOMAIN rows
      /\ \A j \in DOMAIN rows \ {k} : Same(j)
      /\ rows'[k].generation = rows[k].generation + 1
      /\ rows[k].status \in from /\ rows'[k].status = to
  BY DEF Passes
<1>2. phaseMap' = [phaseMap EXCEPT ![k] = to]
  BY <1>1 DEF phaseMap, Same
<1>3. generationMap' = [generationMap EXCEPT ![k] = @ + 1]
  BY <1>1 DEF generationMap, Same
<1>4. QED
  BY <1>1, <1>2, <1>3 DEF phaseMap, receiptMap, Same

\* A receipt and its baseline are what the protocol allows.
LEMMA ConfirmsBase ==
  ASSUME Tables, Tables', NEW k \in RunKey, NEW r \in Receipt, Confirms(k, r)
  PROVE  \/ baseMap' = baseMap
         \/ /\ baseMap' # NULL /\ baseMap'.receipt_id = r.receipt_id
            /\ baseMap = NULL \/ baseMap'.date > baseMap.date
<1> DEFINE p == rows[k].spec
           effect == baseline_replacement(baseline, p, r)
<1>1. /\ p \in Plan /\ baseline \in ScheduledBaseline \cup {NULL} /\ effect # "conflict"
      /\ baseline' = IF effect = "replace" THEN BaselineOf(p, r) ELSE baseline
  BY DEF Confirms, Passes, Tables, TypeOK, StoredRun
<1>2. CASE effect # "replace"
  BY <1>1, <1>2 DEF baseMap
<1>3. CASE effect = "replace"
  <2>1. /\ baseline' = BaselineOf(p, r) /\ baseline' # NULL
    BY <1>1, <1>3, BaselineOfType, DeliveryAssumption
  <2>2. baseMap' = [date |-> scheduled_date(p.scheduled_run_key), receipt_id |-> r.receipt_id]
    BY <2>1 DEF baseMap, BaselineOf
  <2>3. baseline = NULL \/ scheduled_date(p.scheduled_run_key) > scheduled_date(baseline.scheduled_run_key)
    BY <1>1, <1>3, ReplacementRule
  <2>4. baseMap' # NULL
    <3>1. scheduled_date(p.scheduled_run_key) \in Nat
      BY <1>1, DeliveryAssumption DEF scheduled_date
    <3>2. QED
      BY <2>2, <3>1, DeliveryAssumption
  <2>5. QED
    BY <2>2, <2>3, <2>4 DEF baseMap
<1>4. QED
  BY <1>2, <1>3

\* The store implements the delivery protocol: whatever leases, clocks and
\* rolled-back claims do, a run is attempted only when planned or failed, leaves
\* doubt only by a receipt, and the baseline only moves to later dates with one.
THEOREM StoreImplementsProtocol == Spec => ImplementsProtocol
<1>1. Init => Protocol!ProtocolInit
  BY DEF Init, Protocol!ProtocolInit
<1>2. IInv /\ IInv' /\ [Next]_vars => [Protocol!ProtocolNext]_(Protocol!protocolVars)
  <2> SUFFICES ASSUME IInv, IInv', [Next]_vars
               PROVE  Protocol!ProtocolNext \/ UNCHANGED Protocol!protocolVars
    OBVIOUS
  <2>1. Tables /\ Tables' /\ Moves
    BY StepKinds DEF IInv, Tables
  <2>2. CASE Stays
    <3>1. phaseMap' = phaseMap /\ generationMap' = generationMap /\ receiptMap' = receiptMap
      BY <2>2 DEF Stays, Same, phaseMap, generationMap, receiptMap
    <3>2. baseMap' = baseMap
      BY <2>2 DEF Stays, baseMap
    <3>3. QED
      BY <3>1, <3>2 DEF Protocol!protocolVars, phaseMap, generationMap, receiptMap, baseMap
  <2>3. ASSUME NEW k \in RunKey, Enters(k)
        PROVE  Protocol!Schedule(k)
    <3>1. phaseMap' = [phaseMap EXCEPT ![k] = "planned"] /\ phaseMap[k] = "absent"
      BY <2>3 DEF Enters, Same, phaseMap
    <3>2. generationMap' = generationMap
      BY <2>3 DEF Enters, Same, generationMap
    <3>3. receiptMap' = receiptMap
      BY <2>3 DEF Enters, Same, receiptMap
    <3>4. baseMap' = baseMap
      BY <2>3 DEF Enters, baseMap
    <3>5. QED
      BY <3>1, <3>2, <3>3, <3>4 DEF Protocol!Schedule, phaseMap, generationMap, receiptMap, baseMap
  <2>4. ASSUME NEW k \in RunKey, Attempts(k)
        PROVE  Protocol!Attempt(k)
    <3>1. /\ phaseMap' = [phaseMap EXCEPT ![k] = "delivering"]
          /\ generationMap' = [generationMap EXCEPT ![k] = @ + 1]
          /\ phaseMap[k] \in {"planned", "failed"}
          /\ \A x \in RunKey : receiptMap'[x] = receiptMap[x]
      BY <2>1, <2>4, PassesBecomes DEF Attempts
    <3>2. receiptMap' = receiptMap
      BY <3>1 DEF receiptMap
    <3>3. baseMap' = baseMap
      BY <2>4 DEF Attempts, baseMap
    <3>4. QED
      BY <3>1, <3>2, <3>3
         DEF Protocol!Attempt, Protocol!Becomes, phaseMap, generationMap, receiptMap, baseMap
  <2>5. ASSUME NEW k \in RunKey, Concludes(k)
        PROVE  Protocol!Conclude(k)
    <3>1. PICK to \in {"failed", "ambiguous"} : Passes(k, {"delivering"}, {to})
      BY <2>5 DEF Concludes, Passes
    <3>2. /\ phaseMap' = [phaseMap EXCEPT ![k] = to]
          /\ generationMap' = [generationMap EXCEPT ![k] = @ + 1]
          /\ phaseMap[k] = "delivering"
          /\ \A x \in RunKey : receiptMap'[x] = receiptMap[x]
      <4>1. /\ phaseMap' = [phaseMap EXCEPT ![k] = to]
            /\ generationMap' = [generationMap EXCEPT ![k] = @ + 1]
            /\ phaseMap[k] \in {"delivering"}
            /\ \A x \in RunKey \ {k} : receiptMap'[x] = receiptMap[x]
            /\ receiptMap[k] = rows[k].receipt /\ receiptMap'[k] = rows'[k].receipt
        BY <2>1, <3>1, PassesBecomes, Zenon
      <4>2. QED
        BY <2>5, <4>1 DEF Concludes
    <3>3. receiptMap' = receiptMap
      BY <3>2 DEF receiptMap
    <3>4. baseMap' = baseMap
      BY <2>5 DEF Concludes, baseMap
    <3>5. QED
      BY <3>2, <3>3, <3>4
         DEF Protocol!Conclude, Protocol!Becomes, phaseMap, generationMap, receiptMap, baseMap
  <2>6. ASSUME NEW k \in RunKey, NEW r \in Receipt, Confirms(k, r)
        PROVE  Protocol!Confirm(k)
    <3>1. /\ phaseMap' = [phaseMap EXCEPT ![k] = "delivered"]
          /\ generationMap' = [generationMap EXCEPT ![k] = @ + 1]
          /\ phaseMap[k] \in {"delivering", "ambiguous"}
          /\ \A x \in RunKey \ {k} : receiptMap'[x] = receiptMap[x]
          /\ receiptMap[k] = rows[k].receipt /\ receiptMap'[k] = r
      BY <2>1, <2>6, PassesBecomes DEF Confirms
    <3>2. receiptMap[k] = NULL /\ receiptMap'[k] # NULL
      <4>1. rows[k].receipt = NULL
        BY <2>1, <2>6 DEF Confirms, Passes, Tables, SchemaChecks
      <4>2. QED
        BY <3>1, <4>1, DeliveryAssumption
    <3>3. \/ baseMap' = baseMap
          \/ /\ baseMap' # NULL /\ baseMap'.receipt_id = receiptMap'[k].receipt_id
             /\ baseMap = NULL \/ baseMap'.date > baseMap.date
      BY <2>1, <2>6, <3>1, ConfirmsBase
    <3>4. QED
      BY <3>1, <3>2, <3>3
         DEF Protocol!Confirm, Protocol!Becomes, phaseMap, generationMap, receiptMap, baseMap
  <2>7. QED
    BY <2>1, <2>2, <2>3, <2>4, <2>5, <2>6 DEF Moves, Protocol!ProtocolNext
<1>3. QED
  BY <1>1, <1>2, Invariance, PTL DEF Spec, ImplementsProtocol, Protocol!ProtocolSpec
=============================================================================
