------------------------- MODULE ModelGatewayProofs -------------------------
(***************************************************************************)
(* Proofs about ModelGateway for every set of handlers and replicas, every *)
(* configuration and every set of requests.                                *)
(***************************************************************************)
EXTENDS ModelGateway, FiniteSetTheorems, TLAPS

-----------------------------------------------------------------------------
(* Room in a budget                                                        *)

\* Products of naturals.
LEMMA Products ==
  ASSUME NEW m \in Nat, NEW k \in Nat, NEW n \in Nat, k <= n
  PROVE  m * k \in Nat /\ m * n \in Nat /\ m * k <= m * n
<1>1. PICK d \in Nat : n = k + d
  <2>1. n - k \in Nat /\ n = k + (n - k) OBVIOUS
  <2> QED BY <2>1
<1>2. m * n = m * k + m * d
  BY <1>1
<1>3. m * k \in Nat /\ m * d \in Nat
  OBVIOUS
<1> QED BY <1>2, <1>3

\* Fewer handlers at risk and no more spent: the room remains.
LEMMA RoomShrinks ==
  ASSUME NEW S, IsFiniteSet(S), NEW T \in SUBSET S, NEW m \in Nat, NEW b \in Nat,
         NEW u \in Nat, NEW v \in Nat, v <= u, u + m * Cardinality(S) <= b
  PROVE  v + m * Cardinality(T) <= b
<1>1. Cardinality(S) \in Nat /\ Cardinality(T) \in Nat /\ Cardinality(T) <= Cardinality(S)
  BY FS_Subset, FS_CardinalityType
<1>2. m * Cardinality(T) <= m * Cardinality(S) /\ m * Cardinality(T) \in Nat /\ m * Cardinality(S) \in Nat
  BY <1>1, Products
<1> QED BY <1>2

\* A handler at risk charges at most what was reserved for it.
LEMMA RoomCharged ==
  ASSUME NEW S, IsFiniteSet(S), NEW h \in S, NEW T \in SUBSET (S \ {h}), NEW m \in Nat, NEW b \in Nat,
         NEW u \in Nat, NEW c \in 0..m, u + m * Cardinality(S) <= b
  PROVE  (u + c) + m * Cardinality(T) <= b
<1>1. IsFiniteSet(S \ {h}) /\ Cardinality(S \ {h}) = Cardinality(S) - 1
  BY FS_RemoveElement
<1>2. Cardinality(S) \in Nat /\ Cardinality(S \ {h}) \in Nat
  BY <1>1, FS_CardinalityType
<1>3. m * Cardinality(S) = m * Cardinality(S \ {h}) + m
  BY <1>1, <1>2
<1>4. m * Cardinality(S \ {h}) \in Nat
  BY <1>2
<1>5. (u + c) + m * Cardinality(S \ {h}) <= b
  BY <1>3, <1>4
<1> QED BY <1>1, <1>5, RoomShrinks

\* Within the limit there is room for every handler.
LEMMA RoomWithin ==
  ASSUME NEW S, IsFiniteSet(S), NEW T \in SUBSET S, NEW m \in Nat, NEW u \in Nat, NEW l \in Nat, u <= l
  PROVE  u + m * Cardinality(T) <= l + m * Cardinality(S)
<1>1. Cardinality(S) \in Nat /\ Cardinality(T) \in Nat /\ Cardinality(T) <= Cardinality(S)
  BY FS_Subset, FS_CardinalityType
<1>2. m * Cardinality(T) <= m * Cardinality(S) /\ m * Cardinality(T) \in Nat /\ m * Cardinality(S) \in Nat
  BY <1>1, Products
<1> QED BY <1>2

-----------------------------------------------------------------------------
(* What a step makes of a handler's state                                  *)

Pc == {"idle", "org", "repo", "route", "wait", "call", "record"}

Begun(r) == [Idle EXCEPT !.pc = "org", !.req = r]
Ended(x, o) == [x EXCEPT !.pc = "idle", !.outcome = o]
OrgRead(x, u) == [x EXCEPT !.pc = "repo", !.org_spend = u]
RepoRead(x, u) == [x EXCEPT !.pc = "route", !.repo_spend = u]
Routed(x, n, b) == [x EXCEPT !.pc = "wait", !.index = n, !.over = b]
Called(x) == [x EXCEPT !.pc = "call"]
Answered(x, c) == [x EXCEPT !.pc = "record", !.cost = c]
FailedOver(x, n, t) == [x EXCEPT !.pc = "route", !.index = n, !.tried = t]

\* A state with nothing but its step and its outcome changed.
SameRequest(x, y) ==
  y.req = x.req /\ y.org_spend = x.org_spend /\ y.repo_spend = x.repo_spend

\* A new request.
LEMMA BegunFields ==
  ASSUME NEW r \in Request
  PROVE  Begun(r) \in Local /\ Begun(r).pc = "org" /\ Begun(r).req = r /\ Begun(r).index = 1
<1>1. 0 \in 0..MaxCost
  BY GatewayAssumption
<1> QED BY <1>1 DEF Begun, Idle, Local, Outcome

\* The end of a request.
LEMMA EndedFields ==
  ASSUME NEW x \in Local, NEW o \in Outcome
  PROVE  /\ Ended(x, o) \in Local /\ Ended(x, o).pc = "idle" /\ Ended(x, o).outcome = o
         /\ Ended(x, o).req = x.req /\ Ended(x, o).tried = x.tried
BY Zenon DEF Ended, Local

\* The two reads.
LEMMA ReadFields ==
  ASSUME NEW x \in Local, NEW u \in Nat
  PROVE  /\ OrgRead(x, u) \in Local /\ OrgRead(x, u).pc = "repo"
         /\ OrgRead(x, u).req = x.req /\ OrgRead(x, u).org_spend = u
         /\ OrgRead(x, u).index = x.index
         /\ RepoRead(x, u) \in Local /\ RepoRead(x, u).pc = "route" /\ RepoRead(x, u).req = x.req
         /\ RepoRead(x, u).org_spend = x.org_spend /\ RepoRead(x, u).repo_spend = u
         /\ RepoRead(x, u).index = x.index
BY Zenon DEF OrgRead, RepoRead, Local

\* A route was found.
LEMMA RoutedFields ==
  ASSUME NEW x \in Local, NEW n \in Nat, NEW b \in BOOLEAN
  PROVE  /\ Routed(x, n, b) \in Local /\ Routed(x, n, b).pc = "wait" /\ Routed(x, n, b).index = n
         /\ SameRequest(x, Routed(x, n, b)) /\ Routed(x, n, b).tried = x.tried
BY Zenon DEF Routed, Local, SameRequest

\* A permit was given.
LEMMA CalledFields ==
  ASSUME NEW x \in Local
  PROVE  /\ Called(x) \in Local /\ Called(x).pc = "call" /\ Called(x).index = x.index
         /\ SameRequest(x, Called(x)) /\ Called(x).tried = x.tried
BY Zenon DEF Called, Local, SameRequest

\* The provider answered.
LEMMA AnsweredFields ==
  ASSUME NEW x \in Local, NEW c \in 0..MaxCost
  PROVE  /\ Answered(x, c) \in Local /\ Answered(x, c).pc = "record" /\ Answered(x, c).cost = c
         /\ SameRequest(x, Answered(x, c))
BY Zenon DEF Answered, Local, SameRequest

\* The call failed.
LEMMA FailedOverFields ==
  ASSUME NEW x \in Local, NEW n \in Nat, NEW t \in SUBSET Nat
  PROVE  /\ FailedOver(x, n, t) \in Local /\ FailedOver(x, n, t).pc = "route"
         /\ FailedOver(x, n, t).index = n /\ FailedOver(x, n, t).tried = t
         /\ SameRequest(x, FailedOver(x, n, t))
BY Zenon DEF FailedOver, Local, SameRequest

-----------------------------------------------------------------------------
(* Permits                                                                 *)

Busy == {"call", "record"}

\* One handler moves.
Moved(h, x) == handler' = [handler EXCEPT ![h] = x]

\* The moved handler is in its new state, the others where they were.
LEMMA MovedFields ==
  ASSUME TypeOK, NEW h \in Handler, NEW x \in Local, Moved(h, x)
  PROVE  /\ handler' \in [Handler -> Local] /\ handler'[h] = x
         /\ \A g \in Handler : g # h => handler'[g] = handler[g]
BY DEF TypeOK, Moved

\* Permits and the handlers that hold one are finitely many.
LEMMA HoldingFinite ==
  ASSUME TypeOK, NEW r \in Replica
  PROVE  IsFiniteSet(Holding(r)) /\ Cardinality(Holding(r)) \in Nat /\ permits[r] \in Nat /\ permit_count \in Nat
<1>1. IsFiniteSet(Holding(r)) /\ Cardinality(Holding(r)) \in Nat
  BY GatewayAssumption, FS_Subset, FS_CardinalityType DEF Holding
<1>2. permit_count \in Nat
  BY GatewayAssumption DEF permit_count
<1> QED BY <1>1, <1>2 DEF TypeOK

\* A handler neither gets nor gives back a permit.
LEMMA PermitsKeep ==
  ASSUME TypeOK, PermitsAccounted, NEW h \in Handler, NEW x \in Local, Moved(h, x),
         permits' = permits, handler[h].pc \in Busy <=> x.pc \in Busy
  PROVE  PermitsAccounted' /\ permits' \in [Replica -> 0..permit_count]
<1>1. \A r \in Replica : Holding(r)' = Holding(r)
  BY MovedFields DEF Holding, Busy
<1> QED BY <1>1 DEF PermitsAccounted, TypeOK

\* A handler takes a free permit of its replica.
LEMMA PermitsTake ==
  ASSUME TypeOK, PermitsAccounted, NEW h \in Handler, NEW x \in Local, Moved(h, x),
         permits[ReplicaOf[h]] > 0, permits' = [permits EXCEPT ![ReplicaOf[h]] = @ - 1],
         handler[h].pc \notin Busy, x.pc \in Busy
  PROVE  PermitsAccounted' /\ permits' \in [Replica -> 0..permit_count]
<1> DEFINE q == ReplicaOf[h]
<1>1. q \in Replica
  BY GatewayAssumption
<1>2. Holding(q)' = Holding(q) \cup {h} /\ h \notin Holding(q)
  BY MovedFields DEF Holding, Busy
<1>3. Cardinality(Holding(q)') = Cardinality(Holding(q)) + 1
  BY <1>1, <1>2, HoldingFinite, FS_AddElement
<1>4. \A r \in Replica : r # q => Holding(r)' = Holding(r)
  BY MovedFields DEF Holding, Busy
<1>5. permits' \in [Replica -> 0..permit_count]
  BY <1>1, HoldingFinite DEF TypeOK
<1>6. ASSUME NEW r \in Replica
      PROVE permits'[r] + Cardinality(Holding(r)') = permit_count
  <2>1. CASE r = q
    <3>1. permits'[q] = permits[q] - 1
      BY <1>1 DEF TypeOK
    <3>2. permits[q] + Cardinality(Holding(q)) = permit_count
      BY <1>1 DEF PermitsAccounted
    <3> QED BY <2>1, <1>1, <1>3, <3>1, <3>2, HoldingFinite
  <2>2. CASE r # q
    <3>1. permits'[r] = permits[r]
      BY <2>2 DEF TypeOK
    <3> QED BY <2>2, <1>4, <3>1 DEF PermitsAccounted
  <2> QED BY <2>1, <2>2
<1>7. PermitsAccounted'
  BY <1>6, Zenon DEF PermitsAccounted, permit_count
<1> QED BY <1>5, <1>7

\* A handler gives its permit back.
LEMMA PermitsGive ==
  ASSUME TypeOK, PermitsAccounted, NEW h \in Handler, NEW x \in Local, Moved(h, x),
         permits' = Released(h), handler[h].pc \in Busy, x.pc \notin Busy
  PROVE  PermitsAccounted' /\ permits' \in [Replica -> 0..permit_count]
<1> DEFINE q == ReplicaOf[h]
<1>1. q \in Replica
  BY GatewayAssumption
<1>2. Holding(q)' = Holding(q) \ {h} /\ h \in Holding(q)
  BY MovedFields DEF Holding, Busy
<1>3. Cardinality(Holding(q)') = Cardinality(Holding(q)) - 1 /\ Cardinality(Holding(q)') \in Nat
  BY <1>1, <1>2, HoldingFinite, FS_RemoveElement, FS_CardinalityType
<1>4. \A r \in Replica : r # q => Holding(r)' = Holding(r)
  BY MovedFields DEF Holding, Busy
<1>5. permits[q] + Cardinality(Holding(q)) = permit_count
  BY <1>1 DEF PermitsAccounted
<1>6. permits[q] + 1 \in 0..permit_count
  BY <1>1, <1>3, <1>5, HoldingFinite
<1>7. permits'[q] = permits[q] + 1 /\ \A r \in Replica : r # q => permits'[r] = permits[r]
  BY <1>1 DEF TypeOK, Released
<1>8. permits' \in [Replica -> 0..permit_count]
  BY <1>1, <1>6 DEF TypeOK, Released
<1>9. ASSUME NEW r \in Replica
      PROVE permits'[r] + Cardinality(Holding(r)') = permit_count
  <2>1. CASE r = q
    BY <2>1, <1>1, <1>3, <1>5, <1>7, HoldingFinite
  <2>2. CASE r # q
    BY <2>2, <1>4, <1>7 DEF PermitsAccounted
  <2> QED BY <2>1, <2>2
<1>10. PermitsAccounted'
  BY <1>9, Zenon DEF PermitsAccounted, permit_count
<1> QED BY <1>8, <1>10

-----------------------------------------------------------------------------
(* Budgets                                                                 *)

OrgBound(o) == OrgLimit[o] + MaxCost * Cardinality(Handler)
RepoBound(p) == RepoLimit[p] + MaxCost * Cardinality(Handler)

\* The handlers at risk are finitely many, and the bounds are numbers.
LEMMA RiskFinite ==
  ASSUME TypeOK
  PROVE  /\ \A o \in Org : OrgRisk(o) \subseteq Handler /\ IsFiniteSet(OrgRisk(o)) /\ OrgBound(o) \in Nat
                            /\ OrgLimit[o] \in Nat /\ org_usage[o] \in Nat
         /\ \A p \in Repo : RepoRisk(p) \subseteq Handler /\ IsFiniteSet(RepoRisk(p)) /\ RepoBound(p) \in Nat
                             /\ RepoLimit[p] \in Nat /\ repo_usage[p] \in Nat
         /\ IsFiniteSet(Handler) /\ MaxCost \in Nat
<1>1. IsFiniteSet(Handler) /\ MaxCost \in Nat /\ Cardinality(Handler) \in Nat
  BY GatewayAssumption, FS_CardinalityType
<1>2. MaxCost * Cardinality(Handler) \in Nat
  BY <1>1, Products
<1>3. /\ \A o \in Org : OrgRisk(o) \subseteq Handler /\ IsFiniteSet(OrgRisk(o))
      /\ \A p \in Repo : RepoRisk(p) \subseteq Handler /\ IsFiniteSet(RepoRisk(p))
  BY <1>1, FS_Subset DEF OrgRisk, RepoRisk
<1>4. /\ \A o \in Org : OrgLimit[o] \in Nat /\ org_usage[o] \in Nat
      /\ \A p \in Repo : RepoLimit[p] \in Nat /\ repo_usage[p] \in Nat
  BY GatewayAssumption DEF TypeOK
<1> QED BY <1>1, <1>2, <1>3, <1>4 DEF OrgBound, RepoBound

\* The organisation's room, whether or not the moved handler is at risk: it was
\* before, or is not now, or what is spent is still below the limit.
LEMMA OrgRoomKept ==
  ASSUME TypeOK, BudgetRoom, NEW h \in Handler, NEW x \in Local, Moved(h, x), org_usage' = org_usage,
         NEW o \in Org, RisksOrg(x, o) => RisksOrg(handler[h], o) \/ org_usage[o] <= OrgLimit[o]
  PROVE  org_usage'[o] + MaxCost * Cardinality(OrgRisk(o)') <= OrgBound(o)
<1>1. CASE org_usage[o] <= OrgLimit[o]
  <2>1. OrgRisk(o)' \in SUBSET Handler
    BY DEF OrgRisk
  <2> QED BY <1>1, <2>1, RiskFinite, RoomWithin DEF OrgBound
<1>2. CASE RisksOrg(x, o) => RisksOrg(handler[h], o)
  <2>1. OrgRisk(o)' \in SUBSET OrgRisk(o)
    BY <1>2, MovedFields DEF OrgRisk, RisksOrg
  <2>2. org_usage[o] + MaxCost * Cardinality(OrgRisk(o)) <= OrgBound(o)
    BY DEF BudgetRoom, OrgBound
  <2> QED BY <2>1, <2>2, RiskFinite, RoomShrinks
<1> QED BY <1>1, <1>2

\* The same of a repository.
LEMMA RepoRoomKept ==
  ASSUME TypeOK, BudgetRoom, NEW h \in Handler, NEW x \in Local, Moved(h, x), repo_usage' = repo_usage,
         NEW p \in Repo, RisksRepo(x, p) => RisksRepo(handler[h], p) \/ repo_usage[p] <= RepoLimit[p]
  PROVE  repo_usage'[p] + MaxCost * Cardinality(RepoRisk(p)') <= RepoBound(p)
<1>1. CASE repo_usage[p] <= RepoLimit[p]
  <2>1. RepoRisk(p)' \in SUBSET Handler
    BY DEF RepoRisk
  <2> QED BY <1>1, <2>1, RiskFinite, RoomWithin DEF RepoBound
<1>2. CASE RisksRepo(x, p) => RisksRepo(handler[h], p)
  <2>1. RepoRisk(p)' \in SUBSET RepoRisk(p)
    BY <1>2, MovedFields DEF RepoRisk, RisksRepo
  <2>2. repo_usage[p] + MaxCost * Cardinality(RepoRisk(p)) <= RepoBound(p)
    BY DEF BudgetRoom, RepoBound
  <2> QED BY <2>1, <2>2, RiskFinite, RoomShrinks
<1> QED BY <1>1, <1>2

\* A handler that ends, begins, or goes on with the spend it has read leaves
\* the room as it is.
LEMMA RoomKept ==
  ASSUME TypeOK, BudgetRoom, NEW h \in Handler, NEW x \in Local, Moved(h, x),
         org_usage' = org_usage, repo_usage' = repo_usage,
         \/ x.pc \in {"idle", "org"}
         \/ handler[h].pc \notin {"idle", "org", "repo"} /\ SameRequest(handler[h], x)
  PROVE  BudgetRoom'
<1>1. \A o \in Org : RisksOrg(x, o) => RisksOrg(handler[h], o)
  BY DEF RisksOrg, SameRequest
<1>2. \A p \in Repo : RisksRepo(x, p) => RisksRepo(handler[h], p)
  BY DEF RisksRepo, SameRequest
<1>3. \A o \in Org : org_usage'[o] + MaxCost * Cardinality(OrgRisk(o)') <= OrgBound(o)
  BY <1>1, OrgRoomKept
<1>4. \A p \in Repo : repo_usage'[p] + MaxCost * Cardinality(RepoRisk(p)') <= RepoBound(p)
  BY <1>2, RepoRoomKept
<1> QED BY <1>3, <1>4 DEF BudgetRoom, OrgBound, RepoBound

\* A usage row is written and its handler ends.
LEMMA RoomCharge ==
  ASSUME TypeOK, BudgetRoom, NEW h \in Handler, NEW x \in Local, Moved(h, x), x.pc = "idle",
         handler[h].pc = "record", Relies(handler[h]), Charge(h)
  PROVE  BudgetRoom' /\ org_usage' \in [Org -> Nat] /\ repo_usage' \in [Repo -> Nat]
<1> DEFINE y == handler[h]  c == y.cost  a == y.req.org  b == <<y.req.org, y.req.repo>>
<1>1. y \in Local /\ y.req \in Request /\ c \in 0..MaxCost
  BY DEF TypeOK, Relies, Local
<1>2. a \in Org /\ b \in Repo
  BY <1>1 DEF Org, Repo
<1>3. c > 0 => RisksOrg(y, a) /\ RisksRepo(y, b)
  BY DEF Relies, RisksOrg, RisksRepo
<1>4. /\ org_usage' = [org_usage EXCEPT ![a] = @ + c]
      /\ repo_usage' = [repo_usage EXCEPT ![b] = @ + c]
  BY DEF Charge
<1>5. c \in Nat
  BY <1>1, RiskFinite
<1> HIDE DEF c, b
<1>6. org_usage' \in [Org -> Nat] /\ repo_usage' \in [Repo -> Nat]
  BY <1>2, <1>4, <1>5 DEF TypeOK
<1>7. ASSUME NEW o \in Org
      PROVE org_usage'[o] + MaxCost * Cardinality(OrgRisk(o)') <= OrgBound(o)
  <2>1. OrgRisk(o)' \in SUBSET (OrgRisk(o) \ {h})
    BY MovedFields DEF OrgRisk, RisksOrg
  <2>2. org_usage[o] + MaxCost * Cardinality(OrgRisk(o)) <= OrgBound(o)
    BY DEF BudgetRoom, OrgBound
  <2>3. CASE o = a /\ c > 0
    <3>1. org_usage'[o] = org_usage[o] + c
      BY <2>3, <1>4, <1>2 DEF TypeOK
    <3>2. h \in OrgRisk(o)
      BY <2>3, <1>3 DEF OrgRisk
    <3> QED BY <2>1, <2>2, <3>1, <3>2, <1>1, RiskFinite, RoomCharged DEF c
  <2>4. CASE ~(o = a /\ c > 0)
    <3>1. org_usage'[o] = org_usage[o]
      BY <2>4, <1>4, <1>2, <1>5, RiskFinite DEF TypeOK
    <3> QED BY <2>1, <2>2, <3>1, RiskFinite, RoomShrinks
  <2> QED BY <2>3, <2>4
<1>8. ASSUME NEW p \in Repo
      PROVE repo_usage'[p] + MaxCost * Cardinality(RepoRisk(p)') <= RepoBound(p)
  <2>1. RepoRisk(p)' \in SUBSET (RepoRisk(p) \ {h})
    BY MovedFields DEF RepoRisk, RisksRepo
  <2>2. repo_usage[p] + MaxCost * Cardinality(RepoRisk(p)) <= RepoBound(p)
    BY DEF BudgetRoom, RepoBound
  <2>3. CASE p = b /\ c > 0
    <3>1. repo_usage'[p] = repo_usage[p] + c
      BY <2>3, <1>4, <1>2 DEF TypeOK
    <3>2. h \in RepoRisk(p)
      BY <2>3, <1>3 DEF RepoRisk
    <3> QED BY <2>1, <2>2, <3>1, <3>2, <1>1, RiskFinite, RoomCharged DEF c
  <2>4. CASE ~(p = b /\ c > 0)
    <3>1. CASE p # b
      <4>1. repo_usage'[p] = repo_usage[p]
        BY <3>1, <1>4 DEF TypeOK
      <4> QED BY <2>1, <2>2, <4>1, RiskFinite, RoomShrinks
    <3>2. CASE p = b
      <4>1. c = 0 /\ repo_usage[b] + c = repo_usage[b] /\ repo_usage'[b] = repo_usage[b] + c
        BY <3>2, <2>4, <1>2, <1>4, <1>5, RiskFinite DEF TypeOK
      <4> QED BY <2>1, <2>2, <3>2, <4>1, RiskFinite, RoomShrinks
    <3> QED BY <3>1, <3>2
  <2> QED BY <2>3, <2>4
<1> QED BY <1>6, <1>7, <1>8 DEF BudgetRoom, OrgBound, RepoBound

-----------------------------------------------------------------------------
(* Prices                                                                  *)

\* The elements of a sequence over S are in S.
LEMMA SeqElement ==
  ASSUME NEW S, NEW s \in Seq(S), NEW n \in DOMAIN s
  PROVE  s[n] \in S /\ n \in Nat \ {0} /\ n <= Len(s)
OBVIOUS

\* What is assumed of the prices of a candidate.
LEMMA CandidatePrices ==
  ASSUME NEW r \in Request, NEW n \in DOMAIN Candidates(r)
  PROVE  /\ r.input \in Nat \ {0} /\ r.output \in Nat /\ r.max_cost \in Int \cup {NoLimit}
         /\ ModelAt(r, n).input_cost \in Nat /\ ModelAt(r, n).output_cost \in Nat
         /\ ModelAt(r, n).input_cost = 0 => ModelAt(r, n).output_cost = 0
         /\ \A u \in Usage \cup {<<r.input, r.output>>} :
              estimated_cost_usd(ModelAt(r, n), u[1], u[2]) \in 0..MaxCost
<1>1. Candidates(r) \in Seq(DOMAIN Config.models)
  BY PriceAssumption, Zenon
<1>2. Candidates(r)[n] \in DOMAIN Config.models
  BY <1>1, SeqElement
<1> QED BY <1>2, PriceAssumption, Zenon DEF ModelAt

\* A product of positive numbers is positive.
LEMMA Positive ==
  ASSUME NEW a \in Nat \ {0}, NEW b \in Nat \ {0}, NEW c \in Nat, NEW d \in Nat
  PROVE  a * b + c * d > 0
<1>1. PICK k \in Nat : a = k + 1
  <2>1. a - 1 \in Nat /\ a = (a - 1) + 1 OBVIOUS
  <2> QED BY <2>1
<1>2. a * b = k * b + b
  BY <1>1
<1>3. k * b \in Nat /\ c * d \in Nat
  OBVIOUS
<1> QED BY <1>2, <1>3

\* A free candidate passes every budget check.
LEMMA FreeFits ==
  ASSUME NEW x \in Local, x.req \in Request, NEW n \in DOMAIN Candidates(x.req),
         ModelAt(x.req, n).input_cost = 0
  PROVE  Affordable(x, n)
<1>1. Estimate(x.req, n) = 0
  <2>1. /\ x.req.input \in Nat /\ x.req.output \in Nat
        /\ ModelAt(x.req, n).input_cost = 0 /\ ModelAt(x.req, n).output_cost = 0
    BY CandidatePrices
  <2>2. \A i, o \in Nat : i * 0 + o * 0 = 0
    OBVIOUS
  <2> QED BY <2>1, <2>2, Zenon DEF Estimate, estimated_cost_usd
<1>2. max_cost_usd(x.req.max_cost) # NoLimit => 0 <= max_cost_usd(x.req.max_cost)
  BY CandidatePrices DEF max_cost_usd
<1> QED BY <1>1, <1>2 DEF Affordable, WithinBudget, Fits

\* An answer costs something only if its route was estimated to, and then the
\* spend that was read is below both limits.
LEMMA CostlyIsBelow ==
  ASSUME NEW x \in Local, x.req \in Request, NEW n \in DOMAIN Candidates(x.req), Affordable(x, n),
         NEW u \in Usage \cup {<<x.req.input, x.req.output>>},
         estimated_cost_usd(ModelAt(x.req, n), u[1], u[2]) > 0
  PROVE  x.org_spend < OrgLimit[x.req.org] /\ x.repo_spend < RepoLimit[<<x.req.org, x.req.repo>>]
<1> DEFINE r == x.req  ic == ModelAt(r, n).input_cost  oc == ModelAt(r, n).output_cost
<1>1. /\ r.input \in Nat \ {0} /\ r.output \in Nat /\ ic \in Nat /\ oc \in Nat
      /\ ic = 0 => oc = 0
  BY CandidatePrices
<1>2. u[1] \in Nat /\ u[2] \in Nat
  BY <1>1, GatewayAssumption
<1>3. ic # 0
  BY <1>1, <1>2 DEF estimated_cost_usd
<1>4. Estimate(r, n) > 0 /\ Estimate(r, n) \in Nat
  <2>1. r.input * ic + r.output * oc > 0
    BY <1>1, <1>3, Positive
  <2>2. r.input * ic \in Nat /\ r.output * oc \in Nat
    BY <1>1, Products
  <2> QED BY <2>1, <2>2 DEF Estimate, estimated_cost_usd
<1>5. r.org \in Org /\ <<r.org, r.repo>> \in Repo
  BY DEF Org, Repo
<1>6. OrgLimit[r.org] \in Nat /\ RepoLimit[<<r.org, r.repo>>] \in Nat
  BY <1>5, GatewayAssumption
<1>7. x.org_spend \in Nat /\ x.repo_spend \in Nat
  BY DEF Local
<1>8. Fits(Estimate(r, n), OrgLimit[r.org], x.org_spend)
      /\ Fits(Estimate(r, n), RepoLimit[<<r.org, r.repo>>], x.repo_spend)
  BY DEF Affordable, WithinBudget
<1> QED BY <1>4, <1>6, <1>7, <1>8 DEF Fits

-----------------------------------------------------------------------------
(* Steps                                                                   *)

\* FreeRouteIsTried of one handler.
Served(x) ==
  x.pc = "idle" /\ x.outcome \in {"budget", "upstream"} =>
    FreeTriedBelow(x, Len(Candidates(x.req)) + 1)

\* What is left to show of a step of one handler.
LEMMA StepKeeps ==
  ASSUME IInv, NEW h \in Handler, NEW x \in Local, Moved(h, x), Relies(x), Served(x),
         org_usage' \in [Org -> Nat], repo_usage' \in [Repo -> Nat],
         permits' \in [Replica -> 0..permit_count], waiting' \in [Replica -> Seq(Handler)],
         PermitsAccounted', BudgetRoom'
  PROVE  IInv'
<1>1. /\ handler' \in [Handler -> Local] /\ handler'[h] = x
      /\ \A g \in Handler : g # h => handler'[g] = handler[g]
  BY MovedFields DEF IInv
<1>2. TypeOK'
  BY <1>1, Zenon DEF TypeOK, permit_count
<1>3. HandlerFacts'
  <2>1. \A g \in Handler : Relies(handler'[g])
    BY <1>1, Zenon DEF IInv, HandlerFacts
  <2> QED BY <2>1, Zenon DEF HandlerFacts, Relies, FreeTriedBelow, Affordable
<1>4. FreeRouteIsTried'
  <2>1. \A g \in Handler : Served(handler[g])
    BY Zenon DEF IInv, FreeRouteIsTried, Served
  <2>2. \A g \in Handler : Served(handler'[g])
    BY <1>1, <2>1, Zenon
  <2> QED BY <2>2, Zenon DEF FreeRouteIsTried, Served, FreeTriedBelow
<1> QED BY <1>2, <1>3, <1>4 DEF IInv

\* What the invariant says of one handler.
LEMMA OwnState ==
  ASSUME IInv, NEW h \in Handler
  PROVE  handler[h] \in Local /\ Relies(handler[h]) /\ TypeOK /\ PermitsAccounted /\ BudgetRoom
BY DEF IInv, TypeOK, HandlerFacts

\* The state of an ended request.
LEMMA EndedRelies ==
  ASSUME NEW x \in Local, NEW o \in Outcome
  PROVE  Relies(Ended(x, o)) /\ (o \notin {"budget", "upstream"} => Served(Ended(x, o)))
BY EndedFields DEF Relies, Served

\* A step that ends a request without a permit and without a charge.
LEMMA EndKeeps ==
  ASSUME IInv, NEW h \in Handler, NEW o \in Outcome, Finish(h, o), Served(Ended(handler[h], o)),
         handler[h].pc \notin Busy, org_usage' = org_usage, repo_usage' = repo_usage,
         permits' = permits, waiting' \in [Replica -> Seq(Handler)]
  PROVE  IInv'
<1> DEFINE x == Ended(handler[h], o)
<1>1. x \in Local /\ x.pc = "idle" /\ Relies(x)
  BY OwnState, EndedFields, EndedRelies
<1>2. Moved(h, x)
  BY Zenon DEF Moved, Finish, Ended
<1> HIDE DEF x
<1>3. PermitsAccounted' /\ permits' \in [Replica -> 0..permit_count]
  BY <1>1, <1>2, OwnState, PermitsKeep DEF Busy
<1>4. BudgetRoom'
  BY <1>1, <1>2, OwnState, RoomKept
<1>5. org_usage' \in [Org -> Nat] /\ repo_usage' \in [Repo -> Nat]
  BY OwnState DEF TypeOK
<1>6. Served(x)
  BY DEF x
<1> QED BY <1>1, <1>2, <1>3, <1>4, <1>5, <1>6, StepKeeps

\* A step that ends a request and gives its permit back, with or without a row.
LEMMA ReleaseKeeps ==
  ASSUME IInv, NEW h \in Handler, NEW o \in Outcome \ {"budget", "upstream"}, Finish(h, o),
         handler[h].pc \in Busy, NoCharge \/ (handler[h].pc = "record" /\ Charge(h)),
         permits' = Released(h), waiting' = waiting
  PROVE  IInv'
<1> DEFINE x == Ended(handler[h], o)
<1>1. x \in Local /\ x.pc = "idle" /\ Relies(x) /\ Served(x)
  BY OwnState, EndedFields, EndedRelies
<1>2. Moved(h, x)
  BY Zenon DEF Moved, Finish, Ended
<1> HIDE DEF x
<1>3. PermitsAccounted' /\ permits' \in [Replica -> 0..permit_count]
  BY <1>1, <1>2, OwnState, PermitsGive DEF Busy
<1>4. BudgetRoom' /\ org_usage' \in [Org -> Nat] /\ repo_usage' \in [Repo -> Nat]
  <2>1. CASE NoCharge
    BY <2>1, <1>1, <1>2, OwnState, RoomKept DEF NoCharge, TypeOK
  <2>2. CASE handler[h].pc = "record" /\ Charge(h)
    BY <2>2, <1>1, <1>2, OwnState, RoomCharge
  <2> QED BY <2>1, <2>2
<1>5. waiting' \in [Replica -> Seq(Handler)]
  BY OwnState DEF TypeOK
<1> QED BY <1>1, <1>2, <1>3, <1>4, <1>5, StepKeeps

\* A step on the way of a request that changes neither sums nor permits.
LEMMA GoOnKeeps ==
  ASSUME IInv, NEW h \in Handler, NEW x \in Local, Moved(h, x), Relies(x), x.pc # "idle",
         BudgetRoom', org_usage' = org_usage, repo_usage' = repo_usage, permits' = permits,
         handler[h].pc \in Busy <=> x.pc \in Busy, waiting' \in [Replica -> Seq(Handler)]
  PROVE  IInv'
<1>1. PermitsAccounted' /\ permits' \in [Replica -> 0..permit_count]
  BY OwnState, PermitsKeep
<1>2. org_usage' \in [Org -> Nat] /\ repo_usage' \in [Repo -> Nat] /\ Served(x)
  BY OwnState DEF TypeOK, Served
<1> QED BY <1>1, <1>2, StepKeeps

\* A request arrives.
LEMMA ReceiveKeeps ==
  ASSUME IInv, NEW h \in Handler, NEW r \in Request, Receive(h, r)
  PROVE  IInv'
<1> DEFINE x == Begun(r)
<1>1. x \in Local /\ x.pc = "org" /\ x.req = r /\ x.index = 1
  BY BegunFields
<1>2. Moved(h, x)
  BY Zenon DEF Receive, Moved, Begun
<1> HIDE DEF x
<1>3. /\ org_usage' = org_usage /\ repo_usage' = repo_usage /\ permits' = permits
      /\ waiting' \in [Replica -> Seq(Handler)] /\ handler[h].pc = "idle"
  BY OwnState DEF Receive, TypeOK
<1>4. Relies(x)
  BY <1>1 DEF Relies
<1>5. BudgetRoom'
  BY <1>1, <1>2, <1>3, OwnState, RoomKept
<1> QED BY <1>1, <1>2, <1>3, <1>4, <1>5, GoOnKeeps DEF Busy

\* The organisation's spend is read: at risk is who read less than the limit.
LEMMA ReadOrgKeeps ==
  ASSUME IInv, NEW h \in Handler, ReadOrg(h)
  PROVE  IInv'
<1> DEFINE y == handler[h]  o == y.req.org  x == OrgRead(y, org_usage[o])
<1>1. y \in Local /\ Relies(y) /\ y.pc = "org" /\ y.req \in Request /\ y.index = 1
  BY OwnState DEF ReadOrg, Relies
<1>2. org_usage[o] \in Nat
  BY <1>1, OwnState DEF Org, TypeOK
<1>3. x \in Local /\ x.pc = "repo" /\ x.req = y.req /\ x.org_spend = org_usage[o] /\ x.index = 1
  BY <1>1, <1>2, ReadFields
<1>4. Moved(h, x)
  BY Zenon DEF ReadOrg, Moved, OrgRead
<1> HIDE DEF x
<1>5. /\ org_usage' = org_usage /\ repo_usage' = repo_usage /\ permits' = permits
      /\ waiting' \in [Replica -> Seq(Handler)]
  BY OwnState DEF ReadOrg, TypeOK
<1>6. Relies(x)
  BY <1>1, <1>3 DEF Relies
<1>7. \A a \in Org : RisksOrg(x, a) => org_usage[a] <= OrgLimit[a]
  BY <1>3, OwnState, RiskFinite DEF RisksOrg
<1>8. \A p \in Repo : ~RisksRepo(x, p)
  BY <1>3 DEF RisksRepo
<1>9. BudgetRoom'
  <2>1. \A a \in Org : org_usage'[a] + MaxCost * Cardinality(OrgRisk(a)') <= OrgBound(a)
    BY <1>3, <1>4, <1>5, <1>7, OwnState, OrgRoomKept
  <2>2. \A p \in Repo : repo_usage'[p] + MaxCost * Cardinality(RepoRisk(p)') <= RepoBound(p)
    BY <1>3, <1>4, <1>5, <1>8, OwnState, RepoRoomKept
  <2> QED BY <2>1, <2>2 DEF BudgetRoom, OrgBound, RepoBound
<1> QED BY <1>1, <1>3, <1>4, <1>5, <1>6, <1>9, GoOnKeeps DEF Busy

\* The repository's spend is read, or there is no candidate.
LEMMA ReadRepoKeeps ==
  ASSUME IInv, NEW h \in Handler, ReadRepo(h)
  PROVE  IInv'
<1> DEFINE y == handler[h]  p == <<y.req.org, y.req.repo>>  x == RepoRead(y, repo_usage[p])
<1>1. y \in Local /\ Relies(y) /\ y.pc = "repo" /\ y.req \in Request /\ y.index = 1
  BY OwnState DEF ReadRepo, Relies
<1>2. repo_usage[p] \in Nat
  BY <1>1, OwnState DEF Repo, TypeOK
<1>3. /\ x \in Local /\ x.pc = "route" /\ x.req = y.req /\ x.org_spend = y.org_spend
      /\ x.repo_spend = repo_usage[p] /\ x.index = 1
  BY <1>1, <1>2, ReadFields
<1>4. Finish(h, "no_route") \/ Moved(h, x)
  BY Zenon DEF ReadRepo, Moved, RepoRead
<1> HIDE DEF x
<1>5. /\ org_usage' = org_usage /\ repo_usage' = repo_usage /\ permits' = permits
      /\ waiting' \in [Replica -> Seq(Handler)]
  BY OwnState DEF ReadRepo, TypeOK
<1>6. CASE Finish(h, "no_route")
  <2>1. "no_route" \in Outcome /\ y.pc \notin Busy
    BY <1>1 DEF Outcome, Busy
  <2>2. Served(Ended(y, "no_route"))
    BY <1>1, <2>1, EndedRelies
  <2> QED BY <1>5, <1>6, <2>1, <2>2, EndKeeps
<1>7. CASE Moved(h, x)
  <2>1. Relies(x)
    <3>1. Candidates(x.req) \in Seq(DOMAIN Config.models)
      BY <1>1, <1>3, PriceAssumption, Zenon
    <3>2. FreeTriedBelow(x, 1)
      BY <3>1, SeqElement DEF FreeTriedBelow
    <3> QED BY <1>1, <1>3, <3>2 DEF Relies
  <2>2. \A a \in Org : RisksOrg(x, a) => RisksOrg(y, a)
    BY <1>1, <1>3 DEF RisksOrg
  <2>3. \A q \in Repo : RisksRepo(x, q) => repo_usage[q] <= RepoLimit[q]
    <3> SUFFICES ASSUME NEW q \in Repo, RisksRepo(x, q) PROVE repo_usage[q] <= RepoLimit[q]
      OBVIOUS
    <3>1. p = q /\ x.repo_spend < RepoLimit[q]
      BY <1>3 DEF RisksRepo
    <3> QED BY <1>3, <3>1, OwnState, RiskFinite
  <2>4. BudgetRoom'
    <3>1. \A a \in Org : org_usage'[a] + MaxCost * Cardinality(OrgRisk(a)') <= OrgBound(a)
      BY <1>3, <1>7, <1>5, <2>2, OwnState, OrgRoomKept
    <3>2. \A q \in Repo : repo_usage'[q] + MaxCost * Cardinality(RepoRisk(q)') <= RepoBound(q)
      BY <1>3, <1>7, <1>5, <2>3, OwnState, RepoRoomKept
    <3> QED BY <3>1, <3>2 DEF BudgetRoom, OrgBound, RepoBound
  <2> QED BY <1>1, <1>3, <1>5, <1>7, <2>1, <2>4, GoOnKeeps DEF Busy
<1> QED BY <1>4, <1>6, <1>7

\* A failed read ends the request.
LEMMA ReadFailsKeeps ==
  ASSUME IInv, NEW h \in Handler, ReadFails(h)
  PROVE  IInv'
<1>1. /\ org_usage' = org_usage /\ repo_usage' = repo_usage /\ permits' = permits
      /\ waiting' \in [Replica -> Seq(Handler)] /\ Finish(h, "internal")
      /\ handler[h].pc \notin Busy /\ "internal" \in Outcome
  BY OwnState DEF ReadFails, TypeOK, Busy, Outcome
<1>2. Served(Ended(handler[h], "internal"))
  BY <1>1, OwnState, EndedRelies
<1> QED BY <1>1, <1>2, EndKeeps

\* A free candidate from the handler's index on is one it may call.
LEMMA FreeIsFitting ==
  ASSUME NEW x \in Local, x.req \in Request, NEW m \in DOMAIN Candidates(x.req), m >= x.index,
         Reachable(x.req, m), Eligible(x.req, m), ModelAt(x.req, m).input_cost = 0
  PROVE  m \in Fitting(x)
BY FreeFits DEF Fitting, Left

\* The loop finds a route: every free candidate before it was called.
LEMMA RouteFoundKeeps ==
  ASSUME IInv, NEW h \in Handler, RouteFound(h)
  PROVE  IInv'
<1> DEFINE y == handler[h]
           skipped(n) == y.over \/ \E m \in Left(y) \ Fitting(y) : m < n
<1>1. y \in Local /\ Relies(y) /\ y.pc = "route" /\ y.req \in Request /\ y.index \in Nat
  BY OwnState DEF RouteFound, Relies, Local
<1>2. PICK n \in Fitting(y), b \in BOOLEAN :
        /\ \A m \in Fitting(y) : n <= m
        /\ Moved(h, Routed(y, n, b))
  <2>1. PICK n \in Fitting(y) :
          /\ \A m \in Fitting(y) : n <= m
          /\ Moved(h, Routed(y, n, skipped(n)))
    BY Zenon DEF RouteFound, Moved, Routed
  <2>2. skipped(n) \in BOOLEAN
    BY <1>1, Zenon DEF Local
  <2> HIDE DEF skipped
  <2> QED BY <2>1, <2>2
<1>3. Candidates(y.req) \in Seq(DOMAIN Config.models)
  BY <1>1, PriceAssumption, Zenon
<1>4. n \in DOMAIN Candidates(y.req) /\ Affordable(y, n) /\ n \in Nat
  BY <1>3, SeqElement DEF Fitting, Left
<1> DEFINE x == Routed(y, n, b)
<1>5. y \in Local /\ n \in Nat /\ b \in BOOLEAN
  BY <1>1, <1>2, <1>4
<1> HIDE DEF y
<1>6. x \in Local /\ x.pc = "wait" /\ x.index = n /\ SameRequest(y, x) /\ x.tried = y.tried
  BY <1>5, RoutedFields, Zenon
<1> USE DEF y
<1>7. Moved(h, x)
  BY <1>2
<1> HIDE DEF x
<1>8. FreeTriedBelow(x, n)
  <2> SUFFICES ASSUME NEW m \in DOMAIN Candidates(x.req), m < n, Reachable(x.req, m),
                      Eligible(x.req, m), ModelAt(x.req, m).input_cost = 0
               PROVE  m \in x.tried
    BY DEF FreeTriedBelow
  <2>1. x.req = y.req /\ m \in Nat
    BY <1>3, <1>6, SeqElement DEF SameRequest
  <2>2. CASE m < y.index
    BY <1>1, <1>6, <2>1, <2>2 DEF Relies, FreeTriedBelow
  <2>3. CASE m >= y.index
    BY <1>1, <1>2, <1>4, <2>1, <2>3, FreeIsFitting
  <2> QED BY <1>1, <2>1, <2>2, <2>3
<1>9. Affordable(x, n)
  BY <1>4, <1>6 DEF SameRequest, Affordable
<1>10. Relies(x)
  BY <1>1, <1>4, <1>6, <1>8, <1>9 DEF SameRequest, Relies
<1>11. /\ org_usage' = org_usage /\ repo_usage' = repo_usage /\ permits' = permits
       /\ waiting' \in [Replica -> Seq(Handler)]
  BY OwnState, GatewayAssumption DEF RouteFound, TypeOK
<1>12. BudgetRoom'
  BY <1>1, <1>6, <1>7, <1>11, OwnState, RoomKept
<1> QED BY <1>1, <1>6, <1>7, <1>10, <1>11, <1>12, GoOnKeeps DEF Busy

\* The loop ends: every free candidate was called.
LEMMA NoRouteFoundKeeps ==
  ASSUME IInv, NEW h \in Handler, NoRouteFound(h)
  PROVE  IInv'
<1> DEFINE y == handler[h]
<1>1. y \in Local /\ Relies(y) /\ y.pc = "route" /\ y.req \in Request /\ y.index \in Nat
  BY OwnState DEF NoRouteFound, Relies, Local
<1>2. PICK o \in {"budget", "upstream"} : Finish(h, o)
  BY Zenon DEF NoRouteFound
<1>3. Candidates(y.req) \in Seq(DOMAIN Config.models)
  BY <1>1, PriceAssumption, Zenon
<1>4. FreeTriedBelow(y, Len(Candidates(y.req)) + 1)
  <2> SUFFICES ASSUME NEW m \in DOMAIN Candidates(y.req), Reachable(y.req, m),
                      Eligible(y.req, m), ModelAt(y.req, m).input_cost = 0
               PROVE  m \in y.tried
    BY DEF FreeTriedBelow
  <2>1. m \in Nat
    BY <1>3, SeqElement
  <2>2. CASE m < y.index
    BY <1>1, <2>2 DEF Relies, FreeTriedBelow
  <2>3. CASE m >= y.index
    BY <1>1, <2>3, FreeIsFitting DEF NoRouteFound
  <2> QED BY <1>1, <2>1, <2>2, <2>3
<1>5. o \in Outcome
  BY DEF Outcome
<1>6. Served(Ended(y, o))
  BY <1>1, <1>4, <1>5, EndedFields DEF Served, FreeTriedBelow
<1>7. /\ org_usage' = org_usage /\ repo_usage' = repo_usage /\ permits' = permits
      /\ waiting' \in [Replica -> Seq(Handler)] /\ y.pc \notin Busy
  BY <1>1, OwnState DEF NoRouteFound, TypeOK, Busy
<1> QED BY <1>2, <1>5, <1>6, <1>7, EndKeeps

\* The first of the waiting handlers gets a permit.
LEMMA AcquireKeeps ==
  ASSUME IInv, NEW h \in Handler, Acquire(h)
  PROVE  IInv'
<1> DEFINE y == handler[h]  x == Called(y)
<1>1. y \in Local /\ Relies(y) /\ y.pc = "wait" /\ ReplicaOf[h] \in Replica
  BY OwnState, GatewayAssumption DEF Acquire
<1>2. Moved(h, x)
  BY Zenon DEF Acquire, Goto, Moved, Called
<1> HIDE DEF y
<1>3. x \in Local /\ x.pc = "call" /\ x.index = y.index /\ SameRequest(y, x) /\ x.tried = y.tried
  BY <1>1, CalledFields, Zenon
<1> USE DEF y
<1> HIDE DEF x
<1>4. Relies(x) /\ Served(x)
  BY <1>1, <1>3 DEF Relies, Served, SameRequest, FreeTriedBelow, Affordable
<1>5. PermitsAccounted' /\ permits' \in [Replica -> 0..permit_count]
  <2>1. permits[ReplicaOf[h]] > 0 /\ permits' = [permits EXCEPT ![ReplicaOf[h]] = @ - 1]
    BY DEF Acquire
  <2> QED BY <1>1, <1>2, <1>3, <2>1, OwnState, PermitsTake DEF Busy
<1>6. org_usage' = org_usage /\ repo_usage' = repo_usage
  BY DEF Acquire
<1>7. BudgetRoom'
  BY <1>1, <1>2, <1>3, <1>6, OwnState, RoomKept
<1>8. org_usage' \in [Org -> Nat] /\ repo_usage' \in [Repo -> Nat]
  BY <1>6, OwnState DEF TypeOK
<1>9. waiting' \in [Replica -> Seq(Handler)]
  <2>1. /\ waiting \in [Replica -> Seq(Handler)] /\ waiting[ReplicaOf[h]] # <<>>
        /\ waiting' = [waiting EXCEPT ![ReplicaOf[h]] = Tail(@)]
    BY OwnState DEF Acquire, TypeOK
  <2>2. Tail(waiting[ReplicaOf[h]]) \in Seq(Handler)
    BY <1>1, <2>1
  <2> QED BY <2>1, <2>2
<1> QED BY <1>2, <1>3, <1>4, <1>5, <1>7, <1>8, <1>9, StepKeeps

\* The provider answers: a cost is charged only below the limits that were read.
LEMMA CallAnsweredKeeps ==
  ASSUME IInv, NEW h \in Handler, CallAnswered(h)
  PROVE  IInv'
<1> DEFINE y == handler[h]
           price(u) == estimated_cost_usd(ModelAt(y.req, y.index), u[1], u[2])
<1>1. /\ y \in Local /\ Relies(y) /\ y.pc = "call" /\ y.req \in Request
      /\ y.index \in DOMAIN Candidates(y.req) /\ Affordable(y, y.index)
  BY OwnState DEF CallAnswered, Relies
<1>2. PICK u \in Usage \cup {<<y.req.input, y.req.output>>} : Moved(h, Answered(y, price(u)))
  BY Zenon DEF CallAnswered, Moved, Answered
<1>3. price(u) \in 0..MaxCost
  BY <1>1, CandidatePrices
<1>4. price(u) > 0 => /\ y.org_spend < OrgLimit[y.req.org]
                      /\ y.repo_spend < RepoLimit[<<y.req.org, y.req.repo>>]
  BY <1>1, CostlyIsBelow
<1>5. PICK c \in 0..MaxCost : c = price(u)
  BY <1>3
<1> DEFINE x == Answered(y, c)
<1>6. Moved(h, x)
  BY <1>2, <1>5
<1> HIDE DEF y
<1>7. x \in Local /\ x.pc = "record" /\ x.cost = c /\ SameRequest(y, x)
  BY <1>1, <1>5, AnsweredFields, Zenon
<1> USE DEF y
<1> HIDE DEF x, price
<1>8. Relies(x)
  BY <1>1, <1>4, <1>5, <1>7 DEF Relies, SameRequest
<1>9. /\ org_usage' = org_usage /\ repo_usage' = repo_usage /\ permits' = permits
      /\ waiting' \in [Replica -> Seq(Handler)]
  BY OwnState DEF CallAnswered, TypeOK
<1>10. BudgetRoom'
  BY <1>1, <1>6, <1>7, <1>9, OwnState, RoomKept
<1> QED BY <1>1, <1>6, <1>7, <1>8, <1>9, <1>10, GoOnKeeps DEF Busy

\* A failed call gives its permit back and is one that was tried.
LEMMA CallFailsKeeps ==
  ASSUME IInv, NEW h \in Handler, CallFails(h)
  PROVE  IInv'
<1> DEFINE y == handler[h]  n == y.index + 1  t == y.tried \cup {y.index}  x == FailedOver(y, n, t)
<1>1. y \in Local /\ Relies(y) /\ y.pc = "call" /\ y.req \in Request
  BY OwnState DEF CallFails, Relies
<1>2. n \in Nat /\ t \in SUBSET Nat /\ y.index \in Nat
  BY <1>1 DEF Local
<1>3. Moved(h, x)
  BY Zenon DEF CallFails, AfterFailure, Moved, FailedOver
<1> HIDE DEF y, n, t
<1>4. x \in Local /\ x.pc = "route" /\ x.index = n /\ x.tried = t /\ SameRequest(y, x)
  BY <1>1, <1>2, FailedOverFields
<1> HIDE DEF x
<1>5. Candidates(y.req) \in Seq(DOMAIN Config.models)
  BY <1>1, PriceAssumption, Zenon
<1>6. FreeTriedBelow(x, n)
  <2> SUFFICES ASSUME NEW m \in DOMAIN Candidates(x.req), m < n, Reachable(x.req, m),
                      Eligible(x.req, m), ModelAt(x.req, m).input_cost = 0
               PROVE  m \in x.tried
    BY DEF FreeTriedBelow
  <2>1. x.req = y.req /\ m \in Nat
    BY <1>4, <1>5, SeqElement DEF SameRequest
  <2>2. m < y.index \/ m = y.index
    BY <1>2, <2>1 DEF n
  <2>3. CASE m < y.index
    BY <1>1, <1>4, <2>1, <2>3 DEF Relies, FreeTriedBelow, t
  <2>4. CASE m = y.index
    BY <1>4, <2>4 DEF t
  <2> QED BY <2>2, <2>3, <2>4
<1>7. Relies(x) /\ Served(x)
  BY <1>1, <1>4, <1>6 DEF Relies, Served, SameRequest
<1> USE DEF y
<1>8. PermitsAccounted' /\ permits' \in [Replica -> 0..permit_count]
  BY <1>1, <1>3, <1>4, OwnState, PermitsGive DEF Busy, CallFails
<1>9. org_usage' = org_usage /\ repo_usage' = repo_usage /\ waiting' = waiting
  BY DEF CallFails
<1>10. BudgetRoom'
  BY <1>1, <1>3, <1>4, <1>9, OwnState, RoomKept
<1>11. /\ org_usage' \in [Org -> Nat] /\ repo_usage' \in [Repo -> Nat]
       /\ waiting' \in [Replica -> Seq(Handler)]
  BY <1>9, OwnState DEF TypeOK
<1> QED BY <1>3, <1>4, <1>7, <1>8, <1>10, <1>11, StepKeeps

\* The usage row is written, or perhaps not, and the request ends.
LEMMA RecordKeeps ==
  ASSUME IInv, NEW h \in Handler, record_usage(h) \/ RecordFails(h)
  PROVE  IInv'
<1>1. /\ handler[h].pc = "record" /\ handler[h].pc \in Busy
      /\ NoCharge \/ (handler[h].pc = "record" /\ Charge(h))
      /\ permits' = Released(h) /\ waiting' = waiting
  BY DEF record_usage, RecordFails, Busy
<1>2. /\ "ok" \in Outcome \ {"budget", "upstream"} /\ "internal" \in Outcome \ {"budget", "upstream"}
      /\ Finish(h, "ok") \/ Finish(h, "internal")
  BY DEF record_usage, RecordFails, Outcome
<1> QED BY <1>1, <1>2, ReleaseKeeps

\* A sequence without one of its elements is a sequence over the same set.
LEMMA Removed ==
  ASSUME NEW S, NEW s \in Seq(S), NEW n \in DOMAIN s
  PROVE  RemoveAt(s, n) \in Seq(S)
<1>1. n \in 1..Len(s) /\ Len(s) \in Nat
  OBVIOUS
<1>2. SubSeq(s, 1, n - 1) \in Seq(S) /\ SubSeq(s, n + 1, Len(s)) \in Seq(S)
  BY <1>1
<1> QED BY <1>2 DEF RemoveAt

\* A handler is dropped at whatever it awaits.
LEMMA DropKeeps ==
  ASSUME IInv, NEW h \in Handler, Drop(h)
  PROVE  IInv'
<1>1. Finish(h, "none") /\ "none" \in Outcome \ {"budget", "upstream"}
  BY DEF Drop, Outcome
<1>2. CASE handler[h].pc \in Busy
  <2>1. /\ permits' = Released(h) /\ waiting' = waiting
        /\ NoCharge \/ (handler[h].pc = "record" /\ Charge(h))
    BY <1>2 DEF Drop, Busy
  <2> QED BY <1>1, <1>2, <2>1, ReleaseKeeps
<1>3. CASE handler[h].pc \notin Busy
  <2>1. org_usage' = org_usage /\ repo_usage' = repo_usage /\ permits' = permits
    BY <1>3 DEF Drop, Busy, NoCharge
  <2>2. Served(Ended(handler[h], "none"))
    BY <1>1, OwnState, EndedRelies
  <2>3. waiting' \in [Replica -> Seq(Handler)]
    <3> DEFINE r == ReplicaOf[h]
    <3>1. waiting \in [Replica -> Seq(Handler)] /\ r \in Replica
      BY OwnState, GatewayAssumption DEF TypeOK
    <3>2. CASE waiting' = waiting
      BY <3>1, <3>2
    <3>3. CASE \E n \in DOMAIN waiting[r] : waiting' = [waiting EXCEPT ![r] = RemoveAt(@, n)]
      <4>1. PICK n \in DOMAIN waiting[r] : waiting' = [waiting EXCEPT ![r] = RemoveAt(waiting[r], n)]
        BY <3>3
      <4>2. RemoveAt(waiting[r], n) \in Seq(Handler)
        BY <3>1, Removed
      <4> QED BY <3>1, <4>1, <4>2
    <3> QED BY <3>2, <3>3 DEF Drop
  <2> QED BY <1>1, <1>3, <2>1, <2>2, <2>3, EndKeeps
<1> QED BY <1>2, <1>3

\* A new day: nothing is spent yet.
LEMMA MidnightKeeps ==
  ASSUME IInv, Midnight
  PROVE  IInv'
<1>1. TypeOK /\ handler' = handler /\ permits' = permits /\ waiting' = waiting
  BY DEF IInv, Midnight
<1>2. TypeOK'
  BY <1>1 DEF Midnight, TypeOK
<1>3. PermitsAccounted'
  BY <1>1 DEF IInv, PermitsAccounted, Holding, permit_count
<1>4. HandlerFacts' /\ FreeRouteIsTried'
  BY <1>1, Zenon DEF IInv, HandlerFacts, FreeRouteIsTried, Relies, FreeTriedBelow, Affordable
<1>5. /\ \A o \in Org : org_usage'[o] = 0 /\ OrgRisk(o)' \in SUBSET Handler
      /\ \A p \in Repo : repo_usage'[p] = 0 /\ RepoRisk(p)' \in SUBSET Handler
  BY DEF Midnight, OrgRisk, RepoRisk
<1>6. /\ \A o \in Org : OrgLimit[o] \in Nat /\ 0 <= OrgLimit[o]
      /\ \A p \in Repo : RepoLimit[p] \in Nat /\ 0 <= RepoLimit[p]
      /\ IsFiniteSet(Handler) /\ MaxCost \in Nat
  BY <1>1, RiskFinite
<1>7. BudgetRoom'
  <2>1. \A o \in Org : org_usage'[o] + MaxCost * Cardinality(OrgRisk(o)')
                          <= OrgLimit[o] + MaxCost * Cardinality(Handler)
    BY <1>5, <1>6, RoomWithin
  <2>2. \A p \in Repo : repo_usage'[p] + MaxCost * Cardinality(RepoRisk(p)')
                           <= RepoLimit[p] + MaxCost * Cardinality(Handler)
    BY <1>5, <1>6, RoomWithin
  <2> QED BY <2>1, <2>2 DEF BudgetRoom
<1> QED BY <1>2, <1>3, <1>4, <1>7 DEF IInv

-----------------------------------------------------------------------------
(* The theorems                                                            *)

\* The first state of a replica: all permits free, nothing spent today.
LEMMA InitHolds ==
  ASSUME Init
  PROVE  IInv
<1>1. permit_count \in Nat /\ 0 \in 0..MaxCost
  BY GatewayAssumption DEF permit_count
<1>2. Idle \in Local /\ Idle.pc = "idle" /\ Idle.outcome = "none"
  BY <1>1 DEF Idle, Local, Outcome
<1>3. \A h \in Handler : handler[h] = Idle
  BY DEF Init
<1>4. TypeOK
  <2>1. handler \in [Handler -> Local]
    BY <1>2 DEF Init
  <2>2. org_usage \in [Org -> Nat] /\ repo_usage \in [Repo -> Nat]
    BY DEF Init
  <2>3. permits \in [Replica -> 0..permit_count]
    BY <1>1 DEF Init
  <2>4. waiting \in [Replica -> Seq(Handler)]
    BY DEF Init
  <2> QED BY <2>1, <2>2, <2>3, <2>4 DEF TypeOK
<1>5. PermitsAccounted
  <2>1. \A r \in Replica : Holding(r) = {} /\ permits[r] = permit_count
    BY <1>2, <1>3 DEF Holding, Init
  <2> QED BY <1>1, <2>1, FS_EmptySet DEF PermitsAccounted
<1>6. HandlerFacts /\ FreeRouteIsTried
  BY <1>2, <1>3 DEF HandlerFacts, Relies, FreeRouteIsTried
<1>7. BudgetRoom
  <2>1. /\ \A o \in Org : org_usage[o] = 0 /\ OrgRisk(o) \in SUBSET Handler
        /\ \A p \in Repo : repo_usage[p] = 0 /\ RepoRisk(p) \in SUBSET Handler
    BY DEF Init, OrgRisk, RepoRisk
  <2>2. /\ \A o \in Org : OrgLimit[o] \in Nat /\ 0 <= OrgLimit[o]
        /\ \A p \in Repo : RepoLimit[p] \in Nat /\ 0 <= RepoLimit[p]
        /\ IsFiniteSet(Handler) /\ MaxCost \in Nat
    BY <1>4, RiskFinite
  <2>3. \A o \in Org : org_usage[o] + MaxCost * Cardinality(OrgRisk(o))
                          <= OrgLimit[o] + MaxCost * Cardinality(Handler)
    BY <2>1, <2>2, RoomWithin
  <2>4. \A p \in Repo : repo_usage[p] + MaxCost * Cardinality(RepoRisk(p))
                           <= RepoLimit[p] + MaxCost * Cardinality(Handler)
    BY <2>1, <2>2, RoomWithin
  <2> QED BY <2>3, <2>4 DEF BudgetRoom
<1> QED BY <1>4, <1>5, <1>6, <1>7 DEF IInv

\* The inductive invariant: permits are accounted for, each handler may rely on
\* what it read and tried, and a handler that may still charge a budget has the
\* cost of an answer reserved within the bound.
THEOREM Invariance == Spec => []IInv
<1>1. Init => IInv
  BY InitHolds
<1>2. IInv /\ [Next]_vars => IInv'
  <2> SUFFICES ASSUME IInv, [Next]_vars PROVE IInv'
    OBVIOUS
  <2>1. ASSUME NEW h \in Handler, NEW r \in Request, Receive(h, r) PROVE IInv'
    BY <2>1, ReceiveKeeps
  <2>2. ASSUME NEW h \in Handler, Work(h) PROVE IInv'
    BY <2>2, ReadOrgKeeps, ReadRepoKeeps, ReadFailsKeeps, RouteFoundKeeps, NoRouteFoundKeeps,
       AcquireKeeps, CallAnsweredKeeps, CallFailsKeeps, RecordKeeps DEF Work
  <2>3. ASSUME NEW h \in Handler, Drop(h) PROVE IInv'
    BY <2>3, DropKeeps
  <2>4. CASE Midnight
    BY <2>4, MidnightKeeps
  <2>5. CASE UNCHANGED vars
    BY <2>5, Zenon DEF vars, IInv, TypeOK, PermitsAccounted, Holding, permit_count, HandlerFacts,
       Relies, FreeRouteIsTried, FreeTriedBelow, Affordable, BudgetRoom, OrgRisk, RepoRisk,
       RisksOrg, RisksRepo
  <2> QED BY <2>1, <2>2, <2>3, <2>4, <2>5 DEF Next
<1> QED BY <1>1, <1>2, PTL DEF Spec

\* Handlers, sums, permits and queues keep their types; in particular no
\* semaphore ever has more permits than it was made with.
THEOREM TypeCorrect == Spec => []TypeOK
<1>1. IInv => TypeOK
  BY DEF IInv
<1> QED BY <1>1, Invariance, PTL

\* No permit is lost or given out twice, whichever way chat_completions ends.
THEOREM PermitsKept == Spec => []PermitsAccounted
<1>1. IInv => PermitsAccounted
  BY DEF IInv
<1> QED BY <1>1, Invariance, PTL

\* A day's spend exceeds its limit by at most one answer per concurrent
\* handler, though the checks of chat_completions use stale sums and estimates.
THEOREM Overspend == Spec => []OverspendBounded
<1>1. IInv => OverspendBounded
  <2> SUFFICES ASSUME IInv PROVE OverspendBounded
    OBVIOUS
  <2>1. TypeOK /\ BudgetRoom
    BY DEF IInv
  <2>2. ASSUME NEW o \in Org PROVE org_usage[o] <= OrgLimit[o] + MaxCost * Cardinality(Handler)
    <3>1. OrgRisk(o) \in SUBSET Handler /\ IsFiniteSet(OrgRisk(o)) /\ OrgBound(o) \in Nat
          /\ org_usage[o] \in Nat /\ MaxCost \in Nat
      BY <2>1, RiskFinite
    <3>2. org_usage[o] + MaxCost * Cardinality(OrgRisk(o)) <= OrgBound(o)
      BY <2>1 DEF BudgetRoom, OrgBound
    <3>3. MaxCost * Cardinality(OrgRisk(o)) \in Nat
      BY <3>1, FS_CardinalityType, Products
    <3> QED BY <3>1, <3>2, <3>3 DEF OrgBound
  <2>3. ASSUME NEW p \in Repo PROVE repo_usage[p] <= RepoLimit[p] + MaxCost * Cardinality(Handler)
    <3>1. RepoRisk(p) \in SUBSET Handler /\ IsFiniteSet(RepoRisk(p)) /\ RepoBound(p) \in Nat
          /\ repo_usage[p] \in Nat /\ MaxCost \in Nat
      BY <2>1, RiskFinite
    <3>2. repo_usage[p] + MaxCost * Cardinality(RepoRisk(p)) <= RepoBound(p)
      BY <2>1 DEF BudgetRoom, RepoBound
    <3>3. MaxCost * Cardinality(RepoRisk(p)) \in Nat
      BY <3>1, FS_CardinalityType, Products
    <3> QED BY <3>1, <3>2, <3>3 DEF RepoBound
  <2> QED BY <2>2, <2>3 DEF OverspendBounded
<1> QED BY <1>1, Invariance, PTL

\* No request ends without an answer before every free candidate that policy
\* allows was called, however far the budgets are overspent.
THEOREM FreeRoutes == Spec => []FreeRouteIsTried
<1>1. IInv => FreeRouteIsTried
  BY DEF IInv
<1> QED BY <1>1, Invariance, PTL
=============================================================================
