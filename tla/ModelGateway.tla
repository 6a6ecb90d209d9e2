---------------------------- MODULE ModelGateway ----------------------------
(***************************************************************************)
(* POST /v1/chat/completions: a handler reads what was spent today, walks  *)
(* the candidates of the request, waits for a permit, calls the provider   *)
(* and records what the answer cost.                                       *)
(*                                                                         *)
(* A step is what happens between two awaits: the two reads of the spend   *)
(* are separate, and so are the wait for the permit, the call and the      *)
(* insert of the usage row.  Permits belong to a process (replica) and are *)
(* given out in the order of arrival.  A dropped connection drops the      *)
(* handler at whatever it awaits.                                          *)
(*                                                                         *)
(* Providers are external: a call answers with some usage or fails.        *)
(* Bodies, headers other than the routing ones and the reports are left    *)
(* out; a request is a record of what decides its route.                   *)
(***************************************************************************)
EXTENDS Integers, Sequences, SequencesExt, FiniteSets

CONSTANTS
  Handler,       \* concurrent requests, over all replicas
  Replica,       \* coordinator processes
  ReplicaOf,     \* handler -> the replica that runs it
  MaxConcurrent, \* server.max_concurrent_model_requests
  Request,       \* the requests clients send
  Config,        \* the configuration of models and routes
  Security,      \* the security flags
  OrgLimit,      \* org_daily_limit: organisation -> amount
  RepoLimit,     \* repo_daily_limit: <<organisation, repository>> -> amount
  Usage,         \* the <<prompt, completion>> token counts answers report
  MaxCost,       \* bound on the cost of an answer
  NoLimit,       \* a request without a cost header
  NULL
-----------------------------------------------------------------------------
(* Which models a request may be sent to, in which order, and what a       *)
(* budget or the security policy rejects.  A configuration is a record:    *)
(* models (id -> tier, enabled, task_types, trust of its provider or       *)
(* "missing", prices), default_order, task_orders and fallbacks.  Amounts  *)
(* are whole units of money.                                               *)

Tiers == <<"local", "cheap", "balanced", "frontier">>
Alias == {Tiers[n] : n \in 1..4}

\* Local is 0 and Frontier is 3.
rank(tier) == CHOOSE n \in 0..3 : Tiers[n + 1] = tier

-----------------------------------------------------------------------------
(* model_candidates                                                        *)

\* The models of default_order with the given rank, in its order.
OfRank(config, r) ==
  SelectSeq(config.default_order, LAMBDA id : rank(config.models[id].tier) = r)

\* Mutant: from the lowest tier up.
TierCandidatesUpward(config, tier) ==
  FlattenSeq([n \in 1..(rank(tier) + 1) |-> OfRank(config, n - 1)])

\* From the requested tier downwards.
TierCandidates(config, tier) ==
  FlattenSeq([n \in 1..(rank(tier) + 1) |-> OfRank(config, rank(tier) + 1 - n)])

RequestedCandidates(config, requested, task_type) ==
  IF requested = "auto"
  THEN IF task_type \in DOMAIN config.task_orders
       THEN config.task_orders[task_type] ELSE config.default_order
  ELSE IF requested \in Alias THEN TierCandidates(config, requested)
  ELSE IF requested \in DOMAIN config.models
  THEN <<requested>> \o (IF requested \in DOMAIN config.fallbacks
                         THEN config.fallbacks[requested] ELSE <<>>)
  ELSE <<>>

\* The first occurrence of every element.
Deduped(s) == FoldLeft(LAMBDA t, e : IF Contains(t, e) THEN t ELSE Append(t, e), <<>>, s)

model_candidates(config, requested, task_type) ==
  LET asked == RequestedCandidates(config, requested, task_type) IN
  Deduped(IF asked = <<>> THEN config.default_order ELSE asked)

-----------------------------------------------------------------------------
(* Policy and budget                                                       *)

\* The configured provider exists and its credentials were found.
HasProvider(model) == model.trust # "missing"

ServesTask(model, task_type) ==
  model.task_types = {} \/ task_type \in model.task_types \/ "*" \in model.task_types

\* `security` is the part of the configuration with the three flags.
security_allows_route(security, request, trust) ==
  /\ request.sensitivity = "restricted" /\ security.restricted_requires_local => trust = "local"
  /\ request.sensitivity = "confidential" => trust # "public"
  /\ request.secrets /\ ~security.redact_secrets /\ security.deny_remote => trust = "local"

estimated_cost_usd(model, input, output) ==
  input * model.input_cost + output * model.output_cost

\* A header that is not positive counts as no limit.
max_cost_usd(header) == IF header # NoLimit /\ header > 0 THEN header ELSE NoLimit

\* Mutant: what is left may be negative.
FitsSigned(cost, limit, spend) == cost <= limit - spend

\* Mutant: what was spent is not subtracted.
FitsWhole(cost, limit, spend) == cost <= limit

\* cost > max(limit - spend, 0) rejects.
Fits(cost, limit, spend) == cost = 0 \/ cost <= limit - spend

\* No reason to reject: the budget of the organisation, of the repository and
\* of the request.
WithinBudget(cost, org_spend, org_limit, repo_spend, repo_limit, request_limit) ==
  /\ Fits(cost, org_limit, org_spend)
  /\ Fits(cost, repo_limit, repo_spend)
  /\ request_limit # NoLimit => cost <= request_limit
-----------------------------------------------------------------------------
(* The handler                                                             *)

Org == {r.org : r \in Request}
Repo == {<<r.org, r.repo>> : r \in Request}

CandidatesOf == [r \in Request |-> model_candidates(Config, r.model, r.task_type)]
Candidates(r) == CandidatesOf[r]

\* A request has at least one input token, and a model that charges for
\* anything charges for input.
ASSUME GatewayAssumption ==
  /\ IsFiniteSet(Handler) /\ ReplicaOf \in [Handler -> Replica]
  /\ MaxConcurrent \in Nat /\ MaxCost \in Nat
  /\ OrgLimit \in [Org -> Nat] /\ RepoLimit \in [Repo -> Nat]
  /\ Usage \subseteq Nat \X Nat
  /\ NULL \notin Request

ASSUME PriceAssumption ==
  \A r \in Request :
    /\ r.input \in Nat \ {0} /\ r.output \in Nat /\ r.max_cost \in Int \cup {NoLimit}
    /\ Candidates(r) \in Seq(DOMAIN Config.models)
    /\ \A m \in DOMAIN Config.models : LET model == Config.models[m] IN
         /\ model.input_cost \in Nat /\ model.output_cost \in Nat
         /\ model.input_cost = 0 => model.output_cost = 0
         /\ \A u \in Usage \cup {<<r.input, r.output>>} :
              estimated_cost_usd(model, u[1], u[2]) \in 0..MaxCost

VARIABLES
  handler,     \* handler -> its local state
  org_usage,   \* model_usage summed over today, by organisation
  repo_usage,  \* and by repository
  permits,     \* replica -> free permits of its semaphore
  waiting      \* replica -> the handlers that wait for one, in order

vars == <<handler, org_usage, repo_usage, permits, waiting>>

permit_count == IF MaxConcurrent > 1 THEN MaxConcurrent ELSE 1

Outcome == {"none", "ok", "budget", "upstream", "no_route", "internal"}

\* index is the candidate a handler is at, tried the ones it called, and over
\* whether some candidate was skipped for a budget.
Local == [pc: {"idle", "org", "repo", "route", "wait", "call", "record"},
          req: Request \cup {NULL}, org_spend: Nat, repo_spend: Nat,
          index: Nat, tried: SUBSET Nat, over: BOOLEAN, cost: 0..MaxCost, outcome: Outcome]

Idle == [pc |-> "idle", req |-> NULL, org_spend |-> 0, repo_spend |-> 0, index |-> 1,
         tried |-> {}, over |-> FALSE, cost |-> 0, outcome |-> "none"]

-----------------------------------------------------------------------------
(* Routes                                                                  *)

ModelAt(r, n) == Config.models[Candidates(r)[n]]

\* Only the first candidate without x-fiducia-allow-downgrade.
Reachable(r, n) == n \in DOMAIN Candidates(r) /\ (n > 1 => r.allow_downgrade)

\* What the loop asks of a candidate before its cost.
Eligible(r, n) ==
  /\ ModelAt(r, n).enabled
  /\ ServesTask(ModelAt(r, n), r.task_type)
  /\ HasProvider(ModelAt(r, n))
  /\ security_allows_route(Security, r, ModelAt(r, n).trust)

Estimate(r, n) == estimated_cost_usd(ModelAt(r, n), r.input, r.output)

\* Decided by the spend that was read before the loop.
Affordable(x, n) ==
  WithinBudget(Estimate(x.req, n), x.org_spend, OrgLimit[x.req.org],
               x.repo_spend, RepoLimit[<<x.req.org, x.req.repo>>], max_cost_usd(x.req.max_cost))

\* The candidates from a handler's index on, and those of them it may call.
Left(x) == {n \in DOMAIN Candidates(x.req) :
              n >= x.index /\ Reachable(x.req, n) /\ Eligible(x.req, n)}
Fitting(x) == {n \in Left(x) : Affordable(x, n)}

-----------------------------------------------------------------------------
(* chat_completions                                                        *)

Finish(h, outcome) ==
  handler' = [handler EXCEPT ![h] = [@ EXCEPT !.pc = "idle", !.outcome = outcome]]

Goto(h, pc) == handler' = [handler EXCEPT ![h] = [@ EXCEPT !.pc = pc]]

Released(h) == [permits EXCEPT ![ReplicaOf[h]] = @ + 1]

Receive(h, r) ==
  /\ handler[h].pc = "idle"
  /\ handler' = [handler EXCEPT ![h] = [Idle EXCEPT !.pc = "org", !.req = r]]
  /\ UNCHANGED <<org_usage, repo_usage, permits, waiting>>

ReadOrg(h) ==
  /\ handler[h].pc = "org"
  /\ handler' = [handler EXCEPT ![h] =
       [@ EXCEPT !.pc = "repo", !.org_spend = org_usage[handler[h].req.org]]]
  /\ UNCHANGED <<org_usage, repo_usage, permits, waiting>>

\* The second read, and the candidates.
ReadRepo(h) ==
  LET r == handler[h].req IN
  /\ handler[h].pc = "repo"
  /\ IF Candidates(r) = <<>> THEN Finish(h, "no_route")
     ELSE handler' = [handler EXCEPT ![h] =
            [@ EXCEPT !.pc = "route", !.repo_spend = repo_usage[<<r.org, r.repo>>]]]
  /\ UNCHANGED <<org_usage, repo_usage, permits, waiting>>

ReadFails(h) ==
  /\ handler[h].pc \in {"org", "repo"}
  /\ Finish(h, "internal")
  /\ UNCHANGED <<org_usage, repo_usage, permits, waiting>>

\* The loop up to its next await: it stops at the first candidate that fits,
\* having skipped the ones before it that did not.
RouteFound(h) ==
  /\ handler[h].pc = "route"
  /\ \E n \in Fitting(handler[h]) :
       /\ \A m \in Fitting(handler[h]) : n <= m
       /\ handler' = [handler EXCEPT ![h] =
            [@ EXCEPT !.pc = "wait", !.index = n,
                      !.over = handler[h].over \/ \E m \in Left(handler[h]) \ Fitting(handler[h]) : m < n]]
  /\ waiting' = [waiting EXCEPT ![ReplicaOf[h]] = Append(@, h)]
  /\ UNCHANGED <<org_usage, repo_usage, permits>>

\* Or it ends; a candidate skipped for a budget decides which error is returned.
NoRouteFound(h) ==
  /\ handler[h].pc = "route"
  /\ Fitting(handler[h]) = {}
  /\ Finish(h, IF handler[h].over \/ Left(handler[h]) # {} THEN "budget" ELSE "upstream")
  /\ UNCHANGED <<org_usage, repo_usage, permits, waiting>>

\* The semaphore serves the handler that waits longest.
Acquire(h) ==
  LET r == ReplicaOf[h] IN
  /\ handler[h].pc = "wait"
  /\ permits[r] > 0 /\ waiting[r] # <<>> /\ Head(waiting[r]) = h
  /\ permits' = [permits EXCEPT ![r] = @ - 1]
  /\ waiting' = [waiting EXCEPT ![r] = Tail(@)]
  /\ Goto(h, "call")
  /\ UNCHANGED <<org_usage, repo_usage>>

\* The provider answers; without usage fields the estimate's counts are used.
CallAnswered(h) ==
  LET r == handler[h].req IN
  /\ handler[h].pc = "call"
  /\ \E u \in Usage \cup {<<r.input, r.output>>} :
       handler' = [handler EXCEPT ![h] =
         [@ EXCEPT !.pc = "record",
                   !.cost = estimated_cost_usd(ModelAt(r, handler[h].index), u[1], u[2])]]
  /\ UNCHANGED <<org_usage, repo_usage, permits, waiting>>

\* On to the next candidate, from the failed one.
AfterFailure(h) ==
  handler' = [handler EXCEPT ![h] =
    [@ EXCEPT !.pc = "route", !.index = handler[h].index + 1,
              !.tried = handler[h].tried \cup {handler[h].index}]]

\* Mutant: the permit lives as long as the request.
CallFailsHolding(h) ==
  /\ handler[h].pc = "call"
  /\ AfterFailure(h)
  /\ UNCHANGED <<org_usage, repo_usage, permits, waiting>>

\* The permit ends with the iteration of the loop.
CallFails(h) ==
  /\ handler[h].pc = "call"
  /\ AfterFailure(h)
  /\ permits' = Released(h)
  /\ UNCHANGED <<org_usage, repo_usage, waiting>>

Charge(h) ==
  LET x == handler[h] IN
  /\ org_usage' = [org_usage EXCEPT ![x.req.org] = @ + x.cost]
  /\ repo_usage' = [repo_usage EXCEPT ![<<x.req.org, x.req.repo>>] = @ + x.cost]

NoCharge == UNCHANGED <<org_usage, repo_usage>>

record_usage(h) ==
  /\ handler[h].pc = "record"
  /\ Charge(h)
  /\ Finish(h, "ok")
  /\ permits' = Released(h)
  /\ UNCHANGED waiting

\* The insert fails, or its answer is lost.
RecordFails(h) ==
  /\ handler[h].pc = "record"
  /\ Charge(h) \/ NoCharge
  /\ Finish(h, "internal")
  /\ permits' = Released(h)
  /\ UNCHANGED waiting

\* Mutant: a handler that still waits gives back a permit.
DropReleasing(h) ==
  /\ handler[h].pc \notin {"idle", "route"}
  /\ Finish(h, "none")
  /\ waiting' = [waiting EXCEPT ![ReplicaOf[h]] = Remove(@, h)]
  /\ permits' = Released(h)
  /\ NoCharge

\* The client goes away: the handler's future is dropped where it awaits.
Drop(h) ==
  LET r == ReplicaOf[h] IN
  /\ handler[h].pc \notin {"idle", "route"}
  /\ Finish(h, "none")
  /\ IF handler[h].pc = "wait"
     THEN \E n \in DOMAIN waiting[r] :
            waiting[r][n] = h /\ waiting' = [waiting EXCEPT ![r] = RemoveAt(@, n)]
     ELSE UNCHANGED waiting
  /\ permits' = IF handler[h].pc \in {"call", "record"} THEN Released(h) ELSE permits
  /\ NoCharge \/ (handler[h].pc = "record" /\ Charge(h))

\* start_of_utc_day moves on.
Midnight ==
  /\ org_usage' = [o \in Org |-> 0]
  /\ repo_usage' = [p \in Repo |-> 0]
  /\ UNCHANGED <<handler, permits, waiting>>

-----------------------------------------------------------------------------
Init ==
  /\ handler = [h \in Handler |-> Idle]
  /\ org_usage = [o \in Org |-> 0]
  /\ repo_usage = [p \in Repo |-> 0]
  /\ permits = [r \in Replica |-> permit_count]
  /\ waiting = [r \in Replica |-> <<>>]

Work(h) ==
  \/ ReadOrg(h) \/ ReadRepo(h) \/ ReadFails(h) \/ RouteFound(h) \/ NoRouteFound(h)
  \/ Acquire(h) \/ CallAnswered(h) \/ CallFails(h) \/ record_usage(h) \/ RecordFails(h)

Next ==
  \/ \E h \in Handler, r \in Request : Receive(h, r)
  \/ \E h \in Handler : Work(h)
  \/ \E h \in Handler : Drop(h)
  \/ Midnight

Spec == Init /\ [][Next]_vars

\* Handlers run, and the HTTP client ends every call by its timeout.
FairSpec == Spec /\ \A h \in Handler : WF_vars(Work(h))

-----------------------------------------------------------------------------
(* Properties                                                              *)

Holding(r) == {h \in Handler : ReplicaOf[h] = r /\ handler[h].pc \in {"call", "record"}}

\* Handlers, sums, permits and queues keep their types.
TypeOK ==
  /\ handler \in [Handler -> Local]
  /\ org_usage \in [Org -> Nat] /\ repo_usage \in [Repo -> Nat]
  /\ permits \in [Replica -> 0..permit_count]
  /\ waiting \in [Replica -> Seq(Handler)]

\* No permit is lost or given out twice, whichever way a handler ends: the
\* free ones and those of calls under way are all of them.
PermitsAccounted ==
  \A r \in Replica : permits[r] + Cardinality(Holding(r)) = permit_count

\* The budget checks use a spend that is stale by the time the usage is
\* recorded, and an estimate.  Still what is spent in a day exceeds a limit by
\* no more than one answer per concurrent handler, over all replicas and
\* whatever the semaphores hold back.
OverspendBounded ==
  /\ \A o \in Org : org_usage[o] <= OrgLimit[o] + MaxCost * Cardinality(Handler)
  /\ \A p \in Repo : repo_usage[p] <= RepoLimit[p] + MaxCost * Cardinality(Handler)

\* The free candidates before `limit` that policy allows were called.
FreeTriedBelow(x, limit) ==
  \A n \in DOMAIN Candidates(x.req) :
    n < limit /\ Reachable(x.req, n) /\ Eligible(x.req, n) /\ ModelAt(x.req, n).input_cost = 0
      => n \in x.tried

\* Automatic downgrade reaches the free models: a request ends without an
\* answer only after every free candidate that policy allows was called,
\* overspent budgets notwithstanding.
FreeRouteIsTried ==
  \A h \in Handler : handler[h].pc = "idle" /\ handler[h].outcome \in {"budget", "upstream"} =>
    FreeTriedBelow(handler[h], Len(Candidates(handler[h].req)) + 1)

\* The handlers that may still charge an organisation, or a repository: they
\* read a spend below its limit.
RisksOrg(x, o) ==
  x.pc \notin {"idle", "org"} /\ x.req.org = o /\ x.org_spend < OrgLimit[o]
RisksRepo(x, p) ==
  x.pc \notin {"idle", "org", "repo"} /\ <<x.req.org, x.req.repo>> = p /\ x.repo_spend < RepoLimit[p]
OrgRisk(o) == {h \in Handler : RisksOrg(handler[h], o)}
RepoRisk(p) == {h \in Handler : RisksRepo(handler[h], p)}

\* Each of them has one answer's cost reserved within the bound.
BudgetRoom ==
  /\ \A o \in Org : org_usage[o] + MaxCost * Cardinality(OrgRisk(o))
                      <= OrgLimit[o] + MaxCost * Cardinality(Handler)
  /\ \A p \in Repo : repo_usage[p] + MaxCost * Cardinality(RepoRisk(p))
                       <= RepoLimit[p] + MaxCost * Cardinality(Handler)

\* What a handler may rely on at each step.
Relies(x) ==
  /\ x.pc # "idle" => x.req \in Request
  /\ x.pc \in {"org", "repo"} => x.index = 1
  /\ x.pc \in {"wait", "call"} =>
       x.index \in DOMAIN Candidates(x.req) /\ Affordable(x, x.index)
  /\ x.pc \in {"route", "wait", "call"} => FreeTriedBelow(x, x.index)
  /\ x.pc = "record" /\ x.cost > 0 =>
       /\ x.org_spend < OrgLimit[x.req.org]
       /\ x.repo_spend < RepoLimit[<<x.req.org, x.req.repo>>]

HandlerFacts == \A h \in Handler : Relies(handler[h])

\* The inductive invariant of the proofs.
IInv == TypeOK /\ PermitsAccounted /\ HandlerFacts /\ FreeRouteIsTried /\ BudgetRoom

\* Every request ends: a handler that waits for a permit gets one, though
\* others come, fail over to further candidates and go away.
EveryRequestEnds == \A h \in Handler : handler[h].pc # "idle" ~> handler[h].pc = "idle"

\* What README.md says of x-fiducia-max-cost-usd: the maximum estimated cost.
MaxCostKept ==
  \A h \in Handler : LET x == handler[h] IN
    x.pc = "call" /\ x.req.max_cost # NoLimit => Estimate(x.req, x.index) <= x.req.max_cost
=============================================================================
