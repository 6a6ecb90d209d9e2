-------------------------- MODULE BriefingPipeline --------------------------
(***************************************************************************)
(* The file-based daily portfolio briefing: a manifest of lane results is  *)
(* collected (tools/collect_daily_portfolio_results.py), the input is      *)
(* composed into a plan against the saved state, the plan is delivered and *)
(* the delivery committed (tools/compose_daily_portfolio_briefing.py).     *)
(*                                                                         *)
(* Every step is a process of its own that reads and writes files, so two  *)
(* invocations may work from one state and a retry may find a later one.   *)
(* The producers of lane results write whenever they like.  A digest is    *)
(* the payload it is computed from.                                        *)
(***************************************************************************)
EXTENDS Integers, FiniteSets, Sequences, SequencesExt

CONSTANTS Lanes, Items,
          Facts,          \* what a lane reports of an item
          LaneFiles,      \* results a producer may write: [status, age, items]
          Runs,           \* run contexts: [key, mode, scheduled_key, recovered]
          Invocations,
          MaxItems, MaxDeliveries, MaxAge, MaxSkew, MaxWrites,
          NoFile, BadFile, NULL

VARIABLES writes,         \* lane results written so far
          files,          \* lane -> its normalized result, if any
          inv,            \* invocation -> its progress and its files
          state,          \* the composer's saved state
          briefed, omitted, \* what delivered briefings said, and left out
          committed       \* run key -> the input and run of its delivery

bpvars == <<writes, files, inv, state, briefed, omitted, committed>>

RankWeights ==
    [deadline_risk |-> 100, blocking_impact |-> 80, project_priority |-> 60,
     expected_value |-> 40, confidence |-> 20, irreversibility |-> 10]
ConfidenceScores == [low |-> 1, medium |-> 3, high |-> 5]

\* _normalize_rank: five scores from 0 to 5.
ValidRank(rank) ==
    /\ DOMAIN rank = {"deadline_risk", "blocking_impact", "project_priority",
                      "expected_value", "reversibility"}
    /\ \A k \in DOMAIN rank : rank[k] \in 0..5

\* What is hard to undo ranks higher, and so does what is well known.
_ranking(fact) ==
    LET weighted(k) == RankWeights[k] * fact.rank[k]
    IN  weighted("deadline_risk") + weighted("blocking_impact")
        + weighted("project_priority") + weighted("expected_value")
        + RankWeights.confidence * ConfidenceScores[fact.confidence]
        + RankWeights.irreversibility * (5 - fact.rank.reversibility)

\* A file's age is relative to the manifest, negative for one from the future.
IsLaneFile(f) ==
    /\ f.status \in {"ok", "degraded", "unavailable"}
    /\ f.age \in Int
    /\ DOMAIN f.items \subseteq Items
    /\ \A i \in DOMAIN f.items : f.items[i] \in {x \in Facts : ValidRank(x.rank)}

\* A degraded or unavailable lane says why; one that is unavailable has no items.
ValidLane(f) == f.status = "unavailable" => f.items = <<>>

\* build_run_context
ValidRun(r) == r.mode = "manual" => r.key # r.scheduled_key
-----------------------------------------------------------------------------
(* collect_daily_portfolio_results.collect                                 *)

\* _load_manifest: a lane without integrity metadata may be missing.
ManifestEntry(l, known, policy) ==
    [file |-> IF known THEN files[l] ELSE NULL, policy |-> policy]

ValidEntry(e) == e.file = NULL => e.policy = "unavailable"

_unavailable_lane(reason) == [status |-> "unavailable", error |-> reason, items |-> <<>>]

age_seconds(f) == IF f.age < 0 THEN 0 ELSE f.age

\* BadFile stands for what cannot be taken from a producer: no regular file, too
\* large, another file than the one inspected, one that changes while it is read,
\* not JSON, or a key given twice.
_read_descriptor(f) == IF f = BadFile THEN NULL ELSE f

\* Through the directories below the result root, following no link; a name that
\* is not there is a missing lane.
_read_relative_regular_file(f) == IF f = NoFile THEN NoFile ELSE _read_descriptor(f)

\* What the composer is given of a lane.
_to_input_envelope(f) ==
    [status |-> f.status, error |-> IF f.status = "ok" THEN NULL ELSE "reported",
     items |-> f.items]

\* The lane of the input, or NULL where collect raises.
CollectLane(f, e) ==
    CASE _read_relative_regular_file(f) = NULL -> NULL
      [] _read_relative_regular_file(f) = NoFile ->
            IF e.policy = "fail" THEN NULL ELSE _unavailable_lane("missing")
      [] OTHER -> IF e.file # f \/ ~ValidLane(f) \/ -f.age > MaxSkew THEN NULL
                  ELSE IF age_seconds(f) > MaxAge THEN _unavailable_lane("stale")
                  ELSE _to_input_envelope(f)
-----------------------------------------------------------------------------
(* compose_daily_portfolio_briefing                                        *)

\* _normalize_item: the rank is not part of the material.
Fingerprint(fact) ==
    <<fact.material, fact.disposition, fact.source_status, fact.confidence>>
_lane_fingerprint(lane) == <<lane.status, lane.error>>

empty_state ==
    [baseline |-> [key |-> NULL, items |-> <<>>, lanes |-> <<>>], deliveries |-> <<>>]

\* f.get(x) is v
Holds(f, x, v) == x \in DOMAIN f /\ f[x] = v

\* state["deliveries"].get(key): the record of that key, if there is one.
Delivery(key) == {d \in ToSet(state.deliveries) : d.key = key}

LanesOf(input, i) == {l \in Lanes : i \in DOMAIN input[l].items}
Reported(input) == {i \in Items : LanesOf(input, i) # {}}

\* _merge_duplicate_identity: lanes agree on an item, in what they say of it as in
\* its material; the highest rank counts.
Agrees(input) ==
    \A i \in Items : \A l, m \in LanesOf(input, i) :
        LET f == input[l].items[i]  g == input[m].items[i]
        IN  Fingerprint(f) = Fingerprint(g) /\ f.text = g.text /\ f.date = g.date

Highest(facts) == CHOOSE f \in facts : \A g \in facts : _ranking(g) <= _ranking(f)
Merged(input, i) == Highest({input[l].items[i] : l \in LanesOf(input, i)})

DispositionOrder == [do_today |-> 0, monitor |-> 1, ignore |-> 2]

\* _sort_key: disposition, score, date; the identity breaks ties, here in the
\* order of `ids`.
_sort_key(fact, place) ==
    <<DispositionOrder[fact.disposition], -_ranking(fact), fact.date, place>>
Lower(a, b) == \E n \in DOMAIN a : a[n] < b[n] /\ \A k \in 1..(n - 1) : a[k] = b[k]
Before(input, ids, i, j) ==
    Lower(_sort_key(Merged(input, i), CHOOSE n \in DOMAIN ids : ids[n] = i),
          _sort_key(Merged(input, j), CHOOSE n \in DOMAIN ids : ids[n] = j))

Changed(input, baseline) ==
    {i \in Reported(input) : ~Holds(baseline.items, i, Fingerprint(Merged(input, i)))}

Sorted(input, ids, S) ==
    CHOOSE s \in SetToSeqs(S) :
        \A m, n \in DOMAIN s : m < n => Before(input, ids, s[m], s[n])
RankedWorthReading(input, S) ==
    Sorted(input, SetToSeq(Items), {i \in S : Merged(input, i).disposition # "ignore"})
Ranked(input, S) == Sorted(input, SetToSeq(Items), S)

\* changed[:MAX_ITEMS]
FirstOf(items) == SubSeq(items, 1, IF Len(items) > MaxItems THEN MaxItems ELSE Len(items))
Selected(input, S) == FirstOf(Ranked(input, S))

LaneFailures(input, baseline) ==
    {l \in Lanes : /\ input[l].status # "ok"
                   /\ ~Holds(baseline.lanes, l, _lane_fingerprint(input[l]))}

NextBaseline(input, run) ==
    [key |-> run.scheduled_key,
     items |-> [i \in Reported(input) |-> Fingerprint(Merged(input, i))],
     lanes |-> [l \in Lanes |-> _lane_fingerprint(input[l])]]

\* _source_digest_payload: the whole material, not what is new in it.
_source_digest_of_delta(plan) == <<plan.run, plan.baseline, plan.items>>
_source_digest(plan) == <<plan.run, plan.baseline>>
_delivery_digest(plan) ==
    <<plan.source_digest, plan.status, plan.items, plan.lane_failures, plan.counts>>

Draft(input, run, changed, items, failures) ==
    [status |-> IF items # <<>> \/ failures # {} THEN "ready" ELSE "no_changes",
     run |-> run, items |-> items, lane_failures |-> failures,
     counts |-> [changed |-> Cardinality(changed), selected |-> Len(items)],
     baseline |-> NextBaseline(input, run),
     source_digest |-> NULL, delivery_digest |-> NULL]

Sourced(draft) == [draft EXCEPT !.source_digest = _source_digest(draft)]
Sealed(plan) == [plan EXCEPT !.delivery_digest = _delivery_digest(plan)]

DeltaPlan(input, run, changed) ==
    Sealed(Sourced(Draft(input, run, changed, Selected(input, changed),
                         LaneFailures(input, state.baseline))))
NewPlan(input, run) == DeltaPlan(input, run, Changed(input, state.baseline))

\* A delivered run is composed again only as the duplicate it is.
Composed(plan, existing) ==
    IF existing = {} THEN {plan}
    ELSE {[plan EXCEPT !.status = "duplicate_delivery", !.items = <<>>,
                       !.lane_failures = {}, !.counts.selected = 0,
                       !.delivery_digest = d.delivery_digest] :
          d \in {e \in existing : e.source_digest = plan.source_digest}}

\* The plan, or none where compose_briefing raises.
compose_briefing(input, run) ==
    IF Agrees(input) THEN Composed(NewPlan(input, run), Delivery(run.key)) ELSE {}

validate_plan(plan) ==
    /\ plan.source_digest = _source_digest(plan)
    /\ plan.status # "duplicate_delivery" => plan.delivery_digest = _delivery_digest(plan)

\* The deliveries are in the order of delivered_at; the oldest are forgotten.
Retained(deliveries) ==
    IF Len(deliveries) > MaxDeliveries
    THEN SubSeq(deliveries, Len(deliveries) - MaxDeliveries + 1, Len(deliveries))
    ELSE deliveries

Record(plan) == [key |-> plan.run.key, source_digest |-> plan.source_digest,
                 delivery_digest |-> plan.delivery_digest, mode |-> plan.run.mode]

\* The state with the plan's delivery, or none where commit_delivery raises.
Committed(plan, existing) ==
    IF ~validate_plan(plan) THEN {}
    ELSE IF plan.status = "duplicate_delivery" \/ existing = {Record(plan)} THEN {state}
    ELSE IF existing # {} THEN {}
    ELSE {[baseline |-> IF plan.run.mode = "scheduled" THEN plan.baseline ELSE state.baseline,
           deliveries |-> Retained(Append(state.deliveries, Record(plan)))]}

commit_delivery(plan) == Committed(plan, Delivery(plan.run.key))
-----------------------------------------------------------------------------
Idle == [at |-> "idle", run |-> NULL, manifest |-> NULL,
         input |-> NULL, plan |-> NULL]

BPInit ==
    /\ writes = 0
    /\ files = [l \in Lanes |-> NoFile]
    /\ inv = [p \in Invocations |-> Idle]
    /\ state = empty_state
    /\ briefed = {} /\ omitted = {} /\ committed = <<>>

\* A producer replaces its lane's result, well-formed or not.
WriteLane(l) ==
    /\ writes < MaxWrites
    /\ writes' = writes + 1
    /\ \E f \in {NoFile, BadFile} \union {g \in LaneFiles : IsLaneFile(g)} :
          /\ f # files[l]
          /\ files' = [files EXCEPT ![l] = f]
    /\ UNCHANGED <<inv, state, briefed, omitted, committed>>

\* The workflow writes the manifest of the files it sees for a run.
MakeManifest(p) ==
    /\ inv[p].at = "idle"
    /\ \E run \in Runs, known \in BOOLEAN, policy \in {"fail", "unavailable"} :
          LET manifest == [l \in Lanes |-> ManifestEntry(l, known /\ files[l] # NoFile, policy)]
          IN  /\ ValidRun(run)
              /\ \A l \in Lanes : ValidEntry(manifest[l])
              /\ inv' = [inv EXCEPT ![p].at = "manifest", ![p].run = run,
                                    ![p].manifest = manifest]
    /\ UNCHANGED <<writes, files, state, briefed, omitted, committed>>

\* collect: one lane that cannot be used fails the whole collection.
CollectedInput(p, input) ==
    inv' = IF \E l \in Lanes : input[l] = NULL THEN [inv EXCEPT ![p] = Idle]
           ELSE [inv EXCEPT ![p].at = "input", ![p].input = input, ![p].manifest = NULL]
Collect(p) ==
    /\ inv[p].at = "manifest"
    /\ CollectedInput(p, [l \in Lanes |-> CollectLane(files[l], inv[p].manifest[l])])
    /\ UNCHANGED <<writes, files, state, briefed, omitted, committed>>

\* _plan_command
PlanMade(p, plans) ==
    \/ plans = {} /\ inv' = [inv EXCEPT ![p] = Idle]
    \/ \E plan \in plans : inv' = [inv EXCEPT ![p].at = "plan", ![p].plan = plan]
Plan(p) ==
    /\ inv[p].at = "input"
    /\ PlanMade(p, compose_briefing(inv[p].input, inv[p].run))
    /\ UNCHANGED <<writes, files, state, briefed, omitted, committed>>

\* The caller delivers what the plan holds (outside these tools).
Deliver(p) ==
    /\ inv[p].at = "plan"
    /\ LET plan == inv[p].plan
           said(S) == {<<i, plan.baseline.items[i]>> : i \in S}
           selected == ToSet(plan.items)
       IN  IF plan.status = "duplicate_delivery" THEN UNCHANGED <<briefed, omitted>>
           ELSE /\ briefed' = briefed \union said(selected)
                /\ omitted' = IF plan.counts.changed <= MaxItems THEN omitted
                              ELSE omitted \union said(DOMAIN plan.baseline.items \ selected)
    /\ inv' = [inv EXCEPT ![p].at = "delivered"]
    /\ UNCHANGED <<writes, files, state, committed>>

\* _commit_command
StateSaved(p, next) ==
    /\ state' \in IF next = {} THEN {state} ELSE next
    /\ committed' =
         IF state' = state THEN committed
         ELSE [k \in DOMAIN committed \union {inv[p].run.key} |->
                 IF k = inv[p].run.key THEN [input |-> inv[p].input, run |-> inv[p].run]
                 ELSE committed[k]]
Commit(p) ==
    /\ inv[p].at = "delivered"
    /\ StateSaved(p, commit_delivery(inv[p].plan))
    /\ inv' = [inv EXCEPT ![p] = Idle]
    /\ UNCHANGED <<writes, files, briefed, omitted>>

\* The workflow dies between two of its commands.
Abandon(p) ==
    /\ inv[p].at # "idle"
    /\ inv' = [inv EXCEPT ![p] = Idle]
    /\ UNCHANGED <<writes, files, state, briefed, omitted, committed>>

BPNext ==
    \/ \E l \in Lanes : WriteLane(l)
    \/ \E p \in Invocations :
          MakeManifest(p) \/ Collect(p) \/ Plan(p) \/ Deliver(p) \/ Commit(p) \/ Abandon(p)
-----------------------------------------------------------------------------
(* The baseline suppresses only what some delivered briefing said or left  *)
(* out for its limit, whichever plans were composed from one state and in  *)
(* whatever order they were committed.                                     *)
BaselineWasBriefed ==
    \A i \in DOMAIN state.baseline.items :
        <<i, state.baseline.items[i]>> \in briefed \union omitted

(* A retry of a delivered run with the same material is recognised as a    *)
(* duplicate, also after its own commit or another run's moved the         *)
(* baseline it is composed against.                                        *)
RetryIsRecognised ==
    \A key \in {d.key : d \in ToSet(state.deliveries)} :
        \E plan \in compose_briefing(committed[key].input, committed[key].run) :
            plan.status = "duplicate_delivery"
-----------------------------------------------------------------------------
(* The inductive invariant of the two.  Once composed, what a plan reports  *)
(* was told (briefed or said to be left out), or its delivery will tell it; *)
(* a delivery's digest is that of the run and material it was committed of. *)
TakenLane(lane) ==
    /\ DOMAIN lane.items \subseteq Items
    /\ \A i \in DOMAIN lane.items : lane.items[i] \in Facts

ToldOrToTell(v, told) ==
    \A i \in Reported(v.input) :
        \/ <<i, v.plan.baseline.items[i]>> \in told
        \/ /\ v.at = "plan"
           /\ i \in ToSet(v.plan.items) \/ ~(v.plan.counts.changed <= MaxItems)

SoundInvocation(v, told) ==
    /\ DOMAIN v = {"at", "run", "manifest", "input", "plan"}
    /\ v.at \in {"input", "plan", "delivered"} => \A l \in Lanes : TakenLane(v.input[l])
    /\ v.at \in {"plan", "delivered"} =>
          /\ Agrees(v.input)
          /\ v.plan.run = v.run /\ v.plan.baseline = NextBaseline(v.input, v.run)
          /\ v.plan.status # "duplicate_delivery" => ToldOrToTell(v, told)

SoundDeliveries(deliveries, known) ==
    /\ deliveries \in Seq(ToSet(deliveries))
    /\ \A d \in ToSet(deliveries) :
          /\ d.key \in DOMAIN known
          /\ known[d.key].run.key = d.key
          /\ Agrees(known[d.key].input)
          /\ d.source_digest = <<known[d.key].run,
                                 NextBaseline(known[d.key].input, known[d.key].run)>>

BPInv ==
    /\ files \in [Lanes -> {NoFile, BadFile} \union {g \in LaneFiles : IsLaneFile(g)}]
    /\ inv = [p \in Invocations |-> inv[p]]
    /\ \A p \in Invocations : SoundInvocation(inv[p], briefed \union omitted)
    /\ SoundDeliveries(state.deliveries, committed)
    /\ BaselineWasBriefed
=============================================================================
