------------------------- MODULE DailyDeliveryStore -------------------------
(***************************************************************************)
(* The PostgreSQL delivery store of src/daily_portfolio_delivery_store.rs. *)
(*                                                                         *)
(* Every operation is one UPDATE or one serializable transaction on the    *)
(* run's row, so each is one step.  After an UPDATE that matched nothing   *)
(* the store reads the row and classifies; that read decides an answer,    *)
(* and only begin_delivery's answer matters here, since it permits a send. *)
(* The fence comes from a sequence, which a rolled-back claim also uses    *)
(* up.  Clocks are the callers' (any member of Now).                       *)
(***************************************************************************)
EXTENDS DeliveryPlan, FiniteSets

CONSTANTS MaxLeaseSeconds,
          MaxFence, MaxGeneration   \* bounds of the model: calls per behaviour

ASSUME StoreAssumption == /\ MaxLeaseSeconds \in Nat /\ MaxFence \in Nat
                          /\ MaxGeneration \in Nat

VARIABLES
  fence_seq,  \* daily_portfolio_delivery_fence_seq
  rows,       \* daily_portfolio_delivery_runs
  baseline,   \* daily_portfolio_delivery_baseline
  held,       \* the last token each worker was given
  sends       \* history: [run, generation, worker, fence] of begins answered Ok

vars == <<fence_seq, rows, baseline, held, sends>>

StoredRun == [spec: Plan, status: DeliveryStatus, generation: Nat, attempts: Nat,
              receipt: Receipt \cup {NULL}, lease: LeaseToken \cup {NULL}]

Send == [run: RunKey, generation: Nat, worker: Worker, fence: Nat]

-----------------------------------------------------------------------------
\* Mutant: only the owner column is cleared.
ReleasedOwnerOnly(run) == [run EXCEPT !.lease.owner = NULL]

Released(run) == [run EXCEPT !.lease = NULL]

validate_lease_seconds(s) == s # 0 /\ s <= MaxLeaseSeconds

\* lease_owner = $2 AND lease_fence = $3 AND lease_expires_at > now
LeaseMatches(row, token, now) ==
  /\ row.lease # NULL
  /\ row.lease.owner = token.owner /\ row.lease.fence = token.fence
  /\ row.lease.expires_at > now

require_active_token(row, token, now) ==
  LeaseMatches(row, token, now) /\ token.expires_at > now

plan(p) ==
  /\ validate_plan(p)
  /\ p.run_key \notin DOMAIN rows
  /\ rows' = [k \in DOMAIN rows \cup {p.run_key} |->
                IF k = p.run_key
                THEN [spec |-> p, status |-> "planned", generation |-> 0, attempts |-> 0,
                      receipt |-> NULL, lease |-> NULL]
                ELSE rows[k]]
  /\ UNCHANGED <<fence_seq, baseline, held, sends>>

\* Mutant: each run counts its own fences.
claim_own_fence(w, k, now, seconds) ==
  /\ validate_lease_seconds(seconds)
  /\ k \in DOMAIN rows
  /\ rows[k].status # "delivered"
  /\ rows[k].lease # NULL => rows[k].lease.expires_at <= now
  /\ LET token == [run_key |-> k, owner |-> owner[w],
                   fence |-> IF rows[k].lease = NULL THEN 1 ELSE rows[k].lease.fence + 1,
                   expires_at |-> now + seconds]
     IN /\ rows' = [rows EXCEPT ![k].lease = token]
        /\ held' = [held EXCEPT ![w] = token]
  /\ UNCHANGED <<fence_seq, baseline, sends>>

\* A claim of a run that is not delivered and has no unexpired lease.
claim(w, k, now, seconds) ==
  /\ validate_lease_seconds(seconds)
  /\ k \in DOMAIN rows
  /\ rows[k].status # "delivered"
  /\ rows[k].lease # NULL => rows[k].lease.expires_at <= now
  /\ fence_seq < MaxFence
  /\ LET token == [run_key |-> k, owner |-> owner[w], fence |-> fence_seq + 1,
                   expires_at |-> now + seconds]
     IN /\ rows' = [rows EXCEPT ![k].lease = token]
        /\ held' = [held EXCEPT ![w] = token]
  /\ fence_seq' = fence_seq + 1
  /\ UNCHANGED <<baseline, sends>>

\* The transaction of claim rolls back after nextval (a serialization failure
\* at its commit, answered LeaseHeld): only the sequence has moved.
ClaimAborts(k, now, seconds) ==
  /\ validate_lease_seconds(seconds)
  /\ k \in DOMAIN rows
  /\ rows[k].status # "delivered"
  /\ rows[k].lease # NULL => rows[k].lease.expires_at <= now
  /\ fence_seq < MaxFence
  /\ fence_seq' = fence_seq + 1
  /\ UNCHANGED <<rows, baseline, held, sends>>

renew(w, now, seconds) ==
  /\ validate_lease_seconds(seconds)
  /\ held[w] # NULL
  /\ LET k == held[w].run_key
         renewed == [held[w] EXCEPT !.expires_at = now + seconds]
     IN /\ LeaseMatches(rows[k], held[w], now)
        /\ rows[k].status # "delivered"
        /\ rows' = [rows EXCEPT ![k].lease.expires_at = now + seconds]
        /\ held' = [held EXCEPT ![w] = renewed]
  /\ UNCHANGED <<fence_seq, baseline, sends>>

\* Mutant: a sending lease may be given back.
release_any(w, now) ==
  /\ held[w] # NULL
  /\ LeaseMatches(rows[held[w].run_key], held[w], now)
  /\ rows' = [rows EXCEPT ![held[w].run_key] = Released(@)]
  /\ UNCHANGED <<fence_seq, baseline, held, sends>>

release(w, now) ==
  /\ held[w] # NULL
  /\ LeaseMatches(rows[held[w].run_key], held[w], now)
  /\ rows[held[w].run_key].status \notin {"delivering", "delivered"}
  /\ rows' = [rows EXCEPT ![held[w].run_key] = Released(@)]
  /\ UNCHANGED <<fence_seq, baseline, held, sends>>

Permit(w, g) ==
  sends' = sends \cup {[run |-> held[w].run_key, generation |-> g,
                        worker |-> w, fence |-> held[w].fence]}

\* Mutant: an ambiguous run may be sent again.
BeginResend(w, now, expected) ==
  /\ held[w] # NULL
  /\ LET k == held[w].run_key IN
     /\ LeaseMatches(rows[k], held[w], now)
     /\ rows[k].generation = expected
     /\ rows[k].status \in {"planned", "failed", "ambiguous"}
     /\ expected < MaxGeneration
     /\ rows' = [rows EXCEPT ![k] = Started(@)]
     /\ Permit(w, expected + 1)
  /\ UNCHANGED <<fence_seq, baseline, held>>

\* The UPDATE of begin_delivery matched: the attempt starts.
BeginApplied(w, now, expected) ==
  /\ held[w] # NULL
  /\ LET k == held[w].run_key IN
     /\ LeaseMatches(rows[k], held[w], now)
     /\ rows[k].generation = expected
     /\ rows[k].status \in {"planned", "failed"}
     /\ expected < MaxGeneration
     /\ rows' = [rows EXCEPT ![k] = Started(@)]
     /\ Permit(w, expected + 1)
  /\ UNCHANGED <<fence_seq, baseline, held>>

\* It matched nothing and the row is at the generation the caller names.
BeginAlreadyApplied(w, expected) ==
  /\ held[w] # NULL
  /\ rows[held[w].run_key].status = "delivering"
  /\ rows[held[w].run_key].generation = expected
  /\ Permit(w, expected)
  /\ UNCHANGED <<fence_seq, rows, baseline, held>>

begin_delivery(w, now, expected) ==
  BeginApplied(w, now, expected) \/ BeginAlreadyApplied(w, expected)

\* Mutant: neither the generation nor the status is compared.
mark_any_generation(w, now, expected, status) ==
  /\ held[w] # NULL
  /\ LET k == held[w].run_key IN
     /\ LeaseMatches(rows[k], held[w], now)
     /\ expected < MaxGeneration
     /\ rows' = [rows EXCEPT ![k] = Released([@ EXCEPT !.status = status,
                                                    !.generation = expected + 1])]
  /\ UNCHANGED <<fence_seq, baseline, held, sends>>

\* mark_failed and mark_ambiguous.
mark_attempt_outcome(w, now, expected, status) ==
  /\ held[w] # NULL
  /\ LET k == held[w].run_key IN
     /\ LeaseMatches(rows[k], held[w], now)
     /\ rows[k].generation = expected
     /\ rows[k].status = "delivering"
     /\ expected < MaxGeneration
     /\ rows' = [rows EXCEPT ![k] = Released(Advance(@, status))]
  /\ UNCHANGED <<fence_seq, baseline, held, sends>>

recover_expired_delivery(k, now) ==
  /\ k \in DOMAIN rows
  /\ rows[k].status = "delivering"
  /\ rows[k].lease # NULL /\ rows[k].lease.expires_at <= now
  /\ rows[k].generation < MaxGeneration
  /\ rows' = [rows EXCEPT ![k] = Released(Advance(@, "ambiguous"))]
  /\ UNCHANGED <<fence_seq, baseline, held, sends>>

\* What the transaction of record_receipt does to the baseline row; its table
\* requires updated_at >= delivered_at.
reconcile_baseline(p, r, now) ==
  LET effect == baseline_replacement(baseline, p, r)
  IN /\ effect # "conflict"
     /\ effect = "replace" => r.delivered_at <= now
     /\ baseline' = IF effect = "replace" THEN BaselineOf(p, r) ELSE baseline

record_receipt(w, now, expected, r) ==
  /\ validate_receipt(r)
  /\ held[w] # NULL
  /\ LET k == held[w].run_key
         p == rows[k].spec
     IN /\ require_active_token(rows[k], held[w], now)
        /\ rows[k].generation = expected
        /\ rows[k].status \in {"delivering", "ambiguous"}
        /\ r.destination = p.destination /\ r.body_digest = p.delivery_digest
        /\ reconcile_baseline(p, r, now)
        /\ expected < MaxGeneration
        /\ rows' = [rows EXCEPT ![k] = Released(Delivered(@, r))]
  /\ UNCHANGED <<fence_seq, held, sends>>

\* A worker restarts and forgets its token; the rows are durable.
Restart(w) ==
  /\ held[w] # NULL
  /\ held' = [held EXCEPT ![w] = NULL]
  /\ UNCHANGED <<fence_seq, rows, baseline, sends>>

-----------------------------------------------------------------------------
Init ==
  /\ fence_seq = 0
  /\ rows = [k \in {} |-> NULL]
  /\ baseline = NULL
  /\ held = [w \in Worker |-> NULL]
  /\ sends = {}

Generation == 0..MaxGeneration

Next ==
  \/ \E p \in Plan : plan(p)
  \/ \E w \in Worker, k \in RunKey, now \in Now, seconds \in Ttl : claim(w, k, now, seconds)
  \/ \E k \in RunKey, now \in Now, seconds \in Ttl : ClaimAborts(k, now, seconds)
  \/ \E w \in Worker, now \in Now, seconds \in Ttl : renew(w, now, seconds)
  \/ \E w \in Worker, now \in Now : release(w, now)
  \/ \E w \in Worker, now \in Now, g \in Generation : begin_delivery(w, now, g)
  \/ \E w \in Worker, now \in Now, g \in Generation, s \in {"failed", "ambiguous"} :
        mark_attempt_outcome(w, now, g, s)
  \/ \E k \in RunKey, now \in Now : recover_expired_delivery(k, now)
  \/ \E w \in Worker, now \in Now, g \in Generation, r \in Receipt : record_receipt(w, now, g, r)
  \/ \E w \in Worker : Restart(w)

Spec == Init /\ [][Next]_vars

-----------------------------------------------------------------------------
(* Properties                                                              *)

\* The tables hold what their columns allow: in particular no step leaves half
\* a lease behind, and a token always names an owner and a fence.
TypeOK ==
  /\ fence_seq \in 0..MaxFence
  /\ DOMAIN rows \subseteq RunKey /\ rows \in [DOMAIN rows -> StoredRun]
  /\ baseline \in ScheduledBaseline \cup {NULL}
  /\ held \in [Worker -> LeaseToken \cup {NULL}]
  /\ sends \subseteq Send

\* The checks of the schema: a run in flight has a lease, so that expiry can
\* recover it, a delivered one has none, and a receipt belongs to a delivered
\* run and is the one its plan asked for.
SchemaChecks ==
  \A k \in DOMAIN rows :
    /\ rows[k].status = "delivering" => rows[k].lease # NULL
    /\ rows[k].status = "delivered" => rows[k].lease = NULL
    /\ (rows[k].status = "delivered") <=> (rows[k].receipt # NULL)
    /\ rows[k].receipt # NULL => rows[k].receipt.body_digest = rows[k].spec.delivery_digest

\* A fence is given to one claim: no two rows and no two workers share one,
\* though rolled-back claims skip values and workers share an owner name.
FencesUnique ==
  /\ \A j, k \in DOMAIN rows :
       rows[j].lease # NULL /\ rows[k].lease # NULL /\ rows[j].lease.fence = rows[k].lease.fence => j = k
  /\ \A v, w \in Worker :
       held[v] # NULL /\ held[w] # NULL /\ held[v].fence = held[w].fence => v = w

\* A run in doubt is not sent again: neither begin's UPDATE nor its second
\* look at the row lets a worker send an ambiguous or delivered run.
NoResendInDoubt ==
  [][\A s \in sends' \ sends : rows[s.run].status \notin {"ambiguous", "delivered"}]_vars

Confirmed == {k \in DOMAIN rows : rows[k].status = "delivered" /\ rows[k].spec.mode # "manual"}

\* The baseline row is the newest scheduled date with a committed receipt and
\* agrees with every run of that date: run and baseline commit together.
BaselineIsConfirmed ==
  /\ (baseline = NULL) <=> (Confirmed = {})
  /\ baseline # NULL =>
       LET date == scheduled_date(baseline.scheduled_run_key) IN
       /\ \E k \in Confirmed : scheduled_date(rows[k].spec.scheduled_run_key) = date
       /\ \A k \in Confirmed :
            LET p == rows[k].spec IN
            /\ scheduled_date(p.scheduled_run_key) <= date
            /\ scheduled_date(p.scheduled_run_key) = date =>
                 baseline = BaselineOf(p, rows[k].receipt)

\* What FencesUnique and BaselineIsConfirmed rest on: no fence is ahead of the
\* sequence, a token is for a stored run, and stored plans have been validated.
FencesIssued ==
  /\ \A k \in DOMAIN rows : rows[k].lease # NULL => rows[k].lease.fence <= fence_seq
  /\ \A w \in Worker : held[w] # NULL =>
       held[w].fence <= fence_seq /\ held[w].run_key \in DOMAIN rows
PlansAreValid == \A k \in DOMAIN rows : validate_plan(rows[k].spec) /\ rows[k].spec.run_key = k

\* The inductive invariant of the proofs.
IInv == /\ TypeOK /\ SchemaChecks /\ FencesIssued /\ FencesUnique /\ PlansAreValid
        /\ BaselineIsConfirmed

Protocol == INSTANCE DeliveryProtocol WITH
  Key <- RunKey, None <- NULL,
  phase <- [k \in RunKey |-> IF k \in DOMAIN rows THEN rows[k].status ELSE "absent"],
  generation <- [k \in RunKey |-> IF k \in DOMAIN rows THEN rows[k].generation ELSE 0],
  receipt <- [k \in RunKey |-> IF k \in DOMAIN rows THEN rows[k].receipt ELSE NULL],
  base <- IF baseline = NULL THEN NULL
          ELSE [date |-> scheduled_date(baseline.scheduled_run_key),
                receipt_id |-> baseline.receipt_id]

\* The store implements the same delivery protocol as the in-memory machine.
ImplementsProtocol == Protocol!ProtocolSpec

\* docs/daily-portfolio-delivery-store.md: a stale token cannot begin a
\* delivery after another claim advanced the fence.
StaleTokenCannotBegin ==
  [][\A s \in sends' \ sends : rows[s.run].lease # NULL /\ rows[s.run].lease.fence = s.fence]_vars

\* docs/daily-portfolio-delivery-state.md: an in-flight delivery is not leased
\* to another worker before recovery has made it ambiguous.
InFlightIsNotReclaimed ==
  [][\A k \in DOMAIN rows :
       rows[k].status = "delivering" /\ rows'[k].status = "delivering" =>
         rows'[k].lease.fence = rows[k].lease.fence]_vars
=============================================================================
