--------------------------- MODULE DailyDelivery ----------------------------
(***************************************************************************)
(* The in-memory delivery machine of src/daily_portfolio_delivery.rs:      *)
(* fenced leases and compare-and-set generations around the sending of one *)
(* daily briefing.                                                         *)
(*                                                                         *)
(* The machine has no clock: every caller passes its own reading, so a     *)
(* reading here is any member of Now, in any order.  Counters are u64 with *)
(* checked additions; MaxCounter is u64::MAX.                              *)
(*                                                                         *)
(* A worker may send the briefing once begin_delivery has answered Ok to   *)
(* it; `sends` remembers these permissions.                                *)
(***************************************************************************)
EXTENDS DeliveryPlan, FiniteSets

CONSTANTS MaxCounter, MaxTtl

ASSUME CounterAssumption == MaxCounter \in Nat /\ MaxTtl \in Nat

VARIABLES
  next_fence, runs, leases, scheduled_baseline,   \* DeliveryState
  held,    \* the last token each worker was given
  sends    \* history: [run, generation, worker, fence] of begins answered Ok

vars == <<next_fence, runs, leases, scheduled_baseline, held, sends>>

Send == [run: RunKey, generation: Nat, worker: Worker, fence: Nat]

-----------------------------------------------------------------------------
validate_ttl(ttl) == ttl # 0 /\ ttl <= MaxTtl

\* A lease that still blocks others at clock reading `now`.
Unexpired(k, now) == k \in DOMAIN leases /\ leases[k].expires_at > now

require_active(token, now) ==
  /\ token.run_key \in DOMAIN leases
  /\ leases[token.run_key].owner = token.owner
  /\ leases[token.run_key].fence = token.fence
  /\ leases[token.run_key].expires_at > now
  /\ token.expires_at > now

\* The table of leases without k's.
WithoutLease(k) == [x \in DOMAIN leases \ {k} |-> leases[x]]

WithLease(k, token) == [x \in DOMAIN leases \cup {k} |-> IF x = k THEN token ELSE leases[x]]

plan(p) ==
  /\ validate_plan(p)
  /\ p.run_key \notin DOMAIN runs
  /\ runs' = [k \in DOMAIN runs \cup {p.run_key} |->
                IF k = p.run_key THEN NewRun(p) ELSE runs[k]]
  /\ UNCHANGED <<next_fence, leases, scheduled_baseline, held, sends>>

Token(k, w, fence, expires) ==
  [run_key |-> k, owner |-> owner[w], fence |-> fence, expires_at |-> expires]

\* Mutant: an expired in-flight delivery may be leased again.
acquire_in_flight(w, k, now, ttl) ==
  /\ validate_ttl(ttl)
  /\ k \in DOMAIN runs
  /\ runs[k].status # "delivered"
  /\ ~Unexpired(k, now)
  /\ next_fence < MaxCounter /\ now + ttl <= MaxCounter
  /\ next_fence' = next_fence + 1
  /\ leases' = WithLease(k, Token(k, w, next_fence + 1, now + ttl))
  /\ held' = [held EXCEPT ![w] = Token(k, w, next_fence + 1, now + ttl)]
  /\ UNCHANGED <<runs, scheduled_baseline, sends>>

\* Mutant: the additions are not checked.
acquire_unchecked(w, k, now, ttl) ==
  /\ validate_ttl(ttl)
  /\ k \in DOMAIN runs
  /\ runs[k].status \notin {"delivered", "delivering"}
  /\ ~Unexpired(k, now)
  /\ next_fence' = next_fence + 1
  /\ leases' = WithLease(k, Token(k, w, next_fence + 1, now + ttl))
  /\ held' = [held EXCEPT ![w] = Token(k, w, next_fence + 1, now + ttl)]
  /\ UNCHANGED <<runs, scheduled_baseline, sends>>

acquire(w, k, now, ttl) ==
  /\ validate_ttl(ttl)
  /\ k \in DOMAIN runs
  /\ runs[k].status # "delivered"
  /\ ~Unexpired(k, now)
  /\ runs[k].status # "delivering"
  /\ next_fence < MaxCounter /\ now + ttl <= MaxCounter
  /\ next_fence' = next_fence + 1
  /\ leases' = WithLease(k, Token(k, w, next_fence + 1, now + ttl))
  /\ held' = [held EXCEPT ![w] = Token(k, w, next_fence + 1, now + ttl)]
  /\ UNCHANGED <<runs, scheduled_baseline, sends>>

renew(w, now, ttl) ==
  /\ validate_ttl(ttl)
  /\ held[w] # NULL /\ require_active(held[w], now)
  /\ now + ttl <= MaxCounter
  /\ LET renewed == [held[w] EXCEPT !.expires_at = now + ttl]
     IN /\ leases' = WithLease(held[w].run_key, renewed)
        /\ held' = [held EXCEPT ![w] = renewed]
  /\ UNCHANGED <<next_fence, runs, scheduled_baseline, sends>>

\* Mutant: a sending lease may be given back.
release_any(w, now) ==
  /\ held[w] # NULL /\ require_active(held[w], now)
  /\ leases' = WithoutLease(held[w].run_key)
  /\ UNCHANGED <<next_fence, runs, scheduled_baseline, held, sends>>

release(w, now) ==
  /\ held[w] # NULL /\ require_active(held[w], now)
  /\ runs[held[w].run_key].status # "delivering"
  /\ leases' = WithoutLease(held[w].run_key)
  /\ UNCHANGED <<next_fence, runs, scheduled_baseline, held, sends>>

\* Permission to send generation g, remembered.
Permit(w, g) ==
  sends' = sends \cup {[run |-> held[w].run_key, generation |-> g,
                        worker |-> w, fence |-> held[w].fence]}

\* Mutant: an ambiguous run may be sent again.
begin_resend(w, now, expected) ==
  /\ held[w] # NULL /\ require_active(held[w], now)
  /\ LET k == held[w].run_key IN
     /\ runs[k].generation = expected
     /\ \/ /\ runs[k].status \in {"planned", "failed", "ambiguous"}
           /\ expected < MaxCounter
           /\ runs' = [runs EXCEPT ![k] = Started(@)]
           /\ Permit(w, expected + 1)
        \/ runs[k].status = "delivering" /\ UNCHANGED runs /\ Permit(w, expected)
  /\ UNCHANGED <<next_fence, leases, scheduled_baseline, held>>

\* Mutant: a repeated begin counts as another attempt.
begin_recounts(w, now, expected) ==
  /\ held[w] # NULL /\ require_active(held[w], now)
  /\ LET k == held[w].run_key IN
     /\ runs[k].generation = expected
     /\ \/ /\ runs[k].status \in {"planned", "failed"} /\ expected < MaxCounter
           /\ runs' = [runs EXCEPT ![k] = Started(@)]
           /\ Permit(w, expected + 1)
        \/ /\ runs[k].status = "delivering" /\ runs[k].attempts < MaxCounter
           /\ runs' = [runs EXCEPT ![k].attempts = @ + 1]
           /\ Permit(w, expected)
  /\ UNCHANGED <<next_fence, leases, scheduled_baseline, held>>

\* A first begin starts the attempt; a repeated one is answered again.
begin_delivery(w, now, expected) ==
  /\ held[w] # NULL /\ require_active(held[w], now)
  /\ LET k == held[w].run_key IN
     /\ runs[k].generation = expected
     /\ \/ /\ runs[k].status \in {"planned", "failed"}
           /\ runs[k].attempts < MaxCounter /\ runs[k].generation < MaxCounter
           /\ runs' = [runs EXCEPT ![k] = Started(@)]
           /\ Permit(w, expected + 1)
        \/ runs[k].status = "delivering" /\ UNCHANGED runs /\ Permit(w, expected)
  /\ UNCHANGED <<next_fence, leases, scheduled_baseline, held>>

\* Mutant: the status is not compared.
MarkAnyOutcome(w, now, expected, status) ==
  /\ held[w] # NULL /\ require_active(held[w], now)
  /\ LET k == held[w].run_key IN
     /\ runs[k].generation = expected /\ expected < MaxCounter
     /\ runs' = [runs EXCEPT ![k] = Advance(@, status)]
     /\ leases' = WithoutLease(k)
  /\ UNCHANGED <<next_fence, scheduled_baseline, held, sends>>

\* mark_failed and mark_ambiguous: the attempt ends and gives its lease back.
MarkOutcome(w, now, expected, status) ==
  /\ held[w] # NULL /\ require_active(held[w], now)
  /\ LET k == held[w].run_key IN
     /\ runs[k].generation = expected
     /\ runs[k].status = "delivering"
     /\ expected < MaxCounter
     /\ runs' = [runs EXCEPT ![k] = Advance(@, status)]
     /\ leases' = WithoutLease(k)
  /\ UNCHANGED <<next_fence, scheduled_baseline, held, sends>>

mark_failed(w, now, expected) == MarkOutcome(w, now, expected, "failed")

mark_ambiguous(w, now, expected) == MarkOutcome(w, now, expected, "ambiguous")

recover_expired_delivery(k, now) ==
  /\ ~Unexpired(k, now)
  /\ k \in DOMAIN runs
  /\ runs[k].status = "delivering"
  /\ runs[k].generation < MaxCounter
  /\ runs' = [runs EXCEPT ![k] = Advance(@, "ambiguous")]
  /\ leases' = WithoutLease(k)
  /\ UNCHANGED <<next_fence, scheduled_baseline, held, sends>>

\* Mutant: the receipt is not compared with the plan.
record_any_receipt(w, now, expected, r) ==
  /\ validate_receipt(r)
  /\ held[w] # NULL /\ require_active(held[w], now)
  /\ LET k == held[w].run_key IN
     /\ runs[k].generation = expected
     /\ runs[k].status \in {"delivering", "ambiguous"}
     /\ baseline_replacement(scheduled_baseline, runs[k].spec, r) # "conflict"
     /\ expected < MaxCounter
     /\ runs' = [runs EXCEPT ![k] = Delivered(@, r)]
     /\ leases' = WithoutLease(k)
     /\ scheduled_baseline' =
          IF baseline_replacement(scheduled_baseline, runs[k].spec, r) = "replace"
          THEN BaselineOf(runs[k].spec, r) ELSE scheduled_baseline
  /\ UNCHANGED <<next_fence, held, sends>>

\* A confirmed receipt closes the run.  Against a delivered run the call only
\* answers.
record_receipt(w, now, expected, r) ==
  /\ validate_receipt(r)
  /\ held[w] # NULL /\ require_active(held[w], now)
  /\ LET k == held[w].run_key
         p == runs[k].spec
         effect == baseline_replacement(scheduled_baseline, p, r)
     IN /\ runs[k].status # "delivered"
        /\ runs[k].generation = expected
        /\ runs[k].status \in {"delivering", "ambiguous"}
        /\ r.destination = p.destination /\ r.body_digest = p.delivery_digest
        /\ effect # "conflict"
        /\ expected < MaxCounter
        /\ runs' = [runs EXCEPT ![k] = Delivered(@, r)]
        /\ leases' = WithoutLease(k)
        /\ scheduled_baseline' = IF effect = "replace" THEN BaselineOf(p, r)
                                                       ELSE scheduled_baseline
  /\ UNCHANGED <<next_fence, held, sends>>

\* A worker restarts and forgets its token.
Restart(w) ==
  /\ held[w] # NULL
  /\ held' = [held EXCEPT ![w] = NULL]
  /\ UNCHANGED <<next_fence, runs, leases, scheduled_baseline, sends>>

-----------------------------------------------------------------------------
Init ==
  /\ next_fence = 0
  /\ runs = [k \in {} |-> NULL]
  /\ leases = [k \in {} |-> NULL]
  /\ scheduled_baseline = NULL
  /\ held = [w \in Worker |-> NULL]
  /\ sends = {}

Generation == 0..MaxCounter

Next ==
  \/ \E p \in Plan : plan(p)
  \/ \E w \in Worker, k \in RunKey, now \in Now, ttl \in Ttl : acquire(w, k, now, ttl)
  \/ \E w \in Worker, now \in Now, ttl \in Ttl : renew(w, now, ttl)
  \/ \E w \in Worker, now \in Now : release(w, now)
  \/ \E w \in Worker, now \in Now, g \in Generation : begin_delivery(w, now, g)
  \/ \E w \in Worker, now \in Now, g \in Generation : mark_failed(w, now, g)
  \/ \E w \in Worker, now \in Now, g \in Generation : mark_ambiguous(w, now, g)
  \/ \E k \in RunKey, now \in Now : recover_expired_delivery(k, now)
  \/ \E w \in Worker, now \in Now, g \in Generation, r \in Receipt : record_receipt(w, now, g, r)
  \/ \E w \in Worker : Restart(w)

Spec == Init /\ [][Next]_vars

-----------------------------------------------------------------------------
(* Properties                                                              *)

\* The fields keep their u64 types at every step, also at the top of the
\* counters, and a lease always belongs to a run that exists.
TypeOK ==
  /\ next_fence \in 0..MaxCounter
  /\ DOMAIN runs \subseteq RunKey /\ runs \in [DOMAIN runs -> RunRecord]
  /\ DOMAIN leases \subseteq DOMAIN runs /\ leases \in [DOMAIN leases -> LeaseToken]
  /\ scheduled_baseline \in ScheduledBaseline \cup {NULL}
  /\ held \in [Worker -> LeaseToken \cup {NULL}]
  /\ sends \subseteq Send

\* One attempt, one sender: whatever the workers' clocks read, however often
\* leases expire, are renewed, given back or begun again, begin_delivery lets
\* one holder of one fence send a given generation of a run.
SingleSender ==
  \A s, t \in sends : s.run = t.run /\ s.generation = t.generation => s = t

\* While an attempt is in flight its lease stays that of the sender: acquire
\* refuses it, release refuses it and renew keeps its fence.
InFlightLease ==
  \A k \in DOMAIN runs : runs[k].status = "delivering" =>
    /\ k \in DOMAIN leases
    /\ \E s \in sends : s.run = k /\ s.generation = runs[k].generation
                          /\ s.fence = leases[k].fence

\* `attempts` counts the generations that could be sent, no more and no less.
AttemptsAreSends ==
  \A k \in DOMAIN runs :
    runs[k].attempts = Cardinality({s.generation : s \in {t \in sends : t.run = k}})

Confirmed == {k \in DOMAIN runs : runs[k].status = "delivered" /\ runs[k].spec.mode # "manual"}

\* The baseline is the newest scheduled date with a confirmed receipt, its
\* digests are what that receipt confirmed, and all runs of that date agree.
BaselineIsConfirmed ==
  /\ (scheduled_baseline = NULL) <=> (Confirmed = {})
  /\ scheduled_baseline # NULL =>
       LET date == scheduled_date(scheduled_baseline.scheduled_run_key) IN
       /\ \E k \in Confirmed :
            /\ scheduled_date(runs[k].spec.scheduled_run_key) = date
            /\ runs[k].receipt.body_digest = scheduled_baseline.delivery_digest
       /\ \A k \in Confirmed :
            LET p == runs[k].spec IN
            /\ scheduled_date(p.scheduled_run_key) <= date
            /\ scheduled_date(p.scheduled_run_key) = date =>
                 scheduled_baseline = BaselineOf(p, runs[k].receipt)

\* One date has one scheduled run: plans cannot borrow another's identity.
OneScheduledRunPerDate ==
  \A j, k \in DOMAIN runs :
    /\ runs[j].spec.mode = "scheduled" /\ runs[k].spec.mode = "scheduled"
    /\ scheduled_date(runs[j].spec.scheduled_run_key) = scheduled_date(runs[k].spec.scheduled_run_key)
    => j = k

\* A run in doubt is not sent again, by the old holder or by a new one.
NoResendInDoubt ==
  [][\A s \in sends' \ sends : runs[s.run].status \notin {"ambiguous", "delivered"}]_vars

\* Fences are given out once, and a generation is sent only up to the run's.
FencesIssued ==
  /\ \A k \in DOMAIN leases : leases[k].fence <= next_fence
  /\ \A w \in Worker : held[w] # NULL => held[w].fence <= next_fence
  /\ \A v, w \in Worker :
       held[v] # NULL /\ held[w] # NULL /\ held[v].fence = held[w].fence => v = w
  /\ \A s \in sends :
       /\ s.run \in DOMAIN runs /\ s.generation <= runs[s.run].generation
       /\ s.fence <= next_fence
       /\ \A w \in Worker : held[w] # NULL /\ held[w].fence = s.fence => w = s.worker

\* A stored plan was validated; a run is delivered once it has a receipt, and the
\* receipt is for the body that was planned.
RunsAreWhole ==
  \A k \in DOMAIN runs :
    /\ validate_plan(runs[k].spec)
    /\ (runs[k].status = "delivered") <=> (runs[k].receipt # NULL)
    /\ runs[k].receipt # NULL => runs[k].receipt.body_digest = runs[k].spec.delivery_digest

\* The inductive invariants of the proofs: of leases and sends, and of what is durable.
Durable == RunsAreWhole /\ BaselineIsConfirmed
IInv == TypeOK /\ FencesIssued /\ InFlightLease /\ SingleSender

Protocol == INSTANCE DeliveryProtocol WITH
  Key <- RunKey, None <- NULL,
  phase <- [k \in RunKey |-> IF k \in DOMAIN runs THEN runs[k].status ELSE "absent"],
  generation <- [k \in RunKey |-> IF k \in DOMAIN runs THEN runs[k].generation ELSE 0],
  receipt <- [k \in RunKey |-> IF k \in DOMAIN runs THEN runs[k].receipt ELSE NULL],
  base <- IF scheduled_baseline = NULL THEN NULL
          ELSE [date |-> scheduled_date(scheduled_baseline.scheduled_run_key),
                receipt_id |-> scheduled_baseline.receipt_id]

\* The machine implements the delivery protocol.
ImplementsProtocol == Protocol!ProtocolSpec
=============================================================================
