---------------------------- MODULE RecoveryWorker ----------------------------
(***************************************************************************)
(* The workers of the artifact-recovery queue:                             *)
(* tools/artifact_recovery_worker_runtime/ and                             *)
(* tools/run_continuous_artifact_recovery_worker.py.                       *)
(*                                                                         *)
(* A worker claims a job, collects every source page by page, reconciles   *)
(* the shared ledger and the shared cursors under a file lock, sends the   *)
(* report and completes the job.  Several workers share one state          *)
(* directory.  Any of them may be killed at any step, its lease may run    *)
(* out at any step, and every answer of the coordinator may be lost.       *)
(*                                                                         *)
(* A source has at most one item of interest, which appears at some        *)
(* instant, open, and is done later.  The adapters (external) keep their   *)
(* contract: a complete collection with watermark t holds what appeared    *)
(* before t.                                                               *)
(***************************************************************************)
EXTENDS RecoveryLedger

CONSTANTS Workers, Jobs,
          Payload,        \* job -> what its payload says, see validate_job
          Specs,          \* the manifest: the sources in order
          Required,       \* its required sources
          Authorized,     \* sources whose token is configured
          MaxAge,         \* max_age_seconds of every source
          MaxPages,       \* max_pages_per_source
          BatchSize,
          Observed,       \* [source, phase] -> the item as an adapter reports it
          Unusable,       \* items that an adapter passes on and nobody can use
          MailConfigured, \* ARTIFACT_RECOVERY_REPORT_TO is set
          MaxAttempts,    \* of a job, at the coordinator
          MaxNow          \* bound of the clock

\* SourceManifest.from_value: a spec for every named source, and no other.
ValidManifest(specs, required, optional) ==
    /\ required # {} /\ required \intersect optional = {}
    /\ required \union optional \subseteq Sources
    /\ \A m, n \in DOMAIN specs : m # n => specs[m] # specs[n]
    /\ ToSet(specs) = required \union optional

\* The mandatory forbidden actions of a job, and what else its payload has to
\* be: known schema, keys and run key.
Mandatory == {"reuse_chat_pasted_credentials", "force_push",
              "direct_default_branch_write", "bypass_protection", "auto_merge",
              "claim_delivery_without_remote_evidence"}

validate_job(payload) == payload.well_formed /\ Mandatory \subseteq payload.forbidden

\* SourceManifest.enforce_job_contract
enforce_job_contract(payload) ==
    /\ payload.chatgpt_scan => "chatgpt" \in Required
    /\ payload.claude_scan => "claude" \in ToSet(Specs)

ASSUME WorkerAssumption ==
    /\ Specs \in Seq(Sources)
    /\ ValidManifest(Specs, Required, ToSet(Specs) \ Required)
    /\ {MaxAge, MaxPages} \subseteq Nat \ {0} /\ BatchSize \in 1 .. 50
    /\ MaxNow \in Nat
    /\ NULL \notin Workers \union Jobs \union Int \union States

\* An item keeps its key when it is done, and when it is normalized; open means that
\* something is left to do.
ASSUME AdapterAssumption ==
    /\ Authorized \subseteq ToSet(Specs)
    /\ \A s \in Authorized :
          /\ \A ph \in {"open", "done"} :
                LedgerKey(normalize_observation_item(Observed[s, ph])) = LedgerKey(Observed[s, "open"])
          /\ classify(normalize_observation_item(Observed[s, "open"])).status
                \in {"actionable", "blocked"}
    /\ \A i \in Unusable : normalize_observation_item(i) = REJECTED

VARIABLES
    now,
    born,    \* source -> instant its item appeared, or NULL
    phase,   \* source -> "open" or "done"
    job,     \* job -> its row at the coordinator
    cursors, \* cursors.json: source -> high-water mark, or NULL
    ledger,  \* ledger.json
    fence,   \* the worker that holds the file lock, or NULL
    pc, run, \* worker -> where it is, and what its run holds
    mails,   \* the jobs of which a report was sent
    basis    \* history: job -> start of the run that made it succeed

files == <<cursors, ledger, fence>>
world == <<born, phase>>
vars == <<now, world, job, files, pc, run, mails, basis>>

policy == [required |-> Required, optional |-> ToSet(Specs) \ Required]
WindowStart == -MaxAge - 1   \* before all that happens

NoRun == [job |-> NULL, started |-> 0, prior |-> [s \in ToSet(Specs) |-> NULL],
          at |-> 1, pages |-> 0, items |-> {}, watermark |-> WindowStart,
          captured |-> 0, collections |-> <<>>, summary |-> NULL,
          coverage |-> FALSE, retryable |-> FALSE]

Init ==
    /\ now = 0
    /\ born = [s \in ToSet(Specs) |-> NULL]
    /\ phase = [s \in ToSet(Specs) |-> "open"]
    /\ job = [j \in Jobs |-> [status |-> "queued", holder |-> NULL, attempts |-> 0]]
    /\ cursors = [s \in ToSet(Specs) |-> NULL]
    /\ ledger = EmptyLedger
    /\ fence = NULL
    /\ pc = [w \in Workers |-> "idle"]
    /\ run = [w \in Workers |-> NoRun]
    /\ mails = {}
    /\ basis = [j \in Jobs |-> NULL]

Goto(w, there) == pc' = [pc EXCEPT ![w] = there]

\* A raised WorkerError: process_one reports the job as failed, then main goes on or ends.
Raise(w, retryable) ==
    /\ run' = [run EXCEPT ![w].retryable = retryable]
    /\ Goto(w, "failing")

\* A process ends, whatever it was doing: its lock is released by the kernel.
Dies(w) ==
    /\ fence' = IF fence = w THEN NULL ELSE fence
    /\ run' = [run EXCEPT ![w] = NoRun]
    /\ Goto(w, "down")
-----------------------------------------------------------------------------
(* The coordinator (external, see JobQueue), as far as a worker sees it.   *)

Claimed(j, w) == [job EXCEPT ![j] = [status |-> "running", holder |-> w,
                                     attempts |-> @.attempts + 1]]

Retried(row) == [row EXCEPT !.holder = NULL,
                            !.status = IF row.attempts < MaxAttempts
                                       THEN "queued" ELSE "failed"]

Held(w) == job[run[w].job].status = "running" /\ job[run[w].job].holder = w

\* The heartbeats stopped or came too late.
LeaseExpires(j) ==
    /\ job[j].status = "running"
    /\ job' = [job EXCEPT ![j] = Retried(@)]
    /\ UNCHANGED <<now, world, files, pc, run, mails, basis>>
-----------------------------------------------------------------------------
(* process_one, up to the run.                                             *)

\* JsonHttpClient.request: what becomes of a request, and whether the WorkerError
\* that it raises, unless the answer is good, may be retried.
request == {[arrives |-> FALSE, good |-> FALSE, retryable |-> TRUE],
            [arrives |-> TRUE, good |-> FALSE, retryable |-> TRUE],
            [arrives |-> TRUE, good |-> FALSE, retryable |-> FALSE],
            [arrives |-> TRUE, good |-> TRUE, retryable |-> FALSE]}

\* claim; an answer that is lost leaves the job leased, and main sleeps, or ends
\* after one that cannot be read.
Claim(w) ==
    /\ pc[w] = "idle"
    /\ \E j \in Jobs :
         /\ job[j].status = "queued"
         /\ job' = Claimed(j, w)
         /\ \E r \in {x \in request : x.arrives} :
              /\ Goto(w, IF r.good THEN "begin" ELSE IF r.retryable THEN "idle" ELSE "down")
              /\ run' = IF r.good THEN [run EXCEPT ![w] = [NoRun EXCEPT !.job = j]] ELSE run
    /\ UNCHANGED <<now, world, files, mails, basis>>

\* The job and its contract, and a schedule at most an hour ahead.
Begin(w) ==
    /\ pc[w] = "begin"
    /\ IF /\ validate_job(Payload[run[w].job])
          /\ enforce_job_contract(Payload[run[w].job])
          /\ Payload[run[w].job].scheduled_for <= now + 3600
       THEN /\ run' = [run EXCEPT ![w].started = now, ![w].captured = now]
            /\ Goto(w, "cursors")
       ELSE Raise(w, FALSE)
    /\ UNCHANGED <<now, world, job, files, mails, basis>>

\* state_fence gives up after twice the lease.
FenceTimeout(w) ==
    /\ pc[w] \in {"cursors", "save"}
    /\ fence \notin {NULL, w}
    /\ Raise(w, TRUE)
    /\ UNCHANGED <<now, world, job, files, mails, basis>>

\* The cursors are read under the lock, which is released at once.
ReadCursors(w) ==
    /\ pc[w] = "cursors"
    /\ fence = NULL
    /\ run' = [run EXCEPT ![w].prior = cursors]
    /\ Goto(w, "collect")
    /\ UNCHANGED <<now, world, job, files, mails, basis>>
-----------------------------------------------------------------------------
(* SourceCollector.collect                                                 *)

Source(w) == Specs[run[w].at]

Receipt(w, fields) ==
    [source |-> Source(w), window_start |-> WindowStart, window_end |-> run[w].started,
     captured_at |-> fields.captured, watermark_at |-> fields.watermark,
     max_age_seconds |-> MaxAge,
     age_seconds |-> AtLeastZero(run[w].started - fields.watermark),
     started |-> fields.pages > 0, complete |-> fields.complete,
     last_page_complete |-> fields.complete,
     pages_read |-> fields.pages, items_read |-> Cardinality(fields.items),
     reported_state |-> fields.state, state |-> fields.state,
     error_class |-> fields.error]

\* The collection of a source is over; on to the next one.
Collected(w, receipt, items, mark) ==
    run' = [run EXCEPT ![w].collections = Append(@,
                [receipt |-> receipt, items |-> items, mark |-> mark]),
            ![w].at = @ + 1, ![w].pages = 0, ![w].items = {},
            ![w].watermark = WindowStart, ![w].captured = run[w].started]

FailureReceipt(w, state, error, pages, items, watermark) ==
    Receipt(w, [captured |-> run[w].started, watermark |-> watermark, pages |-> pages,
                complete |-> FALSE, items |-> items, state |-> state, error |-> error])

\* The state is complete unless the watermark is too old for the start of the run.
SuccessReceipt(w, pages, items, watermark, captured) ==
    LET fresh == run[w].started - watermark <= MaxAge
        r == Receipt(w, [captured |-> captured, watermark |-> watermark, pages |-> pages,
                         complete |-> TRUE, items |-> items, state |-> "complete",
                         error |-> IF fresh THEN NULL ELSE "stale_watermark"])
    IN  [r EXCEPT !.state = IF fresh THEN "complete" ELSE "stale"]

Collecting(w) ==
    /\ pc[w] = "collect"
    /\ run[w].at <= Len(Specs)
    /\ UNCHANGED <<now, world, job, files, pc, mails, basis>>

\* Mutant: a collection that broke off moves the mark.
PageFailsAdvances(w) ==
    /\ Collecting(w)
    /\ Source(w) \in Authorized
    /\ Collected(w, FailureReceipt(w, IF run[w].pages > 0 THEN "partial" ELSE "unavailable",
                                   "availability", run[w].pages, run[w].items,
                                   run[w].watermark),
                 run[w].items, run[w].watermark)

NoToken(w) ==
    /\ Collecting(w)
    /\ Source(w) \notin Authorized
    /\ Collected(w, FailureReceipt(w, "unauthorized", "authorization", 0, {}, WindowStart),
                 {}, run[w].prior[Source(w)])

\* A request or a page that cannot be used: what was read so far is kept.
PageFails(w) ==
    /\ Collecting(w)
    /\ Source(w) \in Authorized
    /\ Collected(w, FailureReceipt(w, IF run[w].pages > 0 THEN "partial" ELSE "unavailable",
                                   "availability", run[w].pages, run[w].items,
                                   run[w].watermark),
                 run[w].items, run[w].prior[Source(w)])

\* What a page may hold.
Seen(s) == IF born[s] = NULL THEN {} ELSE {Observed[s, phase[s]]}
Later(a, b) == IF a > b THEN a ELSE b

\* A page with a cursor that was not seen before.
NextPage(w) ==
    /\ Collecting(w)
    /\ Source(w) \in Authorized
    /\ run[w].pages + 1 < MaxPages
    /\ \E items \in SUBSET Seen(Source(w)) :
         run' = [run EXCEPT ![w].pages = @ + 1, ![w].items = @ \union items,
                            ![w].captured = Later(@, now),
                            ![w].watermark = Later(@, now)]

\* High-water marks move only if the receipt is complete.
Finished(w, items, watermark) ==
    LET receipt == SuccessReceipt(w, run[w].pages + 1, items, watermark,
                                  Later(run[w].captured, now))
    IN  /\ born[Source(w)] # NULL /\ born[Source(w)] < watermark => items # {}
        /\ Collected(w, receipt, items, IF receipt.state = "complete" THEN watermark
                                        ELSE run[w].prior[Source(w)])

\* The last page, with a current or an old watermark; its items are looked at later.
LastPage(w) ==
    /\ Collecting(w)
    /\ Source(w) \in Authorized
    /\ \/ \E items \in SUBSET Seen(Source(w)), at \in {now, now - MaxAge - 1} :
            Finished(w, run[w].items \union items, Later(run[w].watermark, at))
       \/ \E i \in Unusable : Finished(w, run[w].items \union {i}, now)
-----------------------------------------------------------------------------
(* engine.run after the collection                                         *)

Collections(w) == [s \in ToSet(Specs) |->
    run[w].collections[CHOOSE n \in DOMAIN Specs : Specs[n] = s]]
Receipts(w) == [s \in ToSet(Specs) |-> Collections(w)[s].receipt]
AllItems(w) == UNION {c.items : c \in ToSet(run[w].collections)}

\* _deduplicate_items: one key with two contents.
Conflict(items) == \E a, b \in items : a # b /\ LedgerKey(a) = LedgerKey(b)

build_coverage(w) == [summary |-> Summary(policy, Receipts(w)), receipts |-> Receipts(w)]

\* The validators run on what was collected.  Their RecoveryError is not a
\* WorkerError: nobody reports the job, and the process ends.  The receipts are
\* not read again.
Validate(w) ==
    /\ pc[w] = "collect" /\ run[w].at > Len(Specs)
    /\ LET report == build_source_coverage_report(policy, Receipts(w), now, build_coverage(w))
       IN  IF Conflict(AllItems(w)) THEN Raise(w, FALSE) /\ UNCHANGED fence
           ELSE IF \/ validate_observation(SetToSeq(AllItems(w))) = REJECTED
                   \/ report = REJECTED
           THEN Dies(w)
           ELSE /\ run' = [run EXCEPT ![w].coverage = report.summary.complete,
                             ![w].prior = NoRun.prior,
                             ![w].collections = [n \in DOMAIN @ |->
                                [items |-> @[n].items, mark |-> @[n].mark]]]
                /\ Goto(w, "save")
                /\ UNCHANGED fence
    /\ UNCHANGED <<now, world, job, cursors, ledger, mails, basis>>

\* Under the lock: the latest files are read, the ledger is written ...
SaveLedger(w) ==
    /\ pc[w] = "save"
    /\ fence = NULL
    /\ fence' = w
    /\ ledger' = ReconcileAll(SetToSeq(AllItems(w)), ledger, BatchSize)
    /\ run' = [run EXCEPT ![w].summary = summarize_entries(ledger')]
    /\ Goto(w, "savecursors")
    /\ UNCHANGED <<now, world, job, cursors, mails, basis>>

\* Mutant: the last writer wins.
merge_cursor_blindly(current, w) ==
    [s \in DOMAIN current |-> IF Collections(w)[s].mark = NULL THEN current[s]
                              ELSE Collections(w)[s].mark]

\* _merge_cursor_state
merge_cursor_state(current, w) ==
    [s \in DOMAIN current |->
        LET mark == Collections(w)[s].mark
        IN  IF mark = NULL \/ (current[s] # NULL /\ current[s] > mark)
            THEN current[s] ELSE mark]

\* ... and then the cursors.  What was collected is not read again.
SaveCursors(w) ==
    /\ pc[w] = "savecursors"
    /\ cursors' = merge_cursor_state(cursors, w)
    /\ fence' = NULL
    /\ run' = [run EXCEPT ![w] = [NoRun EXCEPT
                  !.job = run[w].job, !.started = run[w].started,
                  !.summary = run[w].summary, !.coverage = run[w].coverage]]
    /\ Goto(w, "report")
    /\ UNCHANGED <<now, world, job, ledger, mails, basis>>

\* Mutant: coverage is not looked at.
succeeded_uncovered(w) ==
    run[w].summary.actionable = 0 /\ run[w].summary.blocked = 0

succeeded(w) ==
    /\ run[w].coverage
    /\ run[w].summary.actionable = 0
    /\ run[w].summary.blocked = 0

\* deliver_report_email: nothing when no address is configured; else it is
\* mandatory, and a failure may come after the message went out.
deliver_report_email ==
    IF ~MailConfigured THEN {[sent |-> FALSE, raises |-> FALSE]}
    ELSE {[sent |-> TRUE, raises |-> FALSE]} \union [sent : BOOLEAN, raises : {TRUE}]

\* Mutant: a failed delivery is ignored.
ReportLeniently(w) ==
    /\ pc[w] = "report"
    /\ \E delivery \in deliver_report_email :
         mails' = IF delivery.sent THEN mails \union {run[w].job} ELSE mails
    /\ Goto(w, "leave")
    /\ UNCHANGED <<now, world, job, files, run, basis>>

\* The completion is made up and delivered.
Report(w) ==
    /\ pc[w] = "report"
    /\ \E delivery \in deliver_report_email :
         /\ mails' = IF delivery.sent THEN mails \union {run[w].job} ELSE mails
         /\ IF delivery.raises THEN Raise(w, TRUE)
            ELSE Goto(w, "leave") /\ UNCHANGED run
    /\ UNCHANGED <<now, world, job, files, basis>>

\* LeaseHeartbeat: a failed heartbeat ends the heartbeat thread, and is raised
\* only when the run is over.
Leave(w) ==
    /\ pc[w] = "leave"
    /\ \/ Goto(w, "complete") /\ UNCHANGED run
       \/ Raise(w, TRUE)
    /\ UNCHANGED <<now, world, job, files, mails, basis>>

\* complete: the coordinator takes it from the holder only.
CompletedRow(w, good) ==
    IF good THEN [job[run[w].job] EXCEPT !.status = "succeeded", !.holder = NULL]
    ELSE Retried(job[run[w].job])

Complete(w) ==
    /\ pc[w] = "complete"
    /\ \E r \in request :
         LET taken == r.arrives /\ Held(w)
         IN  /\ job' = IF taken THEN [job EXCEPT ![run[w].job] = CompletedRow(w, succeeded(w))]
                       ELSE job
             /\ basis' = IF taken /\ succeeded(w)
                         THEN [basis EXCEPT ![run[w].job] = run[w].started] ELSE basis
             /\ IF taken /\ r.good
                THEN Goto(w, "idle") /\ run' = [run EXCEPT ![w] = NoRun]
                ELSE Raise(w, r.retryable \/ ~taken)
    /\ UNCHANGED <<now, world, files, mails>>

\* The failure report: its own failure is swallowed.  A retryable error lets
\* main go on, another one ends the process.
FailedRow(w) ==
    IF run[w].retryable THEN Retried(job[run[w].job])
    ELSE [job[run[w].job] EXCEPT !.status = "failed", !.holder = NULL]

ReportFailure(w) ==
    /\ pc[w] = "failing"
    /\ \/ /\ Held(w)
          /\ job' = [job EXCEPT ![run[w].job] = FailedRow(w)]
       \/ UNCHANGED job
    /\ Goto(w, IF run[w].retryable THEN "idle" ELSE "down")
    /\ run' = [run EXCEPT ![w] = NoRun]
    /\ UNCHANGED <<now, world, files, mails, basis>>

\* A stop takes effect between jobs.
Stop(w) ==
    /\ pc[w] = "idle"
    /\ Goto(w, "down")
    /\ UNCHANGED <<now, world, job, files, run, mails, basis>>

Killed(w) ==
    /\ pc[w] \notin {"idle", "down"}
    /\ Dies(w)
    /\ UNCHANGED <<now, world, job, cursors, ledger, mails, basis>>

\* The supervisor starts the worker again.
Restart(w) ==
    /\ pc[w] = "down"
    /\ Goto(w, "idle")
    /\ UNCHANGED <<now, world, job, files, run, mails, basis>>
-----------------------------------------------------------------------------
\* What happens in a source nobody may read does not matter.
Appears(s) ==
    /\ born[s] = NULL
    /\ born' = [born EXCEPT ![s] = now]
    /\ UNCHANGED <<now, phase, job, files, pc, run, mails, basis>>

Resolved(s) ==
    /\ born[s] # NULL /\ phase[s] = "open"
    /\ phase' = [phase EXCEPT ![s] = "done"]
    /\ UNCHANGED <<now, born, job, files, pc, run, mails, basis>>

Tick ==
    /\ now < MaxNow
    /\ now' = now + 1
    /\ UNCHANGED <<world, job, files, pc, run, mails, basis>>

Next ==
    \/ \E w \in Workers :
        \/ Claim(w) \/ Begin(w) \/ FenceTimeout(w) \/ ReadCursors(w)
        \/ NoToken(w) \/ PageFails(w) \/ NextPage(w) \/ LastPage(w)
        \/ Validate(w) \/ SaveLedger(w) \/ SaveCursors(w) \/ Report(w)
        \/ Leave(w) \/ Complete(w) \/ ReportFailure(w)
        \/ Stop(w) \/ Killed(w) \/ Restart(w)
    \/ \E j \in Jobs : LeaseExpires(j)
    \/ \E s \in Authorized : Appears(s) \/ Resolved(s)
    \/ Tick

Spec == Init /\ [][Next]_vars
-----------------------------------------------------------------------------
(* A job that succeeded tells the truth: whatever had appeared in a        *)
(* required source, up to the age its watermark may have, is done.  Two    *)
(* workers may have collected in one order and reconciled in the other,    *)
(* and their leases may have run out on the way.                           *)
SucceededIsResolved ==
    \A j \in Jobs, s \in Required :
        /\ job[j].status = "succeeded"
        /\ born[s] # NULL /\ born[s] + MaxAge < basis[j]
        => phase[s] = "done"

(* The ledger knows every item its cursors say has been read: a kill       *)
(* between the two writes, or a collection that broke off, never moves a   *)
(* high-water mark past an item that is not in the ledger.                 *)
MarksAreCovered ==
    \A s \in ToSet(Specs) :
        /\ cursors[s] # NULL
        /\ born[s] # NULL /\ born[s] < cursors[s]
        => LedgerKey(Observed[s, "open"]) \in DOMAIN ledger

(* High-water marks never go back, though every worker collects with the   *)
(* cursors it read before and merges after others have merged.             *)
MarksGrow ==
    [][\A s \in ToSet(Specs) :
         cursors[s] # NULL => cursors'[s] # NULL /\ cursors'[s] >= cursors[s]]_cursors

(* "When ARTIFACT_RECOVERY_REPORT_TO is configured, delivery is            *)
(* mandatory": no job succeeds unreported.                                 *)
SucceededIsReported ==
    \A j \in Jobs : MailConfigured /\ job[j].status = "succeeded" => j \in mails
-----------------------------------------------------------------------------
(* The inductive invariant behind them: what a run may rely on at each step *)

Known(s) == LedgerKey(Observed[s, "open"]) \in DOMAIN ledger
Older(s, instant) == born[s] # NULL /\ born[s] < instant

\* A mark of the past, with nothing older missing from the ledger.
Covered(s, mark) == mark # NULL => mark \in Int /\ mark <= now /\ (Older(s, mark) => Known(s))

\* The same, but for items that are still to be saved.
Reached(s, mark, items) ==
    mark # NULL => mark \in Int /\ mark <= now /\ (Older(s, mark) => items # {} \/ Known(s))

\* What adapters report.
Genuine(s, i) == i = Observed[s, "open"] \/ (i = Observed[s, "done"] /\ phase[s] = "done")
Gathered(s, items) ==
    /\ IsFiniteSet(items)
    /\ items # {} => s \in Authorized
    /\ \A i \in items : i \in Unusable \/ Genuine(s, i)

\* All that may be missing from a complete collection is too young.
Told(s, started, items) == Older(s, started - MaxAge) => items # {}

ToldBy(s, started, collection) ==
    /\ {"state", "age_seconds", "error_class"} \subseteq DOMAIN collection.receipt
    /\ collection.receipt.state \in States
    /\ collection.receipt.reported_state \in {"complete", "partial", "unavailable", "unauthorized"}
    /\ collection.receipt.state = "complete" => Told(s, started, collection.items)

CollectingInv(w) ==
    /\ run[w].at \in 1 .. Len(Specs) + 1
    /\ pc[w] # "collect" => run[w].at = 1
    /\ run[w].pages \in Nat
    /\ run[w].watermark \in Int /\ run[w].watermark <= now
    /\ run[w].prior \in [ToSet(Specs) -> Int \union {NULL}]
    /\ \A s \in ToSet(Specs) : Covered(s, run[w].prior[s])
    /\ run[w].at <= Len(Specs) => Gathered(Specs[run[w].at], run[w].items)
    /\ run[w].collections = [n \in 1 .. run[w].at - 1 |-> run[w].collections[n]]
    /\ \A n \in 1 .. run[w].at - 1 :
          LET c == run[w].collections[n]
          IN  /\ Gathered(Specs[n], c.items)
              /\ Reached(Specs[n], c.mark, c.items)
              /\ ToldBy(Specs[n], run[w].started, c)

SavingInv(w) ==
    /\ DOMAIN run[w].collections = DOMAIN Specs
    /\ Accepted(SetToSeq(AllItems(w)))
    /\ \A n \in DOMAIN Specs :
          LET c == run[w].collections[n]
          IN  /\ Gathered(Specs[n], c.items)
              /\ Reached(Specs[n], c.mark, c.items)
              /\ run[w].coverage /\ Specs[n] \in Required => Told(Specs[n], run[w].started, c.items)

SavedInv(w) ==
    /\ DOMAIN run[w].collections = DOMAIN Specs
    /\ \A n \in DOMAIN Specs : Covered(Specs[n], run[w].collections[n].mark)

Settled(started) == \A s \in Required : Older(s, started - MaxAge) => phase[s] = "done"

RunInv(w) ==
    /\ DOMAIN run[w] = DOMAIN NoRun
    /\ run[w].started \in Int /\ run[w].started <= now
    /\ pc[w] \notin {"idle", "down"} => run[w].job \in Jobs
    /\ pc[w] \in {"begin", "cursors", "collect"} => CollectingInv(w)
    /\ pc[w] = "save" => SavingInv(w)
    /\ pc[w] = "savecursors" => SavedInv(w)
    /\ pc[w] \in {"savecursors", "report", "leave", "complete"} /\ succeeded(w)
         => Settled(run[w].started)
    /\ pc[w] \in {"leave", "complete"} /\ MailConfigured => run[w].job \in mails

JobInv(j) ==
    job[j].status = "succeeded" =>
        /\ basis[j] \in Int /\ basis[j] <= now /\ Settled(basis[j])
        /\ MailConfigured => j \in mails

Places == {"idle", "begin", "cursors", "collect", "save", "savecursors", "report", "leave",
           "complete", "failing", "down"}

WorkerTypeOK ==
    /\ now \in Nat
    /\ born \in [ToSet(Specs) -> Int \union {NULL}]
    /\ \A s \in ToSet(Specs) : born[s] # NULL => born[s] <= now
    /\ phase \in [ToSet(Specs) -> {"open", "done"}]
    /\ DOMAIN job = Jobs /\ \A j \in Jobs : DOMAIN job[j] = {"status", "holder", "attempts"}
    /\ cursors \in [ToSet(Specs) -> Int \union {NULL}]
    /\ IsFiniteSet(DOMAIN ledger)
    /\ pc \in [Workers -> Places]
    /\ DOMAIN run = Workers
    /\ DOMAIN basis = Jobs

WorkerInv ==
    /\ WorkerTypeOK
    /\ \A s \in ToSet(Specs) : Covered(s, cursors[s])
    /\ \A w \in Workers : RunInv(w)
    /\ \A j \in Jobs : JobInv(j)
=============================================================================
