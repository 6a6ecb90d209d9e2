-------------------------- MODULE RecoverySchedules --------------------------
(***************************************************************************)
(* The scheduled entry points, from the cron trigger to the watchdog that  *)
(* asks the next morning whether the night's work was done:                *)
(*   plain       tools/enqueue_artifact_recovery.py,                       *)
(*   briefing    tools/enqueue_daily_portfolio_briefing.py,                *)
(*   weekly      tools/enqueue_weekly_job_digest.py,                       *)
(*   continuous  tools/run_continuous_artifact_recovery.py,                *)
(*   nightly     tools/run_nightly_artifact_recovery.py,                   *)
(*   recent      tools/run_recent_chat_reconciliation.py,                  *)
(*   watchdog    tools/overnight_job_watchdog.py.                          *)
(* The coordinator keeps one job for an Idempotency-Key and answers a      *)
(* repeated request with the job it has.  The worker's side is the         *)
(* acceptance test of worker_runtime/sources.py and the shape of the       *)
(* completion engine.py writes.                                            *)
(*                                                                         *)
(* Times are ticks; Offset gives the local clock, which may be set back or *)
(* forward once.  Differences of local times are differences of wall       *)
(* clocks, as in the code.                                                 *)
(***************************************************************************)
EXTENDS Integers, FiniteSets

CONSTANTS Runs,               \* invocations
          Kinds,              \* run -> the <<entry point, forced>> it may be
          Offset,             \* local time minus time, at each time
          DayLength, WeekLength,  \* ticks of a day, days of a week
          ScheduledAt,        \* the local time, in ticks after midnight
          RecoveryAfter, MaxLateness, Interval,
          MaxDispatchDelay, Settlement,   \* of the watchdog's catalogue
          Consumers,          \* who takes jobs: "worker", "conforming"
          NONE, MaxTime

\* The catalogue of what runs at night and when, as it is accepted.
load_catalog ==
    /\ RecoveryAfter >= 1 /\ MaxLateness >= RecoveryAfter
    /\ Settlement >= MaxDispatchDelay
    /\ ScheduledAt \in 0 .. DayLength - 1

ASSUME ScheduleAssumption == load_catalog

\* The entry points.
EntryPoints == {"plain", "briefing", "weekly", "continuous", "nightly", "recent"}

ASSUME ClockAssumption ==
    /\ MaxTime \in Nat /\ Offset \in [0 .. MaxTime -> Int]
    /\ {DayLength, WeekLength, Interval} \subseteq Nat \ {0}
    /\ {RecoveryAfter, MaxLateness, MaxDispatchDelay, Settlement} \subseteq Nat

ASSUME RunAssumption ==
    /\ Kinds \in [Runs -> SUBSET (EntryPoints \X BOOLEAN)]
    /\ NONE \notin Runs /\ NONE \notin EntryPoints

VARIABLES time,
          runs,      \* the invocations
          jobs,     \* what the coordinator has, by idempotency key
          watched   \* the nights the watchdog has called a success

schedule_vars == <<time, runs, jobs, watched>>

local == time + Offset[time]
Date(t) == t \div DayLength
ScheduledFor(date) == date * DayLength + ScheduledAt
-----------------------------------------------------------------------------
(* When a run is due, and under which key.                                 *)

\* A run key; id is NONE for a scheduled run.
Key(prefix, when, id) == [prefix |-> prefix, when |-> when, id |-> id]

\* namespace_decision gives the recent runs a prefix of their own; the plain
\* and the nightly schedule share one.
Prefix(kind) == IF kind \in {"plain", "nightly"} THEN "artifact-recovery" ELSE kind

Lateness(t) == t - ScheduledFor(Date(t))

\* The buckets of the continuous runs are of UTC.
floor_bucket(t) == t - (t % Interval)

\* schedule_decision of each script; force is a run somebody dispatched, which
\* carries an id of its own.
DueAtTheMinute(t) == Lateness(t) \in {0, RecoveryAfter}
DueForBriefing(t) == Lateness(t) \in {0, RecoveryAfter}
DueThisWeek(t) == Date(t) % WeekLength = 0 /\ Lateness(t) = 0
DueNoLaterThan(t) == Lateness(t) <= MaxLateness
DueWithin(t) == Lateness(t) \in 0 .. MaxLateness

When(kind) ==
    CASE kind = "weekly" -> Date(local) \div WeekLength
      [] kind = "continuous" -> floor_bucket(time)
      [] OTHER -> Date(local)

\* A forced weekly digest has the key of the week: it has no id.
RunKey(kind, id) ==
    Key(Prefix(kind), When(kind), IF kind = "weekly" THEN NONE ELSE id)
-----------------------------------------------------------------------------
(* What is asked for, and what a consumer makes of it.                     *)

\* The top-level parts of the payload, build_payload and what
\* build_hardened_payload and build_recent_payload add to it.
BasePayload == {"schema_version", "run", "tracking", "source_contract", "ledger_contract",
                "detection_contract", "delivery_contract", "allowed_actions",
                "forbidden_actions"}
HardenedPayload == BasePayload \union {"schedule_contract", "completion_contract"}
RecentPayload == HardenedPayload \union {"job_contract"}
\* The continuous runs ask for a narrower window in the same parts.
ContinuousPayload == BasePayload
BriefingPayload == {"schema_version", "run", "linear", "source_lanes", "composition_contract",
                    "ranking_contract", "state_contract", "allowed_actions",
                    "forbidden_actions", "safety"}
DigestPayload == {"schema_version", "run_key", "scheduled_timezone", "scheduled_local_time",
                  "linear", "candidate_profile", "volume_boundary", "required_output",
                  "allowed_actions", "forbidden_actions", "safety"}

PayloadOf(kind) ==
    CASE kind = "plain" -> BasePayload
      [] kind = "continuous" -> ContinuousPayload
      [] kind = "nightly" -> HardenedPayload
      [] kind = "recent" -> RecentPayload
      [] kind = "briefing" -> BriefingPayload
      [] kind = "weekly" -> DigestPayload

TaskType(kind) ==
    CASE kind = "weekly" -> "job_opportunity_digest"
      [] kind = "briefing" -> "daily_portfolio_briefing"
      [] OTHER -> "artifact_recovery"

\* validate_job of the recovery worker knows no other part.
Recognised(payload) == payload \subseteq BasePayload

\* The completion engine.py writes has an outcome and no status, and its
\* coverage is the bare summary.
WorkerResult == [schema |-> TRUE, run_key |-> TRUE, status |-> NONE, coverage |-> NONE,
                 unfinished |-> 0, dispositioned |-> FALSE, manifest |-> FALSE]

\* validate_completion_job
ValidCompletion(result) ==
    /\ result.schema /\ result.run_key /\ result.status = "complete"
    /\ result.coverage = "complete" /\ result.dispositioned /\ result.manifest

\* A consumer that keeps to completion_contract: all done, work left, and a
\* completion that is not what it should be.
ConformingResults ==
    {[schema |-> TRUE, run_key |-> TRUE, status |-> "complete", coverage |-> "complete",
      unfinished |-> p[1], dispositioned |-> p[2], manifest |-> TRUE] :
     p \in {<<0, TRUE>>, <<1, TRUE>>, <<0, FALSE>>}}
-----------------------------------------------------------------------------
Idle == [pc |-> "idle", kind |-> NONE, force |-> FALSE, started |-> 0, key |-> NONE,
         exit |-> NONE, receipt |-> NONE, bucket |-> 0]

ScheduleInit ==
    /\ time = 0
    /\ runs = [r \in Runs |-> Idle]
    /\ jobs = [k \in {} |-> NONE]
    /\ watched = {}

\* The scheduler of the workflows, or somebody, starts a run.
StartRun(r, kind, force) ==
    /\ runs[r].pc = "idle"
    /\ runs' = [runs EXCEPT ![r] = [@ EXCEPT !.pc = "decide", !.kind = kind,
                                           !.force = force, !.started = local]]
    /\ UNCHANGED <<time, jobs, watched>>

Ended(r, exit, receipt) ==
    runs' = [runs EXCEPT ![r] = [@ EXCEPT !.pc = "ended", !.exit = exit, !.receipt = receipt]]

\* The settings a main checks, each of which may be wanting.  The profile of the
\* digest is bounded in depth and size and has no sensitive field.
RecoveryClock == {"now", "timezone", "local_time", "manual_id"}
RecoveryEndpoint == {"env_name", "endpoint", "task_id", "token"}
BriefingClock == {"now", "local_time", "timezone", "manual_id"}
BriefingEndpoint == {"env_name", "endpoint", "token"}
DigestClock == {"now"}
DigestEndpoint == {"env_name", "endpoint", "token"}
DigestProfile == {"profile_depth", "profile_size", "profile_field", "profile_value"}
ContinuousSettings == {"interval", "lookback", "overlap", "max_workers"}
NightlySettings == {"enabled"}
RecentSettings == {"prefix", "job_name"}

Settings(kind) ==
    CASE kind = "plain" -> RecoveryClock \union RecoveryEndpoint
      [] kind = "briefing" -> BriefingClock \union BriefingEndpoint
      [] kind = "weekly" -> DigestClock \union DigestEndpoint \union DigestProfile
      [] kind = "continuous" -> ContinuousSettings \union RecoveryEndpoint
      [] kind = "nightly" -> NightlySettings \union RecoveryClock \union RecoveryEndpoint
      [] kind = "recent" ->
            RecentSettings \union NightlySettings \union RecoveryClock \union RecoveryEndpoint

\* What every main may do before its request: print its plan (--dry-run), or
\* refuse a setting.
NoRequest(r) ==
    \/ Ended(r, 0, "dry_run")
    \/ Settings(runs[r].kind) # {} /\ Ended(r, 2, "failed")

\* main, up to the request.  The plain scripts call a run that is not due no
\* failure; the nightly and the recent ones do, and keep a receipt of it.
Decides(r, due, late) ==
    /\ runs[r].pc = "decide"
    /\ \/ /\ due
          /\ runs' = [runs EXCEPT ![r].pc = "post",
                               ![r].key = RunKey(runs[r].kind, IF runs[r].force THEN r ELSE NONE)]
       \/ ~due /\ late
       \/ NoRequest(r)
    /\ UNCHANGED <<time, jobs, watched>>

DecideRecovery(r) ==
    /\ runs[r].kind = "plain"
    /\ Decides(r, runs[r].force \/ DueAtTheMinute(local), Ended(r, 0, "not_due"))
DecideBriefing(r) ==
    /\ runs[r].kind = "briefing"
    /\ Decides(r, runs[r].force \/ DueForBriefing(local), Ended(r, 0, "not_due"))
DecideDigest(r) ==
    /\ runs[r].kind = "weekly"
    /\ Decides(r, runs[r].force \/ DueThisWeek(local), Ended(r, 0, "not_due"))
DecideContinuous(r) ==
    /\ runs[r].kind = "continuous"
    /\ Decides(r, TRUE, FALSE)
DecideNightly(r) ==
    /\ runs[r].kind = "nightly"
    /\ Decides(r, runs[r].force \/ DueWithin(local), Ended(r, 2, "failed"))
DecideRecent(r) ==
    /\ runs[r].kind = "recent"
    /\ Decides(r, runs[r].force \/ DueWithin(local), Ended(r, 2, "failed"))

Decide(r) ==
    \/ DecideRecovery(r) \/ DecideBriefing(r) \/ DecideDigest(r)
    \/ DecideContinuous(r) \/ DecideNightly(r) \/ DecideRecent(r)

\* The coordinator takes a request: it keeps the job it has.
Taken(r) ==
    jobs' = [k \in DOMAIN jobs \union {runs[r].key} |->
                IF k \in DOMAIN jobs THEN jobs[k]
                ELSE [kind |-> runs[r].kind, payload |-> PayloadOf(runs[r].kind),
                      status |-> "queued", result |-> NONE,
                      refused |-> FALSE]]

Posts(r, kind) ==
    /\ runs[r].pc = "post" /\ runs[r].kind = kind
    /\ Taken(r)
    /\ UNCHANGED <<time, watched>>

\* enqueue of the plain scripts is the last thing they do.
EnqueueRecovery(r) == Posts(r, "plain") /\ Ended(r, 0, "enqueued")
EnqueueBriefing(r) == Posts(r, "briefing") /\ Ended(r, 0, "enqueued")
EnqueueDigest(r) == Posts(r, "weekly") /\ Ended(r, 0, "enqueued")

\* run_once, and with --loop the sleep to the next bucket.
RunOnce(r) ==
    /\ Posts(r, "continuous")
    /\ \/ runs' = [runs EXCEPT ![r].pc = "sleep", ![r].bucket = floor_bucket(time)]
       \/ Ended(r, 0, "enqueued")

\* The nightly runs wait for the job they were answered with.
Submit(r) ==
    /\ Posts(r, "nightly") \/ Posts(r, "recent")
    /\ runs' = [runs EXCEPT ![r].pc = "poll"]

Post(r) ==
    EnqueueRecovery(r) \/ EnqueueBriefing(r) \/ EnqueueDigest(r) \/ RunOnce(r) \/ Submit(r)

\* The request or its answer is lost, or the answer is not one that is
\* expected: whether the job is there is not known, and the run ends.
PostFails(r) ==
    /\ runs[r].pc = "post"
    /\ Taken(r) \/ UNCHANGED jobs
    /\ Ended(r, 2, "failed")
    /\ UNCHANGED <<time, watched>>

\* The loop of run_continuous_artifact_recovery waits for the next bucket.
NextBucket(r) ==
    /\ runs[r].pc = "sleep"
    /\ time >= runs[r].bucket + Interval
    /\ runs' = [runs EXCEPT ![r].pc = "decide", ![r].bucket = 0]
    /\ UNCHANGED <<time, jobs, watched>>

\* _completion_exit_code: work that is left makes a recent run red.
ExitCode(kind, result) == IF kind = "recent" /\ result.unfinished # 0 THEN 3 ELSE 0

\* Mutant: there is no deadline.
PollUntilDone(r) ==
    LET job == jobs[runs[r].key]
    IN  /\ runs[r].pc = "poll"
        /\ \/ /\ job.status = "succeeded" /\ ValidCompletion(job.result)
              /\ Ended(r, ExitCode(runs[r].kind, job.result), "complete")
           \/ /\ job.status = "succeeded" /\ ~ValidCompletion(job.result)
              /\ Ended(r, 2, "failed")
           \/ job.status = "failed" /\ Ended(r, 2, "failed")
        /\ UNCHANGED <<time, jobs, watched>>

\* poll_terminal_job sees the end of the job; the read may also fail, or the
\* time be up before.
Poll(r) ==
    LET job == jobs[runs[r].key]
    IN  /\ runs[r].pc = "poll"
        /\ \/ /\ job.status = "succeeded" /\ ValidCompletion(job.result)
              /\ Ended(r, ExitCode(runs[r].kind, job.result), "complete")
           \/ /\ job.status = "succeeded" /\ ~ValidCompletion(job.result)
              /\ Ended(r, 2, "failed")
           \/ job.status = "failed" /\ Ended(r, 2, "failed")
           \/ Ended(r, 2, "failed")      \* fetch_job failed, or the deadline
        /\ UNCHANGED <<time, jobs, watched>>

\* A consumer takes the job.  A worker that does not know the payload fails
\* the attempt, every time.
Consume(k) ==
    /\ jobs[k].status = "queued" /\ TaskType(jobs[k].kind) = "artifact_recovery"
    /\ \/ /\ "worker" \in Consumers
          /\ \/ /\ ~Recognised(jobs[k].payload)
                /\ jobs' = [jobs EXCEPT ![k].status = "failed", ![k].refused = TRUE]
             \/ /\ Recognised(jobs[k].payload)
                /\ jobs' = [jobs EXCEPT ![k].status = "succeeded", ![k].result = WorkerResult]
       \/ /\ "conforming" \in Consumers /\ "completion_contract" \in jobs[k].payload
          /\ \E result \in ConformingResults :
               jobs' = [jobs EXCEPT ![k].status = "succeeded", ![k].result = result]
       \/ jobs' = [jobs EXCEPT ![k].status = "failed"]
    /\ UNCHANGED <<time, runs, watched>>

ScheduleTick ==
    /\ time < MaxTime
    /\ time' = time + 1
    /\ UNCHANGED <<runs, jobs, watched>>
-----------------------------------------------------------------------------
(* The watchdog looks after the recent runs.                               *)

\* logical_night: the last night that is settled.
logical_night ==
    IF local >= ScheduledFor(Date(local)) + Settlement THEN Date(local) ELSE Date(local) - 1

InWindow(r, night) ==
    runs[r].started - ScheduledFor(night) \in 0 .. MaxDispatchDelay

\* The scheduled runs of the workflow, and what one of them left behind.  A request
\* is tried four times; one that is not answered then makes the report a failure.
list_runs == {r \in Runs : runs[r].kind = "recent" /\ ~runs[r].force /\ runs[r].pc # "idle"}
list_artifacts(r) == IF runs[r].pc = "ended" THEN {runs[r].receipt} ELSE {}

\* evaluate_attempt: a run of the workflow that ended well and left its artifacts.
evaluate_attempt(r, night) ==
    /\ InWindow(r, night)
    /\ runs[r].pc = "ended" /\ runs[r].exit = 0
    /\ list_artifacts(r) # {}

\* build_report: the last successful one is selected.
Attempts(night) == {r \in list_runs : InWindow(r, night)}
Successful(night) == {r \in Attempts(night) : evaluate_attempt(r, night)}

\* validate_evidence: the receipt is of this night and of finished work.
validate_evidence_of_any_night(r, night) ==
    runs[r].receipt = "complete"
validate_evidence(r, night) ==
    /\ runs[r].receipt = "complete"
    /\ runs[r].key = Key("recent", night, NONE)

Watch ==
    \E night \in {logical_night} :
       \E r \in Successful(night) :
          /\ local >= ScheduledFor(night) + Settlement
          /\ \A s \in Successful(night) : runs[s].started <= runs[r].started
          /\ validate_evidence(r, night)
          /\ watched' = watched \union {night}
          /\ UNCHANGED <<time, runs, jobs>>

ScheduleNext ==
    \/ \E r \in Runs :
         \/ \E k \in Kinds[r] : StartRun(r, k[1], k[2])
         \/ Decide(r) \/ Post(r) \/ PostFails(r) \/ NextBucket(r) \/ Poll(r)
    \/ \E k \in DOMAIN jobs : Consume(k)
    \/ Watch \/ ScheduleTick

ScheduleFairness ==
    /\ \A r \in Runs : WF_schedule_vars(Decide(r) \/ Post(r) \/ Poll(r))
    /\ WF_schedule_vars(ScheduleTick)

ScheduleSpec == ScheduleInit /\ [][ScheduleNext]_schedule_vars /\ ScheduleFairness
-----------------------------------------------------------------------------
RunKeys == [prefix : {"artifact-recovery", "briefing", "weekly", "continuous", "recent"},
            when : Int, id : Runs \union {NONE}]
RunRecords == [pc : {"idle", "decide", "post", "sleep", "poll", "ended"},
               kind : EntryPoints \union {NONE}, force : BOOLEAN, started : Int,
               key : RunKeys \union {NONE}, exit : {NONE, 0, 2, 3},
               receipt : {NONE, "dry_run", "failed", "not_due", "enqueued", "complete"},
               bucket : Int]
Results == [schema : BOOLEAN, run_key : BOOLEAN, status : {"complete", NONE},
            coverage : {"complete", NONE}, unfinished : {0, 1}, dispositioned : BOOLEAN,
            manifest : BOOLEAN]
JobRecords == [kind : EntryPoints, payload : {PayloadOf(k) : k \in EntryPoints},
               status : {"queued", "succeeded", "failed"}, result : Results \union {NONE},
               refused : BOOLEAN]

ScheduleTypeOK ==
    /\ time \in 0 .. MaxTime
    /\ runs \in [Runs -> RunRecords]
    /\ DOMAIN jobs \subseteq RunKeys /\ jobs \in [DOMAIN jobs -> JobRecords]
    /\ watched \subseteq Int

(* No scheduled job of a night exists before the night's hour has come,    *)
(* however late a run is started, decides or posts, and though the clock   *)
(* may be set back in between: a run that has slipped past midnight does   *)
(* not take the key of the coming night.                                   *)
NotBeforeItsTime ==
    \A k \in DOMAIN jobs :
        k.id = NONE /\ k.prefix \in {"artifact-recovery", "recent"} =>
            \E t \in 0 .. time : t + Offset[t] >= ScheduledFor(k.when)

(* A night the watchdog calls a success is one whose own job succeeded,    *)
(* with its completion verified and nothing left to do.                    *)
WatchdogIsRight ==
    \A night \in watched :
        LET k == Key("recent", night, NONE)
        IN  /\ k \in DOMAIN jobs /\ jobs[k].status = "succeeded"
            /\ ValidCompletion(jobs[k].result) /\ jobs[k].result.unfinished = 0

(* Every run that is started ends, but for the continuous one: waiting for *)
(* the job is bounded, and nothing the coordinator or the consumers do, or *)
(* fail to do, can hold a run up.                                          *)
EveryRunEnds ==
    \A r \in Runs :
        runs[r].pc = "decide" /\ runs[r].kind # "continuous" ~> runs[r].pc = "ended"

(* The inductive invariant of the proofs.                                  *)

\* The hour of a scheduled night has come.
InTime(k) ==
    k.id = NONE /\ k.prefix \in {"artifact-recovery", "recent"} =>
        \E t \in 0 .. time : t + Offset[t] >= ScheduledFor(k.when)

\* A run has its key when it posts, and its job when it waits for it.
RunsHaveKeys ==
    \A r \in Runs :
        /\ runs[r].pc \in {"decide", "post", "poll", "sleep"} => runs[r].kind # NONE
        /\ runs[r].pc = "post" => runs[r].key \in RunKeys /\ InTime(runs[r].key)
        /\ runs[r].pc = "poll" => runs[r].key \in DOMAIN jobs

\* The receipt of a complete run is of its job, and its exit code says what is left.
CompleteIsTrue ==
    \A r \in Runs :
        runs[r].pc = "ended" /\ runs[r].receipt = "complete" =>
            /\ runs[r].key \in DOMAIN jobs /\ jobs[runs[r].key].status = "succeeded"
            /\ ValidCompletion(jobs[runs[r].key].result)
            /\ runs[r].exit = ExitCode(runs[r].kind, jobs[runs[r].key].result)

ScheduleInv == ScheduleTypeOK /\ RunsHaveKeys /\ CompleteIsTrue /\ NotBeforeItsTime /\ WatchdogIsRight

(* The worker takes the jobs of the nightly schedule: "It converts the     *)
(* nightly enqueue contract into a lease-bound execution"                  *)
(* (docs/artifact-recovery-worker.md:4).  It does not: validate_job knows  *)
(* neither schedule_contract nor completion_contract.                      *)
WorkerTakesNightlyJobs == \A k \in DOMAIN jobs : ~jobs[k].refused
=============================================================================
