----------------------------- MODULE TaskDigest -----------------------------
(***************************************************************************)
(* The daily digest of scheduled tasks: tools/scheduled_task_digest.py     *)
(* with its core, scan and delivery modules, run by the workflow           *)
(* scheduled-task-digest.yml.  A guard job decides whether the digest is   *)
(* due; a second job looks for the receipt of the date, collects evidence, *)
(* mails the digest, and the workflow uploads the receipt.  Runs of one    *)
(* git ref are serialised, those of two refs are not.                      *)
(***************************************************************************)
EXTENDS Integers, FiniteSets, Sequences

CONSTANTS Refs, DayLength, DueHour, MaxHour,
          Workflows,      \* what a scan finds of a scheduled workflow
          Tasks,          \* what a probe finds of an external task
          Calendar,       \* minute -> [minute, day, weekday]
          MaxRunsWithJobs, MaxMails, NULL

VARIABLES hour,           \* local time
          job,            \* ref -> the workflow run
          uploaded,       \* dates with a receipt artifact
          mails,          \* date -> mails accepted for it
          explained       \* dates whose second mail has an explanation

tdvars == <<hour, job, uploaded, mails, explained>>

Date(h) == h \div DayLength
TimeOfDay(h) == h % DayLength
-----------------------------------------------------------------------------
(* What the digest says of a workflow                                      *)

\* GitHubClient.get_json: what may be missing is none when GitHub hides it; any
\* other failure raises.
Answers == {"ok", "hidden", "fails"}
get_json(answer, optional) ==
    CASE answer = "ok" -> "payload" [] answer = "hidden" /\ optional -> "none" [] OTHER -> "error"

\* Lists are not optional: a page that fails fails the list.
paginate(answer) == get_json(answer, FALSE) = "payload"

\* A repository is known from the list, or asked for because it is configured.
repositories(w) ==
    paginate(w.inventory) \/ (w.explicit /\ get_json(w.lookup, TRUE) = "payload")

text_file(answer) == get_json(answer, TRUE) = "payload"

\* CompiledCron.matches: day and weekday are alternatives when both are given.
matches(cron, t) ==
    LET day == t.day \in cron.days
        weekday == t.weekday \in cron.weekdays
    IN  /\ t.minute \in cron.minutes
        /\ IF cron.day_wildcard THEN cron.weekday_wildcard \/ weekday
           ELSE IF cron.weekday_wildcard THEN day
           ELSE day \/ weekday

expected_occurrences(crons) ==
    Cardinality({t \in DOMAIN Calendar : \E c \in crons : matches(c, Calendar[t])})

FAILURES == {"failure", "timed_out", "action_required", "startup_failure", "stale"}
CRITICAL == {"failure", "cancelled", "false_green", "missed", "missing", "not_deployed",
             "closed_unmerged", "delivery_failed"}

\* A job is [kind, result]; its kind is what the hints find in its name.
classify_run(run, jobs) ==
    LET workload == {j \in jobs : j.kind = "workload"}
        guard_ok == \E j \in jobs : j.kind = "guard" /\ j.result = "success"
    IN  IF run.status # "completed" THEN "running"
        ELSE IF run.conclusion \in FAILURES THEN "failure"
        ELSE IF run.conclusion \in {"cancelled", "skipped", "neutral"} THEN run.conclusion
        ELSE IF run.conclusion # "success" THEN "unknown"
        ELSE IF guard_ok /\ workload # {} /\ \A j \in workload : j.result = "skipped"
        THEN "not_due"
        ELSE IF \E j \in workload : j.result = "success" THEN "success"
        ELSE IF \E j \in workload : j.result \in {"skipped", "cancelled", "none"}
        THEN "false_green"
        ELSE "unverified_success"

STATUS_ORDER ==
    <<"failure", "cancelled", "false_green", "missed", "missing", "not_deployed",
      "closed_unmerged", "delivery_failed", "suspended", "disabled", "partial", "skipped",
      "unverified_success", "unobserved", "running", "unknown", "neutral",
      "source_merged_unobserved", "success", "not_due">>

worst_status(statuses) ==
    IF statuses = <<>> THEN "unknown"
    ELSE LET place(s) == CHOOSE n \in DOMAIN STATUS_ORDER : STATUS_ORDER[n] = s
             worst == CHOOSE i \in DOMAIN statuses :
                        \A j \in DOMAIN statuses : place(statuses[i]) <= place(statuses[j])
         IN  statuses[worst]

\* Runs that cannot be listed count as none (and as an error of the coverage).
RunsSeen(w) == IF paginate(w.query) THEN w.runs ELSE <<>>

\* The jobs of successful runs are asked for, of the latest few only.
JobsSeen(w, i) ==
    IF w.runs[i].conclusion = "success" /\ i <= MaxRunsWithJobs THEN w.runs[i].jobs ELSE {}

\* scan_repository, for one workflow; its runs are the latest first.
ScanWorkflow(w) ==
    LET expected == expected_occurrences(w.crons)
        observed == Len(RunsSeen(w))
        overall == worst_status([i \in DOMAIN RunsSeen(w) |-> classify_run(w.runs[i], JobsSeen(w, i))])
    IN  IF ~repositories(w) \/ ~text_file(w.source) THEN "no record"
        ELSE IF expected = 0 /\ observed = 0 THEN "not_due"
        ELSE IF w.state # "active" /\ expected > 0 THEN "disabled"
        ELSE IF observed = 0 THEN "missed"
        ELSE IF observed < expected /\ overall \notin CRITICAL THEN "partial"
        ELSE overall

\* evaluate_external_task
ProbeTask(task) ==
    LET status ==
          CASE task.probe = "manual" -> task.found
            [] task.probe = "pull_request" ->
                 CASE task.found = "invisible" -> "missing"
                   [] task.found = "merged" -> "source_merged_unobserved"
                   [] task.found = "open_suspended" -> "suspended"
                   [] task.found = "open" -> "not_deployed"
                   [] OTHER -> "closed_unmerged"
            [] task.probe = "file" ->
                 CASE task.found = "invisible" -> "missing"
                   [] task.found = "suspended" -> "suspended"
                   [] task.found = "active" -> "unobserved"
                   [] OTHER -> "unknown"
            [] OTHER -> "unobserved"
    IN  IF expected_occurrences(task.crons) = 0
           /\ status \in {"unobserved", "missing", "not_deployed", "suspended"}
        THEN "not_due" ELSE status

\* collect_digest, for a workflow and a task.
collect_digest(w, task) ==
    LET records == {ScanWorkflow(w), ProbeTask(task)}
    IN  [status |-> ScanWorkflow(w), critical |-> records \intersect CRITICAL # {},
         complete |-> paginate(w.inventory) /\ repositories(w)
                      /\ text_file(w.source) /\ paginate(w.query)]
-----------------------------------------------------------------------------
(* The workflow run                                                        *)

NoRun == [at |-> "none", force |-> FALSE, guard |-> 0, date |-> 0, digest |-> NULL]

TDInit ==
    /\ hour = 0
    /\ job = [r \in Refs |-> NoRun]
    /\ uploaded = {} /\ explained = {}
    /\ mails = [d \in 0..Date(MaxHour) |-> 0]

TDTick ==
    /\ hour < MaxHour
    /\ hour' = hour + 1
    /\ UNCHANGED <<job, uploaded, mails, explained>>

\* schedule_decision: due within the hour; _same_day_catchup: or later that day.
schedule_decision(force) == force \/ TimeOfDay(hour) = DueHour
_same_day_catchup == TimeOfDay(hour) >= DueHour

\* The guard job, of a scheduled event or of a dispatch that may force.
Guard(r) ==
    /\ job[r].at = "none"
    /\ \E scheduled, force \in BOOLEAN :
          /\ scheduled => ~force
          /\ schedule_decision(force) \/ (scheduled /\ _same_day_catchup)
          /\ job' = [job EXCEPT ![r] = [NoRun EXCEPT !.at = "guarded", !.force = force,
                                                     !.guard = Date(hour)]]
    /\ UNCHANGED <<hour, uploaded, mails, explained>>

\* Another run has looked for its receipt and not uploaded it yet.
Overlaps(r, date) ==
    \E q \in Refs \ {r} : job[q].at \in {"clear", "mailed"} /\ job[q].date = date

\* An artifact of the date that has not expired; none when GitHub hides them.
receipt_artifacts(answer, date) == get_json(answer, TRUE) = "payload" /\ date \in uploaded

\* _run up to the mail: the receipt of the date as it is now, if it may be read.
LookUpNothing(r) ==
    /\ job[r].at = "guarded"
    /\ \E w \in Workflows, task \in Tasks :
          job' = [job EXCEPT ![r].at = "clear", ![r].date = Date(hour),
                             ![r].digest = collect_digest(w, task)]
    /\ UNCHANGED <<hour, uploaded, mails, explained>>
LookUp(r) ==
    /\ job[r].at = "guarded"
    /\ LET date == Date(hour) IN
       \E answer \in Answers :
          IF ~job[r].force /\ (get_json(answer, TRUE) = "error" \/ receipt_artifacts(answer, date))
          THEN job' = [job EXCEPT ![r] = NoRun] /\ UNCHANGED explained
          ELSE /\ \E w \in Workflows, task \in Tasks :
                     job' = [job EXCEPT ![r].at = "clear", ![r].date = date,
                                        ![r].digest = collect_digest(w, task)]
               /\ explained' = IF job[r].force \/ answer # "ok" \/ Overlaps(r, date)
                               THEN explained \union {date} ELSE explained
    /\ UNCHANGED <<hour, uploaded, mails>>

\* deliver_digest: accepted, refused, or accepted with its answer lost.
Mail(r) ==
    /\ job[r].at = "clear"
    /\ mails[job[r].date] < MaxMails
    /\ \E outcome \in {"accepted", "refused", "lost"} :
          /\ mails' = IF outcome = "refused" THEN mails
                      ELSE [mails EXCEPT ![job[r].date] = @ + 1]
          /\ job' = IF outcome = "accepted" THEN [job EXCEPT ![r].at = "mailed", ![r].digest = NULL]
                    ELSE [job EXCEPT ![r] = NoRun]
          /\ explained' = IF outcome = "lost" THEN explained \union {job[r].date} ELSE explained
    /\ UNCHANGED <<hour, uploaded>>

\* write_receipt; the artifact bears the name the guard chose.
Upload(r) ==
    /\ job[r].at = "mailed"
    /\ uploaded' = uploaded \union {job[r].guard}
    /\ explained' = IF job[r].guard = job[r].date THEN explained
                    ELSE explained \union {job[r].date}
    /\ job' = [job EXCEPT ![r] = NoRun]
    /\ UNCHANGED <<hour, mails>>

\* The runner is lost.
RunnerLost(r) ==
    /\ job[r].at # "none"
    /\ explained' = IF job[r].at = "mailed" THEN explained \union {job[r].date} ELSE explained
    /\ job' = [job EXCEPT ![r] = NoRun]
    /\ UNCHANGED <<hour, uploaded, mails>>

TDNext ==
    \/ TDTick
    \/ \E r \in Refs : Guard(r) \/ LookUp(r) \/ Mail(r) \/ Upload(r) \/ RunnerLost(r)
-----------------------------------------------------------------------------
Digests == {collect_digest(w, t) : w \in Workflows, t \in Tasks}
WorkflowRuns ==
    [at : {"none", "guarded", "clear", "mailed"}, force : BOOLEAN, guard : Nat, date : Nat,
     digest : Digests \union {NULL}]
TDTypeOK ==
    /\ hour \in Nat
    /\ job \in [Refs -> WorkflowRuns]
    /\ uploaded \subseteq Nat /\ explained \subseteq Nat
    /\ mails \in [0..Date(MaxHour) -> Nat]

Busy(r, d) == job[r].at \in {"clear", "mailed"} /\ job[r].date = d
(* Of a date that needs no explanation at most one run is between its look  *)
(* for the receipt and its upload, it has not mailed before it mails, and a *)
(* mail has a receipt or a run that is about to upload it.                  *)
MailHasItsReceipt ==
    \A d \in DOMAIN mails \ explained :
        /\ mails[d] <= 1
        /\ mails[d] = 1 => d \in uploaded \/ \E r \in Refs : Busy(r, d) /\ job[r].at = "mailed"
        /\ \A r \in Refs : Busy(r, d) /\ job[r].at = "clear" => mails[d] = 0
        /\ \A r, q \in Refs : Busy(r, d) /\ Busy(q, d) => r = q
TDInv == TDTypeOK /\ MailHasItsReceipt

(* A date is mailed twice only after a forced run, a receipt that could    *)
(* not be read, a lost answer or runner, a run that slipped past midnight, *)
(* or runs of two refs at once; retries and alternate crons never do it.   *)
SecondMailIsExplained == \A d \in DOMAIN mails : mails[d] > 1 => d \in explained
=============================================================================
