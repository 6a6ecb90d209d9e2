----------------------------- MODULE MCPipelines -----------------------------
(* The briefing pipeline, its two delivery protocols, the task digest, the  *)
(* nightly maintenance and the fabrication protocol, each in a world of its *)
(* own: `part` says which one a behaviour is about, the others stand still. *)
EXTENDS Integers, FiniteSets, Sequences, TLC

CONSTANTS Lanes, i1, i2, NoFile, BadFile, Nights, NULL,
          MaxItems, MaxRecords,                                  \* BriefingPipeline
          Twins,          \* the two invocations, refs or branches of a world
          Operations, MaxToken, MaxAttempt,                      \* BriefingReceipts
          Owners, Compositions, Destinations, Attempts, Evidence, Receipts,
          MaxFence, MaxSends,                                    \* BriefingAtomicity
          DayLength, DueHour, MaxHour, MaxMails,                 \* TaskDigest
          Workers, Claims, MaxSequence, Checkpoints, Failures, Letters, \* FabricationRecovery
          Repos, Issues, CommentPage                             \* OrgMaintenance

\* A briefing's limits are numbers, and a missing file is not a failure to read one; no
\* attempt is "no attempt" (BriefingAtomicity); a page of comments has a length
\* (OrgMaintenance), a day has hours (TaskDigest).
ASSUME BriefingAssumption == MaxItems \in Nat /\ MaxRecords \in Nat
ASSUME FileAssumption == NoFile # NULL
ASSUME AttemptAssumption == NULL \notin Attempts
ASSUME PageAssumption == CommentPage \in Nat
ASSUME DayAssumption == DayLength \in Nat \ {0} /\ MaxHour \in Nat

VARIABLES part,
          writes, files, inv, state, briefed, omitted, committed,
          manifest, doc, transit, arrived, misjudged,
          record, sends, pending, received, wrongly,
          hour, job, uploaded, mails, explained,
          pulls, night, project, comments, edits,
          fab, grants, terminals

bpvars == <<writes, files, inv, state, briefed, omitted, committed>>
brvars == <<manifest, doc, transit, arrived, misjudged>>
bavars == <<record, sends, pending, received, wrongly>>
tdvars == <<hour, job, uploaded, mails, explained>>
omvars == <<pulls, night, project, comments, edits>>
fabvars == <<fab, grants, terminals>>
vars == <<part, bpvars, brvars, bavars, tdvars, omvars, fabvars>>
-----------------------------------------------------------------------------
(* The briefing: two lanes, two items, room for one item and one delivery.  *)

Rank(n) == [deadline_risk |-> n, blocking_impact |-> n, project_priority |-> n,
            expected_value |-> n, reversibility |-> 5 - n]
Act == [material |-> "x", disposition |-> "do_today", source_status |-> "confirmed",
        confidence |-> "low", rank |-> Rank(1), text |-> "x", date |-> 1]
Ignore == [material |-> "y", disposition |-> "ignore", source_status |-> "unverified",
           confidence |-> "high", rank |-> Rank(2), text |-> "y", date |-> 1]
File(status, age, items) == [status |-> status, age |-> age, items |-> items]

B == INSTANCE BriefingPipeline WITH
        Invocations <- Twins, Items <- {i1, i2}, Facts <- {Act, Ignore},
        LaneFiles <- {File("ok", 0, (i1 :> Act) @@ (i2 :> Ignore)),
                      File("degraded", 1, i1 :> Act),
                      File("ok", 0, i1 :> Ignore)},
        Runs <- {[key |-> "d1", mode |-> "scheduled", scheduled_key |-> "d1", recovered |-> FALSE],
                 [key |-> "m1", mode |-> "manual", scheduled_key |-> "d1", recovered |-> FALSE]},
        MaxDeliveries <- MaxRecords, MaxAge <- 0, MaxSkew <- 0, MaxWrites <- 2

\* Invocations collect one after the other: until its plan an invocation touches
\* nothing another one reads.
OneCollects == Cardinality({p \in Twins : inv'[p].at \in {"manifest", "input"}}) <= 1

(* Its receipts: two lanes, two operations that may take over.              *)
Receipt(lane, status) ==
    [file |-> "object", fields |-> TRUE, keys |-> "public",
     lane |-> lane, status |-> status, observed |-> 1, retained |-> 2, operation |-> lane,
     path |-> lane, result |-> status # "failed", reason |-> status = "failed",
     items |-> IF status = "success" THEN 1 ELSE 0]

R == INSTANCE BriefingReceipts WITH
        ExpectedLanes <- {"l1", "l2"},
        LaneReceipts <- {Receipt("l1", "success"), Receipt("l1", "failed"),
                         Receipt("l2", "no_results"),
                         [Receipt("l2", "no_results") EXCEPT !.keys = "secret"]},
        WindowStart <- 0, WindowEnd <- 2

(* Its atomicity model: two owners, two attempts.                           *)
A == INSTANCE BriefingAtomicity
-----------------------------------------------------------------------------
(* The task digest: two dates of three hours, two refs.                     *)

Job(kind, result) == [kind |-> kind, result |-> result]
Ran(conclusion, jobs) == [status |-> "completed", conclusion |-> conclusion, jobs |-> jobs]
Worked == Ran("success", {Job("workload", "success")})
NotDue == Ran("success", {Job("guard", "success"), Job("workload", "skipped")})
Hollow == Ran("success", {Job("workload", "skipped")})
Failed == Ran("failure", {})
Queued == [status |-> "queued", conclusion |-> "none", jobs |-> {}]

Nightly == [minutes |-> {0}, days |-> {}, weekdays |-> {},
            day_wildcard |-> TRUE, weekday_wildcard |-> TRUE]
Sundays == [minutes |-> {0}, days |-> {9}, weekdays |-> {0},
            day_wildcard |-> FALSE, weekday_wildcard |-> FALSE]
Workflow(cron, status, runs) ==
    [crons |-> {cron}, state |-> status, runs |-> runs, inventory |-> "ok",
     explicit |-> FALSE, lookup |-> "ok", source |-> "ok", query |-> "ok"]
Minute(m, d, w) == [minute |-> m, day |-> d, weekday |-> w]

DigestWorkflows ==
    {Workflow(Nightly, "active", <<Worked, Worked>>),
     Workflow(Nightly, "active", <<Worked, Failed>>),
     Workflow(Nightly, "active", <<NotDue>>),
     Workflow(Sundays, "active", <<Worked, Hollow>>),
     Workflow(Nightly, "disabled", <<>>),
     [Workflow(Nightly, "active", <<Worked>>) EXCEPT !.query = "hidden"],
     [Workflow(Nightly, "active", <<Worked>>) EXCEPT !.source = "hidden"],
     [Workflow(Nightly, "active", <<Worked>>) EXCEPT !.inventory = "fails"],
     [Workflow(Nightly, "active", <<Worked>>) EXCEPT
        !.inventory = "fails", !.explicit = TRUE],
     Workflow(Sundays, "active", <<>>),
     Workflow(Sundays, "active", <<Queued>>)}
DigestTasks == {[crons |-> {Nightly}, probe |-> "pull_request", found |-> "open"]}

D == INSTANCE TaskDigest WITH
        Refs <- Twins, MaxRunsWithJobs <- 2, Workflows <- DigestWorkflows, Tasks <- DigestTasks,
        Calendar <- (0 :> Minute(0, 1, 0)) @@ (1 :> Minute(1, 1, 0)) @@ (2 :> Minute(0, 2, 1))
-----------------------------------------------------------------------------
(* One organisation with an issue and a pull request to merge: a night among *)
(* authors who go on working, or two nights at once on their own.           *)

Old(protected, draft) ==
    [repo |-> "r", branch |-> "old", state |-> "OPEN", head |-> 1, draft |-> draft,
     label |-> TRUE, checks |-> "green", merge |-> "CLEAN", review |-> "none",
     protected |-> protected, docs |-> FALSE]

O == INSTANCE OrgMaintenance WITH
        Branches <- Twins,
        Registry <- [o |-> [kind |-> "organization", installed |-> TRUE, linear |-> TRUE],
                     u |-> [kind |-> "user", installed |-> FALSE, linear |-> FALSE]],
        Owner <- "o", Disabled <- {}, Requested <- {}, MaxOrganizations <- 2,
        Found <- {Old(FALSE, TRUE), Old(TRUE, FALSE)},
        Changes <- [docs : BOOLEAN, protected : {FALSE}] \union {[docs |-> FALSE, protected |-> TRUE]},
        Reviews <- {"APPROVED"}, Obstacles <- {"CONFLICTING"},
        MaxPulls <- 3, MaxEdits <- 2, MaxMerges <- 1, MaxComments <- 3,
        RequireSync <- TRUE

FirstNight == CHOOSE n \in Nights : TRUE
OneNight == \A n \in Nights \ {FirstNight} : night'[n] = night[n]
\* Two nights with plain changes for the issue and merges, nobody else about; a night
\* that raises is one night's affair.
TwoNights ==
    /\ edits' = edits
    /\ \A n \in Nights : night'[n].at # "failed"
    /\ \A n \in Nights :
          /\ \A k \in DOMAIN night'[n].changes :
                LET c == night'[n].changes[k] IN ~c.docs /\ ~c.protected /\ c.issue # NULL
          /\ \A k \in DOMAIN night'[n].merges : night'[n].merges[k].action = "merge_if_green"

(* The fabrication job: two workers, three deliveries.                      *)
F == INSTANCE FabricationRecovery WITH MaxDeliveries <- Claims
-----------------------------------------------------------------------------
Init ==
    /\ part \in {"briefing", "receipts", "atomicity", "digest", "maintenance", "overlap", "fabrication"}
    /\ B!BPInit /\ R!BRInit /\ A!BAInit /\ D!TDInit /\ F!FabInit
    /\ IF part \in {"maintenance", "overlap"} THEN O!OMInit /\ (part = "overlap" => pulls = <<Old(FALSE, TRUE)>>)
       ELSE pulls = <<>> /\ night = <<>> /\ project = <<>> /\ comments = <<>> /\ edits = 0

Next ==
    \/ /\ part = "briefing"
       /\ UNCHANGED <<part, brvars, bavars, tdvars, omvars, fabvars>>
       /\ B!BPNext
       /\ OneCollects
    \/ /\ part = "receipts"
       /\ UNCHANGED <<part, bpvars, bavars, tdvars, omvars, fabvars>>
       /\ R!BRNext
    \/ /\ part = "atomicity"
       /\ UNCHANGED <<part, bpvars, brvars, tdvars, omvars, fabvars>>
       /\ A!BANext
    \/ /\ part = "digest"
       /\ UNCHANGED <<part, bpvars, brvars, bavars, omvars, fabvars>>
       /\ D!TDNext
    \/ /\ part \in {"maintenance", "overlap"}
       /\ UNCHANGED <<part, bpvars, brvars, bavars, tdvars, fabvars>>
       /\ O!OMNext
       /\ IF part = "overlap" THEN TwoNights ELSE OneNight
    \/ /\ part = "fabrication"
       /\ UNCHANGED <<part, bpvars, brvars, bavars, tdvars, omvars>>
       /\ F!FabNext

Spec == Init /\ [][Next]_vars

Symmetry == Permutations(Lanes) \union Permutations(Twins)
-----------------------------------------------------------------------------
(* What a lane reported and the next briefing compares with was briefed, or *)
(* was said to be left out.                                                 *)
BaselineWasBriefed == part = "briefing" => B!BaselineWasBriefed
(* A second plan of a delivered run from the same lanes is a duplicate.      *)
RetryIsRecognised == part = "briefing" => B!RetryIsRecognised
(* A briefing arrives twice only if a delivery was misjudged as failed.      *)
TwiceOnlyIfMisjudged == part = "receipts" => R!TwiceOnlyIfMisjudged
(* Two messages of the atomicity model need a wrong proof of absence.        *)
TwoMessagesNeedAWrongProof == part = "atomicity" => A!TwoMessagesNeedAWrongProof
(* A date's second digest mail has an explanation.                           *)
SecondMailIsExplained == part = "digest" => D!SecondMailIsExplained
(* What a night merges is what it looked at, as far as nobody changed it.    *)
MergedWasChecked == part \in {"maintenance", "overlap"} => O!MergedWasChecked
(* Repeated tracking marks an issue once.                                    *)
TrackingIsOnce == part \in {"maintenance", "overlap"} => O!TrackingIsOnce
(* A terminal result of a fabrication job is that of its last claim.         *)
ResultIsTheLastClaims == part = "fabrication" => F!ResultIsTheLastClaims
=============================================================================
