------------------------- MODULE RecoverySupervisor -------------------------
(***************************************************************************)
(* The supervisor of the continuous artifact-recovery workers,             *)
(* tools/run_continuous_artifact_recovery_pool.py.                         *)
(*                                                                         *)
(* The main loop is a program whose steps are what happens between two     *)
(* points at which a Python signal handler can run; `point` says where.    *)
(* The handler `request_stop` is an action that may run at any of          *)
(* SignalPoints.  Worker processes live and die on their own.              *)
(*                                                                         *)
(* Time is relative and in seconds: ages grow and countdowns fall with     *)
(* ClockTick.  The loop sleeps 0.1 s and computes for much less, so the    *)
(* clock moves only while it sleeps.                                       *)
(***************************************************************************)
EXTENDS Integers, Sequences, FiniteSets

CONSTANTS Slots,         \* worker slots, range(count)
          MaxRestarts,   \* ARTIFACT_RECOVERY_MAX_RESTARTS
          Window,        \* ARTIFACT_RECOVERY_RESTART_WINDOW_SECONDS
          MaxBackoff,    \* ARTIFACT_RECOVERY_RESTART_BACKOFF_MAX_SECONDS
          Stable,        \* ARTIFACT_RECOVERY_STABLE_RUNTIME_SECONDS
          Grace,         \* ARTIFACT_RECOVERY_SHUTDOWN_GRACE_SECONDS
          KillGrace,     \* ARTIFACT_RECOVERY_KILL_GRACE_SECONDS
          SignalSchedules, \* sets of program points at which signals arrive
          NIL

\* How the program can end.
Causes == {"drained", "kill_timeout", "spawn_failed", "key_error"}

ASSUME SupervisorAssumption ==
    /\ IsFiniteSet(Slots)
    /\ MaxRestarts \in Nat
    /\ {Window, MaxBackoff, Stable, Grace, KillGrace} \subseteq Nat \ {0}
    /\ NIL \notin Slots \union Nat \union Causes

\* What the proofs use of exponentiation.
ASSUME PowerAssumption == \A n \in 0 .. MaxRestarts : 2 ^ n \in Nat

VARIABLES
    live,      \* slot -> number of worker processes of the slot that run
    told,      \* slot -> signal its registered process was last sent
    children,  \* slots with a registered process
    age,       \* slot -> seconds since its process was started
    pending,   \* slot -> seconds until its restart, or NIL
    exits,     \* slot -> ages of its exits that the budget remembers
    stopping, exitCode,
    shutdown,  \* seconds to the shutdown deadline, or NIL
    killing,   \* seconds to the kill deadline, or NIL
    point, todo, cur,
    signals,   \* the schedule of this behaviour: where signals arrive
    late,      \* history: slots restarted after the stop
    cause      \* history: how the program ended, or NIL

procs == <<live, told, age>>
table == <<children, pending, exits>>
ending == <<stopping, exitCode, shutdown, killing>>
supervisor_vars == <<procs, table, ending, point, todo, cur, signals, late, cause>>

Points == {"start", "started", "head", "reap", "reaped", "stopcheck",
           "deadline", "respawn", "respawned", "unqueue", "sleep"}

Down(n) == IF n = NIL \/ n = 0 THEN n ELSE n - 1

SupervisorInit ==
    /\ live = [i \in Slots |-> 0]
    /\ told = [i \in Slots |-> "none"]
    /\ age = [i \in Slots |-> 0]
    /\ children = {}
    /\ pending = [i \in Slots |-> NIL]
    /\ exits = [i \in Slots |-> <<>>]
    /\ stopping = FALSE /\ exitCode = 0
    /\ shutdown = NIL /\ killing = NIL
    /\ point = "start" /\ todo = Slots /\ cur = NIL
    /\ signals \in SignalSchedules
    /\ late = {} /\ cause = NIL
-----------------------------------------------------------------------------
(* The program ends; its registered processes are left to themselves.      *)

Return(code, why) ==
    /\ exitCode' = code
    /\ cause' = why
    /\ point' = "ended"

\* terminate_children: SIGTERM to the registered processes that still run.
Terminated == [i \in Slots |->
    IF i \in children /\ live[i] > 0 THEN "term" ELSE told[i]]

\* request_stop
RequestStop ==
    /\ point \in signals
    /\ ~stopping
    /\ stopping' = TRUE
    /\ pending' = [i \in Slots |-> NIL]
    /\ shutdown' = Grace
    /\ told' = Terminated
    /\ UNCHANGED <<live, age, children, exits, exitCode, killing, point, todo,
                   cur, signals, late, cause>>

\* spawn: Popen has started the process, its handle is not registered yet.
Spawn(i) ==
    /\ live' = [live EXCEPT ![i] = @ + 1]
    /\ age' = [age EXCEPT ![i] = 0]
    /\ told' = [told EXCEPT ![i] = "none"]
    /\ cur' = i

\* Popen failed with OSError: `main` reports it and returns 2.
SpawnFails ==
    /\ Return(2, "spawn_failed")
    /\ UNCHANGED <<procs, table, stopping, shutdown, killing, todo, cur,
                   signals, late>>

\* The first loop of main: a process for every slot.
Start ==
    /\ point = "start"
    /\ IF todo = {}
       THEN /\ point' = "head"
            /\ UNCHANGED <<procs, table, ending, todo, cur, signals, late, cause>>
       ELSE \/ \E i \in todo :
                 /\ Spawn(i)
                 /\ todo' = todo \ {i}
                 /\ point' = "started"
                 /\ UNCHANGED <<table, ending, signals, late, cause>>
            \/ SpawnFails

Started ==
    /\ point = "started"
    /\ children' = children \union {cur}
    /\ point' = "start"
    /\ UNCHANGED <<procs, pending, exits, ending, todo, cur, signals, late, cause>>

\* while children or pending_respawns
Head_ ==
    /\ point = "head"
    /\ IF children = {} /\ \A i \in Slots : pending[i] = NIL
       THEN /\ Return(exitCode, "drained")
            /\ UNCHANGED todo
       ELSE /\ point' = "reap"
            /\ todo' = children
            /\ UNCHANGED <<exitCode, cause>>
    /\ UNCHANGED <<procs, table, stopping, shutdown, killing, cur, signals, late>>

\* poll() of one child; an ended one is forgotten, and while stopping only that.
Reap ==
    /\ point = "reap"
    /\ IF todo = {}
       THEN /\ point' = "stopcheck"
            /\ UNCHANGED <<todo, cur, children>>
       ELSE \E i \in todo :
            /\ todo' = todo \ {i}
            /\ IF live[i] > 0
               THEN UNCHANGED <<point, cur, children>>
               ELSE /\ children' = children \ {i}
                    /\ cur' = i
                    /\ point' = IF stopping THEN "reap" ELSE "reaped"
    /\ UNCHANGED <<procs, pending, exits, ending, signals, late, cause>>

\* The exits left when those before the cutoff were popped, the oldest first.
Recent(history) ==
    LET popped == {n \in DOMAIN history : \A m \in 1 .. n : history[m] > Window}
    IN  SubSeq(history, Cardinality(popped) + 1, Len(history))

\* RestartBudget.record, after RestartBudget.reset for a stable worker.
Remembered(i) ==
    Append(IF age[i] >= Stable THEN <<>> ELSE Recent(exits[i]), 0)

Backoff(n) == IF 2 ^ (n - 1) > MaxBackoff THEN MaxBackoff ELSE 2 ^ (n - 1)

\* Mutant: one restart more than the budget allows.
RecordOnceMore ==
    /\ point = "reaped"
    /\ exits' = [exits EXCEPT ![cur] = Remembered(cur)]
    /\ IF Len(Remembered(cur)) <= MaxRestarts + 1
       THEN /\ pending' = [pending EXCEPT ![cur] = Backoff(Len(Remembered(cur)))]
            /\ point' = "reap"
            /\ UNCHANGED <<told, exitCode, stopping, shutdown>>
       ELSE /\ exitCode' = 2
            /\ stopping' = TRUE
            /\ pending' = [i \in Slots |-> NIL]
            /\ shutdown' = Grace
            /\ told' = Terminated
            /\ point' = "stopcheck"
    /\ UNCHANGED <<live, age, children, killing, todo, cur, signals, late, cause>>

\* The rest of the loop body for an ended worker, unless a stop was seen.
Record ==
    /\ point = "reaped"
    /\ exits' = [exits EXCEPT ![cur] = Remembered(cur)]
    /\ IF Len(Remembered(cur)) <= MaxRestarts
       THEN /\ pending' = [pending EXCEPT ![cur] = Backoff(Len(Remembered(cur)))]
            /\ point' = "reap"
            /\ UNCHANGED <<told, exitCode, stopping, shutdown>>
       ELSE /\ exitCode' = 2
            /\ stopping' = TRUE
            /\ pending' = [i \in Slots |-> NIL]
            /\ shutdown' = Grace
            /\ told' = Terminated
            /\ point' = "stopcheck"
    /\ UNCHANGED <<live, age, children, killing, todo, cur, signals, late, cause>>

\* Mutant: a child that was sent a signal counts as ended.
DrainTold ==
    /\ point = "stopcheck" /\ stopping
    /\ children' = {i \in children : told[i] = "none"}
    /\ point' = "deadline"
    /\ UNCHANGED <<procs, pending, exits, ending, todo, cur, signals, late, cause>>

\* if stopping: drop the children that have ended.
Drain ==
    /\ point = "stopcheck" /\ stopping
    /\ children' = {i \in children : live[i] > 0}
    /\ point' = "deadline"
    /\ UNCHANGED <<procs, pending, exits, ending, todo, cur, signals, late, cause>>

\* Mutant: the loop waits for the killed workers without a deadline.
DeadlineWithoutEnd ==
    /\ point = "deadline"
    /\ \/ /\ children = {}
          /\ Return(exitCode, "drained")
          /\ UNCHANGED <<told, killing>>
       \/ /\ children # {}
          /\ told' = IF shutdown # 0 \/ killing # NIL THEN told
                     ELSE [i \in Slots |-> IF i \in children /\ live[i] > 0 THEN "kill" ELSE told[i]]
          /\ killing' = IF shutdown # 0 \/ killing # NIL THEN killing ELSE KillGrace
          /\ point' = "sleep"
          /\ UNCHANGED <<exitCode, cause>>
    /\ UNCHANGED <<live, age, table, stopping, shutdown, todo, cur, signals, late>>

\* Then kill at the shutdown deadline, give up at the next one, or wait.
Deadline ==
    /\ point = "deadline"
    /\ \/ /\ children = {}
          /\ Return(exitCode, "drained")
          /\ UNCHANGED <<told, killing>>
       \/ /\ children # {}
          /\ shutdown # 0 \/ killing \notin {NIL, 0}
          /\ point' = "sleep"
          /\ UNCHANGED <<told, killing, exitCode, cause>>
       \/ /\ children # {} /\ shutdown = 0 /\ killing = NIL
          /\ told' = [i \in Slots |->
                        IF i \in children /\ live[i] > 0 THEN "kill" ELSE told[i]]
          /\ killing' = KillGrace
          /\ point' = "sleep"
          /\ UNCHANGED <<exitCode, cause>>
       \/ /\ children # {} /\ shutdown = 0 /\ killing = 0
          /\ Return(2, "kill_timeout")
          /\ UNCHANGED <<told, killing>>
    /\ UNCHANGED <<live, age, table, stopping, shutdown, todo, cur, signals, late>>

\* No stop seen: on to the restarts, over a copy of the pending ones.
Continue ==
    /\ point = "stopcheck" /\ ~stopping
    /\ todo' = {i \in Slots : pending[i] = 0}
    /\ point' = "respawn"
    /\ UNCHANGED <<procs, table, ending, cur, signals, late, cause>>

Respawn ==
    /\ point = "respawn"
    /\ IF todo = {}
       THEN /\ point' = "sleep"
            /\ UNCHANGED <<procs, table, ending, todo, cur, signals, late, cause>>
       ELSE \/ \E i \in todo :
                 /\ Spawn(i)
                 /\ todo' = todo \ {i}
                 /\ point' = "respawned"
                 /\ late' = IF stopping THEN late \union {i} ELSE late
                 /\ UNCHANGED <<table, ending, signals, cause>>
            \/ SpawnFails

Respawned ==
    /\ point = "respawned"
    /\ children' = children \union {cur}
    /\ point' = "unqueue"
    /\ UNCHANGED <<procs, pending, exits, ending, todo, cur, signals, late, cause>>

\* Mutant: the restart stays pending.
UnqueueLater ==
    /\ point = "unqueue"
    /\ point' = "respawn"
    /\ UNCHANGED <<procs, table, ending, todo, cur, signals, late, cause>>

\* del pending_respawns[index]: a KeyError, which nobody handles, if a stop
\* has cleared the dictionary since the copy was made.
Unqueue ==
    /\ point = "unqueue"
    /\ IF pending[cur] = NIL
       THEN /\ Return(1, "key_error")
            /\ UNCHANGED pending
       ELSE /\ pending' = [pending EXCEPT ![cur] = NIL]
            /\ point' = "respawn"
            /\ UNCHANGED <<exitCode, cause>>
    /\ UNCHANGED <<procs, children, exits, stopping, shutdown, killing, todo,
                   cur, signals, late>>

\* time.sleep(0.1) returns
Wake ==
    /\ point = "sleep"
    /\ point' = "head"
    /\ UNCHANGED <<procs, table, ending, todo, cur, signals, late, cause>>

\* time.monotonic moves on
ClockTick ==
    /\ point = "sleep"
    /\ age' = [i \in Slots |-> IF age[i] < Stable THEN age[i] + 1 ELSE age[i]]
    /\ exits' = [i \in Slots |-> [k \in 1 .. Len(exits[i]) |->
                    IF exits[i][k] <= Window THEN exits[i][k] + 1 ELSE exits[i][k]]]
    /\ pending' = [i \in Slots |-> Down(pending[i])]
    /\ shutdown' = Down(shutdown)
    /\ killing' = Down(killing)
    /\ UNCHANGED <<live, told, children, stopping, exitCode, point, todo, cur,
                   signals, late, cause>>

\* A worker process ends: by itself, by a crash, or because it was told to.
WorkerExits(i) ==
    /\ point # "ended"
    /\ live[i] > 0
    /\ live' = [live EXCEPT ![i] = @ - 1]
    /\ UNCHANGED <<told, age, table, ending, point, todo, cur, signals, late, cause>>

Main ==
    \/ Start \/ Started \/ Head_ \/ Reap \/ Record \/ Drain \/ Deadline
    \/ Continue \/ Respawn \/ Respawned \/ Unqueue \/ Wake

SupervisorNext ==
    \/ Main \/ ClockTick \/ RequestStop
    \/ \E i \in Slots : WorkerExits(i)

\* The program runs and the clock moves; nothing is assumed of the workers.
SupervisorFairness == WF_supervisor_vars(Main) /\ SF_supervisor_vars(ClockTick)

SupervisorSpec == SupervisorInit /\ [][SupervisorNext]_supervisor_vars /\ SupervisorFairness
-----------------------------------------------------------------------------
SupervisorTypeOK ==
    /\ live \in [Slots -> Nat]
    /\ told \in [Slots -> {"none", "term", "kill"}]
    /\ age \in [Slots -> 0 .. Stable]
    /\ children \subseteq Slots
    /\ pending \in [Slots -> 0 .. MaxBackoff \union {NIL}]
    /\ exits \in [Slots -> Seq(0 .. Window + 1)]
    /\ stopping \in BOOLEAN /\ exitCode \in {0, 1, 2}
    /\ shutdown \in 0 .. Grace \union {NIL}
    /\ killing \in 0 .. KillGrace \union {NIL}
    /\ point \in Points \union {"ended"}
    /\ todo \subseteq Slots /\ cur \in Slots \union {NIL}
    /\ signals \in SignalSchedules
    /\ late \subseteq Slots
    /\ cause \in Causes \union {NIL}

(* A slot never has two worker processes.  The worker id is made from the  *)
(* slot, and the job queue knows a holder by its worker id only, so two    *)
(* processes of one slot would share leases.                               *)
OneWorkerPerSlot == \A i \in Slots : live[i] <= 1

(* The supervisor leaves a running worker behind only when it says so: it  *)
(* gave up after SIGKILL, a process could not be started, or the race of   *)
(* the signal handler with the restart loop broke it.  The normal end of   *)
(* the loop, after a stop or an exhausted budget, leaves nobody.           *)
DrainedLeavesNobody ==
    cause = "drained" => \A i \in Slots : live[i] = 0

(* A stop ends the supervisor: nothing in the drain waits for ever, not    *)
(* even for a worker that survives SIGKILL.                                *)
StopEnds == stopping ~> point = "ended"

(* What docs/formal-continuous-recovery.md says of the supervisor: once    *)
(* stopping begins no later respawn is possible.                           *)
NoRespawnAfterStop == late = {}
-----------------------------------------------------------------------------
(* The inductive invariant of the proofs.                                  *)

\* Whoever runs is registered, or was started in the step before.
RunningIsRegistered ==
    \A i \in Slots : live[i] > 0 => i \in children \/ (point \in {"started", "respawned"} /\ cur = i)

\* A slot that is to be started, or waits for its restart, runs nothing.
ToStartIsIdle ==
    /\ point \in {"start", "started", "respawn", "respawned", "unqueue"} =>
         \A i \in todo : live[i] = 0 /\ i \notin children
    /\ point \in {"start", "started"} => \A i \in Slots : pending[i] = NIL
    /\ point \in {"started", "respawned", "unqueue"} => cur \in Slots \ todo
    /\ point \in {"started", "respawned"} => cur \notin children
    /\ \A i \in Slots : pending[i] # NIL =>
         (live[i] = 0 /\ i \notin children) \/ (point \in {"respawned", "unqueue"} /\ cur = i)
    /\ point = "reaped" => cur \in Slots \ children /\ live[cur] = 0

\* Where the program is once it stops, and what that has set.
StopIsSeen ==
    /\ cause # NIL <=> point = "ended"
    /\ point = "start" => Slots \subseteq todo \union children
    /\ point = "started" => Slots \subseteq todo \union children \union {cur}
    /\ point \in {"reap", "reaped"} => todo \subseteq children
    /\ point = "deadline" => stopping
    /\ killing # NIL => stopping
    /\ point # "ended" /\ ~stopping => exitCode = 0
    /\ signals = {"sleep"} /\ stopping => point \in {"sleep", "head", "reap", "stopcheck", "deadline", "ended"}

SupervisorInv == /\ SupervisorTypeOK /\ OneWorkerPerSlot /\ RunningIsRegistered /\ ToStartIsIdle /\ StopIsSeen
        /\ DrainedLeavesNobody
-----------------------------------------------------------------------------
(* The slots as the repository's own model sees them.  Signals that arrive *)
(* while the loop sleeps are the ones that model knows of.                 *)

PhaseOf(i) ==
    IF i \in children \/ point \in {"start", "started"} \/ (point = "respawned" /\ cur = i)
    THEN IF ~stopping THEN "running"
         ELSE IF cause = "kill_timeout" THEN "stuck"
         ELSE IF killing = NIL THEN "stopping" ELSE "killing"
    ELSE IF ~stopping THEN IF point = "reaped" /\ cur = i THEN "running" ELSE "backoff"
    ELSE "stopped"

Phases == INSTANCE SupervisorPhases WITH
    phase <- [i \in Slots |-> PhaseOf(i)],
    attempts <- [i \in Slots |-> Len(exits[i])],
    halt <- IF ~stopping THEN "no"
            ELSE IF cause = "kill_timeout" THEN "timeout"
            ELSE IF exitCode = 2 THEN "exhausted" ELSE "operator"

(* With signals that arrive while the loop sleeps, and processes that can  *)
(* be started, every step of the supervisor is a step of the repository's  *)
(* model, or none of its business.                                         *)
StepsImplementPhases ==
    [][signals = {"sleep"} /\ cause' # "spawn_failed" => Phases!Next]_(Phases!vars)
=============================================================================
