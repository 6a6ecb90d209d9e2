-------------------------- MODULE SupervisorPhases --------------------------
(***************************************************************************)
(* What the recovery supervisor promises of its worker slots: the model    *)
(* that the repository keeps in formal/continuous_recovery_supervisor.py.  *)
(* A slot runs, waits for its restart, or is being stopped; a stop ends    *)
(* restarts for good.                                                      *)
(*                                                                         *)
(* One difference is intended.  The repository's model forgets all exits   *)
(* of a slot at once (WINDOW_ELAPSED); a sliding window forgets the oldest *)
(* ones.  Here an exit may count anything from one exit to one more than   *)
(* before.                                                                 *)
(***************************************************************************)
EXTENDS Naturals

CONSTANTS Slots, MaxRestarts

VARIABLES phase,     \* slot -> what its worker does
          attempts,  \* slot -> exits counted against the restart budget
          halt       \* "no", "operator", "exhausted", or "timeout"

vars == <<phase, attempts, halt>>

Phases == {"running", "backoff", "stopping", "killing", "stopped", "stuck"}

Init ==
    /\ phase = [i \in Slots |-> "running"]
    /\ attempts = [i \in Slots |-> 0]
    /\ halt = "no"

\* A stop lets running workers end and cancels the restarts that wait.
StopSlots(p) ==
    [i \in Slots |-> CASE p[i] = "running" -> "stopping"
                       [] p[i] = "backoff" -> "stopped"
                       [] OTHER -> p[i]]

StopRequested ==
    /\ halt = "no"
    /\ halt' = "operator"
    /\ phase' = StopSlots(phase)
    /\ UNCHANGED attempts

\* A worker ended and is restarted after a delay, or used up its budget.
Exit(i) ==
    /\ halt = "no"
    /\ phase[i] = "running"
    /\ \E n \in 1 .. attempts[i] + 1 :
          /\ attempts' = [attempts EXCEPT ![i] = n]
          /\ IF n > MaxRestarts
             THEN /\ halt' = "exhausted"
                  /\ phase' = StopSlots([phase EXCEPT ![i] = "stopped"])
             ELSE /\ halt' = halt
                  /\ phase' = [phase EXCEPT ![i] = "backoff"]

BackoffElapsed(i) ==
    /\ halt = "no"
    /\ phase[i] = "backoff"
    /\ phase' = [phase EXCEPT ![i] = "running"]
    /\ UNCHANGED <<attempts, halt>>

ChildExited(gone) ==
    /\ halt \in {"operator", "exhausted"}
    /\ \A i \in gone : phase[i] \in {"stopping", "killing"}
    /\ phase' = [i \in Slots |-> IF i \in gone THEN "stopped" ELSE phase[i]]
    /\ UNCHANGED <<attempts, halt>>

TerminateGraceExpired ==
    /\ halt \in {"operator", "exhausted"}
    /\ \E i \in Slots : phase[i] = "stopping"
    /\ phase' = [i \in Slots |-> IF phase[i] = "stopping" THEN "killing" ELSE phase[i]]
    /\ UNCHANGED <<attempts, halt>>

KillGraceExpired ==
    /\ halt \in {"operator", "exhausted"}
    /\ \E i \in Slots : phase[i] = "killing"
    /\ \A i \in Slots : phase[i] # "stopping"
    /\ phase' = [i \in Slots |-> IF phase[i] = "killing" THEN "stuck" ELSE phase[i]]
    /\ halt' = "timeout"
    /\ UNCHANGED attempts

Next ==
    \/ StopRequested
    \/ TerminateGraceExpired
    \/ KillGraceExpired
    \/ \E i \in Slots : Exit(i) \/ BackoffElapsed(i)
    \/ \E gone \in SUBSET Slots : ChildExited(gone)

Spec == Init /\ [][Next]_vars
=============================================================================
