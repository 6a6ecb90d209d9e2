SPECIFICATION SupervisorSpec
CONSTANTS
    NIL = NIL
    Slots = {s1, s2}
    MaxRestarts = 2
    Window = 3
    MaxBackoff = 2
    Stable = 2
    Grace = 1
    KillGrace = 1
    SignalSchedules = {{"sleep"},
        {"start", "started", "head", "reap", "reaped", "stopcheck", "deadline",
         "respawn", "respawned", "unqueue", "sleep"}}
INVARIANTS
    OneWorkerPerSlot
    DrainedLeavesNobody
PROPERTIES
    StopEnds
    StepsImplementPhases
CHECK_DEADLOCK FALSE
