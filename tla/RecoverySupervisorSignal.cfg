SPECIFICATION SupervisorSpec
CONSTANTS
    NIL = NIL
    Slots = {s1, s2}
    MaxRestarts = 1
    Window = 2
    MaxBackoff = 1
    Stable = 2
    Grace = 1
    KillGrace = 1
    SignalSchedules = {{"sleep"},
        {"start", "started", "head", "reap", "reaped", "stopcheck", "deadline",
         "respawn", "respawned", "unqueue", "sleep"}}
INVARIANT NoRespawnAfterStop
CHECK_DEADLOCK FALSE
