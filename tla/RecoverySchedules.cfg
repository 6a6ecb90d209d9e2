SPECIFICATION ScheduleSpec
CONSTANTS
    Runs = {1, 2}
    Kinds <- MCKinds
    Offset <- MCOffset
    DayLength = 3
    WeekLength = 2
    ScheduledAt = 2
    RecoveryAfter = 1
    MaxLateness = 1
    Interval = 3
    MaxDispatchDelay = 1
    Settlement = 1
    Consumers = {"worker", "conforming"}
    NONE = NONE
    MaxTime = 6
INVARIANTS NotBeforeItsTime WatchdogIsRight
 
CHECK_DEADLOCK FALSE
