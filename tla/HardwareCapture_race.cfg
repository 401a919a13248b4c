\* An operator-marked session and a timed one, with telemetry all the time.
SPECIFICATION Spec
CONSTANTS
    NEvents = 2
    MinEvent = 3
    Duration = 3
    Settle = 1
    MaxTime = 8
    MaxMessages = 4
INVARIANTS EveryRecordLabelled
CHECK_DEADLOCK FALSE
