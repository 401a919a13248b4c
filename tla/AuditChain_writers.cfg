\* Two threads log concurrently; calls fail and the process dies.
SPECIFICATION FairSpec
CONSTANTS
    w1 = w1
    w2 = w2
    e1 = e1
    e2 = e2
    Writer = {w1, w2}
    Entry = {e1, e2}
    Interval = 2
    Free = Free
    NoRow = NoRow
    MaxRows = 3
    MaxFaults = 2
    MaxEdits = 0
INVARIANTS ChainUnbroken DriftIsBounded
PROPERTIES LoggingProgresses
CHECK_DEADLOCK FALSE
