\* The database is edited twice while a thread logs and a thread verifies.
SPECIFICATION Spec
CONSTANTS
    w1 = w1
    e1 = e1
    e2 = e2
    Writer = {w1}
    Entry = {e1, e2}
    Interval = 2
    Free = Free
    NoRow = NoRow
    MaxRows = 4
    MaxFaults = 1
    MaxEdits = 2
INVARIANTS TypeOK EditIsDetected TailIsCovered CleanScanIsSound
CHECK_DEADLOCK FALSE
