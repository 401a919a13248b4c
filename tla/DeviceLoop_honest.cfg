\* A board with its real timeout, cadence and drain: challenges, delays and losses.
SPECIFICATION FairSpec
CONSTANTS
    Timeout = 5
    TickTenths = 20
    Drained = 8
    Process = 950
    Nonces = {n1, n2, n3, n4}
    MaxFaults = 2
    MaxSlips = 1
    MaxOff = 8
INVARIANTS TypeOK HeardUnlessTorn
PROPERTIES InTime Recovers
