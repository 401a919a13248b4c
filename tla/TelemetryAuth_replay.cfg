\* One device, device reboots, power lost while the boot counter is rewritten,
\* a gateway restart, a clock that may run fast.
SPECIFICATION Spec
CONSTANTS
    d1 = d1
    Device = {d1}
    Stranger = {}
    Window = 1
    Grace = 1
    RiskWindow = 0
    RiskThreshold = 2
    Cooldown = 1
    Skews <- FastOnly
    Readings = {TRUE}
    Revocable = {}
    MaxTime = 3
    MaxBoot = 2
    MaxTears = 1
    MaxSeq = 2
    MaxSent = 3
    MaxKey = 1
    MaxLives = 2
    MaxAttempts = 1
INVARIANTS AcceptedInOrder LockoutBounded ReplayExposureBounded
PROPERTIES RejectionIsolation ImplementsPromise
CHECK_DEADLOCK FALSE
