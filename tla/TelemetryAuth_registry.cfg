\* A registered device and a stranger: key rotations, revocations, unreadable
\* values and the throttle; no device reboot is needed to reach them.
SPECIFICATION Spec
CONSTANTS
    d1 = d1
    s1 = s1
    Device = {d1}
    Stranger = {s1}
    Window = 2
    Grace = 1
    RiskWindow = 1
    RiskThreshold = 2
    Cooldown = 1
    Skews <- NoSkew
    Readings = {TRUE, FALSE}
    Revocable = {d1}
    MaxTime = 3
    MaxBoot = 1
    MaxTears = 0
    MaxSeq = 1
    MaxSent = 1
    MaxKey = 3
    MaxLives = 1
    MaxAttempts = 2
INVARIANTS TypeOK RetiredKeysExpire LatestIsAccepted
CHECK_DEADLOCK FALSE
