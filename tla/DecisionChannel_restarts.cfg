\* Gateway restarts, two of them torn, key rotation and device reboots.
SPECIFICATION Spec
CONSTANTS
    d1 = d1
    Device = {d1}
    MaxLives = 5
    MaxTorn = 2
    MaxDecisions = 2
    MaxKey = 2
    MaxReboots = 2
INVARIANTS TypeOK RestartSupersedes NewestIsTaken
PROPERTIES ImplementsPromise
CHECK_DEADLOCK FALSE
