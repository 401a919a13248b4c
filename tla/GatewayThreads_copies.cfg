\* What a SILENT row says, when the gateway runs as a script.
SPECIFICATION Spec
CONSTANTS
    Devices = {d1}
    SeqLen = 2
    StaleAfter = 1
    MaxMessages = 1
    MaxFaults = 0
    MaxDeaths = 0
PROPERTY SilentMeansUnheard
CHECK_DEADLOCK FALSE
