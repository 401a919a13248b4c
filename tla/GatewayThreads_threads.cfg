\* Both transports and the watchdog, in one copy of the module or two; one
\* failure to log and one death of the process.
SPECIFICATION FairSpec
CONSTANTS
    Devices = {d1}
    SeqLen = 2
    StaleAfter = 1
    MaxMessages = 2
    MaxFaults = 1
    MaxDeaths = 1
INVARIANTS TypeOK RowIsOfOneMessage OncePerEpisode
PROPERTIES SilenceIsSound SilenceRecorded NobodyStuck
CHECK_DEADLOCK FALSE
