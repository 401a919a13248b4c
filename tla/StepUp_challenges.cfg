\* Challenges, lost and late echoes, restarts, quarantine; one message whose
\* audit row cannot be written, one challenge the gateway did not send.
SPECIFICATION FairSpec
CONSTANTS
    Timeout = 1
    RunLength = 2
    Armed = TRUE
    MaxNonces = 3
    MaxFlight = 2
    MaxFaults = 1
    MaxStrays = 1
INVARIANTS TypeOK OpenIsPending MismatchHasCause
PROPERTIES VerdictIsFinal UnbrokenOnRecord ChallengeResolved
CHECK_DEADLOCK FALSE
