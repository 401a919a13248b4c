\* One capture is enough to tell the splits apart; two trainings let a
\* scorer change under a fusion, or a table outlive its pin.
SPECIFICATION Spec
CONSTANTS
    Captures = {c1}
    Versions = {0, 1}
    MaxRuns = 2
INVARIANTS
    TypeOK
    TestIsUntouched
    StagesApart
    PinnedIsMatched
    LineageIsTrue
CHECK_DEADLOCK FALSE
