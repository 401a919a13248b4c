\* A score of exactly 0.600 is decided by what the view said of 0.55.
SPECIFICATION Spec
CONSTANTS
    Gaps = {3, 20, 105}
    ProcessScores = {950}
INVARIANTS FallbackIsStatic
