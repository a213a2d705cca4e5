SPECIFICATION Spec
CONSTANTS
    WordBits = 2
    computePartial = TRUE
    Histories <- AllHistories
    nOps = 3
    Times = {0, 1}
CHECK_DEADLOCK FALSE
INVARIANTS Verdict ListIntact PartialsAreLongest
