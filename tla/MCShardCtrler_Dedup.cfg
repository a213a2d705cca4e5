SPECIFICATION MCSpec
CONSTANTS
    NShards = 2
    Gid = {1, 2}
    N = 2
    Client = {c1, c2}
    Request <- Requests
SYMMETRY Symmetry
CHECK_DEADLOCK FALSE
INVARIANT AppliedOnce
