SPECIFICATION FairSpec
CONSTANTS
    Worker = {w1, w2}
    nMap = 3
    nReduce = 2
    MaxFaults = 2
CHECK_DEADLOCK FALSE
INVARIANTS DoneMeansOutput FinalizedOnExit NothingLost NoPanic
PROPERTIES JobFinishes
