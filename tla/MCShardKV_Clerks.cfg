SPECIFICATION MCSpec
CONSTANTS
    NShards = 1
    Gid = {1, 2}
    Replica = {r1, r2}
    Client = {c1, c2}
    Key = {0}
    Instances <- ClerkInstances
VIEW View
SYMMETRY Symmetry
CHECK_DEADLOCK FALSE
INVARIANTS ReplayIdle
PROPERTIES Linearizable
