SPECIFICATION MCSpec
CONSTANTS
    NShards = 1
    Gid = {1, 2, 3}
    Replica = {r1}
    Client = {}
    Key = {0}
    Instances <- ThirdGroupInstance
VIEW View
CHECK_DEADLOCK FALSE
INVARIANT ConfirmedIsHeld
