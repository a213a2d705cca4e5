SPECIFICATION FairSpec
CONSTANTS
    NShards = 2
    Gid = {1, 2, 3}
    Replica = {r1}
    Client = {}
    Key = {0, 1}
    Instances <- MigrationInstances
VIEW View
CHECK_DEADLOCK FALSE
INVARIANTS OneOwner OwnershipInv
PROPERTIES ConfigWhenReady MigrationsComplete
