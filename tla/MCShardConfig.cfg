SPECIFICATION MCSpec
CONSTANTS
    NShards = 4
    Gid = {1, 2, 3}
    MaxConfigs = 7
VIEW View
CHECK_DEADLOCK FALSE
INVARIANTS RebalanceBalanced RebalanceMinimal RebalanceTerminates
