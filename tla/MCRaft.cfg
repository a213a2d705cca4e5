SPECIFICATION MCSpec
CONSTANTS
    Server = {s1, s2, s3}
    Command = {x}
    Nil = Nil
    MaxRetry = 1
SYMMETRY Symmetry
VIEW View
CHECK_DEADLOCK FALSE
INVARIANTS ElectionSafety ElectionInv CommitAgreement ElectableHasCommitted LogMatching IndexesInLog MatchIndexSound AppliedInOrder
PROPERTIES CommittedStays
