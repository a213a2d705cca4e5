SPECIFICATION FairSpec
CONSTANT Partition = {p1, p2, p3}
CHECK_DEADLOCK FALSE
INVARIANTS ResultRight InfoComplete
PROPERTIES Returns GoroutinesEnd
