SPECIFICATION mcFairSpec
CONSTANTS
    Host = {"h1", "h2"}
    Instance <- mcInstance
    hostOf <- mcHostOf
    first <- mcFirst
    Request = {r1, r2}
    Nobody = Nobody
    Hanging = {r2}
CHECK_DEADLOCK FALSE
INVARIANTS PositiveMeansKept CrashedCannotSend
PROPERTIES CallsReturn GoroutinesEnd
