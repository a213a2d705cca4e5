SPECIFICATION MCSpec
CONSTANTS
    Server = {s1, s2}
    Client = {c1, c2}
    Key = {x}
SYMMETRY Symmetry
CHECK_DEADLOCK FALSE
INVARIANTS StateIsLogPrefix
PROPERTIES Linearizable
