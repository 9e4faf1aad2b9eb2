SPECIFICATION Spec
CONSTANTS
    Clients = {c1, c2}
    Starts = {s1, s2}
    NONE = NONE
INVARIANTS
    ExecutedOnce
    StartedMeansListening
SYMMETRY Symmetry
CHECK_DEADLOCK FALSE
