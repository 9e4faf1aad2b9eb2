SPECIFICATION Spec
CONSTANTS
    Procs = {p1, p2, p3, p4}
    NONE = NONE
    num_process = 2
    MaxQueue = 1
    MaxStrays = 1
    SpikeLimit = 2
    MaxEvents = 2
SYMMETRY Symmetry
INVARIANTS
    WorkersListed
    AdaptiveCap
    NoOrphans
PROPERTIES
    RestartsAllowed
