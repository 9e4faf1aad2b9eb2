SPECIFICATION Spec
CONSTANTS
    Procs = {p1, p2, p3}
    NONE = NONE
    num_process = 2
    MaxQueue = 1
    MaxStrays = 1
    SpikeLimit = 1
    MaxEvents = 1
PROPERTIES
    Replenished
    Served
    Stopped
