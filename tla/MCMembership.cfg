SPECIFICATION Spec
CONSTANTS
    Device = {d1, d2, d3}
    Group = {g1, g2}
    Worker = {w1, w2}
    MAX_PER_DEVICE = 1
    MAX_PER_GROUP = 1
    PURGE_BATCH = 1
    MaxRows = 4
SYMMETRY Symmetry
INVARIANTS
    RemovedStaysOut
    OneSeat
    DeviceCap
    GroupCap
CHECK_DEADLOCK FALSE
