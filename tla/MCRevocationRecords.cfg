SPECIFICATION Spec
CONSTANTS
    Device = {d1}
    Registered = {d1}
    Group = {g1}
    Worker = {w1, w2}
    MAX_DEVICES_PER_USER = 1
    MaxLogins = 1
    MaxItems = 2
    MaxEpoch = 1
SYMMETRY Symmetry
INVARIANTS
    TypeOK
    DoomedPackagesGone
    RemindersOutliveDevice
CHECK_DEADLOCK FALSE
