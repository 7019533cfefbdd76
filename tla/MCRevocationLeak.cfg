SPECIFICATION Spec
CONSTANTS
    Device = {d1}
    Registered = {d1}
    Group = {}
    Worker = {w1, w2}
    MAX_DEVICES_PER_USER = 2
    MaxLogins = 2
    MaxItems = 0
    MaxEpoch = 0
SYMMETRY Symmetry
INVARIANT RevokedHasNoSession
CHECK_DEADLOCK FALSE
