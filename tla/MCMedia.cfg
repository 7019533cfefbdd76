SPECIFICATION Spec
CONSTANTS
    Device = {d1, d2}
    Sender = {d1}
    Blob = {1, 2}
    Request = {q1}
    Replica = {1, 2}
    Size = {1}
    QUOTA = 1
    GC_BATCH_SIZE = 1
    MaxUpsets = 1
    None = None
INVARIANTS
    OrphansAreLate
    QuotaHolds
PROPERTIES
    UnackedIsKept
    AckedIsCollected
CHECK_DEADLOCK FALSE
