SPECIFICATION PollSpec
CONSTANTS
    Device = {d1, d2}
    Worker = {w1, w2}
    NoDevice = NoDevice
    MaxEnvelopes = 2
    PollLimit = 1
    Reader = {d2}
SYMMETRY WorkerSymmetry
PROPERTY LedgerRefines
INVARIANTS
    TypeOK
    OwedIsStored
    EpochConsumedIffStored
    CommitsInEpochOrder
    GapsAreLateSaves
CHECK_DEADLOCK FALSE
