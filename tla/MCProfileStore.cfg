SPECIFICATION Spec
CONSTANTS
    UserNames = {a}
    MARKER = marker
    LATCH = latch
    Passwords = {p1, p2}
    FirstPw = p1
    None = None
    MaxVer = 1
    MaxBundle = 1
    MaxLost = 1
INVARIANTS
    NeverRefused
    AckedIsKept
    OldPasswordRetired
    RecoverySlotKept
