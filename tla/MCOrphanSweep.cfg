SPECIFICATION Spec
CONSTANTS
    First = e1
    Second = e2
    Env = {e1, e2}
    Key = {1, 2, 3, 4}
    Home <- MCHome
    PAGE = 2
    MIN_SAMPLE = 3
    PERCENT = 60
    PRE_SAMPLE = 1
    MAX_DELETES = 2
    None = None
INVARIANTS
    OneOwner
    BlastRadius
PROPERTIES
    NamedIsKept
CHECK_DEADLOCK FALSE
