SPECIFICATION FairSpec
CONSTANTS
    g = g
    h = h
    Conv = {g}
    OwnCommits = {}
    Evictable = {g}
    Stranger = h
    MAX_PAGES = 2
    PAGE = 1
    MAX_PER_CONVERSATION = 1
    MAX_MESSAGES_PER_RUN = 2
    MAX_STORED_MESSAGES = 1
    MAX_HOPS = 2
    MAX_DECRYPT_FAILURES = 2
    UNKNOWN_GRACE = 2
    AHEAD_PIN = 1
    MaxEnvelopes = 3
    MaxUpsets = 1
PROPERTIES
    AllAreReached
CHECK_DEADLOCK FALSE
