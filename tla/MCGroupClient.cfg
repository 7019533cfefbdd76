SPECIFICATION Spec
CONSTANTS
    Bob = bob
    Carol = carol
    Device = {alice, bob, carol}
    Creator = alice
    NoDevice = NoDevice
    None = None
    MaxCommits = 2
    MaxSends = 1
    MaxEnvelopes = 5
    MaxUpsets = 1
SYMMETRY Symm
INVARIANTS
    TypeOK
    NoFork
    ResumeNeverRefused
    WelcomeNeverLost
    NotStranded
    SpentIsStored
    KeysAreFresh
CHECK_DEADLOCK FALSE
