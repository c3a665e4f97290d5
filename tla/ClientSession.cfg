\* Two sessions in any order of calls; two handshakes stand for the ten.
CONSTANTS
    Peer = {p1}
    MaxGen = 2
    Attempts = 2
    None = None
SPECIFICATION FairSpec
INVARIANTS
    TypeOK
    OneLiveFlow
PROPERTIES
    HostKeepsStatus
    ClientSettles
CHECK_DEADLOCK FALSE
