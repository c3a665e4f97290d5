\* One player that connects twice and punched once within one session,
\* which may be stopped at any time.
CONSTANTS
    Peer = {p1}
    Conn = {c1, c2}
    Punch = {i1}
    MaxGen = 1
    MaxCalls = 3
    None = None
SPECIFICATION FairSpec
PROPERTIES
    PunchResolved
    GhostFree
    Released
CHECK_DEADLOCK FALSE
