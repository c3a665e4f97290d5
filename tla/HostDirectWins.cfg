CONSTANTS
    Peer = {p1}
    Conn = {c1}
    Punch = {i1}
    MaxGen = 1
    MaxCalls = 3
    None = None
SPECIFICATION Spec
INVARIANT DirectWins
CHECK_DEADLOCK FALSE
