CONSTANTS
    Peer = {p1}
    MaxGen = 1
    Attempts = 1
    None = None
SPECIFICATION FairSpec
PROPERTY ClearedMeansClosed
CHECK_DEADLOCK FALSE
