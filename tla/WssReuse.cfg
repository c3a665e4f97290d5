CONSTANTS
    Conn = {c1, c2}
    MaxData = 2
    Cap = 1
    MaxEpoch = 2
    None = None
SPECIFICATION ReconnectSpec
INVARIANT OwnStream
CHECK_DEADLOCK FALSE
