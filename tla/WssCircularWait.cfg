CONSTANTS
    Conn = {c1, c2}
    MaxData = 3
    Cap = 1
    MaxEpoch = 1
    None = None
SPECIFICATION Spec
INVARIANT NoCircularWait
CHECK_DEADLOCK FALSE
