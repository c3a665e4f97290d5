\* One player that connects twice and is punched twice, across two sessions:
\* two punches in one session, or one punch and two sessions.
CONSTANTS
    Peer = {p1}
    Conn = {c1, c2}
    Punch = {i1, i2}
    MaxGen = 2
    MaxCalls = 3
    None = None
SPECIFICATION Spec
CONSTRAINT BoundedCalls
SYMMETRY Symmetry
INVARIANTS
    TypeOK
    ConnectedIsBacked
    IdleStaysIdle
    RelayOwned
    ExpectedHasTimer
    TrackedUnlessShadowed
CHECK_DEADLOCK FALSE
