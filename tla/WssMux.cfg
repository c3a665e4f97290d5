CONSTANTS
    Conn = {c1, c2}
    MaxData = 2
    Cap = 1
    MaxEpoch = 1
    None = None
SPECIFICATION Spec
SYMMETRY Symmetry
INVARIANTS
    TypeOK
    GracefulTeardown
PROPERTIES
    ImplementsPipes
CHECK_DEADLOCK FALSE
