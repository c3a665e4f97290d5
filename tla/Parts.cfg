\* The parts around the sessions, one in each behaviour: two host sessions, two
\* gateways, one chunk each way, two STUN servers, two callers and two test
\* servers.  The sweep has the numbers of the code.
CONSTANTS
    MaxGen = 2
    Gateway = {x1, x2}
    Nowhere = Nowhere
    MaxChunk = 1
    Id = {k1}
    MaxTries = 2
    MaxPiece = 1
    StunServers = 2
    MaxRound = 4
    Base = {0, 40, 30000, 65535}
    Reach = 100
    Packets = 150
    MaxPort = 65535
    Call = {c1, c2}
    TcpPort = {q1, q2}
    MaxServer = 2
    Nobody = Nobody
SPECIFICATION Spec
INVARIANTS
    TypeOK
    PortIsOwned
    ClosedByAnother
    StrayFromFailedStart
    StunTruthful
    NearestFirst
    SweepReach
    SerialKeepsOne
PROPERTIES
    KeepsHalfClose
    TunnelKeepsHalfClose
    PortsClose
    TasksEnd
    StopsAnnouncing
    Arrives
    GoneIsNoticed
    TunnelGoneIsNoticed
    ConnectionSettles
    QueriesEnd
    CallsReturn
CHECK_DEADLOCK FALSE
