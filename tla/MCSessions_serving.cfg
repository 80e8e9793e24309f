SPECIFICATION SSpec
CONSTANTS
    Participant = {p1}
    Session = {s1, s2, s3}
    Incarnation = {1, 2}
    PolicyGen = {}
    TopologyGen = {}
    EvidenceGen = {}
    None = None
    HistoryCap = 1
    PeersMax = 2
    Ttl = 1
    MaxEpoch = 2
    MaxTime = 1
    MaxCrashes = 1
    Conn = {c1, c2, c3}
    SessionsMax = 2
    MaxFrame = 2
SYMMETRY Interchangeable
VIEW WithoutSpent
CHECK_DEADLOCK FALSE
INVARIANTS
    SessionsOfThisBoot
    FramesServedInOrder
    LiveMeansSessionOpen
