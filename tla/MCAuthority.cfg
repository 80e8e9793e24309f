SPECIFICATION Spec
CONSTANTS
    Participant = {p1}
    Session = {s1, s2}
    Incarnation = {1, 2}
    PolicyGen = {g1}
    TopologyGen = {t1, t2, t3}
    EvidenceGen = {e1}
    None = None
    HistoryCap = 2
    PeersMax = 1
    Ttl = 1
    MaxEpoch = 2
    MaxTime = 1
    MaxCrashes = 1
SYMMETRY Interchangeable
CHECK_DEADLOCK FALSE
INVARIANTS
    TypeOK
    EvidenceDescribesCurrentTopology
    NothingDynamicSurvivesBoot
    RecordHoldsHighestIncarnation
    SpentIncarnationStaysSpent
PROPERTIES
    IncarnationNeverRegresses
    NoReplayWithinWindow
