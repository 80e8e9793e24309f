SPECIFICATION FairSpec
CONSTANTS
    c1 = c1
    c2 = c2
    Conn = {c1, c2}
    Fd = {f1, f2}
    None = None
    Elsewhere = Elsewhere
    MaxElsewhere = 1
    Setups <- TwoClients
    ReadCapacity = 3
    Header = 1
    Envelope = 0
    PayloadMax = 1
INVARIANTS
    TypeOK
    OwnStreamOnly
    StreamConserved
    NothingLeftBehind
PROPERTIES
    ShutdownReturns
    ClosedPeerLeaves
