SPECIFICATION Spec
CONSTANTS
    Group = {g1, g2}
    Worker = {w1, w2}
    Rates = {3, 21}
    Bursts = {0, 2}
    Sizes = {0, 3}
    TopRate = 21
    TopDepth = 3
    Scale = 4
    Word = 32
    Capacity = 1
    None = None
    MaxTime = 7
SYMMETRY Interchangeable
CHECK_DEADLOCK FALSE
INVARIANTS
    TypeOK
    ReleasesWithinRate
    WaitIsEnough
