SPECIFICATION Spec
CONSTANTS
    Worker = {w1, w2}
    Owner = owner
    Mutation = {m1, m2}
    FirstInstall = {}
    FileId = {f1, f2, f3, f4, f5}
    None = None
    Torn = Torn
    Setups <- TwoSavers
    MaxRestarts = 0
SYMMETRY Interchangeable
CHECK_DEADLOCK FALSE
INVARIANTS
    SnapshotNeverTorn
