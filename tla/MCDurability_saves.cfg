SPECIFICATION FairSpec
CONSTANTS
    Worker = {w1, w2}
    Owner = owner
    Mutation = {m1, m2}
    FirstInstall = {m1}
    FileId = {f1, f2, f3, f4, f5}
    None = None
    Torn = Torn
    Setups <- OneSaver
    MaxRestarts = 2
CHECK_DEADLOCK FALSE
INVARIANTS
    SnapshotNeverTorn
    ClearMeansSaved
    ReportedSaveIsDurable
PROPERTIES
    ImplementsAtomicStore
    StopReturns
