\* Reads, a Fold, writes and two merges at a time in one open store, and
\* its Close.
CONSTANTS
    Key = {k1, k2}
    Caller = {c1}
    Merger = {m1, m2}
    Value = {v1}
    Nil = Nil
    Tombstone = Tombstone
    SyncOnPut = TRUE
    MaxRecords = 1
    ClockSteps = {1}
    CrashFragments = {}
    WriteFragments = {}
    MaxWrites = 3
    MaxOpens = 0
    MaxMerges = 2
SPECIFICATION Spec
SYMMETRY Symmetry
INVARIANTS SessionInv GetReturnsItsValue GetFailsForAReason FoldIsComplete ReadersAreOfFiles
CHECK_DEADLOCK FALSE
