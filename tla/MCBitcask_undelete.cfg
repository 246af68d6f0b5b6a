\* A delete after a merge, then a restart.
CONSTANTS
    Key = {k1, k2}
    Caller = {}
    Merger = {m1}
    Value = {v1}
    Nil = Nil
    Tombstone = Tombstone
    SyncOnPut = TRUE
    MaxRecords = 2
    ClockSteps = {1}
    CrashFragments = {"none"}
    WriteFragments = {"none"}
    MaxWrites = 4
    MaxOpens = 1
    MaxMerges = 1
SPECIFICATION Spec
SYMMETRY Symmetry
INVARIANT DeletedStaysDeleted
CHECK_DEADLOCK FALSE
