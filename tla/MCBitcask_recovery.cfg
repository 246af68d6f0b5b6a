\* Crashes, torn tails, rotations and restarts; no merge.
CONSTANTS
    Key = {k1}
    Caller = {}
    Merger = {}
    Value = {v1, v2}
    Nil = Nil
    Tombstone = Tombstone
    SyncOnPut = FALSE
    MaxRecords = 2
    ClockSteps = {0, 1}
    CrashFragments = {"none", "torn"}
    WriteFragments = {"none"}
    MaxWrites = 4
    MaxOpens = 3
    MaxMerges = 0
SPECIFICATION Spec
SYMMETRY Symmetry
INVARIANTS RecoveryInv PutIsKept DeletedStaysDeleted
PROPERTY ImplementsDurableMap
CHECK_DEADLOCK FALSE
