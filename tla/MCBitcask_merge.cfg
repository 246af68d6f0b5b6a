\* Merge among writes, failures and crashes in it, and restarts.
CONSTANTS
    Key = {k1, k2}
    Caller = {}
    Merger = {m1}
    Value = {v1, v2}
    Nil = Nil
    Tombstone = Tombstone
    SyncOnPut = TRUE
    MaxRecords = 2
    ClockSteps = {1}
    CrashFragments = {"none", "torn"}
    WriteFragments = {"none"}
    MaxWrites = 5
    MaxOpens = 2
    MaxMerges = 1
SPECIFICATION Spec
SYMMETRY Symmetry
INVARIANTS PutIsKept
PROPERTY OnlyPutRevives
CHECK_DEADLOCK FALSE
