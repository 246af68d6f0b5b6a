\* A crash that ends a record exactly between two of its fields, a restart,
\* a Put, and another restart.
CONSTANTS
    Key = {k1}
    Caller = {}
    Merger = {}
    Value = {v1}
    Nil = Nil
    Tombstone = Tombstone
    SyncOnPut = TRUE
    MaxRecords = 3
    ClockSteps = {1}
    CrashFragments = {"none", "stub"}
    WriteFragments = {"none"}
    MaxWrites = 2
    MaxOpens = 2
    MaxMerges = 0
SPECIFICATION Spec
INVARIANT PutIsKept
CHECK_DEADLOCK FALSE
