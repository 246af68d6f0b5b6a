\* Calls that must be answered, and a Close among them that must return.
CONSTANTS
    r1 = r1
    r2 = r2
    r3 = r3
    Server = {s1, s2}
    Request = {r1, r2}
    Nil = Nil
    Kind <- Writes
    maxCompletedNotifications = 1
    Closers = {s1}
    Failing = {s1}
    Impatient = {r1, r2}
    MaxTerm = 1
    MaxLog = 2
SPECIFICATION FairSpec
INVARIANTS ServerInv SendNeverBlocks
PROPERTIES AppliedIsAnswered CloseReturns
CHECK_DEADLOCK FALSE
