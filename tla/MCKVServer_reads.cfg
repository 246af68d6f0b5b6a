\* Reads and writes across a change of leader, and notes for late calls.
CONSTANTS
    r1 = r1
    r2 = r2
    r3 = r3
    Server = {s1, s2}
    Request = {r1, r2, r3}
    Nil = Nil
    Kind <- PutAndGets
    maxCompletedNotifications = 2
    Closers = {}
    Failing = {s1, s2}
    Impatient = {r1}
    MaxTerm = 2
    MaxLog = 3
SPECIFICATION Spec
SYMMETRY Symmetry
INVARIANTS AnswerIsOwn ReadsAreInOrder WaiterIsNotForgotten NotesAreBounded
CHECK_DEADLOCK FALSE
