\* A node that restarts with an empty memory: two servers, two terms, two
\* entries.
CONSTANTS
    Server = {s1, s2}
    Command = {c1, c2}
    Nil = Nil
    MaxInt32 = 2147483647
    MaxTerm = 2
    MaxLog = 2
    MaxRequests = 2
    MaxCandidates = 2
    MaxRestarts = 1
SPECIFICATION RestartSpec
SYMMETRY Symmetry
VIEW RestartView
INVARIANTS RestartInv CommittedSurvives ReplayAgrees LogsNeverDiverge
CHECK_DEADLOCK FALSE
