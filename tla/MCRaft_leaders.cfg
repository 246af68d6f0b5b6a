\* Competing candidates and a change of leader: three servers, two terms,
\* two commands.
CONSTANTS
    Server = {s1, s2, s3}
    Command = {c1, c2}
    Nil = Nil
    MaxInt32 = 2147483647
    MaxTerm = 2
    MaxLog = 1
    MaxRequests = 2
    MaxCandidates = 2
SPECIFICATION Spec
SYMMETRY Symmetry
VIEW View
INVARIANTS SafetyInv ReplicationInv ElectionSafety LeaderHint StateMachineSafety LeaderCompleteness CommittedOnMajority MatchIndexIsTrue EntryKeyIsUnique
PROPERTIES ImplementsCommittedLog CommittedIsStable LogsOnlyGrow
CHECK_DEADLOCK FALSE
