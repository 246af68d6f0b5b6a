\* Four servers, one term: votesNeeded is three, so two candidates can share
\* voters, and a heartbeat makes a voter forget its vote.
CONSTANTS
    Server = {s1, s2, s3, s4}
    Command = {c1}
    Nil = Nil
    MaxInt32 = 2147483647
    MaxTerm = 1
    MaxLog = 0
    MaxRequests = 2
    MaxCandidates = 2
SPECIFICATION Spec
SYMMETRY Symmetry
VIEW View
INVARIANT ElectionSafety
CHECK_DEADLOCK FALSE
