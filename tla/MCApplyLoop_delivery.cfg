\* Bursts of commits through a short channel, and Close.
CONSTANTS
    ApplyBuffer = 2
    MaxCommit = 5
SPECIFICATION Spec
INVARIANTS TypeOK ReceivedInOrder SignalIsKept
PROPERTY CommittedIsReceived
CHECK_DEADLOCK FALSE
