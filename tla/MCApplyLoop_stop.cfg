\* Shutdown while committed entries still wait for the channel.
CONSTANTS
    ApplyBuffer = 1
    MaxCommit = 2
SPECIFICATION Spec
PROPERTY LoopStopsOnShutdown
CHECK_DEADLOCK FALSE
