\* All calls come from callbacks.
SPECIFICATION FairSpec
CONSTANTS
    SendBuffer = 2
    WorkerOps = {}
    PeerAborts = TRUE
    MaxSend = 4
    MaxReceive = 2
    MaxLen = 3
    MaxQueue = 1
    MaxCalls = 2
INVARIANTS ClosedForGood NoWriteAfterShutdown
PROPERTIES EverythingIsRead OutputDrains ShutDownCompletes LoneCloseIsSeen
\* A connection ends: nothing is left to happen once both sides are done.
CHECK_DEADLOCK FALSE
