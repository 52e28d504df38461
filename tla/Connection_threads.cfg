\* The other thread calls everything it can, the peer may reset.
SPECIFICATION Spec
CONSTANTS
    SendBuffer = 1
    WorkerOps = {"send", "shutDown", "forceClose"}
    PeerAborts = TRUE
    MaxSend = 3
    MaxReceive = 1
    MaxLen = 2
    MaxQueue = 2
    MaxCalls = 1
INVARIANTS WriteInterest
PROPERTIES ByteStreamSpec ShutDownLosesNothing
\* A connection ends: nothing is left to happen once both sides are done.
CHECK_DEADLOCK FALSE
