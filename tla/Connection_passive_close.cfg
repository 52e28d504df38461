\* The passive close of the notes, without any sending.
SPECIFICATION FairSpec
CONSTANTS
    SendBuffer = 2
    WorkerOps = {}
    PeerAborts = FALSE
    MaxSend = 0
    MaxReceive = 2
    MaxLen = 1
    MaxQueue = 1
    MaxCalls = 0
PROPERTIES PassiveCloseIsSeen
\* A connection ends: nothing is left to happen once both sides are done.
CHECK_DEADLOCK FALSE
