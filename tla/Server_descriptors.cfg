\* One loop and one descriptor, which the first client takes.
SPECIFICATION FairSpec
CONSTANTS
    ThreadNum = 1
    TimerWheelsEnabled = FALSE
    Descriptors = 1
    MaxClients = 2
    MaxOpens = 0
    MaxErrors = 0
PROPERTIES AcceptLoopEnds
CHECK_DEADLOCK FALSE
