\* Two loops and the wheels; more clients than descriptors.
SPECIFICATION FairSpec
CONSTANTS
    ThreadNum = 2
    TimerWheelsEnabled = TRUE
    Descriptors = 2
    MaxClients = 4
    MaxOpens = 1
    MaxErrors = 1
INVARIANTS LoopsExist Balanced
PROPERTIES StartEnds ClientsAreTaken JoinEnds
\* The server may be destroyed, or wait for a thread that was never created.
CHECK_DEADLOCK FALSE
