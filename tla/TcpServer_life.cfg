\* A base loop and one io loop; the application keeps the second connection.
SPECIFICATION FairSpec
CONSTANTS
    ThreadNum = 1
    Kept = {2}
    KeptOps = {"send", "shutDown"}
    WorkerOps = {"forceClose"}
    CrossOps = {}
    MaxConns = 2
    MaxPending = 1
INVARIANTS ActiveChannelsAlive FunctionObjectAlive MapHoldsOpen DestroyedUnregistered
PROPERTIES ClosedIsDestroyed
