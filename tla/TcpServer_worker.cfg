\* The worker shuts a connection down and drops its shared_ptr.
SPECIFICATION Spec
CONSTANTS
    ThreadNum = 1
    Kept = {}
    KeptOps = {}
    WorkerOps = {"shutDown"}
    CrossOps = {}
    MaxConns = 1
    MaxPending = 2
INVARIANTS FunctionObjectAlive
