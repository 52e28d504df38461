\* Two other threads, calls from callbacks, nested runInLoop.
SPECIFICATION FairSpec
CONSTANTS
    Callers = {c1, c2}
    Functions = {f, g}
    IoCallback = io
    MaxPending = 3
    MaxDepth = 2
    MaxCalls = 2
INVARIANTS IInv
PROPERTIES ExecutorSpec EveryFunctionRuns KeepsPolling QuitEndsLoop
