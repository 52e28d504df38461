\* The comment of queueInLoop: a call from another thread wakes the loop.
SPECIFICATION Spec
CONSTANTS
    Callers = {c1}
    Functions = {f}
    IoCallback = io
    MaxPending = 2
    MaxDepth = 2
    MaxCalls = 1
INVARIANTS QueuedWorkWakesPoll
