\* Calls one at a time: one reconnect, triggers, a removal.
SPECIFICATION FairSpec
CONSTANTS
    Callers = {c1}
    MaxLoops = 2
    Conns = {k1, k2}
    None = None
    MaxAttempts = 2
    Threshold = 1
INVARIANTS
    OneLiveLoop
    RemovedMeansStopped
PROPERTIES
    CancelledLoopEnds
CHECK_DEADLOCK FALSE
