\* Automatic operation with the limits of the code: one loop, two triggers.
\* No symmetry: progress is checked too.
SPECIFICATION FairSpec
CONSTANTS
    Callers = {c1, c2}
    MaxLoops = 1
    Conns = {k1, k2}
    None = None
    MaxAttempts = 5
    Threshold = 3
INVARIANTS
    ReplacedTransportIsClosed
    ConnectedIsTended
PROPERTIES
    LostConnectionHeals
    ReconnectingResolves
CHECK_DEADLOCK FALSE
