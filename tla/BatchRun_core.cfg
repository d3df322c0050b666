\* Two runs on two servers, a crash, and a store whose calls fail at will.
SPECIFICATION Spec
CONSTANTS
    Runs = {r1, r2}
    Servers = {s1, s2}
    Clients = {}
    NoRun = NoRun
    OutCap = 0
    PipeCap = 0
    MaxCrashes = 1
    StoreMayFail = TRUE
SYMMETRY Symmetry
CHECK_DEADLOCK FALSE
INVARIANTS
    SerializedExecution
    NoStrandedSession
PROPERTIES
    VerdictIsFinal
    CancelTakesPrecedence
    RefinesContract
