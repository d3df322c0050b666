\* A reliable store, one client and one crash: what is told and what must end.
SPECIFICATION FairSpec
CONSTANTS
    Runs = {r1, r2}
    Servers = {s1}
    Clients = {c1}
    NoRun = NoRun
    OutCap = 0
    PipeCap = 1
    MaxCrashes = 1
    StoreMayFail = FALSE
CHECK_DEADLOCK FALSE
INVARIANTS
    IdleServiceAcceptsDispatch
    VerdictStoredBeforeSent
PROPERTIES
    CancelEndsRun
    StaleRunIsFinalized
    VerdictIsLastEvent
