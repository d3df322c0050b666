\* One page and one place, so that a connection that lingers turns the page
\* away; broadcasts from the ticker and a request.
SPECIFICATION FairSpec
CONSTANTS
    Pages = {p1}
    Conns = {c1, c2}
    Requests = {r1}
    Ticker = t
    None = None
    MaxClients = 1
    BufCap = 1
    QueueCap = 1
    MaxVersion = 2
    MaxBreaks = 1
INVARIANTS
    ClientsAreServed
CHECK_DEADLOCK FALSE
PROPERTIES
    BroadcastNeverBlocks
    AttachedPageSettles
    PageComesBack
