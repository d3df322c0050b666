\* Two Syncs that overlap at will while servers come and go.
SPECIFICATION Spec
CONSTANTS
    Servers = {s1, s2}
    Syncers = {y1, y2}
    Collectors = {k1, k2}
    None = None
    Threshold = 2
    ListMayFail = TRUE
SYMMETRY Symmetry
PROPERTIES
    SyncIsExact
    OneTriggerPerOutage
CHECK_DEADLOCK FALSE
