SPECIFICATION Spec
CONSTANTS
  Pages = {p1, p2}
  Passwords = {w1, w2}
  None = None
  MaxFails = 2
  MaxCalls = 4
  MaxSids = 3
  Editable = {"port"}
  Slips = {}
SYMMETRY Symmetry
INVARIANTS LockedForCause SessionsEndWithTheirPassword RestartIsAnnounced
PROPERTY OnlyEditsAreSaved
CHECK_DEADLOCK FALSE
