SPECIFICATION Spec
CONSTANTS
  Servers = {s1}
  Members = {s1}
  Slots = {w1, w2}
  NoSocket = NoSocket
  MaxRuns = 2
  MaxOut = 1
  MaxReqs = 1
  Followed = {}
INVARIANTS DoneIsExact SocketIsOfShownRun
PROPERTY RunEndIsShown
