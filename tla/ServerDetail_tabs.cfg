SPECIFICATION Spec
CONSTANTS
  Servers = {s1, s2}
  Texts = {t1, t2}
  Blank = Blank
  MaxJobs = 2
  MaxRows = 2
  MaxReqs = 2
  Pids = {1}
  MaxProcs = 2
  Protected = {2}
  MaxKills = 1
  MaxTabs = 1
  Slips = {"recycled"}
SYMMETRY Symmetry
INVARIANTS PageMatchesCrontab ErrorsStayWithTheirRow ProtectedIsNeverSignalled KilledRowsGo
PROPERTY OperationsHitTheirEntry
