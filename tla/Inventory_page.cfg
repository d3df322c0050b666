SPECIFICATION MCSpec
CONSTANTS
  Servers = {s1}
  Groups = {"a", "b"}
  Names = {"a", "b"}
  None = "none"
  MaxTasks = 1
  MaxSteps = 2
  Slips = {}
INVARIANTS SettledPageIsTrue FilterIsNotDangling
PROPERTIES PageCatchesUp
