SPECIFICATION Spec
CONSTANTS
  Names = {n1, n2}
  Hosts = {h1, h2}
  Groups = {g1}
  Kinds = {"add", "card", "page"}
  Blank = Blank
  NoGroup = NoGroup
  NoKey = NoKey
  Absent = Absent
  MaxTests = 1
  MaxSaves = 1
  MaxServers = 2
  Slips = {"rival"}
INVARIANTS KeyBelongsToHost
PROPERTY UntouchedGroupIsKept
SYMMETRY Symmetry
