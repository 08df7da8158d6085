SPECIFICATION Spec
CONSTANTS
  N = 3
  Files = {"x.o", "y.o"}
  Symbols = {"f", "g", "k"}
  Hashes = {"h1", "h2"}
  Parents <- MCParents
  Sources <- MCSources
  None = None
  Torn = Torn
INVARIANTS ParentBuilt Summarised ReusesAll ChangesCounted CallsCounted
CHECK_DEADLOCK FALSE
