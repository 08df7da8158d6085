SPECIFICATION Spec
CONSTANTS
  Objs = {o1}
  Versions = {1, 2}
  Hashes = {"h1", "h2"}
  Codes = {"c1", "c2"}
  Inodes = {i1, i2, i3}
  TUHash <- MCTUHash
  Code <- MCCode
  FrontErrs = {}
  CacheDir = FALSE
  Faults = {"backend"}
  MaxEdits = 2
  MaxFaults = 1
  NoFile = NoFile
  Torn = Torn
INVARIANTS Served
CHECK_DEADLOCK FALSE
