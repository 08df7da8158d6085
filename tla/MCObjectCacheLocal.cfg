SPECIFICATION Spec
CONSTANTS
  Objs = {o1, o2}
  Versions = {1, 2, 3}
  Hashes = {"h1", "h2"}
  Codes = {"c1", "c2"}
  Inodes = {i1, i2, i3, i4, i5}
  TUHash <- MCTUHash
  Code <- MCCode
  FrontErrs = {}
  CacheDir = FALSE
  Faults = {}
  MaxEdits = 2
  MaxFaults = 0
  NoFile = NoFile
  Torn = Torn
SYMMETRY InodeSymmetry
INVARIANTS Served UpToDate RebuildSkips
PROPERTIES Isolation ImplementsCompiler
CHECK_DEADLOCK FALSE
