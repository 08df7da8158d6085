SPECIFICATION Spec
CONSTANTS
  Objs = {o1, o2}
  Versions = {1, 2}
  Hashes = {"h1", "h2"}
  Codes = {"c1", "c2"}
  Inodes = {i1, i2, i3, i4, i5}
  TUHash <- MCTUHash
  Code <- MCCode
  FrontErrs = {}
  CacheDir = TRUE
  Faults = {"crash"}
  MaxEdits = 2
  MaxFaults = 1
  NoFile = NoFile
  Torn = Torn
SYMMETRY InodeSymmetry
INVARIANTS TypeOK CopySound ServedNotWrong
CHECK_DEADLOCK FALSE
