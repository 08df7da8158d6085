SPECIFICATION FairSpec
CONSTANTS
  Objs = {o1, o2}
  Versions = {1}
  Hashes = {"h1", "h2"}
  Codes = {"c1", "c2"}
  Inodes = {i1, i2, i3, i4}
  TUHash <- MCTUHash
  Code <- MCCode
  FrontErrs = {}
  CacheDir = TRUE
  Faults = {"crash", "backend", "syscall"}
  MaxEdits = 1
  MaxFaults = 1
  NoFile = NoFile
  Torn = Torn
PROPERTIES Converges
CHECK_DEADLOCK FALSE
