SPECIFICATION Spec
CONSTANTS
  M = 4
  Files = {f1, f2}
  Slices <- MCSlices
  MaxRuns = 2
SYMMETRY FileSymmetry
INVARIANTS SliceHashed RecordsHaveInfos
CHECK_DEADLOCK FALSE
