SPECIFICATION Spec
CONSTANTS
  N = 3
  Parents <- MCParents
  Histories <- MCHistories
  Diffs <- MCDiffs
  Broken = Broken
  None = None
INVARIANTS SameCommits LocalExact GlobalExact CallGraphCovers
CHECK_DEADLOCK FALSE
