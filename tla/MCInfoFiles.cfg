SPECIFICATION Spec
CONSTANTS
  Objs = {"o1", "o2"}
  MaxVersion = 2
  Elements <- MCElements
  Functions = {"inline", "function"}
  MaxKills = 1
  None = None
INVARIANTS MostRecent NotMixed DeletionHarmless
CHECK_DEADLOCK FALSE
