SPECIFICATION FairSpec
CONSTANTS
  N = 3
  Threads = 2
  CanRaise = TRUE
  None = None
INVARIANTS Delivered Verdict TapAgrees
PROPERTIES EndsUnlessRaised
CHECK_DEADLOCK FALSE
