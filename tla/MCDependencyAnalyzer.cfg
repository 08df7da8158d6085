SPECIFICATION Spec
CONSTANTS
  Symbols = {a, b, c}
  Hashes = {h1, h2}
  CallGraphs <- AllCallGraphs
SYMMETRY Symmetry
INVARIANTS ImpactedExact UnimpactedUnchanged FakeExact
CHECK_DEADLOCK FALSE
