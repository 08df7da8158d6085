SPECIFICATION Spec
CONSTANTS
  Decls = {f, g, x, y}
  Null = Null
SYMMETRY Symmetry
INVARIANTS OnlyOwnUses PlainUsesRecorded
CHECK_DEADLOCK FALSE
