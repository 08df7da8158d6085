SPECIFICATION FairSpec
CONSTANTS
  a = a
  b = b
  Names <- MCNames
  Symbols <- MCSymbols
  Graphs <- AllGraphs
INVARIANTS DefinitionCovers NoFalseDependence EveryHashCovers
PROPERTIES Answered
CHECK_DEADLOCK FALSE
