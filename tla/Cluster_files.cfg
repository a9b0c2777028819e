\* Two processes, two nodes, two initialisations, terms up to 3, two faults.
CONSTANTS
  Proc = {p1, p2}
  NodeCount = 2
  Node <- MCNode
  NoFile = NoFile
  Blank = Blank
  Torn = Torn
  MaxTerm = 3
  MaxInits = 2
  MaxFaults = 2
SYMMETRY Operators
SPECIFICATION Spec
CHECK_DEADLOCK FALSE
INVARIANTS
  TypeOK
  ConfigReadable
  ElectionsHold
