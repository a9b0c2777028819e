\* Two compactions and another process, started at any time.
CONSTANTS
  Proc = {p1}
  Compactor = {c1, c2}
  NoDir = NoDir
  MaxBlocks = 3
  MaxFaults = 1
SYMMETRY Interchangeable
SPECIFICATION Spec
INVARIANTS
  TypeOK
  Exclusive
  AlwaysVerifies
  HistoryInPlace
