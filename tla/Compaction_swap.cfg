\* One compaction, and one process that may start in the middle of it.
CONSTANTS
  Proc = {p1}
  Compactor = {c1}
  NoDir = NoDir
  MaxBlocks = 2
  MaxFaults = 2
SPECIFICATION Spec
INVARIANT HistoryOnDisk
