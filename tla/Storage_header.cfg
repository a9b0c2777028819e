\* A crash may cut an append right behind the frame header.
CONSTANTS
  SegmentSize = 4
  Sizes = {2}
  FailLeft = {"none", "rec"}
  CrashLeft = {"none", "torn", "hdr", "rec"}
  ReadErrors = FALSE
  MaxBlocks = 3
  MaxFaults = 2
SPECIFICATION Spec
INVARIANT Durability
