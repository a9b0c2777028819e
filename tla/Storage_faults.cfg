\* Frames of 2, 3 and 5 in segments of 4 (one never fits), three blocks, four
\* crashes or I/O errors of any kind.
CONSTANTS
  SegmentSize = 4
  Sizes = {2, 3, 5}
  FailLeft = {"none", "torn", "hdr", "rec"}
  CrashLeft = {"none", "torn", "hdr", "rec"}
  ReadErrors = TRUE
  MaxBlocks = 3
  MaxFaults = 4
SPECIFICATION FairSpec
INVARIANTS
  TypeOK
  ServedDurable
  LogAnchored
PROPERTIES
  ImplementsLedger
  Recovers
