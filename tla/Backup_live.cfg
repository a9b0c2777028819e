\* Five blocks, three crashes or I/O errors, any number of backups.
CONSTANTS
  NoBlock = NoBlock
  Rejected = Rejected
  MaxBlocks = 5
  MaxFaults = 3
SPECIFICATION Spec
INVARIANTS
  TypeOK
  ReplicaOfSource
  RestoreOpens
