\* Two namespaces, lists of up to two operations, chains of three blocks.
CONSTANTS
  Key <- MCKey
  NoKey = NoKey
  Bytes = {v1, v2}
  Nil = Nil
  Empty = Empty
  Absent = Absent
  NoHash = NoHash
  Prefix <- MCPrefix
  Batch <- MCBatch
  Legacy <- MCLegacy
  MaxHeight = 3
  MaxOps = 2
  Raw = {v1, Nil}
SPECIFICATION Spec
INVARIANTS
  TypeOK
  ChainVerifies
  TimeTravel
  NoOpFree
  RestartTransparent
  Reopenable
  SuppressionMatchesLoop
PROPERTY HistoryImmutable
