\* Clients may store the empty value.
CONSTANTS
  Key <- MCKey
  NoKey = NoKey
  Bytes = {v1, v2}
  Nil = Nil
  Empty = Empty
  Absent = Absent
  NoHash = NoHash
  Prefix <- MCPrefix
  Batch <- MCBatch
  Legacy <- MCNoLegacy
  MaxHeight = 2
  MaxOps = 2
  Raw = {v1, Empty}
SPECIFICATION Spec
INVARIANT Reopenable
