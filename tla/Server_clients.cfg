\* Two writers and an SDK client, two requests each, two attempts at each.
CONSTANTS
  Key <- MCServedKeys
  NoKey = NoKey
  Bytes = {v1}
  Nil = Nil
  Empty = Empty
  Absent = Absent
  NoHash = NoHash
  Prefix <- MCServedPrefix
  Batch <- MCPosted
  Legacy = {}
  MaxHeight = 3
  Client = {alice, bob, carol}
  Sdk = {carol}
  Garbled = Garbled
  MaxRequests = 3
  MaxTries = 2
SYMMETRY Writers
SPECIFICATION ServerSpec
INVARIANTS
  AnswerStands
  DuplicateSuppressed
  StatusNamesBlock
