\* Five keys: trees of every size from none to five leaves.
CONSTANTS
  Key = {1, 2, 3, 4, 5}
  NulKey = {2}
  v1 = v1
  v2 = v2
  Value <- MCValue
  EntryBytes <- MCEntryBytes
  Absent = Absent
SPECIFICATION Spec
INVARIANTS
  ProofsVerify
  ProofsBind
  RootDeterminesState
