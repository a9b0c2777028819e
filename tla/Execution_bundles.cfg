\* Helpers, bundles of up to three entries and imports, up to three blocks.
CONSTANTS
  Key <- MCAddress
  NoKey = NoKey
  Bytes = {v1, v2}
  Nil = Nil
  Empty = Empty
  Absent = Absent
  NoHash = NoHash
  Prefix <- MCNamespace
  Batch = {}
  Legacy = {}
  MaxHeight = 3
  Lower <- MCLower
  KeyIn <- MCKeyIn
  Rank <- MCRank
  Bundles <- MCBundles
  Helpers <- MCHelpers
  Imports <- MCImports
  BatchSize = 2
  MaxOthers = 1
SPECIFICATION ExecSpec
INVARIANTS
  BundleDecides
  WholeBatches
  RetryConverges
SYMMETRY MCSymmetry
