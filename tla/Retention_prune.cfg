\* Two writers, two names in each directory, four writes, limits -1 and 1.
CONSTANTS
  Writer = {w1, w2}
  Limits <- PruneLimits
  MaxNames = 2
  MaxTime = 4
SYMMETRY Writers
SPECIFICATION Spec
INVARIANTS
  FinalWhole
  RetainsNewest
