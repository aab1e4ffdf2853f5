SPECIFICATION CacheSpec
CONSTANTS
  Workers = {w1, w2, w3}
  Keys = {k1, k2, k3}
  NoKey = NoKey
SYMMETRY MCSymmetry
INVARIANTS
  SleeperHasBuilder
  BuildingHasBuilder
  VmOfItsSeed
