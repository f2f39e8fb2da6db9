SPECIFICATION MCSpec
CONSTANTS
  k1 = k1
  k2 = k2
  k3 = k3
  Key = {k1, k2, k3}
  Value = {v, w}
  None = none
  Hash <- MCHash
  InitialCaps = {0, 4}
  MinCapacity = 4
  MaxCapacity = 8
  OOM = TRUE
  ListKey = {1, 2, 3, 4}
  MaxLevel = 3
INVARIANTS
  PairsReachable
  LengthCounts
  ProbesEnd
  TowersLinked
PROPERTIES
  ImplementsMap
  ListImplementsMap
