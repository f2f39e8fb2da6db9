SPECIFICATION Spec
CONSTANTS
  k1 = k1
  k2 = k2
  k3 = k3
  Key = {k1, k2, k3}
  Value = {v, w}
  None = none
  Hash <- MCHash
  InitialCaps = {0, 4}
  MinCapacity = 4
  MaxCapacity = 8
  OOM = TRUE
INVARIANT UsedHoldsValue
