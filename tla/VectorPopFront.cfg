SPECIFICATION Spec
CONSTANTS
  Elem = {e1, e2, e3}
  None = none
  InitialCaps = {0, 4}
  MaxCapacity = 4
  OOM = FALSE
  MaxFront = 3
INVARIANT PoppedIsGone
