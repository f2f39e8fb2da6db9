SPECIFICATION Spec
CONSTANTS
  Zero = zero
  Byte = {a, b}
  None = none
  Garbage = garbage
  BufferSizes = {2}
  MaxSlice = 3
  MaxPos = 3
  Faults = {}
INVARIANT TellIsPosition
