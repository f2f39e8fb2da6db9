SPECIFICATION Spec
CONSTANTS
  WordSize = 1
  RawAlign = 2
  MemSize = 14
  Sizes = {0, 1, 3}
  Aligns = {0, 4}
PROPERTY GrowKeepsContents
