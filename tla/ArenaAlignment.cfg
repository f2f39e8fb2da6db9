SPECIFICATION Spec
CONSTANTS
  HeaderSize = 4
  DataOffset = 6
  ChunkSize = 12
  Sizes = {1}
  Aligns = {4}
  MaxChunks = 1
INVARIANT AddressAligned
