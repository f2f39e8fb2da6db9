SPECIFICATION Spec
CONSTANTS
  HeaderSize = 4
  DataOffset = 6
  ChunkSize = 12
  Sizes = {0, 1, 9}
  Aligns = {0, 2}
  MaxChunks = 2
INVARIANTS
  WithinChunk
  HeadersIntact
  PopIsSafe
PROPERTY ImplementsContract

