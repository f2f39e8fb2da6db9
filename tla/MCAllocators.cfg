SPECIFICATION MCSpec
CONSTANTS
  HeaderSize = 2
  HeaderAlign = 2
  Length = 17
  Sizes = {0, 1, 3, 4}
  Aligns = {0, 4}
  WordSize = 1
  WasmPageSize = 16
  WasmHeaderSize = 2
  MinClass = 1
  BigClassCount = 3
  InitialPages = 1
  WasmMaxPages = 4
  MaxBlocks = 3
  WasmSizes = {0, 1, 4, 13}
  WasmAligns = {0, 4}
  RawAlign = 2
  MemSize = 14
  CSizes = {0, 1, 3}
  CAligns = {0, 4}
  PageSize = 2
  MaxPages = 4
  PageSizes = {0, 1, 2, 3}
INVARIANTS
  WithinBuffer
  HeadersIntact
  SlotsApart
  SystemMemoryOwned
PROPERTIES
  ImplementsContract
  AreAllocators
CHECK_DEADLOCK FALSE
