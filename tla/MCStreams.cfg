SPECIFICATION MCSpec
CONSTANTS
  Zero = zero
  Byte = {a, b}
  None = none
  Garbage = garbage
  BufferSizes = {0, 2}
  MaxSlice = 3
  MaxPos = 4
  Faults = {"oom", "write", "read", "seek"}
  Capacities = {0, 2}
  OOM = TRUE
INVARIANTS
  ReadsAhead
  NoGaps
PROPERTIES
  SeekCountsBuffer
  ImplementsByteStream
  CallsEnd
  MemImplementsByteStream
CHECK_DEADLOCK FALSE
