SPECIFICATION MCSpec
CONSTANTS
  BucketSize = 4
  NumClasses = 3
  Sizes = {1, 2, 4, 5}
  Aligns = {2}
  MaxRegions = 4
  HeaderSize = 3
  DataOffset = 2
  SlabSize = 4
  DefaultCount = 2
  Bases = {0, 1}
  MaxSlabs = 2
  SlabSizes = {0, 1, 3, 5}
  SlabAligns = {0, 2}
INVARIANTS
  ListsLinked
  SlotsAreBlocks
  NothingHoarded
  BlocksInRuns
  RunsAccounted
PROPERTY AreAllocators
