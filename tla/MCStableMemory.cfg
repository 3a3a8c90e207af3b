CONSTANTS
  zero = zero
  w1 = w1
  w2 = w2
  w3 = w3
  w4 = w4
  Zero = zero
  PagesInBlock = 2
  MetaPages = 1
  MaxBlocks = 3
  LastReserved = 1
  MaxStablePages = 9
  U16 = 8
  U32Pages = 16
  Legacy <- MCLegacy
  RegionIds = {2, 3}
  Srcs <- MCSrcs
  Heaps <- MCHeaps
  RootSets <- MCRootSets
  PageCells = 6
  RecordCells = 2
  DescriptorSizes = {1, 3}
  RawPages = {0, 1}
  SparePages = {0, 2}
  SliceIncrement = 1
  ClearChunk = 4
SPECIFICATION MCFairSpec
CHECK_DEADLOCK FALSE
INVARIANTS
  Recoverable
  LoadsContent
  CheneyInvariant
  SameGraph
  StableRestored
PROPERTIES
  RefinesPages
  UpgradeCompletes
