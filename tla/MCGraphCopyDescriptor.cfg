SPECIFICATION CopySpec
CONSTANTS
  Heaps <- MCHeaps
  RootSets <- MCRootSets
  PageCells = 6
  RecordCells = 2
  DescriptorSizes = {1, 3, 4}
  RawPages = {0, 1}
  SparePages = {0, 2}
  SliceIncrement = 1
  ClearChunk = 4
INVARIANTS DescriptorSurvives
CHECK_DEADLOCK FALSE
