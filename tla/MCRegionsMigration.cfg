SPECIFICATION Spec
CONSTANTS
  zero = zero
  w1 = w1
  w2 = w2
  w3 = w3
  w4 = w4
  Zero = zero
  PagesInBlock = 2
  MetaPages = 1
  MaxBlocks = 3
  LastReserved = 1
  MaxStablePages = 9
  U16 = 8
  U32Pages = 4
  Legacy <- MCLegacy
  RegionIds = {2, 3}
  Srcs <- MCSrcs
PROPERTIES
  MigrationKeepsData
