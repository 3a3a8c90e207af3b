CONSTANTS
  Continuation = {k1, k2, k3}
  INITIAL_SIZE = 1
  MaxSize = 4
  TRAP = TRAP
  StackValues = {v1, v2}
  STACK_TABLE_CAPACITY = 2
  MaxItems = 5
  STACK_EMPTY = STACK_EMPTY
  WordBits = 3
  BitmapWords = 3
  SetValues = {1, 2, 3, 4, 6, 8, 9}
  INITIAL_TABLE_LENGTH = 2
  OCCUPATION_THRESHOLD_PERCENT = 65
  MaxLength = 5
  Keys = {0, 1, 2, 3}
  Tables <- MCTables
  Versions <- MCVersions
  MaxCalls = 2
  RawEntries <- MCRawEntries
  MainTypes <- MCMainTypes
  Bytes = {0, 1, 2}
  MaxBytes = 4
  TableLength = 2
  MaxDepth = 3
  Quota = 8
  Literals <- MCLiterals
  MIN_CONCAT_SIZE = 3
  CRUMB_SIZE = 4
  MaxTexts = 3
  Contents = {"", "a", "b"}
  HASH_ARRAY_SIZE = 2
  BucketOf <- MCBucketOf
  EMPTY = ""
  MaxBlobs = 4
  PARTITION_SIZE = 3
  PARTITIONS_PER_TABLE = 4
  PARTITION_TABLE_SIZE = 1
  BITMAP_SIZE = 1
  HEAP_BASE = 1
  MEMORY_CAPACITY = 18
  Sizes = {1, 2, 4, 6}
  RANKING_SIZE = 1
  MaxAllocated = 7
SPECIFICATION MCSpec
CHECK_DEADLOCK FALSE
INVARIANTS
  FreeListComplete
  VisitsMarks
  IsTheSet
  Sorted
  TestsAreRight
  CompatibilityIsExact
  ParsedIsWellFormed
  SkipsTheValue
  RopeIsItsBytes
  Deduplicated
  SizesAgree
  MemoryInUse
  AllVisited
PROPERTIES
  ImplementsMap
  RefinesStack
