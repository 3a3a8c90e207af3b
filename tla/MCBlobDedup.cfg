CONSTANTS
    Contents = {"", "a", "b", "c"}
    HASH_ARRAY_SIZE = 2
    BucketOf <- MCBucketOf
    EMPTY = ""
    MaxBlobs = 4
SPECIFICATION DedupSpec
CHECK_DEADLOCK FALSE
INVARIANT PruneEnds
