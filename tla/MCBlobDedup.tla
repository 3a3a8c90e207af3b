---------------------------- MODULE MCBlobDedup ----------------------------
EXTENDS BlobDedup

\* Contents that share a list, one in the first list of all, and the empty one.
MCBucketOf == [o \in Contents |-> IF o \in {"a", "b", "c"} THEN 1 ELSE 0]
=============================================================================
