---------------------------- MODULE MCStructures ----------------------------
(* The data structures, the partitioned heap and the codecs of the runtime  *)
(* system beside each other: a behaviour is of the one that the initial     *)
(* state picks.                                                             *)
(* Partitions of three units (MCStructures.cfg) can be full, evacuated with *)
(* one or two units live, and be the exact multiple of a large object.      *)
EXTENDS ContinuationTable, BlobDedup, MarkStack, MarkBitmap, RememberedSet, PartitionSort,
        PartitionedHeap, MCCandidTypes

CONSTANTS Tables, Versions, MaxCalls,
          RawEntries, MainTypes, Bytes, MaxBytes, TableLength, MaxDepth, Quota,
          Literals, MIN_CONCAT_SIZE, CRUMB_SIZE, MaxTexts

VARIABLES structure,
          typtbl1, typtbl2, rel, results,
          extended, typtbl, parsed, main, data, skipped,
          texts, iter, produced

CS == INSTANCE CandidSubtyping
CD == INSTANCE CandidDecoding
TR == INSTANCE TextRope

ASSUME ConstantsOfDedup == DedupConstants
ASSUME ConstantsOfStack == StackConstants

\* The texts of programs: ASCII and longer code points.
MCLiterals == {<<>>, <<97>>, <<97, 98>>, <<233>>, <<8364, 98>>}

\* Contents that share a list, and one in the first list of all.
MCBucketOf == [o \in Contents |-> IF o \in {"a", "b"} THEN 1 ELSE 0]

subtypings == <<typtbl1, typtbl2, rel, results>>
decodings == <<extended, typtbl, parsed, main, data, skipped>>
ropes == <<texts, iter, produced>>

MCInit ==
  /\ structure \in {"continuations", "mark stack", "mark bitmap", "remembered set",
                   "sort", "candid types", "candid values", "text", "blobs",
                   "partitioned heap"}
  /\ Init /\ StackInit /\ BitmapInit /\ SetInit /\ SortInit /\ CS!Init /\ CD!Init /\ TR!Init
  /\ DedupInit /\ HeapInit
  /\ structure # "candid values" => extended

MCNext ==
  /\ UNCHANGED structure
  /\ \/ /\ structure = "continuations" /\ Next
        /\ UNCHANGED <<stackVars, bitmapVars, setVars, sortVars, subtypings, decodings, ropes, dedupVars, heapVars>>
     \/ /\ structure = "mark stack" /\ StackNext
        /\ UNCHANGED <<vars, bitmapVars, setVars, sortVars, subtypings, decodings, ropes, dedupVars, heapVars>>
     \/ /\ structure = "mark bitmap" /\ BitmapNext
        /\ UNCHANGED <<vars, stackVars, setVars, sortVars, subtypings, decodings, ropes, dedupVars, heapVars>>
     \/ /\ structure = "remembered set" /\ SetNext
        /\ UNCHANGED <<vars, stackVars, bitmapVars, sortVars, subtypings, decodings, ropes, dedupVars, heapVars>>
     \/ /\ structure = "sort" /\ SortNext
        /\ UNCHANGED <<vars, stackVars, bitmapVars, setVars, subtypings, decodings, ropes, dedupVars, heapVars>>
     \/ /\ structure = "candid types" /\ CS!Next
        /\ UNCHANGED <<vars, stackVars, bitmapVars, setVars, sortVars, decodings, ropes, dedupVars, heapVars>>
     \/ /\ structure = "candid values" /\ CD!Next
        /\ UNCHANGED <<vars, stackVars, bitmapVars, setVars, sortVars, subtypings, ropes, dedupVars, heapVars>>
     \/ /\ structure = "text" /\ TR!Next
        /\ UNCHANGED <<vars, stackVars, bitmapVars, setVars, sortVars, subtypings, decodings, dedupVars, heapVars>>
     \/ /\ structure = "blobs" /\ DedupNext
        /\ UNCHANGED <<vars, stackVars, bitmapVars, setVars, sortVars, subtypings, decodings, ropes, heapVars>>
     \/ /\ structure = "partitioned heap" /\ HeapNext
        /\ UNCHANGED <<vars, stackVars, bitmapVars, setVars, sortVars, subtypings, decodings, ropes, dedupVars>>

MCSpec == MCInit /\ [][MCNext]_<<structure, vars, stackVars, bitmapVars, setVars, sortVars,
                                 subtypings, decodings, ropes, dedupVars, heapVars>>
-----------------------------------------------------------------------------
\* The first subtype test of a message is right, and so is every one that fails,
\* whatever the memo table has (idl.rs sub, bitrel.rs).
TestsAreRight == structure = "candid types" => CS!TestsAreRight

\* The check of an upgrade accepts what memory compatibility allows (idl.rs memory_compatible).
CompatibilityIsExact == structure = "candid types" => CS!CompatibilityIsExact

\* An accepted type table has no dangling reference (idl.rs parse_idl_header).
ParsedIsWellFormed == structure = "candid values" => CD!ParsedIsWellFormed

\* Values are skipped to their ends, and fields found by their tags (idl.rs
\* skip_any, find_field).
SkipsTheValue == structure = "candid values" => CD!SkipsTheValue

\* Ropes are flattened, compared and iterated by their bytes (text.rs, text_iter.rs).
RopeIsItsBytes == structure = "text" => TR!RopeIsItsBytes
=============================================================================
