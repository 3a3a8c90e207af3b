------------------------------ MODULE BlobDedup ------------------------------
(***************************************************************************)
(* The deduplication of the blobs that a canister receives (@dedup of      *)
(* prelude/internals.mo, BlobIterator of prelude/prim.mo): a table with a  *)
(* list of weak references for each hash value, whose targets the          *)
(* collector may take at any time.  Entries of dead blobs stay until the   *)
(* program confirms them.                                                  *)
(*                                                                         *)
(* A blob is an object with a content, what follows its five magic bytes.  *)
(* The last element of each list, with the empty content and no reference, *)
(* is left out: a list has at least that one.                              *)
(***************************************************************************)
EXTENDS Naturals, Sequences, SequencesExt, FiniteSets

CONSTANTS Contents,      \* what blobs contain after the magic bytes
          HASH_ARRAY_SIZE,
          BucketOf,      \* the hash of a content, a number below that size
          EMPTY,         \* the content of the last element of a list
          MaxBlobs       \* bound on the blobs received

VARIABLES dedup_table,   \* entries by hash, or <<>> before it is created
          content,       \* the content of each blob that was received
          held,          \* blobs that the program can access
          endless        \* history: pruneDeadBlobs of a dead blob did not end

dedupVars == <<dedup_table, content, held, endless>>

Blobs == 1 .. MaxBlobs
CLEARED == 0

Buckets == 0 .. HASH_ARRAY_SIZE - 1

DedupConstants == /\ HASH_ARRAY_SIZE \in Nat /\ MaxBlobs \in Nat
                  /\ BucketOf \in [Contents -> Buckets]

\* An entry of an original with its weak reference.
DedupEntry == [originalBlob : Contents, ref : Blobs \cup {CLEARED}]
Dead(entry) == entry.ref = CLEARED
-----------------------------------------------------------------------------
\* mutant: the new entry is behind the ones that are there
addToHashArray_last(hashArray, o, b) ==
  [hashArray EXCEPT ![BucketOf[o]] = @ \o <<[originalBlob |-> o, ref |-> b]>>]

\* addToList, addToHashArray: the new entry is the first of its list.
addToHashArray(hashArray, o, b) ==
  [hashArray EXCEPT ![BucketOf[o]] = <<[originalBlob |-> o, ref |-> b]>> \o @]

\* getFromHashArray: the first entry of the original, 0 if there is none.
getFromHashArray(hashArray, o) ==
  SelectInSeq(hashArray[BucketOf[o]], LAMBDA entry : entry.originalBlob = o)

NewTable == [k \in Buckets |-> <<>>]

\* @dedup of a blob just received: the blob that is there already, if it is alive.
dedup(o) ==
  LET hashArray == IF dedup_table = <<>> THEN NewTable ELSE dedup_table
      b     == Len(content) + 1
      found == getFromHashArray(hashArray, o)
      ref   == IF found = 0 THEN CLEARED ELSE hashArray[BucketOf[o]][found].ref
  IN  /\ b \in Blobs
      /\ content' = Append(content, o)
      /\ IF ref # CLEARED
         THEN held' = held \cup {ref} /\ dedup_table' = hashArray
         ELSE held' = held \cup {b} /\ dedup_table' = addToHashArray(hashArray, o, b)
      /\ UNCHANGED endless

\* The program forgets a blob.
Drop(b) == /\ b \in held /\ held' = held \ {b}
           /\ UNCHANGED <<dedup_table, content, endless>>

\* The end of marking: references to unmarked blobs are cleared.  What the program
\* has dropped since the marking started is still marked.
Collect(unmarked) ==
  /\ dedup_table # <<>> /\ unmarked # {} /\ unmarked \cap held = {}
  /\ dedup_table' = [k \in Buckets |-> [i \in DOMAIN dedup_table[k] |->
       IF dedup_table[k][i].ref \in unmarked THEN [dedup_table[k][i] EXCEPT !.ref = CLEARED]
                                             ELSE dedup_table[k][i]]]
  /\ UNCHANGED <<content, held, endless>>
-----------------------------------------------------------------------------
\* isBlobLive: what the first entry of the original says.
isBlobLive(o) ==
  /\ dedup_table # <<>>
  /\ LET found == getFromHashArray(dedup_table, o)
     IN  found # 0 /\ ~Dead(dedup_table[BucketOf[o]][found])

\* getDeadBlobFromListNode for all elements of a list.
DeadOf(list) == {list[i].originalBlob : i \in {j \in DOMAIN list : Dead(list[j])}}

\* getDeadBlobs: as many blobs as there are dead entries.  The first call of
\* nextDeadBlob has no list, and goes on to the second one; the calls for the
\* entries in the first list return the empty blob.
getDeadBlobs ==
  IF dedup_table = <<>> THEN {}
  ELSE UNION {DeadOf(dedup_table[k]) : k \in Buckets \ {0}}
       \cup {EMPTY : o \in DeadOf(dedup_table[0])}

pruneFirstElement(list, o) == list # <<>> /\ Dead(list[1]) /\ list[1].originalBlob = o

\* The first dead entry behind the first one: findLoop stays there.
FirstDead(list) == SelectInSubSeq(list, 2, Len(list), Dead)

\* findLoop ends if there is none, or if it is the one that is looked for.  A message
\* that does not end traps.
findLoopEnds(list, o) ==
  \/ pruneFirstElement(list, o) \/ FirstDead(list) = 0
  \/ list[FirstDead(list)].originalBlob = o

PruneList(list, o) ==
  IF pruneFirstElement(list, o) THEN Tail(list)
  ELSE IF FirstDead(list) = 0 THEN list ELSE RemoveAt(list, FirstDead(list))

\* pruneDeadBlobs of one blob that the program confirms to be dead.
pruneDeadBlobs(o) ==
  /\ dedup_table # <<>>
  /\ LET list == dedup_table[BucketOf[o]]
     IN  IF findLoopEnds(list, o)
         THEN /\ dedup_table' = [dedup_table EXCEPT ![BucketOf[o]] = PruneList(list, o)]
              /\ UNCHANGED endless
         ELSE endless' = (endless \/ o \in DeadOf(list)) /\ UNCHANGED dedup_table
  /\ UNCHANGED <<content, held>>
-----------------------------------------------------------------------------
DedupInit == dedup_table = <<>> /\ content = <<>> /\ held = {} /\ endless = FALSE

DedupNext == \/ \E o \in Contents : dedup(o) \/ pruneDeadBlobs(o)
        \/ \E b \in Blobs : Drop(b)
        \/ \E unmarked \in SUBSET (Blobs \ held) : Collect(unmarked)

DedupSpec == DedupInit /\ [][DedupNext]_dedupVars
-----------------------------------------------------------------------------
DedupTypeOK == /\ dedup_table = <<>> \/ dedup_table \in [Buckets -> Seq(DedupEntry)]
          /\ content \in Seq(Contents) /\ Len(content) <= MaxBlobs
          /\ held \subseteq 1 .. Len(content) /\ endless \in BOOLEAN

\* The program never has two blobs of the same content, whatever the collector and
\* the pruning have removed in between (internals.mo @dedup), and each one that it
\* has is found alive (prim.mo isBlobLive); a dead entry is reported by getDeadBlobs,
\* unless it is in the first list.
Deduplicated ==
  /\ \A a, b \in held : content[a] = content[b] => a = b
  /\ \A b \in held : isBlobLive(content[b])
  /\ dedup_table # <<>> =>
       \A k \in Buckets \ {0} : DeadOf(dedup_table[k]) \subseteq getDeadBlobs

\* prim.mo: "For each element in the confirmedDeadBlobs array, we check if it is in
\* the hash array. If it is, and if the corresponding WeakRef is null, we remove the
\* whole list node".  For a dead blob, the check comes to an end.
PruneEnds == ~endless
=============================================================================
