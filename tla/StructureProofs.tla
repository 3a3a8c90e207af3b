-------------------------- MODULE StructureProofs --------------------------
(***************************************************************************)
(* Proofs about six data structures of the runtime system: the             *)
(* continuation table, for every initial size, memory limit and set of     *)
(* continuations; the mark stack, and the scan stack that has the same     *)
(* code, for every capacity of the tables; the deduplication table, for    *)
(* all hashes, numbers of lists and of blobs; the mark bitmap, for words   *)
(* and bitmaps of any size; the remembered set, for all values, initial    *)
(* lengths and occupation thresholds; the quicksort of the partitions, for *)
(* arrays of any length and any keys.                                      *)
(***************************************************************************)
EXTENDS ContinuationTable, BlobDedup, MarkStack, MarkBitmap, RememberedSet, PartitionSort,
        SequenceTheorems, FiniteSetTheorems, WellFoundedInduction, TLAPS

(***************************************************************************)
(* THE CONTINUATION TABLE.  The inductive invariant is the existence of a  *)
(* free list; each operation transforms the list explicitly: it pops the   *)
(* head, pushes an index, or lists the new half.                           *)
(***************************************************************************)

\* The inductive invariant: the array is well-formed, its unused slots form a
\* free list that starts at FREE_SLOT, and N_CONTINUATIONS counts the others.
TableInv ==
  /\ TypeOK
  /\ \E n \in Nat : \E fl : FreeList(TABLE, FREE_SLOT, fl, n)
  /\ CountIsLive

\* Two arrays hold the same values at the indices of S.
SameOn(S, t, u) == \A i \in S : t.slot[i] = u.slot[i]

\* The slots that create_continuation_table links form a free list.
LEMMA CreateFreeList ==
  LET t  == create_continuation_table
      fl == [a \in 1 .. INITIAL_SIZE |-> a - 1]
  IN /\ IsTable(t)
     /\ t.len = INITIAL_SIZE
     /\ FreeList(t, 0, fl, INITIAL_SIZE)
     /\ Live(t) = {}
<1> DEFINE t == create_continuation_table
           fl == [a \in 1 .. INITIAL_SIZE |-> a - 1]
<1>1. /\ t.len = INITIAL_SIZE
      /\ t = [len |-> t.len, slot |-> t.slot]
      /\ t.slot = [i \in 0 .. INITIAL_SIZE - 1 |-> i + 1]
  BY DEF create_continuation_table
<1>2. IsTable(t)
  BY <1>1, SizeAssumption DEF IsTable, Slots
<1>3. \A i \in Slots(t) : is_scalar(t.slot[i])
  BY <1>1, SizeAssumption, ContinuationAssumption DEF Slots, is_scalar
<1>4. \A i \in Slots(t) : i + 1 \in 1 .. INITIAL_SIZE /\ fl[i + 1] = i
  BY <1>1, SizeAssumption DEF Slots
<1>5. \A a \in 1 .. INITIAL_SIZE :
        t.slot[fl[a]] = IF a = INITIAL_SIZE THEN t.len ELSE fl[a + 1]
  BY <1>1, SizeAssumption
<1>6. \A a, b \in 1 .. INITIAL_SIZE : fl[a] = fl[b] => a = b
  BY SizeAssumption
<1>7. fl \in [1 .. INITIAL_SIZE -> Slots(t)]
  BY <1>1, SizeAssumption DEF Slots
<1>8. 0 = IF INITIAL_SIZE = 0 THEN t.len ELSE fl[1]
  BY SizeAssumption
<1>9. \A i \in Slots(t) :
        is_scalar(t.slot[i]) <=> \E a \in 1 .. INITIAL_SIZE : fl[a] = i
  BY <1>3, <1>4
<1> HIDE DEF t, fl
<1>10. FreeList(t, 0, fl, INITIAL_SIZE)
  BY <1>5, <1>6, <1>7, <1>8, <1>9 DEF FreeList
<1>11. Live(t) = {}
  BY <1>3 DEF Live
<1> QED
  BY <1>1, <1>2, <1>10, <1>11 DEF t, fl

\* Doubling a full table puts exactly the new half on the free list and keeps
\* every continuation at its index.
LEMMA DoubleFreeList ==
  ASSUME NEW t, IsTable(t), t.len # 0,
         NEW n \in Nat, NEW fl, FreeList(t, t.len, fl, n)
  PROVE  LET d == double_continuation_table(t)
             g == [a \in 1 .. t.len |-> t.len + a - 1]
         IN /\ IsTable(d)
            /\ d.len = 2 * t.len
            /\ FreeList(d, t.len, g, t.len)
            /\ Live(d) = Live(t)
            /\ SameOn(Live(t), d, t)
<1> DEFINE d == double_continuation_table(t)
           g == [a \in 1 .. t.len |-> t.len + a - 1]
<1>1. t.len \in Nat /\ t.len > 0
  BY DEF IsTable
<1>2. n = 0
  BY <1>1 DEF FreeList, Slots
<1>3. \A i \in Slots(t) : ~ is_scalar(t.slot[i])
  BY <1>2 DEF FreeList
<1>4. /\ d.len = 2 * t.len
      /\ d = [len |-> d.len, slot |-> d.slot]
      /\ d.slot = [i \in 0 .. 2 * t.len - 1 |->
                     IF i < t.len THEN t.slot[i] ELSE i + 1]
  BY DEF double_continuation_table
<1>5. Slots(d) = 0 .. 2 * t.len - 1 /\ Slots(t) = 0 .. t.len - 1
  BY <1>4 DEF Slots
<1>6. IsTable(d)
  BY <1>1, <1>4, <1>5 DEF IsTable
<1>7. \A i \in Slots(t) : i \in Slots(d) /\ d.slot[i] = t.slot[i]
  BY <1>1, <1>4, <1>5
<1>8. \A i \in Slots(d) \ Slots(t) : d.slot[i] = i + 1 /\ i \in Nat
  BY <1>1, <1>4, <1>5
<1>9. \A i \in Slots(d) : is_scalar(d.slot[i]) <=> i \notin Slots(t)
  BY <1>3, <1>7, <1>8, ContinuationAssumption DEF is_scalar
<1>10. Live(d) = Live(t)
  BY <1>3, <1>7, <1>9 DEF Live
<1>11. g \in [1 .. t.len -> Slots(d)]
  BY <1>1, <1>5
<1>12. \A a, b \in 1 .. t.len : g[a] = g[b] => a = b
  BY <1>1
<1>13. \A a \in 1 .. t.len : d.slot[g[a]] = IF a = t.len THEN d.len ELSE g[a + 1]
  <2> SUFFICES ASSUME NEW a \in 1 .. t.len
               PROVE  d.slot[g[a]] = IF a = t.len THEN d.len ELSE g[a + 1]
    OBVIOUS
  <2>1. g[a] = t.len + a - 1 /\ g[a] \in Slots(d) \ Slots(t)
    BY <1>1, <1>5
  <2>2. d.slot[g[a]] = t.len + a
    BY <1>1, <1>8, <2>1
  <2>3. a # t.len => g[a + 1] = t.len + a
    BY <1>1
  <2> QED
    BY <1>1, <1>4, <2>2, <2>3
<1>14. t.len = IF t.len = 0 THEN d.len ELSE g[1]
  BY <1>1
<1>15. \A i \in Slots(d) : i \notin Slots(t) <=> \E a \in 1 .. t.len : g[a] = i
  <2> SUFFICES ASSUME NEW i \in Slots(d)
               PROVE  i \notin Slots(t) <=> \E a \in 1 .. t.len : g[a] = i
    OBVIOUS
  <2>1. ASSUME i \notin Slots(t) PROVE \E a \in 1 .. t.len : g[a] = i
    <3>1. i - t.len + 1 \in 1 .. t.len /\ g[i - t.len + 1] = i
      BY <1>1, <1>5, <2>1
    <3> QED
      BY <3>1
  <2>2. ASSUME NEW a \in 1 .. t.len, g[a] = i PROVE i \notin Slots(t)
    BY <1>1, <1>5, <2>2
  <2> QED
    BY <2>1, <2>2
<1> HIDE DEF d, g
<1>16. \A i \in Slots(d) : is_scalar(d.slot[i]) <=> \E a \in 1 .. t.len : g[a] = i
  BY <1>9, <1>15
<1>17. FreeList(d, t.len, g, t.len)
  BY <1>11, <1>12, <1>13, <1>14, <1>16 DEF FreeList
<1>18. SameOn(Live(t), d, t)
  BY <1>7 DEF Live, SameOn
<1> QED
  BY <1>4, <1>6, <1>10, <1>17, <1>18 DEF d, g

\* Storing a continuation in the head slot pops it from the free list.
LEMMA PopFreeList ==
  ASSUME NEW t, IsTable(t), NEW head, head # t.len, NEW k \in Continuation,
         NEW n \in Nat, NEW fl, FreeList(t, head, fl, n),
         NEW u, u = set(t, head, k)
  PROVE  /\ IsTable(u)
         /\ u.len = t.len
         /\ head \in Slots(t)
         /\ t.slot[head] \in Nat
         /\ FreeList(u, t.slot[head], [a \in 1 .. n - 1 |-> fl[a + 1]], n - 1)
         /\ n - 1 \in Nat
         /\ head \notin Live(t)
         /\ Live(u) = Live(t) \cup {head}
<1> DEFINE g == [a \in 1 .. n - 1 |-> fl[a + 1]]
<1>1. n \in Nat /\ n > 0 /\ n - 1 \in Nat /\ t.len \in Nat
  BY DEF FreeList, IsTable
<1>2. 1 \in 1 .. n /\ head = fl[1] /\ head \in Slots(t)
  BY <1>1 DEF FreeList
<1>3. is_scalar(t.slot[head]) /\ ~ is_scalar(k)
  BY <1>2 DEF FreeList, is_scalar
<1>4. t.slot[head] \in Nat
  BY <1>2, <1>3 DEF IsTable, is_scalar
<1>5. /\ u.len = t.len
      /\ u = [len |-> u.len, slot |-> u.slot]
      /\ u.slot = [t.slot EXCEPT ![head] = k]
  BY DEF set
<1>6. Slots(u) = Slots(t)
  BY <1>5 DEF Slots
<1>7. /\ u.slot[head] = k
      /\ \A i \in Slots(t) : i # head => u.slot[i] = t.slot[i]
  BY <1>2, <1>5 DEF IsTable
<1>8. IsTable(u)
  BY <1>1, <1>2, <1>5, <1>6 DEF IsTable
<1>9. Live(u) = Live(t) \cup {head} /\ head \notin Live(t)
  BY <1>2, <1>3, <1>6, <1>7 DEF Live
<1>10. \A a \in 1 .. n - 1 : a + 1 \in 1 .. n /\ a + 1 # 1 /\ g[a] = fl[a + 1]
  BY <1>1
<1>11. g \in [1 .. n - 1 -> Slots(u)]
  BY <1>6, <1>10 DEF FreeList
<1>12. \A a, b \in 1 .. n - 1 : g[a] = g[b] => a = b
  BY <1>1, <1>10 DEF FreeList
<1>13. \A a \in 1 .. n - 1 : g[a] # head
  BY <1>2, <1>10 DEF FreeList
<1>14. \A a \in 1 .. n - 1 :
         u.slot[g[a]] = IF a = n - 1 THEN u.len ELSE g[a + 1]
  <2> SUFFICES ASSUME NEW a \in 1 .. n - 1
               PROVE  u.slot[g[a]] = IF a = n - 1 THEN u.len ELSE g[a + 1]
    OBVIOUS
  <2>1. u.slot[g[a]] = t.slot[fl[a + 1]]
    BY <1>6, <1>7, <1>10, <1>11, <1>13
  <2>2. t.slot[fl[a + 1]] = IF a + 1 = n THEN t.len ELSE fl[a + 1 + 1]
    BY <1>10 DEF FreeList
  <2>3. a # n - 1 => a + 1 \in 1 .. n - 1 /\ g[a + 1] = fl[a + 1 + 1]
    BY <1>1
  <2>4. (a + 1 = n) <=> (a = n - 1)
    BY <1>1
  <2> QED
    BY <1>5, <2>1, <2>2, <2>3, <2>4
<1>15. t.slot[head] = IF n - 1 = 0 THEN u.len ELSE g[1]
  <2>1. t.slot[head] = IF 1 = n THEN t.len ELSE fl[1 + 1]
    BY <1>2 DEF FreeList
  <2>2. n - 1 # 0 => 1 \in 1 .. n - 1 /\ g[1] = fl[1 + 1]
    BY <1>1
  <2> QED
    BY <1>1, <1>5, <2>1, <2>2
<1>16. \A i \in Slots(u) : is_scalar(u.slot[i]) <=> \E a \in 1 .. n - 1 : g[a] = i
  <2> SUFFICES ASSUME NEW i \in Slots(t)
               PROVE  is_scalar(u.slot[i]) <=> \E a \in 1 .. n - 1 : g[a] = i
    BY <1>6
  <2>1. CASE i = head
    BY <1>3, <1>7, <1>13, <2>1
  <2>2. CASE i # head
    <3>1. is_scalar(u.slot[i]) <=> \E b \in 1 .. n : fl[b] = i
      BY <1>7, <2>2 DEF FreeList
    <3>2. ASSUME NEW b \in 1 .. n, fl[b] = i PROVE \E a \in 1 .. n - 1 : g[a] = i
      <4>1. b # 1
        BY <1>2, <2>2, <3>2
      <4>2. b - 1 \in 1 .. n - 1 /\ g[b - 1] = fl[b]
        BY <1>1, <4>1
      <4> QED
        BY <3>2, <4>2
    <3>3. ASSUME NEW a \in 1 .. n - 1, g[a] = i PROVE \E b \in 1 .. n : fl[b] = i
      BY <1>10, <3>3
    <3> QED
      BY <3>1, <3>2, <3>3
  <2> QED
    BY <2>1, <2>2
<1> HIDE DEF g
<1>17. FreeList(u, t.slot[head], g, n - 1)
  BY <1>11, <1>12, <1>14, <1>15, <1>16 DEF FreeList
<1> QED
  BY <1>1, <1>2, <1>4, <1>5, <1>8, <1>9, <1>17 DEF g

\* Writing the old head into a recalled slot pushes the slot on the free list.
LEMMA PushFreeList ==
  ASSUME NEW t, IsTable(t), NEW head \in Nat, NEW idx \in Live(t),
         NEW n \in Nat, NEW fl, FreeList(t, head, fl, n),
         NEW u, u = set(t, idx, head)
  PROVE  /\ IsTable(u)
         /\ u.len = t.len
         /\ idx \in Nat
         /\ FreeList(u, idx, [a \in 1 .. n + 1 |-> IF a = 1 THEN idx ELSE fl[a - 1]],
                     n + 1)
         /\ Live(u) = Live(t) \ {idx}
         /\ SameOn(Live(u), u, t)
<1> DEFINE g == [a \in 1 .. n + 1 |-> IF a = 1 THEN idx ELSE fl[a - 1]]
<1>1. t.len \in Nat
  BY DEF IsTable
<1>2. idx \in Slots(t) /\ ~ is_scalar(t.slot[idx]) /\ idx \in Nat
  BY <1>1 DEF Live, Slots
<1>3. is_scalar(head)
  BY ContinuationAssumption DEF is_scalar
<1>4. /\ u.len = t.len
      /\ u = [len |-> u.len, slot |-> u.slot]
      /\ u.slot = [t.slot EXCEPT ![idx] = head]
  BY DEF set
<1>5. Slots(u) = Slots(t)
  BY <1>4 DEF Slots
<1>6. /\ u.slot[idx] = head
      /\ \A i \in Slots(t) : i # idx => u.slot[i] = t.slot[i]
  BY <1>2, <1>4 DEF IsTable
<1>7. IsTable(u)
  BY <1>1, <1>2, <1>4, <1>5 DEF IsTable
<1>8. Live(u) = Live(t) \ {idx}
  BY <1>2, <1>3, <1>5, <1>6 DEF Live
<1>9. \A a \in 1 .. n : fl[a] # idx /\ fl[a] \in Slots(t)
  BY <1>2 DEF FreeList
<1>10. /\ 1 \in 1 .. n + 1 /\ g[1] = idx
       /\ \A a \in 1 .. n + 1 : a # 1 => a - 1 \in 1 .. n /\ g[a] = fl[a - 1]
  OBVIOUS
<1>11. g \in [1 .. n + 1 -> Slots(u)]
  BY <1>2, <1>5, <1>9, <1>10
<1>12. \A a, b \in 1 .. n + 1 : g[a] = g[b] => a = b
  <2> SUFFICES ASSUME NEW a \in 1 .. n + 1, NEW b \in 1 .. n + 1, g[a] = g[b]
               PROVE  a = b
    OBVIOUS
  <2>1. CASE a = 1 \/ b = 1
    BY <1>9, <1>10, <2>1
  <2>2. CASE a # 1 /\ b # 1
    <3>1. a - 1 \in 1 .. n /\ b - 1 \in 1 .. n /\ fl[a - 1] = fl[b - 1]
      BY <1>10, <2>2
    <3>2. a - 1 = b - 1
      BY <3>1 DEF FreeList
    <3> QED
      BY <3>2
  <2> QED
    BY <2>1, <2>2
<1>13. \A a \in 1 .. n + 1 :
         u.slot[g[a]] = IF a = n + 1 THEN u.len ELSE g[a + 1]
  <2> SUFFICES ASSUME NEW a \in 1 .. n + 1
               PROVE  u.slot[g[a]] = IF a = n + 1 THEN u.len ELSE g[a + 1]
    OBVIOUS
  <2>1. a # n + 1 => a + 1 \in 1 .. n + 1 /\ g[a + 1] = fl[a]
    OBVIOUS
  <2>2. CASE a = 1
    <3>1. u.slot[g[a]] = head
      BY <1>6, <1>10, <2>2
    <3>2. head = IF n = 0 THEN t.len ELSE fl[1]
      BY DEF FreeList
    <3> QED
      BY <1>4, <2>1, <2>2, <3>1, <3>2
  <2>3. CASE a # 1
    <3>1. a - 1 \in 1 .. n /\ g[a] = fl[a - 1]
      BY <1>10, <2>3
    <3>2. u.slot[g[a]] = t.slot[fl[a - 1]]
      BY <1>6, <1>9, <3>1
    <3>3. t.slot[fl[a - 1]] = IF a - 1 = n THEN t.len ELSE fl[(a - 1) + 1]
      BY <3>1 DEF FreeList
    <3>4. (a - 1) + 1 = a /\ ((a - 1 = n) <=> (a = n + 1))
      OBVIOUS
    <3> QED
      BY <1>4, <2>1, <3>2, <3>3, <3>4
  <2> QED
    BY <2>2, <2>3
<1>14. idx = IF n + 1 = 0 THEN u.len ELSE g[1]
  BY <1>10
<1>15. \A i \in Slots(u) : is_scalar(u.slot[i]) <=> \E a \in 1 .. n + 1 : g[a] = i
  <2> SUFFICES ASSUME NEW i \in Slots(t)
               PROVE  is_scalar(u.slot[i]) <=> \E a \in 1 .. n + 1 : g[a] = i
    BY <1>5
  <2>1. CASE i = idx
    BY <1>3, <1>6, <1>10, <2>1
  <2>2. CASE i # idx
    <3>1. is_scalar(u.slot[i]) <=> \E b \in 1 .. n : fl[b] = i
      BY <1>6, <2>2 DEF FreeList
    <3>2. ASSUME NEW b \in 1 .. n, fl[b] = i PROVE \E a \in 1 .. n + 1 : g[a] = i
      <4>1. b + 1 \in 1 .. n + 1 /\ g[b + 1] = fl[b]
        OBVIOUS
      <4> QED
        BY <3>2, <4>1
    <3>3. ASSUME NEW a \in 1 .. n + 1, g[a] = i PROVE \E b \in 1 .. n : fl[b] = i
      BY <1>10, <2>2, <3>3
    <3> QED
      BY <3>1, <3>2, <3>3
  <2> QED
    BY <2>1, <2>2
<1> HIDE DEF g
<1>16. FreeList(u, idx, g, n + 1)
  BY <1>11, <1>12, <1>13, <1>14, <1>15 DEF FreeList
<1>17. SameOn(Live(u), u, t)
  BY <1>6, <1>8 DEF Live, SameOn
<1> QED
  BY <1>2, <1>4, <1>7, <1>8, <1>16, <1>17 DEF g

\* The slots of an array are finitely many, as many as its length.
LEMMA SlotsFinite ==
  ASSUME NEW t, IsTable(t)
  PROVE  IsFiniteSet(Slots(t)) /\ Cardinality(Slots(t)) = t.len
<1>1. t.len \in Nat /\ t.len - 1 \in Int /\ 0 \in Int
  BY DEF IsTable
<1>2. IsFiniteSet(0 .. t.len - 1)
  BY <1>1, FS_Interval
<1>3. Cardinality(0 .. t.len - 1) = IF 0 > t.len - 1 THEN 0 ELSE (t.len - 1) - 0 + 1
  BY <1>1, FS_Interval
<1> QED
  BY <1>1, <1>2, <1>3 DEF Slots

\* A free list is never longer than the array.
LEMMA FreeListBound ==
  ASSUME NEW t, IsTable(t), NEW head, NEW n \in Nat, NEW fl, FreeList(t, head, fl, n)
  PROVE  n <= t.len /\ fl \in [1 .. n -> Slots(t)]
<1>1. t.len \in Nat /\ fl \in [1 .. n -> Slots(t)]
  BY DEF FreeList, IsTable
<1>2. IsFiniteSet(1 .. n) /\ Cardinality(1 .. n) = n
  BY FS_Interval
<1>3. IsFiniteSet(Slots(t)) /\ Cardinality(Slots(t)) = t.len
  BY SlotsFinite
<1>4. fl \in Injection(1 .. n, Slots(t))
  BY <1>1 DEF FreeList, Injection, IsInjective
<1> QED
  BY <1>1, <1>2, <1>3, <1>4, FS_Injection

\* The set of live slots is finite.
LEMMA LiveFinite ==
  ASSUME NEW t, IsTable(t)
  PROVE  IsFiniteSet(Live(t))
<1> QED
  BY SlotsFinite, FS_Subset DEF Live

\* The table that remember_continuation inserts into has a free head slot, and
\* the continuations of the current table at their places.
LEMMA InsertableTable ==
  ASSUME TableInv
  PROVE  LET t == TableToInsert
         IN /\ IsTable(t)
            /\ FREE_SLOT # t.len
            /\ \E n \in Nat : \E fl : FreeList(t, FREE_SLOT, fl, n)
            /\ Live(t) = Live(TABLE)
            /\ SameOn(Live(t), t, TABLE)
<1>1. IsTable(TABLE)
  BY DEF TableInv, TypeOK
<1>2. PICK n \in Nat : \E fl : FreeList(TABLE, FREE_SLOT, fl, n)
  BY DEF TableInv
<1>3. PICK fl : FreeList(TABLE, FREE_SLOT, fl, n)
  BY <1>2
<1>4. CASE ~ table_initialized(TABLE)
  <2>1. TABLE.len = 0 /\ Live(TABLE) = {} /\ Slots(TABLE) = {}
    BY <1>4 DEF table_initialized, Live, Slots
  <2>2. FREE_SLOT = 0
    BY <1>3, <2>1 DEF FreeList
  <2>3. TableToInsert = create_continuation_table
    BY <1>4, <2>2, CreateFreeList, SizeAssumption DEF TableToInsert
  <2> QED
    BY <2>1, <2>2, <2>3, CreateFreeList, SizeAssumption DEF SameOn
<1>5. CASE table_initialized(TABLE) /\ FREE_SLOT = TABLE.len
  <2>1. TableToInsert = double_continuation_table(TABLE) /\ TABLE.len # 0
    BY <1>5 DEF TableToInsert, table_initialized
  <2>2. TABLE.len \in Nat /\ 2 * TABLE.len # TABLE.len
    BY <1>1, <2>1 DEF IsTable
  <2> QED
    BY <1>1, <1>3, <1>5, <2>1, <2>2, DoubleFreeList
<1>6. CASE table_initialized(TABLE) /\ FREE_SLOT # TABLE.len
  <2>1. TableToInsert = TABLE
    BY <1>6 DEF TableToInsert
  <2> QED
    BY <1>1, <1>3, <1>6, <2>1 DEF SameOn
<1> QED
  BY <1>4, <1>5, <1>6

\* The empty table satisfies the invariant.
LEMMA EmptyTable ==
  ASSUME TABLE = NoTable, FREE_SLOT = 0, N_CONTINUATIONS = 0,
         result = Returned("none", TRAP, TRAP)
  PROVE  TableInv
<1>1. TABLE.len = 0 /\ Slots(TABLE) = {} /\ Live(TABLE) = {}
  BY DEF NoTable, Slots, Live
<1>2. TypeOK
  BY <1>1 DEF TypeOK, IsTable, NoTable, Returned
<1>3. FreeList(TABLE, FREE_SLOT, [a \in 1 .. 0 |-> 0], 0)
  BY <1>1 DEF FreeList
<1>4. CountIsLive
  BY <1>1, FS_EmptySet DEF CountIsLive
<1> QED
  BY <1>2, <1>3, <1>4 DEF TableInv

\* remember_continuation preserves the invariant.
LEMMA RememberStep ==
  ASSUME TableInv, NEW ptr \in Continuation \cup {0}, remember_continuation(ptr)
  PROVE  TableInv'
<1>1. CASE UNCHANGED tableVars /\ result' = Returned("remember", ptr, TRAP)
  BY <1>1 DEF Returned, TableInv, TypeOK, CountIsLive, tableVars
<1>2. CASE ~ (UNCHANGED tableVars /\ result' = Returned("remember", ptr, TRAP))
  <2> DEFINE t == TableToInsert
  <2>1. /\ ptr \in Continuation
        /\ TABLE' = set(t, FREE_SLOT, ptr)
        /\ FREE_SLOT' = t.slot[FREE_SLOT]
        /\ N_CONTINUATIONS' = N_CONTINUATIONS + 1
        /\ result' = Returned("remember", ptr, FREE_SLOT)
    BY <1>2 DEF remember_continuation, is_scalar
  <2>2. /\ IsTable(t)
        /\ FREE_SLOT # t.len
        /\ \E n \in Nat : \E fl : FreeList(t, FREE_SLOT, fl, n)
        /\ Live(t) = Live(TABLE)
    BY InsertableTable
  <2> HIDE DEF t
  <2>3. PICK n \in Nat : \E fl : FreeList(t, FREE_SLOT, fl, n)
    BY <2>2
  <2>4. PICK fl : FreeList(t, FREE_SLOT, fl, n)
    BY <2>3
  <2>5. /\ IsTable(TABLE')
        /\ FREE_SLOT' \in Nat
        /\ FreeList(TABLE', FREE_SLOT', [a \in 1 .. n - 1 |-> fl[a + 1]], n - 1)
        /\ n - 1 \in Nat
        /\ FREE_SLOT \notin Live(t)
        /\ Live(TABLE') = Live(t) \cup {FREE_SLOT}
    BY <2>1, <2>2, <2>4, PopFreeList, SMTT(30)
  <2>6. TypeOK'
    BY <2>1, <2>5 DEF TableInv, TypeOK, Returned
  <2>7. CountIsLive'
    <3>1. IsFiniteSet(Live(TABLE)) /\ FREE_SLOT \notin Live(TABLE)
      BY <2>2, <2>5, LiveFinite
    <3>2. Cardinality(Live(TABLE) \cup {FREE_SLOT}) = Cardinality(Live(TABLE)) + 1
      BY <3>1, FS_AddElement
    <3> QED
      BY <2>1, <2>2, <2>5, <3>2 DEF TableInv, CountIsLive
  <2> QED
    BY <2>5, <2>6, <2>7 DEF TableInv
<1> QED
  BY <1>1, <1>2

\* recall_continuation preserves the invariant.
LEMMA RecallStep ==
  ASSUME TableInv, NEW idx \in 0 .. MaxSize, recall_continuation(idx)
  PROVE  TableInv'
<1>1. CASE ~ Present(idx)
  BY <1>1 DEF recall_continuation, Returned, TableInv, TypeOK, CountIsLive, tableVars
<1>2. CASE Present(idx)
  <2>1. /\ result' = Returned("recall", idx, TABLE.slot[idx])
        /\ TABLE' = set(TABLE, idx, FREE_SLOT)
        /\ FREE_SLOT' = idx
        /\ N_CONTINUATIONS' = N_CONTINUATIONS - 1
    BY <1>2 DEF recall_continuation
  <2>2. IsTable(TABLE) /\ FREE_SLOT \in Nat
    BY DEF TableInv, TypeOK
  <2>3. idx \in Live(TABLE) /\ TABLE.slot[idx] \in Continuation
    BY <1>2, <2>2, SizeAssumption DEF Present, Live, Slots, is_scalar, IsTable
  <2>4. PICK n \in Nat : \E fl : FreeList(TABLE, FREE_SLOT, fl, n)
    BY DEF TableInv
  <2>5. PICK fl : FreeList(TABLE, FREE_SLOT, fl, n)
    BY <2>4
  <2> DEFINE g == [a \in 1 .. n + 1 |-> IF a = 1 THEN idx ELSE fl[a - 1]]
  <2>6. /\ IsTable(TABLE')
        /\ FREE_SLOT' \in Nat
        /\ FreeList(TABLE', FREE_SLOT', g, n + 1)
        /\ Live(TABLE') = Live(TABLE) \ {idx}
    BY <2>1, <2>2, <2>3, <2>5, PushFreeList
  <2> HIDE DEF g
  <2>7. CountIsLive' /\ N_CONTINUATIONS' \in Nat
    <3>1. IsFiniteSet(Live(TABLE))
      BY <2>2, LiveFinite
    <3>2. /\ Cardinality(Live(TABLE) \ {idx}) = Cardinality(Live(TABLE)) - 1
          /\ Cardinality(Live(TABLE) \ {idx}) \in Nat
      BY <2>3, <3>1, FS_RemoveElement, FS_CardinalityType
    <3> QED
      BY <2>1, <2>6, <3>2 DEF TableInv, CountIsLive
  <2>8. TypeOK'
    BY <2>1, <2>3, <2>6, <2>7 DEF TypeOK, Returned
  <2>9. n + 1 \in Nat
    OBVIOUS
  <2> QED
    BY <2>6, <2>7, <2>8, <2>9 DEF TableInv
<1> QED
  BY <1>1, <1>2

\* Every step preserves the invariant.
LEMMA InductiveStep == TableInv /\ [Next]_vars => TableInv'
<1> SUFFICES ASSUME TableInv, [Next]_vars
             PROVE  TableInv'
  OBVIOUS
<1>1. ASSUME NEW ptr \in Continuation \cup {0}, remember_continuation(ptr)
      PROVE  TableInv'
  BY <1>1, RememberStep
<1>2. ASSUME NEW idx \in 0 .. MaxSize, peek_future_continuation(idx)
      PROVE  TableInv'
  <2>1. UNCHANGED tableVars /\ result'.value \in Continuation \cup Nat \cup {TRAP}
    <3>1. Present(idx) => TABLE.slot[idx] \in Continuation \cup Nat
      BY SizeAssumption DEF TableInv, TypeOK, IsTable, Present, Slots
    <3> QED
      BY <1>2, <3>1 DEF peek_future_continuation, Returned
  <2> QED
    BY <2>1 DEF TableInv, TypeOK, CountIsLive, tableVars
<1>3. ASSUME NEW idx \in 0 .. MaxSize, recall_continuation(idx)
      PROVE  TableInv'
  BY <1>3, RecallStep
<1>4. CASE Reinitialize
  <2>1. TABLE'.len = 0 /\ Slots(TABLE') = {} /\ Live(TABLE') = {}
    BY <1>4 DEF Reinitialize, NoTable, Slots, Live
  <2>2. TypeOK'
    BY <1>4, <2>1 DEF TypeOK, IsTable, NoTable, Reinitialize, Returned
  <2>3. FreeList(TABLE', FREE_SLOT', [a \in 1 .. 0 |-> 0], 0)
    BY <1>4, <2>1 DEF FreeList, Reinitialize
  <2>4. CountIsLive'
    BY <1>4, <2>1, FS_EmptySet DEF CountIsLive, Reinitialize
  <2> QED
    BY <2>2, <2>3, <2>4 DEF TableInv
<1>5. CASE UNCHANGED vars
  BY <1>5 DEF TableInv, TypeOK, CountIsLive, vars
<1> QED
  BY <1>1, <1>2, <1>3, <1>4, <1>5 DEF Next

\* The table, FREE_SLOT and N_CONTINUATIONS keep their types, whatever sequence
\* of remember, peek, recall and upgrade the program performs; every unused slot
\* is on the free list exactly once; and continuation_count() is exact.
THEOREM TableCorrect == Spec => [](TypeOK /\ FreeListComplete /\ CountIsLive)
<1>1. Init => TableInv
  BY EmptyTable DEF Init
<1>2. TableInv => TypeOK /\ FreeListComplete /\ CountIsLive
  <2> SUFFICES ASSUME TableInv PROVE FreeListComplete
    BY DEF TableInv
  <2>1. PICK n \in Nat : \E fl : FreeList(TABLE, FREE_SLOT, fl, n)
    BY DEF TableInv
  <2>2. PICK fl : FreeList(TABLE, FREE_SLOT, fl, n)
    BY <2>1
  <2>3. IsTable(TABLE)
    BY DEF TableInv, TypeOK
  <2>4. n \in 0 .. TABLE.len /\ fl \in [1 .. n -> Slots(TABLE)]
    BY <2>2, <2>3, FreeListBound DEF IsTable
  <2> QED
    BY <2>2, <2>4 DEF FreeListComplete
<1>3. QED
  BY <1>1, <1>2, InductiveStep, PTL DEF Spec

\* A successful insertion adds the continuation at an index that was not in use.
LEMMA RememberRefines ==
  ASSUME TableInv, NEW ptr \in Continuation \cup {0}, remember_continuation(ptr)
  PROVE  Map!Remember(ptr)
<1> DEFINE t == TableToInsert
<1>0. t.len \in Nat
  BY InsertableTable DEF IsTable
<1>1. CASE is_scalar(ptr) \/ t.len > MaxSize
  <2>1. UNCHANGED tableVars /\ result' = Returned("remember", ptr, TRAP)
    BY <1>0, <1>1, SizeAssumption DEF remember_continuation
  <2> QED
    BY <2>1 DEF tableVars, Map!Remember, Map!Returned, Returned
<1>2. CASE ~ (is_scalar(ptr) \/ t.len > MaxSize)
  <2>1. /\ ptr \in Continuation
        /\ t.len <= MaxSize
        /\ TABLE' = set(t, FREE_SLOT, ptr)
        /\ N_CONTINUATIONS' = N_CONTINUATIONS + 1
        /\ result' = Returned("remember", ptr, FREE_SLOT)
    BY <1>0, <1>2, SizeAssumption DEF remember_continuation, is_scalar
  <2>2. /\ IsTable(t)
        /\ FREE_SLOT # t.len
        /\ \E n \in Nat : \E fl : FreeList(t, FREE_SLOT, fl, n)
        /\ Live(t) = Live(TABLE)
        /\ SameOn(Live(t), t, TABLE)
    BY InsertableTable
  <2> HIDE DEF t
  <2>3. PICK n \in Nat : \E fl : FreeList(t, FREE_SLOT, fl, n)
    BY <2>2
  <2>4. PICK fl : FreeList(t, FREE_SLOT, fl, n)
    BY <2>3
  <2>5. /\ FREE_SLOT \in Slots(t)
        /\ FREE_SLOT \notin Live(t)
        /\ Live(TABLE') = Live(t) \cup {FREE_SLOT}
        /\ SameOn(Live(t), TABLE', t)
        /\ TABLE'.slot[FREE_SLOT] = ptr
    <3>1. /\ IsTable(TABLE')
          /\ FREE_SLOT \in Slots(t)
          /\ FreeList(TABLE', t.slot[FREE_SLOT], [a \in 1 .. n - 1 |-> fl[a + 1]], n - 1)
          /\ FREE_SLOT \notin Live(t)
          /\ Live(TABLE') = Live(t) \cup {FREE_SLOT}
      BY <2>1, <2>2, <2>4, PopFreeList, SMTT(30)
    <3>2. TABLE'.slot = [t.slot EXCEPT ![FREE_SLOT] = ptr]
      BY <2>1 DEF set
    <3> QED
      BY <2>2, <3>1, <3>2 DEF IsTable, Live, SameOn
  <2>6. FREE_SLOT \in 0 .. MaxSize
    BY <2>1, <2>2, <2>5, SizeAssumption DEF Slots, IsTable
  <2>7. DOMAIN MapOf(TABLE) = Live(TABLE)
    BY DEF MapOf
  <2>8. MapOf(TABLE') = [j \in Live(TABLE) \cup {FREE_SLOT} |->
                           IF j = FREE_SLOT THEN ptr ELSE MapOf(TABLE)[j]]
    BY <2>2, <2>5 DEF MapOf, SameOn
  <2> QED
    BY <2>1, <2>2, <2>5, <2>6, <2>7, <2>8 DEF Map!Remember, Map!Returned, Returned
<1> QED
  BY <1>1, <1>2

\* The indices that do not trap are the ones in the domain of the map.
LEMMA PresentIsLive ==
  ASSUME TableInv, NEW idx \in 0 .. MaxSize
  PROVE  /\ Present(idx) <=> idx \in DOMAIN MapOf(TABLE)
         /\ Present(idx) => MapOf(TABLE)[idx] = TABLE.slot[idx]
<1>1. TABLE.len \in Nat
  BY DEF TableInv, TypeOK, IsTable
<1>2. Present(idx) <=> idx \in Live(TABLE)
  BY <1>1, SizeAssumption DEF Present, Live, Slots, table_initialized
<1> QED
  BY <1>2 DEF MapOf

\* A recall removes exactly the recalled index.
LEMMA RecallRefines ==
  ASSUME TableInv, NEW idx \in 0 .. MaxSize, recall_continuation(idx)
  PROVE  Map!Recall(idx)
<1>1. CASE ~ Present(idx)
  BY <1>1, PresentIsLive
     DEF recall_continuation, tableVars, Map!Recall, Map!Returned, Returned
<1>2. CASE Present(idx)
  <2>1. /\ result' = Returned("recall", idx, TABLE.slot[idx])
        /\ TABLE' = set(TABLE, idx, FREE_SLOT)
        /\ N_CONTINUATIONS' = N_CONTINUATIONS - 1
    BY <1>2 DEF recall_continuation
  <2>2. /\ IsTable(TABLE)
        /\ FREE_SLOT \in Nat
        /\ \E n \in Nat : \E fl : FreeList(TABLE, FREE_SLOT, fl, n)
    BY DEF TableInv, TypeOK
  <2>3. idx \in Live(TABLE) /\ DOMAIN MapOf(TABLE) = Live(TABLE)
    BY <1>2, PresentIsLive DEF MapOf
  <2>4. PICK n \in Nat : \E fl : FreeList(TABLE, FREE_SLOT, fl, n)
    BY <2>2
  <2>5. PICK fl : FreeList(TABLE, FREE_SLOT, fl, n)
    BY <2>4
  <2>6. /\ Live(TABLE') = Live(TABLE) \ {idx}
        /\ SameOn(Live(TABLE'), TABLE', TABLE)
    <3>1. ASSUME NEW u, u = set(TABLE, idx, FREE_SLOT)
          PROVE  /\ FreeList(u, idx,
                             [a \in 1 .. n + 1 |-> IF a = 1 THEN idx ELSE fl[a - 1]],
                             n + 1)
                 /\ Live(u) = Live(TABLE) \ {idx}
                 /\ SameOn(Live(u), u, TABLE)
      BY <2>2, <2>3, <2>5, <3>1, PushFreeList
    <3> QED
      BY <2>1, <3>1
  <2>7. MapOf(TABLE') = [j \in Live(TABLE) \ {idx} |-> MapOf(TABLE)[j]]
    BY <2>6 DEF MapOf, SameOn
  <2> QED
    BY <1>2, <2>1, <2>3, <2>7, PresentIsLive DEF Map!Recall, Map!Returned, Returned
<1> QED
  BY <1>1, <1>2

\* The continuation table implements the map from indices to continuations, for
\* every initial size and every limit of the memory: a recall returns the very
\* continuation that was remembered under the index, and no insertion, doubling
\* or reuse of a slot disturbs a continuation that is outstanding.
THEOREM TableImplementsMap == Spec => ImplementsMap
<1>1. Init => Map!Init
  <2> SUFFICES ASSUME Init PROVE Map!Init
    OBVIOUS
  <2>1. Live(TABLE) = {}
    BY DEF Init, NoTable, Live, Slots
  <2> QED
    BY <2>1 DEF Init, MapOf, Map!Init, Map!Empty, Map!Returned, Returned
<1>2. TableInv /\ [Next]_vars => [Map!Next]_(Map!vars)
  <2> SUFFICES ASSUME TableInv, [Next]_vars
               PROVE  [Map!Next]_(Map!vars)
    OBVIOUS
  <2>1. ASSUME NEW ptr \in Continuation \cup {0}, remember_continuation(ptr)
        PROVE  Map!Next
    BY <2>1, RememberRefines DEF Map!Next
  <2>2. ASSUME NEW idx \in 0 .. MaxSize, peek_future_continuation(idx)
        PROVE  Map!Next
    <3>1. Map!Peek(idx)
      BY <2>2, PresentIsLive
         DEF peek_future_continuation, tableVars, Map!Peek, Map!Returned, Returned
    <3> QED
      BY <3>1 DEF Map!Next
  <2>3. ASSUME NEW idx \in 0 .. MaxSize, recall_continuation(idx)
        PROVE  Map!Next
    BY <2>3, RecallRefines DEF Map!Next
  <2>4. CASE Reinitialize
    <3>1. Live(TABLE') = {}
      BY <2>4 DEF Reinitialize, NoTable, Live, Slots
    <3>2. Map!Reset
      BY <2>4, <3>1 DEF Reinitialize, MapOf, Map!Reset, Map!Empty, Map!Returned, Returned
    <3> QED
      BY <3>2 DEF Map!Next
  <2>5. CASE UNCHANGED vars
    BY <2>5 DEF vars, Map!vars, MapOf
  <2> QED
    BY <2>1, <2>2, <2>3, <2>4, <2>5 DEF Next
<1>3. Init => TableInv
  BY EmptyTable DEF Init
<1> QED
  BY <1>1, <1>2, <1>3, InductiveStep, PTL DEF Spec, ImplementsMap, Map!Spec
-----------------------------------------------------------------------------
(***************************************************************************)
(* THE MARK STACK.  The tables stand for the sequence of their used        *)
(* entries: a push appends to it, a pop takes its last element.            *)
(***************************************************************************)

StackValue == StackValues \cup {STACK_EMPTY}
StackTable == [previous : Nat, next : Nat,
               entries : [0 .. STACK_TABLE_CAPACITY - 1 -> StackValue]]

\* The tables are linked in the order of their allocation.
Linked(tables) ==
    \A t \in 1 .. Len(tables) :
        /\ tables[t].previous = t - 1
        /\ tables[t].next = IF t = Len(tables) THEN NullTable ELSE t + 1

StackInv ==
    /\ stackTables \in Seq(StackTable) /\ Linked(stackTables)
    /\ last \in 1 .. Len(stackTables)
    /\ top \in 0 .. STACK_TABLE_CAPACITY
    /\ popped \in StackValue

\* A set of numbers has a least one.
LEMMA LeastNumber ==
    ASSUME NEW S, S \subseteq Nat, S # {}
    PROVE  \E x \in S : \A y \in S : x <= y
<1>1. PICK x \in S : \A y \in S : ~(<<y, x>> \in OpToRel(<, Nat))
  BY NatLessThanWellFounded, WFMin
<1>2. \A y \in S : x <= y
  <2> SUFFICES ASSUME NEW y \in S, ~(x <= y) PROVE FALSE
    OBVIOUS
  <2>1. y < x /\ x \in Nat /\ y \in Nat
    OBVIOUS
  <2> QED BY <1>1, <2>1 DEF OpToRel
<1> QED BY <1>2
-----------------------------------------------------------------------------
(* What is below a table. *)

\* The entries of a table that is full.
Full(tables, t) == [i \in 1 .. STACK_TABLE_CAPACITY |-> tables[t].entries[i - 1]]

\* The first entries of a table.
Used(tables, t, n) == [i \in 1 .. n |-> tables[t].entries[i - 1]]

\* f has what is in the first tables.
Stacked(tables, f, n) ==
    /\ f \in [0 .. n -> Seq(StackValue)]
    /\ f[0] = <<>>
    /\ \A t \in 1 .. n : f[t] = f[t - 1] \o Full(tables, t)

\* The equation that defines Below.
BelowEquation(tables, b) ==
    b = [table \in 0 .. Len(tables) |->
           IF table = NullTable THEN <<>>
           ELSE b[tables[table].previous] \o Full(tables, table)]

\* What Below is, as a function of the tables.
BelowIn(tables) == CHOOSE b : BelowEquation(tables, b)

\* The first entries of a table are a sequence of values.
LEMMA UsedIsSequence ==
    ASSUME StackConstants, NEW tables \in Seq(StackTable), NEW t \in 1 .. Len(tables),
           NEW n \in 0 .. STACK_TABLE_CAPACITY
    PROVE  Used(tables, t, n) \in Seq(StackValue) /\ Len(Used(tables, t, n)) = n
<1>1. tables[t].entries \in [0 .. STACK_TABLE_CAPACITY - 1 -> StackValue]
  <2>1. tables[t] \in StackTable
    BY ElementOfSeq
  <2> QED BY <2>1 DEF StackTable
<1>2. \A i \in 1 .. n : tables[t].entries[i - 1] \in StackValue
  BY <1>1 DEF StackConstants
<1>3. n \in Nat
  BY DEF StackConstants
<1> QED BY <1>2, <1>3, IsASeq DEF Used

\* What is in the first tables can be put together.
LEMMA StackedExists ==
    ASSUME StackConstants, NEW tables \in Seq(StackTable)
    PROVE  \E f : Stacked(tables, f, Len(tables))
<1> DEFINE S == {n \in 0 .. Len(tables) : ~\E f : Stacked(tables, f, n)}
<1> SUFFICES ASSUME S # {} PROVE FALSE
  <2>1. Len(tables) \in 0 .. Len(tables)
    OBVIOUS
  <2> QED BY <2>1
<1>1. PICK n \in S : \A m \in S : n <= m
  <2>1. S \subseteq Nat
    OBVIOUS
  <2> HIDE DEF S
  <2> QED BY <2>1, LeastNumber
<1>2. n # 0
  <2>1. Stacked(tables, [t \in 0 .. 0 |-> <<>>], 0)
    BY DEF Stacked
  <2> QED BY <2>1
<1>3. n - 1 \in 0 .. Len(tables) /\ n - 1 \notin S
  BY <1>1, <1>2
<1>4. PICK f : Stacked(tables, f, n - 1)
  BY <1>3
<1> DEFINE g == [t \in 0 .. n |-> IF t = n THEN f[n - 1] \o Full(tables, n) ELSE f[t]]
<1>5. Full(tables, n) \in Seq(StackValue)
  BY <1>2, UsedIsSequence DEF Full, Used, StackConstants
<1>6. f[n - 1] \in Seq(StackValue)
  BY <1>2, <1>4 DEF Stacked
<1>7. g \in [0 .. n -> Seq(StackValue)]
  <2>1. f[n - 1] \o Full(tables, n) \in Seq(StackValue)
    BY <1>5, <1>6, ConcatProperties
  <2>2. \A t \in 0 .. n : t # n => f[t] \in Seq(StackValue)
    BY <1>2, <1>4 DEF Stacked
  <2> QED BY <2>1, <2>2
<1>8. g[0] = <<>>
  BY <1>2, <1>4 DEF Stacked
<1>9. ASSUME NEW t \in 1 .. n PROVE g[t] = g[t - 1] \o Full(tables, t)
  <2>1. CASE t = n
    <3>1. n \in 0 .. n /\ n - 1 \in 0 .. n /\ n - 1 # n
      BY <1>2
    <3>2. g[n] = f[n - 1] \o Full(tables, n)
      BY <3>1
    <3>3. g[n - 1] = f[n - 1]
      BY <3>1
    <3> QED BY <2>1, <3>2, <3>3
  <2>2. CASE t # n
    <3>1. t \in 1 .. n - 1 /\ t - 1 \in 0 .. n /\ t - 1 # n
      BY <2>2
    <3>2. f[t] = f[t - 1] \o Full(tables, t)
      BY <3>1, <1>4 DEF Stacked
    <3>3. g[t] = f[t] /\ g[t - 1] = f[t - 1]
      BY <3>1, <2>2
    <3> QED BY <3>2, <3>3
  <2> QED BY <2>1, <2>2
<1>10. Stacked(tables, g, n)
  <2> HIDE DEF g
  <2> QED BY <1>7, <1>8, <1>9 DEF Stacked
<1> QED BY <1>10

\* The first tables have the same entries.
SameTables(tables, other, n) == \A t \in 1 .. n : Full(tables, t) = Full(other, t)

\* What is below depends on the first tables alone.
LEMMA StackedSame ==
    ASSUME NEW tables, NEW other, NEW f, NEW g, NEW n \in Nat, NEW m \in Nat,
           Stacked(tables, f, n), Stacked(other, g, m),
           NEW k \in Nat, k <= n, k <= m,
           SameTables(tables, other, k)
    PROVE  f[k] = g[k]
<1> DEFINE S == {t \in 0 .. k : f[t] # g[t]}
<1> SUFFICES ASSUME S # {} PROVE FALSE
  OBVIOUS
<1>1. PICK t \in S : \A s \in S : t <= s
  <2>1. S \subseteq Nat
    OBVIOUS
  <2> HIDE DEF S
  <2> QED BY <2>1, LeastNumber
<1>2. t # 0
  BY DEF Stacked
<1>3. t - 1 \in 0 .. k /\ t - 1 \notin S
  BY <1>1, <1>2
<1>4. f[t - 1] = g[t - 1]
  BY <1>3
<1>5. t \in 1 .. k /\ t \in 1 .. n /\ t \in 1 .. m
  BY <1>2
<1> QED BY <1>4, <1>5 DEF Stacked, SameTables

\* The equation of Below has this solution, and no other.
LEMMA OneSolution ==
    ASSUME StackConstants, NEW tables \in Seq(StackTable), Linked(tables),
           NEW f, Stacked(tables, f, Len(tables))
    PROVE  BelowEquation(tables, f) /\ \A b : BelowEquation(tables, b) => b = f
<1>1. f \in [0 .. Len(tables) -> Seq(StackValue)] /\ f[0] = <<>>
  BY DEF Stacked
<1>2. \A t \in 1 .. Len(tables) : tables[t].previous = t - 1
  BY DEF Linked
<1>3. BelowEquation(tables, f)
  <2> DEFINE g == [table \in 0 .. Len(tables) |->
                     IF table = NullTable THEN <<>>
                     ELSE f[tables[table].previous] \o Full(tables, table)]
  <2>1. ASSUME NEW t \in 0 .. Len(tables) PROVE f[t] = g[t]
    <3>1. CASE t = 0
      BY <3>1, <1>1 DEF NullTable
    <3>2. CASE t # 0
      <4>1. t \in 1 .. Len(tables)
        BY <3>2
      <4> QED BY <4>1, <3>2, <1>2 DEF Stacked, NullTable
    <3> QED BY <3>1, <3>2
  <2> QED BY <2>1, <1>1 DEF BelowEquation
<1>4. ASSUME NEW b, BelowEquation(tables, b) PROVE b = f
  <2>1. DOMAIN b = 0 .. Len(tables) /\ b = [t \in DOMAIN b |-> b[t]]
    BY <1>4 DEF BelowEquation
  <2>2. b[0] = <<>>
    BY <1>4 DEF BelowEquation, NullTable
  <2>3. \A t \in 1 .. Len(tables) : b[t] = b[t - 1] \o Full(tables, t)
    <3> SUFFICES ASSUME NEW t \in 1 .. Len(tables) PROVE b[t] = b[t - 1] \o Full(tables, t)
      OBVIOUS
    <3>1. t \in 0 .. Len(tables) /\ t # NullTable
      BY DEF NullTable
    <3>2. b[t] = IF t = NullTable THEN <<>> ELSE b[tables[t].previous] \o Full(tables, t)
      BY <1>4, <3>1 DEF BelowEquation
    <3> QED BY <3>1, <3>2, <1>2
  <2> DEFINE S == {t \in 0 .. Len(tables) : b[t] # f[t]}
  <2>4. S = {}
    <3> SUFFICES ASSUME S # {} PROVE FALSE
      OBVIOUS
    <3>1. PICK t \in S : \A s \in S : t <= s
      <4>1. S \subseteq Nat
        OBVIOUS
      <4> HIDE DEF S
      <4> QED BY <4>1, LeastNumber
    <3>2. t # 0
      BY <2>2, <1>1
    <3>3. t - 1 \in 0 .. Len(tables) /\ t - 1 \notin S
      BY <3>1, <3>2
    <3>4. b[t - 1] = f[t - 1] /\ t \in 1 .. Len(tables)
      BY <3>2, <3>3
    <3> QED BY <3>4, <2>3 DEF Stacked
  <2>5. \A t \in 0 .. Len(tables) : b[t] = f[t]
    BY <2>4
  <2> QED BY <2>1, <2>5, <1>1
<1> QED BY <1>3, <1>4

\* So Below is what is in the first tables.
LEMMA BelowIsStacked ==
    ASSUME StackConstants, NEW tables \in Seq(StackTable), Linked(tables)
    PROVE  Stacked(tables, BelowIn(tables), Len(tables))
<1>1. PICK f : Stacked(tables, f, Len(tables))
  BY StackedExists
<1>2. BelowEquation(tables, f) /\ \A b : BelowEquation(tables, b) => b = f
  BY <1>1, OneSolution
<1>3. BelowIn(tables) = f
  BY <1>2 DEF BelowIn
<1> QED BY <1>1, <1>3

LEMMA BelowIsChoice ==
    /\ Below = BelowIn(stackTables)
    /\ Below' = BelowIn(stackTables')
BY DEF Below, BelowIn, BelowEquation, Full
-----------------------------------------------------------------------------
(* The content of the stack. *)

\* What is below a table and its first entries.
Content(tables, t, n) ==
    BelowIn(tables)[t - 1] \o Used(tables, t, n)

TablesOK(tables) == tables \in Seq(StackTable) /\ Linked(tables)

LEMMA ItemsAreContent ==
    /\ StackConstants /\ StackInv => Items = Content(stackTables, last, top)
    /\ StackConstants /\ StackInv' => Items' = Content(stackTables', last', top')
<1>1. ASSUME StackInv PROVE Items = Content(stackTables, last, top)
  <2>1. stackTables[last].previous = last - 1
    BY <1>1 DEF StackInv, Linked
  <2>2. Items = Below[last - 1] \o [i \in 1 .. top |-> stackTables[last].entries[i - 1]]
    BY <2>1 DEF Items
  <2> QED BY <2>2, BelowIsChoice DEF Content, Used
<1>2. ASSUME StackInv' PROVE Items' = Content(stackTables', last', top')
  <2>1. stackTables'[last'].previous = last' - 1
    BY <1>2 DEF StackInv, Linked
  <2>2. Items' = Below'[last' - 1]
                 \o [i \in 1 .. top' |-> stackTables'[last'].entries[i - 1]]
    BY <2>1 DEF Items
  <2> QED BY <2>2, BelowIsChoice DEF Content, Used
<1> QED BY <1>1, <1>2

\* The content is a sequence of values.
LEMMA ContentIsSequence ==
    ASSUME StackConstants, NEW tables, TablesOK(tables), NEW t \in 1 .. Len(tables),
           NEW n \in 0 .. STACK_TABLE_CAPACITY
    PROVE  /\ Content(tables, t, n) \in Seq(StackValue)
           /\ Len(Content(tables, t, n)) >= n
           /\ t = 1 /\ n = 0 => Content(tables, t, n) = <<>>
<1>1. Stacked(tables, BelowIn(tables), Len(tables))
  BY BelowIsStacked DEF TablesOK
<1>2. t - 1 \in 0 .. Len(tables)
  BY DEF TablesOK
<1>3. BelowIn(tables)[t - 1] \in Seq(StackValue) /\ BelowIn(tables)[0] = <<>>
  BY <1>1, <1>2 DEF Stacked
<1>4. Used(tables, t, n) \in Seq(StackValue) /\ Len(Used(tables, t, n)) = n
  BY UsedIsSequence DEF TablesOK
<1>5. Content(tables, t, n) = BelowIn(tables)[t - 1] \o Used(tables, t, n)
  BY DEF Content
<1>6. t = 1 /\ n = 0 => Content(tables, t, n) = <<>>
  <2> SUFFICES ASSUME t = 1, n = 0 PROVE Content(tables, t, n) = <<>>
    OBVIOUS
  <2>1. BelowIn(tables)[t - 1] = <<>> /\ Used(tables, t, n) = <<>>
    BY <1>3, <1>4, EmptySeq
  <2> QED BY <1>5, <2>1
<1> QED BY <1>3, <1>4, <1>5, <1>6, ConcatProperties, LenProperties

\* A table that is full is below the next one.
LEMMA FullIsBelow ==
    ASSUME StackConstants, NEW tables, TablesOK(tables), NEW t \in 1 .. Len(tables),
           t + 1 <= Len(tables)
    PROVE  Content(tables, t + 1, 0) = Content(tables, t, STACK_TABLE_CAPACITY)
<1>1. Stacked(tables, BelowIn(tables), Len(tables))
  BY BelowIsStacked DEF TablesOK
<1>2. BelowIn(tables)[t] = BelowIn(tables)[t - 1] \o Full(tables, t) /\ BelowIn(tables)[t] \in Seq(StackValue)
  <2>1. t \in 0 .. Len(tables)
    BY DEF TablesOK
  <2> QED BY <1>1, <2>1 DEF Stacked
<1>3. Used(tables, t + 1, 0) = <<>>
  <2>1. t + 1 \in 1 .. Len(tables) /\ 0 \in 0 .. STACK_TABLE_CAPACITY
    BY DEF TablesOK, StackConstants
  <2> QED BY <2>1, UsedIsSequence, EmptySeq DEF TablesOK
<1>4. Content(tables, t + 1, 0) = BelowIn(tables)[t] \o <<>>
  <2>1. (t + 1) - 1 = t
    BY DEF TablesOK
  <2>2. Content(tables, t + 1, 0) = BelowIn(tables)[(t + 1) - 1] \o Used(tables, t + 1, 0)
    BY DEF Content
  <2> QED BY <2>1, <2>2, <1>3
<1>5. Content(tables, t, STACK_TABLE_CAPACITY) = BelowIn(tables)[t - 1] \o Full(tables, t)
  BY DEF Content, Full, Used
<1> QED BY <1>2, <1>4, <1>5, ConcatEmptySeq

\* The content does not depend on later tables.
LEMMA ContentIsBelow ==
    ASSUME StackConstants, NEW tables, TablesOK(tables), NEW other, TablesOK(other),
           NEW t \in 1 .. Len(tables), t <= Len(other), NEW n \in Nat,
           \A s \in 1 .. t - 1 : other[s].entries = tables[s].entries,
           Used(other, t, n) = Used(tables, t, n)
    PROVE  Content(other, t, n) = Content(tables, t, n)
<1>1. Stacked(tables, BelowIn(tables), Len(tables)) /\ Stacked(other, BelowIn(other), Len(other))
  BY BelowIsStacked DEF TablesOK
<1>2. \A s \in 1 .. t - 1 : Full(tables, s) = Full(other, s)
  BY DEF Full
<1>3. /\ t - 1 \in Nat /\ t - 1 <= Len(tables) /\ t - 1 <= Len(other)
      /\ Len(tables) \in Nat /\ Len(other) \in Nat
  BY DEF TablesOK
<1>4. BelowIn(tables)[t - 1] = BelowIn(other)[t - 1]
  <2> DEFINE f == BelowIn(tables)
             g == BelowIn(other)
             k == t - 1
             l == Len(tables)
             m == Len(other)
  <2>1. Stacked(tables, f, l) /\ Stacked(other, g, m) /\ l \in Nat /\ m \in Nat
    BY <1>1, <1>3
  <2>2. k \in Nat /\ k <= l /\ k <= m
    BY <1>3
  <2>3. SameTables(tables, other, k)
    BY <1>2 DEF SameTables
  <2> HIDE DEF f, g, k, l, m
  <2>4. f[k] = g[k]
    BY <2>1, <2>2, <2>3, StackedSame
  <2> QED BY <2>4 DEF f, g, k
<1> QED BY <1>4 DEF Content

LEMMA AppendToConcat ==
    ASSUME NEW V, NEW x \in Seq(V), NEW y \in Seq(V), NEW e \in V
    PROVE  x \o Append(y, e) = Append(x \o y, e)
<1>1. <<e>> \in Seq(V)
  OBVIOUS
<1>2. Append(y, e) = y \o <<e>>
  BY AppendIsConcat
<1>3. x \o y \in Seq(V)
  BY ConcatProperties
<1>4. Append(x \o y, e) = (x \o y) \o <<e>>
  BY <1>3, AppendIsConcat
<1>5. (x \o y) \o <<e>> = x \o (y \o <<e>>)
  BY <1>1, ConcatAssociative
<1> QED BY <1>2, <1>4, <1>5

\* One entry more is one value more.
LEMMA EntryIsAppended ==
    ASSUME StackConstants, NEW tables, TablesOK(tables), NEW t \in 1 .. Len(tables),
           NEW n \in 0 .. STACK_TABLE_CAPACITY - 1
    PROVE  /\ Content(tables, t, n + 1) = Append(Content(tables, t, n), tables[t].entries[n])
           /\ tables[t].entries[n] \in StackValue
<1> DEFINE u == Used(tables, t, n)
           v == tables[t].entries[n]
<1>1. Stacked(tables, BelowIn(tables), Len(tables))
  BY BelowIsStacked DEF TablesOK
<1>2. BelowIn(tables)[t - 1] \in Seq(StackValue)
  <2>1. t - 1 \in 0 .. Len(tables)
    BY DEF TablesOK
  <2> QED BY <1>1, <2>1 DEF Stacked
<1>3. n \in 0 .. STACK_TABLE_CAPACITY /\ n + 1 \in 0 .. STACK_TABLE_CAPACITY
  BY DEF StackConstants
<1>4. u \in Seq(StackValue) /\ Len(u) = n
  BY <1>3, UsedIsSequence DEF TablesOK
<1>5. v \in StackValue
  <2>1. tables[t] \in StackTable
    BY ElementOfSeq DEF TablesOK
  <2> QED BY <2>1 DEF StackTable
<1>6. Used(tables, t, n + 1) = Append(u, v)
  <2>1. Append(u, v) \in Seq(StackValue) /\ Len(Append(u, v)) = n + 1
    BY <1>4, <1>5, AppendProperties
  <2>2. Used(tables, t, n + 1) \in Seq(StackValue) /\ Len(Used(tables, t, n + 1)) = n + 1
    BY <1>3, UsedIsSequence DEF TablesOK
  <2>3. ASSUME NEW i \in 1 .. n + 1 PROVE Used(tables, t, n + 1)[i] = Append(u, v)[i]
    <3>1. Used(tables, t, n + 1)[i] = tables[t].entries[i - 1]
      BY DEF Used
    <3>2. CASE i = n + 1
      BY <3>1, <3>2, <1>4, <1>5, AppendProperties
    <3>3. CASE i # n + 1
      <4>1. i \in 1 .. n
        BY <3>3
      <4>2. Append(u, v)[i] = u[i]
        BY <4>1, <1>4, <1>5, AppendProperties
      <4>3. u[i] = tables[t].entries[i - 1]
        BY <4>1 DEF Used
      <4> QED BY <3>1, <4>2, <4>3
    <3> QED BY <3>2, <3>3
  <2> HIDE DEF u, v
  <2> QED BY <2>1, <2>2, <2>3, SeqEqual
<1>7. Content(tables, t, n + 1) = BelowIn(tables)[t - 1] \o Append(u, v)
  BY <1>6 DEF Content
<1>8. Content(tables, t, n) = BelowIn(tables)[t - 1] \o u
  BY DEF Content
<1> HIDE DEF u, v
<1>9. BelowIn(tables)[t - 1] \o Append(u, v) = Append(BelowIn(tables)[t - 1] \o u, v)
  <2> DEFINE x == BelowIn(tables)[t - 1]
  <2>1. x \in Seq(StackValue)
    BY <1>2
  <2> HIDE DEF x
  <2>2. x \o Append(u, v) = Append(x \o u, v)
    BY <2>1, <1>4, <1>5, AppendToConcat
  <2> QED BY <2>2 DEF x
<1>10. Content(tables, t, n + 1) = Append(Content(tables, t, n), v)
  BY <1>7, <1>8, <1>9
<1> QED BY <1>5, <1>10 DEF v
-----------------------------------------------------------------------------
(* The operations. *)

\* Storing a value behind the first entries of a table.
LEMMA StoreAppends ==
    ASSUME StackConstants, NEW tables, TablesOK(tables), NEW t \in 1 .. Len(tables),
           NEW n \in 0 .. STACK_TABLE_CAPACITY - 1, NEW v \in StackValue,
           Store(tables, t, n, v)
    PROVE  /\ TablesOK(stackTables') /\ Len(stackTables') = Len(tables)
           /\ last' = t /\ top' = n + 1
           /\ Content(stackTables', last', top') = Append(Content(tables, t, n), v)
<1> DEFINE other == stackTables'
<1>1. tables \in Seq(StackTable) /\ tables[t] \in StackTable
  BY ElementOfSeq DEF TablesOK
<1> DEFINE table == [tables[t] EXCEPT !.entries[n] = v]
<1>2. table \in StackTable
  BY <1>1 DEF StackTable
<1>3. /\ table.previous = tables[t].previous /\ table.next = tables[t].next
      /\ table.entries = [tables[t].entries EXCEPT ![n] = v]
  BY <1>1 DEF StackTable
<1>4. other = [tables EXCEPT ![t] = table] /\ last' = t /\ top' = n + 1
  BY DEF Store
<1> HIDE DEF table, other
<1>5. other \in Seq(StackTable) /\ Len(other) = Len(tables)
      /\ \A s \in 1 .. Len(tables) : other[s] = IF s = t THEN table ELSE tables[s]
  BY <1>1, <1>2, <1>4, ExceptSeq
<1>6. Linked(other)
  BY <1>3, <1>5 DEF Linked, TablesOK
<1>7. TablesOK(other)
  BY <1>5, <1>6 DEF TablesOK
<1>8. Content(other, t, n) = Content(tables, t, n)
  <2>1. Used(other, t, n) = Used(tables, t, n)
    <3>1. other[t].entries = [tables[t].entries EXCEPT ![n] = v]
      BY <1>3, <1>5
    <3>2. tables[t].entries \in [0 .. STACK_TABLE_CAPACITY - 1 -> StackValue]
      BY <1>1 DEF StackTable
    <3>3. ASSUME NEW i \in 1 .. n PROVE other[t].entries[i - 1] = tables[t].entries[i - 1]
      <4>1. i - 1 \in 0 .. STACK_TABLE_CAPACITY - 1 /\ i - 1 # n
        BY DEF StackConstants
      <4> QED BY <3>1, <3>2, <4>1
    <3> QED BY <3>3 DEF Used
  <2>2. \A s \in 1 .. t - 1 : other[s].entries = tables[s].entries
    BY <1>5
  <2>3. n \in Nat /\ t <= Len(other)
    BY <1>5 DEF StackConstants
  <2> QED BY ONLY StackConstants, TablesOK(tables), t \in 1 .. Len(tables), <1>7, <2>1, <2>2, <2>3, ContentIsBelow, SMTT(30)
<1>9. other[t].entries[n] = v
  BY <1>1, <1>3, <1>5 DEF StackTable
<1>10. Content(other, t, n + 1) = Append(Content(other, t, n), other[t].entries[n])
  <2>1. t \in 1 .. Len(other)
    BY <1>5
  <2> QED BY <1>7, <2>1, EntryIsAppended
<1> QED BY <1>4, <1>5, <1>7, <1>8, <1>9, <1>10 DEF other

\* A new table is linked to the last one.
LEMMA NewTableLinked ==
    ASSUME StackConstants, NEW tables, TablesOK(tables), tables # <<>>,
           NEW other, other = new_table(tables, Len(tables))
    PROVE  /\ TablesOK(other) /\ Len(other) = Len(tables) + 1
           /\ Content(other, Len(other), 0) = Content(tables, Len(tables), STACK_TABLE_CAPACITY)
<1> DEFINE n == Len(tables)
           old == [tables[n] EXCEPT !.next = n + 1]
           new == [previous |-> n, next |-> NullTable,
                   entries |-> [i \in 0 .. STACK_TABLE_CAPACITY - 1 |-> STACK_EMPTY]]
           linked == [tables EXCEPT ![n] = old]
<1>1. tables \in Seq(StackTable) /\ n \in Nat \ {0} /\ n \in 1 .. n
  BY EmptySeq DEF TablesOK
<1>2. tables[n] \in StackTable
  BY <1>1, ElementOfSeq
<1>3. old \in StackTable /\ new \in StackTable
  BY <1>1, <1>2 DEF StackTable, StackValue, NullTable
<1>4. old.previous = tables[n].previous /\ old.next = n + 1 /\ old.entries = tables[n].entries
  BY <1>2 DEF StackTable
<1>5. other = Append(linked, new)
  BY <1>1 DEF new_table, NullTable
<1>6. linked \in Seq(StackTable) /\ Len(linked) = n
      /\ \A s \in 1 .. n : linked[s] = IF s = n THEN old ELSE tables[s]
  <2> HIDE DEF old
  <2> QED BY <1>1, <1>3, ExceptSeq
<1>7. new.previous = n /\ new.next = NullTable
  OBVIOUS
<1> HIDE DEF old, new, linked
<1>8. /\ other \in Seq(StackTable) /\ Len(other) = n + 1 /\ other[n + 1] = new
      /\ \A s \in 1 .. n : other[s] = IF s = n THEN old ELSE tables[s]
  BY <1>3, <1>5, <1>6, AppendProperties
<1>9. Linked(other)
  <2> SUFFICES ASSUME NEW t \in 1 .. n + 1
               PROVE  /\ other[t].previous = t - 1
                      /\ other[t].next = IF t = n + 1 THEN NullTable ELSE t + 1
    BY <1>8 DEF Linked
  <2>1. CASE t = n + 1
    BY <2>1, <1>1, <1>7, <1>8
  <2>2. CASE t = n
    BY <2>2, <1>1, <1>4, <1>8 DEF TablesOK, Linked
  <2>3. CASE t \in 1 .. n - 1
    <3>1. t \in 1 .. n /\ t # n /\ t # n + 1
      BY <2>3, <1>1
    <3>2. tables[t].previous = t - 1 /\ tables[t].next = t + 1
      BY <3>1 DEF TablesOK, Linked
    <3> QED BY <3>1, <3>2, <1>8
  <2> QED BY <1>1, <2>1, <2>2, <2>3
<1>10. TablesOK(other)
  BY <1>8, <1>9 DEF TablesOK
<1>11. \A s \in 1 .. n : other[s].entries = tables[s].entries
  BY <1>4, <1>8
<1>12. Content(other, n, STACK_TABLE_CAPACITY) = Content(tables, n, STACK_TABLE_CAPACITY)
  <2>1. Used(other, n, STACK_TABLE_CAPACITY) = Used(tables, n, STACK_TABLE_CAPACITY)
    BY <1>1, <1>11 DEF Used
  <2>2. n <= Len(other) /\ STACK_TABLE_CAPACITY \in Nat
    BY <1>1, <1>8 DEF StackConstants
  <2>3. \A s \in 1 .. n - 1 : other[s].entries = tables[s].entries
    BY <1>1, <1>11
  <2> QED BY <1>1, <1>10, <2>1, <2>2, <2>3, ContentIsBelow
<1>13. Content(other, n + 1, 0) = Content(other, n, STACK_TABLE_CAPACITY)
  <2>1. n \in 1 .. Len(other) /\ n + 1 <= Len(other)
    BY <1>1, <1>8
  <2> QED BY <1>10, <2>1, FullIsBelow
<1> QED BY <1>8, <1>10, <1>12, <1>13

\* push appends a value, in the table in use, the next one or a new one.
LEMMA PushAppends ==
    ASSUME StackConstants, StackInv, NEW v \in StackValues, push(v)
    PROVE  /\ StackInv' /\ UNCHANGED popped
           /\ Content(stackTables', last', top') = Append(Content(stackTables, last, top), v)
<1>1. TablesOK(stackTables) /\ last \in 1 .. Len(stackTables) /\ v \in StackValue
      /\ top \in 0 .. STACK_TABLE_CAPACITY /\ stackTables \in Seq(StackTable)
  BY DEF StackInv, TablesOK, StackValue
<1>2. UNCHANGED popped
  BY DEF push
<1>3. ASSUME NEW tables, TablesOK(tables), NEW t \in 1 .. Len(tables),
             NEW n \in 0 .. STACK_TABLE_CAPACITY - 1, Store(tables, t, n, v),
             Content(tables, t, n) = Content(stackTables, last, top)
      PROVE  StackInv' /\ Content(stackTables', last', top')
                        = Append(Content(stackTables, last, top), v)
  <2>1. v \in StackValue
    BY <1>1
  <2>2. /\ TablesOK(stackTables') /\ Len(stackTables') = Len(tables)
        /\ last' = t /\ top' = n + 1
        /\ Content(stackTables', last', top') = Append(Content(tables, t, n), v)
    BY <1>3, <2>1, StoreAppends
  <2>3. n + 1 \in 0 .. STACK_TABLE_CAPACITY
    BY DEF StackConstants
  <2> QED BY <1>2, <1>3, <2>2, <2>3 DEF StackInv, TablesOK
<1>4. CASE top < STACK_TABLE_CAPACITY
  <2>1. Store(stackTables, last, top, v)
    BY <1>4 DEF push
  <2>2. top \in 0 .. STACK_TABLE_CAPACITY - 1
    BY <1>1, <1>4 DEF StackConstants
  <2> QED BY <1>1, <1>2, <1>3, <2>1, <2>2
<1>5. CASE top = STACK_TABLE_CAPACITY /\ stackTables[last].next # NullTable
  <2>1. last + 1 \in 1 .. Len(stackTables) /\ stackTables[last].next = last + 1
    BY <1>1, <1>5 DEF TablesOK, Linked
  <2>2. Store(stackTables, last + 1, 0, v)
    BY <1>1, <1>5, <2>1 DEF push, StackConstants
  <2>3. Content(stackTables, last + 1, 0) = Content(stackTables, last, top)
    BY <1>1, <1>5, <2>1, FullIsBelow
  <2>4. 0 \in 0 .. STACK_TABLE_CAPACITY - 1
    BY DEF StackConstants
  <2> QED BY <1>1, <1>2, <1>3, <2>1, <2>2, <2>3, <2>4
<1>6. CASE top = STACK_TABLE_CAPACITY /\ stackTables[last].next = NullTable
  <2>1. last = Len(stackTables)
    BY <1>1, <1>6 DEF TablesOK, Linked, NullTable
  <2> DEFINE tables == new_table(stackTables, last)
  <2>2. Store(tables, last + 1, 0, v)
    BY <1>1, <1>6, <2>1 DEF push, StackConstants
  <2>3. stackTables # <<>>
    BY <1>1
  <2>4. /\ TablesOK(tables) /\ Len(tables) = Len(stackTables) + 1
        /\ Content(tables, Len(tables), 0)
             = Content(stackTables, Len(stackTables), STACK_TABLE_CAPACITY)
    BY <1>1, <2>1, <2>3, NewTableLinked
  <2>5. 0 \in 0 .. STACK_TABLE_CAPACITY - 1
    BY DEF StackConstants
  <2> HIDE DEF tables
  <2>6. last + 1 \in 1 .. Len(tables) /\ Len(tables) = last + 1
    BY <1>1, <2>1, <2>4
  <2>7. Content(tables, last + 1, 0) = Content(stackTables, last, top)
    BY <1>6, <2>1, <2>4, <2>6
  <2> QED BY <1>2, <1>3, <2>2, <2>4, <2>5, <2>6, <2>7
<1> QED BY <1>1, <1>2, <1>4, <1>5, <1>6 DEF StackConstants

\* pop takes away the last value, if there is one.
LEMMA PopTakes ==
    ASSUME StackConstants, StackInv, pop
    PROVE  /\ StackInv'
           /\ IF is_empty
              THEN /\ popped' = STACK_EMPTY
                   /\ Content(stackTables, last, top) = <<>>
                   /\ Content(stackTables', last', top') = <<>>
              ELSE /\ Content(stackTables', last', top') \in Seq(StackValue)
                   /\ popped' \in StackValue
                   /\ Content(stackTables, last, top)
                        = Append(Content(stackTables', last', top'), popped')
<1>1. TablesOK(stackTables) /\ last \in 1 .. Len(stackTables)
      /\ top \in 0 .. STACK_TABLE_CAPACITY /\ stackTables \in Seq(StackTable)
  BY DEF StackInv, TablesOK
<1>2. UNCHANGED stackTables /\ stackTables[last].previous = last - 1
  BY <1>1 DEF pop, TablesOK, Linked
<1>3. CASE is_empty
  <2>1. popped' = STACK_EMPTY /\ last' = last /\ top' = top
    BY <1>3 DEF pop
  <2>2. last = 1 /\ top = 0
    BY <1>1, <1>2, <1>3 DEF is_empty, NullTable
  <2>3. Content(stackTables, last, top) = <<>>
    BY <1>1, <2>2, ContentIsSequence
  <2> QED BY <1>2, <1>3, <2>1, <2>3 DEF StackInv, StackValue
<1>4. CASE ~is_empty
  <2> DEFINE t == IF top = 0 THEN last - 1 ELSE last
             n == IF top = 0 THEN STACK_TABLE_CAPACITY - 1 ELSE top - 1
  <2>1. popped' = stackTables[t].entries[n] /\ last' = t /\ top' = n
    BY <1>2, <1>4 DEF pop
  <2>2. top = 0 => last # 1
    BY <1>2, <1>4 DEF is_empty, NullTable
  <2>3. t \in 1 .. Len(stackTables) /\ n \in 0 .. STACK_TABLE_CAPACITY - 1
    BY <1>1, <2>2 DEF StackConstants
  <2>4. Content(stackTables, t, n + 1) = Content(stackTables, last, top)
    <3>1. CASE top # 0
      <4>1. t = last /\ n + 1 = top
        BY <3>1, <1>1 DEF StackConstants
      <4> QED BY <4>1
    <3>2. CASE top = 0
      <4>1. t = last - 1 /\ n + 1 = STACK_TABLE_CAPACITY
        BY <3>2 DEF StackConstants
      <4>2. last - 1 \in 1 .. Len(stackTables) /\ (last - 1) + 1 = last
        BY <1>1, <2>2, <3>2
      <4>3. Content(stackTables, (last - 1) + 1, 0)
              = Content(stackTables, last - 1, STACK_TABLE_CAPACITY)
        <5>1. (last - 1) + 1 <= Len(stackTables)
          BY <1>1
        <5> QED BY <1>1, <4>2, <5>1, FullIsBelow
      <4> QED BY <3>2, <4>1, <4>2, <4>3
    <3> QED BY <3>1, <3>2
  <2> HIDE DEF t, n
  <2>5. /\ Content(stackTables, t, n + 1)
             = Append(Content(stackTables, t, n), stackTables[t].entries[n])
        /\ stackTables[t].entries[n] \in StackValue
    BY <1>1, <2>3, EntryIsAppended
  <2>6. Content(stackTables, t, n) \in Seq(StackValue)
    <3>1. n \in 0 .. STACK_TABLE_CAPACITY
      BY <2>3 DEF StackConstants
    <3> QED BY <1>1, <2>3, <3>1, ContentIsSequence
  <2>7. StackInv'
    <3>1. n \in 0 .. STACK_TABLE_CAPACITY
      BY <2>3 DEF StackConstants
    <3> QED BY <1>1, <1>2, <2>1, <2>3, <2>5, <3>1 DEF StackInv
  <2> QED BY <1>2, <1>4, <2>1, <2>4, <2>5, <2>6, <2>7
<1> QED BY <1>3, <1>4
-----------------------------------------------------------------------------
(* The stack. *)

\* An empty stack.
LEMMA InitIsEmpty == ASSUME StackConstants, StackInit PROVE StackInv /\ Stack!Init
<1> DEFINE new == [previous |-> NullTable, next |-> NullTable,
                   entries |-> [i \in 0 .. STACK_TABLE_CAPACITY - 1 |-> STACK_EMPTY]]
<1>1. stackTables = <<new>> /\ last = 1 /\ top = 0 /\ popped = STACK_EMPTY
  BY DEF StackInit, new_table
<1>2. new \in StackTable /\ new.previous = 0 /\ new.next = NullTable
  BY DEF StackTable, StackValue, NullTable
<1> HIDE DEF new
<1>3. stackTables \in Seq(StackTable) /\ Len(stackTables) = 1 /\ stackTables[1] = new
  BY <1>1, <1>2
<1>4. Linked(stackTables)
  BY <1>2, <1>3 DEF Linked
<1>5. StackInv
  BY <1>1, <1>3, <1>4 DEF StackInv, StackConstants, StackValue
<1>6. Content(stackTables, 1, 0) = <<>>
  <2>1. TablesOK(stackTables) /\ 1 \in 1 .. Len(stackTables) /\ 0 \in 0 .. STACK_TABLE_CAPACITY
    BY <1>3, <1>4 DEF TablesOK, StackConstants
  <2> QED BY <2>1, ContentIsSequence
<1>7. Items = <<>>
  BY <1>1, <1>5, <1>6, ItemsAreContent
<1> QED BY <1>1, <1>5, <1>7 DEF Stack!Init

\* Every step is a step of the stack, or none.
LEMMA StepOfStack ==
    ASSUME StackConstants, StackInv, [StackNext]_stackVars
    PROVE  StackInv' /\ [Stack!Next]_<<Items, popped>>
<1>1. Items = Content(stackTables, last, top)
  BY ItemsAreContent
<1>2. TablesOK(stackTables) /\ last \in 1 .. Len(stackTables) /\ top \in 0 .. STACK_TABLE_CAPACITY
  BY DEF StackInv, TablesOK
<1>3. Items \in Seq(StackValue)
  BY <1>1, <1>2, ContentIsSequence
<1>4. ASSUME NEW v \in StackValues, push(v) PROVE StackInv' /\ [Stack!Next]_<<Items, popped>>
  <2>1. /\ StackInv' /\ UNCHANGED popped
        /\ Content(stackTables', last', top') = Append(Content(stackTables, last, top), v)
    BY <1>4, PushAppends
  <2>2. Items' = Append(Items, v)
    BY <1>1, <2>1, ItemsAreContent
  <2> QED BY <2>1, <2>2 DEF Stack!Next, Stack!Push
<1>5. ASSUME pop PROVE StackInv' /\ [Stack!Next]_<<Items, popped>>
  <2> DEFINE rest == Content(stackTables', last', top')
  <2>1. /\ StackInv'
        /\ IF is_empty
           THEN popped' = STACK_EMPTY /\ Content(stackTables, last, top) = <<>> /\ rest = <<>>
           ELSE /\ rest \in Seq(StackValue) /\ popped' \in StackValue
                /\ Content(stackTables, last, top) = Append(rest, popped')
    BY <1>5, PopTakes
  <2>2. Items' = rest
    BY <2>1, ItemsAreContent
  <2> HIDE DEF rest
  <2>3. CASE is_empty
    <3>1. Items = <<>> /\ Items' = Items /\ popped' = STACK_EMPTY
      BY <1>1, <2>1, <2>2, <2>3
    <3> QED BY <2>1, <3>1 DEF Stack!Next, Stack!Pop
  <2>4. CASE ~is_empty
    <3>1. Items = Append(rest, popped') /\ rest \in Seq(StackValue) /\ popped' \in StackValue
      BY <1>1, <2>1, <2>4
    <3>2. Items # <<>> /\ Items[Len(Items)] = popped' /\ Len(Items) = Len(rest) + 1
      BY <3>1, AppendProperties
    <3>3. rest = SubSeq(Items, 1, Len(Items) - 1)
      <4>1. /\ SubSeq(Items, 1, Len(rest)) \in Seq(StackValue)
            /\ Len(SubSeq(Items, 1, Len(rest))) = Len(rest)
            /\ \A i \in 1 .. Len(rest) : SubSeq(Items, 1, Len(rest))[i] = Items[i]
        BY <1>3, <3>1, <3>2
      <4>2. \A i \in 1 .. Len(rest) : Items[i] = rest[i]
        BY <3>1, AppendProperties
      <4>3. Len(Items) - 1 = Len(rest)
        BY <3>1, <3>2
      <4> QED BY <3>1, <4>1, <4>2, <4>3, SeqEqual
    <3> QED BY <2>1, <2>2, <3>2, <3>3 DEF Stack!Next, Stack!Pop
  <2> QED BY <2>3, <2>4
<1>6. ASSUME UNCHANGED stackVars PROVE StackInv' /\ [Stack!Next]_<<Items, popped>>
  <2>1. StackInv'
    BY <1>6 DEF StackInv, stackVars
  <2>2. Items' = Items /\ popped' = popped
    BY <1>1, <1>6, <2>1, ItemsAreContent DEF stackVars
  <2> QED BY <2>1, <2>2
<1> QED BY <1>4, <1>5, <1>6 DEF StackNext

\* The linked tables implement a stack, whatever their capacity: push and pop
\* (mark_stack.rs, scan_stack.rs) lose and reorder nothing at the boundaries of
\* tables, nor in a table that is used again.
THEOREM TablesAreAStack == ASSUME StackConstants PROVE StackSpec => RefinesStack
<1>1. StackInit => StackInv /\ Stack!Init
  BY InitIsEmpty
<1>2. StackInv /\ [StackNext]_stackVars => StackInv' /\ [Stack!Next]_<<Items, popped>>
  BY StepOfStack
<1> QED BY <1>1, <1>2, PTL DEF StackSpec, RefinesStack, Stack!Spec
-----------------------------------------------------------------------------
(***************************************************************************)
(* THE DEDUPLICATION TABLE.  The program never has two blobs of the same   *)
(* content, whatever the collector takes and the program prunes.           *)
(***************************************************************************)

\* The first entry of the content o refers to the blob b.
FirstIs(list, o, b) ==
    \E i \in 1 .. Len(list) :
        /\ list[i].originalBlob = o /\ list[i].ref = b
        /\ \A j \in 1 .. i - 1 : list[j].originalBlob # o

\* What an entry refers to has the content that the entry is for.
RefsOK(list, c) ==
    \A i \in 1 .. Len(list) :
        Dead(list[i]) \/ /\ list[i].ref \in 1 .. Len(c)
                         /\ c[list[i].ref] = list[i].originalBlob

\* A blob that the program has is the target of the first entry of its content.
HeldFound == \A b \in held : FirstIs(dedup_table[BucketOf[content[b]]], content[b], b)

DedupInv ==
    /\ DedupTypeOK
    /\ dedup_table = <<>> => held = {}
    /\ dedup_table # <<>> =>
         /\ \A k \in Buckets : RefsOK(dedup_table[k], content)
         /\ HeldFound
-----------------------------------------------------------------------------
\* A set of indices has a least one, and Min is it.
LEMMA LeastIndex ==
    ASSUME NEW S, S \subseteq Nat, S # {}
    PROVE  Min(S) \in S /\ \A y \in S : Min(S) <= y
  BY LeastNumber DEF Min

\* getFromHashArray finds the first entry of an original if there is one.
LEMMA FoundIsFirst ==
    ASSUME NEW hashArray, NEW o,
           NEW list \in Seq(DedupEntry), list = hashArray[BucketOf[o]],
           NEW found, found = getFromHashArray(hashArray, o)
    PROVE  \/ found = 0 /\ \A i \in 1 .. Len(list) : list[i].originalBlob # o
           \/ /\ found \in 1 .. Len(list) /\ list[found].originalBlob = o
              /\ \A j \in 1 .. found - 1 : list[j].originalBlob # o
<1> DEFINE I == {i \in 1 .. Len(list) : list[i].originalBlob = o}
<1>1. found = IF I # {} THEN Min(I) ELSE 0
  BY DEF getFromHashArray, SelectInSeq
<1>2. I \subseteq Nat
  BY LenProperties
<1>3. CASE I = {}
  BY <1>1, <1>3
<1>4. CASE I # {}
  <2>1. found \in I /\ \A y \in I : found <= y
    BY <1>1, <1>2, <1>4, LeastIndex
  <2>2. Len(list) \in Nat
    BY LenProperties
  <2> QED BY <2>1, <2>2
<1> QED BY <1>3, <1>4

\* A blob is found alive if the first entry of its content refers to it, and the
\* first entry refers to no other one.
LEMMA FirstIsFound ==
    ASSUME NEW hashArray, NEW o, NEW b,
           hashArray[BucketOf[o]] \in Seq(DedupEntry), FirstIs(hashArray[BucketOf[o]], o, b)
    PROVE  /\ getFromHashArray(hashArray, o) # 0
           /\ hashArray[BucketOf[o]][getFromHashArray(hashArray, o)].ref = b
<1> DEFINE list == hashArray[BucketOf[o]]
           found == getFromHashArray(hashArray, o)
<1>1. PICK i \in 1 .. Len(list) :
        /\ list[i].originalBlob = o /\ list[i].ref = b
        /\ \A j \in 1 .. i - 1 : list[j].originalBlob # o
  BY DEF FirstIs
<1>2. \/ found = 0 /\ \A k \in 1 .. Len(list) : list[k].originalBlob # o
      \/ /\ found \in 1 .. Len(list) /\ list[found].originalBlob = o
         /\ \A j \in 1 .. found - 1 : list[j].originalBlob # o
  BY FoundIsFirst
<1>3. Len(list) \in Nat
  BY LenProperties
<1> HIDE DEF list, found
<1>4. found = i
  BY <1>1, <1>2, <1>3
<1> QED BY <1>1, <1>3, <1>4 DEF list, found
-----------------------------------------------------------------------------
\* A new entry in front of a list is its first one, and moves the others.
LEMMA InFront ==
    ASSUME NEW list \in Seq(DedupEntry), NEW entry \in DedupEntry,
           NEW new, new = <<entry>> \o list
    PROVE  /\ new \in Seq(DedupEntry) /\ Len(new) = Len(list) + 1 /\ new[1] = entry
           /\ \A i \in 1 .. Len(list) : new[i + 1] = list[i]
<1>1. <<entry>> \in Seq(DedupEntry) /\ Len(<<entry>>) = 1 /\ <<entry>>[1] = entry
  OBVIOUS
<1>2. Len(list) \in Nat
  BY LenProperties
<1>3. /\ new \in Seq(DedupEntry) /\ Len(new) = 1 + Len(list)
      /\ \A i \in 1 .. 1 + Len(list) :
           new[i] = IF i <= 1 THEN <<entry>>[i] ELSE list[i - 1]
  BY <1>1, ConcatProperties
<1>4. ASSUME NEW i \in 1 .. Len(list) PROVE new[i + 1] = list[i]
  <2>1. i + 1 \in 1 .. 1 + Len(list) /\ ~(i + 1 <= 1) /\ (i + 1) - 1 = i
    BY <1>2
  <2> QED BY <1>3, <2>1
<1> QED BY <1>1, <1>2, <1>3, <1>4

\* Without the element d, what was behind it moves up.
Removed(list, d, new) ==
    /\ new \in Seq(DedupEntry) /\ Len(new) = Len(list) - 1
    /\ \A i \in 1 .. Len(list) - 1 : new[i] = IF i < d THEN list[i] ELSE list[i + 1]

\* An element removed from the middle of a list (linked list removal).
LEMMA RemoveAtRemoves ==
    ASSUME NEW list \in Seq(DedupEntry), NEW d \in 1 .. Len(list)
    PROVE  Removed(list, d, RemoveAt(list, d))
<1> DEFINE front == SubSeq(list, 1, d - 1)
           back  == SubSeq(list, d + 1, Len(list))
<1>1. Len(list) \in Nat /\ d \in Nat /\ d >= 1 /\ d <= Len(list)
  BY LenProperties
<1>2. \A i \in 1 .. Len(list) : list[i] \in DedupEntry
  BY ElementOfSeq
<1>3. /\ front \in Seq(DedupEntry) /\ Len(front) = d - 1
      /\ \A i \in 1 .. d - 1 : front[i] = list[i]
  <2>1. \A i \in 1 .. d - 1 : list[i] \in DedupEntry
    BY <1>1, <1>2
  <2>2. /\ front \in Seq(DedupEntry) /\ Len(front) = IF 1 <= d - 1 THEN (d - 1) - 1 + 1 ELSE 0
        /\ \A i \in 1 .. (d - 1) - 1 + 1 : front[i] = list[1 + i - 1]
    BY <1>1, <2>1, SubSeqProperties
  <2> HIDE DEF front
  <2> QED BY <1>1, <2>2
<1>4. /\ back \in Seq(DedupEntry) /\ Len(back) = Len(list) - d
      /\ \A i \in 1 .. Len(list) - d : back[i] = list[d + i]
  <2>1. \A i \in d + 1 .. Len(list) : list[i] \in DedupEntry
    BY <1>1, <1>2
  <2>2. /\ back \in Seq(DedupEntry)
        /\ Len(back) = IF d + 1 <= Len(list) THEN Len(list) - (d + 1) + 1 ELSE 0
        /\ \A i \in 1 .. Len(list) - (d + 1) + 1 : back[i] = list[(d + 1) + i - 1]
    BY <1>1, <2>1, SubSeqProperties
  <2> HIDE DEF back
  <2>3. \A i \in 1 .. Len(list) - d : back[i] = list[d + i]
    <3> SUFFICES ASSUME NEW i \in 1 .. Len(list) - d PROVE back[i] = list[d + i]
      OBVIOUS
    <3>1. i \in 1 .. Len(list) - (d + 1) + 1 /\ (d + 1) + i - 1 = d + i
      BY <1>1
    <3> QED BY <2>2, <3>1
  <2> QED BY <1>1, <2>2, <2>3
<1>5. RemoveAt(list, d) = front \o back
  BY DEF RemoveAt
<1> DEFINE new == RemoveAt(list, d)
<1> HIDE DEF front, back, new
<1>6. /\ new \in Seq(DedupEntry) /\ Len(new) = Len(front) + Len(back)
      /\ \A i \in 1 .. Len(front) + Len(back) :
           new[i] = IF i <= Len(front) THEN front[i] ELSE back[i - Len(front)]
  <2>1. new = front \o back
    BY <1>5 DEF new
  <2>2. front \in Seq(DedupEntry) /\ back \in Seq(DedupEntry)
    BY <1>3, <1>4
  <2>3. /\ front \o back \in Seq(DedupEntry) /\ Len(front \o back) = Len(front) + Len(back)
        /\ \A i \in 1 .. Len(front) + Len(back) :
             (front \o back)[i] = IF i <= Len(front) THEN front[i] ELSE back[i - Len(front)]
    BY <2>2, ConcatProperties
  <2> QED BY <2>1, <2>3
<1>7. ASSUME NEW i \in 1 .. Len(list) - 1
      PROVE  new[i] = IF i < d THEN list[i] ELSE list[i + 1]
  <2>1. i \in 1 .. Len(front) + Len(back)
    BY <1>1, <1>3, <1>4
  <2>2. CASE i < d
    <3>1. i \in 1 .. d - 1 /\ i <= Len(front)
      BY <1>1, <1>3, <2>2
    <3> QED BY <1>3, <1>6, <2>1, <2>2, <3>1
  <2>3. CASE ~(i < d)
    <3>1. ~(i <= Len(front)) /\ i - Len(front) = i - (d - 1)
      BY <1>1, <1>3, <2>3
    <3>2. new[i] = back[i - (d - 1)]
      BY <1>6, <2>1, <3>1
    <3>3. i - (d - 1) \in 1 .. Len(list) - d /\ d + (i - (d - 1)) = i + 1
      BY <1>1, <2>3
    <3>4. back[i - (d - 1)] = list[i + 1]
      BY <1>4, <3>3
    <3> QED BY <2>3, <3>2, <3>4
  <2> QED BY <2>2, <2>3
<1>8. Len(new) = Len(list) - 1
  BY <1>1, <1>3, <1>4, <1>6
<1> QED BY <1>6, <1>7, <1>8 DEF Removed, new

\* The first element removed.
LEMMA TailRemoves ==
    ASSUME NEW list \in Seq(DedupEntry), list # <<>>
    PROVE  Removed(list, 1, Tail(list))
<1>1. Len(list) \in Nat
  BY LenProperties
<1>2. /\ Tail(list) \in Seq(DedupEntry) /\ Len(Tail(list)) = Len(list) - 1
      /\ \A i \in 1 .. Len(Tail(list)) : Tail(list)[i] = list[i + 1]
  BY HeadTailProperties
<1> QED BY <1>1, <1>2 DEF Removed

-----------------------------------------------------------------------------
\* A longer content has what the shorter one has.
LEMMA RefsOKAppend ==
    ASSUME NEW c \in Seq(Contents), NEW o \in Contents, NEW list, RefsOK(list, c)
    PROVE  RefsOK(list, Append(c, o))
<1>1. /\ Len(c) \in Nat /\ Len(Append(c, o)) = Len(c) + 1
      /\ \A i \in 1 .. Len(c) : Append(c, o)[i] = c[i]
  BY LenProperties, AppendProperties
<1> QED BY <1>1 DEF RefsOK

\* Entries that are removed leave the others what they refer to.
LEMMA RemovedKeeps ==
    ASSUME NEW list \in Seq(DedupEntry), NEW d \in 1 .. Len(list), Dead(list[d]),
           NEW new, Removed(list, d, new)
    PROVE  /\ \A c : RefsOK(list, c) => RefsOK(new, c)
           /\ \A o, b : b # CLEARED /\ FirstIs(list, o, b) => FirstIs(new, o, b)
<1>1. Len(list) \in Nat /\ d \in Nat /\ d >= 1 /\ d <= Len(list) /\ Len(new) = Len(list) - 1
  BY LenProperties DEF Removed
<1>2. ASSUME NEW i \in 1 .. Len(new)
      PROVE  /\ i < d /\ i \in 1 .. Len(list) => new[i] = list[i]
             /\ ~(i < d) => new[i] = list[i + 1]
             /\ i \in 1 .. Len(list) /\ i + 1 \in 1 .. Len(list)
  BY <1>1 DEF Removed
<1>3. ASSUME NEW c, RefsOK(list, c) PROVE RefsOK(new, c)
  <2> SUFFICES ASSUME NEW i \in 1 .. Len(new)
               PROVE  \/ Dead(new[i])
                      \/ new[i].ref \in 1 .. Len(c) /\ c[new[i].ref] = new[i].originalBlob
    BY DEF RefsOK
  <2>1. \E k \in 1 .. Len(list) : new[i] = list[k]
    BY <1>2
  <2> QED BY <1>3, <2>1 DEF RefsOK
<1>4. ASSUME NEW o, NEW b, b # CLEARED, FirstIs(list, o, b) PROVE FirstIs(new, o, b)
  <2>1. PICK i \in 1 .. Len(list) :
          /\ list[i].originalBlob = o /\ list[i].ref = b
          /\ \A j \in 1 .. i - 1 : list[j].originalBlob # o
    BY <1>4 DEF FirstIs
  <2>2. i # d
    BY <1>4, <2>1 DEF Dead
  <2>3. CASE i < d
    <3>1. i \in 1 .. Len(new)
      BY <1>1, <2>3
    <3>2. new[i] = list[i]
      BY <1>2, <2>3, <3>1
    <3>3. ASSUME NEW j \in 1 .. i - 1 PROVE new[j].originalBlob # o
      <4>1. j \in 1 .. Len(new) /\ j < d
        BY <1>1, <2>3
      <4> QED BY <1>2, <2>1, <4>1
    <3> QED BY <2>1, <3>1, <3>2, <3>3 DEF FirstIs
  <2>4. CASE i > d
    <3>1. i - 1 \in 1 .. Len(new) /\ ~(i - 1 < d) /\ (i - 1) + 1 = i
      BY <1>1, <2>4
    <3>2. new[i - 1] = list[i]
      BY <1>2, <3>1
    <3>3. ASSUME NEW j \in 1 .. (i - 1) - 1 PROVE new[j].originalBlob # o
      <4>1. j \in 1 .. Len(new) /\ j \in 1 .. i - 1 /\ j + 1 \in 1 .. i - 1
        BY <1>1, <2>4
      <4> QED BY <1>2, <2>1, <4>1
    <3> QED BY <2>1, <3>1, <3>2, <3>3 DEF FirstIs
  <2> QED BY <1>1, <2>2, <2>3, <2>4
<1> QED BY <1>3, <1>4

\* The dead entry that pruneDeadBlobs removes from a list.
LEMMA PruneKeeps ==
    ASSUME NEW list \in Seq(DedupEntry), NEW o
    PROVE  /\ PruneList(list, o) \in Seq(DedupEntry)
           /\ \A c : RefsOK(list, c) => RefsOK(PruneList(list, o), c)
           /\ \A p, b : b # CLEARED /\ FirstIs(list, p, b) => FirstIs(PruneList(list, o), p, b)
<1>0. Len(list) \in Nat
  BY LenProperties
<1>1. CASE pruneFirstElement(list, o)
  <2>1. list # <<>> /\ Dead(list[1]) /\ PruneList(list, o) = Tail(list)
    BY <1>1 DEF pruneFirstElement, PruneList
  <2>2. Removed(list, 1, Tail(list))
    BY <2>1, TailRemoves
  <2>3. 1 \in 1 .. Len(list)
    BY <1>0, <2>1, EmptySeq
  <2> QED BY <2>1, <2>2, <2>3, RemovedKeeps, ZenonT(40) DEF Removed
<1>2. CASE ~pruneFirstElement(list, o) /\ FirstDead(list) = 0
  BY <1>2 DEF PruneList
<1>3. CASE ~pruneFirstElement(list, o) /\ FirstDead(list) # 0
  <2> DEFINE I == {i \in 2 .. Len(list) : Dead(list[i])}
  <2>1. FirstDead(list) = IF I # {} THEN Min(I) ELSE 0
    BY DEF FirstDead, SelectInSubSeq
  <2>2. I \subseteq Nat /\ I # {}
    BY <1>0, <1>3, <2>1
  <2>3. FirstDead(list) \in I
    BY <2>1, <2>2, LeastIndex
  <2>4. FirstDead(list) \in 1 .. Len(list) /\ Dead(list[FirstDead(list)])
    BY <1>0, <2>3
  <2>5. Removed(list, FirstDead(list), RemoveAt(list, FirstDead(list)))
    BY <2>4, RemoveAtRemoves
  <2>6. PruneList(list, o) = RemoveAt(list, FirstDead(list))
    BY <1>3 DEF PruneList
  <2> DEFINE d == FirstDead(list)
             new == RemoveAt(list, d)
  <2>7. d \in 1 .. Len(list) /\ Dead(list[d]) /\ Removed(list, d, new) /\ PruneList(list, o) = new
    BY <2>4, <2>5, <2>6
  <2> HIDE DEF d, new
  <2>8. new \in Seq(DedupEntry)
    BY <2>7 DEF Removed
  <2>9. /\ \A c : RefsOK(list, c) => RefsOK(new, c)
        /\ \A q, b : b # CLEARED /\ FirstIs(list, q, b) => FirstIs(new, q, b)
    BY <2>7, RemovedKeeps, ZenonT(40)
  <2> QED BY <2>7, <2>8, <2>9
<1> QED BY <1>1, <1>2, <1>3

-----------------------------------------------------------------------------
\* Before the first message there is no table, and no blob.
LEMMA InitOK ==
    ASSUME DedupConstants, DedupInit
    PROVE  DedupInv
<1>1. content \in Seq(Contents) /\ Len(content) <= MaxBlobs
  BY DEF DedupInit, DedupConstants
<1> QED BY <1>1 DEF DedupInit, DedupInv, DedupTypeOK

\* What holds of a table that dedup starts from, the new one included.
LEMMA StartOfDedup ==
    ASSUME DedupInv, NEW hashArray,
           hashArray = IF dedup_table = <<>> THEN NewTable ELSE dedup_table
    PROVE  /\ hashArray \in [Buckets -> Seq(DedupEntry)]
           /\ \A k \in Buckets : RefsOK(hashArray[k], content)
           /\ \A b \in held : FirstIs(hashArray[BucketOf[content[b]]], content[b], b)
<1>1. CASE dedup_table = <<>>
  <2>1. hashArray \in [Buckets -> Seq(DedupEntry)] /\ \A k \in Buckets : hashArray[k] = <<>>
    BY <1>1 DEF NewTable
  <2>2. held = {}
    BY <1>1 DEF DedupInv
  <2>3. RefsOK(<<>>, content)
    BY DEF RefsOK
  <2> QED BY <2>1, <2>2, <2>3
<1>2. CASE dedup_table # <<>>
  BY <1>2 DEF DedupInv, DedupTypeOK, HeldFound
<1> QED BY <1>1, <1>2

\* A message brings a blob: the one that is there already is the first of its
\* content, and a new one becomes the first.
LEMMA dedupPreserves ==
    ASSUME DedupConstants, DedupInv, NEW o \in Contents, dedup(o)
    PROVE  DedupInv'
<1> DEFINE hashArray == IF dedup_table = <<>> THEN NewTable ELSE dedup_table
           b     == Len(content) + 1
           found == getFromHashArray(hashArray, o)
           list  == hashArray[BucketOf[o]]
           ref   == IF found = 0 THEN CLEARED ELSE list[found].ref
           entry == [originalBlob |-> o, ref |-> b]
<1>1. /\ hashArray \in [Buckets -> Seq(DedupEntry)]
      /\ \A k \in Buckets : RefsOK(hashArray[k], content)
      /\ \A h \in held : FirstIs(hashArray[BucketOf[content[h]]], content[h], h)
  BY StartOfDedup
<1>2. /\ b \in Blobs /\ content' = Append(content, o) /\ endless' = endless
      /\ IF ref # CLEARED
         THEN held' = held \cup {ref} /\ dedup_table' = hashArray
         ELSE held' = held \cup {b} /\ dedup_table' = addToHashArray(hashArray, o, b)
  BY DEF dedup
<1>3. /\ content \in Seq(Contents) /\ Len(content) \in Nat /\ endless \in BOOLEAN
      /\ held \subseteq 1 .. Len(content) /\ MaxBlobs \in Nat
  BY LenProperties DEF DedupInv, DedupTypeOK, DedupConstants
<1>4. /\ content' \in Seq(Contents) /\ Len(content') = Len(content) + 1
      /\ \A i \in 1 .. Len(content) : content'[i] = content[i]
      /\ content'[b] = o
  BY <1>2, <1>3, AppendProperties
<1>5. Len(content') <= MaxBlobs
  BY <1>2, <1>3, <1>4 DEF Blobs
<1>6. BucketOf \in [Contents -> Buckets] /\ BucketOf[o] \in Buckets /\ list \in Seq(DedupEntry)
  BY <1>1 DEF DedupConstants
<1>7. \/ found = 0 /\ \A i \in 1 .. Len(list) : list[i].originalBlob # o
      \/ /\ found \in 1 .. Len(list) /\ list[found].originalBlob = o
         /\ \A j \in 1 .. found - 1 : list[j].originalBlob # o
  BY <1>6, FoundIsFirst
<1>8. \A h \in held : content[h] = o => found # 0 /\ list[found].ref = h
  <2> SUFFICES ASSUME NEW h \in held, content[h] = o PROVE found # 0 /\ list[found].ref = h
    OBVIOUS
  <2>1. FirstIs(list, o, h)
    BY <1>1
  <2>2. hashArray[BucketOf[o]] \in Seq(DedupEntry) /\ FirstIs(hashArray[BucketOf[o]], o, h)
    BY <1>6, <2>1
  <2> HIDE DEF hashArray
  <2>3. /\ getFromHashArray(hashArray, o) # 0
        /\ hashArray[BucketOf[o]][getFromHashArray(hashArray, o)].ref = h
    BY <2>2, FirstIsFound
  <2> QED BY <2>3
<1> HIDE DEF hashArray, b, found, list, entry
<1>9. CASE ref # CLEARED
  <2>1. found \in 1 .. Len(list) /\ ref = list[found].ref /\ 0 \notin 1 .. Len(list)
    BY <1>7, <1>9
  <2>2. ~Dead(list[found])
    BY <1>9, <2>1 DEF Dead
  <2>3. RefsOK(list, content)
    BY <1>1, <1>6 DEF list
  <2>4. ref \in 1 .. Len(content) /\ content[ref] = o
    BY <1>7, <2>1, <2>2, <2>3 DEF RefsOK
  <2>5. FirstIs(list, o, ref)
    BY <1>7, <2>1 DEF FirstIs
  <2> HIDE DEF ref
  <2>6. held' = held \cup {ref} /\ dedup_table' = hashArray
    BY <1>2, <1>9
  <2>7. DedupTypeOK'
    <3>1. held' \subseteq 1 .. Len(content')
      BY <1>3, <1>4, <2>4, <2>6
    <3> QED BY <1>1, <1>2, <1>3, <1>4, <1>5, <2>6, <3>1 DEF DedupTypeOK
  <2>8. dedup_table' # <<>>
    BY <1>1, <1>6, <2>6
  <2>9. \A k \in Buckets : RefsOK(dedup_table'[k], content')
    BY <1>1, <1>2, <1>3, <2>6, RefsOKAppend
  <2>10. ASSUME NEW h \in held'
         PROVE  FirstIs(dedup_table'[BucketOf[content'[h]]], content'[h], h)
    <3>1. content'[h] = content[h]
      BY <1>3, <1>4, <2>4, <2>6
    <3>2. CASE h \in held
      BY <1>1, <2>6, <3>1, <3>2
    <3>3. CASE h = ref
      BY <2>4, <2>5, <2>6, <3>1, <3>3 DEF list
    <3> QED BY <2>6, <3>2, <3>3
  <2> QED BY <2>7, <2>8, <2>9, <2>10 DEF DedupInv, HeldFound
<1>10. CASE ref = CLEARED
  <2>1. held' = held \cup {b} /\ dedup_table' = addToHashArray(hashArray, o, b)
    BY <1>2, <1>10
  <2>2. ASSUME NEW h \in held PROVE content[h] # o /\ h \in 1 .. Len(content)
    <3>1. h # CLEARED /\ h \in 1 .. Len(content)
      BY <1>3 DEF CLEARED
    <3> QED BY <1>8, <1>10, <3>1
  <2> HIDE DEF ref
  <2>3. entry \in DedupEntry /\ entry.originalBlob = o /\ entry.ref = b
    BY <1>2 DEF entry, DedupEntry
  <2> DEFINE new == <<entry>> \o list
  <2>4. /\ new \in Seq(DedupEntry) /\ Len(new) = Len(list) + 1 /\ new[1] = entry
        /\ \A i \in 1 .. Len(list) : new[i + 1] = list[i]
    BY <1>6, <2>3, InFront
  <2>5. dedup_table' = [hashArray EXCEPT ![BucketOf[o]] = new]
    BY <2>1 DEF addToHashArray, entry, list
  <2> HIDE DEF new
  <2>6. /\ dedup_table' \in [Buckets -> Seq(DedupEntry)] /\ dedup_table'[BucketOf[o]] = new
        /\ \A k \in Buckets : k # BucketOf[o] => dedup_table'[k] = hashArray[k]
    BY <1>1, <1>6, <2>4, <2>5
  <2>7. DedupTypeOK'
    <3>1. held' \subseteq 1 .. Len(content')
      <4>1. b \in 1 .. Len(content') /\ 1 .. Len(content) \subseteq 1 .. Len(content')
        BY <1>3, <1>4 DEF b
      <4> QED BY <1>3, <2>1, <4>1
    <3> QED BY <1>2, <1>3, <1>4, <1>5, <2>6, <3>1 DEF DedupTypeOK
  <2>8. dedup_table' # <<>>
    BY <1>6, <2>6
  <2>9. Len(list) \in Nat
    BY <1>6, LenProperties
  <2>10. RefsOK(new, content')
    <3>1. RefsOK(list, content')
      BY <1>1, <1>2, <1>3, <1>6, RefsOKAppend DEF list
    <3> SUFFICES ASSUME NEW i \in 1 .. Len(new)
                 PROVE  \/ Dead(new[i])
                        \/ /\ new[i].ref \in 1 .. Len(content')
                           /\ content'[new[i].ref] = new[i].originalBlob
      BY DEF RefsOK
    <3>2. CASE i = 1
      BY <1>3, <1>4, <2>3, <2>4, <3>2 DEF b
    <3>3. CASE i # 1
      <4>1. i - 1 \in 1 .. Len(list) /\ (i - 1) + 1 = i
        BY <2>4, <2>9, <3>3
      <4>2. new[i] = list[i - 1]
        BY <2>4, <4>1
      <4> QED BY <3>1, <4>1, <4>2 DEF RefsOK
    <3> QED BY <3>2, <3>3
  <2>11. \A k \in Buckets : RefsOK(dedup_table'[k], content')
    BY <1>1, <1>2, <1>3, <2>6, <2>10, RefsOKAppend
  <2>12. ASSUME NEW p, NEW h, p # o, FirstIs(list, p, h) PROVE FirstIs(new, p, h)
    <3>1. PICK i \in 1 .. Len(list) :
            /\ list[i].originalBlob = p /\ list[i].ref = h
            /\ \A j \in 1 .. i - 1 : list[j].originalBlob # p
      BY <2>12 DEF FirstIs
    <3>2. i + 1 \in 1 .. Len(new) /\ new[i + 1] = list[i]
      BY <2>4, <2>9
    <3>3. ASSUME NEW j \in 1 .. (i + 1) - 1 PROVE new[j].originalBlob # p
      <4>1. CASE j = 1
        BY <2>3, <2>4, <2>12, <4>1
      <4>2. CASE j # 1
        <5>1. j - 1 \in 1 .. i - 1 /\ j - 1 \in 1 .. Len(list) /\ (j - 1) + 1 = j
          BY <2>9, <4>2
        <5> QED BY <2>4, <3>1, <5>1
      <4> QED BY <4>1, <4>2
    <3> QED BY <3>1, <3>2, <3>3 DEF FirstIs
  <2>13. ASSUME NEW h \in held'
         PROVE  FirstIs(dedup_table'[BucketOf[content'[h]]], content'[h], h)
    <3>1. CASE h \in held
      <4>1. content'[h] = content[h] /\ content[h] \in Contents /\ content[h] # o
        BY <1>3, <1>4, <2>2, <3>1, ElementOfSeq
      <4>2. BucketOf[content[h]] \in Buckets
        BY <1>6, <4>1
      <4>3. FirstIs(hashArray[BucketOf[content[h]]], content[h], h)
        BY <1>1, <3>1
      <4>4. CASE BucketOf[content[h]] = BucketOf[o]
        <5>1. FirstIs(list, content[h], h)
          BY <4>3, <4>4 DEF list
        <5> QED BY <2>6, <2>12, <4>1, <4>4, <5>1
      <4>5. CASE BucketOf[content[h]] # BucketOf[o]
        BY <2>6, <4>1, <4>2, <4>3, <4>5
      <4> QED BY <4>4, <4>5
    <3>2. CASE h = b
      <4>1. FirstIs(new, o, b)
        <5>1. 1 \in 1 .. Len(new) /\ \A j \in 1 .. 1 - 1 : new[j].originalBlob # o
          BY <2>4, <2>9
        <5> QED BY <2>3, <2>4, <5>1 DEF FirstIs
      <4> QED BY <1>4, <2>6, <3>2, <4>1
    <3> QED BY <2>1, <3>1, <3>2
  <2> QED BY <2>7, <2>8, <2>11, <2>13 DEF DedupInv, HeldFound
<1> QED BY <1>9, <1>10

\* What the program drops can still be found.
LEMMA DropPreserves ==
    ASSUME DedupInv, NEW b \in Blobs, Drop(b)
    PROVE  DedupInv'
<1>1. /\ dedup_table' = dedup_table /\ content' = content /\ endless' = endless
      /\ held' \subseteq held
  BY DEF Drop
<1> QED BY <1>1 DEF DedupInv, DedupTypeOK, HeldFound

\* The collector takes no blob that the program has, and its entry stays the first.
LEMMA CollectPreserves ==
    ASSUME DedupConstants, DedupInv, NEW unmarked \in SUBSET (Blobs \ held), Collect(unmarked)
    PROVE  DedupInv'
<1>1. /\ dedup_table # <<>> /\ content' = content /\ held' = held /\ endless' = endless
      /\ dedup_table' = [k \in Buckets |-> [i \in DOMAIN dedup_table[k] |->
           IF dedup_table[k][i].ref \in unmarked THEN [dedup_table[k][i] EXCEPT !.ref = CLEARED]
                                                 ELSE dedup_table[k][i]]]
  BY DEF Collect
<1>2. /\ dedup_table \in [Buckets -> Seq(DedupEntry)] /\ HeldFound
      /\ \A k \in Buckets : RefsOK(dedup_table[k], content)
  BY <1>1 DEF DedupInv, DedupTypeOK
<1>3. ASSUME NEW k \in Buckets
      PROVE  /\ dedup_table'[k] \in Seq(DedupEntry) /\ Len(dedup_table'[k]) = Len(dedup_table[k])
             /\ \A i \in 1 .. Len(dedup_table[k]) :
                  /\ dedup_table'[k][i].originalBlob = dedup_table[k][i].originalBlob
                  /\ dedup_table'[k][i].ref = IF dedup_table[k][i].ref \in unmarked
                                              THEN CLEARED ELSE dedup_table[k][i].ref
  <2> DEFINE old == dedup_table[k]
             new == dedup_table'[k]
  <2>1. old \in Seq(DedupEntry)
    BY <1>2
  <2>2. Len(old) \in Nat /\ DOMAIN old = 1 .. Len(old) /\ \A i \in 1 .. Len(old) : old[i] \in DedupEntry
    BY <2>1, LenProperties, ElementOfSeq
  <2>3. new = [i \in 1 .. Len(old) |-> IF old[i].ref \in unmarked
                                       THEN [old[i] EXCEPT !.ref = CLEARED] ELSE old[i]]
    BY <1>1, <2>2
  <2> HIDE DEF old, new
  <2>4. ASSUME NEW i \in 1 .. Len(old)
        PROVE  /\ new[i] \in DedupEntry /\ new[i].originalBlob = old[i].originalBlob
               /\ new[i].ref = IF old[i].ref \in unmarked THEN CLEARED ELSE old[i].ref
    BY <2>2, <2>3 DEF DedupEntry
  <2>5. new \in Seq(DedupEntry) /\ Len(new) = Len(old)
    <3>1. new \in [1 .. Len(old) -> DedupEntry]
      BY <2>3, <2>4
    <3> QED BY <2>2, <3>1, IsASeq, LenProperties
  <2> QED BY <2>4, <2>5 DEF old, new
<1>4. DedupTypeOK'
  <2>1. dedup_table' \in [Buckets -> Seq(DedupEntry)]
    BY <1>1, <1>3
  <2> QED BY <1>1, <2>1 DEF DedupInv, DedupTypeOK
<1>5. dedup_table' = <<>> => held' = {}
  <2> SUFFICES ASSUME dedup_table' = <<>> PROVE FALSE
    OBVIOUS
  <2>1. Buckets = {}
    BY <1>1
  <2> QED BY <1>1, <1>2, <2>1
<1>6. ASSUME NEW k \in Buckets PROVE RefsOK(dedup_table'[k], content')
  <2>1. RefsOK(dedup_table[k], content)
    BY <1>2
  <2> QED BY <1>1, <1>3, <2>1 DEF RefsOK, Dead
<1>7. ASSUME NEW b \in held
      PROVE  FirstIs(dedup_table'[BucketOf[content[b]]], content[b], b)
  <2> DEFINE k == BucketOf[content[b]]
  <2>1. k \in Buckets
    BY ElementOfSeq DEF DedupInv, DedupTypeOK, DedupConstants
  <2>2. FirstIs(dedup_table[k], content[b], b)
    BY <1>2 DEF HeldFound
  <2>3. b \notin unmarked
    OBVIOUS
  <2> HIDE DEF k
  <2>4. Len(dedup_table[k]) \in Nat
    BY <1>2, <2>1, LenProperties
  <2>5. FirstIs(dedup_table'[k], content[b], b)
    BY <1>3, <2>1, <2>2, <2>3, <2>4 DEF FirstIs
  <2> QED BY <2>5 DEF k
<1> QED BY <1>1, <1>4, <1>5, <1>6, <1>7 DEF DedupInv, HeldFound

\* The pruning takes one dead entry from one list, or none.
LEMMA pruneDeadBlobsPreserves ==
    ASSUME DedupConstants, DedupInv, NEW o \in Contents, pruneDeadBlobs(o)
    PROVE  DedupInv'
<1> DEFINE list == dedup_table[BucketOf[o]]
<1>1. /\ dedup_table # <<>> /\ content' = content /\ held' = held
      /\ \/ /\ dedup_table' = [dedup_table EXCEPT ![BucketOf[o]] = PruneList(list, o)]
            /\ endless' = endless
         \/ /\ dedup_table' = dedup_table /\ endless' = (endless \/ o \in DeadOf(list))
  BY DEF pruneDeadBlobs
<1>2. /\ dedup_table \in [Buckets -> Seq(DedupEntry)] /\ HeldFound
      /\ \A k \in Buckets : RefsOK(dedup_table[k], content)
  BY <1>1 DEF DedupInv, DedupTypeOK
<1>3. BucketOf[o] \in Buckets /\ list \in Seq(DedupEntry)
  BY <1>2 DEF DedupConstants
<1>4. endless' \in BOOLEAN
  <2>1. endless \in BOOLEAN /\ (endless \/ o \in DeadOf(list)) \in BOOLEAN
    BY Zenon DEF DedupInv, DedupTypeOK
  <2> QED BY <1>1, <2>1, Zenon
<1>5. CASE dedup_table' = dedup_table
  BY <1>1, <1>4, <1>5 DEF DedupInv, DedupTypeOK, HeldFound
<1>6. CASE dedup_table' = [dedup_table EXCEPT ![BucketOf[o]] = PruneList(list, o)]
  <2> DEFINE new == PruneList(list, o)
  <2>1. /\ new \in Seq(DedupEntry) /\ \A c : RefsOK(list, c) => RefsOK(new, c)
        /\ \A p, b : b # CLEARED /\ FirstIs(list, p, b) => FirstIs(new, p, b)
    BY <1>3, PruneKeeps
  <2> HIDE DEF new
  <2>2. /\ dedup_table' \in [Buckets -> Seq(DedupEntry)] /\ dedup_table'[BucketOf[o]] = new
        /\ \A k \in Buckets : k # BucketOf[o] => dedup_table'[k] = dedup_table[k]
    BY <1>2, <1>3, <1>6, <2>1 DEF new
  <2>3. DedupTypeOK'
    BY <1>1, <1>4, <2>2 DEF DedupInv, DedupTypeOK
  <2>4. dedup_table' # <<>>
    BY <1>3, <2>2
  <2>5. \A k \in Buckets : RefsOK(dedup_table'[k], content')
    BY <1>1, <1>2, <1>3, <2>1, <2>2
  <2>6. ASSUME NEW b \in held
        PROVE  FirstIs(dedup_table'[BucketOf[content[b]]], content[b], b)
    <3>1. b # CLEARED
      BY DEF DedupInv, DedupTypeOK, CLEARED
    <3>2. BucketOf[content[b]] \in Buckets
      BY ElementOfSeq DEF DedupInv, DedupTypeOK, DedupConstants
    <3>3. FirstIs(dedup_table[BucketOf[content[b]]], content[b], b)
      BY <1>2 DEF HeldFound
    <3> QED BY <2>1, <2>2, <3>1, <3>2, <3>3
  <2> QED BY <1>1, <2>3, <2>4, <2>5, <2>6 DEF DedupInv, HeldFound
<1> QED BY <1>1, <1>5, <1>6

\* No step leaves the invariant.
LEMMA StepOK ==
    ASSUME DedupConstants, DedupInv, [DedupNext]_dedupVars
    PROVE  DedupInv'
<1>1. CASE UNCHANGED dedupVars
  BY <1>1 DEF dedupVars, DedupInv, DedupTypeOK, HeldFound
<1>2. CASE DedupNext
  BY <1>2, dedupPreserves, DropPreserves, CollectPreserves, pruneDeadBlobsPreserves DEF DedupNext
<1> QED BY <1>1, <1>2

\* The entries of a blob that the program has are found before all others.
LEMMA Invariance ==
    ASSUME DedupConstants
    PROVE  DedupSpec => []DedupInv
<1>1. DedupInit => DedupInv
  BY InitOK
<1>2. DedupInv /\ [DedupNext]_dedupVars => DedupInv'
  BY StepOK
<1> QED BY <1>1, <1>2, PTL DEF DedupSpec
-----------------------------------------------------------------------------
\* The first entry of a content refers to one blob only.
LEMMA InvDeduplicates ==
    ASSUME DedupConstants, DedupInv
    PROVE  Deduplicated
<1>1. ASSUME NEW a \in held
      PROVE  /\ dedup_table # <<>> /\ a # CLEARED
             /\ getFromHashArray(dedup_table, content[a]) # 0
             /\ dedup_table[BucketOf[content[a]]]
                    [getFromHashArray(dedup_table, content[a])].ref = a
  <2>1. /\ dedup_table # <<>> /\ a \in 1 .. Len(content) /\ content \in Seq(Contents)
        /\ dedup_table \in [Buckets -> Seq(DedupEntry)] /\ HeldFound
    BY DEF DedupInv, DedupTypeOK
  <2>2. dedup_table[BucketOf[content[a]]] \in Seq(DedupEntry)
    BY <2>1, ElementOfSeq DEF DedupConstants
  <2>3. FirstIs(dedup_table[BucketOf[content[a]]], content[a], a)
    BY <2>1 DEF HeldFound
  <2>4. a # CLEARED
    BY <2>1 DEF CLEARED
  <2> QED BY <2>1, <2>2, <2>3, <2>4, FirstIsFound
<1>2. \A a, b \in held : content[a] = content[b] => a = b
  <2> SUFFICES ASSUME NEW a \in held, NEW b \in held, content[a] = content[b] PROVE a = b
    OBVIOUS
  <2> QED BY <1>1
<1>3. \A b \in held : isBlobLive(content[b])
  BY <1>1 DEF isBlobLive, Dead
<1>4. dedup_table # <<>> =>
        \A k \in Buckets \ {0} : DeadOf(dedup_table[k]) \subseteq getDeadBlobs
  BY DEF getDeadBlobs
<1> QED BY <1>2, <1>3, <1>4 DEF Deduplicated

\* The program never has two blobs of the same content and finds each one that it has
\* alive, whatever is collected and pruned in between (internals.mo @dedup, prim.mo
\* isBlobLive, pruneDeadBlobs).
THEOREM OneBlobForAContent ==
    ASSUME DedupConstants
    PROVE  DedupSpec => []Deduplicated
<1>1. DedupInv => Deduplicated
  BY InvDeduplicates
<1> QED BY <1>1, Invariance, PTL

(***************************************************************************)
(* THE MARK BITMAP.  The invariant says up to which bit the marks have     *)
(* been visited, and that the bits of the current word are the marks from  *)
(* there to the end of the word, which the leading zeros lead to.          *)
(***************************************************************************)

\* The iterator is behind bit n - 1 and has loaded the bitmap up to a word boundary e.
UpTo(M, n, w, lz, e) ==
  /\ e \in Nat /\ (\E k \in Nat : e = k * WordBits) /\ e <= BIT_INDEX_END /\ n <= e
  /\ w = {} => e = n + lz
  /\ w # {} => \E x \in w : n + x + 1 + lz = e /\ \A y \in w : y <= x
  /\ \A m \in M : n <= m /\ m < e => m - n \in w
  /\ \A i \in w : n + i \in M

AtBit(M, n, w, lz) ==
  /\ n \in Nat /\ lz \in Nat /\ w \subseteq Nat
  /\ \E e : UpTo(M, n, w, lz, e)

\* The marks below an index.
MarksBelow(M, n) == {m \in M : m < n}

\* What has been visited, by where the iteration is.
IterationOK(M, loop, V, n, w, lz) ==
  \/ ~loop /\ n = BITMAP_ITERATION_END /\ V = M
  \/ loop /\ n = BIT_INDEX_END /\ V = M
  \/ loop /\ AtBit(M, n, w, lz) /\ V = MarksBelow(M, n)
  \/ ~loop /\ AtBit(M, n, w, lz) /\ n - 1 \in M /\ V = MarksBelow(M, n - 1)

\* The inductive invariant.
BitmapInv ==
  /\ marks \subseteq 0 .. BIT_INDEX_END - 1
  /\ visited \in Seq(Int) /\ \A i \in 1 .. Len(visited) - 1 : visited[i] < visited[i + 1]
  /\ \/ iterator = NotIterating /\ ~advancing /\ visited = <<>>
     \/ \E n, w, lz : /\ iterator = BitmapIterator(n, w, lz) /\ n \in Int /\ n # -2
                       /\ IterationOK(marks, advancing, ToSet(visited), n, w, lz)

\* The bitmap has a number of bits.
LEMMA BitsInBitmap == BIT_INDEX_END \in Nat /\ WordBits \in Nat /\ WordBits > 0
BY BitmapConstants DEF BIT_INDEX_END

\* A word that starts in the bitmap ends in it.
LEMMA WholeWords ==
    ASSUME NEW k \in Nat, k * WordBits < BIT_INDEX_END
    PROVE  k * WordBits + WordBits <= BIT_INDEX_END /\ k * WordBits + WordBits = (k + 1) * WordBits
<1>1. WordBits \in Nat /\ BitmapWords \in Nat
  BY BitmapConstants
<1>2. k < BitmapWords
  <2> SUFFICES ASSUME ~(k < BitmapWords) PROVE FALSE
    OBVIOUS
  <2>1. PICK d \in Nat : k = BitmapWords + d
    <3>1. k - BitmapWords \in Nat /\ k = BitmapWords + (k - BitmapWords)
      BY <1>1
    <3> QED BY <3>1
  <2>2. k * WordBits = BitmapWords * WordBits + d * WordBits /\ d * WordBits \in Nat
    BY <1>1, <2>1
  <2>3. BitmapWords * WordBits = BIT_INDEX_END
    BY <1>1 DEF BIT_INDEX_END
  <2> QED BY <2>2, <2>3, BitsInBitmap
<1>3. PICK d \in Nat : BitmapWords = k + 1 + d
  <2>1. BitmapWords - (k + 1) \in Nat /\ BitmapWords = k + 1 + (BitmapWords - (k + 1))
    BY <1>1, <1>2
  <2> QED BY <2>1
<1>4. /\ (k + 1 + d) * WordBits = (k * WordBits + WordBits) + d * WordBits /\ d * WordBits \in Nat
      /\ (k + 1) * WordBits = k * WordBits + WordBits /\ k * WordBits \in Nat
  BY <1>1
<1>5. BIT_INDEX_END = (k + 1 + d) * WordBits
  BY <1>1, <1>3 DEF BIT_INDEX_END
<1> HIDE DEF BIT_INDEX_END
<1> QED BY <1>1, <1>4, <1>5

\* The lowest and the highest one of a word.
LEMMA Extremes ==
    ASSUME NEW w, w \subseteq Nat, w # {}, NEW c \in Nat, \A i \in w : i <= c
    PROVE  /\ Min(w) \in w /\ \A i \in w : Min(w) <= i
           /\ Max(w) \in w /\ \A i \in w : i <= Max(w)
<1>1. Min(w) \in w /\ \A i \in w : Min(w) <= i
  BY LeastNumber DEF Min
<1>2. \E x \in w : \A i \in w : i <= x
  <2> DEFINE S == {c - i : i \in w}
  <2>1. S \subseteq Nat /\ S # {}
    <3>1. \A i \in w : i \in Nat /\ i <= c
      OBVIOUS
    <3>2. \A i \in w : c - i \in Nat
      BY <3>1
    <3> QED BY <3>2
  <2>2. PICK s \in S : \A y \in S : s <= y
    BY <2>1, LeastNumber
  <2>3. PICK x \in w : s = c - x
    BY <2>2
  <2>4. ASSUME NEW i \in w PROVE i <= x
    <3>1. s <= c - i
      BY <2>2
    <3> QED BY <2>3, <3>1
  <2> QED BY <2>4
<1> QED BY <1>1, <1>2 DEF Max

\* Shifting a word in two steps by one more than its trailing zeros drops the lowest one.
LEMMA TwoShifts ==
    ASSUME NEW w, w \subseteq Nat, NEW x \in Nat
    PROVE  /\ shifted(shifted(w, x), 1) \subseteq Nat
           /\ \A j \in Nat : j \in shifted(shifted(w, x), 1) <=> j + x + 1 \in w
<1> DEFINE v == shifted(w, x)
           u == shifted(v, 1)
<1>1. v = {i - x : i \in {j \in w : j >= x}}
  BY DEF shifted
<1>2. \A j \in Nat : j \in v <=> j + x \in w
  <2> SUFFICES ASSUME NEW j \in Nat PROVE j \in v <=> j + x \in w
    OBVIOUS
  <2>1. (j + x) - x = j /\ j + x >= x
    OBVIOUS
  <2>2. \A i \in w : i - x = j => i = j + x
    OBVIOUS
  <2> QED BY <1>1, <2>1, <2>2
<1>3. v \subseteq Nat
  BY <1>1
<1> HIDE DEF v
<1>4. u = {i - 1 : i \in {j \in v : j >= 1}}
  BY DEF shifted
<1>5. ASSUME NEW j \in Nat PROVE j \in u <=> j + 1 \in v
  <2>1. (j + 1) - 1 = j /\ j + 1 >= 1
    OBVIOUS
  <2>2. \A i \in v : i - 1 = j => i = j + 1
    BY <1>3
  <2> QED BY <1>4, <2>1, <2>2
<1>6. u \subseteq Nat
  BY <1>3, <1>4
<1>7. ASSUME NEW j \in Nat PROVE j \in u <=> j + x + 1 \in w
  <2>1. j + 1 \in Nat /\ (j + 1) + x = j + x + 1
    OBVIOUS
  <2> QED BY <1>2, <1>5, <2>1
<1> QED BY <1>6, <1>7 DEF v

\* The next bit of the current word: no mark is between the iterator and it.
LEMMA BitFound ==
    ASSUME NEW M, M \subseteq Nat, NEW n, NEW w, NEW lz, AtBit(M, n, w, lz), w # {},
           NEW x, x = trailing_zeros(w), NEW u, u = shifted(shifted(w, x), 1)
    PROVE  /\ AtBit(M, n + x + 1, u, lz) /\ n + x + 1 \in Nat
           /\ n + x \in M /\ MarksBelow(M, n + x) = MarksBelow(M, n)
           /\ x \in Nat
<1>1. n \in Nat /\ lz \in Nat /\ w \subseteq Nat
  BY DEF AtBit
<1>2. PICK e : UpTo(M, n, w, lz, e)
  BY DEF AtBit
<1>3. PICK z \in w : n + z + 1 + lz = e /\ \A y \in w : y <= z
  BY <1>2 DEF UpTo
<1>4. x \in w /\ x \in Nat /\ z \in Nat /\ \A i \in w : x <= i
  <2>1. z \in Nat
    BY <1>1
  <2> QED BY <1>1, <1>3, <2>1, Extremes DEF trailing_zeros
<1>5. /\ u \subseteq Nat
      /\ \A j \in Nat : j \in u <=> j + x + 1 \in w
  BY <1>1, <1>4, TwoShifts
<1>6. n + x \in M
  BY <1>2, <1>4 DEF UpTo
<1>7. MarksBelow(M, n + x) = MarksBelow(M, n)
  <2>1. ASSUME NEW m \in M, m < n + x PROVE m < n
    <3> SUFFICES ASSUME ~(m < n) PROVE FALSE
      OBVIOUS
    <3>1. m \in Nat /\ n <= m /\ m < e
      BY <1>1, <1>2, <1>3, <1>4, <2>1 DEF UpTo
    <3>2. m - n \in w
      BY <1>2, <3>1 DEF UpTo
    <3>3. x <= m - n
      BY <1>4, <3>2
    <3> QED BY <1>1, <1>4, <2>1, <3>1, <3>3
  <2>2. ASSUME NEW m \in M, m < n PROVE m < n + x
    BY <1>1, <1>4, <2>2
  <2> QED BY <2>1, <2>2 DEF MarksBelow
<1>8. e \in Nat /\ x <= z /\ n + x + 1 <= e /\ n + x + 1 \in Nat
  BY <1>1, <1>2, <1>3, <1>4 DEF UpTo
<1>9. UpTo(M, n + x + 1, u, lz, e)
  <2>1. u = {} => e = (n + x + 1) + lz
    <3> SUFFICES ASSUME u = {}, x # z PROVE FALSE
      BY <1>1, <1>3, <1>4
    <3>1. z - (x + 1) \in Nat /\ (z - (x + 1)) + x + 1 = z
      BY <1>4, <1>8
    <3> QED BY <1>5, <3>1
  <2>2. ASSUME u # {} PROVE \E y \in u : (n + x + 1) + y + 1 + lz = e /\ \A i \in u : i <= y
    <3>1. PICK i \in u : TRUE
      BY <2>2
    <3>2. i \in Nat /\ i + x + 1 <= z
      BY <1>3, <1>5, <3>1
    <3>3. z - (x + 1) \in Nat /\ (z - (x + 1)) + x + 1 = z
      BY <1>4, <3>2
    <3>4. z - (x + 1) \in u
      BY <1>5, <3>3
    <3>5. (n + x + 1) + (z - (x + 1)) + 1 + lz = e
      BY <1>1, <1>3, <1>4
    <3>6. ASSUME NEW j \in u PROVE j <= z - (x + 1)
      <4>1. j \in Nat /\ j + x + 1 <= z
        BY <1>3, <1>5
      <4> QED BY <1>4, <4>1
    <3> QED BY <3>4, <3>5, <3>6
  <2>3. ASSUME NEW m \in M, n + x + 1 <= m, m < e PROVE m - (n + x + 1) \in u
    <3>1. m \in Nat /\ n <= m
      BY <1>1, <1>4, <2>3
    <3>2. m - n \in w
      BY <1>2, <2>3, <3>1 DEF UpTo
    <3>3. m - (n + x + 1) \in Nat /\ (m - (n + x + 1)) + x + 1 = m - n
      BY <1>1, <1>4, <2>3, <3>1
    <3> QED BY <1>5, <3>2, <3>3
  <2>4. ASSUME NEW i \in u PROVE (n + x + 1) + i \in M
    <3>1. i \in Nat /\ i + x + 1 \in w
      BY <1>5
    <3>2. n + (i + x + 1) = (n + x + 1) + i
      BY <1>1, <1>4, <3>1
    <3> QED BY <1>2, <3>1, <3>2 DEF UpTo
  <2> QED BY <1>2, <1>8, <2>1, <2>2, <2>3, <2>4 DEF UpTo
<1> QED BY <1>1, <1>4, <1>5, <1>6, <1>7, <1>8, <1>9 DEF AtBit

\* The next word: up to its first bit there is no mark left.
LEMMA WordLoaded ==
    ASSUME NEW n, NEW lz, AtBit(marks, n, {}, lz), marks \subseteq Nat,
           NEW index, index = n + lz, index < BIT_INDEX_END
    PROVE  /\ AtBit(marks, index, Word(index), leading_zeros_of(Word(index)))
           /\ MarksBelow(marks, index) = MarksBelow(marks, n)
<1> DEFINE w == Word(index)
<1>1. n \in Nat /\ lz \in Nat /\ index \in Nat
  BY DEF AtBit
<1>2. UpTo(marks, n, {}, lz, index)
  BY DEF AtBit, UpTo
<1>3. MarksBelow(marks, index) = MarksBelow(marks, n)
  <2>1. ASSUME NEW m \in marks PROVE m < index <=> m < n
    <3>1. n <= m /\ m < index => m - n \in {}
      BY <1>2 DEF UpTo
    <3>2. m \in Nat /\ n <= index
      BY <1>1
    <3> QED BY <1>1, <3>1, <3>2
  <2> QED BY <2>1 DEF MarksBelow
<1>4. PICK k \in Nat : index = k * WordBits
  BY <1>2 DEF UpTo
<1> DEFINE e == index + WordBits
<1>5. e \in Nat /\ e <= BIT_INDEX_END /\ \E j \in Nat : e = j * WordBits
  <2>1. e <= BIT_INDEX_END /\ e = (k + 1) * WordBits
    BY <1>4, WholeWords
  <2>2. e \in Nat
    BY <1>1, BitsInBitmap
  <2>3. k + 1 \in Nat
    OBVIOUS
  <2> HIDE DEF e
  <2> QED BY <2>1, <2>2, <2>3
<1>6. w = {i \in 0 .. WordBits - 1 : index + i \in marks}
  BY DEF Word
<1>7. \A m \in marks : index <= m /\ m < e => m - index \in w
  <2> SUFFICES ASSUME NEW m \in marks, index <= m, m < e PROVE m - index \in w
    OBVIOUS
  <2>1. m - index \in 0 .. WordBits - 1 /\ index + (m - index) = m
    BY <1>1, BitsInBitmap
  <2> QED BY <1>6, <2>1
<1>8. \A i \in w : index + i \in marks
  BY <1>6
<1>9. CASE w = {}
  <2>1. leading_zeros_of(w) = WordBits
    BY <1>9 DEF leading_zeros_of
  <2>2. UpTo(marks, index, w, WordBits, e)
    <3>1. index <= e /\ e = index + WordBits
      BY <1>1, BitsInBitmap
    <3> HIDE DEF e, w
    <3> QED BY <1>5, <1>7, <1>8, <1>9, <3>1 DEF UpTo
  <2> QED BY <1>1, <1>3, <1>9, <2>1, <2>2, BitsInBitmap DEF AtBit
<1>10. CASE w # {}
  <2>1. w \subseteq Nat /\ \A i \in w : i <= WordBits - 1
    BY <1>6, BitsInBitmap
  <2>2. Max(w) \in w /\ \A i \in w : i <= Max(w)
    <3>1. WordBits - 1 \in Nat
      BY BitsInBitmap
    <3> HIDE DEF w
    <3> QED BY <1>10, <2>1, <3>1, Extremes
  <2>3. leading_zeros_of(w) = WordBits - 1 - Max(w)
    BY <1>10 DEF leading_zeros_of
  <2>4. WordBits - 1 - Max(w) \in Nat /\ index + Max(w) + 1 + (WordBits - 1 - Max(w)) = e /\ index <= e
    BY <1>1, <2>1, <2>2, BitsInBitmap
  <2>5. UpTo(marks, index, w, WordBits - 1 - Max(w), e)
    BY <1>5, <1>7, <1>8, <1>10, <2>2, <2>4 DEF UpTo
  <2> QED BY <1>1, <1>3, <2>1, <2>3, <2>4, <2>5 DEF AtBit
<1> QED BY <1>9, <1>10

\* The fields of an iterator.
LEMMA IteratorFields ==
    ASSUME NEW n, NEW w, NEW lz
    PROVE  /\ BitmapIterator(n, w, lz).next_bit_index = n
           /\ BitmapIterator(n, w, lz).current_word = w
           /\ BitmapIterator(n, w, lz).leading_zeros = lz
           /\ BitmapIterator(n, w, lz) = NotIterating => n = -2
BY DEF BitmapIterator, NotIterating

\* At first nothing is marked.
LEMMA BitmapBegins == BitmapInit => BitmapInv
<1> SUFFICES ASSUME BitmapInit PROVE BitmapInv
  OBVIOUS
<1>1. <<>> \in Seq(Int) /\ \A i \in 1 .. Len(<<>>) - 1 : <<>>[i] < <<>>[i + 1]
  OBVIOUS
<1> QED BY <1>1 DEF BitmapInit, BitmapInv

\* The iterator when there is one.
LEMMA ThereIsAnIterator ==
    ASSUME BitmapInv, iterator # NotIterating
    PROVE  /\ iterator = BitmapIterator(iterator.next_bit_index, iterator.current_word,
                                        iterator.leading_zeros)
           /\ iterator.next_bit_index \in Int /\ iterator.next_bit_index # -2
           /\ IterationOK(marks, advancing, ToSet(visited), iterator.next_bit_index,
                          iterator.current_word, iterator.leading_zeros)
BY IteratorFields DEF BitmapInv

\* In the loop of next there is an iterator.
LEMMA LoopHasIterator ==
    ASSUME BitmapInv, advancing
    PROVE  iterator # NotIterating
<1>1. PICK n, w, lz : iterator = BitmapIterator(n, w, lz) /\ n # -2
  BY DEF BitmapInv
<1> QED BY <1>1, IteratorFields

\* A mark is set before the iteration.
LEMMA MarkPreserves == BitmapInv /\ mark => BitmapInv'
<1> SUFFICES ASSUME BitmapInv, mark PROVE BitmapInv'
  OBVIOUS
<1>1. /\ iterator = NotIterating /\ iterator' = iterator /\ advancing' = advancing
      /\ visited' = visited
  BY DEF mark
<1>2. marks' \subseteq 0 .. BIT_INDEX_END - 1
  BY DEF mark, BitmapInv
<1>3. ~advancing /\ visited = <<>>
  BY <1>1, IteratorFields DEF BitmapInv
<1> QED BY <1>1, <1>2, <1>3 DEF BitmapInv

\* The iteration begins in front of the first word.
LEMMA IteratePreserves == BitmapInv /\ iterate => BitmapInv'
<1> SUFFICES ASSUME BitmapInv, iterate PROVE BitmapInv'
  OBVIOUS
<1>1. /\ iterator = NotIterating /\ iterator' = BitmapIterator(0, {}, 0) /\ advancing'
      /\ marks' = marks /\ visited' = visited
  BY DEF iterate
<1>2. visited = <<>>
  BY <1>1, IteratorFields DEF BitmapInv
<1>3. UpTo(marks, 0, {}, 0, 0)
  <2>1. 0 \in Nat /\ 0 = 0 * WordBits /\ 0 <= BIT_INDEX_END /\ 0 <= 0 /\ 0 = 0 + 0
    BY BitsInBitmap
  <2>2. \A m \in marks : ~(0 <= m /\ m < 0)
    BY DEF BitmapInv
  <2> QED BY <2>1, <2>2 DEF UpTo
<1>4. AtBit(marks, 0, {}, 0)
  BY <1>3 DEF AtBit
<1>5. ToSet(visited) = MarksBelow(marks, 0)
  <2>1. ToSet(visited) = {}
    BY <1>2 DEF ToSet
  <2>2. \A m \in marks : ~(m < 0)
    BY BitsInBitmap DEF BitmapInv
  <2> QED BY <2>1, <2>2 DEF MarksBelow
<1>6. IterationOK(marks', advancing', ToSet(visited'), 0, {}, 0)
  BY <1>1, <1>4, <1>5 DEF IterationOK
<1>7. 0 \in Int /\ 0 # -2
  OBVIOUS
<1> QED BY <1>1, <1>6, <1>7 DEF BitmapInv

\* An offset is returned: it is behind those that were.
LEMMA NextPreserves == BitmapInv /\ next => BitmapInv'
<1> SUFFICES ASSUME BitmapInv, next PROVE BitmapInv'
  OBVIOUS
<1> DEFINE n == iterator.next_bit_index
           w == iterator.current_word
           lz == iterator.leading_zeros
<1>1. /\ iterator # NotIterating /\ ~advancing /\ current_marked_offset # BITMAP_ITERATION_END
      /\ visited' = Append(visited, current_marked_offset) /\ advancing'
      /\ marks' = marks /\ iterator' = iterator
  BY DEF next
<1>2. /\ iterator = BitmapIterator(n, w, lz) /\ n \in Int /\ n # -2
      /\ IterationOK(marks, advancing, ToSet(visited), n, w, lz)
  BY <1>1, ThereIsAnIterator
<1>3. n # BITMAP_ITERATION_END /\ current_marked_offset = n - 1
  BY <1>1 DEF current_marked_offset
<1>4. AtBit(marks, n, w, lz) /\ n - 1 \in marks /\ ToSet(visited) = MarksBelow(marks, n - 1)
  BY <1>1, <1>2, <1>3 DEF IterationOK
<1>5. visited \in Seq(Int) /\ Len(visited) \in Nat /\ marks \subseteq Nat
  BY BitsInBitmap, LenProperties DEF BitmapInv
<1>6. /\ visited' \in Seq(Int) /\ Len(visited') = Len(visited) + 1
      /\ \A i \in 1 .. Len(visited) : visited'[i] = visited[i]
      /\ visited'[Len(visited) + 1] = n - 1
  BY <1>1, <1>2, <1>3, <1>5, AppendProperties
<1>7. ToSet(visited') = ToSet(visited) \cup {n - 1}
  <2>1. DOMAIN visited' = 1 .. Len(visited) + 1 /\ DOMAIN visited = 1 .. Len(visited)
    BY <1>5, <1>6, LenProperties
  <2>2. 1 .. Len(visited) + 1 = (1 .. Len(visited)) \cup {Len(visited) + 1}
    BY <1>5
  <2> QED BY <1>6, <2>1, <2>2 DEF ToSet
<1>8. ToSet(visited') = MarksBelow(marks, n)
  <2>1. \A m \in marks : m < n <=> (m < n - 1 \/ m = n - 1)
    BY <1>2, <1>5
  <2> QED BY <1>4, <1>7, <2>1 DEF MarksBelow
<1>9. \A i \in 1 .. Len(visited') - 1 : visited'[i] < visited'[i + 1]
  <2> SUFFICES ASSUME NEW i \in 1 .. Len(visited) PROVE visited'[i] < visited'[i + 1]
    BY <1>5, <1>6
  <2>1. CASE i = Len(visited)
    <3>1. visited[i] \in ToSet(visited)
      BY <1>5, LenProperties DEF ToSet
    <3>2. visited[i] < n - 1
      BY <1>4, <3>1 DEF MarksBelow
    <3> QED BY <1>6, <2>1, <3>2
  <2>2. CASE i # Len(visited)
    <3>1. i \in 1 .. Len(visited) - 1 /\ i + 1 \in 1 .. Len(visited)
      BY <1>5, <2>2
    <3> QED BY <1>6, <3>1 DEF BitmapInv
  <2> QED BY <2>1, <2>2
<1>10. IterationOK(marks', advancing', ToSet(visited'), n, w, lz)
  BY <1>1, <1>4, <1>8 DEF IterationOK
<1> QED BY <1>1, <1>2, <1>6, <1>9, <1>10 DEF BitmapInv

\* A step of the loop leaves marks and visited offsets alone.
LEMMA LoopPreserves ==
    ASSUME BitmapInv, UNCHANGED <<marks, visited>>, NEW n \in Int, NEW w, NEW lz,
           iterator' = BitmapIterator(n, w, lz), n # -2,
           IterationOK(marks', advancing', ToSet(visited'), n, w, lz)
    PROVE  BitmapInv'
BY DEF BitmapInv

\* The loop ends at the next bit of the word.
LEMMA NextBitPreserves == BitmapInv /\ next_bit => BitmapInv'
<1> SUFFICES ASSUME BitmapInv, next_bit PROVE BitmapInv'
  OBVIOUS
<1> DEFINE n == iterator.next_bit_index
           w == iterator.current_word
           lz == iterator.leading_zeros
           x == trailing_zeros(w)
           u == shifted(shifted(w, x), 1)
<1>1. /\ advancing /\ n < BIT_INDEX_END /\ w # {} /\ ~advancing' /\ UNCHANGED <<marks, visited>>
      /\ iterator' = [iterator EXCEPT !.current_word = shifted(shifted(@, x), 1),
                                      !.next_bit_index = @ + x + 1]
  BY DEF next_bit
<1>2. /\ iterator = BitmapIterator(n, w, lz) /\ n \in Int
      /\ IterationOK(marks, advancing, ToSet(visited), n, w, lz)
  <2>1. iterator # NotIterating
    BY <1>1, LoopHasIterator
  <2> QED BY <2>1, ThereIsAnIterator
<1>3. iterator' = BitmapIterator(n + x + 1, u, lz)
  BY <1>1, <1>2 DEF BitmapIterator
<1>4. AtBit(marks, n, w, lz) /\ ToSet(visited) = MarksBelow(marks, n) /\ marks \subseteq Nat
  BY <1>1, <1>2, BitsInBitmap DEF IterationOK, BitmapInv
<1> HIDE DEF n, w, lz, x, u
<1>5. /\ AtBit(marks, n + x + 1, u, lz) /\ n + x + 1 \in Nat
      /\ n + x \in marks /\ MarksBelow(marks, n + x) = MarksBelow(marks, n) /\ x \in Nat
  BY <1>1, <1>4, BitFound DEF x, u
<1>6. (n + x + 1) - 1 = n + x
  BY <1>2, <1>5
<1>7. IterationOK(marks', advancing', ToSet(visited'), n + x + 1, u, lz)
  BY <1>1, <1>4, <1>5, <1>6 DEF IterationOK
<1>8. n + x + 1 \in Int /\ n + x + 1 # -2
  BY <1>5
<1> QED BY <1>1, <1>3, <1>7, <1>8, LoopPreserves

\* The loop goes on with the next word, or is behind the last one.
LEMMA NextWordPreserves == BitmapInv /\ next_word => BitmapInv'
<1> SUFFICES ASSUME BitmapInv, next_word PROVE BitmapInv'
  OBVIOUS
<1> DEFINE n == iterator.next_bit_index
           w == iterator.current_word
           lz == iterator.leading_zeros
           index == n + lz
<1>1. /\ advancing /\ n < BIT_INDEX_END /\ w = {} /\ UNCHANGED <<marks, visited, advancing>>
      /\ iterator' = IF index < BIT_INDEX_END
                     THEN BitmapIterator(index, Word(index), leading_zeros_of(Word(index)))
                     ELSE [iterator EXCEPT !.next_bit_index = index]
  BY DEF next_word
<1>2. /\ iterator = BitmapIterator(n, w, lz) /\ n \in Int
      /\ IterationOK(marks, advancing, ToSet(visited), n, w, lz)
  <2>1. iterator # NotIterating
    BY <1>1, LoopHasIterator
  <2> QED BY <2>1, ThereIsAnIterator
<1>3. AtBit(marks, n, {}, lz) /\ ToSet(visited) = MarksBelow(marks, n) /\ marks \subseteq 0 .. BIT_INDEX_END - 1
  BY <1>1, <1>2, BitsInBitmap DEF IterationOK, BitmapInv
<1>4. [iterator EXCEPT !.next_bit_index = index] = BitmapIterator(index, w, lz)
  BY <1>2 DEF BitmapIterator
<1> HIDE DEF n, w, lz
<1>5. index \in Nat /\ UpTo(marks, n, {}, lz, index)
  BY <1>3 DEF AtBit, UpTo
<1>6. CASE index < BIT_INDEX_END
  <2>1. /\ AtBit(marks, index, Word(index), leading_zeros_of(Word(index)))
        /\ MarksBelow(marks, index) = MarksBelow(marks, n)
    BY <1>3, <1>6, BitsInBitmap, WordLoaded
  <2>2. IterationOK(marks', advancing', ToSet(visited'), index, Word(index), leading_zeros_of(Word(index)))
    BY <1>1, <1>3, <2>1 DEF IterationOK, Word
  <2>3. index \in Int /\ index # -2
    BY <1>5
  <2>4. iterator' = BitmapIterator(index, Word(index), leading_zeros_of(Word(index)))
    BY <1>1, <1>6
  <2> HIDE DEF index
  <2> QED BY <1>1, <2>2, <2>3, <2>4, LoopPreserves
<1>7. CASE ~(index < BIT_INDEX_END)
  <2>1. index = BIT_INDEX_END
    BY <1>5, <1>7, BitsInBitmap DEF UpTo
  <2>2. \A m \in marks : m < n
    <3> SUFFICES ASSUME NEW m \in marks, ~(m < n) PROVE FALSE
      OBVIOUS
    <3>1. n <= m /\ m < index
      BY <1>2, <1>3, <2>1, BitsInBitmap
    <3> QED BY <1>5, <3>1 DEF UpTo
  <2>3. ToSet(visited) = marks
    BY <1>3, <2>2 DEF MarksBelow
  <2>4. IterationOK(marks', advancing', ToSet(visited'), index, w, lz)
    BY <1>1, <2>1, <2>3 DEF IterationOK
  <2>5. index \in Int /\ index # -2
    BY <1>5
  <2> QED BY <1>1, <1>4, <1>7, <2>4, <2>5, LoopPreserves
<1> QED BY <1>6, <1>7

\* The loop ends behind the last word.
LEMMA NextEndPreserves == BitmapInv /\ next_end => BitmapInv'
<1> SUFFICES ASSUME BitmapInv, next_end PROVE BitmapInv'
  OBVIOUS
<1> DEFINE n == iterator.next_bit_index
           w == iterator.current_word
           lz == iterator.leading_zeros
<1>1. /\ advancing /\ n >= BIT_INDEX_END /\ UNCHANGED <<marks, visited>> /\ ~advancing'
      /\ iterator' = [iterator EXCEPT !.next_bit_index = BITMAP_ITERATION_END]
  BY DEF next_end
<1>2. /\ iterator = BitmapIterator(n, w, lz) /\ n \in Int
      /\ IterationOK(marks, advancing, ToSet(visited), n, w, lz)
  <2>1. iterator # NotIterating
    BY <1>1, LoopHasIterator
  <2> QED BY <2>1, ThereIsAnIterator
<1>3. iterator' = BitmapIterator(BITMAP_ITERATION_END, w, lz)
  BY <1>1, <1>2 DEF BitmapIterator
<1>4. ToSet(visited) = marks
  <2>1. CASE ToSet(visited) = MarksBelow(marks, n)
    <3>1. \A m \in marks : m < n
      BY <1>1, <1>2, BitsInBitmap DEF BitmapInv
    <3> QED BY <2>1, <3>1 DEF MarksBelow
  <2> QED BY <1>1, <1>2, <2>1 DEF IterationOK
<1>5. IterationOK(marks', advancing', ToSet(visited'), BITMAP_ITERATION_END, w, lz)
  BY <1>1, <1>4 DEF IterationOK
<1>6. BITMAP_ITERATION_END \in Int /\ BITMAP_ITERATION_END # -2
  BY DEF BITMAP_ITERATION_END
<1> QED BY <1>1, <1>3, <1>5, <1>6, LoopPreserves

\* The bitmap is used again.
LEMMA AssignPreserves == BitmapInv /\ assign => BitmapInv'
<1> SUFFICES ASSUME BitmapInv, assign PROVE BitmapInv'
  OBVIOUS
<1>1. marks' = {} /\ iterator' = NotIterating /\ visited' = <<>> /\ ~advancing'
  BY DEF assign
<1>2. <<>> \in Seq(Int) /\ \A i \in 1 .. Len(<<>>) - 1 : <<>>[i] < <<>>[i + 1]
  OBVIOUS
<1> QED BY <1>1, <1>2 DEF BitmapInv

\* What the invariant says between two calls of next.
LEMMA BitmapInvVisits == BitmapInv => VisitsMarks
<1> SUFFICES ASSUME BitmapInv, iterator # NotIterating, ~advancing
             PROVE  LET rest == IF current_marked_offset = BITMAP_ITERATION_END THEN {}
                                ELSE {o \in marks : o >= current_marked_offset}
                    IN  /\ ToSet(visited) = marks \ rest
                        /\ current_marked_offset # BITMAP_ITERATION_END => current_marked_offset \in marks
  BY DEF VisitsMarks, BitmapInv
<1> DEFINE n == iterator.next_bit_index
           w == iterator.current_word
           lz == iterator.leading_zeros
<1>1. n \in Int /\ IterationOK(marks, advancing, ToSet(visited), n, w, lz) /\ marks \subseteq Nat
  BY ThereIsAnIterator, BitsInBitmap DEF BitmapInv
<1>2. CASE n = BITMAP_ITERATION_END
  <2>1. current_marked_offset = BITMAP_ITERATION_END
    BY <1>2 DEF current_marked_offset
  <2>2. ToSet(visited) = marks
    BY <1>1, <1>2 DEF IterationOK, AtBit, BITMAP_ITERATION_END
  <2> QED BY <2>1, <2>2
<1>3. CASE n # BITMAP_ITERATION_END
  <2>1. current_marked_offset = n - 1 /\ n - 1 \in marks /\ ToSet(visited) = MarksBelow(marks, n - 1)
    BY <1>1, <1>3 DEF IterationOK, current_marked_offset
  <2>2. \A m \in marks : m < n - 1 <=> ~(m >= n - 1)
    BY <1>1
  <2>3. n - 1 # BITMAP_ITERATION_END
    BY <1>1, <2>1 DEF BITMAP_ITERATION_END
  <2> QED BY <2>1, <2>2, <2>3 DEF MarksBelow
<1> QED BY <1>2, <1>3

\* The bitmap iterator (mark_bitmap.rs next): whatever is marked, of words and bitmaps of
\* any size, it stops at each mark once, in their order, and at nothing else.
THEOREM BitmapVisitsMarks == BitmapSpec => []VisitsMarks
<1>1. BitmapInit => BitmapInv
  BY BitmapBegins
<1>2. BitmapInv /\ [BitmapNext]_bitmapVars => BitmapInv'
  <2>1. ASSUME BitmapInv, UNCHANGED bitmapVars PROVE BitmapInv'
    BY <2>1 DEF bitmapVars, BitmapInv, IterationOK
  <2> QED BY <2>1, MarkPreserves, IteratePreserves, NextPreserves, NextBitPreserves,
             NextWordPreserves, NextEndPreserves, AssignPreserves DEF BitmapNext
<1>3. BitmapInv => VisitsMarks
  BY BitmapInvVisits
<1> QED BY <1>1, <1>2, <1>3, PTL DEF BitmapSpec

(***************************************************************************)
(* THE REMEMBERED SET.  The invariant follows the stack of growths: the    *)
(* values of a table that grows are those of the next larger one and those *)
(* its iterator has yet to yield, and no value is in both.                 *)
(***************************************************************************)

HashTable(t) ==
  /\ t \in Seq(Seq(SetValues)) /\ Len(t) > 0
  /\ \A i \in 1 .. Len(t) : \A p \in 1 .. Len(t[i]) :
       /\ hash_index(t, t[i][p]) = i
       /\ \A q \in 1 .. Len(t[i]) : t[i][p] = t[i][q] => p = q

ValuesOf(t) == {v \in SetValues : \E i \in 1 .. Len(t) : \E p \in 1 .. Len(t[i]) : t[i][p] = v}

\* The values of the lists behind list h.
ValuesBehind(t, h) ==
  {v \in SetValues : \E i \in 1 .. Len(t) : i > h /\ \E p \in 1 .. Len(t[i]) : t[i][p] = v}

\* The values of a list from a position on.
ListFrom(t, h, e) == {v \in SetValues : \E p \in 1 .. Len(t[h]) : p >= e /\ t[h][p] = v}

\* What an iterator has yet to yield.
Rest(it) == IF it.entry = 0 THEN {}
            ELSE ListFrom(it.hash_table, it.hash_index, it.entry)
                 \cup ValuesBehind(it.hash_table, it.hash_index)

Growth == [hash_table : Seq(Seq(SetValues)), hash_index : Nat, entry : Nat, old_count : Nat]

IteratorOK(it) ==
  /\ it \in Growth /\ HashTable(it.hash_table)
  /\ it.entry # 0 => /\ it.hash_index \in 1 .. Len(it.hash_table)
                     /\ it.entry \in 1 .. Len(it.hash_table[it.hash_index])

Counts(t, c) == IsFiniteSet(ValuesOf(t)) /\ c = Cardinality(ValuesOf(t))

Splits(A, B, C) == A = B \cup C /\ B \cap C = {}

\* The values of the k-th table outwards, S being those of the current one.
Level(S, G, k) == IF k = 0 THEN S ELSE ValuesOf(G[k].hash_table)

GrowthsOK(S, G) ==
  /\ G \in Seq(Growth)
  /\ \A k \in 1 .. Len(G) : /\ IteratorOK(G[k]) /\ Counts(G[k].hash_table, G[k].old_count)
                            /\ Splits(Level(S, G, k), Level(S, G, k - 1), Rest(G[k]))

\* The inductive invariant.
SetInv ==
  /\ HashTable(hash_table) /\ Counts(hash_table, count)
  /\ GrowthsOK(ValuesOf(hash_table), growths)
  /\ inserted = Level(ValuesOf(hash_table), growths, Len(growths))

\* A value has an index in the table.
LEMMA HashIndexInTable ==
    ASSUME NEW t, HashTable(t), NEW v \in SetValues
    PROVE  Len(t) \in Nat /\ hash_index(t, v) \in 1 .. Len(t)
<1>1. Len(t) \in Nat /\ Len(t) > 0
  BY LenProperties DEF HashTable
<1>2. v \in Nat
  BY SetConstants
<1> QED BY <1>1, <1>2 DEF hash_index

\* The search of insert finds the values of the table.
LEMMA ContainsIsIn ==
    ASSUME NEW t, HashTable(t), NEW v \in SetValues
    PROVE  contains(t, v) <=> v \in ValuesOf(t)
<1>1. hash_index(t, v) \in 1 .. Len(t)
  BY HashIndexInTable
<1>2. \A i \in 1 .. Len(t) : t[i] \in Seq(SetValues) /\ DOMAIN t[i] = 1 .. Len(t[i])
  BY ElementOfSeq, LenProperties DEF HashTable
<1>3. ASSUME contains(t, v) PROVE v \in ValuesOf(t)
  BY <1>1, <1>2, <1>3 DEF contains, ValuesOf
<1>4. ASSUME v \in ValuesOf(t) PROVE contains(t, v)
  <2>1. PICK i \in 1 .. Len(t) : \E p \in 1 .. Len(t[i]) : t[i][p] = v
    BY <1>4 DEF ValuesOf
  <2>2. PICK p \in 1 .. Len(t[i]) : t[i][p] = v
    BY <2>1
  <2>3. hash_index(t, v) = i
    BY <2>2 DEF HashTable
  <2> QED BY <1>2, <2>2, <2>3 DEF contains
<1> QED BY <1>3, <1>4

\* A new table is empty.
LEMMA NewTableIsEmpty ==
    ASSUME NEW n \in Nat \ {0}
    PROVE  /\ HashTable(new_hash_table(n)) /\ Len(new_hash_table(n)) = n
           /\ ValuesOf(new_hash_table(n)) = {} /\ Counts(new_hash_table(n), 0)
<1> DEFINE t == new_hash_table(n)
<1>1. t \in Seq(Seq(SetValues)) /\ Len(t) = n /\ \A i \in 1 .. n : t[i] = <<>>
  BY DEF new_hash_table
<1>2. Len(<<>>) = 0
  OBVIOUS
<1> HIDE DEF t
<1>3. HashTable(t)
  BY <1>1, <1>2 DEF HashTable
<1>4. ValuesOf(t) = {}
  BY SMTT(30), <1>1, <1>2 DEF ValuesOf
<1>5. Counts(t, 0)
  BY <1>4, FS_EmptySet DEF Counts
<1> QED BY <1>1, <1>3, <1>4, <1>5 DEF t

\* A value that the table lacks is added to it.
LEMMA AddedToTable ==
    ASSUME NEW t, HashTable(t), NEW v \in SetValues, ~contains(t, v), NEW c, Counts(t, c)
    PROVE  /\ HashTable(added(t, v)) /\ Len(added(t, v)) = Len(t)
           /\ ValuesOf(added(t, v)) = ValuesOf(t) \cup {v}
           /\ Counts(added(t, v), c + 1)
<1> DEFINE h == hash_index(t, v)
           u == added(t, v)
<1>1. Len(t) \in Nat /\ h \in 1 .. Len(t) /\ v \notin ValuesOf(t)
  BY HashIndexInTable, ContainsIsIn
<1>2. \A i \in 1 .. Len(t) : t[i] \in Seq(SetValues) /\ Len(t[i]) \in Nat
  BY ElementOfSeq, LenProperties DEF HashTable
<1>3. t \in Seq(Seq(SetValues)) /\ DOMAIN t = 1 .. Len(t)
  BY LenProperties DEF HashTable
<1>4. Append(t[h], v) \in Seq(SetValues)
  BY <1>1, <1>2, AppendProperties
<1>5. /\ u \in Seq(Seq(SetValues)) /\ Len(u) = Len(t)
      /\ u[h] = Append(t[h], v) /\ \A i \in 1 .. Len(t) : i # h => u[i] = t[i]
  BY <1>1, <1>3, <1>4, ExceptSeq DEF added
<1>6. /\ Len(u[h]) = Len(t[h]) + 1 /\ u[h][Len(t[h]) + 1] = v
      /\ \A p \in 1 .. Len(t[h]) : u[h][p] = t[h][p]
  BY <1>1, <1>2, <1>5, AppendProperties
<1>7. \A x : hash_index(u, x) = hash_index(t, x)
  BY <1>5 DEF hash_index
<1>8. Len(u) > 0 /\ h = hash_index(t, v)
  BY <1>5 DEF HashTable
<1> HIDE DEF u, h
<1>9. \A p \in 1 .. Len(t[h]) : t[h][p] # v
  BY <1>1 DEF ValuesOf
<1>10. HashTable(u)
  <2> SUFFICES ASSUME NEW i \in 1 .. Len(t), NEW p \in 1 .. Len(u[i])
               PROVE  /\ hash_index(u, u[i][p]) = i
                      /\ \A q \in 1 .. Len(u[i]) : u[i][p] = u[i][q] => p = q
    BY <1>5, <1>8 DEF HashTable
  <2>1. CASE i # h
    <3>1. u[i] = t[i]
      BY <1>5, <2>1
    <3> QED BY <1>7, <3>1 DEF HashTable
  <2>2. CASE i = h /\ p = Len(t[h]) + 1
    <3>1. u[i][p] = v /\ hash_index(u, v) = h
      BY <1>6, <1>7, <1>8, <2>2
    <3>2. \A q \in 1 .. Len(u[i]) : q # p => q \in 1 .. Len(t[h])
      BY <1>1, <1>2, <1>6, <2>2
    <3> QED BY <1>6, <1>9, <2>2, <3>1, <3>2
  <2>3. CASE i = h /\ p # Len(t[h]) + 1
    <3>1. p \in 1 .. Len(t[h]) /\ u[i][p] = t[h][p]
      BY <1>1, <1>2, <1>6, <2>3
    <3>2. hash_index(t, t[h][p]) = h
      BY <1>1, <3>1 DEF HashTable
    <3>3. ASSUME NEW q \in 1 .. Len(u[i]), u[i][p] = u[i][q] PROVE p = q
      <4>1. CASE q = Len(t[h]) + 1
        BY <1>6, <1>9, <2>3, <3>1, <3>3, <4>1
      <4>2. CASE q # Len(t[h]) + 1
        <5>1. q \in 1 .. Len(t[h]) /\ u[i][q] = t[h][q]
          BY <1>1, <1>2, <1>6, <2>3, <4>2
        <5> QED BY <1>1, <3>1, <3>3, <5>1 DEF HashTable
      <4> QED BY <4>1, <4>2
    <3> QED BY <1>7, <2>3, <3>1, <3>2, <3>3
  <2> QED BY <2>1, <2>2, <2>3
<1>11. ValuesOf(u) = ValuesOf(t) \cup {v}
  <2>1. ASSUME NEW x \in ValuesOf(u) PROVE x \in ValuesOf(t) \cup {v}
    <3>1. PICK i \in 1 .. Len(t) : \E p \in 1 .. Len(u[i]) : u[i][p] = x
      BY <1>5, <2>1 DEF ValuesOf
    <3>2. PICK p \in 1 .. Len(u[i]) : u[i][p] = x
      BY <3>1
    <3>3. CASE i # h
      <4>1. u[i] = t[i]
        BY <1>5, <3>3
      <4> QED BY <2>1, <3>2, <4>1 DEF ValuesOf
    <3>4. CASE i = h /\ p = Len(t[h]) + 1
      BY <1>6, <3>2, <3>4
    <3>5. CASE i = h /\ p # Len(t[h]) + 1
      <4>1. p \in 1 .. Len(t[h]) /\ t[h][p] = x
        BY <1>1, <1>2, <1>6, <3>2, <3>5
      <4> QED BY <1>1, <2>1, <4>1 DEF ValuesOf
    <3> QED BY <3>3, <3>4, <3>5
  <2>2. v \in ValuesOf(u)
    <3>1. Len(t[h]) + 1 \in 1 .. Len(u[h]) /\ h \in 1 .. Len(u)
      BY <1>1, <1>2, <1>5, <1>6
    <3> QED BY <1>6, <3>1 DEF ValuesOf
  <2>3. ASSUME NEW x \in ValuesOf(t) PROVE x \in ValuesOf(u)
    <3>1. PICK i \in 1 .. Len(t) : \E p \in 1 .. Len(t[i]) : t[i][p] = x
      BY <2>3 DEF ValuesOf
    <3>2. PICK p \in 1 .. Len(t[i]) : t[i][p] = x
      BY <3>1
    <3>3. p \in 1 .. Len(u[i]) /\ u[i][p] = t[i][p]
      <4>1. CASE i # h
        BY <1>5, <4>1
      <4>2. CASE i = h
        BY <1>1, <1>2, <1>6, <4>2
      <4> QED BY <4>1, <4>2
    <3> QED BY <1>5, <2>3, <3>2, <3>3 DEF ValuesOf
  <2> QED BY <2>1, <2>2, <2>3
<1>12. Counts(u, c + 1)
  BY <1>1, <1>11, FS_AddElement DEF Counts
<1> QED BY <1>5, <1>10, <1>11, <1>12 DEF u

\* The iterator skips to the next list with values.
LEMMA SkipFree ==
    ASSUME NEW t, HashTable(t), NEW h \in 1 .. Len(t), NEW c \in Nat
    PROVE  LET it == skip_free(Iterator(t, h, 0, c))
           IN  /\ IteratorOK(it) /\ it.hash_table = t /\ it.old_count = c
               /\ Rest(it) = ValuesBehind(t, h)
<1> DEFINE it == skip_free(Iterator(t, h, 0, c))
           S == {i \in h + 1 .. Len(t) : t[i] # <<>>} \cup {Len(t) + 1}
           n == Min(S)
<1>1. Len(t) \in Nat /\ h \in Nat /\ h <= Len(t) /\ h >= 1
  BY LenProperties DEF HashTable
<1>2. S \subseteq Nat /\ S # {}
  BY <1>1
<1>3. n \in S /\ \A i \in S : n <= i
  <2> HIDE DEF S
  <2> QED BY <1>2, LeastIndex
<1>4. n \in Nat /\ n > h /\ n <= Len(t) + 1
  BY <1>1, <1>3
<1>5. it = Iterator(t, n, IF n > Len(t) THEN 0 ELSE 1, c)
  BY <1>1 DEF skip_free, Iterator
<1>6. \A i \in 1 .. Len(t) : t[i] \in Seq(SetValues) /\ Len(t[i]) \in Nat
  BY ElementOfSeq, LenProperties DEF HashTable
<1>7. \A i \in 1 .. Len(t) : h < i /\ i < n => t[i] = <<>>
  BY <1>1, <1>3
<1>8. n <= Len(t) => t[n] # <<>>
  BY <1>1, <1>3
<1> HIDE DEF n, S
<1>9. \A i \in 1 .. Len(t) : h < i /\ (\E p \in 1 .. Len(t[i]) : TRUE) => n <= i
  <2> SUFFICES ASSUME NEW i \in 1 .. Len(t), h < i, NEW p \in 1 .. Len(t[i]), ~(n <= i) PROVE FALSE
    OBVIOUS
  <2>1. t[i] = <<>>
    BY <1>1, <1>4, <1>7
  <2> QED BY <2>1
<1>10. CASE n > Len(t)
  <2>1. it = Iterator(t, n, 0, c)
    BY <1>5, <1>10
  <2>2. IteratorOK(it) /\ Rest(it) = {}
    <3> HIDE DEF it
    <3>1. it \in Growth /\ it.hash_table = t /\ it.entry = 0
      BY <1>4, <2>1 DEF Iterator, Growth, HashTable
    <3> QED BY <3>1 DEF IteratorOK, Rest
  <2>3. ValuesBehind(t, h) = {}
    BY <1>1, <1>4, <1>9, <1>10 DEF ValuesBehind
  <2> QED BY <2>1, <2>2, <2>3 DEF Iterator
<1>11. CASE n <= Len(t)
  <2>1. it = Iterator(t, n, 1, c) /\ n \in 1 .. Len(t)
    BY <1>1, <1>4, <1>5, <1>11
  <2>2. 1 \in 1 .. Len(t[n])
    <3>1. Len(t[n]) # 0
      BY <1>6, <1>8, <1>11, <2>1, EmptySeq
    <3> QED BY <1>6, <2>1, <3>1
  <2>3. IteratorOK(it)
    BY SMTT(30), <1>4, <2>1, <2>2 DEF IteratorOK, Iterator, Growth, HashTable
  <2>4. Rest(it) = ListFrom(t, n, 1) \cup ValuesBehind(t, n)
    BY <2>1 DEF Rest, Iterator
  <2>5. ListFrom(t, n, 1) \cup ValuesBehind(t, n) = ValuesBehind(t, h)
    <3>1. ASSUME NEW v \in ListFrom(t, n, 1) PROVE v \in ValuesBehind(t, h)
      BY <1>4, <2>1, <3>1 DEF ListFrom, ValuesBehind
    <3>2. ASSUME NEW v \in ValuesBehind(t, n) PROVE v \in ValuesBehind(t, h)
      BY <1>1, <1>4, <3>2 DEF ValuesBehind
    <3>3. ASSUME NEW v \in ValuesBehind(t, h) PROVE v \in ListFrom(t, n, 1) \cup ValuesBehind(t, n)
      <4>1. PICK i \in 1 .. Len(t) : i > h /\ \E p \in 1 .. Len(t[i]) : t[i][p] = v
        BY <3>3 DEF ValuesBehind
      <4>2. n <= i
        BY <1>9, <4>1
      <4>3. CASE i = n
        BY <1>6, <2>1, <3>3, <4>1, <4>3 DEF ListFrom, ValuesBehind
      <4>4. CASE i > n
        BY <3>3, <4>1, <4>4 DEF ValuesBehind
      <4> QED BY <1>1, <1>4, <4>2, <4>3, <4>4
    <3> QED BY <3>1, <3>2, <3>3
  <2>6. it.hash_table = t /\ it.old_count = c
    BY <2>1 DEF Iterator
  <2> QED BY <2>3, <2>4, <2>5, <2>6 DEF it
<1> QED BY <1>1, <1>4, <1>10, <1>11 DEF it

\* A list of the table is in the table, and its values are in no other list, nor
\* twice in it.
LEMMA ValuesByList ==
    ASSUME NEW t, HashTable(t), NEW h \in 1 .. Len(t), NEW e \in 1 .. Len(t[h])
    PROVE  /\ t[h][e] \in SetValues
           /\ ListFrom(t, h, e) = {t[h][e]} \cup ListFrom(t, h, e + 1)
           /\ t[h][e] \notin ListFrom(t, h, e + 1) /\ t[h][e] \notin ValuesBehind(t, h)
           /\ e = Len(t[h]) => ListFrom(t, h, e + 1) = {}
<1>1. t[h] \in Seq(SetValues) /\ Len(t[h]) \in Nat /\ Len(t) \in Nat
  BY ElementOfSeq, LenProperties DEF HashTable
<1>2. t[h][e] \in SetValues
  BY <1>1, ElementOfSeq
<1>3. ListFrom(t, h, e) = {t[h][e]} \cup ListFrom(t, h, e + 1)
  <2>1. \A p \in 1 .. Len(t[h]) : p >= e <=> p = e \/ p >= e + 1
    BY <1>1
  <2> QED BY <1>2, <2>1 DEF ListFrom
<1>4. t[h][e] \notin ListFrom(t, h, e + 1)
  <2> SUFFICES ASSUME NEW p \in 1 .. Len(t[h]), p >= e + 1, t[h][p] = t[h][e] PROVE FALSE
    BY DEF ListFrom
  <2>1. p = e
    BY DEF HashTable
  <2> QED BY <1>1, <2>1
<1>5. t[h][e] \notin ValuesBehind(t, h)
  <2> SUFFICES ASSUME NEW i \in 1 .. Len(t), i > h,
                      NEW p \in 1 .. Len(t[i]), t[i][p] = t[h][e]
               PROVE  FALSE
    BY DEF ValuesBehind
  <2>1. i = h
    <3>1. hash_index(t, t[i][p]) = i /\ hash_index(t, t[h][e]) = h
      BY DEF HashTable
    <3> QED BY <3>1
  <2> QED BY <1>1, <2>1
<1>6. e = Len(t[h]) => ListFrom(t, h, e + 1) = {}
  BY <1>1 DEF ListFrom
<1> QED BY <1>2, <1>3, <1>4, <1>5, <1>6

\* The iterator starts with all the values.
LEMMA InitIterates ==
    ASSUME NEW t, HashTable(t), NEW c, Counts(t, c)
    PROVE  /\ IteratorOK(init(t, c)) /\ init(t, c).hash_table = t /\ init(t, c).old_count = c
           /\ Rest(init(t, c)) = ValuesOf(t)
<1>1. Len(t) \in Nat /\ 1 \in 1 .. Len(t) /\ c \in Nat
  BY LenProperties, FS_CardinalityType DEF HashTable, Counts
<1>2. \A i \in 1 .. Len(t) : i > 1 \/ i = 1
  BY <1>1
<1>3. t[1] \in Seq(SetValues) /\ Len(t[1]) \in Nat
  BY <1>1, ElementOfSeq, LenProperties DEF HashTable
<1>4. CASE t[1] = <<>>
  <2>1. init(t, c) = skip_free(Iterator(t, 1, 0, c))
    BY <1>4 DEF init
  <2>2. ValuesOf(t) = ValuesBehind(t, 1)
    <3>1. ~ \E p \in 1 .. Len(t[1]) : TRUE
      BY <1>4
    <3> QED BY <1>1, <1>2, <3>1 DEF ValuesOf, ValuesBehind
  <2> QED BY <1>1, <2>1, <2>2, SkipFree
<1>5. CASE t[1] # <<>>
  <2>1. init(t, c) = Iterator(t, 1, 1, c)
    BY <1>1, <1>5 DEF init, skip_free, Iterator
  <2>2. 1 \in 1 .. Len(t[1])
    BY <1>3, <1>5, EmptySeq
  <2>3. Iterator(t, 1, 1, c) \in Growth
    BY <1>1 DEF Iterator, Growth, HashTable
  <2>4. IteratorOK(init(t, c)) /\ init(t, c).hash_table = t /\ init(t, c).old_count = c
    BY <1>1, <2>1, <2>2, <2>3 DEF Iterator, IteratorOK
  <2>5. Rest(init(t, c)) = ListFrom(t, 1, 1) \cup ValuesBehind(t, 1)
    BY <2>1 DEF Rest, Iterator
  <2>6. ListFrom(t, 1, 1) \cup ValuesBehind(t, 1) = ValuesOf(t)
    <3>1. \A p \in 1 .. Len(t[1]) : p >= 1
      BY <1>3
    <3> QED BY <1>1, <1>2, <3>1 DEF ListFrom, ValuesBehind, ValuesOf
  <2> QED BY <2>4, <2>5, <2>6
<1> QED BY <1>4, <1>5

\* The iterator yields a value and moves on to the others.
LEMMA NextIterates ==
    ASSUME NEW it, IteratorOK(it), has_next(it)
    PROVE  LET n == next_entry(it)
           IN  /\ IteratorOK(n) /\ n.hash_table = it.hash_table /\ n.old_count = it.old_count
               /\ current(it) \in SetValues
               /\ Rest(it) = {current(it)} \cup Rest(n) /\ current(it) \notin Rest(n)
<1> DEFINE n == next_entry(it)
           t == it.hash_table
           h == it.hash_index
           e == it.entry
           c == it.old_count
<1>1. it \in Growth /\ HashTable(t) /\ e # 0 /\ h \in 1 .. Len(t) /\ e \in 1 .. Len(t[h])
  BY DEF IteratorOK, has_next
<1>2. it = Iterator(t, h, e, c) /\ h \in Nat /\ e \in Nat /\ c \in Nat
  BY <1>1 DEF Iterator, Growth
<1>3. current(it) = t[h][e]
  BY DEF current
<1>4. Rest(it) = ListFrom(t, h, e) \cup ValuesBehind(t, h)
  BY <1>1 DEF Rest
<1>5. t[h] \in Seq(SetValues) /\ Len(t[h]) \in Nat /\ Len(t) \in Nat
  BY <1>1, ElementOfSeq, LenProperties DEF HashTable
<1>6. CASE e = Len(t[h])
  <2>1. [it EXCEPT !.entry = 0] = Iterator(t, h, 0, c)
    BY <1>2 DEF Iterator
  <2>2. n = skip_free(Iterator(t, h, 0, c))
    BY <1>6, <2>1 DEF next_entry
  <2> HIDE DEF t, h, e, c, n
  <2>3. IteratorOK(n) /\ n.hash_table = t /\ n.old_count = c /\ Rest(n) = ValuesBehind(t, h)
    BY <1>1, <1>2, <2>2, SkipFree
  <2>4. /\ t[h][e] \in SetValues /\ ListFrom(t, h, e) = {t[h][e]}
        /\ t[h][e] \notin ValuesBehind(t, h)
    BY <1>1, <1>6, ValuesByList
  <2>5. /\ current(it) \in SetValues
        /\ Rest(it) = {current(it)} \cup Rest(n) /\ current(it) \notin Rest(n)
    BY <1>3, <1>4, <2>3, <2>4
  <2> QED BY <2>3, <2>5 DEF t, c, n
<1>7. CASE e # Len(t[h])
  <2>1. [it EXCEPT !.entry = e + 1] = Iterator(t, h, e + 1, c)
    BY <1>2 DEF Iterator
  <2>2. n = Iterator(t, h, e + 1, c)
    <3>1. n = skip_free(Iterator(t, h, e + 1, c))
      BY <1>7, <2>1 DEF next_entry
    <3>2. e + 1 # 0
      BY <1>2
    <3> QED BY <3>1, <3>2 DEF skip_free, Iterator
  <2> HIDE DEF t, h, e, c, n
  <2>3. e + 1 \in 1 .. Len(t[h]) /\ e + 1 # 0
    BY <1>1, <1>5, <1>7
  <2>4. n \in Growth /\ n.hash_table = t /\ n.hash_index = h /\ n.entry = e + 1 /\ n.old_count = c
    BY <1>1, <1>2, <2>2 DEF Iterator, Growth, HashTable
  <2>5. IteratorOK(n)
    BY <1>1, <2>3, <2>4 DEF IteratorOK
  <2>6. Rest(n) = ListFrom(t, h, e + 1) \cup ValuesBehind(t, h)
    BY <2>3, <2>4 DEF Rest
  <2>7. /\ current(it) \in SetValues
        /\ Rest(it) = {current(it)} \cup Rest(n) /\ current(it) \notin Rest(n)
    BY <1>1, <1>3, <1>4, <2>6, ValuesByList
  <2> QED BY <2>4, <2>5, <2>7 DEF t, c, n
<1> QED BY <1>6, <1>7

(* The stack of growths. *)

\* A call of insert, with the state before and after it.
InsertsInto(t, c, value, within, t2, c2, growths2) ==
  IF contains(t, value)
  THEN growths2 = within /\ t2 = t /\ c2 = c
  ELSE IF c + 1 > Threshold(t)
  THEN /\ t2 = new_hash_table(Len(t) * GROWTH_FACTOR) /\ c2 = 0
       /\ growths2 = <<init(added(t, value), c + 1)>> \o within
  ELSE t2 = added(t, value) /\ c2 = c + 1 /\ growths2 = within

\* Pushing and replacing the innermost growth.
LEMMA InnermostGrowth ==
    ASSUME NEW G \in Seq(Growth), NEW g \in Growth
    PROVE  /\ <<g>> \o G \in Seq(Growth) /\ Len(<<g>> \o G) = Len(G) + 1 /\ (<<g>> \o G)[1] = g
           /\ \A k \in 1 .. Len(G) : (<<g>> \o G)[k + 1] = G[k]
           /\ G # <<>> => /\ Head(G) = G[1] /\ Len(G) \in Nat /\ Len(G) > 0
                          /\ Tail(G) \in Seq(Growth) /\ Len(Tail(G)) = Len(G) - 1
                          /\ \A k \in 1 .. Len(Tail(G)) : Tail(G)[k] = G[k + 1]
<1>1. <<g>> \in Seq(Growth) /\ Len(<<g>>) = 1 /\ <<g>>[1] = g /\ Len(G) \in Nat
  BY LenProperties
<1>2. /\ <<g>> \o G \in Seq(Growth) /\ Len(<<g>> \o G) = Len(G) + 1 /\ (<<g>> \o G)[1] = g
      /\ \A k \in 1 .. Len(G) : (<<g>> \o G)[k + 1] = G[k]
  BY <1>1, ConcatProperties
<1>3. G # <<>> => /\ Head(G) = G[1] /\ Len(G) > 0
                  /\ Tail(G) \in Seq(Growth) /\ Len(Tail(G)) = Len(G) - 1
                  /\ \A k \in 1 .. Len(Tail(G)) : Tail(G)[k] = G[k + 1]
  BY <1>1, HeadTailProperties, EmptySeq
<1> QED BY <1>1, <1>2, <1>3

\* A new innermost growth, of all the values, where the current table is now S.
LEMMA PushGrowth ==
    ASSUME NEW S, NEW R, NEW G, GrowthsOK(R, G), NEW g, IteratorOK(g),
           Counts(g.hash_table, g.old_count),
           ValuesOf(g.hash_table) = R, Splits(R, S, Rest(g))
    PROVE  /\ GrowthsOK(S, <<g>> \o G)
           /\ Level(S, <<g>> \o G, Len(<<g>> \o G)) = Level(R, G, Len(G))
<1> DEFINE H == <<g>> \o G
<1>1. G \in Seq(Growth) /\ g \in Growth /\ Len(G) \in Nat
  BY LenProperties DEF GrowthsOK, IteratorOK
<1>2. H \in Seq(Growth) /\ Len(H) = Len(G) + 1 /\ H[1] = g /\ \A k \in 1 .. Len(G) : H[k + 1] = G[k]
  BY <1>1, InnermostGrowth
<1> HIDE DEF H
<1>3. \A k \in 0 .. Len(G) : Level(S, H, k + 1) = Level(R, G, k)
  <2> SUFFICES ASSUME NEW k \in 0 .. Len(G) PROVE Level(S, H, k + 1) = Level(R, G, k)
    OBVIOUS
  <2>1. Level(S, H, k + 1) = ValuesOf(H[k + 1].hash_table)
    BY DEF Level
  <2>2. CASE k = 0
    BY <1>2, <2>1, <2>2 DEF Level
  <2>3. CASE k # 0
    <3>1. k \in 1 .. Len(G)
      BY <1>1, <2>3
    <3> QED BY <1>2, <2>1, <2>3, <3>1 DEF Level
  <2> QED BY <2>2, <2>3
<1>4. ASSUME NEW k \in 1 .. Len(H)
      PROVE  /\ IteratorOK(H[k]) /\ Counts(H[k].hash_table, H[k].old_count)
             /\ Splits(Level(S, H, k), Level(S, H, k - 1), Rest(H[k]))
  <2>1. CASE k = 1
    <3>1. Level(S, H, 0) = S /\ Level(S, H, 1) = R
      BY <1>2 DEF Level
    <3> QED BY <1>2, <2>1, <3>1
  <2>2. CASE k # 1
    <3>1. PICK j \in 1 .. Len(G) : k = j + 1
      <4>1. k - 1 \in 1 .. Len(G) /\ k = (k - 1) + 1
        BY <1>1, <1>2, <2>2
      <4> QED BY <4>1
    <3>2. H[k] = G[j]
      BY <1>2, <3>1
    <3>3. Level(S, H, k) = Level(R, G, j) /\ Level(S, H, k - 1) = Level(R, G, j - 1)
      <4>1. j \in 0 .. Len(G) /\ j - 1 \in 0 .. Len(G) /\ k - 1 = (j - 1) + 1
        BY <1>1, <3>1
      <4> QED BY <1>3, <3>1, <4>1
    <3> QED BY <3>2, <3>3 DEF GrowthsOK
  <2> QED BY <2>1, <2>2
<1>5. Level(S, H, Len(H)) = Level(R, G, Len(G))
  <2>1. Len(G) \in 0 .. Len(G)
    BY <1>1
  <2> QED BY <1>2, <1>3, <2>1
<1> QED BY <1>2, <1>4, <1>5 DEF GrowthsOK, H

\* The outer growths, without the innermost one.
LEMMA OuterGrowths ==
    ASSUME NEW S, NEW G, GrowthsOK(S, G), G # <<>>
    PROVE  /\ GrowthsOK(ValuesOf(Head(G).hash_table), Tail(G))
           /\ Level(ValuesOf(Head(G).hash_table), Tail(G), Len(Tail(G))) = Level(S, G, Len(G))
           /\ IteratorOK(Head(G)) /\ Counts(Head(G).hash_table, Head(G).old_count)
           /\ Splits(ValuesOf(Head(G).hash_table), S, Rest(Head(G)))
<1> DEFINE T == Tail(G)
           R == ValuesOf(Head(G).hash_table)
<1>1. G \in Seq(Growth)
  BY DEF GrowthsOK
<1>2. Len(G) \in Nat /\ Len(G) > 0 /\ 1 \in 1 .. Len(G) /\ Head(G) = G[1]
  BY <1>1, InnermostGrowth, HeadTailProperties, LenProperties, EmptySeq
<1>3. T \in Seq(Growth) /\ Len(T) = Len(G) - 1 /\ \A k \in 1 .. Len(T) : T[k] = G[k + 1]
  BY <1>1, HeadTailProperties
<1>4. /\ IteratorOK(Head(G)) /\ Counts(Head(G).hash_table, Head(G).old_count)
      /\ Splits(Level(S, G, 1), Level(S, G, 0), Rest(Head(G)))
  <2>1. 1 - 1 = 0
    OBVIOUS
  <2> QED BY <1>2, <2>1 DEF GrowthsOK
<1>5. Level(S, G, 1) = R /\ Level(S, G, 0) = S
  BY <1>2 DEF Level
<1> HIDE DEF T, R
<1>6. \A k \in 0 .. Len(T) : Level(R, T, k) = Level(S, G, k + 1)
  <2> SUFFICES ASSUME NEW k \in 0 .. Len(T) PROVE Level(R, T, k) = Level(S, G, k + 1)
    OBVIOUS
  <2>1. CASE k = 0
    BY <1>5, <2>1 DEF Level
  <2>2. CASE k # 0
    <3>1. k \in 1 .. Len(T)
      BY <2>2
    <3> QED BY <1>3, <2>2, <3>1 DEF Level
  <2> QED BY <2>1, <2>2
<1>7. ASSUME NEW k \in 1 .. Len(T)
      PROVE  /\ IteratorOK(T[k]) /\ Counts(T[k].hash_table, T[k].old_count)
             /\ Splits(Level(R, T, k), Level(R, T, k - 1), Rest(T[k]))
  <2>1. k + 1 \in 1 .. Len(G) /\ (k + 1) - 1 = k /\ (k - 1) + 1 = k
        /\ k \in 0 .. Len(T) /\ k - 1 \in 0 .. Len(T)
    BY <1>2, <1>3
  <2>2. T[k] = G[k + 1] /\ Level(R, T, k) = Level(S, G, k + 1) /\ Level(R, T, k - 1) = Level(S, G, k)
    BY <1>3, <1>6, <2>1
  <2> QED BY <2>1, <2>2 DEF GrowthsOK
<1>8. Level(R, T, Len(T)) = Level(S, G, Len(G))
  <2>1. Len(T) \in 0 .. Len(T) /\ Len(T) + 1 = Len(G)
    BY <1>2, <1>3
  <2> QED BY <1>6, <2>1
<1> QED BY <1>3, <1>4, <1>5, <1>7, <1>8 DEF GrowthsOK, R, T

\* A call of insert adds the value, however it does it.
LEMMA InsertAdds ==
    ASSUME NEW t, HashTable(t), NEW c, Counts(t, c), NEW v \in SetValues, NEW W,
           GrowthsOK(ValuesOf(t) \cup {v}, W),
           NEW t2, NEW c2, NEW G2, InsertsInto(t, c, v, W, t2, c2, G2)
    PROVE  /\ HashTable(t2) /\ Counts(t2, c2) /\ GrowthsOK(ValuesOf(t2), G2)
           /\ Level(ValuesOf(t2), G2, Len(G2)) = Level(ValuesOf(t) \cup {v}, W, Len(W))
<1>1. CASE contains(t, v)
  <2>1. t2 = t /\ c2 = c /\ G2 = W
    BY <1>1 DEF InsertsInto
  <2>2. ValuesOf(t) \cup {v} = ValuesOf(t)
    BY <1>1, ContainsIsIn
  <2> QED BY <2>1, <2>2
<1>2. CASE ~contains(t, v)
  <2> DEFINE u == added(t, v)
  <2>1. HashTable(u) /\ ValuesOf(u) = ValuesOf(t) \cup {v} /\ Counts(u, c + 1)
    BY <1>2, AddedToTable
  <2>2. CASE ~(c + 1 > Threshold(t))
    <3>1. t2 = u /\ c2 = c + 1 /\ G2 = W
      BY <1>2, <2>2 DEF InsertsInto
    <3> QED BY <2>1, <3>1
  <2>3. CASE c + 1 > Threshold(t)
    <3> DEFINE g == init(u, c + 1)
               n == new_hash_table(Len(t) * GROWTH_FACTOR)
    <3>1. t2 = n /\ c2 = 0 /\ G2 = <<g>> \o W
      BY <1>2, <2>3 DEF InsertsInto
    <3>2. Len(t) * GROWTH_FACTOR \in Nat \ {0}
      BY LenProperties DEF HashTable, GROWTH_FACTOR
    <3>3. HashTable(n) /\ ValuesOf(n) = {} /\ Counts(n, 0)
      BY <3>2, NewTableIsEmpty
    <3>4. IteratorOK(g) /\ g.hash_table = u /\ g.old_count = c + 1 /\ Rest(g) = ValuesOf(u)
      BY <2>1, InitIterates
    <3> HIDE DEF g, n, u
    <3>5. Splits(ValuesOf(u), ValuesOf(n), Rest(g))
      BY <3>3, <3>4 DEF Splits
    <3>6. /\ GrowthsOK(ValuesOf(u), W) /\ ValuesOf(g.hash_table) = ValuesOf(u)
          /\ Counts(g.hash_table, g.old_count)
      BY <2>1, <3>4
    <3>7. /\ GrowthsOK(ValuesOf(n), <<g>> \o W)
          /\ Level(ValuesOf(n), <<g>> \o W, Len(<<g>> \o W)) = Level(ValuesOf(u), W, Len(W))
      BY <3>4, <3>5, <3>6, PushGrowth
    <3> QED BY <2>1, <3>1, <3>3, <3>7
  <2> QED BY <2>2, <2>3
<1> QED BY <1>1, <1>2

(* The operations. *)

LEMMA SetInitInv == SetInit => SetInv
<1> SUFFICES ASSUME SetInit PROVE SetInv
  OBVIOUS
<1>1. INITIAL_TABLE_LENGTH \in Nat \ {0}
  BY SetConstants
<1>2. HashTable(hash_table) /\ ValuesOf(hash_table) = {} /\ Counts(hash_table, count)
  BY <1>1, NewTableIsEmpty DEF SetInit
<1>3. growths = <<>> /\ Len(growths) = 0 /\ inserted = {}
  BY DEF SetInit
<1> QED BY <1>2, <1>3 DEF SetInv, GrowthsOK, Level

LEMMA InsertInv ==
    ASSUME SetInv, NEW value \in SetValues, insert(value)
    PROVE  SetInv'
<1> DEFINE S == ValuesOf(hash_table) \cup {value}
<1>1. growths = <<>> /\ inserted' = inserted \cup {value}
  BY DEF insert
<1>2. InsertsInto(hash_table, count, value, <<>>, hash_table', count', growths')
  BY DEF insert, Insert, InsertsInto
<1>3. HashTable(hash_table) /\ Counts(hash_table, count) /\ inserted = ValuesOf(hash_table)
  BY <1>1 DEF SetInv, Level
<1>4. GrowthsOK(S, <<>>) /\ Level(S, <<>>, Len(<<>>)) = S
  BY DEF GrowthsOK, Level
<1>5. /\ HashTable(hash_table') /\ Counts(hash_table', count')
      /\ GrowthsOK(ValuesOf(hash_table'), growths')
      /\ Level(ValuesOf(hash_table'), growths', Len(growths')) = S
  BY <1>2, <1>3, <1>4, InsertAdds
<1> QED BY <1>1, <1>3, <1>5 DEF SetInv, HashTable, Counts, GrowthsOK, Level, ValuesOf

\* A round of grow moves a value from the iterator to the larger table.
LEMMA GrowInv ==
    ASSUME SetInv, grow
    PROVE  SetInv'
<1> DEFINE g == Head(growths)
           n == next_entry(g)
           v == current(g)
           S == ValuesOf(hash_table)
           W == <<n>> \o Tail(growths)
<1>1. growths # <<>> /\ has_next(g) /\ inserted' = inserted
  BY DEF grow
<1>2. InsertsInto(hash_table, count, v, W, hash_table', count', growths')
  BY DEF grow, Insert, InsertsInto
<1>3. /\ HashTable(hash_table) /\ Counts(hash_table, count) /\ GrowthsOK(S, growths)
      /\ inserted = Level(S, growths, Len(growths))
  BY DEF SetInv
<1>4. /\ GrowthsOK(ValuesOf(g.hash_table), Tail(growths))
      /\ Level(ValuesOf(g.hash_table), Tail(growths), Len(Tail(growths)))
           = Level(S, growths, Len(growths))
      /\ IteratorOK(g) /\ Counts(g.hash_table, g.old_count)
      /\ Splits(ValuesOf(g.hash_table), S, Rest(g))
  BY <1>1, <1>3, OuterGrowths
<1>5. /\ IteratorOK(n) /\ n.hash_table = g.hash_table /\ n.old_count = g.old_count
      /\ v \in SetValues /\ Rest(g) = {v} \cup Rest(n) /\ v \notin Rest(n)
  BY <1>1, <1>4, NextIterates
<1> HIDE DEF g, n, v, S
<1>6. /\ Splits(ValuesOf(g.hash_table), S \cup {v}, Rest(n)) /\ ValuesOf(n.hash_table) = ValuesOf(g.hash_table)
      /\ Counts(n.hash_table, n.old_count)
  BY <1>4, <1>5 DEF Splits
<1>7. /\ GrowthsOK(S \cup {v}, W)
      /\ Level(S \cup {v}, W, Len(W))
           = Level(ValuesOf(g.hash_table), Tail(growths), Len(Tail(growths)))
  <2> DEFINE R == ValuesOf(g.hash_table)
             G == Tail(growths)
             M == S \cup {v}
  <2>1. /\ GrowthsOK(R, G) /\ IteratorOK(n) /\ Counts(n.hash_table, n.old_count)
        /\ ValuesOf(n.hash_table) = R /\ Splits(R, M, Rest(n))
    BY <1>4, <1>5, <1>6
  <2> HIDE DEF R, G, M
  <2>2. /\ GrowthsOK(M, <<n>> \o G)
        /\ Level(M, <<n>> \o G, Len(<<n>> \o G)) = Level(R, G, Len(G))
    BY <2>1, PushGrowth
  <2> QED BY <2>2 DEF R, G, M
<1> HIDE DEF W
<1>8. GrowthsOK(ValuesOf(hash_table) \cup {v}, W) /\ v \in SetValues
  BY <1>5, <1>7 DEF S
<1>9. /\ HashTable(hash_table') /\ Counts(hash_table', count')
      /\ GrowthsOK(ValuesOf(hash_table'), growths')
      /\ Level(ValuesOf(hash_table'), growths', Len(growths'))
           = Level(ValuesOf(hash_table) \cup {v}, W, Len(W))
  BY <1>2, <1>3, <1>8, InsertAdds
<1>10. inserted' = Level(ValuesOf(hash_table'), growths', Len(growths'))
  BY <1>1, <1>3, <1>4, <1>7, <1>9 DEF S
<1> QED BY <1>9, <1>10 DEF SetInv, HashTable, Counts, GrowthsOK, Level, ValuesOf

\* The end of a growth: the larger table has all the values.
LEMMA ReturnInv ==
    ASSUME SetInv, return_from_grow
    PROVE  SetInv'
<1> DEFINE g == Head(growths)
           S == ValuesOf(hash_table)
<1>1. /\ growths # <<>> /\ ~has_next(g) /\ growths' = Tail(growths)
      /\ hash_table' = hash_table /\ count' = count /\ inserted' = inserted
  BY DEF return_from_grow
<1>2. /\ HashTable(hash_table) /\ Counts(hash_table, count) /\ GrowthsOK(S, growths)
      /\ inserted = Level(S, growths, Len(growths))
  BY DEF SetInv
<1>3. /\ GrowthsOK(ValuesOf(g.hash_table), Tail(growths))
      /\ Level(ValuesOf(g.hash_table), Tail(growths), Len(Tail(growths)))
           = Level(S, growths, Len(growths))
      /\ Splits(ValuesOf(g.hash_table), S, Rest(g))
  BY <1>1, <1>2, OuterGrowths
<1>4. ValuesOf(g.hash_table) = S
  BY <1>1, <1>3 DEF has_next, Rest, Splits
<1> HIDE DEF g, S
<1>5. GrowthsOK(S, Tail(growths)) /\ inserted = Level(S, Tail(growths), Len(Tail(growths)))
  BY <1>2, <1>3, <1>4
<1>6. /\ HashTable(hash_table') /\ Counts(hash_table', count')
      /\ GrowthsOK(ValuesOf(hash_table'), growths')
      /\ inserted' = Level(ValuesOf(hash_table'), growths', Len(growths'))
  BY <1>1, <1>2, <1>5 DEF S
<1> QED BY <1>6 DEF SetInv, HashTable, Counts, GrowthsOK, Level, ValuesOf

\* What the invariant says of the set, between the operations and at the end of
\* a growth.
LEMMA SetInvIsTheSet == SetInv => IsTheSet
<1> SUFFICES ASSUME SetInv PROVE IsTheSet
  OBVIOUS
<1>1. HashTable(hash_table) /\ Counts(hash_table, count) /\ GrowthsOK(ValuesOf(hash_table), growths)
  BY DEF SetInv
<1>2. ASSUME growths = <<>>
      PROVE  /\ \A value \in SetValues : contains(hash_table, value) <=> value \in inserted
             /\ count = Cardinality(inserted)
  <2>1. inserted = ValuesOf(hash_table)
    BY <1>2 DEF SetInv, Level
  <2> QED BY <1>1, <2>1, ContainsIsIn DEF Counts
<1>3. ASSUME growths # <<>>, ~has_next(Head(growths))
      PROVE  count = Head(growths).old_count
  <2>1. /\ Counts(Head(growths).hash_table, Head(growths).old_count)
        /\ Splits(ValuesOf(Head(growths).hash_table), ValuesOf(hash_table), Rest(Head(growths)))
    BY <1>1, <1>3, OuterGrowths
  <2>2. ValuesOf(Head(growths).hash_table) = ValuesOf(hash_table)
    BY <1>3, <2>1 DEF has_next, Rest, Splits
  <2> QED BY <1>1, <2>1, <2>2 DEF Counts
<1> QED BY <1>2, <1>3 DEF IsTheSet

\* The remembered set (gc/remembered_set.rs), for all values, initial lengths and
\* occupation thresholds: between the calls it finds the values inserted and no
\* others and counts them, however often it grew, and however the growths nest,
\* and the assertion at the end of grow holds.
THEOREM RememberedSetIsTheSet == SetSpec => []IsTheSet
<1>1. SetInit => SetInv
  BY SetInitInv
<1>2. SetInv /\ [SetNext]_setVars => SetInv'
  <2> SUFFICES ASSUME SetInv, [SetNext]_setVars PROVE SetInv'
    OBVIOUS
  <2>1. CASE \E value \in SetValues : insert(value)
    BY <2>1, InsertInv
  <2>2. CASE grow
    BY <2>2, GrowInv
  <2>3. CASE return_from_grow
    BY <2>3, ReturnInv
  <2>4. CASE UNCHANGED setVars
    <3>1. /\ hash_table' = hash_table /\ count' = count
          /\ growths' = growths /\ inserted' = inserted
      BY <2>4 DEF setVars
    <3>2. /\ HashTable(hash_table) /\ Counts(hash_table, count)
          /\ GrowthsOK(ValuesOf(hash_table), growths)
          /\ inserted = Level(ValuesOf(hash_table), growths, Len(growths))
      BY DEF SetInv
    <3>3. /\ HashTable(hash_table') /\ Counts(hash_table', count')
          /\ GrowthsOK(ValuesOf(hash_table'), growths')
          /\ inserted' = Level(ValuesOf(hash_table'), growths', Len(growths'))
      BY <3>1, <3>2
    <3> QED BY <3>3 DEF SetInv, HashTable, Counts, GrowthsOK, Level, ValuesOf
  <2> QED BY <2>1, <2>2, <2>3, <2>4 DEF SetNext
<1>3. SetInv => IsTheSet
  BY SetInvIsTheSet
<1> QED BY <1>1, <1>2, <1>3, PTL DEF SetSpec

(***************************************************************************)
(* THE SORT OF THE PARTITIONS.  It orders the array, and its loops stay    *)
(* within the range of the call that runs.  The invariant says that two    *)
(* elements that are out of order have still to be sorted together, by a   *)
(* pending call or by the one that runs (OrderedBut), and that each loop   *)
(* of the partitioning has an element to stop at (Loop): at first the      *)
(* pivot, later one that was exchanged.                                    *)
(***************************************************************************)

\* An index of the sequence belongs to a call.
InCall(c, i) == c.start < i /\ i <= c.end + 1
Covers(cs, i, j) == \E k \in 1 .. Len(cs) : InCall(cs[k], i) /\ InCall(cs[k], j)

\* Pending calls are for disjoint ranges from lowest on, in their order.
CallsOK(cs, length, lowest) ==
    /\ cs \in Seq([start : Nat, end : Nat])
    /\ \A k \in 1 .. Len(cs) : /\ lowest <= cs[k].start /\ cs[k].start < cs[k].end
                               /\ cs[k].end < length
    /\ \A k, l \in 1 .. Len(cs) : k < l => cs[k].end < cs[l].start

\* Two elements are in order, or they will be sorted together.
OrderedBut(a, cs, c) ==
    \A i, j \in 1 .. Len(a) : i < j => \/ a[i] <= a[j]
                                       \/ Covers(cs, i, j)
                                       \/ InCall(c, i) /\ InCall(c, j)

\* What is before forward is not above the pivot, and what is behind backward is not
\* below it.
Divided(a, s, e, f, b, p) ==
    \A k \in 1 .. Len(a) : /\ s < k /\ k <= f => a[k] <= p
                           /\ b + 1 < k /\ k <= e + 1 => p <= a[k]

\* Besides, each of the two loops will find an element to stop at.
Loop(a, s, e, f, b, p) ==
    /\ s \in Nat /\ e \in Nat /\ f \in Nat /\ b \in Nat /\ p \in Int
    /\ s < e /\ e < Len(a) /\ s <= f /\ f <= e /\ s <= b /\ b <= e
    /\ Divided(a, s, e, f, b, p)
    /\ \E k \in 1 .. Len(a) : s < k /\ k <= b + 1 /\ a[k] <= p
    /\ \E k \in 1 .. Len(a) : f < k /\ k <= e + 1 /\ p <= a[k]
    /\ \/ s < f /\ b < e
       \/ \E m \in 1 .. Len(a) : s + 2 <= m /\ a[m] = p /\ f < m /\ m <= b + 1

\* The local variables of the call that runs.
LoopOK(a, r) ==
    /\ r = [start |-> r.start, end |-> r.end, forward |-> r.forward,
            backward |-> r.backward, pivot |-> r.pivot]
    /\ Loop(a, r.start, r.end, r.forward, r.backward, r.pivot)

\* The inductive invariant.
SortInv ==
    /\ array \in Seq(Keys) /\ unsorted \in Seq(Keys)
    /\ \A key \in Keys : Occurrences(array, key) = Occurrences(unsorted, key)
    /\ CallsOK(calls, Len(array), running.end + 1)
    /\ running = NoCall \/ LoopOK(array, running)
    /\ OrderedBut(array, calls, running)

\* Exchanging two elements keeps how often each key occurs.
LEMMA SwapOccurs ==
    ASSUME NEW a \in Seq(Keys), NEW i, NEW j, i + 1 \in 1 .. Len(a), j + 1 \in 1 .. Len(a),
           i \in Int, j \in Int, NEW key
    PROVE  /\ Swap(a, i, j) \in Seq(Keys) /\ Len(Swap(a, i, j)) = Len(a)
           /\ \A k \in 1 .. Len(a) : Swap(a, i, j)[k] = IF k = j + 1 THEN a[i + 1]
                                                        ELSE IF k = i + 1 THEN a[j + 1] ELSE a[k]
           /\ Occurrences(Swap(a, i, j), key) = Occurrences(a, key)
<1> DEFINE p == i + 1
           q == j + 1
           b == Swap(a, i, j)
           S == {k \in DOMAIN a : a[k] = key}
           T == {k \in DOMAIN b : b[k] = key}
<1>1. /\ p \in 1 .. Len(a) /\ q \in 1 .. Len(a) /\ Len(a) \in Nat /\ DOMAIN a = 1 .. Len(a)
      /\ a[p] \in Keys /\ a[q] \in Keys
  BY LenProperties, ElementOfSeq
<1>2. b = [[a EXCEPT ![p] = a[q]] EXCEPT ![q] = a[p]]
  BY DEF Swap, At
<1>3. /\ b \in Seq(Keys) /\ Len(b) = Len(a)
      /\ \A k \in 1 .. Len(a) : b[k] = IF k = q THEN a[p] ELSE IF k = p THEN a[q] ELSE a[k]
  <2> HIDE DEF p, q, b
  <2> DEFINE c == [a EXCEPT ![p] = a[q]]
  <2>1. /\ c \in Seq(Keys) /\ Len(c) = Len(a)
        /\ \A k \in 1 .. Len(a) : c[k] = IF k = p THEN a[q] ELSE a[k]
    BY <1>1, ExceptSeq
  <2>2. b = [c EXCEPT ![q] = a[p]]
    BY <1>2
  <2> HIDE DEF c
  <2> QED BY <1>1, <2>1, <2>2, ExceptSeq
<1>4. DOMAIN b = 1 .. Len(a)
  BY <1>3, LenProperties
<1>5. ExistsBijection(S, T)
  <2> HIDE DEF p, q, b
  <2> DEFINE f == [k \in S |-> IF k = p THEN q ELSE IF k = q THEN p ELSE k]
  <2>1. \A k \in S : f[k] \in T
    BY <1>1, <1>3, <1>4
  <2>2. \A k, l \in S : f[k] = f[l] => k = l
    OBVIOUS
  <2>3. \A l \in T : \E k \in S : f[k] = l
    <3> SUFFICES ASSUME NEW l \in T PROVE \E k \in S : f[k] = l
      OBVIOUS
    <3> DEFINE k == IF l = p THEN q ELSE IF l = q THEN p ELSE l
    <3>1. k \in S /\ f[k] = l
      BY <1>1, <1>3, <1>4
    <3> QED BY <3>1
  <2>4. f \in Bijection(S, T)
    BY <2>1, <2>2, <2>3 DEF Bijection, Injection, Surjection, IsInjective
  <2> QED BY <2>4 DEF ExistsBijection
<1>6. IsFiniteSet(S)
  <2>1. IsFiniteSet(1 .. Len(a)) /\ S \in SUBSET (1 .. Len(a))
    BY <1>1, FS_Interval
  <2> QED BY <2>1, FS_Subset
<1>7. Cardinality(T) = Cardinality(S)
  BY <1>5, <1>6, FS_Bijection
<1> QED BY <1>3, <1>7 DEF Occurrences

\* One more pending call in front of the others.
LEMMA PutCall ==
    ASSUME NEW cs, NEW length \in Nat, NEW lowest \in Int, NEW c \in [start : Nat, end : Nat],
           CallsOK(cs, length, c.end + 1),
           lowest <= c.start, c.start < c.end, c.end < length
    PROVE  /\ CallsOK(<<c>> \o cs, length, lowest)
           /\ \A i, j : Covers(<<c>> \o cs, i, j) <=>
                          \/ InCall(c, i) /\ InCall(c, j)
                          \/ Covers(cs, i, j)
<1> DEFINE ds == <<c>> \o cs
           n == Len(cs)
           Calls == [start : Nat, end : Nat]
<1>1. cs \in Seq(Calls) /\ n \in Nat /\ <<c>> \in Seq(Calls) /\ Len(<<c>>) = 1 /\ <<c>>[1] = c
  BY LenProperties DEF CallsOK
<1>2. /\ ds \in Seq(Calls) /\ Len(ds) = 1 + n
      /\ \A k \in 1 .. 1 + n : ds[k] = IF k <= 1 THEN <<c>>[k] ELSE cs[k - 1]
  <2> HIDE DEF Calls
  <2> QED BY <1>1, ConcatProperties
<1>3. ds[1] = c /\ \A k \in 1 .. n : ds[k + 1] = cs[k]
  BY <1>1, <1>2
<1> HIDE DEF ds
<1>4. /\ \A k \in 1 .. n : /\ cs[k] \in Calls /\ c.end + 1 <= cs[k].start
                           /\ cs[k].start < cs[k].end /\ cs[k].end < length
      /\ \A k, l \in 1 .. n : k < l => cs[k].end < cs[l].start
  BY <1>1, ElementOfSeq DEF CallsOK
<1>5. \A k \in 1 .. 1 + n : k = 1 \/ (k - 1 \in 1 .. n /\ ds[k] = cs[k - 1])
  <2> SUFFICES ASSUME NEW k \in 1 .. 1 + n, k # 1
               PROVE  k - 1 \in 1 .. n /\ ds[k] = cs[k - 1]
    OBVIOUS
  <2>1. k - 1 \in 1 .. n /\ ~(k <= 1)
    BY <1>1
  <2> QED BY <1>2, <2>1
<1>6. CallsOK(ds, length, lowest)
  <2>1. \A k \in 1 .. 1 + n : lowest <= ds[k].start /\ ds[k].start < ds[k].end /\ ds[k].end < length
    <3> SUFFICES ASSUME NEW k \in 1 .. 1 + n
                 PROVE  lowest <= ds[k].start /\ ds[k].start < ds[k].end /\ ds[k].end < length
      OBVIOUS
    <3>1. CASE k = 1
      BY <1>3, <3>1
    <3>2. CASE k # 1
      <4>1. k - 1 \in 1 .. n /\ ds[k] = cs[k - 1]
        BY <1>5, <3>2
      <4>2. PICK d \in Calls : d = cs[k - 1]
        BY <1>4, <4>1
      <4>3. /\ d.start \in Nat /\ d.end \in Nat /\ c.start \in Nat /\ c.end \in Nat
            /\ c.end + 1 <= d.start /\ d.start < d.end /\ d.end < length
        BY <1>4, <4>1, <4>2
      <4> QED BY <4>1, <4>2, <4>3
    <3> QED BY <3>1, <3>2
  <2>2. ASSUME NEW k \in 1 .. 1 + n, NEW l \in 1 .. 1 + n, k < l PROVE ds[k].end < ds[l].start
    <3>1. l - 1 \in 1 .. n /\ ds[l] = cs[l - 1]
      BY <1>1, <1>5, <2>2
    <3>2. CASE k = 1
      BY <1>3, <1>4, <3>1, <3>2, SMTT(30)
    <3>3. CASE k # 1
      <4>1. k - 1 \in 1 .. n /\ ds[k] = cs[k - 1] /\ k - 1 < l - 1
        BY <1>1, <1>5, <2>2, <3>3
      <4> QED BY <1>4, <3>1, <4>1
    <3> QED BY <3>2, <3>3
  <2> QED BY <1>2, <2>1, <2>2 DEF CallsOK
<1>7. ASSUME NEW i, NEW j
      PROVE  Covers(ds, i, j) <=> (InCall(c, i) /\ InCall(c, j)) \/ Covers(cs, i, j)
  <2>1. ASSUME Covers(ds, i, j) PROVE (InCall(c, i) /\ InCall(c, j)) \/ Covers(cs, i, j)
    BY <1>2, <1>3, <1>5, <2>1 DEF Covers
  <2>2. ASSUME InCall(c, i) /\ InCall(c, j) PROVE Covers(ds, i, j)
    <3>1. 1 \in 1 .. Len(ds)
      BY <1>1, <1>2
    <3> QED BY <1>3, <2>2, <3>1 DEF Covers
  <2>3. ASSUME Covers(cs, i, j) PROVE Covers(ds, i, j)
    <3>1. PICK k \in 1 .. n : InCall(cs[k], i) /\ InCall(cs[k], j)
      BY <2>3 DEF Covers
    <3>2. k + 1 \in 1 .. 1 + n /\ ds[k + 1] = cs[k]
      BY <1>1, <1>3, SMTT(30)
    <3> QED BY <1>2, <3>1, <3>2 DEF Covers
  <2> QED BY <2>1, <2>2, <2>3
<1> QED BY <1>6, <1>7 DEF ds

\* The first pending call is taken.
LEMMA TakeCall ==
    ASSUME NEW cs, NEW length \in Nat, NEW lowest \in Int, CallsOK(cs, length, lowest), cs # <<>>
    PROVE  /\ Head(cs) \in [start : Nat, end : Nat]
           /\ lowest <= Head(cs).start /\ Head(cs).start < Head(cs).end /\ Head(cs).end < length
           /\ CallsOK(Tail(cs), length, Head(cs).end + 1)
           /\ \A i, j : Covers(cs, i, j) => \/ InCall(Head(cs), i) /\ InCall(Head(cs), j)
                                            \/ Covers(Tail(cs), i, j)
<1> DEFINE Calls == [start : Nat, end : Nat]
           c == Head(cs)
           ds == Tail(cs)
           n == Len(cs)
<1>1. cs \in Seq(Calls) /\ n \in Nat \ {0} /\ c = cs[1]
  BY EmptySeq DEF CallsOK
<1>2. c \in Calls /\ ds \in Seq(Calls) /\ Len(ds) = n - 1 /\ \A k \in 1 .. n - 1 : ds[k] = cs[k + 1]
  <2> HIDE DEF Calls
  <2> QED BY <1>1, HeadTailProperties
<1> HIDE DEF c, ds
<1>3. /\ \A k \in 1 .. n : /\ cs[k] \in Calls /\ lowest <= cs[k].start
                           /\ cs[k].start < cs[k].end /\ cs[k].end < length
      /\ \A k, l \in 1 .. n : k < l => cs[k].end < cs[l].start
  BY <1>1, ElementOfSeq DEF CallsOK
<1>4. \A k \in 1 .. n - 1 : k \in 1 .. n /\ k + 1 \in 1 .. n /\ 1 < k + 1 /\ 1 \in 1 .. n
  BY <1>1
<1>5. CallsOK(ds, length, c.end + 1)
  <2>1. \A k \in 1 .. n - 1 : c.end + 1 <= ds[k].start /\ ds[k].start < ds[k].end /\ ds[k].end < length
    <3> SUFFICES ASSUME NEW k \in 1 .. n - 1
                 PROVE  c.end + 1 <= ds[k].start /\ ds[k].start < ds[k].end /\ ds[k].end < length
      OBVIOUS
    <3>1. PICK d \in Calls : d = cs[k + 1]
      BY <1>3, <1>4
    <3>2. c.end < d.start /\ d.start < d.end /\ d.end < length
      BY <1>1, <1>3, <1>4, <3>1
    <3>3. c.end \in Nat /\ d.start \in Nat /\ ds[k] = d
      BY <1>2, <3>1
    <3> QED BY <3>2, <3>3
  <2>2. \A k, l \in 1 .. n - 1 : k < l => ds[k].end < ds[l].start
    <3>1. \A k, l \in 1 .. n - 1 : k < l => k + 1 < l + 1
      OBVIOUS
    <3> QED BY <1>2, <1>3, <1>4, <3>1
  <2> QED BY <1>2, <2>1, <2>2 DEF CallsOK
<1>6. ASSUME NEW i, NEW j, Covers(cs, i, j)
      PROVE  (InCall(c, i) /\ InCall(c, j)) \/ Covers(ds, i, j)
  <2>1. PICK k \in 1 .. n : InCall(cs[k], i) /\ InCall(cs[k], j)
    BY <1>6 DEF Covers
  <2>2. CASE k = 1
    BY <1>1, <2>1, <2>2
  <2>3. CASE k # 1
    <3>1. k - 1 \in 1 .. n - 1 /\ (k - 1) + 1 = k
      BY <1>1, <2>3
    <3>2. ds[k - 1] = cs[k]
      BY <1>2, <3>1
    <3> QED BY <1>2, <2>1, <3>1, <3>2 DEF Covers
  <2> QED BY <2>2, <2>3
<1>7. 1 \in 1 .. n
  BY <1>1
<1> QED BY <1>1, <1>2, <1>3, <1>5, <1>6, <1>7 DEF c, ds

\* Two elements have been exchanged.
Swapped(a, b, p, q) ==
    /\ b \in Seq(Int) /\ Len(b) = Len(a)
    /\ \A k \in 1 .. Len(a) : b[k] = IF k = q THEN a[p] ELSE IF k = p THEN a[q] ELSE a[k]

RangeIs(c, lo, hi) == c.start = lo /\ c.end = hi

\* Facts about the indices of a range that starts behind lo and ends with hi + 1.
LEMMA InRange ==
    ASSUME NEW lo \in Int, NEW hi \in Int, NEW i \in Int, NEW j \in Int, NEW m \in Int,
           lo < m, m <= hi + 1, i < j
    PROVE  /\ i <= hi + 1 /\ lo < i /\ ~(lo < j /\ j <= hi + 1) => m < j
           /\ lo < j /\ j <= hi + 1 /\ ~(lo < i /\ i <= hi + 1) => i < m
OBVIOUS

\* A call that starts behind the range has no index of it.
LEMMA BehindRange ==
    ASSUME NEW hi \in Int, NEW m \in Int, NEW x \in Nat, m <= hi + 1, hi < x
    PROVE  ~(x < m)
OBVIOUS

\* A range of two indices has more than one element, and both are in it.
LEMMA TwoInRange ==
    ASSUME NEW lo \in Int, NEW hi \in Int, NEW i \in Int, NEW j \in Int, i < j, lo < i, j <= hi + 1
    PROVE  /\ lo < hi /\ lo < j /\ i <= hi + 1
OBVIOUS

\* Exchanging two elements of a range that will be sorted keeps the others in order.
LEMMA SwapOrdered ==
    ASSUME NEW a \in Seq(Int), NEW b, NEW cs, NEW c, NEW lo \in Nat, NEW hi \in Nat,
           RangeIs(c, lo, hi), CallsOK(cs, Len(a), hi + 1), OrderedBut(a, cs, c),
           NEW p \in 1 .. Len(a), NEW q \in 1 .. Len(a), InCall(c, p), InCall(c, q),
           Swapped(a, b, p, q)
    PROVE  OrderedBut(b, cs, c)
<1> SUFFICES ASSUME NEW i \in 1 .. Len(a), NEW j \in 1 .. Len(a), i < j,
                    ~Covers(cs, i, j), ~(InCall(c, i) /\ InCall(c, j))
             PROVE  b[i] <= b[j]
  BY DEF OrderedBut, Swapped
<1>1. Len(a) \in Nat
  BY LenProperties
<1>0. \A m : InCall(c, m) <=> lo < m /\ m <= hi + 1
  BY DEF InCall, RangeIs
<1>2. \A k \in 1 .. Len(cs) : cs[k].start \in Nat /\ hi < cs[k].start
  <2> SUFFICES ASSUME NEW k \in 1 .. Len(cs) PROVE cs[k].start \in Nat /\ hi < cs[k].start
    OBVIOUS
  <2>1. cs[k] \in [start : Nat, end : Nat]
    BY ElementOfSeq DEF CallsOK
  <2>2. hi + 1 <= cs[k].start /\ cs[k].start \in Nat
    BY <2>1 DEF CallsOK
  <2> QED BY <1>0, <2>2, SMTT(30)
\* An element of the range is in no pending call.
<1>3. \A m, l \in 1 .. Len(a) : InCall(c, m) => ~Covers(cs, m, l) /\ ~Covers(cs, l, m)
  <2> SUFFICES ASSUME NEW m \in 1 .. Len(a), InCall(c, m), NEW k \in 1 .. Len(cs), InCall(cs[k], m)
               PROVE  FALSE
    BY DEF Covers
  <2>1. m <= hi + 1 /\ m \in Int
    BY <1>0, <1>1
  <2>2. cs[k].start < m
    BY DEF InCall
  <2>3. cs[k].start \in Nat /\ hi < cs[k].start
    BY <1>2
  <2>4. m \in Int /\ hi \in Int
    BY <1>1
  <2> QED BY <2>1, <2>2, <2>3, <2>4, BehindRange
<1>4. \A k \in 1 .. Len(a) : \E m \in 1 .. Len(a) :
        b[k] = a[m] /\ (k = m \/ (InCall(c, k) /\ InCall(c, m)))
  <2> SUFFICES ASSUME NEW k \in 1 .. Len(a)
               PROVE  \E m \in 1 .. Len(a) : b[k] = a[m] /\ (k = m \/ (InCall(c, k) /\ InCall(c, m)))
    OBVIOUS
  <2>1. CASE k = q
    BY <2>1 DEF Swapped
  <2>2. CASE k # q /\ k = p
    BY <2>2 DEF Swapped
  <2>3. CASE k # q /\ k # p
    BY <2>3 DEF Swapped
  <2> QED BY <2>1, <2>2, <2>3
<1>5. CASE ~InCall(c, i) /\ ~InCall(c, j)
  <2>1. b[i] = a[i] /\ b[j] = a[j]
    BY <1>5 DEF Swapped
  <2> QED BY <2>1 DEF OrderedBut
<1>6. CASE InCall(c, i) /\ ~InCall(c, j)
  <2>1. PICK m \in 1 .. Len(a) : b[i] = a[m] /\ InCall(c, m)
    BY <1>4, <1>6
  <2>2. m < j /\ b[j] = a[j]
    <3>1. b[j] = a[j]
      BY <1>6 DEF Swapped
    <3>2. m < j
      <4>1. lo \in Int /\ hi \in Int /\ i \in Int /\ j \in Int /\ m \in Int
        BY <1>1
      <4>2. lo < m /\ m <= hi + 1 /\ lo < i /\ i <= hi + 1 /\ ~(lo < j /\ j <= hi + 1)
        BY <1>0, <1>6, <2>1
      <4> QED BY <4>1, <4>2, InRange
    <3> QED BY <3>1, <3>2
  <2>3. ~Covers(cs, m, j)
    BY <1>3, <2>1
  <2> QED BY <1>6, <2>1, <2>2, <2>3 DEF OrderedBut
<1>7. CASE ~InCall(c, i) /\ InCall(c, j)
  <2>1. PICK m \in 1 .. Len(a) : b[j] = a[m] /\ InCall(c, m)
    BY <1>4, <1>7
  <2>2. i < m /\ b[i] = a[i]
    <3>1. b[i] = a[i]
      BY <1>7 DEF Swapped
    <3>2. i < m
      <4>1. lo \in Int /\ hi \in Int /\ i \in Int /\ j \in Int /\ m \in Int
        BY <1>1
      <4>2. lo < m /\ m <= hi + 1 /\ lo < j /\ j <= hi + 1 /\ ~(lo < i /\ i <= hi + 1)
        BY <1>0, <1>7, <2>1
      <4> QED BY <4>1, <4>2, InRange
    <3> QED BY <3>1, <3>2
  <2>3. ~Covers(cs, i, m)
    BY <1>3, <2>1
  <2> QED BY <1>7, <2>1, <2>2, <2>3 DEF OrderedBut
<1> QED BY <1>5, <1>6, <1>7

\* A partition is complete: its two parts take its place.
LEMMA SplitOrdered ==
    ASSUME NEW a \in Seq(Int), NEW cs, NEW r, r.start \in Nat, r.end \in Nat, r.end < Len(a),
           NEW p \in Int, r.forward \in Nat, r.backward \in Int,
           r.start <= r.backward, r.backward < r.forward, r.backward <= r.end, r.start <= r.forward,
           Divided(a, r.start, r.end, r.forward, r.backward, p),
           CallsOK(cs, Len(a), r.end + 1), OrderedBut(a, cs, r)
    PROVE  /\ CallsOK(Parts(r) \o cs, Len(a), 0)
           /\ OrderedBut(a, Parts(r) \o cs, NoCall)
<1> DEFINE left == Call(r.start, r.backward)
           right == Call(r.forward, r.end)
           Calls == [start : Nat, end : Nat]
           hasLeft == r.backward > r.start
           hasRight == r.forward < r.end
           ds == IF hasRight THEN <<right>> \o cs ELSE cs
           es == IF hasLeft THEN <<left>> \o ds ELSE ds
<1>1. /\ Len(a) \in Nat /\ cs \in Seq(Calls)
      /\ left \in Calls /\ left.start = r.start /\ left.end = r.backward
      /\ right \in Calls /\ right.start = r.forward /\ right.end = r.end
  BY LenProperties DEF CallsOK, Call
<1>2. Parts(r) \o cs = es
  <2>1. <<left>> \in Seq(Calls) /\ <<right>> \in Seq(Calls) /\ <<>> \in Seq(Calls)
    BY <1>1
  <2> HIDE DEF left, right, Calls
  <2>2. Parts(r) = (IF hasLeft THEN <<left>> ELSE <<>>) \o (IF hasRight THEN <<right>> ELSE <<>>)
    BY DEF Parts, left, right
  <2>3. CASE hasLeft /\ hasRight
    <3>1. Parts(r) \o cs = (<<left>> \o <<right>>) \o cs /\ es = <<left>> \o (<<right>> \o cs)
      BY <2>2, <2>3
    <3>2. (<<left>> \o <<right>>) \o cs = <<left>> \o (<<right>> \o cs)
      BY <1>1, <2>1, ConcatAssociative, SMTT(30) DEF Calls
    <3> QED BY <3>1, <3>2
  <2>4. CASE hasLeft /\ ~hasRight
    BY <1>1, <2>1, <2>2, <2>4, ConcatEmptySeq
  <2>5. CASE ~hasLeft /\ hasRight
    BY <1>1, <2>1, <2>2, <2>5, ConcatEmptySeq
  <2>6. CASE ~hasLeft /\ ~hasRight
    BY <1>1, <2>1, <2>2, <2>6, ConcatEmptySeq
  <2> QED BY <2>3, <2>4, <2>5, <2>6
<1> HIDE DEF left, right
<1>3. /\ CallsOK(ds, Len(a), r.backward + 1)
      /\ \A i, j : Covers(ds, i, j) <=> \/ hasRight /\ InCall(right, i) /\ InCall(right, j)
                                        \/ Covers(cs, i, j)
  <2>1. CASE hasRight
    <3>1. r.backward + 1 <= right.start /\ right.start < right.end /\ right.end < Len(a)
          /\ CallsOK(cs, Len(a), right.end + 1) /\ r.backward + 1 \in Int
      BY <1>1, <2>1, SMTT(30)
    <3> QED BY <1>1, <2>1, <3>1, PutCall
  <2>2. CASE ~hasRight
    <3>1. CallsOK(cs, Len(a), r.backward + 1)
      <4> SUFFICES ASSUME NEW k \in 1 .. Len(cs) PROVE r.backward + 1 <= cs[k].start
        BY DEF CallsOK
      <4>1. cs[k] \in Calls /\ r.end + 1 <= cs[k].start
        BY <1>1, ElementOfSeq DEF CallsOK
      <4>2. cs[k].start \in Nat
        BY <4>1
      <4> QED BY <4>1, <4>2, SMTT(30)
    <3> QED BY <2>2, <3>1
  <2> QED BY <2>1, <2>2
<1> HIDE DEF ds
<1>4. /\ CallsOK(es, Len(a), 0)
      /\ \A i, j : Covers(es, i, j) <=> \/ hasLeft /\ InCall(left, i) /\ InCall(left, j)
                                        \/ Covers(ds, i, j)
  <2>1. CASE hasLeft
    <3>1. /\ 0 <= left.start /\ left.start < left.end /\ left.end < Len(a)
          /\ CallsOK(ds, Len(a), left.end + 1)
      BY <1>1, <1>3, <2>1
    <3>2. /\ CallsOK(<<left>> \o ds, Len(a), 0)
          /\ \A i, j : Covers(<<left>> \o ds, i, j) <=> \/ InCall(left, i) /\ InCall(left, j)
                                                        \/ Covers(ds, i, j)
      <4> HIDE DEF hasLeft
      <4>1. Len(a) \in Nat /\ 0 \in Int /\ left \in [start : Nat, end : Nat]
        BY <1>1
      <4> QED BY <3>1, <4>1, PutCall
    <3>3. es = <<left>> \o ds
      BY <2>1
    <3> QED BY <2>1, <3>2, <3>3
  <2>2. CASE ~hasLeft
    <3>1. CallsOK(ds, Len(a), 0)
      <4> SUFFICES ASSUME NEW k \in 1 .. Len(ds) PROVE 0 <= ds[k].start
        BY <1>3 DEF CallsOK
      <4>1. ds[k] \in Calls
        BY <1>3, ElementOfSeq DEF CallsOK
      <4> QED BY <4>1
    <3> QED BY <2>2, <3>1
  <2> QED BY <2>1, <2>2
<1> HIDE DEF es, hasLeft, hasRight
<1>5. OrderedBut(a, es, NoCall)
  <2> SUFFICES ASSUME NEW i \in 1 .. Len(a), NEW j \in 1 .. Len(a), i < j, ~Covers(es, i, j)
               PROVE  a[i] <= a[j]
    BY DEF OrderedBut
  <2>1. /\ ~(hasLeft /\ InCall(left, i) /\ InCall(left, j)) /\ ~Covers(cs, i, j)
        /\ ~(hasRight /\ InCall(right, i) /\ InCall(right, j))
    BY <1>3, <1>4
  <2>2. CASE ~(InCall(r, i) /\ InCall(r, j))
    BY <2>1, <2>2 DEF OrderedBut
  <2>3. CASE InCall(r, i) /\ InCall(r, j)
    <3>1. /\ r.start < i /\ i < j /\ j <= r.end + 1 /\ i \in Int /\ j \in Int
          /\ a[i] \in Int /\ a[j] \in Int
      BY <1>1, <2>3, SMTT(30) DEF InCall
    <3>2. CASE i <= r.forward /\ r.backward + 1 < j
      <4>1. a[i] <= p /\ p <= a[j]
        <5>1. i <= r.end + 1 /\ r.start < j
          BY <3>1
        <5> QED BY <3>1, <3>2, <5>1 DEF Divided
      <4> QED BY <3>1, <4>1
    <3>3. CASE j <= r.backward + 1
      <4>1. r.start \in Int /\ r.backward \in Int
        OBVIOUS
      <4>2. r.start < r.backward /\ r.start < j /\ i <= r.backward + 1
        BY <3>1, <3>3, <4>1, TwoInRange
      <4>3. InCall(left, i) /\ InCall(left, j)
        BY <1>1, <3>1, <3>3, <4>2 DEF InCall
      <4> QED BY <2>1, <4>2, <4>3 DEF hasLeft
    <3>4. CASE r.forward < i
      <4>1. r.forward \in Int /\ r.end \in Int
        OBVIOUS
      <4>2. r.forward < r.end /\ r.forward < j /\ i <= r.end + 1
        BY <3>1, <3>4, <4>1, TwoInRange, SMTT(30)
      <4>3. InCall(right, i) /\ InCall(right, j)
        BY <1>1, <3>1, <3>4, <4>2 DEF InCall
      <4> QED BY <2>1, <4>2, <4>3 DEF hasRight
    <3> QED BY <3>1, <3>2, <3>3, <3>4, SMTT(30)
  <2> QED BY <2>2, <2>3
<1> QED BY <1>2, <1>4, <1>5

\* The inner loops stop at the latest at the element that the invariant knows of.
LEMMA ForwardStays ==
    ASSUME NEW a \in Seq(Int), NEW s, NEW e, NEW f, NEW b, NEW p, Loop(a, s, e, f, b, p), a[f + 1] < p
    PROVE  Loop(a, s, e, f + 1, b, p)
<1>1. s \in Int /\ e \in Int /\ f \in Int /\ b \in Int /\ p \in Int /\ Len(a) \in Nat
  BY LenProperties DEF Loop
<1>2. \A k \in 1 .. Len(a) : a[k] \in Int
  BY ElementOfSeq
<1>3. PICK k \in 1 .. Len(a) : f < k /\ k <= e + 1 /\ p <= a[k]
  BY DEF Loop
<1>4. k # f + 1
  BY <1>1, <1>2, <1>3
<1>5. f + 1 < k /\ f + 1 <= e /\ s <= f + 1 /\ f + 1 \in Nat
  BY <1>1, <1>3, <1>4 DEF Loop
<1>6. Divided(a, s, e, f + 1, b, p)
  <2> SUFFICES ASSUME NEW l \in 1 .. Len(a), s < l, l <= f + 1 PROVE a[l] <= p
    BY DEF Loop, Divided
  <2>1. CASE l = f + 1
    BY <1>1, <1>2, <2>1
  <2>2. CASE l # f + 1
    <3>1. l <= f
      BY <1>1, <2>2
    <3> QED BY <3>1 DEF Loop, Divided
  <2> QED BY <2>1, <2>2
<1>7. \/ s < f + 1 /\ b < e
      \/ \E m \in 1 .. Len(a) : s + 2 <= m /\ a[m] = p /\ f + 1 < m /\ m <= b + 1
  <2>1. CASE s < f /\ b < e
    BY <1>1, <2>1
  <2>2. ASSUME NEW m \in 1 .. Len(a), s + 2 <= m, a[m] = p, f < m, m <= b + 1
        PROVE  f + 1 < m
    <3>1. m # f + 1
      BY <1>1, <2>2
    <3> QED BY <1>1, <2>2, <3>1
  <2> QED BY <2>1, <2>2 DEF Loop
<1> QED BY <1>3, <1>5, <1>6, <1>7 DEF Loop

\* The same for the loop from the end.
LEMMA BackwardStays ==
    ASSUME NEW a \in Seq(Int), NEW s, NEW e, NEW f, NEW b, NEW p, Loop(a, s, e, f, b, p), a[b + 1] > p
    PROVE  Loop(a, s, e, f, b - 1, p)
<1>1. s \in Int /\ e \in Int /\ f \in Int /\ b \in Int /\ p \in Int /\ Len(a) \in Nat /\ s \in Nat
  BY LenProperties DEF Loop
<1>2. \A k \in 1 .. Len(a) : a[k] \in Int
  BY ElementOfSeq
<1>0. (b - 1) + 1 = b
  BY <1>1
<1>3. PICK k \in 1 .. Len(a) : s < k /\ k <= b + 1 /\ a[k] <= p
  BY DEF Loop
<1>4. k # b + 1
  BY <1>1, <1>2, <1>3
<1>5. k <= b /\ s <= b - 1 /\ b - 1 <= e /\ b - 1 \in Nat
  BY <1>1, <1>3, <1>4 DEF Loop
<1>6. Divided(a, s, e, f, b - 1, p)
  <2> SUFFICES ASSUME NEW l \in 1 .. Len(a), b < l, l <= e + 1 PROVE p <= a[l]
    BY <1>0 DEF Loop, Divided
  <2>1. CASE l = b + 1
    BY <1>1, <1>2, <2>1
  <2>2. CASE l # b + 1
    <3>1. b + 1 < l
      BY <1>1, <2>2
    <3> QED BY <3>1 DEF Loop, Divided
  <2> QED BY <2>1, <2>2
<1>7. \/ s < f /\ b - 1 < e
      \/ \E m \in 1 .. Len(a) : s + 2 <= m /\ a[m] = p /\ f < m /\ m <= (b - 1) + 1
  <2>1. CASE s < f /\ b < e
    BY <1>1, <2>1
  <2>2. ASSUME NEW m \in 1 .. Len(a), s + 2 <= m, a[m] = p, f < m, m <= b + 1
        PROVE  m <= (b - 1) + 1
    <3>1. m # b + 1
      BY <1>1, <2>2, SMTT(30)
    <3> QED BY <1>1, <2>2, <3>1
  <2> QED BY <2>1, <2>2 DEF Loop
<1> QED BY <1>0, <1>3, <1>5, <1>6, <1>7 DEF Loop

\* An exchange divides the range further, and leaves each loop something to stop at.
LEMMA ExchangeDivides ==
    ASSUME NEW a \in Seq(Int), NEW a2, NEW s, NEW e, NEW f, NEW b, NEW p, Loop(a, s, e, f, b, p),
           ~(a[f + 1] < p), ~(a[b + 1] > p), f <= b, Swapped(a, a2, f + 1, b + 1)
    PROVE  /\ Divided(a2, s, e, f + 1, b - 1, p)
           /\ s <= b - 1
           /\ f + 1 <= b - 1 => Loop(a2, s, e, f + 1, b - 1, p)
<1>1. /\ s \in Int /\ e \in Int /\ f \in Int /\ b \in Int /\ p \in Int /\ Len(a) \in Nat /\ s \in Nat
      /\ f \in Nat /\ b \in Nat
  BY LenProperties DEF Loop
<1>2. f + 1 \in 1 .. Len(a) /\ b + 1 \in 1 .. Len(a) /\ (b - 1) + 1 = b /\ s < f + 1 /\ b + 1 <= e + 1
  <2>1. e < Len(a) /\ s <= f /\ f <= e /\ b <= e
    BY DEF Loop
  <2> QED BY <1>1, <2>1
<1>3. /\ a[f + 1] \in Int /\ a[b + 1] \in Int /\ a[b + 1] <= p /\ p <= a[f + 1] /\ Len(a2) = Len(a)
      /\ a2[b + 1] = a[f + 1]
      /\ a2[f + 1] = a[b + 1]
  <2>1. a[f + 1] \in Int /\ a[b + 1] \in Int
    BY <1>2, ElementOfSeq
  <2>2. a[b + 1] <= p /\ p <= a[f + 1]
    BY <1>1, <2>1
  <2>3. Len(a2) = Len(a) /\ a2[b + 1] = a[f + 1]
    BY <1>2 DEF Swapped
  <2>4. a2[f + 1] = a[b + 1]
    <3>1. CASE f + 1 = b + 1
      BY <2>3, <3>1
    <3>2. CASE f + 1 # b + 1
      BY <1>2, <3>2 DEF Swapped
    <3> QED BY <3>1, <3>2
  <2> QED BY <2>1, <2>2, <2>3, <2>4
<1>4. Divided(a2, s, e, f + 1, b - 1, p)
  <2>1. ASSUME NEW l \in 1 .. Len(a), s < l, l <= f + 1 PROVE a2[l] <= p
    <3>1. CASE l = f + 1
      BY <1>3, <3>1
    <3>2. CASE l # f + 1
      <4>1. l <= f /\ l # b + 1
        BY <1>1, <2>1, <3>2
      <4>2. a2[l] = a[l]
        BY <3>2, <4>1 DEF Swapped
      <4> QED BY <2>1, <4>1, <4>2 DEF Loop, Divided
    <3> QED BY <3>1, <3>2
  <2>2. ASSUME NEW l \in 1 .. Len(a), b < l, l <= e + 1 PROVE p <= a2[l]
    <3>1. CASE l = b + 1
      BY <1>3, <3>1
    <3>2. CASE l # b + 1
      <4>1. b + 1 < l /\ l # f + 1
        BY <1>1, <2>2, <3>2
      <4>2. a2[l] = a[l]
        BY <3>2, <4>1 DEF Swapped
      <4> QED BY <2>2, <4>1, <4>2 DEF Loop, Divided
    <3> QED BY <3>1, <3>2
  <2> QED BY <1>2, <1>3, <2>1, <2>2 DEF Divided
<1>5. s <= b - 1
  <2>1. CASE s < f
    BY <1>1, <2>1
  <2>2. ASSUME NEW m \in 1 .. Len(a), s + 2 <= m, m <= b + 1 PROVE s <= b - 1
    BY <1>1, <2>2
  <2> QED BY <2>1, <2>2 DEF Loop
<1>6. ASSUME f + 1 <= b - 1 PROVE Loop(a2, s, e, f + 1, b - 1, p)
  <2>1. /\ f + 1 \in Nat /\ b - 1 \in Nat /\ s <= f + 1 /\ f + 1 <= e /\ b - 1 <= e /\ b - 1 < e
        /\ f + 1 <= b /\ f + 1 < b + 1
    BY <1>1, <1>5, <1>6 DEF Loop
  <2>2. \E k \in 1 .. Len(a2) : s < k /\ k <= (b - 1) + 1 /\ a2[k] <= p
    BY <1>2, <1>3, <2>1
  <2>3. \E k \in 1 .. Len(a2) : f + 1 < k /\ k <= e + 1 /\ p <= a2[k]
    BY <1>2, <1>3, <2>1
  <2>4. e \in Nat /\ s < e /\ e < Len(a2) /\ p \in Int /\ s \in Nat
    BY <1>3 DEF Loop
  <2> QED BY <1>2, <1>4, <1>5, <2>1, <2>2, <2>3, <2>4 DEF Loop
<1> QED BY <1>4, <1>5, <1>6

\* Only the range of a call matters to it.
LEMMA SameRange ==
    ASSUME NEW a, NEW cs, NEW c, NEW d, c.start = d.start, c.end = d.end, OrderedBut(a, cs, c)
    PROVE  OrderedBut(a, cs, d)
BY DEF OrderedBut, InCall

\* The keys are compared as integers.
LEMMA KeysAreIntegers == ASSUME NEW a \in Seq(Keys) PROVE a \in Seq(Int) /\ Len(a) \in Nat
<1>1. Keys \subseteq Int
  BY SortConstants
<1>2. a \in Seq(Int)
  BY <1>1, SeqMonotonic
<1> QED BY <1>2, LenProperties

\* At first there is nothing to sort.
LEMMA SortBegins == SortInit => SortInv
<1> SUFFICES ASSUME SortInit PROVE SortInv
  OBVIOUS
<1>1. /\ array = <<>> /\ calls = <<>> /\ running = NoCall /\ unsorted = <<>>
      /\ <<>> \in Seq(Keys) /\ Len(<<>>) = 0
  BY DEF SortInit
<1>2. NoCall.end + 1 = 0
  BY DEF NoCall, Call
<1>3. CallsOK(<<>>, 0, 0) /\ OrderedBut(<<>>, <<>>, NoCall)
  BY <1>1 DEF CallsOK, OrderedBut
<1> QED BY <1>1, <1>2, <1>3 DEF SortInv

\* Without a call that runs, only a pending call may find elements out of order.
LEMMA NoRange == \A i \in Int : ~InCall(NoCall, i)
BY DEF InCall, NoCall, Call

\* The array to sort is one range.
LEMMA SortPreserves == SortInv /\ sort => SortInv'
<1> SUFFICES ASSUME SortInv, sort PROVE SortInv'
  OBVIOUS
<1>1. /\ array = <<>> /\ running' = running /\ Len(<<>>) = 0
      /\ CallsOK(calls, 0, running.end + 1)
  BY DEF sort, SortInv
<1>2. running = NoCall
  BY <1>1 DEF SortInv, LoopOK, Loop
<1>3. PICK a \in BoundedSeq(Keys, MaxLength) :
        /\ array' = a /\ unsorted' = a
        /\ calls' = IF Len(a) > 1 THEN <<Call(0, Len(a) - 1)>> ELSE <<>>
  BY DEF sort
<1>4. a \in Seq(Keys)
  <2>1. PICK m \in 0 .. MaxLength : a \in [1 .. m -> Keys]
    BY DEF BoundedSeq, SeqOf
  <2>2. m \in Nat
    BY SortConstants
  <2> QED BY <2>1, <2>2, SeqDef
<1>5. a \in Seq(Int) /\ Len(a) \in Nat
  BY <1>4, KeysAreIntegers
<1>6. NoCall.end + 1 = 0
  BY DEF NoCall, Call
<1>7. CallsOK(<<>>, Len(a), Len(a)) /\ CallsOK(<<>>, Len(a), 0) /\ ~Covers(<<>>, 0, 0)
      /\ \A i, j : ~Covers(<<>>, i, j)
  BY DEF CallsOK, Covers
<1>8. CallsOK(calls', Len(a), 0) /\ OrderedBut(a, calls', NoCall)
  <2>1. CASE Len(a) > 1
    <3> DEFINE c == Call(0, Len(a) - 1)
    <3>1. c \in [start : Nat, end : Nat] /\ c.start = 0 /\ c.end = Len(a) - 1
      BY <1>5, <2>1 DEF Call
    <3>2. calls' = <<c>> \o <<>>
      BY <1>3, <2>1
    <3> HIDE DEF c
    <3>3. CallsOK(<<>>, Len(a), c.end + 1) /\ 0 <= c.start /\ c.start < c.end /\ c.end < Len(a)
      BY <1>5, <1>7, <2>1, <3>1
    <3>4. /\ CallsOK(calls', Len(a), 0)
          /\ \A i, j : Covers(calls', i, j) <=> (InCall(c, i) /\ InCall(c, j)) \/ Covers(<<>>, i, j)
      <4>1. 0 \in Int
        OBVIOUS
      <4> QED BY <1>5, <3>1, <3>2, <3>3, <4>1, PutCall
    <3>5. \A i \in 1 .. Len(a) : InCall(c, i)
      BY <1>5, <3>1 DEF InCall
    <3> QED BY <3>4, <3>5 DEF OrderedBut
  <2>2. CASE ~(Len(a) > 1)
    <3>1. \A i, j \in 1 .. Len(a) : ~(i < j)
      BY <1>5, <2>2
    <3> QED BY <1>3, <1>7, <2>2, <3>1 DEF OrderedBut
  <2> QED BY <2>1, <2>2
<1> QED BY <1>1, <1>2, <1>3, <1>4, <1>6, <1>8 DEF SortInv

\* The next evacuation begins with nothing to sort.
LEMMA FinishPreserves == SortInv /\ Finish => SortInv'
<1> SUFFICES ASSUME SortInv, Finish PROVE SortInv'
  OBVIOUS
<1>1. /\ array' = <<>> /\ unsorted' = <<>> /\ calls' = <<>> /\ running' = NoCall
      /\ <<>> \in Seq(Keys) /\ Len(<<>>) = 0
  BY DEF Finish
<1>2. NoCall.end + 1 = 0
  BY DEF NoCall, Call
<1>3. CallsOK(<<>>, 0, 0) /\ OrderedBut(<<>>, <<>>, NoCall)
  BY <1>1 DEF CallsOK, OrderedBut
<1> QED BY <1>1, <1>2, <1>3 DEF SortInv

\* The pivot is behind the first element, and each of the loops stops at it.
LEMMA LoopBegins ==
    ASSUME NEW a \in Seq(Int), NEW s \in Nat, NEW e \in Nat, s < e, e < Len(a)
    PROVE  Loop(a, s, e, s, e, At(a, (s + e + 1) \div 2))
<1> DEFINE h == (s + e + 1) \div 2
<1>1. Len(a) \in Nat /\ h \in Nat /\ s + 1 <= h /\ h <= e
  BY LenProperties
<1> HIDE DEF h
<1>2. h + 1 \in 1 .. Len(a) /\ s + 2 <= h + 1 /\ h + 1 <= e + 1 /\ s < h + 1
  BY <1>1
<1>3. a[h + 1] \in Int /\ a[h + 1] <= a[h + 1]
  BY <1>2, ElementOfSeq
<1>4. Divided(a, s, e, s, e, a[h + 1])
  BY <1>1 DEF Divided
<1>5. Loop(a, s, e, s, e, a[h + 1])
  BY <1>2, <1>3, <1>4 DEF Loop
<1> QED BY <1>5 DEF At, h

\* A call begins: its range is no longer pending, and the loop starts from both ends.
LEMMA QuicksortPreserves == SortInv /\ quicksort => SortInv'
<1> SUFFICES ASSUME SortInv, quicksort PROVE SortInv'
  OBVIOUS
<1> DEFINE c == Head(calls)
           p == At(array, (c.start + c.end + 1) \div 2)
<1>1. /\ running = NoCall /\ calls # <<>> /\ calls' = Tail(calls) /\ array' = array
      /\ unsorted' = unsorted
      /\ running' = [start |-> c.start, end |-> c.end, forward |-> c.start, backward |-> c.end,
                     pivot |-> p]
  BY DEF quicksort
<1>2. array \in Seq(Int) /\ Len(array) \in Nat
  BY KeysAreIntegers DEF SortInv
<1>3. NoCall.end + 1 = 0 /\ 0 \in Int
  BY DEF NoCall, Call
<1>4. /\ c \in [start : Nat, end : Nat] /\ c.start < c.end /\ c.end < Len(array)
      /\ CallsOK(Tail(calls), Len(array), c.end + 1)
      /\ \A i, j : Covers(calls, i, j) => (InCall(c, i) /\ InCall(c, j)) \/ Covers(Tail(calls), i, j)
  <2>1. CallsOK(calls, Len(array), 0)
    BY <1>1, <1>3 DEF SortInv
  <2> QED BY <1>1, <1>2, <1>3, <2>1, TakeCall
<1> HIDE DEF c
<1>5. Loop(array, c.start, c.end, c.start, c.end, p)
  BY <1>2, <1>4, LoopBegins
<1> HIDE DEF p
<1>6. running'.start = c.start /\ running'.end = c.end /\ LoopOK(array, running')
  BY <1>1, <1>5 DEF LoopOK
<1>7. OrderedBut(array, Tail(calls), c)
  <2>1. \A i \in 1 .. Len(array) : ~InCall(NoCall, i)
    BY <1>2, NoRange
  <2> QED BY <1>1, <1>4, <2>1 DEF SortInv, OrderedBut
<1>8. OrderedBut(array, Tail(calls), running')
  BY <1>6, <1>7, SameRange
<1> QED BY <1>1, <1>4, <1>6, <1>8 DEF SortInv

\* A step of one of the inner loops.
LEMMA AdvancePreserves == SortInv /\ (advance_forward \/ advance_backward) => SortInv'
<1> SUFFICES ASSUME SortInv, advance_forward \/ advance_backward PROVE SortInv'
  OBVIOUS
<1> DEFINE r == running
<1>1. /\ r # NoCall /\ calls' = calls /\ array' = array /\ unsorted' = unsorted
      /\ \/ forward_less /\ running' = [r EXCEPT !.forward = @ + 1]
         \/ backward_greater /\ running' = [r EXCEPT !.backward = @ - 1]
  BY DEF advance_forward, advance_backward
<1>2. array \in Seq(Int)
  BY KeysAreIntegers DEF SortInv
<1>3. /\ r = [start |-> r.start, end |-> r.end, forward |-> r.forward,
              backward |-> r.backward, pivot |-> r.pivot]
      /\ Loop(array, r.start, r.end, r.forward, r.backward, r.pivot)
  BY <1>1 DEF SortInv, LoopOK
<1>4. running'.start = r.start /\ running'.end = r.end /\ LoopOK(array, running')
  <2>1. CASE forward_less /\ running' = [r EXCEPT !.forward = @ + 1]
    <3>1. running' = [start |-> r.start, end |-> r.end, forward |-> r.forward + 1,
                      backward |-> r.backward, pivot |-> r.pivot]
      BY <1>3, <2>1
    <3>2. Loop(array, r.start, r.end, r.forward + 1, r.backward, r.pivot)
      BY <1>2, <1>3, <2>1, ForwardStays DEF forward_less, At
    <3> QED BY <3>1, <3>2 DEF LoopOK
  <2>2. CASE backward_greater /\ running' = [r EXCEPT !.backward = @ - 1]
    <3>1. running' = [start |-> r.start, end |-> r.end, forward |-> r.forward,
                      backward |-> r.backward - 1, pivot |-> r.pivot]
      BY <1>3, <2>2
    <3>2. Loop(array, r.start, r.end, r.forward, r.backward - 1, r.pivot)
      BY <1>2, <1>3, <2>2, BackwardStays DEF backward_greater, At
    <3> QED BY <3>1, <3>2 DEF LoopOK
  <2> QED BY <1>1, <2>1, <2>2
<1>5. OrderedBut(array, calls, running')
  <2>1. OrderedBut(array, calls, running)
    BY DEF SortInv
  <2> QED BY <1>4, <2>1, SameRange
<1> QED BY <1>1, <1>4, <1>5 DEF SortInv

\* The indices that are exchanged are in the range.
LEMMA ExchangeInRange ==
    ASSUME NEW s \in Nat, NEW e \in Nat, NEW f \in Nat, NEW b \in Nat, NEW n \in Nat,
           e < n, s <= f, f <= e, s <= b, b <= e, ~(f > b)
    PROVE  /\ f \in Int /\ b \in Int /\ f + 1 \in 1 .. n /\ b + 1 \in 1 .. n
           /\ f <= b /\ f + 1 \in Nat /\ b - 1 \in Int /\ b - 1 <= e /\ s <= f + 1
           /\ s < f + 1 /\ f + 1 <= e + 1 /\ s < b + 1 /\ b + 1 <= e + 1
OBVIOUS

\* Behind the inner loops: an exchange, and the end of the partition.
LEMMA ExchangePreserves == SortInv /\ exchange => SortInv'
<1> SUFFICES ASSUME SortInv, exchange PROVE SortInv'
  OBVIOUS
<1> DEFINE r == running
           step == IF r.forward > r.backward THEN r
                   ELSE [r EXCEPT !.forward = @ + 1, !.backward = @ - 1]
<1>1. /\ r # NoCall /\ ~forward_less /\ ~backward_greater /\ unsorted' = unsorted
      /\ array' = IF r.forward > r.backward THEN array ELSE Swap(array, r.forward, r.backward)
      /\ IF step.forward > step.backward
         THEN running' = NoCall /\ calls' = Parts(step) \o calls
         ELSE running' = step /\ calls' = calls
  BY DEF exchange
<1>2. /\ array \in Seq(Int) /\ array \in Seq(Keys) /\ Len(array) \in Nat /\ unsorted \in Seq(Keys)
      /\ CallsOK(calls, Len(array), r.end + 1) /\ OrderedBut(array, calls, r)
      /\ \A key \in Keys : Occurrences(array, key) = Occurrences(unsorted, key)
  BY KeysAreIntegers DEF SortInv
<1>3. /\ r = [start |-> r.start, end |-> r.end, forward |-> r.forward,
              backward |-> r.backward, pivot |-> r.pivot]
      /\ Loop(array, r.start, r.end, r.forward, r.backward, r.pivot)
  BY <1>1 DEF SortInv, LoopOK
<1> DEFINE p == r.pivot
           f == r.forward
           b == r.backward
<1>4. /\ r.start \in Nat /\ r.end \in Nat /\ f \in Nat /\ b \in Nat /\ p \in Int
      /\ r.end < Len(array) /\ r.start <= f /\ f <= r.end /\ r.start <= b /\ b <= r.end
      /\ Divided(array, r.start, r.end, f, b, p)
  BY <1>3 DEF Loop
<1>5. NoCall.end + 1 = 0
  BY DEF NoCall, Call
\* What is left to show of the array and of the loop variables, whatever they are now.
<1>6. ASSUME step.start = r.start, step.end = r.end, step.backward < step.forward,
             step.forward \in Nat, step.backward \in Int, r.start <= step.backward,
             step.backward <= r.end, r.start <= step.forward,
             array' \in Seq(Int), array' \in Seq(Keys), Len(array') = Len(array),
             Divided(array', r.start, r.end, step.forward, step.backward, p),
             OrderedBut(array', calls, r),
             \A key \in Keys : Occurrences(array', key) = Occurrences(array, key)
      PROVE  SortInv'
  <2> HIDE DEF p, f, b, step
  <2>1. running' = NoCall /\ calls' = Parts(step) \o calls
    BY <1>1, <1>6
  <2>2. OrderedBut(array', calls, step)
    BY <1>6, SameRange
  <2>3. /\ CallsOK(calls', Len(array'), 0) /\ OrderedBut(array', calls', NoCall)
    BY <1>2, <1>4, <1>6, <2>1, <2>2, SplitOrdered
  <2>4. \A key \in Keys : Occurrences(array', key) = Occurrences(unsorted', key)
    BY <1>1, <1>2, <1>6
  <2> QED BY <1>1, <1>2, <1>5, <1>6, <2>1, <2>3, <2>4 DEF SortInv
<1>7. CASE f > b
  <2>1. step = r /\ array' = array
    BY <1>1, <1>7
  <2>2. b < f /\ b \in Int
    BY <1>4, <1>7
  <2> QED BY <1>2, <1>4, <1>6, <2>1, <2>2
<1>8. CASE ~(f > b)
  <2>1. /\ array' = Swap(array, f, b)
        /\ step = [start |-> r.start, end |-> r.end, forward |-> f + 1, backward |-> b - 1, pivot |-> p]
    <3>1. step = [r EXCEPT !.forward = @ + 1, !.backward = @ - 1]
      BY <1>8
    <3>2. step = [start |-> r.start, end |-> r.end, forward |-> f + 1, backward |-> b - 1, pivot |-> p]
      BY <1>3, <3>1
    <3> QED BY <1>1, <1>8, <3>2
  <2>2. /\ f \in Int /\ b \in Int /\ f + 1 \in 1 .. Len(array) /\ b + 1 \in 1 .. Len(array)
        /\ f <= b /\ f + 1 \in Nat /\ b - 1 \in Int /\ b - 1 <= r.end /\ r.start <= f + 1
        /\ r.start < f + 1 /\ f + 1 <= r.end + 1 /\ r.start < b + 1 /\ b + 1 <= r.end + 1
    <3> HIDE DEF step, f, b, p
    <3> QED BY <1>2, <1>4, <1>8, ExchangeInRange
  <2> HIDE DEF step, f, b, p
  <2>3. /\ array' \in Seq(Keys) /\ Len(array') = Len(array)
        /\ \A k \in 1 .. Len(array) : array'[k] = IF k = b + 1 THEN array[f + 1]
                                                  ELSE IF k = f + 1 THEN array[b + 1] ELSE array[k]
        /\ \A key \in Keys : Occurrences(array', key) = Occurrences(array, key)
    <3>1. ASSUME NEW key
          PROVE  /\ array' \in Seq(Keys) /\ Len(array') = Len(array)
                 /\ \A k \in 1 .. Len(array) : array'[k] = IF k = b + 1 THEN array[f + 1]
                                                ELSE IF k = f + 1 THEN array[b + 1] ELSE array[k]
                 /\ Occurrences(array', key) = Occurrences(array, key)
      BY <1>2, <2>1, <2>2, SwapOccurs, ZenonT(40)
    <3> QED BY <3>1
  <2>4. array' \in Seq(Int)
    BY <2>3, KeysAreIntegers
  <2>5. Swapped(array, array', f + 1, b + 1)
    BY <2>3, <2>4 DEF Swapped
  <2>6. InCall(r, f + 1) /\ InCall(r, b + 1)
    BY <2>2 DEF InCall
  <2>7. OrderedBut(array', calls, r)
    <3>1. RangeIs(r, r.start, r.end)
      BY DEF RangeIs
    <3> QED BY <1>2, <1>4, <2>2, <2>5, <2>6, <3>1, SwapOrdered
  <2>8. ~(array[f + 1] < p) /\ ~(array[b + 1] > p)
    BY <1>1 DEF forward_less, backward_greater, At, f, b, p
  <2>9. /\ Divided(array', r.start, r.end, f + 1, b - 1, p)
        /\ r.start <= b - 1
        /\ f + 1 <= b - 1 => Loop(array', r.start, r.end, f + 1, b - 1, p)
    <3>1. Loop(array, r.start, r.end, f, b, p)
      BY <1>3 DEF f, b, p
    <3> QED BY <1>2, <2>2, <2>5, <2>8, <3>1, ExchangeDivides
  <2>10. /\ step.start = r.start /\ step.end = r.end /\ step.forward = f + 1 /\ step.backward = b - 1
    BY <2>1
  <2>11. CASE b - 1 < f + 1
    BY <1>6, <2>2, <2>3, <2>4, <2>7, <2>9, <2>10, <2>11
  <2>12. CASE ~(b - 1 < f + 1)
    <3>1. f + 1 <= b - 1 /\ ~(step.forward > step.backward)
      BY <2>2, <2>10, <2>12
    <3>2. running' = step /\ calls' = calls
      BY <1>1, <3>1
    <3>3. LoopOK(array', running')
      BY <2>1, <2>9, <3>1, <3>2 DEF LoopOK
    <3>4. OrderedBut(array', calls, running')
      BY <2>7, <2>10, <3>2, SameRange
    <3>5. \A key \in Keys : Occurrences(array', key) = Occurrences(unsorted', key)
      BY <1>1, <1>2, <2>3
    <3> QED BY <1>1, <1>2, <2>3, <2>10, <3>2, <3>3, <3>4, <3>5 DEF SortInv
  <2> QED BY <2>11, <2>12
<1> QED BY <1>7, <1>8

\* What the invariant says of the calls, and of the array when nothing is left to do.
LEMMA SortInvSorts == SortInv => Sorted
<1> SUFFICES ASSUME SortInv PROVE Sorted
  OBVIOUS
<1>1. /\ array \in Seq(Int) /\ Len(array) \in Nat
      /\ CallsOK(calls, Len(array), running.end + 1) /\ OrderedBut(array, calls, running)
  BY KeysAreIntegers DEF SortInv
<1>2. calls \in Seq([start : Nat, end : Nat]) /\ DOMAIN calls = 1 .. Len(calls) /\ Len(calls) \in Nat
  BY <1>1, LenProperties DEF CallsOK
<1>3. running.end \in Int
  <2>1. NoCall.end = -1
    BY DEF NoCall, Call
  <2>2. LoopOK(array, running) => running.end \in Int
    BY DEF LoopOK, Loop
  <2> QED BY <2>1, <2>2 DEF SortInv
<1>4. \A k \in 1 .. Len(calls) : calls[k].start \in Nat /\ running.end + 1 <= calls[k].start
  <2> SUFFICES ASSUME NEW k \in 1 .. Len(calls)
               PROVE  calls[k].start \in Nat /\ running.end + 1 <= calls[k].start
    OBVIOUS
  <2>1. calls[k] \in [start : Nat, end : Nat]
    BY <1>2, ElementOfSeq
  <2>2. running.end + 1 <= calls[k].start
    BY <1>1 DEF CallsOK
  <2> QED BY <2>1, <2>2
<1>5. CallsAreRanges
  <2>1. \A i \in DOMAIN calls : 0 <= calls[i].start /\ calls[i].start < calls[i].end
    BY <1>1, <1>2, <1>4 DEF CallsOK
  <2>2. \A i \in 1 .. Len(calls) - 1 : calls[i].end < calls[i + 1].start
    <3> SUFFICES ASSUME NEW i \in 1 .. Len(calls) - 1 PROVE calls[i].end < calls[i + 1].start
      OBVIOUS
    <3>1. i \in 1 .. Len(calls) /\ i + 1 \in 1 .. Len(calls) /\ i < i + 1
      BY <1>2
    <3> QED BY <1>1, <3>1 DEF CallsOK
  <2>3. ASSUME running # NoCall
        PROVE  /\ running.start <= running.forward /\ running.forward <= running.end
               /\ running.start <= running.backward /\ running.backward <= running.end
    BY <2>3 DEF SortInv, LoopOK, Loop
  <2>4. ASSUME calls # <<>> PROVE running.end < calls[1].start
    <3>1. 1 \in 1 .. Len(calls)
      BY <1>2, <2>4, EmptySeq
    <3>2. calls[1].start \in Nat /\ running.end + 1 <= calls[1].start
      BY <1>4, <3>1
    <3> QED BY <1>3, <3>2
  <2> QED BY <2>1, <2>2, <2>3, <2>4 DEF CallsAreRanges
<1>6. ASSUME calls = <<>>, running = NoCall, NEW i \in 1 .. Len(array) - 1
      PROVE  array[i] <= array[i + 1]
  <2>1. i \in 1 .. Len(array) /\ i + 1 \in 1 .. Len(array) /\ i < i + 1 /\ i \in Int
    BY <1>1
  <2>2. ~Covers(calls, i, i + 1)
    <3>1. Len(calls) = 0
      BY <1>6
    <3> QED BY <3>1 DEF Covers
  <2>3. ~InCall(running, i)
    BY <1>6, <2>1, NoRange
  <2> QED BY <1>1, <2>1, <2>2, <2>3 DEF OrderedBut
<1>7. \A key \in Keys : Occurrences(array, key) = Occurrences(unsorted, key)
  BY DEF SortInv
<1> QED BY <1>5, <1>6, <1>7 DEF Sorted

\* Quicksort (gc/incremental/sort.rs): the loops stay within the range of the call, no
\* call has less than two elements, the elements are those there were, and when no call
\* is left they are in order; of arrays of any length.
THEOREM SortSorts == SortSpec => []Sorted
<1>1. SortInit => SortInv
  BY SortBegins
<1>2. SortInv /\ [SortNext]_sortVars => SortInv'
  <2>1. ASSUME SortInv, UNCHANGED sortVars PROVE SortInv'
    BY <2>1 DEF sortVars, SortInv
  <2> QED BY <2>1, SortPreserves, QuicksortPreserves, AdvancePreserves, ExchangePreserves,
             FinishPreserves DEF SortNext
<1>3. SortInv => Sorted
  BY SortInvSorts
<1> QED BY <1>1, <1>2, <1>3, PTL DEF SortSpec
=============================================================================
