----------------------- MODULE PartitionedHeapProofs -----------------------
(***************************************************************************)
(* Proofs about the partitioned heap, for partitions, tables, bitmaps and  *)
(* objects of any sizes and for any capacity of the memory.                *)
(*                                                                         *)
(* MemoryInUse is not inductive.  HeapInv adds where bitmaps may lie (at   *)
(* multiples of their size, in temporary partitions, below the allocation  *)
(* pointer of the current one), where objects lie, by their addresses and  *)
(* sizes alone, and which partitions the allocation, the evacuation and    *)
(* the release of large objects never meet.                                *)
(***************************************************************************)
EXTENDS PartitionedHeap, FiniteSetTheorems, WellFoundedInduction, TLAPS

Partition ==
  [free : BOOLEAN, large_content : BOOLEAN, temporary : BOOLEAN, evacuate : BOOLEAN,
   update : BOOLEAN, marked_size : Nat, dynamic_size : Nat, bitmap : Nat,
   static_size : 0 .. PARTITION_SIZE]

HeapObject == [at : Nat, size : Nat \ {0}, marked : BOOLEAN, forwarded : BOOLEAN, stale : BOOLEAN]

\* The heap has the fields of its record.
IsHeap(h) ==
  h = [partitions |-> h.partitions, allocation_index |-> h.allocation_index,
       free_partitions |-> h.free_partitions,
       precomputed_heap_size |-> h.precomputed_heap_size, evacuating |-> h.evacuating,
       gc_running |-> h.gc_running,
       bitmap_allocation_pointer |-> h.bitmap_allocation_pointer,
       reclaimed |-> h.reclaimed, evacuated_size |-> h.evacuated_size, memory |-> h.memory]

\* The partition q with the number i.
PartitionOK(q, i, running, memory) ==
  /\ q.static_size + q.dynamic_size <= PARTITION_SIZE
  /\ q.free => /\ q.dynamic_size = 0 /\ q.marked_size = 0 /\ ~q.large_content
               /\ ~q.temporary /\ ~q.evacuate /\ ~q.update
  /\ q.temporary => /\ running /\ q.dynamic_size = 0 /\ ~q.large_content
                    /\ ~q.evacuate /\ end_address(i) <= memory
  /\ q.large_content => q.static_size = 0 /\ ~q.evacuate

\* The partitions p, of which the first has static data.
PartitionsOK(p, running, memory) ==
  /\ \E n \in Nat \ {0} : p \in [0 .. n - 1 -> Partition]
  /\ memory \in Nat /\ running \in BOOLEAN
  /\ p[0].static_size > 0
  /\ \A i \in DOMAIN p : PartitionOK(p[i], i, running, memory)

\* The partition of the allocation takes small objects.
AllocationOK(p, index) ==
  /\ index \in DOMAIN p
  /\ ~p[index].free /\ ~p[index].temporary /\ ~p[index].large_content /\ ~p[index].evacuate

Aligned(address) == address \in Nat /\ \E k \in Nat : address = k * BITMAP_SIZE

\* Whether a bitmap has been handed out with the allocation pointer at pointer.
HandedOut(bitmap, pointer) ==
  pointer % PARTITION_SIZE # 0 /\ index_of(bitmap) = index_of(pointer) => bitmap < pointer

\* The partitions of todo have yet to be given their bitmaps.
BitmapsOK(p, pointer, running, todo) ==
  /\ Aligned(pointer)
  /\ pointer % PARTITION_SIZE # 0 => index_of(pointer) \in DOMAIN p /\ p[index_of(pointer)].temporary
  /\ ~running => pointer = 0 /\ \A i \in DOMAIN p : p[i].bitmap = NoBitmap
  /\ \A i \in DOMAIN p : p[i].bitmap # NoBitmap =>
       /\ Aligned(p[i].bitmap) /\ HandedOut(p[i].bitmap, pointer)
       /\ index_of(p[i].bitmap) \in DOMAIN p /\ p[index_of(p[i].bitmap)].temporary
       /\ \A j \in DOMAIN p : p[j].bitmap = p[i].bitmap => i = j
  /\ running => \A i \in DOMAIN p \ todo :
       has_dynamic_space(p[i]) /\ ~p[i].large_content => p[i].bitmap # NoBitmap

\* A small object lies in the dynamic space of its partition.
SmallOK(p, o) ==
  LET i == index_of(o.at)
  IN  /\ i \in DOMAIN p /\ ~p[i].free /\ ~p[i].temporary /\ ~p[i].large_content
      /\ start_address(i) + p[i].static_size <= o.at
      /\ o.at + o.size <= start_address(i) + p[i].static_size + p[i].dynamic_size

\* A large object has partitions of its own; if the first one is not marked, none is.
LargeOK(p, o) ==
  LET i == index_of(o.at)
  IN  /\ o.at = start_address(i)
      /\ \A j \in PartitionRange(o) :
           /\ j \in DOMAIN p /\ p[j].large_content /\ ~p[j].free
           /\ p[i].marked_size = 0 => p[j].marked_size = 0

ObjectsOK(p, memory, all) ==
  /\ all \subseteq HeapObject
  /\ \A o \in all : /\ o.at + o.size <= memory
                    /\ IF IsLarge(o) THEN LargeOK(p, o) ELSE SmallOK(p, o)
  /\ \A o, q \in all : /\ o.at = q.at => o = q
                       /\ o.at < q.at => o.at + o.size <= q.at

HeapOK(h, all, todo) ==
  /\ IsHeap(h)
  /\ PartitionsOK(h.partitions, h.gc_running, h.memory)
  /\ AllocationOK(h.partitions, h.allocation_index)
  /\ BitmapsOK(h.partitions, h.bitmap_allocation_pointer, h.gc_running, todo)
  /\ ObjectsOK(h.partitions, h.memory, all)

\* The iterator is at an object of its partition.
WalkOK(w, all) ==
  has_object(w) => \E o \in all : o.at = w.object /\ index_of(o.at) = w.partition_index

IsWalk(w) ==
  w = [partition_index |-> w.partition_index, number_of_partitions |-> w.number_of_partitions,
       object |-> w.object]

\* What has yet to be given a bitmap at the start of a collection.
Todo(w, phase) ==
  IF phase = "Start" THEN {i \in Nat : w.partition_index <= i /\ i < w.number_of_partitions} ELSE {}

\* The inductive invariant.
HeapInv ==
  /\ gc_phase \in {"Pause", "Start", "Mark", "Evacuate", "Update"}
  /\ heap.gc_running <=> gc_phase # "Pause"
  /\ HeapOK(heap, objects, Todo(walk, gc_phase))
  /\ IsWalk(walk)
  /\ gc_phase = "Start" => /\ walk.partition_index \in Nat /\ walk.number_of_partitions \in Nat
                           /\ \A i \in Nat : i < walk.number_of_partitions => i \in DOMAIN heap.partitions
  /\ gc_phase = "Evacuate" => WalkOK(walk, objects)

-----------------------------------------------------------------------------
(* Addresses *)

\* A set of numbers has a least one, and Min is it.
LEMMA LeastNumber ==
    ASSUME NEW S, S \subseteq Nat, S # {}
    PROVE  Min(S) \in S /\ \A y \in S : Min(S) <= y
<1>1. PICK x \in S : \A y \in S : ~(<<y, x>> \in OpToRel(<, Nat))
  BY NatLessThanWellFounded, WFMin
<1>2. \A y \in S : x <= y
  <2> SUFFICES ASSUME NEW y \in S, ~(x <= y) PROVE FALSE
    OBVIOUS
  <2>1. y < x /\ x \in Nat /\ y \in Nat
    OBVIOUS
  <2> QED BY <1>1, <2>1 DEF OpToRel
<1> QED BY <1>2 DEF Min

LEMMA SizesAreNumbers ==
    /\ PARTITION_SIZE \in Nat \ {0} /\ PARTITIONS_PER_TABLE \in Nat \ {0} /\ BITMAP_SIZE \in Nat \ {0}
    /\ PARTITION_TABLE_SIZE \in Nat \ {0} /\ PARTITION_TABLE_SIZE < PARTITION_SIZE
    /\ HEAP_BASE \in Nat \ {0} /\ RANKING_SIZE \in Nat \ {0}
BY SizesAssumption

\* Division with remainder.
LEMMA DivMod ==
    ASSUME NEW x \in Nat, NEW d \in Nat, d > 0
    PROVE  /\ x = (x \div d) * d + (x % d)
           /\ x \div d \in Nat /\ x % d \in 0 .. d - 1
  OBVIOUS

LEMMA Monotonic ==
    ASSUME NEW i \in Nat, NEW j \in Nat, i < j, NEW d \in Nat
    PROVE  i * d \in Nat /\ j * d \in Nat /\ i * d + d <= j * d
<1>1. PICK e \in Nat : j = i + 1 + e
  <2>1. j - i - 1 \in Nat /\ j = i + 1 + (j - i - 1)
    OBVIOUS
  <2> QED BY <2>1
<1>2. (i + 1 + e) * d = i * d + d + e * d /\ e * d \in Nat /\ i * d \in Nat
  OBVIOUS
<1>3. j * d = i * d + d + e * d
  BY <1>1, <1>2
<1> QED BY <1>2, <1>3

LEMMA PartitionAddresses ==
    ASSUME NEW i \in Nat
    PROVE  /\ start_address(i) \in Nat /\ end_address(i) \in Nat
           /\ end_address(i) = start_address(i) + PARTITION_SIZE
           /\ end_address(i) = start_address(i + 1)
<1>1. i * PARTITION_SIZE \in Nat /\ (i + 1) * PARTITION_SIZE = i * PARTITION_SIZE + PARTITION_SIZE
  BY SizesAreNumbers
<1> QED BY <1>1, SizesAreNumbers DEF start_address, end_address

\* Partitions lie behind each other.
LEMMA PartitionOrder ==
    ASSUME NEW i \in Nat, NEW j \in Nat, i < j
    PROVE  end_address(i) <= start_address(j)
  BY Monotonic, SizesAreNumbers DEF start_address, end_address

LEMMA StartOrder ==
    ASSUME NEW i \in Nat, NEW j \in Nat
    PROVE  /\ start_address(i) \in Nat /\ start_address(j) \in Nat
           /\ i < j => start_address(i) < start_address(j)
           /\ i <= j => start_address(i) <= start_address(j)
<1>1. start_address(i) \in Nat /\ start_address(j) \in Nat /\ PARTITION_SIZE \in Nat /\ PARTITION_SIZE > 0
      /\ end_address(i) = start_address(i) + PARTITION_SIZE
  BY PartitionAddresses, SizesAreNumbers
<1>2. CASE i < j
  <2>1. end_address(i) <= start_address(j)
    BY <1>2, PartitionOrder
  <2> QED BY <1>1, <1>2, <2>1
<1>3. CASE ~(i < j)
  BY <1>1, <1>3
<1> QED BY <1>2, <1>3

\* An address is in its partition.
LEMMA InItsPartition ==
    ASSUME NEW x \in Nat
    PROVE  /\ index_of(x) \in Nat /\ start_address(index_of(x)) <= x /\ x < end_address(index_of(x))
           /\ x % PARTITION_SIZE \in Nat
           /\ x % PARTITION_SIZE = x - start_address(index_of(x))
<1> DEFINE q == x \div PARTITION_SIZE
           r == x % PARTITION_SIZE
<1>1. q \in Nat /\ r \in Nat /\ r < PARTITION_SIZE /\ x = q * PARTITION_SIZE + r
  BY DivMod, SizesAreNumbers
<1>2. index_of(x) = q /\ start_address(q) = q * PARTITION_SIZE
      /\ end_address(q) = q * PARTITION_SIZE + PARTITION_SIZE
  BY DEF index_of, start_address, end_address
<1> HIDE DEF q, r
<1>3. q * PARTITION_SIZE \in Nat
  BY <1>1, SizesAreNumbers
<1>4. index_of(x) \in Nat /\ start_address(index_of(x)) <= x /\ x < end_address(index_of(x))
      /\ r = x - start_address(index_of(x)) /\ r \in Nat
  BY <1>1, <1>2, <1>3, SizesAreNumbers
<1> QED BY <1>4 DEF r

LEMMA PartitionOf ==
    ASSUME NEW x \in Nat, NEW i \in Nat, start_address(i) <= x, x < end_address(i)
    PROVE  index_of(x) = i
<1> DEFINE k == index_of(x)
<1>1. k \in Nat /\ start_address(k) <= x /\ x < end_address(k) /\ end_address(k) \in Nat
      /\ start_address(k) \in Nat /\ start_address(i) \in Nat /\ end_address(i) \in Nat
  BY InItsPartition, PartitionAddresses
<1> HIDE DEF k
<1>2. ~(k < i)
  <2> SUFFICES ASSUME k < i PROVE FALSE
    OBVIOUS
  <2>1. end_address(k) <= start_address(i)
    BY <1>1, PartitionOrder
  <2> QED BY <1>1, <2>1
<1>3. ~(i < k)
  <2> SUFFICES ASSUME i < k PROVE FALSE
    OBVIOUS
  <2>1. end_address(i) <= start_address(k)
    BY <1>1, PartitionOrder
  <2> QED BY <1>1, <2>1
<1>4. k = i
  BY <1>1, <1>2, <1>3
<1> QED BY <1>4 DEF k

\* The number of partitions of an object.
LEMMA PartitionsLength ==
    ASSUME NEW size \in Nat \ {0}
    PROVE  LET n == partitions_length(size)
           IN  /\ n \in Nat \ {0}
               /\ (n - 1) * PARTITION_SIZE \in Nat /\ (n - 1) * PARTITION_SIZE < size
               /\ size <= (n - 1) * PARTITION_SIZE + PARTITION_SIZE
               /\ size <= PARTITION_SIZE => n = 1
               /\ size > PARTITION_SIZE => n >= 2
<1> DEFINE P == PARTITION_SIZE
           x == size + P - 1
           n == x \div P
           r == x % P
<1>1. P \in Nat \ {0} /\ x \in Nat
  BY SizesAreNumbers
<1>2. n \in Nat /\ r \in Nat /\ r < P /\ x = n * P + r
  BY <1>1, DivMod
<1>3. partitions_length(size) = n
  BY DEF partitions_length
<1>4. x = size + P - 1
  OBVIOUS
<1> HIDE DEF P, n, r, x
<1>5. n # 0
  <2> SUFFICES ASSUME n = 0 PROVE FALSE
    OBVIOUS
  <2>1. n * P = 0
    BY <1>1
  <2> QED BY <1>1, <1>2, <1>4, <2>1
<1>6. PICK m \in Nat : n = m + 1
  <2>1. n - 1 \in Nat /\ n = (n - 1) + 1
    BY <1>2, <1>5
  <2> QED BY <2>1
<1>7. (m + 1) * P = m * P + P /\ m * P \in Nat
  BY <1>1
<1>8. m * P < size /\ size <= m * P + P
  BY <1>1, <1>2, <1>4, <1>6, <1>7
<1>9. size <= P => m = 0
  <2> SUFFICES ASSUME size <= P, m # 0 PROVE FALSE
    OBVIOUS
  <2>1. 0 * P + P <= m * P
    BY <1>1, Monotonic
  <2>2. 0 * P = 0
    BY <1>1
  <2> QED BY <1>1, <1>7, <1>8, <2>1, <2>2
<1>10. size > P => m # 0
  <2> SUFFICES ASSUME size > P, m = 0 PROVE FALSE
    OBVIOUS
  <2>1. m * P = 0
    BY <1>1
  <2> QED BY <1>1, <1>8, <2>1
<1>11. n - 1 = m
  BY <1>6
<1> QED BY <1>3, <1>5, <1>6, <1>7, <1>8, <1>9, <1>10, <1>11 DEF P

(* Places of bitmaps. *)

LEMMA AlignedIsAddress == \A a : Aligned(a) => a \in Nat
BY DEF Aligned

LEMMA AlignedOrder ==
    ASSUME NEW a, Aligned(a), NEW b, Aligned(b), a < b
    PROVE  a + BITMAP_SIZE <= b
<1>1. PICK k \in Nat : a = k * BITMAP_SIZE
  BY DEF Aligned
<1>2. PICK l \in Nat : b = l * BITMAP_SIZE
  BY DEF Aligned
<1>3. k < l
  <2> SUFFICES ASSUME ~(k < l) PROVE FALSE
    OBVIOUS
  <2>1. CASE k = l
    BY <1>1, <1>2, <2>1, AlignedIsAddress
  <2>2. CASE l < k
    BY <1>1, <1>2, <2>2, Monotonic, SizesAreNumbers, AlignedIsAddress
  <2> QED BY <2>1, <2>2
<1> QED BY <1>1, <1>2, <1>3, Monotonic, SizesAreNumbers

LEMMA AlignedPlaces ==
    /\ \A a : Aligned(a) => Aligned(a + BITMAP_SIZE)
    /\ \A i \in Nat : Aligned(start_address(i)) /\ Aligned(end_address(i))
<1>1. ASSUME NEW a, Aligned(a) PROVE Aligned(a + BITMAP_SIZE)
  <2>1. PICK k \in Nat : a = k * BITMAP_SIZE
    BY <1>1 DEF Aligned
  <2>2. (k + 1) * BITMAP_SIZE = k * BITMAP_SIZE + BITMAP_SIZE /\ k * BITMAP_SIZE \in Nat
    BY SizesAreNumbers
  <2>3. k + 1 \in Nat /\ a + BITMAP_SIZE \in Nat /\ a + BITMAP_SIZE = (k + 1) * BITMAP_SIZE
    BY <2>1, <2>2, SizesAreNumbers
  <2> QED BY <2>3 DEF Aligned
<1>2. ASSUME NEW i \in Nat PROVE Aligned(start_address(i))
  <2> DEFINE m == PARTITION_SIZE \div BITMAP_SIZE
  <2>1. PARTITION_SIZE % BITMAP_SIZE = 0
    BY SizesAssumption
  <2>2. m \in Nat /\ PARTITION_SIZE = m * BITMAP_SIZE + (PARTITION_SIZE % BITMAP_SIZE)
    <3>1. PARTITION_SIZE \in Nat /\ BITMAP_SIZE \in Nat /\ BITMAP_SIZE > 0
      BY SizesAreNumbers
    <3> QED BY <3>1, DivMod
  <2> HIDE DEF m
  <2>3. PARTITION_SIZE = m * BITMAP_SIZE
    BY <2>1, <2>2, SizesAreNumbers
  <2>4. i * (m * BITMAP_SIZE) = (i * m) * BITMAP_SIZE /\ i * m \in Nat
    BY <2>2, SizesAreNumbers
  <2>5. start_address(i) = (i * m) * BITMAP_SIZE
    BY <2>3, <2>4 DEF start_address
  <2> QED BY <2>4, <2>5, PartitionAddresses DEF Aligned
<1>3. ASSUME NEW i \in Nat PROVE Aligned(end_address(i))
  BY <1>2, PartitionAddresses, i + 1 \in Nat
<1> QED BY <1>1, <1>2, <1>3

-----------------------------------------------------------------------------
(* Partitions and objects *)

LEMMA PartitionTypes ==
    ASSUME NEW p, NEW running, NEW memory, PartitionsOK(p, running, memory)
    PROVE  /\ \A i \in DOMAIN p : i \in Nat /\ p[i] \in Partition
           /\ 0 \in DOMAIN p
           /\ \A i \in Nat, j \in DOMAIN p : i <= j => i \in DOMAIN p
<1>1. PICK n \in Nat \ {0} : p \in [0 .. n - 1 -> Partition]
  BY DEF PartitionsOK, PartitionOK
<1>2. DOMAIN p = 0 .. n - 1 /\ \A i \in 0 .. n - 1 : p[i] \in Partition
  BY <1>1
<1> QED BY <1>2

LEMMA ObjectNumbers ==
    ASSUME NEW o \in HeapObject
    PROVE  o.at \in Nat /\ o.size \in Nat /\ o.size > 0 /\ o.at + o.size \in Nat
  BY DEF HeapObject

\* The addresses of what lies in some partitions.
Within(o, first, behind) ==
  /\ first \in Nat /\ behind \in Nat /\ first <= behind
  /\ start_address(first) <= o.at /\ o.at + o.size <= end_address(behind)

\* Where an object lies, and in which partitions.
LEMMA ObjectPlace ==
    ASSUME NEW p, NEW running, NEW memory, PartitionsOK(p, running, memory),
           NEW o \in HeapObject, IF IsLarge(o) THEN LargeOK(p, o) ELSE SmallOK(p, o)
    PROVE  LET i == index_of(o.at)
               n == partitions_length(o.size)
           IN  /\ i \in Nat /\ n \in Nat \ {0} /\ PartitionRange(o) = i .. i + n - 1
               /\ Within(o, i, i + n - 1)
               /\ start_address(i + n - 1) < o.at + o.size
               /\ ~IsLarge(o) => n = 1
               /\ IsLarge(o) => n >= 2
               /\ \A j \in PartitionRange(o) :
                    /\ j \in DOMAIN p /\ ~p[j].free /\ ~p[j].temporary
                    /\ p[j].large_content <=> IsLarge(o)
<1> DEFINE i == index_of(o.at)
           n == partitions_length(o.size)
           P == PARTITION_SIZE
<1>1. o.at \in Nat /\ o.size \in Nat \ {0} /\ o.size > 0 /\ P \in Nat
  BY ObjectNumbers, SizesAreNumbers
<1>2. i \in Nat /\ start_address(i) <= o.at /\ o.at < end_address(i) /\ end_address(i) = start_address(i) + P
      /\ start_address(i) \in Nat
  BY <1>1, InItsPartition, PartitionAddresses
<1>3. /\ n \in Nat \ {0}
      /\ (n - 1) * P \in Nat /\ (n - 1) * P < o.size /\ o.size <= (n - 1) * P + P
      /\ o.size <= P => n = 1
      /\ o.size > P => n >= 2
  BY <1>1, PartitionsLength
<1>4. PartitionRange(o) = i .. i + n - 1
  BY DEF PartitionRange
<1> HIDE DEF i, n
<1>5. CASE ~IsLarge(o)
  <2>1. n = 1 /\ i + n - 1 = i
    BY <1>1, <1>2, <1>3, <1>5 DEF IsLarge
  <2>2. PartitionRange(o) = {i}
    BY <1>2, <1>4, <2>1
  <2>3. /\ i \in DOMAIN p /\ ~p[i].free /\ ~p[i].temporary /\ ~p[i].large_content
        /\ start_address(i) + p[i].static_size <= o.at
        /\ o.at + o.size <= start_address(i) + p[i].static_size + p[i].dynamic_size
    BY <1>5 DEF SmallOK, i
  <2>4. p[i].static_size \in Nat /\ p[i].dynamic_size \in Nat
        /\ p[i].static_size + p[i].dynamic_size <= P
    BY <1>1, <2>3, PartitionTypes DEF PartitionsOK, PartitionOK, Partition
  <2>5. o.at + o.size <= end_address(i) /\ start_address(i) < o.at + o.size
    BY <1>1, <1>2, <2>3, <2>4
  <2>6. Within(o, i, i + n - 1) /\ start_address(i + n - 1) < o.at + o.size
    BY <1>2, <2>1, <2>5 DEF Within
  <2> QED BY <1>2, <1>3, <1>4, <1>5, <2>1, <2>2, <2>3, <2>6 DEF i, n
<1>6. CASE IsLarge(o)
  <2>1. n >= 2 /\ o.at = start_address(i)
    BY <1>1, <1>3, <1>6 DEF IsLarge, LargeOK, i
  <2>2. i + n - 1 \in Nat /\ i <= i + n - 1
    BY <1>2, <1>3
  <2>3. start_address(i + n - 1) = start_address(i) + (n - 1) * P
    <3>1. PICK m \in Nat : n - 1 = m
      BY <1>3
    <3>2. (i + m) * P = i * P + m * P /\ i + n - 1 = i + m
      BY <1>1, <1>2, <1>3, <3>1
    <3> QED BY <3>1, <3>2 DEF start_address
  <2>4. end_address(i + n - 1) = start_address(i + n - 1) + P /\ start_address(i + n - 1) \in Nat
    BY <2>2, PartitionAddresses
  <2>5. o.at + o.size <= end_address(i + n - 1) /\ start_address(i + n - 1) < o.at + o.size
    BY <1>1, <1>2, <1>3, <2>1, <2>3, <2>4
  <2>6. Within(o, i, i + n - 1)
    BY <1>2, <2>2, <2>5 DEF Within
  <2>7. ASSUME NEW j \in PartitionRange(o)
        PROVE  j \in DOMAIN p /\ ~p[j].free /\ ~p[j].temporary /\ p[j].large_content
    <3>1. j \in DOMAIN p /\ ~p[j].free /\ p[j].large_content
      BY <1>6 DEF LargeOK
    <3> QED BY <3>1 DEF PartitionsOK, PartitionOK
  <2> QED BY <1>2, <1>3, <1>4, <1>6, <2>1, <2>5, <2>6, <2>7 DEF i, n
<1> QED BY <1>5, <1>6

\* What lies in different partitions does not overlap.
LEMMA Apart ==
    ASSUME NEW o, o.at \in Nat, o.size \in Nat, o.size > 0,
           NEW q, q.at \in Nat, q.size \in Nat, q.size > 0,
           NEW a, NEW b, Within(o, a, b), NEW c, NEW d, Within(q, c, d),
           (a .. b) \cap (c .. d) = {}
    PROVE  /\ o.at # q.at
           /\ o.at < q.at => o.at + o.size <= q.at
           /\ q.at < o.at => q.at + q.size <= o.at
<1>1. /\ {a, b, c, d} \subseteq Nat /\ a <= b /\ c <= d
      /\ start_address(a) <= o.at /\ o.at + o.size <= end_address(b)
      /\ start_address(c) <= q.at /\ q.at + q.size <= end_address(d)
  BY DEF Within
<1>2. b < c \/ d < a
  <2> SUFFICES ASSUME c <= b, a <= d PROVE FALSE
    BY <1>1
  <2>1. CASE a <= c
    BY <1>1, <2>1
  <2>2. CASE c <= a
    BY <1>1, <2>2
  <2> QED BY <1>1, <2>1, <2>2
<1>3. /\ {start_address(a), start_address(c), end_address(b), end_address(d)} \subseteq Nat
  BY <1>1, PartitionAddresses
<1>4. CASE b < c
  <2>1. end_address(b) <= start_address(c)
    BY <1>1, <1>4, PartitionOrder
  <2> QED BY <1>1, <1>3, <2>1
<1>5. CASE d < a
  <2>1. end_address(d) <= start_address(a)
    BY <1>1, <1>5, PartitionOrder
  <2> QED BY <1>1, <1>3, <2>1
<1> QED BY <1>2, <1>4, <1>5

\* Objects have no partition in common with a large one.
LEMMA LargeAlone ==
    ASSUME NEW p, NEW running, NEW memory, PartitionsOK(p, running, memory),
           NEW all, ObjectsOK(p, memory, all), NEW o \in all, NEW q \in all, IsLarge(o),
           NEW i, i \in PartitionRange(o), i \in PartitionRange(q)
    PROVE  o = q
<1>1. o \in HeapObject /\ q \in HeapObject
      /\ LargeOK(p, o) /\ (IF IsLarge(q) THEN LargeOK(p, q) ELSE SmallOK(p, q))
  BY DEF ObjectsOK
<1> DEFINE a == index_of(o.at)
           n == partitions_length(o.size)
           b == index_of(q.at)
           k == partitions_length(q.size)
<1>2. /\ a \in Nat /\ n \in Nat \ {0} /\ PartitionRange(o) = a .. a + n - 1
      /\ start_address(a + n - 1) < o.at + o.size /\ p[i].large_content
  BY <1>1, ObjectPlace
<1>3. /\ b \in Nat /\ k \in Nat \ {0} /\ PartitionRange(q) = b .. b + k - 1
      /\ start_address(b + k - 1) < q.at + q.size
      /\ p[i].large_content <=> IsLarge(q)
  BY <1>1, ObjectPlace
<1>4. o.at = start_address(a) /\ q.at = start_address(b)
  BY <1>1, <1>2, <1>3 DEF LargeOK
<1> HIDE DEF a, n, b, k
<1>5. i \in Nat /\ a <= i /\ i <= a + n - 1 /\ b <= i /\ i <= b + k - 1
  BY <1>2, <1>3
<1>6. o.at \in Nat /\ q.at \in Nat /\ o.at + o.size \in Nat /\ q.at + q.size \in Nat
  BY <1>1, ObjectNumbers
<1>7. ASSUME a < b PROVE FALSE
  <2>1. b <= a + n - 1 /\ a + n - 1 \in Nat
    BY <1>2, <1>3, <1>5
  <2>2. start_address(b) <= start_address(a + n - 1) /\ start_address(a + n - 1) \in Nat
    BY <1>3, <2>1, StartOrder
  <2>3. start_address(a) < start_address(b)
    BY <1>2, <1>3, <1>7, StartOrder
  <2>4. o.at + o.size <= q.at
    BY <1>4, <2>3 DEF ObjectsOK
  <2> QED BY <1>2, <1>4, <1>6, <2>2, <2>4
<1>8. ASSUME b < a PROVE FALSE
  <2>1. a <= b + k - 1 /\ b + k - 1 \in Nat
    BY <1>2, <1>3, <1>5
  <2>2. start_address(a) <= start_address(b + k - 1) /\ start_address(b + k - 1) \in Nat
    BY <1>2, <2>1, StartOrder
  <2>3. start_address(b) < start_address(a)
    BY <1>2, <1>3, <1>8, StartOrder
  <2>4. q.at + q.size <= o.at
    BY <1>4, <2>3 DEF ObjectsOK
  <2> QED BY <1>3, <1>4, <1>6, <2>2, <2>4
<1>9. a = b
  BY <1>2, <1>3, <1>7, <1>8
<1>10. o.at = q.at
  BY <1>4, <1>9
<1> QED BY <1>10 DEF ObjectsOK

\* A partition in use stays what it was; its dynamic size may have grown.
KeepsPlace(q, r) ==
  /\ r.free = q.free /\ r.temporary = q.temporary /\ r.large_content = q.large_content
  /\ r.static_size = q.static_size /\ r.dynamic_size >= q.dynamic_size

Keeps(q, r) == KeepsPlace(q, r) /\ r.marked_size = q.marked_size

\* Objects keep their places as long as their partitions do.
LEMMA ObjectsStay ==
    ASSUME NEW p, NEW running, NEW memory, PartitionsOK(p, running, memory),
           NEW all, ObjectsOK(p, memory, all), NEW new \in SUBSET all,
           NEW p2, NEW running2, NEW memory2, PartitionsOK(p2, running2, memory2), memory2 >= memory,
           \A o \in new : \A j \in PartitionRange(o) : j \in DOMAIN p2 /\ KeepsPlace(p[j], p2[j]),
           \A o \in new :
             \/ \A j \in PartitionRange(o) : p2[j].marked_size = p[j].marked_size
             \/ \A j \in PartitionRange(o) : p2[j].marked_size = 0
    PROVE  ObjectsOK(p2, memory2, new)
<1>1. memory \in Nat /\ memory2 \in Nat
  BY DEF PartitionsOK
<1>2. ASSUME NEW o \in new
      PROVE  o.at + o.size <= memory2 /\ IF IsLarge(o) THEN LargeOK(p2, o) ELSE SmallOK(p2, o)
  <2>1. o \in HeapObject /\ o.at + o.size <= memory
        /\ IF IsLarge(o) THEN LargeOK(p, o) ELSE SmallOK(p, o)
    BY DEF ObjectsOK
  <2>2. o.at + o.size <= memory2
    BY <1>1, <2>1, ObjectNumbers
  <2>3. \A j \in PartitionRange(o) : j \in DOMAIN p2 /\ KeepsPlace(p[j], p2[j])
    OBVIOUS
  <2>4. index_of(o.at) \in PartitionRange(o)
    <3>1. /\ index_of(o.at) \in Nat /\ partitions_length(o.size) \in Nat \ {0}
          /\ PartitionRange(o) = index_of(o.at) .. index_of(o.at) + partitions_length(o.size) - 1
      BY <2>1, ObjectPlace
    <3> QED BY <3>1
  <2>5. CASE IsLarge(o)
    <3>1. \A j \in PartitionRange(o) : p2[index_of(o.at)].marked_size = 0 => p2[j].marked_size = 0
      BY <2>1, <2>4, <2>5 DEF LargeOK
    <3>2. LargeOK(p2, o)
      BY <2>1, <2>3, <2>5, <3>1 DEF LargeOK, KeepsPlace
    <3> QED BY <2>2, <2>5, <3>2
  <2>6. CASE ~IsLarge(o)
    <3> DEFINE i == index_of(o.at)
    <3>1. /\ i \in DOMAIN p /\ ~p[i].free /\ ~p[i].temporary /\ ~p[i].large_content
          /\ start_address(i) + p[i].static_size <= o.at
          /\ o.at + o.size <= start_address(i) + p[i].static_size + p[i].dynamic_size
      BY <2>1, <2>6 DEF SmallOK
    <3>2. i \in DOMAIN p2 /\ KeepsPlace(p[i], p2[i])
      BY <2>3, <2>4
    <3>3. p[i] \in Partition /\ p2[i] \in Partition /\ start_address(i) \in Nat
      BY <3>1, <3>2, PartitionTypes, PartitionAddresses
    <3>4. o.at + o.size <= start_address(i) + p2[i].static_size + p2[i].dynamic_size
      <4>1. p[i].static_size \in Nat /\ p[i].dynamic_size \in Nat /\ p2[i].dynamic_size \in Nat
            /\ p2[i].static_size = p[i].static_size /\ p2[i].dynamic_size >= p[i].dynamic_size
        BY <3>2, <3>3 DEF Partition, KeepsPlace
      <4>2. o.at + o.size \in Nat
        BY <2>1, ObjectNumbers
      <4> HIDE DEF i
      <4> QED BY <3>1, <3>3, <4>1, <4>2
    <3>5. SmallOK(p2, o)
      BY <3>1, <3>2, <3>4 DEF SmallOK, KeepsPlace
    <3> QED BY <2>2, <2>6, <3>5
  <2> QED BY <2>5, <2>6
<1>3. new \subseteq HeapObject /\ \A o, q \in new : /\ o.at = q.at => o = q
                                                   /\ o.at < q.at => o.at + o.size <= q.at
  BY DEF ObjectsOK
<1> QED BY <1>2, <1>3 DEF ObjectsOK

LEMMA ObjectsKept ==
    ASSUME NEW p, NEW running, NEW memory, PartitionsOK(p, running, memory),
           NEW all, ObjectsOK(p, memory, all),
           NEW p2, NEW running2, NEW memory2, PartitionsOK(p2, running2, memory2), memory2 >= memory,
           \A i \in DOMAIN p : ~p[i].free /\ ~p[i].temporary => i \in DOMAIN p2 /\ Keeps(p[i], p2[i])
    PROVE  ObjectsOK(p2, memory2, all)
<1>1. ASSUME NEW o \in all
      PROVE  \A j \in PartitionRange(o) : j \in DOMAIN p2 /\ Keeps(p[j], p2[j])
  <2>1. o \in HeapObject /\ IF IsLarge(o) THEN LargeOK(p, o) ELSE SmallOK(p, o)
    BY DEF ObjectsOK
  <2> QED BY <2>1, ObjectPlace
<1>2. /\ \A o \in all : \A j \in PartitionRange(o) : j \in DOMAIN p2 /\ KeepsPlace(p[j], p2[j])
      /\ \A o \in all : \A j \in PartitionRange(o) : p2[j].marked_size = p[j].marked_size
  BY <1>1 DEF Keeps
<1> QED BY <1>2, ObjectsStay

\* An object is added.
LEMMA ObjectAdded ==
    ASSUME NEW p, NEW memory, NEW all, ObjectsOK(p, memory, all), NEW o \in HeapObject,
           o.at + o.size <= memory, IF IsLarge(o) THEN LargeOK(p, o) ELSE SmallOK(p, o),
           \A q \in all : /\ o.at # q.at
                          /\ o.at < q.at => o.at + o.size <= q.at
                          /\ q.at < o.at => q.at + q.size <= o.at
    PROVE  ObjectsOK(p, memory, all \cup {o})
<1> DEFINE new == all \cup {o}
<1>1. new \subseteq HeapObject
  BY DEF ObjectsOK
<1>2. \A q \in new : /\ q.at + q.size <= memory
                     /\ IF IsLarge(q) THEN LargeOK(p, q) ELSE SmallOK(p, q)
  BY DEF ObjectsOK
<1>3. ASSUME NEW q \in new, NEW r \in new
      PROVE  /\ q.at = r.at => q = r
             /\ q.at < r.at => q.at + q.size <= r.at
  <2>1. CASE q \in all /\ r \in all
    BY <2>1 DEF ObjectsOK
  <2>2. CASE q = o /\ r = o
    BY <2>2, ObjectNumbers
  <2>3. CASE q = o /\ r \in all
    BY <2>3
  <2>4. CASE q \in all /\ r = o
    BY <2>4
  <2> QED BY <2>1, <2>2, <2>3, <2>4
<1> HIDE DEF new
<1>4. ObjectsOK(p, memory, new)
  BY <1>1, <1>2, <1>3 DEF ObjectsOK
<1> QED BY <1>4 DEF new

\* An object may change its marks, not its place.
LEMMA ObjectsRelabelled ==
    ASSUME NEW p, NEW memory, NEW all, ObjectsOK(p, memory, all), NEW new, new \subseteq HeapObject,
           \A o \in new : \E q \in all : o.at = q.at /\ o.size = q.size,
           \A o, q \in new : o.at = q.at => o = q
    PROVE  ObjectsOK(p, memory, new)
<1>1. ASSUME NEW o \in new
      PROVE  /\ o.at + o.size <= memory
             /\ IF IsLarge(o) THEN LargeOK(p, o) ELSE SmallOK(p, o)
  <2>1. PICK q \in all : o.at = q.at /\ o.size = q.size
    OBVIOUS
  <2>2. q.at + q.size <= memory /\ IF IsLarge(q) THEN LargeOK(p, q) ELSE SmallOK(p, q)
    BY DEF ObjectsOK
  <2>3. PartitionRange(o) = PartitionRange(q) /\ (IsLarge(o) <=> IsLarge(q))
    BY <2>1 DEF PartitionRange, IsLarge
  <2> QED BY <2>1, <2>2, <2>3 DEF LargeOK, SmallOK
<1>2. ASSUME NEW o \in new, NEW q \in new, o.at < q.at PROVE o.at + o.size <= q.at
  <2>1. PICK o1 \in all : o.at = o1.at /\ o.size = o1.size
    OBVIOUS
  <2>2. PICK q1 \in all : q.at = q1.at /\ q.size = q1.size
    OBVIOUS
  <2> QED BY <1>2, <2>1, <2>2 DEF ObjectsOK
<1> QED BY <1>1, <1>2 DEF ObjectsOK

\* Objects lie apart from partitions none of them is in.
LEMMA ApartFromObjects ==
    ASSUME NEW p, NEW running, NEW memory, PartitionsOK(p, running, memory),
           NEW all, ObjectsOK(p, memory, all), NEW o \in HeapObject,
           NEW a, NEW b, Within(o, a, b),
           NEW q \in all, (a .. b) \cap PartitionRange(q) = {}
    PROVE  /\ o.at # q.at
           /\ o.at < q.at => o.at + o.size <= q.at
           /\ q.at < o.at => q.at + q.size <= o.at
<1> DEFINE c == index_of(q.at)
           d == index_of(q.at) + partitions_length(q.size) - 1
<1>1. q \in HeapObject /\ IF IsLarge(q) THEN LargeOK(p, q) ELSE SmallOK(p, q)
  BY DEF ObjectsOK
<1>2. PartitionRange(q) = c .. d /\ Within(q, c, d)
  BY <1>1, ObjectPlace
<1>3. /\ o.at \in Nat /\ o.size \in Nat /\ o.size > 0
      /\ q.at \in Nat /\ q.size \in Nat /\ q.size > 0
  BY <1>1, ObjectNumbers
<1> HIDE DEF c, d
<1> QED BY <1>2, <1>3, Apart

\* No object of all lies where o does.
NewPlace(all, o) == \A q \in all : q.at # o.at

Bumped(p, p2, i, size) == p2 = [p EXCEPT ![i].dynamic_size = @ + size]

\* A small object is put at the end of the dynamic space of its partition.
LEMMA SmallPlaced ==
    ASSUME NEW p, NEW running, NEW memory, PartitionsOK(p, running, memory),
           NEW all, ObjectsOK(p, memory, all),
           NEW i \in DOMAIN p, ~p[i].free, ~p[i].temporary, ~p[i].large_content,
           NEW o \in HeapObject, ~IsLarge(o),
           o.at = start_address(i) + p[i].static_size + p[i].dynamic_size,
           o.at + o.size <= end_address(i),
           NEW p2, Bumped(p, p2, i, o.size),
           NEW memory2 \in Nat, memory2 >= memory, memory2 >= o.at + o.size
    PROVE  PartitionsOK(p2, running, memory2) /\ ObjectsOK(p2, memory2, all \cup {o}) /\ NewPlace(all, o)
<1>1. /\ p[i] \in Partition /\ i \in Nat /\ start_address(i) \in Nat
      /\ end_address(i) = start_address(i) + PARTITION_SIZE /\ PARTITION_SIZE \in Nat
      /\ end_address(i) \in Nat
  BY PartitionTypes, PartitionAddresses, SizesAreNumbers
<1>2. /\ p[i].static_size \in Nat /\ p[i].dynamic_size \in Nat /\ o.at \in Nat
      /\ o.size \in Nat /\ o.size > 0
  BY <1>1, ObjectNumbers DEF Partition
<1>3. o.at < end_address(i) /\ start_address(i) <= o.at
  BY <1>1, <1>2
<1>4. index_of(o.at) = i
  BY <1>1, <1>2, <1>3, PartitionOf
<1>5. /\ DOMAIN p2 = DOMAIN p
      /\ \A j \in DOMAIN p : j # i => p2[j] = p[j]
      /\ p2[i] = [p[i] EXCEPT !.dynamic_size = @ + o.size]
  BY DEF Bumped
<1>6. /\ p2[i] \in Partition /\ p2[i].dynamic_size = p[i].dynamic_size + o.size
      /\ p2[i].free = p[i].free /\ p2[i].temporary = p[i].temporary
      /\ p2[i].large_content = p[i].large_content /\ p2[i].static_size = p[i].static_size
      /\ p2[i].marked_size = p[i].marked_size /\ p2[i].evacuate = p[i].evacuate
      /\ p2[i].update = p[i].update
  BY <1>1, <1>2, <1>5 DEF Partition
<1>7. p2[i].static_size + p2[i].dynamic_size <= PARTITION_SIZE
  <2>1. start_address(i) + p[i].static_size + p[i].dynamic_size + o.size <= start_address(i) + PARTITION_SIZE
    BY <1>1
  <2> QED BY <1>1, <1>2, <1>6, <2>1
<1>8. PartitionsOK(p2, running, memory2)
  <2>1. \E n \in Nat \ {0} : p2 \in [0 .. n - 1 -> Partition]
    <3>1. PICK n \in Nat \ {0} : p \in [0 .. n - 1 -> Partition]
      BY DEF PartitionsOK, PartitionOK
    <3>2. p2 \in [0 .. n - 1 -> Partition]
      BY <1>6, <3>1 DEF Bumped
    <3> QED BY <3>2
  <2>2. running \in BOOLEAN /\ p[0].static_size > 0 /\ memory \in Nat
    BY DEF PartitionsOK, PartitionOK
  <2>3. p2[0].static_size > 0
    BY <1>5, <1>6, <2>2, PartitionTypes
  <2>4. ASSUME NEW j \in DOMAIN p2
        PROVE  PartitionOK(p2[j], j, running, memory2)
    <3>1. CASE j = i
      <4>1. PartitionOK(p[i], i, running, memory) /\ end_address(i) \in Nat /\ memory \in Nat
        BY <1>1 DEF PartitionsOK
      <4>2. end_address(i) <= memory => end_address(i) <= memory2
        BY <4>1
      <4> QED BY <1>6, <1>7, <3>1, <4>1, <4>2 DEF PartitionOK
    <3>2. CASE j # i
      <4>1. p2[j] = p[j] /\ j \in DOMAIN p /\ end_address(j) \in Nat
        BY <1>5, <3>2, PartitionTypes, PartitionAddresses
      <4>2. end_address(j) <= memory => end_address(j) <= memory2
        BY <2>2, <4>1
      <4> QED BY <4>1, <4>2 DEF PartitionsOK, PartitionOK
    <3> QED BY <3>1, <3>2
  <2> QED BY <2>1, <2>2, <2>3, <2>4 DEF PartitionsOK, PartitionOK
<1>9. ObjectsOK(p2, memory2, all)
  <2>1. \A j \in DOMAIN p : Keeps(p[j], p2[j])
    <3> SUFFICES ASSUME NEW j \in DOMAIN p PROVE Keeps(p[j], p2[j])
      OBVIOUS
    <3>1. p[j].dynamic_size \in Nat
      BY PartitionTypes DEF Partition
    <3>2. CASE j = i
      <4>1. p2[i].dynamic_size >= p[i].dynamic_size
        BY <1>2, <1>6
      <4> QED BY <1>6, <3>2, <4>1 DEF Keeps, KeepsPlace
    <3>3. CASE j # i
      <4>1. p2[j] = p[j] /\ p[j].dynamic_size >= p[j].dynamic_size
        BY <1>5, <3>1, <3>3
      <4> QED BY <4>1 DEF Keeps, KeepsPlace
    <3> QED BY <3>2, <3>3
  <2> QED BY <1>5, <1>8, <2>1, ObjectsKept
<1>10. SmallOK(p2, o)
  <2>1. /\ i \in DOMAIN p2 /\ ~p2[i].free /\ ~p2[i].temporary /\ ~p2[i].large_content
    BY <1>5, <1>6
  <2>2. o.at = start_address(i) + p[i].static_size + p[i].dynamic_size
    OBVIOUS
  <2>3. /\ start_address(i) + p2[i].static_size <= o.at
        /\ o.at + o.size <= start_address(i) + p2[i].static_size + p2[i].dynamic_size
    BY <1>1, <1>2, <1>6, <2>2
  <2> QED BY <1>4, <2>1, <2>3 DEF SmallOK
<1>11. Within(o, i, i)
  BY <1>1, <1>3 DEF Within
<1>12. ASSUME NEW q \in all
       PROVE  /\ o.at # q.at
              /\ o.at < q.at => o.at + o.size <= q.at
              /\ q.at < o.at => q.at + q.size <= o.at
  <2>1. q \in HeapObject /\ IF IsLarge(q) THEN LargeOK(p, q) ELSE SmallOK(p, q)
    BY DEF ObjectsOK
  <2>2. CASE i \notin PartitionRange(q)
    <3>1. (i .. i) \cap PartitionRange(q) = {}
      BY <1>1, <2>2
    <3> QED BY <1>11, <3>1, ApartFromObjects
  <2>3. CASE i \in PartitionRange(q)
    <3>1. ~IsLarge(q) /\ index_of(q.at) = i
      <4>1. /\ p[i].large_content <=> IsLarge(q)
            /\ ~IsLarge(q) => partitions_length(q.size) = 1
            /\ index_of(q.at) \in Nat
            /\ PartitionRange(q) = index_of(q.at) .. index_of(q.at) + partitions_length(q.size) - 1
        BY <2>1, <2>3, ObjectPlace
      <4> QED BY <2>3, <4>1
    <3>2. q.at + q.size <= o.at
      BY <2>1, <3>1 DEF SmallOK
    <3>3. q.at \in Nat /\ q.size \in Nat /\ q.size > 0
      BY <2>1, ObjectNumbers
    <3> QED BY <1>2, <3>2, <3>3
  <2> QED BY <2>2, <2>3
<1>13. NewPlace(all, o)
  BY <1>12 DEF NewPlace
<1> QED BY <1>8, <1>9, <1>10, <1>12, <1>13, ObjectAdded

\* A completely free partition has no static data either.
LEMMA CompletelyFree ==
    ASSUME NEW h, PartitionsOK(h.partitions, h.gc_running, h.memory),
           NEW i \in DOMAIN h.partitions, is_completely_free(h, i)
    PROVE  /\ h.partitions[i].free /\ h.partitions[i].static_size = 0 /\ i # 0
<1> DEFINE p == h.partitions
           s == p[i].static_size
           d == p[i].dynamic_size
           a == start_address(i)
<1>1. s \in Nat /\ d \in Nat /\ i \in Nat /\ 0 \in DOMAIN p
  BY PartitionTypes DEF Partition
<1>2. a \in Nat /\ end_address(i) = a + PARTITION_SIZE /\ PARTITION_SIZE \in Nat
  BY <1>1, PartitionAddresses, SizesAreNumbers
<1>3. p[i].free /\ end_address(i) - ((a + s) + d) = PARTITION_SIZE
  BY DEF is_completely_free, free_size, dynamic_space_end, dynamic_space_start
<1>4. i = 0 => s > 0
  BY DEF PartitionsOK, PartitionOK
<1> HIDE DEF p, s, d, a
<1>5. s = 0
  BY <1>1, <1>2, <1>3
<1>6. i # 0
  BY <1>4, <1>5
<1> QED BY <1>3, <1>5, <1>6 DEF p, s

\* Free partitions without static data, as a large object needs them, and what
\* becomes of them.
FreeRun(p, first, last) ==
  \A j \in first .. last : j \in DOMAIN p /\ p[j].free /\ p[j].static_size = 0

Filled(p, p2, first, last, rest) ==
  p2 = [j \in DOMAIN p |->
          IF j \in first .. last
          THEN [p[j] EXCEPT !.free = FALSE, !.large_content = TRUE,
                  !.dynamic_size = IF j = last THEN rest ELSE PARTITION_SIZE]
          ELSE p[j]]

LEMMA FilledPartitions ==
    ASSUME NEW p, NEW running, NEW memory, PartitionsOK(p, running, memory),
           NEW i \in Nat, NEW b \in Nat, FreeRun(p, i, b), NEW p2,
           NEW rest \in 0 .. PARTITION_SIZE, Filled(p, p2, i, b, rest)
    PROVE  /\ DOMAIN p2 = DOMAIN p
           /\ \A j \in DOMAIN p : j \notin i .. b => p2[j] = p[j]
           /\ \A j \in i .. b :
                /\ j \in DOMAIN p /\ p2[j] \in Partition /\ p2[j].dynamic_size <= PARTITION_SIZE
                /\ ~p2[j].free /\ p2[j].large_content /\ p2[j].static_size = 0
                /\ p2[j].marked_size = 0 /\ ~p2[j].temporary /\ ~p2[j].evacuate
                /\ p2[j].bitmap = p[j].bitmap
<1> DEFINE C(j) == IF j = b THEN rest ELSE PARTITION_SIZE
<1>1. \A j : C(j) \in Nat /\ C(j) <= PARTITION_SIZE
  BY SizesAreNumbers
<1>2. /\ DOMAIN p2 = DOMAIN p
      /\ \A j \in DOMAIN p : j \notin i .. b => p2[j] = p[j]
      /\ \A j \in DOMAIN p : j \in i .. b =>
           p2[j] = [p[j] EXCEPT !.free = FALSE, !.large_content = TRUE, !.dynamic_size = C(j)]
  BY DEF Filled
<1> HIDE DEF C
<1>3. ASSUME NEW j \in i .. b
      PROVE  /\ j \in DOMAIN p /\ p2[j] \in Partition /\ p2[j].dynamic_size <= PARTITION_SIZE
             /\ ~p2[j].free /\ p2[j].large_content /\ p2[j].static_size = 0
             /\ p2[j].marked_size = 0 /\ ~p2[j].temporary /\ ~p2[j].evacuate
             /\ p2[j].bitmap = p[j].bitmap
  <2>1. j \in DOMAIN p /\ p[j].free /\ p[j].static_size = 0
    BY DEF FreeRun
  <2>2. p[j] \in Partition /\ p[j].marked_size = 0 /\ ~p[j].temporary /\ ~p[j].evacuate
    BY <2>1, PartitionTypes DEF PartitionsOK, PartitionOK
  <2>3. C(j) \in Nat /\ C(j) <= PARTITION_SIZE
    BY <1>1
  <2>4. p2[j] = [p[j] EXCEPT !.free = FALSE, !.large_content = TRUE, !.dynamic_size = C(j)]
    BY <1>2, <2>1
  <2> QED BY <2>1, <2>2, <2>3, <2>4 DEF Partition
<1> QED BY <1>2, <1>3

\* The partitions p2 are those of p, except where they are correct anyway.
Changed(p, p2, running, memory) ==
  /\ p2 = [j \in DOMAIN p |-> p2[j]]
  /\ \A j \in DOMAIN p : p2[j] = p[j] \/ (p2[j] \in Partition /\ PartitionOK(p2[j], j, running, memory))
  /\ p2[0].static_size = p[0].static_size

LEMMA PartitionsRenewed ==
    ASSUME NEW p, NEW running, NEW memory, PartitionsOK(p, running, memory),
           NEW running2 \in BOOLEAN, NEW memory2 \in Nat,
           NEW p2, p2 = [j \in DOMAIN p |-> p2[j]], p2[0].static_size = p[0].static_size,
           \A j \in DOMAIN p : p2[j] \in Partition /\ PartitionOK(p2[j], j, running2, memory2)
    PROVE  PartitionsOK(p2, running2, memory2)
<1>1. PICK k \in Nat \ {0} : p \in [0 .. k - 1 -> Partition]
  BY DEF PartitionsOK
<1>2. p2 \in [0 .. k - 1 -> Partition] /\ DOMAIN p2 = DOMAIN p
  <2>1. DOMAIN p = 0 .. k - 1
    BY <1>1
  <2> QED BY <2>1
<1>3. p2[0].static_size > 0
  BY DEF PartitionsOK
<1> QED BY <1>1, <1>2, <1>3 DEF PartitionsOK

LEMMA PartitionsChanged ==
    ASSUME NEW p, NEW running, NEW memory, PartitionsOK(p, running, memory),
           NEW running2 \in BOOLEAN, running => running2, NEW memory2 \in Nat, memory2 >= memory,
           NEW p2, Changed(p, p2, running2, memory2)
    PROVE  PartitionsOK(p2, running2, memory2)
<1>1. /\ DOMAIN p2 = DOMAIN p
      /\ \A j \in DOMAIN p : p2[j] = p[j] \/ (p2[j] \in Partition /\ PartitionOK(p2[j], j, running2, memory2))
  BY DEF Changed
<1>2. \A j \in DOMAIN p : p2[j] \in Partition
  BY <1>1, PartitionTypes
<1>3. p2 = [j \in DOMAIN p |-> p2[j]] /\ p2[0].static_size = p[0].static_size
  BY DEF Changed
<1>4. ASSUME NEW j \in DOMAIN p PROVE PartitionOK(p2[j], j, running2, memory2)
  <2>1. j \in DOMAIN p /\ PartitionOK(p[j], j, running, memory) /\ memory \in Nat
    BY <1>1 DEF PartitionsOK
  <2>2. end_address(j) \in Nat
    BY <2>1, PartitionTypes, PartitionAddresses
  <2>3. end_address(j) <= memory => end_address(j) <= memory2
    BY <2>1, <2>2
  <2>4. PartitionOK(p[j], j, running2, memory2)
    BY <2>1, <2>3 DEF PartitionOK
  <2> QED BY <1>1, <2>1, <2>4
<1> QED BY <1>2, <1>3, <1>4, PartitionsRenewed

\* A large object is put into partitions that are completely free.
LEMMA LargePlaced ==
    ASSUME NEW p, NEW running, NEW memory, PartitionsOK(p, running, memory),
           NEW all, ObjectsOK(p, memory, all),
           NEW o \in HeapObject, IsLarge(o), NEW i \in Nat, o.at = start_address(i),
           NEW b, b = i + partitions_length(o.size) - 1, FreeRun(p, i, b),
           NEW p2, Filled(p, p2, i, b, o.size - (partitions_length(o.size) - 1) * PARTITION_SIZE),
           NEW memory2 \in Nat, memory2 >= memory, memory2 >= end_address(b)
    PROVE  PartitionsOK(p2, running, memory2) /\ ObjectsOK(p2, memory2, all \cup {o}) /\ NewPlace(all, o)
<1> DEFINE P == PARTITION_SIZE
           n == partitions_length(o.size)
<1>1. /\ o.at \in Nat /\ o.size \in Nat \ {0} /\ o.size > P /\ P \in Nat \ {0} /\ P > 0
  BY ObjectNumbers, SizesAreNumbers DEF IsLarge
<1>2. /\ n \in Nat /\ n >= 2 /\ (n - 1) * P \in Nat /\ (n - 1) * P < o.size /\ o.size <= (n - 1) * P + P
  BY <1>1, PartitionsLength
<1>3. index_of(o.at) = i
  <2>1. start_address(i) <= o.at /\ o.at < end_address(i)
    BY <1>1, PartitionAddresses
  <2> QED BY <1>1, <2>1, PartitionOf
<1>4. PartitionRange(o) = i .. b /\ b = i + n - 1
  BY <1>3 DEF PartitionRange
<1> HIDE DEF n, P
<1>5. b \in Nat /\ i <= b /\ i # b /\ i \in i .. b
  BY <1>2, <1>4
<1> DEFINE rest == o.size - (n - 1) * P
<1>6. rest \in 0 .. P /\ Filled(p, p2, i, b, rest)
  <2>1. rest \in 0 .. P
    BY <1>1, <1>2
  <2> QED BY <2>1 DEF n, P
<1> HIDE DEF rest
<1>7. /\ DOMAIN p2 = DOMAIN p
      /\ \A j \in DOMAIN p : j \notin i .. b => p2[j] = p[j]
      /\ \A j \in i .. b :
           /\ j \in DOMAIN p /\ p2[j] \in Partition /\ p2[j].dynamic_size <= P
           /\ ~p2[j].free /\ p2[j].large_content /\ p2[j].static_size = 0
           /\ p2[j].marked_size = 0 /\ ~p2[j].temporary /\ ~p2[j].evacuate
  BY <1>5, <1>6, FilledPartitions DEF P
<1>8. 0 \in DOMAIN p /\ memory \in Nat /\ running \in BOOLEAN /\ p[0].static_size > 0
  BY PartitionTypes DEF PartitionsOK
<1>9. Changed(p, p2, running, memory2)
  <2>1. p2 = [j \in DOMAIN p |-> p2[j]]
    BY DEF Filled
  <2>2. \A j \in i .. b : p2[j].static_size + p2[j].dynamic_size <= P
    <3> SUFFICES ASSUME NEW j \in i .. b PROVE p2[j].static_size + p2[j].dynamic_size <= P
      OBVIOUS
    <3>1. p2[j].static_size = 0 /\ p2[j].dynamic_size <= P /\ p2[j].dynamic_size \in Nat
      BY <1>7 DEF Partition
    <3> QED BY <1>1, <3>1
  <2>3. \A j \in i .. b : PartitionOK(p2[j], j, running, memory2)
    BY <1>7, <2>2 DEF PartitionOK, P
  <2>4. 0 \notin i .. b
    BY <1>8 DEF FreeRun
  <2> QED BY <1>7, <1>8, <2>1, <2>3, <2>4 DEF Changed
<1>10. PartitionsOK(p2, running, memory2)
  BY <1>8, <1>9, PartitionsChanged
<1>11. ObjectsOK(p2, memory2, all)
  <2>1. \A j \in DOMAIN p : ~p[j].free => Keeps(p[j], p2[j])
    <3> SUFFICES ASSUME NEW j \in DOMAIN p, ~p[j].free PROVE Keeps(p[j], p2[j])
      OBVIOUS
    <3>1. j \notin i .. b
      BY DEF FreeRun
    <3>2. p2[j] = p[j] /\ p[j].dynamic_size \in Nat
      BY <1>7, <3>1, PartitionTypes DEF Partition
    <3>3. p[j].dynamic_size >= p[j].dynamic_size
      BY <3>2
    <3> QED BY <3>2, <3>3 DEF Keeps, KeepsPlace
  <2> QED BY <1>7, <1>10, <2>1, ObjectsKept
<1>12. LargeOK(p2, o)
  BY <1>3, <1>4, <1>7 DEF LargeOK
<1>13. Within(o, i, b) /\ o.at + o.size <= memory2
  <2>1. end_address(b) = start_address(i) + (n - 1) * P + P /\ end_address(b) \in Nat
        /\ start_address(i) \in Nat
    <3>1. PICK m \in Nat : n - 1 = m
      BY <1>2
    <3>2. (i + m) * P = i * P + m * P /\ i * P \in Nat /\ m * P \in Nat /\ b = i + m
      BY <1>1, <1>2, <1>4, <3>1
    <3>3. start_address(i) = i * P /\ end_address(b) = b * P + P
      BY DEF start_address, end_address, P
    <3>4. b * P = i * P + (n - 1) * P
      BY <3>1, <3>2
    <3>5. (n - 1) * P \in Nat /\ i * P \in Nat /\ P \in Nat
      BY <1>1, <1>2, <3>2
    <3> QED BY <3>3, <3>4, <3>5
  <2>2. o.at = start_address(i) /\ end_address(b) <= memory2
    OBVIOUS
  <2>3. o.at + o.size <= end_address(b)
    BY <1>1, <1>2, <2>1, <2>2
  <2>4. o.at + o.size <= memory2
    BY <1>1, <2>1, <2>2, <2>3
  <2>5. start_address(i) <= o.at
    BY <2>1, <2>2
  <2> QED BY <1>5, <2>3, <2>4, <2>5 DEF Within
<1>14. ASSUME NEW q \in all
       PROVE  /\ o.at # q.at
              /\ o.at < q.at => o.at + o.size <= q.at
              /\ q.at < o.at => q.at + q.size <= o.at
  <2>1. q \in HeapObject /\ IF IsLarge(q) THEN LargeOK(p, q) ELSE SmallOK(p, q)
    BY DEF ObjectsOK
  <2>2. \A j \in PartitionRange(q) : ~p[j].free
    BY <2>1, ObjectPlace
  <2>3. (i .. b) \cap PartitionRange(q) = {}
    BY <2>2 DEF FreeRun
  <2> QED BY <1>13, <2>3, ApartFromObjects
<1>15. NewPlace(all, o)
  BY <1>14 DEF NewPlace
<1> QED BY <1>10, <1>11, <1>12, <1>13, <1>14, <1>15, ObjectAdded

-----------------------------------------------------------------------------
(* Bitmaps *)

\* A bitmap that no partition has yet.
Fresh(p, pointer, bitmap) ==
  /\ Aligned(bitmap) /\ bitmap # NoBitmap /\ HandedOut(bitmap, pointer)
  /\ index_of(bitmap) \in DOMAIN p /\ p[index_of(bitmap)].temporary
  /\ \A j \in DOMAIN p : p[j].bitmap # bitmap

\* The partitions that need a bitmap have one, except for those of todo.
Covered(p, todo) ==
  \A i \in DOMAIN p \ todo : has_dynamic_space(p[i]) /\ ~p[i].large_content => p[i].bitmap # NoBitmap

\* Temporary partitions and bitmaps of p2 are those of p; i may have the bitmap b.
BitmapsKept(p, p2, i, b) ==
  /\ \A j \in DOMAIN p : p[j].temporary => j \in DOMAIN p2 /\ p2[j].temporary
  /\ \A j \in DOMAIN p2 : \/ p2[j].bitmap = NoBitmap
                          \/ j \in DOMAIN p /\ p2[j].bitmap = p[j].bitmap
                          \/ j = i /\ p2[j].bitmap = b

LEMMA BitmapsChanged ==
    ASSUME NEW p, NEW pointer, NEW running, NEW todo, BitmapsOK(p, pointer, running, todo),
           NEW i, NEW b, b = NoBitmap \/ (running /\ Fresh(p, pointer, b)),
           NEW p2, NEW todo2, BitmapsKept(p, p2, i, b), running => Covered(p2, todo2)
    PROVE  BitmapsOK(p2, pointer, running, todo2)
<1>1. Aligned(pointer) /\ (pointer % PARTITION_SIZE # 0 =>
                             index_of(pointer) \in DOMAIN p2 /\ p2[index_of(pointer)].temporary)
  BY DEF BitmapsOK, BitmapsKept
<1>2. ~running => pointer = 0 /\ \A j \in DOMAIN p2 : p2[j].bitmap = NoBitmap
  BY DEF BitmapsOK, BitmapsKept
<1>3. ASSUME NEW j \in DOMAIN p2, p2[j].bitmap # NoBitmap
      PROVE  /\ Aligned(p2[j].bitmap) /\ HandedOut(p2[j].bitmap, pointer)
             /\ index_of(p2[j].bitmap) \in DOMAIN p2 /\ p2[index_of(p2[j].bitmap)].temporary
  <2>1. CASE j \in DOMAIN p /\ p2[j].bitmap = p[j].bitmap
    BY <1>3, <2>1 DEF BitmapsOK, BitmapsKept
  <2>2. CASE j = i /\ p2[j].bitmap = b
    BY <1>3, <2>2 DEF Fresh, BitmapsKept
  <2> QED BY <1>3, <2>1, <2>2 DEF BitmapsKept
<1>4. ASSUME NEW j \in DOMAIN p2, p2[j].bitmap # NoBitmap,
             NEW k \in DOMAIN p2, p2[k].bitmap = p2[j].bitmap
      PROVE  j = k
  <2>1. CASE /\ j \in DOMAIN p /\ p2[j].bitmap = p[j].bitmap
             /\ k \in DOMAIN p /\ p2[k].bitmap = p[k].bitmap
    BY <1>4, <2>1 DEF BitmapsOK
  <2>2. CASE j \in DOMAIN p /\ p2[j].bitmap = p[j].bitmap /\ k = i /\ p2[k].bitmap = b
    BY <1>4, <2>2 DEF Fresh
  <2>3. CASE k \in DOMAIN p /\ p2[k].bitmap = p[k].bitmap /\ j = i /\ p2[j].bitmap = b
    BY <1>4, <2>3 DEF Fresh
  <2>4. CASE j = i /\ k = i
    BY <2>4
  <2> QED BY <1>4, <2>1, <2>2, <2>3, <2>4 DEF BitmapsKept
<1> QED BY <1>1, <1>2, <1>3, <1>4 DEF BitmapsOK, Covered

\* The bitmaps of a partition are handed out one after the other.
LEMMA PointerAdvances ==
    ASSUME NEW pointer, Aligned(pointer), NEW k \in Nat,
           start_address(k) <= pointer, pointer < end_address(k),
           NEW next, next = pointer + BITMAP_SIZE
    PROVE  /\ Aligned(next) /\ next \in Nat /\ pointer < next
           /\ next <= end_address(k)
           /\ next % PARTITION_SIZE # 0 => index_of(next) = k
<1>1. pointer \in Nat /\ BITMAP_SIZE \in Nat /\ BITMAP_SIZE > 0 /\ next \in Nat /\ pointer < next
  BY AlignedIsAddress, SizesAreNumbers
<1>2. Aligned(next)
  BY AlignedPlaces
<1>3. next <= end_address(k)
  BY AlignedPlaces, AlignedOrder
<1>4. ASSUME next % PARTITION_SIZE # 0 PROVE index_of(next) = k
  <2>1. next # end_address(k)
    <3> SUFFICES ASSUME next = end_address(k) PROVE FALSE
      OBVIOUS
    <3>1. /\ start_address(k + 1) = end_address(k) /\ start_address(k + 1) \in Nat
          /\ start_address(k + 1) < end_address(k + 1)
      BY PartitionAddresses, SizesAreNumbers, k + 1 \in Nat
    <3>2. index_of(next) = k + 1
      BY <1>1, <3>1, PartitionOf, k + 1 \in Nat
    <3>3. next % PARTITION_SIZE = next - start_address(k + 1)
      BY <1>1, <3>2, InItsPartition
    <3> QED BY <1>1, <1>4, <3>1, <3>3
  <2>2. start_address(k) <= next /\ next < end_address(k)
    <3>1. start_address(k) \in Nat /\ end_address(k) \in Nat
      BY PartitionAddresses
    <3>2. next < end_address(k)
      BY <1>1, <1>3, <2>1, <3>1
    <3>3. start_address(k) <= next
      BY <1>1, <3>1
    <3> QED BY <3>2, <3>3
  <2> QED BY <1>1, <2>2, PartitionOf
<1> QED BY <1>1, <1>2, <1>3, <1>4

\* The next bitmap of a partition that has some already.
LEMMA NextBitmap ==
    ASSUME NEW p, NEW pointer, NEW todo, BitmapsOK(p, pointer, TRUE, todo),
           pointer % PARTITION_SIZE # 0, NEW next, next = pointer + BITMAP_SIZE
    PROVE  BitmapsOK(p, next, TRUE, todo) /\ Fresh(p, next, pointer)
<1> DEFINE k == index_of(pointer)
<1>1. Aligned(pointer) /\ pointer \in Nat /\ k \in DOMAIN p /\ p[k].temporary
  BY AlignedIsAddress DEF BitmapsOK
<1>2. k \in Nat /\ start_address(k) <= pointer /\ pointer < end_address(k)
  BY <1>1, InItsPartition
<1> HIDE DEF k
<1>3. /\ Aligned(next) /\ next \in Nat /\ pointer < next
      /\ next % PARTITION_SIZE # 0 => index_of(next) = k
  BY <1>1, <1>2, PointerAdvances
<1>4. pointer # NoBitmap
  <2>1. 0 % PARTITION_SIZE = 0
    BY SizesAreNumbers
  <2> QED BY <2>1 DEF NoBitmap
<1>5. ASSUME NEW j \in DOMAIN p, p[j].bitmap # NoBitmap
      PROVE  HandedOut(p[j].bitmap, next) /\ p[j].bitmap # pointer
  <2>1. HandedOut(p[j].bitmap, pointer) /\ p[j].bitmap \in Nat
    BY <1>5, AlignedIsAddress DEF BitmapsOK
  <2>2. index_of(p[j].bitmap) = k => p[j].bitmap < pointer
    BY <2>1 DEF HandedOut, k
  <2>3. p[j].bitmap # pointer
    BY <1>1, <2>1, <2>2 DEF k
  <2>4. index_of(p[j].bitmap) = k => p[j].bitmap < next
    BY <1>1, <1>3, <2>1, <2>2
  <2>5. HandedOut(p[j].bitmap, next)
    BY <1>3, <2>4 DEF HandedOut
  <2> QED BY <2>3, <2>5
<1>6. Fresh(p, next, pointer)
  <2>1. HandedOut(pointer, next)
    BY <1>3 DEF HandedOut
  <2> QED BY <1>1, <1>4, <1>5, <2>1 DEF Fresh, k
<1>7. BitmapsOK(p, next, TRUE, todo)
  BY <1>1, <1>3, <1>5 DEF BitmapsOK
<1> QED BY <1>6, <1>7

\* The first bitmap of a partition, which was free.
LEMMA FirstBitmap ==
    ASSUME NEW p, NEW pointer, NEW todo, BitmapsOK(p, pointer, TRUE, todo),
           NEW running, NEW memory, PartitionsOK(p, running, memory),
           NEW k \in DOMAIN p, p[k].free, k # 0,
           NEW p2, p2 = [p EXCEPT ![k] = [p[k] EXCEPT !.free = FALSE, !.temporary = TRUE]],
           NEW next, next = start_address(k) + BITMAP_SIZE
    PROVE  BitmapsOK(p2, next, TRUE, todo) /\ Fresh(p2, next, start_address(k))
<1> DEFINE first == start_address(k)
<1>1. k \in Nat /\ 0 \in Nat /\ 0 < k /\ p[k] \in Partition /\ ~p[k].temporary
  BY PartitionTypes DEF PartitionsOK, PartitionOK
<1>2. /\ first \in Nat /\ first < end_address(k) /\ Aligned(first) /\ 0 < first
      /\ index_of(first) = k
  <2>1. first \in Nat /\ first < end_address(k)
    BY <1>1, PartitionAddresses, SizesAreNumbers
  <2>2. start_address(0) \in Nat /\ start_address(0) < first
    BY <1>1, StartOrder
  <2> QED BY <1>1, <2>1, <2>2, AlignedPlaces, PartitionOf
<1>3. /\ DOMAIN p2 = DOMAIN p
      /\ \A j \in DOMAIN p : j # k => p2[j] = p[j]
      /\ p2[k] = [p[k] EXCEPT !.free = FALSE, !.temporary = TRUE]
  OBVIOUS
<1>4. p2[k].temporary /\ p2[k].bitmap = p[k].bitmap
  BY <1>1, <1>3 DEF Partition
<1> HIDE DEF first
<1>5. /\ Aligned(next) /\ next \in Nat /\ first < next
      /\ next % PARTITION_SIZE # 0 => index_of(next) = k
  <2>1. next = first + BITMAP_SIZE /\ start_address(k) <= first
    BY <1>2 DEF first
  <2> QED BY <1>1, <1>2, <2>1, PointerAdvances
<1>6. \A j \in DOMAIN p : p2[j].bitmap = p[j].bitmap /\ (p[j].temporary => p2[j].temporary)
  BY <1>1, <1>3, <1>4
<1>7. ASSUME NEW j \in DOMAIN p, p[j].bitmap # NoBitmap
      PROVE  HandedOut(p[j].bitmap, next) /\ p[j].bitmap # first
  <2>1. p[index_of(p[j].bitmap)].temporary
    BY <1>7 DEF BitmapsOK
  <2>2. index_of(p[j].bitmap) # k
    BY <1>1, <2>1
  <2> QED BY <1>2, <1>5, <2>2 DEF HandedOut
<1>8. Fresh(p2, next, first)
  <2>1. HandedOut(first, next)
    BY <1>5 DEF HandedOut
  <2> QED BY <1>2, <1>3, <1>4, <1>6, <1>7, <2>1 DEF Fresh, NoBitmap
<1>9. BitmapsOK(p2, next, TRUE, todo)
  <2>1. \A i \in DOMAIN p2 \ todo : has_dynamic_space(p2[i]) /\ ~p2[i].large_content => p2[i].bitmap # NoBitmap
    BY <1>3, <1>4 DEF BitmapsOK, has_dynamic_space
  <2>2. \A i \in DOMAIN p2 : p2[i].bitmap # NoBitmap =>
       /\ Aligned(p2[i].bitmap) /\ HandedOut(p2[i].bitmap, next)
       /\ index_of(p2[i].bitmap) \in DOMAIN p2 /\ p2[index_of(p2[i].bitmap)].temporary
       /\ \A j \in DOMAIN p2 : p2[j].bitmap = p2[i].bitmap => i = j
    BY <1>3, <1>6, <1>7 DEF BitmapsOK
  <2> QED BY <1>3, <1>4, <1>5, <2>1, <2>2 DEF BitmapsOK
<1> QED BY <1>8, <1>9 DEF first

-----------------------------------------------------------------------------
(* Allocation *)

\* What an allocation leaves alone.
Extends(h, g) ==
  /\ g.gc_running = h.gc_running
  /\ \A i \in DOMAIN h.partitions :
       i \in DOMAIN g.partitions /\ (~h.partitions[i].free => g.partitions[i] = h.partitions[i])

LEMMA MemoryGrows ==
    ASSUME NEW h, IsHeap(h), NEW address \in Nat, h.memory \in Nat, NEW g \in grow_memory(h, address)
    PROVE  /\ IsHeap(g) /\ g.memory \in Nat /\ g.memory >= h.memory /\ g.memory >= address
           /\ g.partitions = h.partitions /\ g.gc_running = h.gc_running
           /\ g.allocation_index = h.allocation_index
           /\ g.bitmap_allocation_pointer = h.bitmap_allocation_pointer
<1> DEFINE m == Max({h.memory, address})
<1>1. m \in Nat /\ m >= h.memory /\ m >= address
  <2>1. CASE h.memory >= address
    <3>1. m = h.memory
      BY <2>1 DEF Max
    <3> QED BY <2>1, <3>1
  <2>2. CASE address >= h.memory
    <3>1. m = address
      BY <2>2 DEF Max
    <3> QED BY <2>2, <3>1
  <2> QED BY <2>1, <2>2
<1>2. g = [h EXCEPT !.memory = m]
  BY DEF grow_memory
<1> HIDE DEF m
<1>3. /\ IsHeap(g) /\ g.memory = m /\ g.partitions = h.partitions /\ g.gc_running = h.gc_running
      /\ g.allocation_index = h.allocation_index
      /\ g.bitmap_allocation_pointer = h.bitmap_allocation_pointer
  BY <1>2 DEF IsHeap
<1> QED BY <1>1, <1>3

LEMMA NewTable ==
    ASSUME NEW n \in Nat, NEW i \in n .. n + PARTITIONS_PER_TABLE - 1
    PROVE  LET q == new_partition_table(n, PARTITION_TABLE_SIZE)[i]
           IN  /\ q \in Partition /\ q.bitmap = NoBitmap /\ q.free
               /\ \A running, memory : PartitionOK(q, i, running, memory)
               /\ q.static_size = 0 \/ i = n
<1> DEFINE s == Max({0, Min({PARTITION_SIZE, PARTITION_TABLE_SIZE - start_address(i - n)})})
           q == [free |-> TRUE, large_content |-> FALSE, temporary |-> FALSE, evacuate |-> FALSE,
                 update |-> FALSE, marked_size |-> 0, dynamic_size |-> 0, bitmap |-> NoBitmap,
                 static_size |-> s]
<1>1. new_partition_table(n, PARTITION_TABLE_SIZE)[i] = q
  BY DEF new_partition_table
<1>2. s \in 0 .. PARTITION_SIZE /\ (s = 0 \/ i = n)
  <2> DEFINE x == PARTITION_TABLE_SIZE - start_address(i - n)
             y == Min({PARTITION_SIZE, x})
  <2>1. i - n \in Nat /\ start_address(i - n) \in Nat /\ x \in Int /\ PARTITION_SIZE \in Nat
        /\ x < PARTITION_SIZE
    BY PartitionAddresses, SizesAreNumbers
  <2> HIDE DEF x
  <2>2. y = x
    BY <2>1 DEF Min
  <2>3. CASE x <= 0
    <3>1. Max({0, x}) = 0
      BY <2>1, <2>3 DEF Max
    <3> QED BY <2>1, <2>2, <3>1 DEF x
  <2>4. CASE x > 0
    <3>1. Max({0, x}) = x
      BY <2>1, <2>4 DEF Max
    <3>2. i = n
      <4> SUFFICES ASSUME i # n PROVE FALSE
        OBVIOUS
      <4>1. start_address(1) <= start_address(i - n)
        BY <2>1, StartOrder, i - n \in Nat, i - n >= 1
      <4>2. start_address(1) = PARTITION_SIZE
        BY SizesAreNumbers DEF start_address
      <4> QED BY <2>1, <2>4, <4>1, <4>2, SizesAreNumbers DEF x
    <3>3. s = x
      BY <2>2, <3>1 DEF x
    <3>4. x \in Nat /\ x <= PARTITION_SIZE
      BY <2>1, <2>4
    <3> QED BY <2>1, <3>2, <3>3, <3>4
  <2> QED BY <2>1, <2>3, <2>4
<1> HIDE DEF s
<1>3. q \in Partition /\ q.bitmap = NoBitmap /\ q.free
  BY <1>2 DEF Partition, NoBitmap
<1>4. \A running, memory : PartitionOK(q, i, running, memory)
  BY <1>2, SizesAreNumbers DEF PartitionOK
<1>5. q.static_size = 0 \/ i = n
  BY <1>2
<1> HIDE DEF q
<1> QED BY <1>1, <1>3, <1>4, <1>5

\* The number of partitions, and the next one's.
LEMMA NumberOfPartitions ==
    ASSUME NEW h, PartitionsOK(h.partitions, h.gc_running, h.memory)
    PROVE  /\ Number(h) \in Nat \ {0} /\ DOMAIN h.partitions = 0 .. Number(h) - 1
           /\ h.partitions \in [0 .. Number(h) - 1 -> Partition]
<1>1. PICK n \in Nat \ {0} : h.partitions \in [0 .. n - 1 -> Partition]
  BY DEF PartitionsOK
<1>2. DOMAIN h.partitions = 0 .. n - 1
  BY <1>1
<1>3. Cardinality(0 .. n - 1) = n
  <2>1. 0 \in Int /\ n - 1 \in Int /\ ~(0 > n - 1)
    BY <1>1
  <2>2. Cardinality(0 .. n - 1) = (n - 1) - 0 + 1
    BY <2>1, FS_Interval
  <2> QED BY <1>1, <2>2
<1> QED BY <1>1, <1>2, <1>3 DEF Number

\* The partitions p2 are those of p and those of a new table.
TableBehind(p, p2, n, m) ==
  p2 = [i \in 0 .. m - 1 |->
          IF i < n THEN p[i] ELSE new_partition_table(n, PARTITION_TABLE_SIZE)[i]]

LEMMA PartitionsAdded ==
    ASSUME NEW p, NEW running, NEW memory, PartitionsOK(p, running, memory),
           NEW n \in Nat \ {0}, DOMAIN p = 0 .. n - 1, NEW m, m = n + PARTITIONS_PER_TABLE,
           NEW p2, TableBehind(p, p2, n, m),
           NEW memory2 \in Nat, memory2 >= memory
    PROVE  /\ PartitionsOK(p2, running, memory2)
           /\ \A i \in DOMAIN p : i \in DOMAIN p2 /\ p2[i] = p[i]
           /\ \A i \in DOMAIN p2 : i \in DOMAIN p \/ (p2[i].free /\ p2[i].bitmap = NoBitmap)
<1>1. m \in Nat \ {0} /\ n < m /\ n \in Nat /\ PARTITIONS_PER_TABLE \in Nat
  BY SizesAreNumbers
<1>2. DOMAIN p2 = 0 .. m - 1
  BY DEF TableBehind
<1>3. \A i \in 0 .. n - 1 : i \in 0 .. m - 1 /\ p2[i] = p[i]
  <2> SUFFICES ASSUME NEW i \in 0 .. n - 1 PROVE i \in 0 .. m - 1 /\ p2[i] = p[i]
    OBVIOUS
  <2>1. i \in 0 .. m - 1 /\ i < n
    BY <1>1
  <2> QED BY <2>1 DEF TableBehind
<1>4. \A i \in 0 .. m - 1 : i \notin 0 .. n - 1 =>
        /\ p2[i] \in Partition /\ p2[i].bitmap = NoBitmap /\ p2[i].free
        /\ PartitionOK(p2[i], i, running, memory2)
  <2> SUFFICES ASSUME NEW i \in 0 .. m - 1, i \notin 0 .. n - 1
               PROVE  /\ p2[i] \in Partition /\ p2[i].bitmap = NoBitmap /\ p2[i].free
                      /\ PartitionOK(p2[i], i, running, memory2)
    OBVIOUS
  <2>1. ~(i < n) /\ i \in n .. n + PARTITIONS_PER_TABLE - 1
    BY <1>1
  <2>2. p2[i] = new_partition_table(n, PARTITION_TABLE_SIZE)[i]
    BY <2>1 DEF TableBehind
  <2> QED BY <2>1, <2>2, NewTable
<1>5. memory \in Nat /\ running \in BOOLEAN /\ p[0].static_size > 0 /\ 0 \in 0 .. n - 1
  BY DEF PartitionsOK
<1>6. \A i \in 0 .. n - 1 : p[i] \in Partition /\ PartitionOK(p[i], i, running, memory)
  BY PartitionTypes DEF PartitionsOK
<1>7. \A i \in 0 .. m - 1 : p2[i] \in Partition
  BY <1>3, <1>4, <1>6
<1>8. p2 \in [0 .. m - 1 -> Partition]
  <2>1. p2 = [i \in 0 .. m - 1 |-> p2[i]]
    BY <1>2 DEF TableBehind
  <2> QED BY <1>7, <2>1
<1>9. \A i \in 0 .. m - 1 : PartitionOK(p2[i], i, running, memory2)
  <2> SUFFICES ASSUME NEW i \in 0 .. m - 1 PROVE PartitionOK(p2[i], i, running, memory2)
    OBVIOUS
  <2>1. CASE i \notin 0 .. n - 1
    BY <1>4, <2>1
  <2>2. CASE i \in 0 .. n - 1
    <3>0. p2[i] = p[i] /\ PartitionOK(p[i], i, running, memory)
      BY <1>3, <1>6, <2>2
    <3>1. p2[i] = p[i] /\ PartitionOK(p[i], i, running, memory) /\ end_address(i) \in Nat
      BY <3>0, PartitionAddresses, i \in Nat
    <3>2. end_address(i) <= memory => end_address(i) <= memory2
      BY <1>5, <3>1
    <3> QED BY <3>1, <3>2 DEF PartitionOK
  <2> QED BY <2>1, <2>2
<1>10. PartitionsOK(p2, running, memory2)
  BY <1>1, <1>2, <1>3, <1>5, <1>8, <1>9 DEF PartitionsOK
<1> QED BY <1>2, <1>3, <1>4, <1>10

LEMMA TableAdded ==
    ASSUME NEW h, NEW all, NEW todo, HeapOK(h, all, todo), NEW g \in add_partition_table(h)
    PROVE  /\ Extends(h, g) /\ HeapOK(g, all, todo) /\ g.allocation_index = h.allocation_index
           /\ g.bitmap_allocation_pointer = h.bitmap_allocation_pointer
           /\ BitmapsKept(h.partitions, g.partitions, 0, NoBitmap)
<1> DEFINE n == Number(h)
           p == h.partitions
           m == n + PARTITIONS_PER_TABLE
           p2 == [i \in 0 .. n + PARTITIONS_PER_TABLE - 1 |->
                    IF i < n THEN p[i] ELSE new_partition_table(n, PARTITION_TABLE_SIZE)[i]]
<1>1. /\ PartitionsOK(p, h.gc_running, h.memory) /\ IsHeap(h)
      /\ AllocationOK(p, h.allocation_index)
      /\ BitmapsOK(p, h.bitmap_allocation_pointer, h.gc_running, todo)
      /\ ObjectsOK(p, h.memory, all) /\ h.memory \in Nat
  BY DEF HeapOK, PartitionsOK
<1>2. n \in Nat \ {0} /\ DOMAIN p = 0 .. n - 1
  BY <1>1, NumberOfPartitions
<1>3. PICK k \in grow_memory(h, end_address(n)) :
        g = [k EXCEPT !.partitions = p2,
                      !.free_partitions = @ + PARTITIONS_PER_TABLE,
                      !.precomputed_heap_size = @ + PARTITION_TABLE_SIZE]
  BY DEF add_partition_table
<1> HIDE DEF n, p
<1>4. TableBehind(p, p2, n, m)
  BY <1>2, SizesAreNumbers DEF TableBehind
<1> HIDE DEF p2
<1>5. /\ IsHeap(k) /\ k.memory \in Nat /\ k.memory >= h.memory
      /\ k.gc_running = h.gc_running
      /\ k.allocation_index = h.allocation_index
      /\ k.bitmap_allocation_pointer = h.bitmap_allocation_pointer
  BY <1>1, <1>2, MemoryGrows, PartitionAddresses
<1>6. /\ IsHeap(g) /\ g.partitions = p2 /\ g.memory = k.memory /\ g.gc_running = k.gc_running
      /\ g.allocation_index = k.allocation_index
      /\ g.bitmap_allocation_pointer = k.bitmap_allocation_pointer
  BY <1>3, <1>5 DEF IsHeap
<1>7. /\ PartitionsOK(p2, h.gc_running, k.memory)
      /\ \A i \in DOMAIN p : i \in DOMAIN p2 /\ p2[i] = p[i]
      /\ \A i \in DOMAIN p2 : i \in DOMAIN p \/ (p2[i].free /\ p2[i].bitmap = NoBitmap)
  BY <1>1, <1>2, <1>4, <1>5, PartitionsAdded
<1>8. AllocationOK(p2, h.allocation_index)
  BY <1>1, <1>7 DEF AllocationOK
<1>11. BitmapsKept(p, p2, 0, NoBitmap)
  BY <1>7 DEF BitmapsKept
<1>9. BitmapsOK(p2, h.bitmap_allocation_pointer, h.gc_running, todo)
  <2>1. BitmapsKept(p, p2, 0, NoBitmap)
    BY <1>11
  <2>2. h.gc_running => Covered(p2, todo)
    BY <1>1, <1>7 DEF Covered, BitmapsOK, has_dynamic_space
  <2> QED BY <1>1, <2>1, <2>2, BitmapsChanged
<1> HIDE DEF m
<1>10. ObjectsOK(p2, k.memory, all)
  <2>1. \A i \in DOMAIN p : Keeps(p[i], p2[i])
    <3> SUFFICES ASSUME NEW i \in DOMAIN p PROVE Keeps(p[i], p2[i])
      OBVIOUS
    <3>1. p[i].dynamic_size \in Nat
      BY <1>1, PartitionTypes DEF Partition
    <3>2. p[i].dynamic_size >= p[i].dynamic_size
      BY <3>1
    <3> QED BY <1>7, <3>2 DEF Keeps, KeepsPlace
  <2> QED BY <1>1, <1>5, <1>7, <2>1, ObjectsKept
<1> QED BY <1>5, <1>6, <1>7, <1>8, <1>9, <1>10, <1>11 DEF HeapOK, Extends, p

\* A heap that has one partition more in use, or a table more.
LEMMA HeapKept ==
    ASSUME NEW h, NEW all, NEW todo, HeapOK(h, all, todo)
    PROVE  Extends(h, h)
  BY DEF Extends

LEMMA ExtendsTwice ==
    ASSUME NEW h, NEW g, Extends(h, g), NEW k, Extends(g, k)
    PROVE  Extends(h, k)
  BY DEF Extends

LEMMA PartitionAllocated ==
    ASSUME NEW h, NEW all, NEW todo, HeapOK(h, all, todo),
           NEW wanted, NEW f \in allocate_partition(h, wanted)
    PROVE  /\ Extends(h, f.heap) /\ HeapOK(f.heap, all, todo)
           /\ f = [heap |-> f.heap, index |-> f.index]
           /\ f.heap.allocation_index = h.allocation_index
           /\ f.heap.bitmap_allocation_pointer = h.bitmap_allocation_pointer
           /\ f.index \in scan_for(f.heap, wanted) /\ f.index \in DOMAIN f.heap.partitions
           /\ BitmapsKept(h.partitions, f.heap.partitions, 0, NoBitmap)
<1>1. PICK g \in IF scan_for(h, wanted) # {} THEN {h} ELSE add_partition_table(h) :
        scan_for(g, wanted) # {} /\ f = [heap |-> g, index |-> Min(scan_for(g, wanted))]
  BY DEF allocate_partition
<1>2. /\ Extends(h, g) /\ HeapOK(g, all, todo)
      /\ g.allocation_index = h.allocation_index
      /\ g.bitmap_allocation_pointer = h.bitmap_allocation_pointer
      /\ BitmapsKept(h.partitions, g.partitions, 0, NoBitmap)
  <2>1. CASE g = h
    <3>1. BitmapsKept(h.partitions, h.partitions, 0, NoBitmap)
      BY DEF BitmapsKept
    <3> QED BY <2>1, <3>1, HeapKept
  <2>2. CASE g \in add_partition_table(h)
    BY <2>2, TableAdded
  <2> QED BY <1>1, <2>1, <2>2
<1>3. scan_for(g, wanted) \subseteq DOMAIN g.partitions
  BY DEF scan_for
<1>4. scan_for(g, wanted) \subseteq Nat
  BY <1>2, <1>3, PartitionTypes DEF HeapOK
<1>5. Min(scan_for(g, wanted)) \in scan_for(g, wanted)
  BY <1>1, <1>4, LeastNumber
<1>6. f.heap = g /\ f.index = Min(scan_for(g, wanted)) /\ f = [heap |-> f.heap, index |-> f.index]
  BY <1>1
<1> QED BY <1>2, <1>3, <1>5, <1>6

\* The partitions of a run are completely free.
LEMMA RunAllocated ==
    ASSUME NEW h, NEW all, NEW todo, HeapOK(h, all, todo),
           NEW n \in Nat \ {0}, NEW f \in allocate_partition(h, Run(n))
    PROVE  f.index \in Nat \ {0} /\ FreeRun(f.heap.partitions, f.index, f.index + n - 1)
<1> DEFINE g == f.heap
           i == f.index
<1>1. HeapOK(g, all, todo) /\ i \in scan_for(g, Run(n)) /\ i \in DOMAIN g.partitions
  BY PartitionAllocated
<1>2. PartitionsOK(g.partitions, g.gc_running, g.memory) /\ i \in Nat
  BY <1>1, PartitionTypes DEF HeapOK
<1> HIDE DEF g, i
<1>3. \A j \in i .. i + n - 1 : j \in DOMAIN g.partitions /\ is_completely_free(g, j)
  BY <1>1 DEF scan_for, Run
<1>4. FreeRun(g.partitions, i, i + n - 1)
  BY <1>2, <1>3, CompletelyFree DEF FreeRun
<1>5. i # 0
  <2>1. i \in i .. i + n - 1
    BY <1>2
  <2> QED BY <1>2, <1>3, <2>1, CompletelyFree
<1> QED BY <1>2, <1>4, <1>5 DEF g, i

\* The partition for an object is free and has the space.
LEMMA SpaceAllocated ==
    ASSUME NEW h, NEW all, NEW todo, HeapOK(h, all, todo),
           NEW size, NEW f \in allocate_partition(h, Space(size))
    PROVE  f.heap.partitions[f.index].free /\ free_size(f.heap, f.index) >= size
<1>1. f.index \in scan_for(f.heap, Space(size))
  BY PartitionAllocated
<1>2. ~(Space(size).run > 0) /\ Space(size).space = size
  BY DEF Space
<1> HIDE DEF Space
<1> QED BY <1>1, <1>2 DEF scan_for

LEMMA PartitionTaken ==
    ASSUME NEW k, IsHeap(k), NEW i, NEW q
    PROVE  LET g == take_partition(k, i, q)
           IN  /\ IsHeap(g) /\ g.partitions = [k.partitions EXCEPT ![i] = q]
               /\ g.allocation_index = k.allocation_index /\ g.gc_running = k.gc_running
               /\ g.memory = k.memory
               /\ g.bitmap_allocation_pointer = k.bitmap_allocation_pointer
<1> DEFINE g == take_partition(k, i, q)
<1>1. g = [k EXCEPT !.free_partitions = @ - 1, !.partitions[i] = q]
  BY DEF take_partition
<1> HIDE DEF g
<1>2. /\ IsHeap(g) /\ g.partitions = [k.partitions EXCEPT ![i] = q]
      /\ g.allocation_index = k.allocation_index /\ g.gc_running = k.gc_running
      /\ g.memory = k.memory
      /\ g.bitmap_allocation_pointer = k.bitmap_allocation_pointer
  BY <1>1 DEF IsHeap
<1> QED BY <1>2 DEF g

LEMMA TemporaryAllocated ==
    ASSUME NEW h, NEW all, NEW todo, HeapOK(h, all, todo), NEW t \in allocate_temporary_partition(h)
    PROVE  \E f \in allocate_partition(h, Run(1)) :
             /\ t.index = f.index
             /\ IsHeap(t.heap)
             /\ t.heap.partitions = [f.heap.partitions EXCEPT
                  ![f.index] = [f.heap.partitions[f.index] EXCEPT !.free = FALSE, !.temporary = TRUE]]
             /\ t.heap.allocation_index = f.heap.allocation_index
             /\ t.heap.gc_running = f.heap.gc_running
             /\ t.heap.memory = f.heap.memory
<1>1. PICK f \in allocate_partition(h, Run(1)) :
        t = [f EXCEPT !.heap = take_partition(f.heap, f.index,
                [f.heap.partitions[f.index] EXCEPT !.free = FALSE, !.temporary = TRUE])]
  BY DEF allocate_temporary_partition
<1> DEFINE k == f.heap
           i == f.index
           q == [k.partitions[i] EXCEPT !.free = FALSE, !.temporary = TRUE]
<1>2. f = [heap |-> k, index |-> i] /\ IsHeap(k)
  BY PartitionAllocated DEF HeapOK
<1>3. t = [f EXCEPT !.heap = take_partition(k, i, q)]
  BY <1>1
<1> HIDE DEF k, i, q
<1>4. t.index = i /\ t.heap = take_partition(k, i, q)
  BY <1>2, <1>3
<1>5. /\ IsHeap(t.heap) /\ t.heap.partitions = [k.partitions EXCEPT ![i] = q]
      /\ t.heap.allocation_index = k.allocation_index
      /\ t.heap.gc_running = k.gc_running
      /\ t.heap.memory = k.memory
      /\ t.heap.bitmap_allocation_pointer = k.bitmap_allocation_pointer
  BY <1>2, <1>4, PartitionTaken
<1> QED BY <1>4, <1>5 DEF q, k, i

\* A partition becomes temporary, with the memory behind it.
LEMMA TemporaryAdded ==
    ASSUME NEW h, NEW all, NEW todo, HeapOK(h, all, todo), h.gc_running = TRUE,
           NEW i \in DOMAIN h.partitions, h.partitions[i].free,
           NEW q, q = [h.partitions[i] EXCEPT !.free = FALSE, !.temporary = TRUE],
           NEW p2, p2 = [h.partitions EXCEPT ![i] = q],
           NEW memory2 \in Nat, memory2 >= h.memory, memory2 >= end_address(i)
    PROVE  /\ PartitionsOK(p2, TRUE, memory2) /\ ObjectsOK(p2, memory2, all)
           /\ AllocationOK(p2, h.allocation_index)
           /\ i # h.allocation_index
<1> DEFINE p == h.partitions
           memory == h.memory
<1>1. /\ PartitionsOK(p, TRUE, memory) /\ AllocationOK(p, h.allocation_index)
      /\ ObjectsOK(p, memory, all) /\ memory \in Nat
  BY DEF HeapOK, PartitionsOK
<1>2. i \in DOMAIN p /\ p[i].free /\ memory2 >= memory /\ p2 = [p EXCEPT ![i] = q]
  OBVIOUS
<1>3. p[i] \in Partition /\ PartitionOK(p[i], i, TRUE, memory)
  BY <1>1, <1>2, PartitionTypes DEF PartitionsOK
<1>4. /\ q \in Partition /\ q.static_size = p[i].static_size /\ q.dynamic_size = 0
      /\ ~q.free /\ q.temporary /\ ~q.large_content /\ ~q.evacuate
  BY <1>2, <1>3 DEF Partition, PartitionOK
<1>5. i # h.allocation_index
  BY <1>1, <1>2 DEF AllocationOK
<1> HIDE DEF p, memory
<1>6. /\ DOMAIN p2 = DOMAIN p /\ p2 = [j \in DOMAIN p |-> p2[j]]
      /\ \A j \in DOMAIN p : j # i => p2[j] = p[j]
      /\ p2[i] = q
  BY <1>2
<1>7. PartitionOK(q, i, TRUE, memory2)
  <2> DEFINE s == q.static_size
  <2>1. s \in 0 .. PARTITION_SIZE
    BY <1>4 DEF Partition
  <2>2. q.dynamic_size = 0 /\ PARTITION_SIZE \in Nat
    BY <1>4, SizesAreNumbers
  <2> HIDE DEF s
  <2>3. s + q.dynamic_size <= PARTITION_SIZE
    BY <2>1, <2>2
  <2> QED BY <1>2, <1>4, <2>3 DEF PartitionOK, s
<1>8. Changed(p, p2, TRUE, memory2)
  <2>1. p2[0].static_size = p[0].static_size
    BY <1>1, <1>4, <1>6, PartitionTypes
  <2> QED BY <1>4, <1>6, <1>7, <2>1 DEF Changed
<1>9. PartitionsOK(p2, TRUE, memory2)
  BY <1>1, <1>2, <1>8, PartitionsChanged
<1>10. ObjectsOK(p2, memory2, all)
  <2>1. \A j \in DOMAIN p : ~p[j].free => Keeps(p[j], p2[j])
    <3> SUFFICES ASSUME NEW j \in DOMAIN p, ~p[j].free PROVE Keeps(p[j], p2[j])
      OBVIOUS
    <3>1. p2[j] = p[j] /\ p[j].dynamic_size \in Nat
      BY <1>1, <1>2, <1>6, PartitionTypes DEF Partition
    <3>2. p[j].dynamic_size >= p[j].dynamic_size
      BY <3>1
    <3> QED BY <3>1, <3>2 DEF Keeps, KeepsPlace
  <2> QED BY <1>1, <1>2, <1>6, <1>9, <2>1, ObjectsKept
<1>11. AllocationOK(p2, h.allocation_index)
  BY <1>1, <1>5, <1>6 DEF AllocationOK
<1> QED BY <1>5, <1>9, <1>10, <1>11

\* A bitmap is allocated, in a new temporary partition if there is no space left.
LEMMA BitmapAllocated ==
    ASSUME NEW h, NEW all, NEW todo, HeapOK(h, all, todo), h.gc_running = TRUE,
           NEW a \in allocate_bitmap(h)
    PROVE  /\ Extends(h, a.heap) /\ HeapOK(a.heap, all, todo)
           /\ a.heap.allocation_index = h.allocation_index
           /\ Fresh(a.heap.partitions, a.heap.bitmap_allocation_pointer, a.bitmap)
<1> DEFINE Next(g) == g.bitmap_allocation_pointer + BITMAP_SIZE
<1>1. ASSUME NEW g, IsHeap(g),
             a = [heap |-> [g EXCEPT !.bitmap_allocation_pointer = @ + BITMAP_SIZE],
                  bitmap |-> g.bitmap_allocation_pointer]
      PROVE  /\ IsHeap(a.heap) /\ a.bitmap = g.bitmap_allocation_pointer
             /\ a.heap.bitmap_allocation_pointer = Next(g)
             /\ a.heap.partitions = g.partitions /\ a.heap.gc_running = g.gc_running
             /\ a.heap.memory = g.memory /\ a.heap.allocation_index = g.allocation_index
  <2>1. a.heap = [g EXCEPT !.bitmap_allocation_pointer = Next(g)] /\ a.bitmap = g.bitmap_allocation_pointer
    BY <1>1
  <2> HIDE DEF Next
  <2> QED BY <1>1, <2>1 DEF IsHeap
<1> HIDE DEF Next
<1>2. /\ IsHeap(h) /\ PartitionsOK(h.partitions, TRUE, h.memory)
      /\ AllocationOK(h.partitions, h.allocation_index)
      /\ BitmapsOK(h.partitions, h.bitmap_allocation_pointer, TRUE, todo)
      /\ ObjectsOK(h.partitions, h.memory, all)
  BY DEF HeapOK
<1>3. CASE h.bitmap_allocation_pointer % PARTITION_SIZE # 0
  <2>1. a = [heap |-> [h EXCEPT !.bitmap_allocation_pointer = @ + BITMAP_SIZE],
             bitmap |-> h.bitmap_allocation_pointer]
    BY <1>3 DEF allocate_bitmap
  <2>2. /\ IsHeap(a.heap) /\ a.bitmap = h.bitmap_allocation_pointer
        /\ a.heap.bitmap_allocation_pointer = Next(h)
        /\ a.heap.partitions = h.partitions /\ a.heap.gc_running = h.gc_running
        /\ a.heap.memory = h.memory /\ a.heap.allocation_index = h.allocation_index
    BY <1>1, <1>2, <2>1
  <2>3. /\ BitmapsOK(h.partitions, Next(h), TRUE, todo)
        /\ Fresh(h.partitions, Next(h), h.bitmap_allocation_pointer)
    BY <1>2, <1>3, NextBitmap DEF Next
  <2> QED BY <1>2, <2>2, <2>3 DEF HeapOK, Extends
<1>4. CASE ~(h.bitmap_allocation_pointer % PARTITION_SIZE # 0)
  <2>1. PICK t \in allocate_temporary_partition(h) :
          \E g \in grow_memory([t.heap EXCEPT !.bitmap_allocation_pointer = start_address(t.index)],
                               end_address(t.index)) :
            a = [heap |-> [g EXCEPT !.bitmap_allocation_pointer = @ + BITMAP_SIZE],
                 bitmap |-> g.bitmap_allocation_pointer]
    BY <1>4 DEF allocate_bitmap
  <2>2. PICK f \in allocate_partition(h, Run(1)) :
             /\ t.index = f.index
             /\ IsHeap(t.heap)
             /\ t.heap.partitions = [f.heap.partitions EXCEPT
                  ![f.index] = [f.heap.partitions[f.index] EXCEPT !.free = FALSE, !.temporary = TRUE]]
             /\ t.heap.allocation_index = f.heap.allocation_index
             /\ t.heap.gc_running = f.heap.gc_running
             /\ t.heap.memory = f.heap.memory
    BY TemporaryAllocated
  <2> DEFINE k == f.heap
             i == f.index
             q == [k.partitions[i] EXCEPT !.free = FALSE, !.temporary = TRUE]
             p2 == [k.partitions EXCEPT ![i] = q]
             u == [t.heap EXCEPT !.bitmap_allocation_pointer = start_address(i)]
  <2>3. PICK g \in grow_memory(u, end_address(i)) :
          a = [heap |-> [g EXCEPT !.bitmap_allocation_pointer = @ + BITMAP_SIZE],
               bitmap |-> g.bitmap_allocation_pointer]
    BY <2>1, <2>2
  <2>4. t.heap.partitions = p2
    BY <2>2
  <2> HIDE DEF q, p2
  <2>5. /\ Extends(h, k) /\ HeapOK(k, all, todo) /\ k.gc_running = TRUE
        /\ k.allocation_index = h.allocation_index /\ i \in DOMAIN k.partitions
    BY PartitionAllocated DEF Extends
  <2>6. i \in Nat \ {0} /\ FreeRun(k.partitions, i, i + 1 - 1)
    BY RunAllocated
  <2>7. i # 0 /\ i \in Nat /\ k.partitions[i].free
    <3>1. i \in i .. i + 1 - 1
      BY <2>6
    <3> QED BY <2>6, <3>1 DEF FreeRun
  <2>8. /\ IsHeap(u) /\ u.partitions = p2 /\ u.bitmap_allocation_pointer = start_address(i)
        /\ u.allocation_index = h.allocation_index /\ u.gc_running = TRUE /\ u.memory = k.memory
    BY <2>2, <2>4, <2>5 DEF IsHeap
  <2> HIDE DEF k, i, u
  <2>9. /\ PartitionsOK(k.partitions, TRUE, k.memory) /\ k.memory \in Nat
        /\ BitmapsOK(k.partitions, k.bitmap_allocation_pointer, TRUE, todo)
    BY <2>5 DEF HeapOK, PartitionsOK
  <2>10. /\ IsHeap(g) /\ g.memory \in Nat /\ g.memory >= k.memory /\ g.memory >= end_address(i)
         /\ g.partitions = p2 /\ g.gc_running = TRUE
         /\ g.allocation_index = h.allocation_index
         /\ g.bitmap_allocation_pointer = start_address(i)
    BY <2>3, <2>7, <2>8, <2>9, MemoryGrows, PartitionAddresses
  <2>11. /\ PartitionsOK(p2, TRUE, g.memory) /\ ObjectsOK(p2, g.memory, all)
         /\ AllocationOK(p2, h.allocation_index)
    BY <2>5, <2>7, <2>10, TemporaryAdded DEF q, p2
  <2>12. /\ BitmapsOK(p2, Next(g), TRUE, todo)
         /\ Fresh(p2, Next(g), start_address(i))
    BY <2>5, <2>7, <2>9, <2>10, FirstBitmap DEF q, p2, Next
  <2>13. /\ IsHeap(a.heap) /\ a.bitmap = start_address(i)
         /\ a.heap.bitmap_allocation_pointer = Next(g)
         /\ a.heap.partitions = p2 /\ a.heap.gc_running = TRUE
         /\ a.heap.memory = g.memory /\ a.heap.allocation_index = h.allocation_index
    BY <1>1, <2>3, <2>10
  <2>14. Extends(h, a.heap)
    <3>1. \A j \in DOMAIN k.partitions : j \in DOMAIN p2 /\ (~k.partitions[j].free => p2[j] = k.partitions[j])
      BY <2>7 DEF p2
    <3>2. Extends(k, a.heap)
      BY <2>5, <2>13, <3>1 DEF Extends
    <3> QED BY <2>5, <3>2, ExtendsTwice
  <2> QED BY <2>11, <2>12, <2>13, <2>14 DEF HeapOK
<1> QED BY <1>3, <1>4

LEMMA FreshKept ==
    ASSUME NEW p, NEW pointer, NEW b, Fresh(p, pointer, b),
           NEW p2, BitmapsKept(p, p2, 0, NoBitmap)
    PROVE  Fresh(p2, pointer, b)
  BY DEF Fresh, BitmapsKept

TakenFor(p, q, b) == q = with_bitmap([p EXCEPT !.free = FALSE], b)

\* A free partition is taken for objects; b is its bitmap while the collector runs.
LEMMA FreePartitionTaken ==
    ASSUME NEW h, NEW all, NEW todo, HeapOK(h, all, todo),
           NEW b, IF h.gc_running THEN Fresh(h.partitions, h.bitmap_allocation_pointer, b)
                  ELSE b = NoBitmap,
           NEW i \in DOMAIN h.partitions, h.partitions[i].free,
           NEW q, TakenFor(h.partitions[i], q, b),
           NEW g, g = take_partition(h, i, q)
    PROVE  /\ HeapOK(g, all, todo) /\ Extends(h, g) /\ g.partitions = [h.partitions EXCEPT ![i] = q]
           /\ g.allocation_index = h.allocation_index
           /\ ~q.free /\ ~q.temporary /\ ~q.large_content /\ ~q.evacuate
           /\ free_size(g, i) = free_size(h, i)
<1> DEFINE p == h.partitions
           running == h.gc_running
           memory == h.memory
           pointer == h.bitmap_allocation_pointer
           p2 == [p EXCEPT ![i] = q]
<1>1. /\ PartitionsOK(p, running, memory) /\ AllocationOK(p, h.allocation_index) /\ IsHeap(h)
      /\ ObjectsOK(p, memory, all) /\ memory \in Nat /\ running \in BOOLEAN
      /\ BitmapsOK(p, pointer, running, todo)
  BY DEF HeapOK, PartitionsOK
<1>2. /\ i \in DOMAIN p /\ p[i].free /\ q = with_bitmap([p[i] EXCEPT !.free = FALSE], b)
      /\ IF running THEN Fresh(p, pointer, b) ELSE b = NoBitmap
  BY DEF TakenFor
<1>3. p[i] \in Partition /\ PartitionOK(p[i], i, running, memory)
  BY <1>1, <1>2, PartitionTypes DEF PartitionsOK
<1>4. b \in Nat
  BY <1>2, AlignedIsAddress DEF Fresh, NoBitmap
<1>5. /\ q \in Partition /\ q.static_size = p[i].static_size /\ q.dynamic_size = 0
      /\ ~q.free /\ ~q.temporary /\ ~q.large_content /\ ~q.evacuate
      /\ q.bitmap = IF b # NoBitmap THEN b ELSE p[i].bitmap
  <2> DEFINE r == [p[i] EXCEPT !.free = FALSE]
  <2>1. /\ r \in Partition /\ r.static_size = p[i].static_size /\ r.dynamic_size = 0
        /\ ~r.free /\ ~r.temporary /\ ~r.large_content /\ ~r.evacuate /\ r.bitmap = p[i].bitmap
    BY <1>2, <1>3 DEF Partition, PartitionOK
  <2>2. q = with_bitmap(r, b)
    BY <1>2
  <2> HIDE DEF r
  <2> QED BY <1>4, <2>1, <2>2 DEF Partition, with_bitmap
<1>6. /\ IsHeap(g) /\ g.partitions = p2
      /\ g.allocation_index = h.allocation_index /\ g.gc_running = running
      /\ g.memory = memory
      /\ g.bitmap_allocation_pointer = pointer
  <2>1. g = take_partition(h, i, q) /\ IsHeap(h)
    BY <1>1
  <2> QED BY <2>1, PartitionTaken
<1>7. i # h.allocation_index
  BY <1>1, <1>2 DEF AllocationOK
<1>8. /\ DOMAIN p2 = DOMAIN p /\ p2 = [j \in DOMAIN p |-> p2[j]]
      /\ \A j \in DOMAIN p : j # i => p2[j] = p[j]
      /\ p2[i] = q
  BY <1>2
<1>9. free_size(g, i) = free_size(h, i)
  <2>1. g.partitions[i].static_size = h.partitions[i].static_size
        /\ g.partitions[i].dynamic_size = h.partitions[i].dynamic_size
    BY <1>2, <1>3, <1>5, <1>6, <1>8 DEF PartitionOK
  <2> QED BY <2>1 DEF free_size, dynamic_space_end, dynamic_space_start
<1> HIDE DEF p2, p, running, memory, pointer
<1>10. PartitionOK(q, i, running, memory)
  <2>1. /\ q.static_size = p[i].static_size /\ q.dynamic_size = p[i].dynamic_size
        /\ p[i].static_size + p[i].dynamic_size <= PARTITION_SIZE
    BY <1>2, <1>3, <1>5 DEF PartitionOK
  <2>2. q.static_size + q.dynamic_size <= PARTITION_SIZE
    BY <2>1
  <2> QED BY <1>5, <2>2 DEF PartitionOK
<1>11. Changed(p, p2, running, memory)
  <2>1. p2[0].static_size = p[0].static_size
    BY <1>1, <1>5, <1>8, PartitionTypes
  <2> QED BY <1>5, <1>8, <1>10, <2>1 DEF Changed
<1>12. PartitionsOK(p2, running, memory)
  <2>1. memory >= memory
    BY <1>1
  <2> QED BY <1>1, <1>11, <2>1, PartitionsChanged
<1>13. ObjectsOK(p2, memory, all)
  <2>1. \A j \in DOMAIN p : ~p[j].free => Keeps(p[j], p2[j])
    <3> SUFFICES ASSUME NEW j \in DOMAIN p, ~p[j].free PROVE Keeps(p[j], p2[j])
      OBVIOUS
    <3>1. p2[j] = p[j] /\ p[j].dynamic_size \in Nat
      BY <1>1, <1>2, <1>8, PartitionTypes DEF Partition
    <3>2. p[j].dynamic_size >= p[j].dynamic_size
      BY <3>1
    <3> QED BY <3>1, <3>2 DEF Keeps, KeepsPlace
  <2>2. memory >= memory
    BY <1>1
  <2> QED BY <1>1, <1>8, <1>12, <2>1, <2>2, ObjectsKept
<1>14. AllocationOK(p2, h.allocation_index)
  BY <1>1, <1>7, <1>8 DEF AllocationOK
<1>15. BitmapsOK(p2, pointer, running, todo)
  <2>1. BitmapsKept(p, p2, i, b)
    <3>1. ~p[i].temporary
      BY <1>2, <1>3 DEF PartitionOK
    <3>2. q.bitmap = b \/ q.bitmap = p[i].bitmap
      BY <1>5
    <3> QED BY <1>2, <1>8, <3>1, <3>2 DEF BitmapsKept
  <2>2. running => Covered(p2, todo)
    <3>1. running => q.bitmap # NoBitmap
      BY <1>2, <1>5 DEF Fresh
    <3> QED BY <1>1, <1>8, <3>1 DEF Covered, BitmapsOK
  <2>3. b = NoBitmap \/ (running /\ Fresh(p, pointer, b))
    BY <1>1, <1>2
  <2> QED BY <1>1, <2>1, <2>2, <2>3, BitmapsChanged
<1>16. Extends(h, g)
  BY <1>2, <1>6, <1>8 DEF Extends, p, running
<1> QED BY <1>5, <1>6, <1>9, <1>12, <1>13, <1>14, <1>15, <1>16 DEF HeapOK, p2, p, running, memory, pointer

LEMMA FreePartitionAllocated ==
    ASSUME NEW h, NEW all, NEW todo, HeapOK(h, all, todo),
           NEW size, NEW r \in allocate_free_partition(h, size)
    PROVE  LET q == r.heap.partitions[r.index]
           IN  /\ HeapOK(r.heap, all, todo) /\ Extends(h, r.heap)
               /\ r.index \in DOMAIN r.heap.partitions
               /\ ~q.free /\ ~q.temporary /\ ~q.large_content /\ ~q.evacuate
               /\ free_size(r.heap, r.index) >= size
<1> DEFINE Q(f, b) == with_bitmap([f.heap.partitions[f.index] EXCEPT !.free = FALSE], b.bitmap)
<1>1. PICK b \in (IF h.gc_running THEN allocate_bitmap(h) ELSE {[heap |-> h, bitmap |-> NoBitmap]}) :
        \E f \in allocate_partition(b.heap, Space(size)) :
          r = [f EXCEPT !.heap = take_partition(f.heap, f.index, Q(f, b))]
  BY DEF allocate_free_partition
<1>2. PICK f \in allocate_partition(b.heap, Space(size)) :
        r = [f EXCEPT !.heap = take_partition(f.heap, f.index, Q(f, b))]
  BY <1>1
<1>3. /\ HeapOK(b.heap, all, todo) /\ Extends(h, b.heap)
      /\ IF h.gc_running THEN Fresh(b.heap.partitions, b.heap.bitmap_allocation_pointer, b.bitmap)
         ELSE b.bitmap = NoBitmap
  <2>1. CASE h.gc_running
    <3>1. h.gc_running = TRUE
      BY <2>1 DEF HeapOK, PartitionsOK
    <3> QED BY <1>1, <2>1, <3>1, BitmapAllocated
  <2>2. CASE ~h.gc_running
    <3>1. b.heap = h /\ b.bitmap = NoBitmap
      BY <1>1, <2>2
    <3> QED BY <2>2, <3>1, HeapKept
  <2> QED BY <2>1, <2>2
<1> DEFINE g == f.heap
           i == f.index
           q == with_bitmap([g.partitions[i] EXCEPT !.free = FALSE], b.bitmap)
           k == take_partition(g, i, q)
<1>4. /\ Extends(b.heap, g) /\ HeapOK(g, all, todo)
      /\ f = [heap |-> g, index |-> i]
      /\ g.bitmap_allocation_pointer = b.heap.bitmap_allocation_pointer
      /\ i \in DOMAIN g.partitions
      /\ BitmapsKept(b.heap.partitions, g.partitions, 0, NoBitmap)
  BY <1>3, PartitionAllocated
<1>5. g.partitions[i].free /\ free_size(g, i) >= size
  BY <1>3, SpaceAllocated
<1>6. r.heap = k /\ r.index = i
  BY <1>2, <1>4
<1> HIDE DEF g, i
<1>7. /\ IF g.gc_running THEN Fresh(g.partitions, g.bitmap_allocation_pointer, b.bitmap)
         ELSE b.bitmap = NoBitmap
      /\ g.gc_running = h.gc_running
  BY <1>3, <1>4, FreshKept DEF Extends
<1> HIDE DEF q, k
<1>8. TakenFor(g.partitions[i], q, b.bitmap) /\ k = take_partition(g, i, q)
  BY DEF q, k, TakenFor
<1>9. /\ HeapOK(k, all, todo) /\ Extends(g, k) /\ k.partitions = [g.partitions EXCEPT ![i] = q]
      /\ ~q.free /\ ~q.temporary /\ ~q.large_content /\ ~q.evacuate
      /\ free_size(k, i) = free_size(g, i)
  BY <1>4, <1>5, <1>7, <1>8, FreePartitionTaken
<1>10. i \in DOMAIN k.partitions /\ k.partitions[i] = q
  BY <1>4, <1>9
<1>11. Extends(h, k)
  BY <1>3, <1>4, <1>9, ExtendsTwice
<1> QED BY <1>5, <1>6, <1>9, <1>10, <1>11

\* An object is put behind the others of its partition.
LEMMA ObjectBumped ==
    ASSUME NEW h, NEW all, NEW todo, HeapOK(h, all, todo),
           NEW i \in DOMAIN h.partitions,
           ~h.partitions[i].free, ~h.partitions[i].temporary, ~h.partitions[i].large_content,
           ~h.partitions[i].evacuate,
           NEW o \in HeapObject, ~IsLarge(o), NEW a \in Bump(h, i, o.size), o.at = a.at,
           dynamic_space_end(h, i) + o.size <= end_address(i)
    PROVE  HeapOK(a.heap, all \cup {o}, todo) /\ a.heap.gc_running = h.gc_running /\ NewPlace(all, o)
<1> DEFINE p == h.partitions
           p2 == [p EXCEPT ![i].dynamic_size = @ + o.size]
           top == dynamic_space_end(h, i)
<1>1. /\ PartitionsOK(p, h.gc_running, h.memory) /\ AllocationOK(p, h.allocation_index) /\ IsHeap(h)
      /\ ObjectsOK(p, h.memory, all) /\ h.memory \in Nat
      /\ BitmapsOK(p, h.bitmap_allocation_pointer, h.gc_running, todo)
  BY DEF HeapOK, PartitionsOK
<1>2. PICK g \in grow_memory(h, top + o.size) :
        a = [heap |-> [g EXCEPT !.partitions[i].dynamic_size = @ + o.size, !.allocation_index = i],
             at |-> top]
  BY DEF Bump
<1>3. i \in DOMAIN p /\ ~p[i].free /\ ~p[i].temporary /\ ~p[i].large_content /\ ~p[i].evacuate
  OBVIOUS
<1>4. top = start_address(i) + p[i].static_size + p[i].dynamic_size
  BY DEF dynamic_space_end, dynamic_space_start
<1>5. p[i] \in Partition /\ i \in Nat
  BY <1>1, <1>3, PartitionTypes
<1>6. top \in Nat /\ o.size \in Nat /\ o.at = top /\ top + o.size <= end_address(i)
  <2>1. p[i].static_size \in Nat /\ p[i].dynamic_size \in Nat /\ start_address(i) \in Nat
    BY <1>5, PartitionAddresses DEF Partition
  <2>2. top \in Nat
    BY <1>4, <2>1
  <2> QED BY <1>2, <2>2, ObjectNumbers
<1> HIDE DEF top
<1>7. /\ IsHeap(g) /\ g.memory \in Nat /\ g.memory >= h.memory /\ g.memory >= top + o.size
      /\ g.partitions = p /\ g.gc_running = h.gc_running
      /\ g.bitmap_allocation_pointer = h.bitmap_allocation_pointer
  <2>1. top + o.size \in Nat
    BY <1>6
  <2> QED BY <1>1, <1>2, <2>1, MemoryGrows
<1>8. a.heap = [g EXCEPT !.partitions[i].dynamic_size = @ + o.size, !.allocation_index = i]
  BY <1>2
<1> HIDE DEF p
<1>9. /\ IsHeap(a.heap) /\ a.heap.memory = g.memory /\ a.heap.allocation_index = i
      /\ a.heap.partitions = p2 /\ a.heap.gc_running = h.gc_running
      /\ a.heap.bitmap_allocation_pointer = h.bitmap_allocation_pointer
  BY <1>7, <1>8 DEF IsHeap
<1>10. PartitionsOK(p2, h.gc_running, g.memory) /\ ObjectsOK(p2, g.memory, all \cup {o}) /\ NewPlace(all, o)
  <2>1. o.at = start_address(i) + p[i].static_size + p[i].dynamic_size
    BY <1>4, <1>6
  <2>2. o.at + o.size <= end_address(i) /\ g.memory >= o.at + o.size
    BY <1>6, <1>7
  <2>3. Bumped(p, p2, i, o.size)
    BY DEF Bumped
  <2> HIDE DEF p2
  <2> QED BY <1>1, <1>3, <1>7, <2>1, <2>2, <2>3, SmallPlaced
<1>11. /\ DOMAIN p2 = DOMAIN p
       /\ \A j \in DOMAIN p : j # i => p2[j] = p[j]
       /\ p2[i] = [p[i] EXCEPT !.dynamic_size = @ + o.size]
  BY <1>3
<1>12. /\ p2[i].free = p[i].free /\ p2[i].temporary = p[i].temporary
       /\ p2[i].large_content = p[i].large_content /\ p2[i].static_size = p[i].static_size
       /\ p2[i].evacuate = p[i].evacuate /\ p2[i].bitmap = p[i].bitmap
  BY <1>5, <1>11 DEF Partition
<1> HIDE DEF p2
<1>13. AllocationOK(p2, i)
  BY <1>3, <1>11, <1>12 DEF AllocationOK
<1>14. BitmapsOK(p2, h.bitmap_allocation_pointer, h.gc_running, todo)
  <2>1. BitmapsKept(p, p2, 0, NoBitmap)
    BY <1>11, <1>12 DEF BitmapsKept
  <2>2. h.gc_running => Covered(p2, todo)
    <3>1. \A j \in DOMAIN p2 : /\ j \in DOMAIN p /\ p2[j].large_content = p[j].large_content
                               /\ p2[j].bitmap = p[j].bitmap
                               /\ has_dynamic_space(p2[j]) <=> has_dynamic_space(p[j])
      BY <1>11, <1>12 DEF has_dynamic_space
    <3>2. h.gc_running => Covered(p, todo)
      BY <1>1 DEF Covered, BitmapsOK
    <3> QED BY <3>1, <3>2 DEF Covered
  <2> QED BY <1>1, <2>1, <2>2, BitmapsChanged
<1> QED BY <1>9, <1>10, <1>13, <1>14 DEF HeapOK

\* The heap g differs from h only in what is counted.
LEMMA HeapCounts ==
    ASSUME NEW h, NEW all, NEW todo, HeapOK(h, all, todo), NEW g, IsHeap(g),
           g.partitions = h.partitions, g.allocation_index = h.allocation_index,
           g.gc_running = h.gc_running, g.memory = h.memory,
           g.bitmap_allocation_pointer = h.bitmap_allocation_pointer
    PROVE  HeapOK(g, all, todo)
  BY DEF HeapOK

LEMMA DynamicSpaceEnd ==
    ASSUME NEW h, NEW all, NEW todo, HeapOK(h, all, todo), NEW i \in DOMAIN h.partitions
    PROVE  dynamic_space_end(h, i) \in Nat /\ end_address(i) \in Nat
<1>1. PartitionsOK(h.partitions, h.gc_running, h.memory)
  BY DEF HeapOK
<1>2. /\ h.partitions[i].static_size \in Nat /\ h.partitions[i].dynamic_size \in Nat
      /\ start_address(i) \in Nat /\ end_address(i) \in Nat
  BY <1>1, PartitionTypes, PartitionAddresses DEF Partition
<1> QED BY <1>2 DEF dynamic_space_end, dynamic_space_start

LEMMA NewPartitionAllocated ==
    ASSUME NEW h, NEW all, NEW todo, HeapOK(h, all, todo),
           NEW o \in HeapObject, ~IsLarge(o),
           NEW a \in allocate_in_new_partition(h, o.size), o.at = a.at
    PROVE  HeapOK(a.heap, all \cup {o}, todo) /\ a.heap.gc_running = h.gc_running /\ NewPlace(all, o)
<1> DEFINE h1 == [h EXCEPT !.precomputed_heap_size =
                    @ + h.partitions[h.allocation_index].dynamic_size]
<1>1. PICK f \in allocate_free_partition(h1, o.size) : a \in Bump(f.heap, f.index, o.size)
  BY DEF allocate_in_new_partition
<1>2. HeapOK(h1, all, todo) /\ h1.gc_running = h.gc_running
  <2>1. /\ IsHeap(h1) /\ h1.partitions = h.partitions /\ h1.allocation_index = h.allocation_index
        /\ h1.gc_running = h.gc_running /\ h1.memory = h.memory
        /\ h1.bitmap_allocation_pointer = h.bitmap_allocation_pointer
    <3>1. IsHeap(h)
      BY DEF HeapOK
    <3> QED BY <3>1 DEF IsHeap
  <2> QED BY <2>1, HeapCounts
<1> HIDE DEF h1
<1> DEFINE k == f.heap
           i == f.index
           q == k.partitions[i]
<1>3. /\ HeapOK(k, all, todo) /\ Extends(h1, k) /\ i \in DOMAIN k.partitions
      /\ ~q.free /\ ~q.temporary /\ ~q.large_content /\ ~q.evacuate
      /\ free_size(k, i) >= o.size
  BY <1>2, FreePartitionAllocated
<1>4. a \in Bump(k, i, o.size)
  BY <1>1
<1> HIDE DEF k, i
<1>5. dynamic_space_end(k, i) + o.size <= end_address(i)
  <2>1. end_address(i) - dynamic_space_end(k, i) >= o.size
    BY <1>3 DEF free_size
  <2>2. dynamic_space_end(k, i) \in Nat /\ end_address(i) \in Nat /\ o.size \in Nat
    BY <1>3, DynamicSpaceEnd, ObjectNumbers
  <2> QED BY <2>1, <2>2
<1>6. HeapOK(a.heap, all \cup {o}, todo) /\ a.heap.gc_running = k.gc_running /\ NewPlace(all, o)
  BY <1>3, <1>4, <1>5, ObjectBumped
<1> QED BY <1>2, <1>3, <1>6 DEF Extends

LEMMA NormalAllocated ==
    ASSUME NEW h, NEW all, NEW todo, HeapOK(h, all, todo),
           NEW o \in HeapObject, ~IsLarge(o),
           NEW a \in allocate_normal_object(h, o.size), o.at = a.at
    PROVE  HeapOK(a.heap, all \cup {o}, todo) /\ a.heap.gc_running = h.gc_running /\ NewPlace(all, o)
<1> DEFINE i == h.allocation_index
<1>1. i \in DOMAIN h.partitions
      /\ ~h.partitions[i].free /\ ~h.partitions[i].temporary /\ ~h.partitions[i].large_content
      /\ ~h.partitions[i].evacuate
  BY DEF HeapOK, AllocationOK
<1>2. CASE dynamic_space_end(h, i) <= end_address(i) - o.size
  <2>1. a \in Bump(h, i, o.size)
    BY <1>2 DEF allocate_normal_object
  <2> HIDE DEF i
  <2>2. dynamic_space_end(h, i) \in Nat /\ end_address(i) \in Nat /\ o.size \in Nat
    BY <1>1, DynamicSpaceEnd, ObjectNumbers
  <2>3. dynamic_space_end(h, i) + o.size <= end_address(i)
    BY <1>2, <2>2
  <2> QED BY <1>1, <2>1, <2>3, ObjectBumped
<1>3. CASE ~(dynamic_space_end(h, i) <= end_address(i) - o.size)
  <2>1. a \in allocate_in_new_partition(h, o.size)
    BY <1>3 DEF allocate_normal_object
  <2> QED BY <2>1, NewPartitionAllocated
<1> QED BY <1>2, <1>3

LEMMA LargeAllocated ==
    ASSUME NEW h, NEW all, NEW todo, HeapOK(h, all, todo),
           NEW o \in HeapObject, IsLarge(o),
           NEW a \in allocate_large_object(h, o.size), o.at = a.at
    PROVE  HeapOK(a.heap, all \cup {o}, todo) /\ a.heap.gc_running = h.gc_running /\ NewPlace(all, o)
<1> DEFINE n == partitions_length(o.size)
           rest == o.size - (n - 1) * PARTITION_SIZE
           C(i, last) == IF i = last THEN o.size - (n - 1) * PARTITION_SIZE ELSE PARTITION_SIZE
           P2(g, i) == [j \in DOMAIN g.partitions |->
                    IF j \in i .. i + n - 1
                    THEN [g.partitions[j] EXCEPT !.free = FALSE, !.large_content = TRUE,
                            !.dynamic_size = C(j, i + n - 1)]
                    ELSE g.partitions[j]]
           H2(g, i) == [g EXCEPT
                 !.free_partitions = @ - n,
                 !.precomputed_heap_size = @ + o.size,
                 !.partitions = P2(g, i)]
<1>1. PICK f \in allocate_partition(h, Run(n)) :
        \E g \in grow_memory(f.heap, end_address(f.index + n - 1)) :
          a = [heap |-> H2(g, f.index), at |-> dynamic_space_start(g, f.index)]
  BY DEF allocate_large_object
<1> DEFINE k == f.heap
           i == f.index
           b == i + n - 1
<1>2. PICK g \in grow_memory(k, end_address(b)) :
        a = [heap |-> H2(g, i), at |-> dynamic_space_start(g, i)]
  BY <1>1
<1>3. \A g1, i1 : Filled(g1.partitions, P2(g1, i1), i1, i1 + n - 1, rest)
  BY DEF Filled
<1>4. a.heap = H2(g, i) /\ a.at = dynamic_space_start(g, i)
  BY <1>2
<1> HIDE DEF C, P2, n
<1> DEFINE p2 == P2(g, i)
<1>5. a.heap = [g EXCEPT !.free_partitions = @ - n, !.precomputed_heap_size = @ + o.size, !.partitions = p2]
  BY <1>4
<1> HIDE DEF p2, H2
<1>6. n \in Nat \ {0} /\ o.size \in Nat /\ n >= 2
  BY PartitionsLength, ObjectNumbers DEF n, IsLarge
<1>7. /\ Extends(h, k) /\ HeapOK(k, all, todo) /\ k.allocation_index = h.allocation_index
  BY PartitionAllocated
<1>8. i \in Nat /\ FreeRun(k.partitions, i, b)
  BY <1>6, RunAllocated
<1> HIDE DEF k, i
<1>9. b \in Nat /\ i \in i .. b
  BY <1>6, <1>8
<1>10. /\ PartitionsOK(k.partitions, k.gc_running, k.memory) /\ k.memory \in Nat /\ IsHeap(k)
       /\ ObjectsOK(k.partitions, k.memory, all) /\ AllocationOK(k.partitions, k.allocation_index)
       /\ BitmapsOK(k.partitions, k.bitmap_allocation_pointer, k.gc_running, todo)
  BY <1>7 DEF HeapOK, PartitionsOK
<1>11. /\ IsHeap(g) /\ g.memory \in Nat /\ g.memory >= k.memory /\ g.memory >= end_address(b)
       /\ g.partitions = k.partitions /\ g.gc_running = k.gc_running
       /\ g.allocation_index = k.allocation_index
       /\ g.bitmap_allocation_pointer = k.bitmap_allocation_pointer
  BY <1>2, <1>9, <1>10, MemoryGrows, PartitionAddresses
<1>12. /\ IsHeap(a.heap) /\ a.heap.memory = g.memory /\ a.heap.partitions = p2
       /\ a.heap.gc_running = g.gc_running
       /\ a.heap.allocation_index = g.allocation_index
       /\ a.heap.bitmap_allocation_pointer = g.bitmap_allocation_pointer
  BY <1>5, <1>11 DEF IsHeap
<1>13. Filled(k.partitions, p2, i, b, rest)
  BY <1>3, <1>11 DEF p2
<1>14. o.at = start_address(i)
  <2>1. o.at = start_address(i) + k.partitions[i].static_size
    BY <1>4, <1>11 DEF dynamic_space_start
  <2>2. k.partitions[i].static_size = 0 /\ start_address(i) \in Nat
    BY <1>8, <1>9, PartitionAddresses DEF FreeRun
  <2> QED BY <2>1, <2>2
<1>15. PartitionsOK(p2, k.gc_running, g.memory) /\ ObjectsOK(p2, g.memory, all \cup {o}) /\ NewPlace(all, o)
  <2>1. b = i + partitions_length(o.size) - 1
    BY DEF n
  <2>2. Filled(k.partitions, p2, i, b, o.size - (partitions_length(o.size) - 1) * PARTITION_SIZE)
    BY <1>13 DEF n
  <2> HIDE DEF b
  <2> QED BY <1>8, <1>10, <1>11, <1>14, <2>1, <2>2, LargePlaced
<1>16. rest \in 0 .. PARTITION_SIZE
  <2> DEFINE x == (n - 1) * PARTITION_SIZE
  <2>1. x \in Nat /\ x < o.size /\ o.size <= x + PARTITION_SIZE
    BY PartitionsLength, ObjectNumbers DEF n
  <2>2. rest = o.size - x
    OBVIOUS
  <2> HIDE DEF x, rest
  <2> QED BY <1>6, <2>1, <2>2, SizesAreNumbers
<1> HIDE DEF b, rest
<1>17. /\ DOMAIN p2 = DOMAIN k.partitions
       /\ \A j \in DOMAIN k.partitions : j \notin i .. b => p2[j] = k.partitions[j]
       /\ \A j \in i .. b : p2[j].large_content /\ p2[j].bitmap = k.partitions[j].bitmap
  BY <1>8, <1>9, <1>10, <1>13, <1>16, FilledPartitions
<1>18. AllocationOK(p2, k.allocation_index)
  <2>1. k.allocation_index \notin i .. b
    BY <1>8, <1>10 DEF FreeRun, AllocationOK
  <2> QED BY <1>10, <1>17, <2>1 DEF AllocationOK
<1>19. BitmapsOK(p2, k.bitmap_allocation_pointer, k.gc_running, todo)
  <2>1. \A j \in DOMAIN k.partitions : k.partitions[j].temporary => j \notin i .. b
    BY <1>8, <1>10 DEF FreeRun, PartitionsOK, PartitionOK
  <2>2. BitmapsKept(k.partitions, p2, 0, NoBitmap)
    BY <1>17, <2>1 DEF BitmapsKept
  <2>3. k.gc_running => Covered(p2, todo)
    <3>1. k.gc_running => Covered(k.partitions, todo)
      BY <1>10 DEF Covered, BitmapsOK
    <3> QED BY <1>17, <3>1 DEF Covered
  <2> QED BY <1>10, <2>2, <2>3, BitmapsChanged
<1> QED BY <1>7, <1>11, <1>12, <1>15, <1>18, <1>19 DEF HeapOK, Extends

\* Wherever an object is allocated, the heap is correct with it.
LEMMA ObjectAllocated ==
    ASSUME NEW h, NEW all, NEW todo, HeapOK(h, all, todo),
           NEW o \in HeapObject, NEW a \in allocate(h, o.size), o.at = a.at
    PROVE  HeapOK(a.heap, all \cup {o}, todo) /\ a.heap.gc_running = h.gc_running /\ NewPlace(all, o)
<1>1. o.size \in Nat /\ PARTITION_SIZE \in Nat
  BY ObjectNumbers, SizesAreNumbers
<1>2. CASE o.size <= PARTITION_SIZE
  <2>1. a \in allocate_normal_object(h, o.size) /\ ~IsLarge(o)
    BY <1>1, <1>2 DEF allocate, IsLarge
  <2> QED BY <2>1, NormalAllocated
<1>3. CASE ~(o.size <= PARTITION_SIZE)
  <2>1. a \in allocate_large_object(h, o.size) /\ IsLarge(o)
    BY <1>1, <1>3 DEF allocate, IsLarge
  <2> QED BY <2>1, LargeAllocated
<1> QED BY <1>2, <1>3

\* What is allocated has an address.
LEMMA AllocatedAt ==
    ASSUME NEW h, NEW all, NEW todo, HeapOK(h, all, todo),
           NEW size \in Nat \ {0}, NEW a \in allocate(h, size)
    PROVE  a.at \in Nat
<1>1. ASSUME NEW g, HeapOK(g, all, todo), NEW i \in DOMAIN g.partitions, a \in Bump(g, i, size)
      PROVE  a.at \in Nat
  <2>1. PICK k \in grow_memory(g, dynamic_space_end(g, i) + size) :
          a = [heap |-> [k EXCEPT !.partitions[i].dynamic_size = @ + size, !.allocation_index = i],
               at |-> dynamic_space_end(g, i)]
    BY <1>1 DEF Bump
  <2>2. a.at = dynamic_space_end(g, i)
    BY <2>1
  <2> QED BY <1>1, <2>2, DynamicSpaceEnd
<1>2. CASE a \in allocate_large_object(h, size)
  <2> DEFINE n == partitions_length(size)
             C(i, last) == IF i = last THEN size - (n - 1) * PARTITION_SIZE ELSE PARTITION_SIZE
             H2(g, i) == [g EXCEPT
                   !.free_partitions = @ - n,
                   !.precomputed_heap_size = @ + size,
                   !.partitions = [j \in DOMAIN g.partitions |->
                      IF j \in i .. i + n - 1
                      THEN [g.partitions[j] EXCEPT !.free = FALSE, !.large_content = TRUE,
                              !.dynamic_size = C(j, i + n - 1)]
                      ELSE g.partitions[j]]]
  <2>0. PICK f \in allocate_partition(h, Run(n)) :
          \E g \in grow_memory(f.heap, end_address(f.index + n - 1)) :
            a = [heap |-> H2(g, f.index), at |-> dynamic_space_start(g, f.index)]
    BY <1>2, ZenonT(40) DEF allocate_large_object
  <2> HIDE DEF H2
  <2>1. \E g \in grow_memory(f.heap, end_address(f.index + n - 1)) : a.at = dynamic_space_start(g, f.index)
    BY <2>0
  <2>2. n \in Nat \ {0}
    BY PartitionsLength
  <2> HIDE DEF n
  <2>3. /\ HeapOK(f.heap, all, todo) /\ f.index \in DOMAIN f.heap.partitions /\ f.index \in Nat
        /\ f.index + n - 1 \in Nat
    BY <2>2, PartitionAllocated, RunAllocated
  <2>4. PICK g \in grow_memory(f.heap, end_address(f.index + n - 1)) : a.at = dynamic_space_start(g, f.index)
    BY <2>1
  <2>5. IsHeap(f.heap) /\ f.heap.memory \in Nat /\ PartitionsOK(f.heap.partitions, f.heap.gc_running, f.heap.memory)
    BY <2>3 DEF HeapOK, PartitionsOK
  <2>6. g.partitions = f.heap.partitions
    BY <2>3, <2>5, MemoryGrows, PartitionAddresses
  <2>7. f.heap.partitions[f.index].static_size \in Nat /\ start_address(f.index) \in Nat
    BY <2>3, <2>5, PartitionTypes, PartitionAddresses DEF Partition
  <2> QED BY <2>4, <2>6, <2>7 DEF dynamic_space_start
<1>3. CASE a \in allocate_normal_object(h, size)
  <2>1. CASE a \in Bump(h, h.allocation_index, size)
    BY <1>1, <2>1 DEF HeapOK, AllocationOK
  <2>2. CASE a \in allocate_in_new_partition(h, size)
    <3> DEFINE h1 == [h EXCEPT !.precomputed_heap_size =
                        @ + h.partitions[h.allocation_index].dynamic_size]
    <3>1. PICK f \in allocate_free_partition(h1, size) : a \in Bump(f.heap, f.index, size)
      BY <2>2 DEF allocate_in_new_partition
    <3>2. HeapOK(h1, all, todo)
      <4>1. /\ IsHeap(h1) /\ h1.partitions = h.partitions /\ h1.allocation_index = h.allocation_index
            /\ h1.gc_running = h.gc_running /\ h1.memory = h.memory
            /\ h1.bitmap_allocation_pointer = h.bitmap_allocation_pointer
        <5>1. IsHeap(h)
          BY DEF HeapOK
        <5> QED BY <5>1 DEF IsHeap
      <4> QED BY <4>1, HeapCounts
    <3> HIDE DEF h1
    <3>3. HeapOK(f.heap, all, todo) /\ f.index \in DOMAIN f.heap.partitions
      BY <3>2, FreePartitionAllocated
    <3> QED BY <1>1, <3>1, <3>3
  <2> QED BY <1>3, <2>1, <2>2 DEF allocate_normal_object
<1> QED BY <1>2, <1>3 DEF allocate
-----------------------------------------------------------------------------
(* Marks *)

\* Partitions differ in their marked sizes.
Marked(p, p2) ==
  /\ p2 = [j \in DOMAIN p |-> p2[j]]
  /\ \A j \in DOMAIN p : /\ p2[j] \in Partition
                         /\ p2[j] = [p[j] EXCEPT !.marked_size = p2[j].marked_size]
                         /\ p[j].free => p2[j] = p[j]

LEMMA MarkedPartition ==
    ASSUME NEW q \in Partition, NEW m \in Nat, NEW r, r = [q EXCEPT !.marked_size = m]
    PROVE  /\ r \in Partition /\ r.marked_size = m
           /\ r.free = q.free /\ r.temporary = q.temporary /\ r.large_content = q.large_content
           /\ r.evacuate = q.evacuate /\ r.update = q.update /\ r.bitmap = q.bitmap
           /\ r.static_size = q.static_size /\ r.dynamic_size = q.dynamic_size
  BY DEF Partition

LEMMA MarkingPartitions ==
    ASSUME NEW p, NEW running, NEW memory, PartitionsOK(p, running, memory),
           NEW index, AllocationOK(p, index), NEW pointer, NEW todo, BitmapsOK(p, pointer, running, todo),
           NEW p2, Marked(p, p2)
    PROVE  PartitionsOK(p2, running, memory) /\ AllocationOK(p2, index)
           /\ BitmapsOK(p2, pointer, running, todo)
<1>1. /\ DOMAIN p2 = DOMAIN p
      /\ \A j \in DOMAIN p :
           /\ p[j].free => p2[j] = p[j]
           /\ p2[j] \in Partition /\ p2[j].marked_size \in Nat
           /\ p2[j].free = p[j].free /\ p2[j].temporary = p[j].temporary
           /\ p2[j].large_content = p[j].large_content
           /\ p2[j].evacuate = p[j].evacuate /\ p2[j].update = p[j].update
           /\ p2[j].bitmap = p[j].bitmap
           /\ p2[j].static_size = p[j].static_size /\ p2[j].dynamic_size = p[j].dynamic_size
  <2>1. DOMAIN p2 = DOMAIN p
    BY DEF Marked
  <2>2. \A j \in DOMAIN p : /\ p[j] \in Partition /\ p2[j].marked_size \in Nat
                            /\ p2[j] = [p[j] EXCEPT !.marked_size = p2[j].marked_size]
                            /\ p[j].free => p2[j] = p[j]
    BY PartitionTypes DEF Marked, Partition
  <2> QED BY <2>1, <2>2, MarkedPartition
<1>2. memory \in Nat /\ running \in BOOLEAN
  BY DEF PartitionsOK
<1>3. Changed(p, p2, running, memory)
  <2>1. p2[0].static_size = p[0].static_size
    BY <1>1, PartitionTypes
  <2>2. ASSUME NEW j \in DOMAIN p, ~p[j].free PROVE PartitionOK(p2[j], j, running, memory)
    <3>1. PartitionOK(p[j], j, running, memory)
      BY DEF PartitionsOK
    <3> QED BY <1>1, <2>2, <3>1 DEF PartitionOK
  <2>3. p2 = [j \in DOMAIN p |-> p2[j]]
    BY DEF Marked
  <2> QED BY <1>1, <2>1, <2>2, <2>3 DEF Changed
<1>4. PartitionsOK(p2, running, memory)
  <2>1. memory >= memory
    BY <1>2
  <2> QED BY <1>2, <1>3, <2>1, PartitionsChanged
<1>5. AllocationOK(p2, index)
  BY <1>1 DEF AllocationOK
<1>6. BitmapsOK(p2, pointer, running, todo)
  <2>1. BitmapsKept(p, p2, 0, NoBitmap)
    BY <1>1 DEF BitmapsKept
  <2>2. running => Covered(p2, todo)
    <3>1. running => Covered(p, todo)
      BY DEF Covered, BitmapsOK
    <3>2. \A j \in DOMAIN p : has_dynamic_space(p2[j]) <=> has_dynamic_space(p[j])
      BY <1>1 DEF has_dynamic_space
    <3> QED BY <1>1, <3>1, <3>2 DEF Covered
  <2> QED BY <2>1, <2>2, BitmapsChanged
<1> QED BY <1>4, <1>5, <1>6

\* Marks leave the objects where they are; of a large one, the first partition is marked.
LEMMA MarkingObjects ==
    ASSUME NEW p, NEW running, NEW memory, PartitionsOK(p, running, memory),
           NEW all, ObjectsOK(p, memory, all), NEW p2, Marked(p, p2),
           \A o \in all : IsLarge(o) =>
             \/ \A j \in PartitionRange(o) : p2[j].marked_size = p[j].marked_size
             \/ p2[index_of(o.at)].marked_size # 0
    PROVE  ObjectsOK(p2, memory, all)
<1>1. /\ DOMAIN p2 = DOMAIN p
      /\ \A j \in DOMAIN p :
           /\ p2[j].free = p[j].free /\ p2[j].temporary = p[j].temporary
           /\ p2[j].large_content = p[j].large_content
           /\ p2[j].static_size = p[j].static_size /\ p2[j].dynamic_size = p[j].dynamic_size
  <2>1. DOMAIN p2 = DOMAIN p
    BY DEF Marked
  <2>2. \A j \in DOMAIN p : /\ p[j] \in Partition /\ p2[j].marked_size \in Nat
                            /\ p2[j] = [p[j] EXCEPT !.marked_size = p2[j].marked_size]
    BY PartitionTypes DEF Marked, Partition
  <2> QED BY <2>1, <2>2, MarkedPartition
<1>2. ASSUME NEW o \in all PROVE IF IsLarge(o) THEN LargeOK(p2, o) ELSE SmallOK(p2, o)
  <2>1. o \in HeapObject /\ IF IsLarge(o) THEN LargeOK(p, o) ELSE SmallOK(p, o)
    BY DEF ObjectsOK
  <2>2. CASE ~IsLarge(o)
    BY <1>1, <2>1, <2>2 DEF SmallOK
  <2>3. CASE IsLarge(o)
    <3>1. index_of(o.at) \in PartitionRange(o)
      <4>1. /\ index_of(o.at) \in Nat /\ partitions_length(o.size) \in Nat \ {0}
            /\ PartitionRange(o) = index_of(o.at) .. index_of(o.at) + partitions_length(o.size) - 1
        BY <2>1, ObjectPlace
      <4> QED BY <4>1
    <3>2. \A j \in PartitionRange(o) : /\ j \in DOMAIN p /\ p[j].large_content /\ ~p[j].free
                                       /\ p[index_of(o.at)].marked_size = 0 => p[j].marked_size = 0
      BY <2>1, <2>3 DEF LargeOK
    <3>3. o.at = start_address(index_of(o.at))
      BY <2>1, <2>3 DEF LargeOK
    <3>4. \A j \in PartitionRange(o) :
            p2[index_of(o.at)].marked_size = 0 => p2[j].marked_size = 0
      BY <2>3, <3>1, <3>2
    <3>5. LargeOK(p2, o)
      BY <1>1, <3>2, <3>3, <3>4 DEF LargeOK
    <3> QED BY <2>3, <3>5
  <2> QED BY <2>2, <2>3
<1> QED BY <1>2 DEF ObjectsOK

\* The heap is correct with an object marked.
LEMMA ObjectMarked ==
    ASSUME NEW h, NEW all, NEW todo, HeapOK(h, all, todo), NEW o \in all
    PROVE  HeapOK(mark_object(h, o), all, todo) /\ mark_object(h, o).gc_running = h.gc_running
<1> DEFINE p == h.partitions
           i == index_of(o.at)
           g == mark_object(h, o)
<1>1. /\ PartitionsOK(p, h.gc_running, h.memory) /\ AllocationOK(p, h.allocation_index) /\ IsHeap(h)
      /\ ObjectsOK(p, h.memory, all)
      /\ BitmapsOK(p, h.bitmap_allocation_pointer, h.gc_running, todo)
  BY DEF HeapOK
<1>2. o \in HeapObject /\ IF IsLarge(o) THEN LargeOK(p, o) ELSE SmallOK(p, o)
  BY <1>1 DEF ObjectsOK
<1>3. /\ i \in Nat /\ partitions_length(o.size) \in Nat \ {0}
      /\ PartitionRange(o) = i .. i + partitions_length(o.size) - 1
      /\ IsLarge(o) => partitions_length(o.size) >= 2
      /\ \A j \in PartitionRange(o) :
           j \in DOMAIN p /\ ~p[j].free /\ (p[j].large_content <=> IsLarge(o))
  BY <1>1, <1>2, ObjectPlace
<1>4. i \in PartitionRange(o) /\ i \in DOMAIN p /\ ~p[i].free
  BY <1>3
<1>5. o.size \in Nat /\ o.size > 0 /\ PARTITION_SIZE \in Nat \ {0}
  BY <1>2, ObjectNumbers, SizesAreNumbers
<1>6. ASSUME NEW p2, Marked(p, p2), IsHeap(g), g.partitions = p2,
             g.allocation_index = h.allocation_index, g.gc_running = h.gc_running,
             g.memory = h.memory, g.bitmap_allocation_pointer = h.bitmap_allocation_pointer,
             \A q \in all : IsLarge(q) =>
               \/ \A j \in PartitionRange(q) : p2[j].marked_size = p[j].marked_size
               \/ p2[index_of(q.at)].marked_size # 0
      PROVE  HeapOK(g, all, todo) /\ g.gc_running = h.gc_running
  <2> HIDE DEF p, g
  <2>1. PartitionsOK(p2, h.gc_running, h.memory) /\ AllocationOK(p2, h.allocation_index)
        /\ BitmapsOK(p2, h.bitmap_allocation_pointer, h.gc_running, todo)
    BY <1>1, <1>6, MarkingPartitions
  <2>2. ObjectsOK(p2, h.memory, all)
    BY <1>1, <1>6, MarkingObjects
  <2> QED BY <1>6, <2>1, <2>2 DEF HeapOK
<1>7. CASE ~IsLarge(o)
  <2> DEFINE p2 == [p EXCEPT ![i].marked_size = @ + o.size]
  <2>1. g = [h EXCEPT !.partitions[i].marked_size = @ + o.size]
    BY <1>7 DEF mark_object
  <2> HIDE DEF p, g, i
  <2>2. /\ IsHeap(g) /\ g.partitions = p2 /\ g.memory = h.memory
        /\ g.allocation_index = h.allocation_index /\ g.gc_running = h.gc_running
        /\ g.bitmap_allocation_pointer = h.bitmap_allocation_pointer
    BY <1>1, <2>1 DEF IsHeap, p
  <2>3. p[i] \in Partition /\ p[i].marked_size \in Nat
    BY <1>1, <1>4, PartitionTypes DEF Partition
  <2>4. /\ p2 = [j \in DOMAIN p |-> p2[j]]
        /\ \A j \in DOMAIN p : j # i => p2[j] = p[j]
        /\ p2[i] = [p[i] EXCEPT !.marked_size = @ + o.size]
    BY <1>4
  <2>5. p2[i] \in Partition /\ p2[i].marked_size = p[i].marked_size + o.size
    BY <1>5, <2>3, <2>4 DEF Partition
  <2>6. \A j \in DOMAIN p : p[j] \in Partition /\ p[j] = [p[j] EXCEPT !.marked_size = p[j].marked_size]
    BY <1>1, PartitionTypes DEF Partition
  <2> HIDE DEF p2
  <2>7. Marked(p, p2)
    BY <1>4, <2>4, <2>5, <2>6 DEF Marked
  <2>8. \A q \in all : IsLarge(q) => \A j \in PartitionRange(q) : p2[j].marked_size = p[j].marked_size
    <3> SUFFICES ASSUME NEW q \in all, IsLarge(q), NEW j \in PartitionRange(q)
                 PROVE  p2[j].marked_size = p[j].marked_size
      OBVIOUS
    <3>1. q \in HeapObject /\ LargeOK(p, q)
      BY <1>1 DEF ObjectsOK
    <3>2. j \in DOMAIN p /\ p[j].large_content
      BY <3>1 DEF LargeOK
    <3>3. j # i
      BY <1>3, <1>4, <1>7, <3>2
    <3> QED BY <2>4, <3>2, <3>3
  <2> QED BY <1>6, <2>2, <2>7, <2>8 DEF g
<1>8. CASE IsLarge(o)
  <2> DEFINE last == Max(PartitionRange(o))
             p2 == [j \in DOMAIN p |->
                      IF j \notin PartitionRange(o) THEN p[j]
                      ELSE [p[j] EXCEPT !.marked_size =
                              IF j = last THEN o.size % PARTITION_SIZE ELSE PARTITION_SIZE]]
  <2>1. g = [h EXCEPT !.partitions = p2]
    BY <1>8 DEF mark_object, mark_large_object
  <2> DEFINE M(j) == IF j = last THEN o.size % PARTITION_SIZE ELSE PARTITION_SIZE
  <2>2. /\ DOMAIN p2 = DOMAIN p /\ p2 = [j \in DOMAIN p |-> p2[j]]
        /\ \A j \in DOMAIN p : j \notin PartitionRange(o) => p2[j] = p[j]
        /\ \A j \in DOMAIN p : j \in PartitionRange(o) => p2[j] = [p[j] EXCEPT !.marked_size = M(j)]
    OBVIOUS
  <2> HIDE DEF p, g, i, p2
  <2>3. /\ IsHeap(g) /\ g.partitions = p2 /\ g.memory = h.memory
        /\ g.allocation_index = h.allocation_index /\ g.gc_running = h.gc_running
        /\ g.bitmap_allocation_pointer = h.bitmap_allocation_pointer
    BY <1>1, <2>1 DEF IsHeap, p
  <2>4. \A j : M(j) \in Nat
    <3>1. o.size % PARTITION_SIZE \in Nat
      BY <1>5
    <3> QED BY <1>5, <3>1
  <2>5. last # i
    <3>1. i + partitions_length(o.size) - 1 \in PartitionRange(o) /\ PartitionRange(o) \subseteq Int
          /\ \A j \in PartitionRange(o) : j <= i + partitions_length(o.size) - 1
      BY <1>3
    <3>2. last = i + partitions_length(o.size) - 1
      BY <3>1 DEF Max
    <3> QED BY <1>3, <1>8, <3>2
  <2>6. M(i) # 0
    BY <1>5, <2>5
  <2> HIDE DEF M, last
  <2>7. Marked(p, p2)
    <3>1. \A j \in DOMAIN p : j \in PartitionRange(o) =>
            p2[j] \in Partition /\ p2[j].marked_size = M(j)
            /\ p2[j] = [p[j] EXCEPT !.marked_size = p2[j].marked_size]
      BY <1>1, <2>2, <2>4, PartitionTypes, MarkedPartition
    <3>2. \A j \in DOMAIN p : p[j] \in Partition /\ p[j] = [p[j] EXCEPT !.marked_size = p[j].marked_size]
      BY <1>1, PartitionTypes DEF Partition
    <3> QED BY <1>3, <2>2, <3>1, <3>2 DEF Marked
  <2>8. p2[i].marked_size # 0
    BY <1>1, <1>4, <2>2, <2>4, <2>6, PartitionTypes, MarkedPartition
  <2>9. \A q \in all : IsLarge(q) =>
               \/ \A j \in PartitionRange(q) : p2[j].marked_size = p[j].marked_size
               \/ p2[index_of(q.at)].marked_size # 0
    <3> SUFFICES ASSUME NEW q \in all, IsLarge(q), q # o
                 PROVE  \A j \in PartitionRange(q) : p2[j].marked_size = p[j].marked_size
      BY <2>8 DEF i
    <3> SUFFICES ASSUME NEW j \in PartitionRange(q) PROVE p2[j].marked_size = p[j].marked_size
      OBVIOUS
    <3>1. j \notin PartitionRange(o)
      BY <1>1, <1>8, LargeAlone
    <3>2. j \in DOMAIN p
      BY <1>1 DEF ObjectsOK, LargeOK
    <3> QED BY <2>2, <3>1, <3>2
  <2> QED BY <1>6, <2>3, <2>7, <2>9 DEF g
<1> QED BY <1>7, <1>8 DEF g

-----------------------------------------------------------------------------
(* The collector *)

\* Partitions keep their use and their sizes.
SameUse(q, r) ==
  /\ r.free = q.free /\ r.temporary = q.temporary /\ r.large_content = q.large_content
  /\ r.static_size = q.static_size /\ r.dynamic_size = q.dynamic_size
  /\ r.marked_size = q.marked_size /\ r.bitmap = q.bitmap

\* Partitions are planned for the evacuation or for the update.
Planned(p, p2, index) ==
  /\ p2 = [j \in DOMAIN p |-> p2[j]]
  /\ \A j \in DOMAIN p :
       /\ p2[j] \in Partition /\ SameUse(p[j], p2[j])
       /\ p2[j].update => p[j].update \/ ~p[j].free
       /\ p2[j].evacuate => \/ p[j].evacuate
                            \/ ~p[j].free /\ ~p[j].temporary /\ ~p[j].large_content /\ j # index

LEMMA PartitionsPlanned ==
    ASSUME NEW h, NEW all, NEW todo, HeapOK(h, all, todo),
           NEW g, IsHeap(g), Planned(h.partitions, g.partitions, h.allocation_index),
           g.allocation_index = h.allocation_index,
           g.gc_running = h.gc_running, g.memory = h.memory,
           g.bitmap_allocation_pointer = h.bitmap_allocation_pointer
    PROVE  HeapOK(g, all, todo)
<1> DEFINE p == h.partitions
           p2 == g.partitions
<1>1. /\ PartitionsOK(p, h.gc_running, h.memory) /\ AllocationOK(p, h.allocation_index)
      /\ ObjectsOK(p, h.memory, all) /\ h.memory \in Nat /\ h.gc_running \in BOOLEAN
      /\ BitmapsOK(p, h.bitmap_allocation_pointer, h.gc_running, todo)
  BY DEF HeapOK, PartitionsOK
<1>2. Planned(p, p2, h.allocation_index)
  OBVIOUS
<1> HIDE DEF p, p2
<1>3. DOMAIN p2 = DOMAIN p /\ h.memory >= h.memory
  BY <1>1, <1>2 DEF Planned
<1>4. \A j \in DOMAIN p : PartitionOK(p2[j], j, h.gc_running, h.memory)
  <2> SUFFICES ASSUME NEW j \in DOMAIN p PROVE PartitionOK(p2[j], j, h.gc_running, h.memory)
    OBVIOUS
  <2>1. PartitionOK(p[j], j, h.gc_running, h.memory)
    BY <1>1 DEF PartitionsOK
  <2> QED BY <1>2, <2>1 DEF PartitionOK, Planned, SameUse
<1>5. Changed(p, p2, h.gc_running, h.memory)
  <2>1. p2[0].static_size = p[0].static_size
    BY <1>1, <1>2, PartitionTypes DEF Planned, SameUse
  <2> QED BY <1>2, <1>4, <2>1 DEF Changed, Planned
<1>6. PartitionsOK(p2, h.gc_running, h.memory)
  BY <1>1, <1>3, <1>5, PartitionsChanged
<1>7. ObjectsOK(p2, h.memory, all)
  <2>1. \A j \in DOMAIN p : Keeps(p[j], p2[j])
    <3> SUFFICES ASSUME NEW j \in DOMAIN p PROVE Keeps(p[j], p2[j])
      OBVIOUS
    <3>1. p[j].dynamic_size \in Nat
      BY <1>1, PartitionTypes DEF Partition
    <3>2. p[j].dynamic_size >= p[j].dynamic_size
      BY <3>1
    <3> QED BY <1>2, <3>2 DEF Keeps, KeepsPlace, Planned, SameUse
  <2> QED BY <1>1, <1>3, <1>6, <2>1, ObjectsKept
<1>8. AllocationOK(p2, h.allocation_index)
  BY <1>1, <1>2, <1>3 DEF AllocationOK, Planned, SameUse
<1>9. BitmapsOK(p2, h.bitmap_allocation_pointer, h.gc_running, todo)
  <2>1. BitmapsKept(p, p2, 0, NoBitmap)
    BY <1>2, <1>3 DEF BitmapsKept, Planned, SameUse
  <2>2. h.gc_running => Covered(p2, todo)
    <3>1. h.gc_running => Covered(p, todo)
      BY <1>1 DEF Covered, BitmapsOK
    <3>2. \A j \in DOMAIN p : /\ has_dynamic_space(p2[j]) <=> has_dynamic_space(p[j])
                              /\ p2[j].large_content = p[j].large_content /\ p2[j].bitmap = p[j].bitmap
      BY <1>2 DEF has_dynamic_space, Planned, SameUse
    <3> QED BY <1>3, <3>1, <3>2 DEF Covered
  <2> QED BY <1>1, <2>1, <2>2, BitmapsChanged
<1> QED BY <1>6, <1>7, <1>8, <1>9 DEF HeapOK, p2

LEMMA EvacuationsPlanned ==
    ASSUME NEW h, NEW all, NEW todo, HeapOK(h, all, todo), NEW n, NEW g \in plan_evacuations(h, n)
    PROVE  HeapOK(g, all, todo) /\ g.gc_running = h.gc_running
<1> DEFINE p == h.partitions
           candidates == {i \in DOMAIN p : i # h.allocation_index /\ is_evacuation_candidate(p[i])}
           P2(chosen) == [i \in DOMAIN p |-> [p[i] EXCEPT !.evacuate = @ \/ i \in chosen]]
<1>1. PICK chosen \in SUBSET candidates :
        g = [h EXCEPT !.evacuating = @ \/ chosen # {}, !.partitions = P2(chosen)]
  BY DEF plan_evacuations
<1> DEFINE p2 == P2(chosen)
<1>2. IsHeap(h) /\ PartitionsOK(p, h.gc_running, h.memory)
  BY DEF HeapOK
<1>3. /\ p2 = [j \in DOMAIN p |-> p2[j]] /\ DOMAIN p2 = DOMAIN p
      /\ \A j \in DOMAIN p : p2[j] = [p[j] EXCEPT !.evacuate = @ \/ j \in chosen]
  OBVIOUS
<1>4. \A j \in chosen : j # h.allocation_index /\ is_evacuation_candidate(p[j])
  OBVIOUS
<1>5. g = [h EXCEPT !.evacuating = @ \/ chosen # {}, !.partitions = p2]
  BY <1>1
<1> HIDE DEF p, P2, candidates, p2
<1>6. /\ IsHeap(g) /\ g.partitions = p2 /\ g.memory = h.memory
      /\ g.allocation_index = h.allocation_index /\ g.gc_running = h.gc_running
      /\ g.bitmap_allocation_pointer = h.bitmap_allocation_pointer
  BY <1>2, <1>5 DEF IsHeap
<1>7. ASSUME NEW j \in DOMAIN p
      PROVE  /\ p2[j] \in Partition /\ SameUse(p[j], p2[j]) /\ p2[j].update = p[j].update
             /\ p2[j].evacuate => p[j].evacuate \/ j \in chosen
  <2>1. p[j] \in Partition
    BY <1>2, PartitionTypes
  <2>2. PICK e \in BOOLEAN : p2[j] = [p[j] EXCEPT !.evacuate = e] /\ (e => p[j].evacuate \/ j \in chosen)
    BY <1>3, Zenon
  <2> QED BY <2>1, <2>2 DEF Partition, SameUse
<1>8. \A j \in chosen : j \in DOMAIN p => ~p[j].free /\ ~p[j].temporary /\ ~p[j].large_content
  <2> SUFFICES ASSUME NEW j \in chosen, j \in DOMAIN p
               PROVE  ~p[j].free /\ ~p[j].temporary /\ ~p[j].large_content
    OBVIOUS
  <2>1. ~p[j].free /\ ~p[j].large_content /\ p[j].dynamic_size > 0
    BY <1>4 DEF is_evacuation_candidate
  <2>2. p[j].temporary => p[j].dynamic_size = 0
    BY <1>2 DEF PartitionsOK, PartitionOK
  <2> QED BY <2>1, <2>2
<1>9. Planned(p, p2, h.allocation_index)
  BY <1>3, <1>4, <1>7, <1>8 DEF Planned
<1> QED BY <1>6, <1>9, PartitionsPlanned DEF p

LEMMA UpdatesPlanned ==
    ASSUME NEW h, NEW all, NEW todo, HeapOK(h, all, todo)
    PROVE  HeapOK(plan_updates(h), all, todo) /\ plan_updates(h).gc_running = h.gc_running
<1> DEFINE p == h.partitions
           g == plan_updates(h)
           p2 == [i \in DOMAIN p |-> [p[i] EXCEPT !.update = ~p[i].free /\ ~p[i].evacuate]]
<1>1. g = [h EXCEPT !.partitions = p2]
  BY DEF plan_updates
<1>2. IsHeap(h) /\ PartitionsOK(p, h.gc_running, h.memory)
  BY DEF HeapOK
<1>3. /\ p2 = [j \in DOMAIN p |-> p2[j]] /\ DOMAIN p2 = DOMAIN p
      /\ \A j \in DOMAIN p : p2[j] = [p[j] EXCEPT !.update = ~p[j].free /\ ~p[j].evacuate]
  OBVIOUS
<1> HIDE DEF p, g, p2
<1>4. /\ IsHeap(g) /\ g.partitions = p2 /\ g.memory = h.memory
      /\ g.allocation_index = h.allocation_index /\ g.gc_running = h.gc_running
      /\ g.bitmap_allocation_pointer = h.bitmap_allocation_pointer
  BY <1>1, <1>2 DEF IsHeap
<1>5. ASSUME NEW j \in DOMAIN p
      PROVE  /\ p2[j] \in Partition /\ SameUse(p[j], p2[j]) /\ p2[j].evacuate = p[j].evacuate
             /\ p2[j].update => ~p[j].free
  <2>1. p[j] \in Partition
    BY <1>2, PartitionTypes
  <2>2. PICK u \in BOOLEAN : p2[j] = [p[j] EXCEPT !.update = u] /\ (u => ~p[j].free)
    BY <1>3, Zenon
  <2> QED BY <2>1, <2>2 DEF Partition, SameUse
<1>6. Planned(p, p2, h.allocation_index)
  BY <1>3, <1>5 DEF Planned
<1>7. HeapOK(g, all, todo)
  BY <1>4, <1>6, PartitionsPlanned DEF p
<1> QED BY <1>4, <1>7 DEF g

\* A partition without marks becomes free.
LEMMA FreedPartition ==
    ASSUME NEW q \in Partition, q.marked_size = 0, ~q.update, NEW i, NEW running, NEW memory
    PROVE  /\ Freed(q) \in Partition /\ PartitionOK(Freed(q), i, running, memory)
           /\ Freed(q).free /\ ~Freed(q).temporary /\ ~Freed(q).large_content
           /\ Freed(q).bitmap = q.bitmap /\ Freed(q).static_size = q.static_size
<1> DEFINE r == Freed(q)
<1>1. /\ r \in Partition /\ r.free /\ ~r.temporary /\ ~r.large_content /\ ~r.evacuate /\ ~r.update
      /\ r.bitmap = q.bitmap /\ r.static_size = q.static_size /\ r.dynamic_size = 0
      /\ r.marked_size = 0
  BY DEF Freed, Partition
<1> HIDE DEF r
<1>2. r.static_size \in 0 .. PARTITION_SIZE
  BY <1>1 DEF Partition
<1>3. r.static_size + r.dynamic_size <= PARTITION_SIZE
  <2> DEFINE s == r.static_size
  <2> HIDE DEF s
  <2>1. s \in 0 .. PARTITION_SIZE
    BY <1>2 DEF s
  <2>2. s + 0 <= PARTITION_SIZE
    BY <2>1, SizesAreNumbers
  <2> QED BY <1>1, <2>2 DEF s
<1>4. PartitionOK(r, i, running, memory)
  BY <1>1, <1>3 DEF PartitionOK
<1> QED BY <1>1, <1>4 DEF r

\* Large objects without marks leave their partitions, in which nothing else is.
LEMMA LargeObjectsFreed ==
    ASSUME NEW h, NEW all, NEW todo, HeapOK(h, all, todo), NEW dead \in SUBSET all,
           \A o \in dead : IsLarge(o) /\ ~is_object_marked(h, o)
    PROVE  /\ HeapOK(free_large_objects(h, dead), all \ dead, todo)
           /\ free_large_objects(h, dead).gc_running = h.gc_running
<1> DEFINE p == h.partitions
           g == free_large_objects(h, dead)
           freed == UNION {PartitionRange(o) : o \in dead}
           size(i) == h.partitions[i].dynamic_size
           U(i) == [p[i] EXCEPT !.update = FALSE]
           p2 == [i \in DOMAIN p |-> IF i \in freed THEN Freed([p[i] EXCEPT !.update = FALSE]) ELSE p[i]]
<1>1. g = [h EXCEPT !.free_partitions = @ + Cardinality(freed),
                    !.reclaimed = @ + Total(size, freed),
                    !.precomputed_heap_size = @ - Total(size, freed),
                    !.partitions = p2]
  BY DEF free_large_objects
<1>2. /\ PartitionsOK(p, h.gc_running, h.memory) /\ AllocationOK(p, h.allocation_index)
      /\ ObjectsOK(p, h.memory, all) /\ h.memory \in Nat /\ h.gc_running \in BOOLEAN /\ IsHeap(h)
      /\ BitmapsOK(p, h.bitmap_allocation_pointer, h.gc_running, todo)
  BY DEF HeapOK, PartitionsOK
<1>3. /\ p2 = [j \in DOMAIN p |-> p2[j]] /\ DOMAIN p2 = DOMAIN p
      /\ \A j \in DOMAIN p : j \notin freed => p2[j] = p[j]
      /\ \A j \in DOMAIN p : j \in freed => p2[j] = Freed(U(j))
  OBVIOUS
<1>4. ASSUME NEW j \in freed
      PROVE  /\ j \in DOMAIN p /\ p[j].large_content /\ ~p[j].free /\ p[j].marked_size = 0
             /\ p[j] \in Partition /\ ~p[j].temporary
  <2>1. PICK o \in dead : j \in PartitionRange(o)
    OBVIOUS
  <2>2. o \in HeapObject /\ LargeOK(p, o) /\ IsLarge(o) /\ ~is_object_marked(h, o)
    BY <1>2 DEF ObjectsOK
  <2>3. index_of(o.at) \in PartitionRange(o)
    <3>1. /\ index_of(o.at) \in Nat /\ partitions_length(o.size) \in Nat \ {0}
          /\ PartitionRange(o) = index_of(o.at) .. index_of(o.at) + partitions_length(o.size) - 1
      BY <1>2, <2>2, ObjectPlace
    <3> QED BY <3>1
  <2>4. index_of(o.at) \in DOMAIN p /\ ~(p[index_of(o.at)].marked_size > 0)
    BY <2>2, <2>3 DEF LargeOK, is_object_marked
  <2>5. p[index_of(o.at)].marked_size \in Nat
    BY <1>2, <2>4, PartitionTypes DEF Partition
  <2>6. p[index_of(o.at)].marked_size = 0
    BY <2>4, <2>5
  <2>7. j \in DOMAIN p /\ p[j].large_content /\ ~p[j].free /\ p[j].marked_size = 0
    BY <2>1, <2>2, <2>6 DEF LargeOK
  <2>8. p[j] \in Partition /\ ~p[j].temporary
    BY <1>2, <2>7, PartitionTypes DEF PartitionsOK, PartitionOK
  <2> QED BY <2>7, <2>8
<1>5. ASSUME NEW o \in all \ dead, NEW j \in PartitionRange(o) PROVE j \notin freed /\ j \in DOMAIN p
  <2>1. o \in HeapObject /\ IF IsLarge(o) THEN LargeOK(p, o) ELSE SmallOK(p, o)
    BY <1>2 DEF ObjectsOK
  <2>2. ASSUME NEW q \in dead, j \in PartitionRange(q) PROVE FALSE
    <3>1. q = o
      BY <1>2, <2>2, LargeAlone
    <3> QED BY <3>1
  <2>3. j \in DOMAIN p
    BY <1>2, <2>1, ObjectPlace
  <2> QED BY <2>2, <2>3
<1> HIDE DEF p, g, freed, size, p2
<1>6. /\ IsHeap(g) /\ g.partitions = p2 /\ g.memory = h.memory
      /\ g.allocation_index = h.allocation_index /\ g.gc_running = h.gc_running
      /\ g.bitmap_allocation_pointer = h.bitmap_allocation_pointer
  <2> DEFINE a == h.free_partitions + Cardinality(freed)
             b == h.reclaimed + Total(size, freed)
             c == h.precomputed_heap_size - Total(size, freed)
  <2>1. g = [h EXCEPT !.free_partitions = a, !.reclaimed = b, !.precomputed_heap_size = c, !.partitions = p2]
    BY <1>1, <1>2 DEF IsHeap
  <2> HIDE DEF a, b, c
  <2> QED BY <1>2, <2>1 DEF IsHeap
<1>7. ASSUME NEW j \in freed
      PROVE  /\ j \in DOMAIN p /\ p2[j] \in Partition /\ PartitionOK(p2[j], j, h.gc_running, h.memory)
             /\ p2[j].free /\ ~p2[j].temporary /\ p2[j].bitmap = p[j].bitmap
             /\ p2[j].static_size = p[j].static_size
  <2>1. p[j] \in Partition /\ p[j].marked_size = 0 /\ j \in DOMAIN p
    BY <1>4
  <2>2. U(j) \in Partition /\ U(j).marked_size = 0 /\ ~U(j).update /\ U(j).bitmap = p[j].bitmap
        /\ U(j).static_size = p[j].static_size
    BY <2>1 DEF Partition
  <2>3. p2[j] = Freed(U(j))
    BY <1>3, <2>1
  <2> HIDE DEF U
  <2> QED BY <2>1, <2>2, <2>3, FreedPartition
<1> HIDE DEF U
<1>8. PartitionsOK(p2, h.gc_running, h.memory)
  <2>1. p2[0].static_size = p[0].static_size
    BY <1>2, <1>3, <1>7, PartitionTypes
  <2>2. Changed(p, p2, h.gc_running, h.memory)
    BY <1>3, <1>7, <2>1 DEF Changed
  <2>3. h.memory >= h.memory
    BY <1>2
  <2> QED BY <1>2, <2>2, <2>3, PartitionsChanged
<1>9. ObjectsOK(p2, h.memory, all \ dead)
  <2>1. \A j \in DOMAIN p : j \notin freed => KeepsPlace(p[j], p2[j]) /\ p2[j].marked_size = p[j].marked_size
    <3> SUFFICES ASSUME NEW j \in DOMAIN p, j \notin freed
                 PROVE  KeepsPlace(p[j], p2[j]) /\ p2[j].marked_size = p[j].marked_size
      OBVIOUS
    <3>1. p2[j] = p[j] /\ p[j].dynamic_size \in Nat
      BY <1>2, <1>3, PartitionTypes DEF Partition
    <3>2. p[j].dynamic_size >= p[j].dynamic_size
      BY <3>1
    <3> QED BY <3>1, <3>2 DEF KeepsPlace
  <2>2. h.memory >= h.memory
    BY <1>2
  <2>3. /\ \A o \in all \ dead : \A j \in PartitionRange(o) : j \in DOMAIN p2 /\ KeepsPlace(p[j], p2[j])
        /\ \A o \in all \ dead : \A j \in PartitionRange(o) : p2[j].marked_size = p[j].marked_size
    BY <1>3, <1>5, <2>1
  <2> QED BY <1>2, <1>8, <2>2, <2>3, ObjectsStay
<1>10. AllocationOK(p2, h.allocation_index)
  <2>1. h.allocation_index \notin freed
    BY <1>2, <1>4 DEF AllocationOK
  <2> QED BY <1>2, <1>3, <2>1 DEF AllocationOK
<1>11. BitmapsOK(p2, h.bitmap_allocation_pointer, h.gc_running, todo)
  <2>1. BitmapsKept(p, p2, 0, NoBitmap)
    BY <1>3, <1>4, <1>7 DEF BitmapsKept
  <2>2. h.gc_running => Covered(p2, todo)
    <3>1. h.gc_running => Covered(p, todo)
      BY <1>2 DEF Covered, BitmapsOK
    <3> QED BY <1>3, <1>7, <3>1 DEF Covered, has_dynamic_space
  <2> QED BY <1>2, <2>1, <2>2, BitmapsChanged
<1>12. HeapOK(g, all \ dead, todo)
  BY <1>6, <1>8, <1>9, <1>10, <1>11 DEF HeapOK
<1> QED BY <1>6, <1>12 DEF g

\* A collection ends: what was evacuated and what is temporary becomes free.
LEMMA CollectionCompleted ==
    ASSUME NEW h, NEW all, NEW todo, HeapOK(h, all, todo), NEW todo2,
           NEW new, new = {o \in all : ~h.partitions[index_of(o.at)].evacuate}
    PROVE  HeapOK(complete_collection(h), new, todo2) /\ complete_collection(h).gc_running = FALSE
<1> DEFINE p == h.partitions
           g == complete_collection(h)
           evacuated == {i \in DOMAIN p : p[i].evacuate}
           released == {i \in DOMAIN p : p[i].evacuate \/ p[i].temporary}
           size(i) == p[i].dynamic_size
           garbage(i) == p[i].dynamic_size - p[i].marked_size
           Cleared(i) == [p[i] EXCEPT !.update = FALSE, !.marked_size = 0, !.bitmap = NoBitmap]
           p2 == [i \in DOMAIN p |-> IF i \in released THEN Freed(Cleared(i)) ELSE Cleared(i)]
<1>1. g = [h EXCEPT !.reclaimed = @ + Total(garbage, evacuated),
                    !.precomputed_heap_size = @ - Total(size, released),
                    !.free_partitions = @ + Cardinality(released),
                    !.partitions = p2,
                    !.evacuating = FALSE, !.evacuated_size = 0,
                    !.bitmap_allocation_pointer = 0, !.gc_running = FALSE]
  BY DEF complete_collection
<1>2. /\ PartitionsOK(p, h.gc_running, h.memory) /\ AllocationOK(p, h.allocation_index)
      /\ ObjectsOK(p, h.memory, all) /\ h.memory \in Nat /\ IsHeap(h)
  BY DEF HeapOK, PartitionsOK
<1>3. /\ p2 = [j \in DOMAIN p |-> p2[j]] /\ DOMAIN p2 = DOMAIN p
      /\ \A j \in DOMAIN p : p2[j] = IF p[j].evacuate \/ p[j].temporary THEN Freed(Cleared(j)) ELSE Cleared(j)
  OBVIOUS
<1>4. new = {o \in all : ~p[index_of(o.at)].evacuate}
  OBVIOUS
<1> HIDE DEF p, g, evacuated, released, size, garbage, p2
<1>5. /\ IsHeap(g) /\ g.partitions = p2 /\ g.memory = h.memory
      /\ g.allocation_index = h.allocation_index /\ g.gc_running = FALSE
      /\ g.bitmap_allocation_pointer = 0
  <2> DEFINE a == h.free_partitions + Cardinality(released)
             b == h.reclaimed + Total(garbage, evacuated)
             c == h.precomputed_heap_size - Total(size, released)
  <2>1. g = [h EXCEPT !.reclaimed = b, !.precomputed_heap_size = c, !.free_partitions = a, !.partitions = p2,
                    !.evacuating = FALSE, !.evacuated_size = 0,
                    !.bitmap_allocation_pointer = 0, !.gc_running = FALSE]
    BY <1>1, <1>2 DEF IsHeap
  <2> HIDE DEF a, b, c
  <2> QED BY <1>2, <2>1 DEF IsHeap
<1>6. ASSUME NEW j \in DOMAIN p
      PROVE  /\ Cleared(j) \in Partition /\ Cleared(j).marked_size = 0 /\ ~Cleared(j).update
             /\ Cleared(j).bitmap = NoBitmap /\ Cleared(j).static_size = p[j].static_size
             /\ Cleared(j).free = p[j].free /\ Cleared(j).temporary = p[j].temporary
             /\ Cleared(j).large_content = p[j].large_content /\ Cleared(j).evacuate = p[j].evacuate
             /\ Cleared(j).dynamic_size = p[j].dynamic_size
  <2>1. p[j] \in Partition
    BY <1>2, PartitionTypes
  <2> QED BY <2>1 DEF Partition, NoBitmap
<1> HIDE DEF Cleared
<1>7. ASSUME NEW j \in DOMAIN p
      PROVE  /\ p2[j] \in Partition /\ PartitionOK(p2[j], j, FALSE, h.memory)
             /\ p2[j].static_size = p[j].static_size /\ p2[j].bitmap = NoBitmap /\ p2[j].marked_size = 0
  <2>1. PartitionOK(p[j], j, h.gc_running, h.memory)
    BY <1>2 DEF PartitionsOK
  <2>2. CASE p[j].evacuate \/ p[j].temporary
    <3>1. p2[j] = Freed(Cleared(j))
      BY <1>3, <2>2
    <3>2. /\ p2[j] \in Partition /\ PartitionOK(p2[j], j, FALSE, h.memory) /\ p2[j].free
          /\ p2[j].static_size = p[j].static_size /\ p2[j].bitmap = NoBitmap
      <4> DEFINE c == Cleared(j)
      <4>1. /\ c \in Partition /\ c.marked_size = 0 /\ ~c.update /\ p2[j] = Freed(c)
            /\ c.bitmap = NoBitmap /\ c.static_size = p[j].static_size
        BY <1>6, <3>1
      <4> HIDE DEF c
      <4>2. /\ Freed(c) \in Partition /\ PartitionOK(Freed(c), j, FALSE, h.memory)
            /\ Freed(c).free /\ Freed(c).bitmap = c.bitmap /\ Freed(c).static_size = c.static_size
        BY <4>1, FreedPartition
      <4> QED BY <4>1, <4>2
    <3> QED BY <3>2 DEF PartitionOK
  <2>3. CASE ~(p[j].evacuate \/ p[j].temporary)
    <3>1. p2[j] = Cleared(j)
      BY <1>3, <2>3
    <3>2. PartitionOK(Cleared(j), j, FALSE, h.memory)
      BY <1>6, <2>1, <2>3 DEF PartitionOK
    <3> QED BY <1>6, <3>1, <3>2
  <2> QED BY <2>2, <2>3
<1>8. PartitionsOK(p2, FALSE, h.memory)
  <2>1. p2[0].static_size = p[0].static_size
    BY <1>2, <1>7, PartitionTypes
  <2> QED BY <1>2, <1>3, <1>7, <2>1, PartitionsRenewed
<1>9. ObjectsOK(p2, h.memory, new)
  <2>1. ASSUME NEW o \in new, NEW j \in PartitionRange(o)
        PROVE  j \in DOMAIN p2 /\ KeepsPlace(p[j], p2[j]) /\ p2[j].marked_size = 0
    <3>1. o \in all /\ ~p[index_of(o.at)].evacuate
      BY <1>4
    <3>2. o \in HeapObject /\ IF IsLarge(o) THEN LargeOK(p, o) ELSE SmallOK(p, o)
      BY <1>2, <3>1 DEF ObjectsOK
    <3>3. /\ index_of(o.at) \in Nat /\ partitions_length(o.size) \in Nat
          /\ PartitionRange(o) = index_of(o.at) .. index_of(o.at) + partitions_length(o.size) - 1
          /\ ~IsLarge(o) => partitions_length(o.size) = 1
          /\ j \in DOMAIN p /\ ~p[j].free /\ ~p[j].temporary /\ (p[j].large_content <=> IsLarge(o))
      BY <1>2, <3>2, ObjectPlace
    <3>4. ~p[j].evacuate
      <4>1. CASE IsLarge(o)
        BY <1>2, <3>3, <4>1 DEF PartitionsOK, PartitionOK
      <4>2. CASE ~IsLarge(o)
        <5>1. j = index_of(o.at)
          BY <3>3, <4>2
        <5> QED BY <3>1, <5>1
      <4> QED BY <4>1, <4>2
    <3>5. p2[j] = Cleared(j)
      BY <1>3, <3>3, <3>4
    <3>6. p[j].dynamic_size \in Nat
      BY <1>2, <3>3, PartitionTypes DEF Partition
    <3>7. p[j].dynamic_size >= p[j].dynamic_size
      BY <3>6
    <3> QED BY <1>3, <1>6, <3>3, <3>5, <3>7 DEF KeepsPlace
  <2>2. h.memory >= h.memory /\ new \in SUBSET all
    BY <1>2, <1>4
  <2>3. /\ \A o \in new : \A j \in PartitionRange(o) : j \in DOMAIN p2 /\ KeepsPlace(p[j], p2[j])
        /\ \A o \in new : \A j \in PartitionRange(o) : p2[j].marked_size = 0
    BY <2>1
  <2> QED BY <1>2, <1>8, <2>2, <2>3, ObjectsStay
<1>10. AllocationOK(p2, h.allocation_index)
  BY <1>2, <1>3, <1>6 DEF AllocationOK
<1>11. BitmapsOK(p2, 0, FALSE, todo2)
  <2>1. Aligned(0)
    <3>1. 0 = 0 * BITMAP_SIZE
      BY SizesAreNumbers
    <3> QED BY <3>1 DEF Aligned
  <2>2. 0 % PARTITION_SIZE = 0
    BY SizesAreNumbers
  <2>3. \A j \in DOMAIN p2 : p2[j].bitmap = NoBitmap
    BY <1>3, <1>7
  <2> QED BY <2>1, <2>2, <2>3 DEF BitmapsOK
<1>12. HeapOK(g, new, todo2)
  BY <1>5, <1>8, <1>9, <1>10, <1>11 DEF HeapOK
<1> QED BY <1>5, <1>12 DEF g

\* Partitions that differ in their bitmaps.
SameBut(q, r) ==
  /\ r.free = q.free /\ r.temporary = q.temporary /\ r.large_content = q.large_content
  /\ r.evacuate = q.evacuate /\ r.update = q.update
  /\ r.static_size = q.static_size /\ r.dynamic_size = q.dynamic_size
  /\ r.marked_size = q.marked_size

\* A partition is given its bitmap.
LEMMA BitmapAssigned ==
    ASSUME NEW h, NEW all, NEW todo, HeapOK(h, all, todo), h.gc_running = TRUE,
           NEW i \in DOMAIN h.partitions, NEW g \in assign_bitmap(h, i)
    PROVE  /\ HeapOK(g, all, todo \ {i}) /\ g.gc_running = TRUE
           /\ \A j \in DOMAIN h.partitions : j \in DOMAIN g.partitions
<1>1. CASE ~(has_dynamic_space(h.partitions[i]) /\ ~h.partitions[i].large_content)
  <2>1. g = h
    BY <1>1 DEF assign_bitmap
  <2>2. BitmapsOK(h.partitions, h.bitmap_allocation_pointer, h.gc_running, todo)
    BY DEF HeapOK
  <2>3. BitmapsOK(h.partitions, h.bitmap_allocation_pointer, h.gc_running, todo \ {i})
    BY <1>1, <2>2 DEF BitmapsOK
  <2> QED BY <2>1, <2>3 DEF HeapOK
<1>2. CASE has_dynamic_space(h.partitions[i]) /\ ~h.partitions[i].large_content
  <2>1. PICK a \in allocate_bitmap(h) : g = [a.heap EXCEPT !.partitions[i].bitmap = a.bitmap]
    BY <1>2 DEF assign_bitmap
  <2> DEFINE k == a.heap
             b == a.bitmap
             p == k.partitions
             p2 == [p EXCEPT ![i].bitmap = b]
  <2>2. /\ Extends(h, k) /\ HeapOK(k, all, todo)
        /\ Fresh(p, k.bitmap_allocation_pointer, b)
    BY BitmapAllocated
  <2>3. /\ PartitionsOK(p, k.gc_running, k.memory) /\ AllocationOK(p, k.allocation_index)
        /\ ObjectsOK(p, k.memory, all) /\ k.memory \in Nat /\ IsHeap(k) /\ k.gc_running \in BOOLEAN
        /\ BitmapsOK(p, k.bitmap_allocation_pointer, k.gc_running, todo) /\ k.gc_running = TRUE
        /\ \A j \in DOMAIN h.partitions : j \in DOMAIN p
    BY <2>2 DEF HeapOK, PartitionsOK, Extends
  <2>4. g = [k EXCEPT !.partitions[i].bitmap = b] /\ i \in DOMAIN p
    BY <2>1, <2>3
  <2> HIDE DEF k, b
  <2>5. /\ IsHeap(g) /\ g.partitions = p2 /\ g.memory = k.memory
        /\ g.allocation_index = k.allocation_index /\ g.gc_running = k.gc_running
        /\ g.bitmap_allocation_pointer = k.bitmap_allocation_pointer
    BY <2>3, <2>4 DEF IsHeap
  <2>6. b \in Nat /\ b # NoBitmap
    BY <2>2, AlignedIsAddress DEF Fresh
  <2>7. p[i] \in Partition /\ PartitionOK(p[i], i, k.gc_running, k.memory)
    BY <2>3, <2>4, PartitionTypes DEF PartitionsOK
  <2> HIDE DEF p
  <2>8. /\ p2 = [j \in DOMAIN p |-> p2[j]] /\ DOMAIN p2 = DOMAIN p
        /\ \A j \in DOMAIN p : j # i => p2[j] = p[j]
        /\ p2[i] = [p[i] EXCEPT !.bitmap = b]
    BY <2>4
  <2>9. /\ p2[i] \in Partition /\ SameBut(p[i], p2[i]) /\ p2[i].bitmap = b
    BY <2>6, <2>7, <2>8 DEF Partition, SameBut
  <2> HIDE DEF p2
  <2>10. PartitionOK(p2[i], i, k.gc_running, k.memory)
    BY <2>7, <2>9 DEF PartitionOK, SameBut
  <2>11. k.memory >= k.memory
    BY <2>3
  <2>12. PartitionsOK(p2, k.gc_running, k.memory)
    <3>1. p2[0].static_size = p[0].static_size
      BY <2>3, <2>8, <2>9, PartitionTypes DEF SameBut
    <3>2. Changed(p, p2, k.gc_running, k.memory)
      BY <2>8, <2>9, <2>10, <3>1 DEF Changed
    <3> QED BY <2>3, <2>11, <3>2, PartitionsChanged
  <2>13. ObjectsOK(p2, k.memory, all)
    <3>1. \A j \in DOMAIN p : Keeps(p[j], p2[j])
      <4> SUFFICES ASSUME NEW j \in DOMAIN p PROVE Keeps(p[j], p2[j])
        OBVIOUS
      <4>1. p[j].dynamic_size \in Nat
        BY <2>3, PartitionTypes DEF Partition
      <4>2. p[j].dynamic_size >= p[j].dynamic_size
        BY <4>1
      <4> QED BY <2>8, <2>9, <4>2 DEF Keeps, KeepsPlace, SameBut
    <3> QED BY <2>3, <2>8, <2>11, <2>12, <3>1, ObjectsKept
  <2>14. AllocationOK(p2, k.allocation_index)
    BY <2>3, <2>8, <2>9 DEF AllocationOK, SameBut
  <2>15. BitmapsOK(p2, k.bitmap_allocation_pointer, k.gc_running, todo \ {i})
    <3>1. BitmapsKept(p, p2, i, b)
      BY <2>8, <2>9 DEF BitmapsKept, SameBut
    <3>2. Covered(p2, todo \ {i})
      <4>1. Covered(p, todo)
        BY <2>3 DEF Covered, BitmapsOK
      <4> QED BY <2>6, <2>8, <2>9, <4>1 DEF Covered
    <3>3. k.gc_running /\ Fresh(p, k.bitmap_allocation_pointer, b)
      BY <2>2, <2>3 DEF p
    <3> QED BY <2>3, <3>1, <3>2, <3>3, BitmapsChanged
  <2>16. HeapOK(g, all, todo \ {i})
    BY <2>5, <2>12, <2>13, <2>14, <2>15 DEF HeapOK
  <2> QED BY <2>3, <2>5, <2>8, <2>16
<1> QED BY <1>1, <1>2

-----------------------------------------------------------------------------
(* The objects and the iterator over them *)

\* The heap is correct with objects that differ from its own in what is noted of them.
LEMMA HeapRelabelled ==
    ASSUME NEW h, NEW all, NEW todo, HeapOK(h, all, todo), NEW new, new \subseteq HeapObject,
           \A o \in new : \E q \in all : o.at = q.at /\ o.size = q.size,
           \A o, q \in new : o.at = q.at => o = q
    PROVE  HeapOK(h, new, todo)
  BY ObjectsRelabelled DEF HeapOK

LEMMA HeapObjects ==
    ASSUME NEW h, NEW all, NEW todo, HeapOK(h, all, todo)
    PROVE  /\ all \subseteq HeapObject
           /\ \A o, q \in all : o.at = q.at => o = q
  BY DEF HeapOK, ObjectsOK

LEMMA NewObjectPlace ==
    ASSUME NEW at \in Nat, NEW size \in Nat \ {0}, NEW marked \in BOOLEAN
    PROVE  /\ NewObject(at, size, marked) \in HeapObject
           /\ NewObject(at, size, marked).at = at /\ NewObject(at, size, marked).size = size
  BY DEF NewObject, HeapObject

LEMMA LowestObject ==
    ASSUME NEW all, all \subseteq HeapObject, Lowest(all) # NoObject
    PROVE  \E o \in all : o.at = Lowest(all)
<1>1. all # {} /\ Lowest(all) = Min({o.at : o \in all})
  BY DEF Lowest
<1>2. {o.at : o \in all} \subseteq Nat /\ {o.at : o \in all} # {}
  BY <1>1, ObjectNumbers
<1>3. Min({o.at : o \in all}) \in {o.at : o \in all}
  BY <1>2, LeastNumber
<1> QED BY <1>1, <1>3

\* An iterator starts at an object of its partition, or at none.
LEMMA IterationStarts ==
    ASSUME objects \subseteq HeapObject, NEW h, NEW i, NEW n
    PROVE  LET w == start_object_iteration(h, i, n) IN IsWalk(w) /\ WalkOK(w, objects)
<1> DEFINE next == Min({j \in i .. n - 1 : has_dynamic_space(h.partitions[j])} \cup {n})
           found == {o \in objects : index_of(o.at) = next /\ is_object_marked(h, o)}
           w == start_object_iteration(h, i, n)
<1>1. w = [partition_index |-> next, number_of_partitions |-> n, object |-> Lowest(found)]
  BY DEF start_object_iteration
<1>2. \A o \in found : o \in objects /\ index_of(o.at) = next
  OBVIOUS
<1> HIDE DEF next, found, w
<1>3. Lowest(found) # NoObject => \E o \in found : o.at = Lowest(found)
  BY <1>2, LowestObject
<1>4. IsWalk(w) /\ w.object = Lowest(found) /\ w.partition_index = next
  BY <1>1 DEF IsWalk
<1>5. WalkOK(w, objects)
  BY <1>2, <1>3, <1>4 DEF WalkOK, has_object
<1> QED BY <1>4, <1>5 DEF w

\* The next object is in the same partition.
LEMMA IterationContinues ==
    ASSUME objects \subseteq HeapObject, NEW w, IsWalk(w)
    PROVE  IsWalk(next_object(w)) /\ WalkOK(next_object(w), objects)
<1> DEFINE found == {o \in objects : /\ index_of(o.at) = w.partition_index
                                     /\ o.marked /\ o.at > w.object}
           v == next_object(w)
<1>1. v = [w EXCEPT !.object = Lowest(found)]
  BY DEF next_object
<1>2. \A o \in found : o \in objects /\ index_of(o.at) = w.partition_index
  OBVIOUS
<1> HIDE DEF found, v
<1>3. Lowest(found) # NoObject => \E o \in found : o.at = Lowest(found)
  BY <1>2, LowestObject
<1>4. IsWalk(v) /\ v.object = Lowest(found) /\ v.partition_index = w.partition_index
  BY <1>1 DEF IsWalk
<1>5. WalkOK(v, objects)
  BY <1>2, <1>3, <1>4 DEF WalkOK, has_object
<1> QED BY <1>4, <1>5 DEF v

\* The iterator stays at its object as long as there is one at the address.
LEMMA WalkKept ==
    ASSUME NEW w, NEW all, WalkOK(w, all), NEW new, \A o \in all : \E q \in new : q.at = o.at
    PROVE  WalkOK(w, new)
<1> SUFFICES ASSUME has_object(w)
             PROVE  \E q \in new : q.at = w.object /\ index_of(q.at) = w.partition_index
  BY DEF WalkOK
<1>1. PICK o \in all : o.at = w.object /\ index_of(o.at) = w.partition_index
  BY DEF WalkOK
<1>2. PICK q \in new : q.at = o.at
  OBVIOUS
<1> QED BY <1>1, <1>2

-----------------------------------------------------------------------------
(* Every operation keeps the invariant. *)

LEMMA AllocateKeepsHeap ==
    ASSUME HeapInv, NEW size \in Sizes, Allocate(size)
    PROVE  HeapInv'
<1> DEFINE visited == gc_phase \in {"Mark", "Evacuate"}
           todo == Todo(walk, gc_phase)
<1>1. PICK a \in allocate(heap, size) :
        /\ objects' = objects \cup {NewObject(a.at, size, visited)}
        /\ heap' = IF visited THEN mark_object(a.heap, NewObject(a.at, size, visited)) ELSE a.heap
  BY DEF Allocate
<1>2. gc_phase' = gc_phase /\ walk' = walk /\ gc_phase # "Start"
  BY DEF Allocate
<1>3. HeapOK(heap, objects, todo) /\ size \in Nat \ {0}
  BY SizesAssumption DEF HeapInv
<1> DEFINE o == NewObject(a.at, size, visited)
<1>4. o \in HeapObject /\ o.at = a.at /\ o.size = size
  <2>1. a.at \in Nat /\ visited \in BOOLEAN
    BY <1>3, AllocatedAt
  <2> HIDE DEF visited
  <2> QED BY <1>3, <2>1, NewObjectPlace
<1> HIDE DEF todo, o
<1>5. HeapOK(a.heap, objects \cup {o}, todo) /\ a.heap.gc_running = heap.gc_running
  BY <1>3, <1>4, ObjectAllocated
<1>6. objects' = objects \cup {o} /\ heap' = IF visited THEN mark_object(a.heap, o) ELSE a.heap
  BY <1>1 DEF o
<1> HIDE DEF visited
<1>7. HeapOK(heap', objects', todo) /\ heap'.gc_running = heap.gc_running
  <2>1. CASE visited
    <3>1. o \in objects \cup {o}
      OBVIOUS
    <3>2. HeapOK(mark_object(a.heap, o), objects \cup {o}, todo)
          /\ mark_object(a.heap, o).gc_running = a.heap.gc_running
      BY <1>5, <3>1, ObjectMarked
    <3> QED BY <1>5, <1>6, <2>1, <3>2
  <2>2. CASE ~visited
    BY <1>5, <1>6, <2>2
  <2> QED BY <2>1, <2>2
<1>8. gc_phase' = "Evacuate" => WalkOK(walk', objects')
  <2> SUFFICES ASSUME gc_phase' = "Evacuate" PROVE WalkOK(walk', objects')
    OBVIOUS
  <2>1. WalkOK(walk, objects)
    BY <1>2 DEF HeapInv
  <2>2. \A q \in objects : \E r \in objects' : r.at = q.at
    BY <1>6
  <2> QED BY <1>2, <2>1, <2>2, WalkKept
<1> QED BY <1>2, <1>7, <1>8 DEF HeapInv, todo

LEMMA StartKeepsHeap ==
    ASSUME HeapInv, start_collection
    PROVE  HeapInv'
<1> DEFINE p == heap.partitions
           todo == Todo(walk', gc_phase')
<1>1. /\ gc_phase = "Pause" /\ gc_phase' = "Start" /\ objects' = objects
      /\ heap' = [heap EXCEPT !.gc_running = TRUE]
      /\ walk' = [NoWalk EXCEPT !.number_of_partitions = Number(heap)]
  BY DEF start_collection
<1>2. HeapOK(heap, objects, Todo(walk, gc_phase)) /\ (heap.gc_running <=> FALSE)
  BY <1>1 DEF HeapInv
<1>3. /\ IsHeap(heap) /\ PartitionsOK(p, heap.gc_running, heap.memory)
      /\ AllocationOK(p, heap.allocation_index) /\ ObjectsOK(p, heap.memory, objects)
      /\ BitmapsOK(p, heap.bitmap_allocation_pointer, heap.gc_running, Todo(walk, gc_phase))
      /\ heap.gc_running \in BOOLEAN
  BY <1>2 DEF HeapOK, PartitionsOK
<1>4. Number(heap) \in Nat \ {0} /\ DOMAIN p = 0 .. Number(heap) - 1
  BY <1>3, NumberOfPartitions
<1>5. /\ IsWalk(walk') /\ walk'.partition_index = 0 /\ walk'.number_of_partitions = Number(heap)
  BY <1>1 DEF IsWalk, NoWalk
<1>6. /\ IsHeap(heap') /\ heap'.partitions = p /\ heap'.memory = heap.memory /\ heap'.gc_running = TRUE
      /\ heap'.allocation_index = heap.allocation_index
      /\ heap'.bitmap_allocation_pointer = heap.bitmap_allocation_pointer
  BY <1>1, <1>3 DEF IsHeap
<1>7. \A i \in DOMAIN p : i \in todo
  BY <1>1, <1>4, <1>5 DEF Todo
<1> HIDE DEF p, todo
<1>8. PartitionsOK(p, TRUE, heap.memory)
  <2>1. \A i \in DOMAIN p : PartitionOK(p[i], i, TRUE, heap.memory)
    BY <1>2, <1>3 DEF PartitionsOK, PartitionOK
  <2> QED BY <1>3, <2>1 DEF PartitionsOK
<1>9. BitmapsOK(p, heap.bitmap_allocation_pointer, TRUE, todo)
  BY <1>2, <1>3, <1>7 DEF BitmapsOK
<1>10. HeapOK(heap', objects', todo)
  BY <1>1, <1>3, <1>6, <1>8, <1>9 DEF HeapOK
<1> QED BY <1>1, <1>4, <1>5, <1>6, <1>10 DEF HeapInv, todo, p

LEMMA AssignKeepsHeap ==
    ASSUME HeapInv, assign_bitmaps
    PROVE  HeapInv'
<1> DEFINE i == walk.partition_index
           n == walk.number_of_partitions
<1>1. /\ gc_phase = "Start" /\ gc_phase' = gc_phase /\ objects' = objects /\ i < n
      /\ heap' \in assign_bitmap(heap, i)
      /\ walk' = [walk EXCEPT !.partition_index = @ + 1]
  BY DEF assign_bitmaps, has_partition
<1>2. /\ HeapOK(heap, objects, Todo(walk, "Start")) /\ heap.gc_running /\ IsWalk(walk)
      /\ i \in Nat /\ n \in Nat /\ \A j \in Nat : j < n => j \in DOMAIN heap.partitions
  BY <1>1 DEF HeapInv
<1>3. heap.gc_running = TRUE
  BY <1>2 DEF HeapOK, PartitionsOK
<1>4. /\ HeapOK(heap', objects, Todo(walk, "Start") \ {i}) /\ heap'.gc_running = TRUE
      /\ \A j \in DOMAIN heap.partitions : j \in DOMAIN heap'.partitions
  BY <1>1, <1>2, <1>3, BitmapAssigned
<1>5. IsWalk(walk') /\ walk'.partition_index = i + 1 /\ walk'.number_of_partitions = n
  BY <1>1, <1>2 DEF IsWalk
<1>6. Todo(walk', "Start") = Todo(walk, "Start") \ {i}
  BY <1>2, <1>5 DEF Todo
<1>7. i + 1 \in Nat
  BY <1>2
<1> QED BY <1>1, <1>2, <1>4, <1>5, <1>6, <1>7 DEF HeapInv

LEMMA MarkingKeepsHeap ==
    ASSUME HeapInv, start_marking
    PROVE  HeapInv'
<1>1. /\ gc_phase = "Start" /\ gc_phase' = "Mark" /\ objects' = objects /\ heap' = heap
      /\ ~(walk.partition_index < walk.number_of_partitions) /\ walk' = NoWalk
  BY DEF start_marking, has_partition
<1>2. /\ HeapOK(heap, objects, Todo(walk, "Start")) /\ heap.gc_running
      /\ walk.partition_index \in Nat /\ walk.number_of_partitions \in Nat
  BY <1>1 DEF HeapInv
<1>3. Todo(walk, "Start") = {} /\ Todo(walk', "Mark") = {}
  BY <1>1, <1>2 DEF Todo
<1>4. IsWalk(walk')
  BY <1>1 DEF IsWalk, NoWalk
<1> QED BY <1>1, <1>2, <1>3, <1>4 DEF HeapInv

LEMMA MarkKeepsHeap ==
    ASSUME HeapInv, MarkObject
    PROVE  HeapInv'
<1>1. PICK o \in objects :
        /\ heap' = mark_object(heap, o)
        /\ objects' = (objects \ {o}) \cup {[o EXCEPT !.marked = TRUE]}
  BY DEF MarkObject
<1>2. gc_phase = "Mark" /\ gc_phase' = gc_phase /\ walk' = walk
  BY DEF MarkObject
<1> DEFINE todo == Todo(walk, gc_phase)
<1>3. HeapOK(heap, objects, todo)
  BY DEF HeapInv
<1> HIDE DEF todo
<1>4. HeapOK(heap', objects, todo) /\ heap'.gc_running = heap.gc_running
  BY <1>1, <1>3, ObjectMarked
<1>5. HeapOK(heap', objects', todo)
  <2> DEFINE q == [o EXCEPT !.marked = TRUE]
  <2>1. /\ objects \subseteq HeapObject
        /\ \A r, s \in objects : r.at = s.at => r = s
    BY <1>3, HeapObjects
  <2>2. o \in HeapObject
    BY <2>1
  <2>3. q \in HeapObject /\ q.at = o.at /\ q.size = o.size
    BY <2>2 DEF HeapObject
  <2>4. objects' = (objects \ {o}) \cup {q}
    BY <1>1
  <2> HIDE DEF q
  <2>5. objects' \subseteq HeapObject
    BY <2>1, <2>3, <2>4
  <2>6. \A r \in objects' : \E s \in objects : r.at = s.at /\ r.size = s.size
    BY <2>3, <2>4
  <2>7. \A r, s \in objects' : r.at = s.at => r = s
    BY <2>1, <2>3, <2>4
  <2> QED BY <1>4, <2>5, <2>6, <2>7, HeapRelabelled
<1> QED BY <1>2, <1>4, <1>5 DEF HeapInv, todo

LEMMA EvacuatingKeepsHeap ==
    ASSUME HeapInv, start_evacuating
    PROVE  HeapInv'
<1> DEFINE todo == Todo(walk, gc_phase)
<1>1. /\ gc_phase = "Mark" /\ gc_phase' = "Evacuate"
      /\ walk' = start_object_iteration(heap, 0, Number(heap))
  BY DEF start_evacuating, new_iterator
<1>2. PICK array \in allocate(heap, RANKING_SIZE) :
        /\ heap' \in plan_evacuations(array.heap, heap.free_partitions)
        /\ objects' = objects \cup {NewObject(array.at, RANKING_SIZE, FALSE)}
  BY DEF start_evacuating
<1>3. HeapOK(heap, objects, todo) /\ RANKING_SIZE \in Nat \ {0} /\ todo = {} /\ heap.gc_running
  BY <1>1, SizesAreNumbers DEF HeapInv, Todo
<1> DEFINE o == NewObject(array.at, RANKING_SIZE, FALSE)
<1>4. o \in HeapObject /\ o.at = array.at /\ o.size = RANKING_SIZE
  <2>1. array.at \in Nat /\ FALSE \in BOOLEAN
    BY <1>3, AllocatedAt
  <2> QED BY <1>3, <2>1, NewObjectPlace
<1>5. objects' = objects \cup {o}
  BY <1>2
<1> HIDE DEF todo, o
<1>6. HeapOK(array.heap, objects \cup {o}, todo) /\ array.heap.gc_running = heap.gc_running
  BY <1>3, <1>4, ObjectAllocated
<1>7. HeapOK(heap', objects', todo) /\ heap'.gc_running = heap.gc_running
  <2>1. heap' \in plan_evacuations(array.heap, heap.free_partitions)
    BY <1>2
  <2>2. \A n : \A g \in plan_evacuations(array.heap, n) :
          HeapOK(g, objects \cup {o}, todo) /\ g.gc_running = array.heap.gc_running
    BY <1>6, EvacuationsPlanned
  <2> QED BY <1>5, <1>6, <2>1, <2>2
<1>8. IsWalk(walk') /\ WalkOK(walk', objects)
  BY <1>1, <1>3, HeapObjects, IterationStarts
<1>9. WalkOK(walk', objects')
  <2>1. \A q \in objects : \E r \in objects' : r.at = q.at
    BY <1>5
  <2> QED BY <1>8, <2>1, WalkKept
<1>10. Todo(walk', gc_phase') = todo
  BY <1>1, <1>3 DEF Todo
<1> QED BY <1>1, <1>3, <1>7, <1>8, <1>9, <1>10 DEF HeapInv

LEMMA NextKeepsHeap ==
    ASSUME HeapInv, next_in_walk
    PROVE  HeapInv'
<1>1. /\ gc_phase \in {"Evacuate", "Update"} /\ gc_phase' = gc_phase
      /\ heap' = heap /\ objects' = objects /\ walk' = next_partition(heap, walk)
  BY DEF next_in_walk
<1>2. HeapOK(heap, objects, Todo(walk, gc_phase))
  BY DEF HeapInv
<1>3. IsWalk(walk') /\ WalkOK(walk', objects)
  BY <1>1, <1>2, HeapObjects, IterationStarts DEF next_partition
<1>4. Todo(walk', gc_phase') = Todo(walk, gc_phase)
  BY <1>1 DEF Todo
<1> QED BY <1>1, <1>2, <1>3, <1>4 DEF HeapInv

LEMMA EvacuateKeepsHeap ==
    ASSUME HeapInv, evacuate_object
    PROVE  HeapInv'
<1> DEFINE todo == Todo(walk, gc_phase)
           original == ObjectAt(walk.object)
           moved == [original EXCEPT !.forwarded = TRUE]
<1>1. gc_phase = "Evacuate" /\ gc_phase' = gc_phase /\ walk' = next_object(walk) /\ has_object(walk)
  BY DEF evacuate_object, at_work
<1>2. PICK a \in allocate(heap, original.size) :
        \E copy \in {NewObject(a.at, original.size, TRUE)} :
          /\ heap' = mark_object([a.heap EXCEPT !.evacuated_size = @ + copy.size], copy)
          /\ objects' = (objects \ {original}) \cup {copy, moved}
  BY DEF evacuate_object
<1> DEFINE copy == NewObject(a.at, original.size, TRUE)
           g == [a.heap EXCEPT !.evacuated_size = @ + copy.size]
<1>3. heap' = mark_object(g, copy) /\ objects' = (objects \ {original}) \cup {copy, moved}
  BY <1>2
<1>4. HeapOK(heap, objects, todo) /\ IsWalk(walk) /\ WalkOK(walk, objects) /\ heap.gc_running
  BY <1>1 DEF HeapInv
<1>5. /\ objects \subseteq HeapObject
      /\ \A o, q \in objects : o.at = q.at => o = q
  BY <1>4, HeapObjects
<1>6. original \in objects
  <2>1. \E o \in objects : o.at = walk.object
    BY <1>1, <1>4 DEF WalkOK
  <2> QED BY <2>1 DEF ObjectAt
<1> HIDE DEF original
<1>7. original \in HeapObject /\ original.size \in Nat \ {0}
  BY <1>5, <1>6 DEF HeapObject
<1>8. moved \in HeapObject /\ moved.at = original.at /\ moved.size = original.size
  BY <1>7 DEF HeapObject
<1>9. copy \in HeapObject /\ copy.at = a.at /\ copy.size = original.size
  <2>1. a.at \in Nat /\ TRUE \in BOOLEAN
    BY <1>4, <1>7, AllocatedAt
  <2> QED BY <1>7, <2>1, NewObjectPlace
<1> HIDE DEF moved, copy, todo
<1>10. /\ HeapOK(a.heap, objects \cup {copy}, todo) /\ a.heap.gc_running = heap.gc_running
       /\ NewPlace(objects, copy)
  BY <1>4, <1>9, ObjectAllocated
<1>11. HeapOK(g, objects \cup {copy}, todo) /\ g.gc_running = heap.gc_running
  <2>1. IsHeap(a.heap)
    BY <1>10 DEF HeapOK
  <2>2. /\ IsHeap(g) /\ g.partitions = a.heap.partitions
        /\ g.allocation_index = a.heap.allocation_index
        /\ g.gc_running = a.heap.gc_running /\ g.memory = a.heap.memory
        /\ g.bitmap_allocation_pointer = a.heap.bitmap_allocation_pointer
    BY <2>1 DEF IsHeap
  <2> HIDE DEF g
  <2> QED BY <1>10, <2>2, HeapCounts
<1> HIDE DEF g
<1>12. HeapOK(heap', objects \cup {copy}, todo) /\ heap'.gc_running = heap.gc_running
  <2>1. copy \in objects \cup {copy}
    OBVIOUS
  <2> QED BY <1>3, <1>11, <2>1, ObjectMarked
<1>13. HeapOK(heap', objects', todo)
  <2>1. \A r \in objects : r.at # copy.at
    BY <1>10 DEF NewPlace
  <2>2. objects' \subseteq HeapObject
    BY <1>3, <1>5, <1>8, <1>9
  <2>3. \A r \in objects' : \E s \in objects \cup {copy} : r.at = s.at /\ r.size = s.size
    BY <1>3, <1>6, <1>8
  <2>4. \A r, s \in objects' : r.at = s.at => r = s
    BY <1>3, <1>5, <1>6, <1>8, <2>1
  <2> QED BY <1>12, <2>2, <2>3, <2>4, HeapRelabelled
<1>14. IsWalk(walk') /\ WalkOK(walk', objects')
  <2>1. IsWalk(walk') /\ WalkOK(walk', objects)
    BY <1>1, <1>4, <1>5, IterationContinues
  <2>2. \A q \in objects : \E r \in objects' : r.at = q.at
    BY <1>3, <1>8
  <2> QED BY <2>1, <2>2, WalkKept
<1>15. Todo(walk', gc_phase') = todo
  BY <1>1 DEF Todo, todo
<1> QED BY <1>1, <1>4, <1>12, <1>13, <1>14, <1>15 DEF HeapInv

LEMMA UpdatingKeepsHeap ==
    ASSUME HeapInv, start_updating
    PROVE  HeapInv'
<1> DEFINE todo == Todo(walk, gc_phase)
           dead == DeadLargeObjects(heap)
           g == free_large_objects(heap, dead)
           live(o) == is_object_marked(heap, o) /\ ~o.forwarded
           Relabelled(o) == [o EXCEPT !.stale = live(o)]
<1>1. /\ gc_phase = "Evacuate" /\ gc_phase' = "Update"
      /\ walk' = start_object_iteration(heap, 0, Number(heap))
      /\ heap' = plan_updates(g)
      /\ objects' = {Relabelled(o) : o \in objects \ dead}
  BY DEF start_updating, new_iterator
<1>2. HeapOK(heap, objects, todo) /\ heap.gc_running /\ todo = {}
  BY <1>1 DEF HeapInv, Todo
<1>3. /\ objects \subseteq HeapObject
      /\ \A o, q \in objects : o.at = q.at => o = q
  BY <1>2, HeapObjects
<1>4. dead \in SUBSET objects /\ \A o \in dead : IsLarge(o) /\ ~is_object_marked(heap, o)
  BY DEF DeadLargeObjects
<1>5. \A o \in objects : live(o) \in BOOLEAN
  OBVIOUS
<1> HIDE DEF todo, dead, live
<1>6. \A o \in objects :
        Relabelled(o) \in HeapObject /\ Relabelled(o).at = o.at /\ Relabelled(o).size = o.size
  <2> SUFFICES ASSUME NEW o \in objects
               PROVE  /\ Relabelled(o) \in HeapObject
                      /\ Relabelled(o).at = o.at /\ Relabelled(o).size = o.size
    OBVIOUS
  <2>1. o \in HeapObject /\ live(o) \in BOOLEAN
    BY <1>3, <1>5
  <2> QED BY <2>1 DEF HeapObject
<1> HIDE DEF Relabelled
<1>7. HeapOK(g, objects \ dead, todo) /\ g.gc_running = heap.gc_running
  BY <1>2, <1>4, LargeObjectsFreed
<1> HIDE DEF g
<1>8. HeapOK(heap', objects \ dead, todo) /\ heap'.gc_running = heap.gc_running
  BY <1>1, <1>7, UpdatesPlanned
<1>9. HeapOK(heap', objects', todo)
  <2>1. objects' \subseteq HeapObject
    BY <1>1, <1>6
  <2>2. \A r \in objects' : \E s \in objects \ dead : r.at = s.at /\ r.size = s.size
    BY <1>1, <1>6
  <2>3. \A r, s \in objects' : r.at = s.at => r = s
    <3> SUFFICES ASSUME NEW r \in objects', NEW s \in objects', r.at = s.at PROVE r = s
      OBVIOUS
    <3>1. PICK o \in objects \ dead : r = Relabelled(o)
      BY <1>1
    <3>2. PICK q \in objects \ dead : s = Relabelled(q)
      BY <1>1
    <3>3. o = q
      BY <1>3, <1>6, <3>1, <3>2
    <3> QED BY <3>1, <3>2, <3>3
  <2> QED BY <1>8, <2>1, <2>2, <2>3, HeapRelabelled
<1>10. IsWalk(walk')
  BY <1>1, <1>3, IterationStarts
<1>11. Todo(walk', gc_phase') = todo
  BY <1>1, <1>2 DEF Todo
<1> QED BY <1>1, <1>2, <1>8, <1>9, <1>10, <1>11 DEF HeapInv

LEMMA UpdateKeepsHeap ==
    ASSUME HeapInv, update_object
    PROVE  HeapInv'
<1> DEFINE todo == Todo(walk, gc_phase)
           Updated(o) == IF o.at = walk.object THEN [o EXCEPT !.stale = FALSE] ELSE o
<1>1. /\ gc_phase = "Update" /\ gc_phase' = gc_phase /\ heap' = heap
      /\ walk' = next_object(walk) /\ objects' = {Updated(o) : o \in objects}
  BY DEF update_object
<1>2. HeapOK(heap, objects, todo) /\ heap.gc_running /\ todo = {} /\ IsWalk(walk)
  BY <1>1 DEF HeapInv, Todo
<1>3. /\ objects \subseteq HeapObject
      /\ \A o, q \in objects : o.at = q.at => o = q
  BY <1>2, HeapObjects
<1> HIDE DEF todo
<1>4. \A o \in objects :
        Updated(o) \in HeapObject /\ Updated(o).at = o.at /\ Updated(o).size = o.size
  <2> SUFFICES ASSUME NEW o \in objects
               PROVE  Updated(o) \in HeapObject /\ Updated(o).at = o.at /\ Updated(o).size = o.size
    OBVIOUS
  <2>1. o \in HeapObject
    BY <1>3
  <2> QED BY <2>1 DEF HeapObject
<1> HIDE DEF Updated
<1>5. HeapOK(heap', objects', todo)
  <2>1. objects' \subseteq HeapObject
    BY <1>1, <1>4
  <2>2. \A r \in objects' : \E s \in objects : r.at = s.at /\ r.size = s.size
    BY <1>1, <1>4
  <2>3. \A r, s \in objects' : r.at = s.at => r = s
    <3> SUFFICES ASSUME NEW r \in objects', NEW s \in objects', r.at = s.at PROVE r = s
      OBVIOUS
    <3>1. PICK o \in objects : r = Updated(o)
      BY <1>1
    <3>2. PICK q \in objects : s = Updated(q)
      BY <1>1
    <3>3. o = q
      BY <1>3, <1>4, <3>1, <3>2
    <3> QED BY <3>1, <3>2, <3>3
  <2> QED BY <1>1, <1>2, <2>1, <2>2, <2>3, HeapRelabelled
<1>6. IsWalk(walk')
  BY <1>1, <1>2, <1>3, IterationContinues
<1>7. Todo(walk', gc_phase') = todo
  BY <1>1, <1>2 DEF Todo
<1> QED BY <1>1, <1>2, <1>5, <1>6, <1>7 DEF HeapInv

LEMMA CompleteKeepsHeap ==
    ASSUME HeapInv, complete_run
    PROVE  HeapInv'
<1> DEFINE todo == Todo(walk, gc_phase)
           kept == {o \in objects : ~heap.partitions[index_of(o.at)].evacuate}
           Unmarked(o) == [o EXCEPT !.marked = FALSE]
<1>1. /\ gc_phase' = "Pause" /\ walk' = NoWalk /\ heap' = complete_collection(heap)
      /\ objects' = {Unmarked(o) : o \in kept}
  BY DEF complete_run
<1>2. HeapOK(heap, objects, todo)
  BY DEF HeapInv
<1>3. Todo(walk', gc_phase') = {}
  BY <1>1 DEF Todo
<1>4. /\ objects \subseteq HeapObject
      /\ \A o, q \in objects : o.at = q.at => o = q
  BY <1>2, HeapObjects
<1>5. kept \subseteq objects
  OBVIOUS
<1>6. HeapOK(heap', kept, {}) /\ heap'.gc_running = FALSE
  BY <1>1, <1>2, CollectionCompleted
<1> HIDE DEF kept
<1>7. \A o \in kept : Unmarked(o) \in HeapObject /\ Unmarked(o).at = o.at /\ Unmarked(o).size = o.size
  <2> SUFFICES ASSUME NEW o \in kept
               PROVE  Unmarked(o) \in HeapObject /\ Unmarked(o).at = o.at /\ Unmarked(o).size = o.size
    OBVIOUS
  <2>1. o \in HeapObject
    BY <1>4, <1>5
  <2> QED BY <2>1 DEF HeapObject
<1> HIDE DEF Unmarked
<1>8. HeapOK(heap', objects', {})
  <2>1. objects' \subseteq HeapObject
    BY <1>1, <1>7
  <2>2. \A r \in objects' : \E s \in kept : r.at = s.at /\ r.size = s.size
    BY <1>1, <1>7
  <2>3. \A r, s \in objects' : r.at = s.at => r = s
    <3> SUFFICES ASSUME NEW r \in objects', NEW s \in objects', r.at = s.at PROVE r = s
      OBVIOUS
    <3>1. PICK o \in kept : r = Unmarked(o)
      BY <1>1
    <3>2. PICK q \in kept : s = Unmarked(q)
      BY <1>1
    <3>3. o = q
      BY <1>4, <1>5, <1>7, <3>1, <3>2
    <3> QED BY <3>1, <3>2, <3>3
  <2> QED BY <1>6, <2>1, <2>2, <2>3, HeapRelabelled
<1>9. IsWalk(walk')
  BY <1>1 DEF IsWalk, NoWalk
<1> QED BY <1>1, <1>3, <1>6, <1>8, <1>9 DEF HeapInv

-----------------------------------------------------------------------------
(* The invariant *)

\* A partition of the first table.
LEMMA FirstTable ==
    ASSUME NEW i \in 0 .. PARTITIONS_PER_TABLE - 1
    PROVE  LET q == new_heap.partitions[i]
           IN  /\ q \in Partition /\ q.bitmap = NoBitmap /\ ~q.temporary /\ ~q.large_content /\ ~q.evacuate
               /\ q.free = (i > index_of(HEAP_BASE))
               /\ \A running, memory : PartitionOK(q, i, running, memory)
               /\ i = 0 => q.static_size > 0
<1> DEFINE s == Max({0, Min({PARTITION_SIZE, HEAP_BASE - start_address(i - 0)})})
           f == i > index_of(HEAP_BASE)
           t == [free |-> TRUE, large_content |-> FALSE, temporary |-> FALSE, evacuate |-> FALSE,
                 update |-> FALSE, marked_size |-> 0, dynamic_size |-> 0, bitmap |-> NoBitmap,
                 static_size |-> s]
           q == [t EXCEPT !.free = f]
<1>1. i \in Nat /\ i - 0 = i /\ start_address(i) \in Nat /\ PARTITION_SIZE \in Nat /\ PARTITION_SIZE > 0
      /\ HEAP_BASE \in Nat /\ HEAP_BASE > 0
  BY PartitionAddresses, SizesAreNumbers
<1>2. i \in 0 .. 0 + PARTITIONS_PER_TABLE - 1
  BY SizesAreNumbers
<1>3. new_partition_table(0, HEAP_BASE)[i] = t /\ i \in DOMAIN new_partition_table(0, HEAP_BASE)
  BY <1>2 DEF new_partition_table
<1>4. new_heap.partitions[i] = q
  <2> HIDE DEF t
  <2> QED BY <1>3 DEF new_heap
<1>5. s \in 0 .. PARTITION_SIZE /\ (i = 0 => s > 0)
  <2> DEFINE x == HEAP_BASE - start_address(i - 0)
             y == Min({PARTITION_SIZE, x})
  <2>1. x \in Int
    BY <1>1
  <2>2. i = 0 => x > 0
    <3>1. start_address(0) = 0
      BY <1>1 DEF start_address
    <3> QED BY <1>1, <3>1
  <2> HIDE DEF x
  <2>3. y \in {PARTITION_SIZE, x} /\ y <= PARTITION_SIZE /\ y \in Int
    <3>1. CASE x <= PARTITION_SIZE
      <4>1. y = x
        BY <1>1, <2>1, <3>1 DEF Min
      <4> QED BY <2>1, <3>1, <4>1
    <3>2. CASE PARTITION_SIZE <= x
      <4>1. y = PARTITION_SIZE
        BY <1>1, <2>1, <3>2 DEF Min
      <4> QED BY <1>1, <4>1
    <3> QED BY <1>1, <2>1, <3>1, <3>2
  <2>4. s = Max({0, y})
    BY DEF x
  <2> HIDE DEF y, s
  <2>5. CASE y <= 0
    <3>1. s = 0
      BY <2>3, <2>4, <2>5 DEF Max
    <3> QED BY <1>1, <2>2, <2>3, <2>5, <3>1
  <2>6. CASE y > 0
    <3>1. s = y
      BY <2>3, <2>4, <2>6 DEF Max
    <3> QED BY <1>1, <2>3, <2>6, <3>1
  <2> QED BY <2>3, <2>5, <2>6
<1> HIDE DEF s
<1>6. f \in BOOLEAN
  OBVIOUS
<1> HIDE DEF f
<1>7. /\ q \in Partition /\ q.bitmap = NoBitmap /\ ~q.temporary /\ ~q.large_content /\ ~q.evacuate
      /\ q.free = f /\ q.static_size = s
  BY <1>5, <1>6 DEF Partition, NoBitmap
<1>8. \A running, memory : PartitionOK(q, i, running, memory)
  <2>1. /\ q.dynamic_size = 0 /\ q.marked_size = 0 /\ ~q.update
        /\ q.static_size + q.dynamic_size <= PARTITION_SIZE
    BY <1>1, <1>5
  <2> HIDE DEF q
  <2> QED BY <1>7, <2>1 DEF PartitionOK
<1> HIDE DEF q
<1> QED BY <1>4, <1>5, <1>7, <1>8 DEF f

LEMMA NewHeap ==
    HeapInit => HeapInv
<1> SUFFICES ASSUME HeapInit PROVE HeapInv
  OBVIOUS
<1> DEFINE p == new_heap.partitions
           first == index_of(HEAP_BASE)
<1>1. heap = new_heap /\ objects = {} /\ gc_phase = "Pause" /\ walk = NoWalk
  BY DEF HeapInit
<1>2. /\ IsHeap(new_heap) /\ new_heap.gc_running = FALSE /\ new_heap.memory = HEAP_BASE
      /\ new_heap.allocation_index = first /\ new_heap.bitmap_allocation_pointer = 0
      /\ p = [i \in DOMAIN new_partition_table(0, HEAP_BASE) |->
                [new_partition_table(0, HEAP_BASE)[i] EXCEPT !.free = i > first]]
  BY DEF new_heap, IsHeap
<1>3. HEAP_BASE \in Nat /\ HEAP_BASE < PARTITIONS_PER_TABLE * PARTITION_SIZE
      /\ PARTITIONS_PER_TABLE \in Nat \ {0} /\ PARTITION_SIZE \in Nat
      /\ PARTITIONS_PER_TABLE * PARTITION_SIZE \in Nat
  <2>1. PARTITIONS_PER_TABLE \in Nat \ {0} /\ PARTITION_SIZE \in Nat
    BY SizesAreNumbers
  <2>2. PARTITIONS_PER_TABLE * PARTITION_SIZE \in Nat
    BY <2>1
  <2> QED BY <2>1, <2>2, SizesAssumption
<1>4. p = [i \in 0 .. PARTITIONS_PER_TABLE - 1 |-> p[i]] /\ DOMAIN p = 0 .. PARTITIONS_PER_TABLE - 1
  <2>1. DOMAIN new_partition_table(0, HEAP_BASE) = 0 .. PARTITIONS_PER_TABLE - 1
    BY <1>3 DEF new_partition_table
  <2> HIDE DEF p
  <2> QED BY <1>2, <2>1
<1>5. first \in DOMAIN p
  <2>1. first \in Nat /\ start_address(first) <= HEAP_BASE /\ start_address(first) \in Nat
    BY <1>3, InItsPartition, PartitionAddresses
  <2>2. first < PARTITIONS_PER_TABLE
    <3> SUFFICES ASSUME ~(first < PARTITIONS_PER_TABLE) PROVE FALSE
      OBVIOUS
    <3>1. PARTITIONS_PER_TABLE <= first
      BY <1>3, <2>1
    <3>2. start_address(PARTITIONS_PER_TABLE) <= start_address(first)
      BY <1>3, <2>1, <3>1, StartOrder
    <3>3. start_address(PARTITIONS_PER_TABLE) = PARTITIONS_PER_TABLE * PARTITION_SIZE
      BY DEF start_address
    <3> QED BY <1>3, <2>1, <3>2, <3>3
  <2> QED BY <1>3, <1>4, <2>1, <2>2
<1> HIDE DEF p, first
<1>6. \A i \in DOMAIN p :
        /\ p[i] \in Partition /\ p[i].bitmap = NoBitmap
        /\ ~p[i].temporary /\ ~p[i].large_content /\ ~p[i].evacuate
        /\ p[i].free = (i > first)
        /\ \A running, memory : PartitionOK(p[i], i, running, memory)
        /\ i = 0 => p[i].static_size > 0
  BY <1>4, FirstTable DEF p, first
<1>7. PartitionsOK(p, FALSE, HEAP_BASE)
  <2>1. p \in [0 .. PARTITIONS_PER_TABLE - 1 -> Partition]
    BY <1>4, <1>6
  <2>2. 0 \in DOMAIN p
    BY <1>3, <1>4
  <2> QED BY <1>3, <1>6, <2>1, <2>2 DEF PartitionsOK
<1>8. AllocationOK(p, first)
  <2>1. first \in Nat
    BY <1>3, InItsPartition DEF first
  <2>2. ~(first > first)
    BY <2>1
  <2>3. ~p[first].free /\ ~p[first].temporary /\ ~p[first].large_content /\ ~p[first].evacuate
    BY <1>5, <1>6, <2>2
  <2> QED BY <1>5, <2>3 DEF AllocationOK
<1>9. BitmapsOK(p, 0, FALSE, Todo(walk, gc_phase))
  <2>1. Aligned(0)
    <3>1. 0 * BITMAP_SIZE = 0
      BY SizesAreNumbers
    <3> QED BY <3>1 DEF Aligned
  <2>2. 0 % PARTITION_SIZE = 0
    BY SizesAreNumbers
  <2> QED BY <1>6, <2>1, <2>2 DEF BitmapsOK
<1>10. ObjectsOK(p, HEAP_BASE, {})
  BY DEF ObjectsOK
<1>11. HeapOK(heap, objects, Todo(walk, gc_phase))
  BY <1>1, <1>2, <1>7, <1>8, <1>9, <1>10 DEF HeapOK, p
<1>12. IsWalk(walk)
  BY <1>1 DEF IsWalk, NoWalk
<1> QED BY <1>1, <1>2, <1>11, <1>12 DEF HeapInv

LEMMA MaxOfBitmap ==
    ASSUME NEW b \in Nat
    PROVE  Max(b .. b + BITMAP_SIZE - 1) = b + BITMAP_SIZE - 1
<1> DEFINE m == b + BITMAP_SIZE - 1
           S == b .. m
<1>1. m \in Nat /\ b <= m
  BY SizesAreNumbers
<1> HIDE DEF m
<1>2. m \in S /\ \A y \in S : y \in Int /\ y <= m
  BY <1>1
<1>3. \A x \in S : (\A y \in S : x >= y) => x = m
  BY <1>1, <1>2
<1>4. Max(S) \in S /\ \A y \in S : Max(S) >= y
  <2>1. \E x \in S : \A y \in S : x >= y
    BY <1>1, <1>2
  <2> HIDE DEF S
  <2> QED BY <2>1 DEF Max
<1> QED BY <1>3, <1>4 DEF m

\* Bitmaps that are handed out do not overlap.
LEMMA BitmapsApart ==
    ASSUME NEW a, Aligned(a), NEW b, Aligned(b), a # b
    PROVE  (a .. a + BITMAP_SIZE - 1) \cap (b .. b + BITMAP_SIZE - 1) = {}
<1>1. a \in Nat /\ b \in Nat /\ BITMAP_SIZE \in Nat
  BY AlignedIsAddress, SizesAreNumbers
<1>2. a + BITMAP_SIZE <= b \/ b + BITMAP_SIZE <= a
  <2>1. CASE a < b
    BY <2>1, AlignedOrder
  <2>2. CASE b < a
    BY <2>2, AlignedOrder
  <2> QED BY <1>1, <2>1, <2>2
<1> QED BY <1>1, <1>2

\* A bitmap ends before its partition does.
LEMMA BitmapEnds ==
    ASSUME NEW b, Aligned(b)
    PROVE  b + BITMAP_SIZE <= end_address(index_of(b))
<1>1. b \in Nat
  BY AlignedIsAddress
<1>2. index_of(b) \in Nat /\ b < end_address(index_of(b))
  BY <1>1, InItsPartition
<1>3. Aligned(end_address(index_of(b)))
  BY <1>2, AlignedPlaces
<1> QED BY <1>2, <1>3, AlignedOrder

\* What the invariant says of the use of the memory.
LEMMA UseOfMemory ==
    HeapInv => MemoryInUse
<1> SUFFICES ASSUME HeapInv PROVE MemoryInUse
  OBVIOUS
<1> DEFINE p == heap.partitions
           bitmap(i) == p[i].bitmap .. p[i].bitmap + BITMAP_SIZE - 1
           mapped == {i \in DOMAIN p : p[i].bitmap # NoBitmap}
           todo == Todo(walk, gc_phase)
<1>1. (heap.gc_running <=> gc_phase # "Pause") /\ HeapOK(heap, objects, todo)
  BY DEF HeapInv
<1>2. /\ PartitionsOK(p, heap.gc_running, heap.memory) /\ heap.memory \in Nat
      /\ ObjectsOK(p, heap.memory, objects)
      /\ BitmapsOK(p, heap.bitmap_allocation_pointer, heap.gc_running, todo)
  BY <1>1 DEF HeapOK, PartitionsOK
<1>3. \A i \in DOMAIN p : i \in Nat /\ p[i] \in Partition /\ PartitionOK(p[i], i, heap.gc_running, heap.memory)
  BY <1>2, PartitionTypes DEF PartitionsOK
<1>4. gc_phase \notin {"Pause", "Start"} =>
        \A i \in DOMAIN p : has_dynamic_space(p[i]) /\ ~p[i].large_content => i \in mapped
  <2> SUFFICES ASSUME gc_phase \notin {"Pause", "Start"}, NEW i \in DOMAIN p,
                      has_dynamic_space(p[i]), ~p[i].large_content
               PROVE  i \in mapped
    OBVIOUS
  <2>1. heap.gc_running /\ todo = {}
    BY <1>1 DEF Todo
  <2> HIDE DEF p, todo
  <2> QED BY <1>2, <2>1 DEF BitmapsOK
<1>5. \A i \in mapped :
        /\ Aligned(p[i].bitmap) /\ index_of(p[i].bitmap) \in DOMAIN p
        /\ p[index_of(p[i].bitmap)].temporary
        /\ \A j \in mapped \ {i} : p[j].bitmap # p[i].bitmap
  <2> HIDE DEF p, todo
  <2> QED BY <1>2 DEF BitmapsOK
<1>6. ASSUME NEW i \in mapped
      PROVE  /\ p[index_of(p[i].bitmap)].temporary
             /\ Max(bitmap(i)) < heap.memory
             /\ \A j \in mapped \ {i} : bitmap(i) \cap bitmap(j) = {}
  <2> DEFINE b == p[i].bitmap
             k == index_of(b)
  <2>1. Aligned(b) /\ k \in DOMAIN p /\ p[k].temporary
    BY <1>5
  <2>2. b \in Nat /\ k \in Nat /\ end_address(k) \in Nat /\ end_address(k) <= heap.memory
    <3>1. b \in Nat
      BY <2>1, AlignedIsAddress
    <3>2. k \in Nat /\ end_address(k) <= heap.memory
      BY <1>3, <2>1 DEF PartitionOK
    <3> QED BY <3>1, <3>2, PartitionAddresses
  <2>3. b + BITMAP_SIZE <= end_address(k)
    BY <2>1, BitmapEnds
  <2>4. Max(bitmap(i)) = b + BITMAP_SIZE - 1
    BY <2>2, MaxOfBitmap
  <2> HIDE DEF b, k
  <2>5. b + BITMAP_SIZE - 1 < heap.memory
    BY <1>2, <2>2, <2>3, SizesAreNumbers
  <2>6. \A j \in mapped \ {i} : bitmap(i) \cap bitmap(j) = {}
    BY <1>5, BitmapsApart
  <2>7. p[index_of(p[i].bitmap)].temporary
    BY <1>5
  <2> QED BY <2>4, <2>5, <2>6, <2>7
<1>7. \A o \in objects : o \in HeapObject /\ o.at + o.size <= heap.memory
                         /\ IF IsLarge(o) THEN LargeOK(p, o) ELSE SmallOK(p, o)
  BY <1>2 DEF ObjectsOK
<1>8. \A o \in objects :
        /\ index_of(o.at) \in PartitionRange(o)
        /\ \A i \in PartitionRange(o) : /\ i \in DOMAIN p /\ ~p[i].free /\ ~p[i].temporary
                                        /\ p[i].large_content <=> IsLarge(o)
  <2> SUFFICES ASSUME NEW o \in objects
               PROVE  /\ index_of(o.at) \in PartitionRange(o)
                      /\ \A i \in PartitionRange(o) : /\ i \in DOMAIN p /\ ~p[i].free /\ ~p[i].temporary
                                                      /\ p[i].large_content <=> IsLarge(o)
    OBVIOUS
  <2> DEFINE a == index_of(o.at)
             n == partitions_length(o.size)
  <2> HIDE DEF p
  <2>1. /\ a \in Nat /\ n \in Nat \ {0} /\ PartitionRange(o) = a .. a + n - 1
        /\ \A i \in PartitionRange(o) : /\ i \in DOMAIN p /\ ~p[i].free /\ ~p[i].temporary
                                        /\ p[i].large_content <=> IsLarge(o)
    BY <1>2, <1>7, ObjectPlace
  <2> HIDE DEF a, n
  <2>2. a \in a .. a + n - 1
    BY <2>1
  <2> QED BY <2>1, <2>2 DEF a
<1>9. ASSUME NEW i \in DOMAIN p
      PROVE  /\ p[i].temporary => heap.gc_running /\ Content(i) = {}
             /\ p[i].free => /\ Content(i) = {} /\ p[i].marked_size = 0
                             /\ ~p[i].update /\ ~p[i].evacuate /\ ~p[i].temporary
  <2>1. p[i].temporary \/ p[i].free => Content(i) = {}
    BY <1>8 DEF Content
  <2>2. PartitionOK(p[i], i, heap.gc_running, heap.memory)
    BY <1>3
  <2> HIDE DEF p
  <2> QED BY <2>1, <2>2 DEF PartitionOK
<1>10. ASSUME NEW o \in objects
       PROVE  /\ o.at + o.size <= heap.memory
              /\ o.at >= dynamic_space_start(heap, index_of(o.at))
              /\ IsLarge(o) => /\ o.at = start_address(index_of(o.at))
                               /\ \A i \in PartitionRange(o) : p[i].large_content /\ Content(i) = {o}
  <2> DEFINE a == index_of(o.at)
  <2>1. o \in HeapObject /\ o.at + o.size <= heap.memory /\ a \in PartitionRange(o)
    BY <1>7, <1>8
  <2>2. /\ a \in DOMAIN p /\ a \in Nat /\ p[a].static_size \in Nat /\ start_address(a) \in Nat
        /\ o.at \in Nat
    <3>1. a \in DOMAIN p
      BY <1>8, <2>1
    <3>2. a \in Nat /\ p[a] \in Partition
      BY <1>3, <3>1
    <3> QED BY <2>1, <3>1, <3>2, PartitionAddresses, ObjectNumbers DEF Partition
  <2>3. dynamic_space_start(heap, a) = start_address(a) + p[a].static_size
    BY DEF dynamic_space_start
  <2>4. CASE ~IsLarge(o)
    <3>1. SmallOK(p, o)
      BY <1>7, <2>4
    <3>2. start_address(a) + p[a].static_size <= o.at
      BY <3>1 DEF SmallOK
    <3> HIDE DEF a
    <3>3. o.at >= dynamic_space_start(heap, a)
      BY <2>2, <2>3, <3>2
    <3> QED BY <2>1, <2>4, <3>3 DEF a
  <2>5. CASE IsLarge(o)
    <3>1. o.at = start_address(a)
      BY <1>7, <2>5 DEF LargeOK
    <3>2. p[a].static_size = 0
      <4>1. p[a].large_content
        BY <1>8, <2>1, <2>5
      <4> QED BY <1>3, <2>2, <4>1 DEF PartitionOK
    <3>3. \A i \in PartitionRange(o) : p[i].large_content /\ Content(i) = {o}
      <4> SUFFICES ASSUME NEW i \in PartitionRange(o)
                   PROVE  p[i].large_content /\ Content(i) = {o}
        OBVIOUS
      <4>1. \A q \in objects : i \in PartitionRange(q) => o = q
        BY <1>2, <2>5, LargeAlone
      <4> QED BY <1>8, <2>5, <4>1 DEF Content
    <3> HIDE DEF a
    <3>4. o.at >= dynamic_space_start(heap, a)
      BY <2>2, <2>3, <3>1, <3>2
    <3> QED BY <2>1, <2>5, <3>1, <3>3, <3>4 DEF a
  <2> QED BY <2>4, <2>5
<1>11. \A o, q \in objects : o.at < q.at => o.at + o.size <= q.at
  BY <1>2 DEF ObjectsOK
<1> HIDE DEF todo
<1> QED BY <1>1, <1>4, <1>6, <1>9, <1>10, <1>11 DEF MemoryInUse

\* Every step of the mutator and of the collector keeps the invariant.
LEMMA HeapSteps ==
    HeapInv /\ [HeapNext]_heapVars => HeapInv'
<1> SUFFICES ASSUME HeapInv, [HeapNext]_heapVars PROVE HeapInv'
  OBVIOUS
<1>1. CASE \E size \in Sizes : Allocate(size)
  BY <1>1, AllocateKeepsHeap
<1>2. CASE start_collection
  BY <1>2, StartKeepsHeap
<1>3. CASE assign_bitmaps
  BY <1>3, AssignKeepsHeap
<1>4. CASE start_marking
  BY <1>4, MarkingKeepsHeap
<1>5. CASE MarkObject
  BY <1>5, MarkKeepsHeap
<1>6. CASE start_evacuating
  BY <1>6, EvacuatingKeepsHeap
<1>7. CASE next_in_walk
  BY <1>7, NextKeepsHeap
<1>8. CASE evacuate_object
  BY <1>8, EvacuateKeepsHeap
<1>9. CASE start_updating
  BY <1>9, UpdatingKeepsHeap
<1>10. CASE update_object
  BY <1>10, UpdateKeepsHeap
<1>11. CASE complete_run
  BY <1>11, CompleteKeepsHeap
<1>12. CASE UNCHANGED heapVars
  <2>1. heap' = heap /\ objects' = objects /\ gc_phase' = gc_phase /\ walk' = walk
    BY <1>12 DEF heapVars
  <2> QED BY <2>1 DEF HeapInv
<1> QED
  BY <1>1, <1>2, <1>3, <1>4, <1>5, <1>6, <1>7, <1>8, <1>9, <1>10, <1>11, <1>12 DEF HeapNext

\* The memory is used for one thing at a time, whatever is allocated between the
\* steps of a collection and wherever its increments end (partitioned_heap.rs,
\* evacuation_increment.rs, update_increment.rs): objects lie in the dynamic
\* space of partitions in use and never overlap each other or a bitmap, every
\* bitmap is in a temporary partition below the end of the memory, and a
\* partition that has been freed has no trace of its former use.
THEOREM HeapMemoryInUse == HeapSpec => []MemoryInUse
<1>1. HeapInit => HeapInv
  BY NewHeap
<1>2. HeapInv /\ [HeapNext]_heapVars => HeapInv'
  BY HeapSteps
<1>3. HeapInv => MemoryInUse
  BY UseOfMemory
<1> QED BY <1>1, <1>2, <1>3, PTL DEF HeapSpec
=============================================================================
