-------------------------- MODULE PartitionedHeap --------------------------
(***************************************************************************)
(* The partitioned heap (gc/incremental/partitioned_heap.rs) as the        *)
(* mutator and the phases of the collector use it: partitions, their       *)
(* tables, mark bitmaps in temporary partitions, large objects over        *)
(* several partitions, the iterator over marked objects, and the sizes     *)
(* that are counted beside each other.  IncrementalGC has the pointers     *)
(* between the objects, which are left out here: any object may be live.   *)
(*                                                                         *)
(* An operator that may need memory returns a set of results, which is     *)
(* empty if the code traps with "Cannot grow memory".                      *)
(***************************************************************************)
EXTENDS Integers, Sequences, FiniteSets, FiniteSetsExt, SequencesExt

CONSTANTS PARTITION_SIZE, PARTITIONS_PER_TABLE, PARTITION_TABLE_SIZE,
          BITMAP_SIZE,
          HEAP_BASE,        \* the end of the static data
          MEMORY_CAPACITY,  \* bound: where the main memory cannot grow any more
          Sizes,            \* the sizes of objects
          RANKING_SIZE,     \* the size of the temporary array of a ranking
          MaxAllocated      \* bound on what is allocated in a behaviour

ASSUME SizesAssumption ==
  /\ {PARTITION_SIZE, PARTITIONS_PER_TABLE, BITMAP_SIZE, RANKING_SIZE} \subseteq Nat \ {0}
  /\ PARTITION_SIZE % BITMAP_SIZE = 0
  /\ PARTITION_TABLE_SIZE \in 1 .. PARTITION_SIZE - 1
  /\ HEAP_BASE \in 1 .. PARTITIONS_PER_TABLE * PARTITION_SIZE - 1
  /\ Sizes \subseteq Nat \ {0}

VARIABLES heap,       \* the record of the heap, with the end of the allocated memory
          objects,    \* what is on the heap: address, size, mark, forwarded or not
          gc_phase,   \* "Pause", "Start", "Mark", "Evacuate" or "Update"
          walk,       \* the iterator over the marked objects, or the loop at the start
          allocated   \* history: what mutator and runtime have allocated

heapVars == <<heap, objects, gc_phase, walk, allocated>>
-----------------------------------------------------------------------------
(* Partitions *)

NoBitmap == 0

start_address(i) == i * PARTITION_SIZE
end_address(i) == start_address(i) + PARTITION_SIZE
index_of(address) == address \div PARTITION_SIZE

Number(h) == Cardinality(DOMAIN h.partitions)

dynamic_space_start(h, i) == start_address(i) + h.partitions[i].static_size
dynamic_space_end(h, i) == dynamic_space_start(h, i) + h.partitions[i].dynamic_size
free_size(h, i) == end_address(i) - dynamic_space_end(h, i)
garbage_amount(p) == p.dynamic_size - p.marked_size

\* The threshold SURVIVAL_RATE_THRESHOLD is 0.85 of the space that can be used.
is_evacuation_candidate(p) ==
  /\ ~p.free /\ ~p.large_content /\ p.dynamic_size > 0
  /\ 100 * p.marked_size <= 85 * (PARTITION_SIZE - p.static_size)

has_dynamic_space(p) == ~p.free /\ ~p.temporary /\ p.static_size # PARTITION_SIZE

is_completely_free(h, i) == h.partitions[i].free /\ free_size(h, i) = PARTITION_SIZE

Freed(p) == [p EXCEPT !.free = TRUE, !.dynamic_size = 0, !.evacuate = FALSE,
                      !.large_content = FALSE, !.temporary = FALSE]

new_partition_table(start_index, static_space) ==
  [i \in start_index .. start_index + PARTITIONS_PER_TABLE - 1 |->
     [free |-> TRUE, large_content |-> FALSE, temporary |-> FALSE, evacuate |-> FALSE,
      update |-> FALSE, marked_size |-> 0, dynamic_size |-> 0, bitmap |-> NoBitmap,
      static_size |-> Max({0, Min({PARTITION_SIZE,
                                   static_space - start_address(i - start_index)})})]]

new_heap ==
  LET first == index_of(HEAP_BASE)
      table == new_partition_table(0, HEAP_BASE)
  IN  [partitions |-> [i \in DOMAIN table |-> [table[i] EXCEPT !.free = i > first]],
       allocation_index |-> first,
       free_partitions |-> PARTITIONS_PER_TABLE - first - 1,
       precomputed_heap_size |-> HEAP_BASE,
       evacuating |-> FALSE, gc_running |-> FALSE, bitmap_allocation_pointer |-> 0,
       reclaimed |-> 0, evacuated_size |-> 0, memory |-> HEAP_BASE]

grow_memory(h, address) ==
  IF address > MEMORY_CAPACITY THEN {}
  ELSE {[h EXCEPT !.memory = Max({@, address})]}

add_partition_table(h) ==
  {[g EXCEPT !.partitions = [i \in 0 .. Number(h) + PARTITIONS_PER_TABLE - 1 |->
                               IF i < Number(h) THEN h.partitions[i]
                               ELSE new_partition_table(Number(h), PARTITION_TABLE_SIZE)[i]],
             !.free_partitions = @ + PARTITIONS_PER_TABLE,
             !.precomputed_heap_size = @ + PARTITION_TABLE_SIZE]
     : g \in grow_memory(h, end_address(Number(h)))}
-----------------------------------------------------------------------------
(* Allocation *)

\* What is searched for: a run of partitions that are completely free, or a
\* free partition with some space.
Run(n) == [run |-> n, space |-> 0]
Space(size) == [run |-> 0, space |-> size]

scan_for(h, wanted) ==
  {i \in DOMAIN h.partitions :
     IF wanted.run > 0
     THEN \A j \in i .. i + wanted.run - 1 :
            j \in DOMAIN h.partitions /\ is_completely_free(h, j)
     ELSE h.partitions[i].free /\ free_size(h, i) >= wanted.space}

\* The lowest one is taken, at the second try with one more table.
allocate_partition(h, wanted) ==
  {[heap |-> g, index |-> Min(scan_for(g, wanted))] :
     g \in {g \in IF scan_for(h, wanted) # {} THEN {h} ELSE add_partition_table(h) :
              scan_for(g, wanted) # {}}}

\* The partition i is taken, and becomes p.
take_partition(h, i, p) == [h EXCEPT !.free_partitions = @ - 1, !.partitions[i] = p]

allocate_temporary_partition(h) ==
  {[f EXCEPT !.heap = take_partition(f.heap, f.index,
                        [f.heap.partitions[f.index] EXCEPT !.free = FALSE, !.temporary = TRUE])]
     : f \in allocate_partition(h, Run(1))}

allocate_bitmap(h) ==
  {[heap |-> [g EXCEPT !.bitmap_allocation_pointer = @ + BITMAP_SIZE],
    bitmap |-> g.bitmap_allocation_pointer]
     : g \in IF h.bitmap_allocation_pointer % PARTITION_SIZE # 0 THEN {h}
             ELSE UNION {grow_memory([t.heap EXCEPT !.bitmap_allocation_pointer =
                                                      start_address(t.index)],
                                     end_address(t.index))
                           : t \in allocate_temporary_partition(h)}}

\* mutant: no bitmap while the collector runs
allocate_free_partition_unmarked(h, space) ==
  {[f EXCEPT !.heap = take_partition(f.heap, f.index,
                        [f.heap.partitions[f.index] EXCEPT !.free = FALSE])]
     : f \in allocate_partition(h, Space(space))}

with_bitmap(p, bitmap) == IF bitmap # NoBitmap THEN [p EXCEPT !.bitmap = bitmap] ELSE p

\* While the collector runs, the bitmap of the new partition comes first.
allocate_free_partition(h, space) ==
  UNION {{[f EXCEPT !.heap = take_partition(f.heap, f.index,
             with_bitmap([f.heap.partitions[f.index] EXCEPT !.free = FALSE], b.bitmap))]
             : f \in allocate_partition(b.heap, Space(space))}
           : b \in IF h.gc_running THEN allocate_bitmap(h)
                   ELSE {[heap |-> h, bitmap |-> NoBitmap]}}

\* The dynamic space of a partition grows up to the end of the object.
Bump(h, i, size) ==
  {[heap |-> [g EXCEPT !.partitions[i].dynamic_size = @ + size, !.allocation_index = i],
    at |-> dynamic_space_end(h, i)]
     : g \in grow_memory(h, dynamic_space_end(h, i) + size)}

allocate_in_new_partition(h, size) ==
  UNION {Bump(f.heap, f.index, size) :
           f \in allocate_free_partition(
                   [h EXCEPT !.precomputed_heap_size =
                      @ + h.partitions[h.allocation_index].dynamic_size], size)}

allocate_normal_object(h, size) ==
  IF dynamic_space_end(h, h.allocation_index) <= end_address(h.allocation_index) - size
  THEN Bump(h, h.allocation_index, size)
  ELSE allocate_in_new_partition(h, size)

partitions_length(size) == (size + PARTITION_SIZE - 1) \div PARTITION_SIZE

allocate_large_object(h, size) ==
  LET n == partitions_length(size)
      Content(i, last) == IF i = last THEN size - (n - 1) * PARTITION_SIZE ELSE PARTITION_SIZE
  IN  UNION {{[heap |-> [g EXCEPT
                 !.free_partitions = @ - n,
                 !.precomputed_heap_size = @ + size,
                 !.partitions = [i \in DOMAIN g.partitions |->
                    IF i \in f.index .. f.index + n - 1
                    THEN [g.partitions[i] EXCEPT !.free = FALSE, !.large_content = TRUE,
                            !.dynamic_size = Content(i, f.index + n - 1)]
                    ELSE g.partitions[i]]],
               at |-> dynamic_space_start(g, f.index)]
                : g \in grow_memory(f.heap, end_address(f.index + n - 1))}
               : f \in allocate_partition(h, Run(n))}

allocate(h, size) ==
  IF size <= PARTITION_SIZE THEN allocate_normal_object(h, size)
  ELSE allocate_large_object(h, size)
-----------------------------------------------------------------------------
(* Marks *)

PartitionRange(object) == index_of(object.at) .. index_of(object.at) + partitions_length(object.size) - 1
IsLarge(object) == object.size > PARTITION_SIZE

\* mutant: the last partition of a large object decides
is_object_marked_last(h, object) ==
  IF IsLarge(object) THEN h.partitions[Max(PartitionRange(object))].marked_size > 0
  ELSE object.marked

is_object_marked(h, object) ==
  IF IsLarge(object) THEN h.partitions[index_of(object.at)].marked_size > 0
  ELSE object.marked

\* The last partition of a large object has the remainder of its size.
mark_large_object(h, object) ==
  [h EXCEPT !.partitions = [i \in DOMAIN @ |->
     IF i \notin PartitionRange(object) THEN @[i]
     ELSE [@[i] EXCEPT !.marked_size =
             IF i = Max(PartitionRange(object)) THEN object.size % PARTITION_SIZE
             ELSE PARTITION_SIZE]]]

mark_object(h, object) ==
  IF IsLarge(object) THEN mark_large_object(h, object)
  ELSE [h EXCEPT !.partitions[index_of(object.at)].marked_size = @ + object.size]

\* The mark is the bit in the bitmap; for a large object, whose mark is the size
\* in its partitions, it is history.
NewObject(at, size, marked) ==
  [at |-> at, size |-> size, marked |-> marked, forwarded |-> FALSE, stale |-> FALSE]
-----------------------------------------------------------------------------
(* The iterator over the marked objects *)

NoObject == -1
NoWalk == [partition_index |-> 0, number_of_partitions |-> 0, object |-> NoObject]

ObjectAt(address) == CHOOSE o \in objects : o.at = address
Lowest(all) == IF all = {} THEN NoObject ELSE Min({o.at : o \in all})

\* Empty partitions are skipped; of a large object, only the first one counts.
start_object_iteration(h, i, n) ==
  LET next == Min({j \in i .. n - 1 : has_dynamic_space(h.partitions[j])} \cup {n})
  IN  [partition_index |-> next, number_of_partitions |-> n,
       object |-> Lowest({o \in objects : index_of(o.at) = next /\ is_object_marked(h, o)})]

new_iterator(h) == start_object_iteration(h, 0, Number(h))
has_partition(w) == w.partition_index < w.number_of_partitions
has_object(w) == w.object # NoObject

next_partition(h, w) ==
  start_object_iteration(h,
    w.partition_index + (IF h.partitions[w.partition_index].large_content
                         THEN partitions_length(ObjectAt(dynamic_space_start(h, w.partition_index)).size)
                         ELSE 1),
    w.number_of_partitions)

next_object(w) ==
  [w EXCEPT !.object = Lowest({o \in objects : /\ index_of(o.at) = w.partition_index
                                               /\ o.marked /\ o.at > w.object})]

\* The object that an increment works on, in a partition of its kind.
at_work(selected) == has_partition(walk) /\ walk.partition_index \in selected /\ has_object(walk)

to_be_evacuated(h) == {i \in DOMAIN h.partitions : h.partitions[i].evacuate}
to_be_updated(h) == {i \in DOMAIN h.partitions : h.partitions[i].update}
-----------------------------------------------------------------------------
(* The collector's operations on the heap *)

\* A partition gets a bitmap when the collector starts.
assign_bitmap(h, i) ==
  IF has_dynamic_space(h.partitions[i]) /\ ~h.partitions[i].large_content
  THEN {[b.heap EXCEPT !.partitions[i].bitmap = b.bitmap] : b \in allocate_bitmap(h)}
  ELSE {h}

Total(size(_), all) == MapThenSumSet(size, all)

\* Partitions are taken by their amount of garbage, in any order of equals, until
\* one of them does not fit into half of the free partitions there were.
plan_evacuations(h, free_partitions) ==
  LET p == h.partitions
      space == ((free_partitions + 1) \div 2) * PARTITION_SIZE
      candidates == {i \in DOMAIN p : i # h.allocation_index /\ is_evacuation_candidate(p[i])}
      marked(i) == p[i].marked_size
      planned == {chosen \in SUBSET candidates :
                    LET rest == candidates \ chosen
                    IN  /\ Total(marked, chosen) <= space
                        /\ \A i \in chosen, j \in rest :
                             garbage_amount(p[i]) >= garbage_amount(p[j])
                        /\ rest = {} \/ \E i \in rest :
                             /\ \A j \in rest : garbage_amount(p[i]) >= garbage_amount(p[j])
                             /\ Total(marked, chosen) + marked(i) > space}
  IN  {[h EXCEPT !.evacuating = @ \/ chosen # {},
                 !.partitions = [i \in DOMAIN p |-> [p[i] EXCEPT !.evacuate = @ \/ i \in chosen]]]
         : chosen \in planned}

DeadLargeObjects(h) == {o \in objects : IsLarge(o) /\ ~is_object_marked(h, o)}

free_large_objects(h, dead) ==
  LET freed == UNION {PartitionRange(o) : o \in dead}
      size(i) == h.partitions[i].dynamic_size
  IN  [h EXCEPT !.free_partitions = @ + Cardinality(freed),
                !.reclaimed = @ + Total(size, freed),
                !.precomputed_heap_size = @ - Total(size, freed),
                !.partitions = [i \in DOMAIN @ |->
                   IF i \in freed THEN Freed([@[i] EXCEPT !.update = FALSE]) ELSE @[i]]]

plan_updates(h) ==
  LET p == h.partitions
  IN  [h EXCEPT !.partitions = [i \in DOMAIN p |->
         [p[i] EXCEPT !.update = ~p[i].free /\ ~p[i].evacuate]]]

\* mutant: what has been evacuated counts as reclaimed
complete_collection_copies(h) ==
  LET p == h.partitions
      released == {i \in DOMAIN p : p[i].evacuate \/ p[i].temporary}
      size(i) == p[i].dynamic_size
      Cleared(i) == [p[i] EXCEPT !.update = FALSE, !.marked_size = 0, !.bitmap = NoBitmap]
  IN  [h EXCEPT !.reclaimed = @ + Total(size, released),
                !.precomputed_heap_size = @ - Total(size, released),
                !.free_partitions = @ + Cardinality(released),
                !.partitions = [i \in DOMAIN p |-> IF i \in released THEN Freed(Cleared(i))
                                                   ELSE Cleared(i)],
                !.evacuating = FALSE, !.evacuated_size = 0,
                !.bitmap_allocation_pointer = 0, !.gc_running = FALSE]

complete_collection(h) ==
  LET p == h.partitions
      evacuated == {i \in DOMAIN p : p[i].evacuate}
      released == {i \in DOMAIN p : p[i].evacuate \/ p[i].temporary}
      size(i) == p[i].dynamic_size
      garbage(i) == p[i].dynamic_size - p[i].marked_size
      Cleared(i) == [p[i] EXCEPT !.update = FALSE, !.marked_size = 0, !.bitmap = NoBitmap]
  IN  [h EXCEPT !.reclaimed = @ + Total(garbage, evacuated),
                !.precomputed_heap_size = @ - Total(size, released),
                !.free_partitions = @ + Cardinality(released),
                !.partitions = [i \in DOMAIN p |-> IF i \in released THEN Freed(Cleared(i))
                                                   ELSE Cleared(i)],
                !.evacuating = FALSE, !.evacuated_size = 0,
                !.bitmap_allocation_pointer = 0, !.gc_running = FALSE]

allocation_partition(h) == h.partitions[h.allocation_index]
occupied_size(h) == h.precomputed_heap_size + allocation_partition(h).dynamic_size
total_allocated_size(h) == occupied_size(h) - h.evacuated_size + h.reclaimed
-----------------------------------------------------------------------------
(* Mutator and collector.  A round of a loop of the collector is a step; a       *)
(* collection starts in one message, but its increments end anywhere.           *)

HeapInit ==
  /\ heap = new_heap /\ objects = {} /\ gc_phase = "Pause" /\ walk = NoWalk
  /\ allocated = 0

\* The mutator allocates, and the barrier marks the object if it has to be visited.
Allocate(size) ==
  /\ gc_phase # "Start" /\ allocated + size <= MaxAllocated
  /\ \E a \in allocate(heap, size) :
       \E object \in {NewObject(a.at, size, gc_phase \in {"Mark", "Evacuate"})} :
         /\ objects' = objects \cup {object}
         /\ heap' = IF gc_phase \in {"Mark", "Evacuate"} THEN mark_object(a.heap, object)
                    ELSE a.heap
  /\ allocated' = allocated + size
  /\ UNCHANGED <<gc_phase, walk>>

start_collection ==
  /\ gc_phase = "Pause" /\ gc_phase' = "Start"
  /\ heap' = [heap EXCEPT !.gc_running = TRUE]
  /\ walk' = [NoWalk EXCEPT !.number_of_partitions = Number(heap)]
  /\ UNCHANGED <<objects, allocated>>

assign_bitmaps ==
  /\ gc_phase = "Start" /\ has_partition(walk)
  /\ heap' \in assign_bitmap(heap, walk.partition_index)
  /\ walk' = [walk EXCEPT !.partition_index = @ + 1]
  /\ UNCHANGED <<objects, gc_phase, allocated>>

start_marking ==
  /\ gc_phase = "Start" /\ gc_phase' = "Mark"
  /\ ~has_partition(walk) /\ walk' = NoWalk
  /\ UNCHANGED <<heap, objects, allocated>>

\* The object is a root, or it is found in a field or by a barrier.
MarkObject ==
  /\ gc_phase = "Mark"
  /\ \E object \in objects :
       /\ ~is_object_marked(heap, object)
       /\ heap' = mark_object(heap, object)
       /\ objects' = (objects \ {object}) \cup {[object EXCEPT !.marked = TRUE]}
  /\ UNCHANGED <<gc_phase, walk, allocated>>

\* The array for the ranking is allocated while the collector runs, and not marked.
start_evacuating ==
  /\ gc_phase = "Mark" /\ gc_phase' = "Evacuate"
  /\ allocated + RANKING_SIZE <= MaxAllocated
  /\ walk' = new_iterator(heap)
  /\ \E array \in allocate(heap, RANKING_SIZE) :
       /\ heap' \in plan_evacuations(array.heap, heap.free_partitions)
       /\ objects' = objects \cup {NewObject(array.at, RANKING_SIZE, FALSE)}
  /\ allocated' = allocated + RANKING_SIZE

\* An increment leaves a partition that is not of its kind or is done.
next_in_walk ==
  /\ \/ gc_phase = "Evacuate" /\ ~at_work(to_be_evacuated(heap))
     \/ gc_phase = "Update" /\ ~at_work(to_be_updated(heap))
  /\ has_partition(walk)
  /\ walk' = next_partition(heap, walk)
  /\ UNCHANGED <<heap, objects, gc_phase, allocated>>

evacuate_object ==
  /\ gc_phase = "Evacuate" /\ at_work(to_be_evacuated(heap))
  /\ walk' = next_object(walk)
  /\ \E original \in {ObjectAt(walk.object)} : \E a \in allocate(heap, original.size) :
       \E copy \in {NewObject(a.at, original.size, TRUE)} :
         /\ heap' = mark_object([a.heap EXCEPT !.evacuated_size = @ + copy.size], copy)
         /\ objects' = (objects \ {original}) \cup {copy, [original EXCEPT !.forwarded = TRUE]}
  /\ UNCHANGED <<gc_phase, allocated>>

start_updating ==
  /\ gc_phase = "Evacuate" /\ gc_phase' = "Update"
  /\ ~has_partition(walk)
  /\ walk' = new_iterator(heap)
  /\ heap' = plan_updates(free_large_objects(heap, DeadLargeObjects(heap)))
  /\ objects' = {[o EXCEPT !.stale = is_object_marked(heap, o) /\ ~o.forwarded]
                   : o \in objects \ DeadLargeObjects(heap)}
  /\ UNCHANGED allocated

update_object ==
  /\ gc_phase = "Update" /\ at_work(to_be_updated(heap))
  /\ walk' = next_object(walk)
  /\ objects' = {IF o.at = walk.object THEN [o EXCEPT !.stale = FALSE] ELSE o : o \in objects}
  /\ UNCHANGED <<heap, gc_phase, allocated>>

complete_run ==
  /\ gc_phase = "Update" /\ gc_phase' = "Pause"
  /\ ~has_partition(walk)
  /\ walk' = NoWalk
  /\ heap' = complete_collection(heap)
  /\ objects' = {[o EXCEPT !.marked = FALSE]
                   : o \in {o \in objects : ~heap.partitions[index_of(o.at)].evacuate}}
  /\ UNCHANGED allocated

HeapNext ==
  \/ \E size \in Sizes : Allocate(size)
  \/ start_collection \/ assign_bitmaps \/ start_marking \/ MarkObject
  \/ start_evacuating \/ next_in_walk \/ evacuate_object
  \/ start_updating \/ update_object \/ complete_run

HeapSpec == HeapInit /\ [][HeapNext]_heapVars
-----------------------------------------------------------------------------
Content(i) == {o \in objects : i \in PartitionRange(o)}
SizeIn(o, i) == Min({o.at + o.size, end_address(i)}) - Max({o.at, start_address(i)})

\* The sizes that are counted beside each other agree at every moment: those of
\* the partitions with the objects in them and with the size of the whole heap
\* (check_occupied_size), the number of free partitions, the marked amount,
\* which never exceeds the dynamic size (garbage_amount), and what has been
\* allocated in total, whatever was evacuated and reclaimed meanwhile.
SizesAgree ==
  LET p == heap.partitions
      occupied(i) == p[i].static_size + p[i].dynamic_size
      static(i) == p[i].static_size
      size(o) == o.size
  IN  /\ Total(occupied, DOMAIN p) = occupied_size(heap)
      /\ heap.free_partitions = Cardinality({i \in DOMAIN p : p[i].free})
      /\ \A i \in DOMAIN p :
           LET sizeIn(o) == SizeIn(o, i)
           IN  /\ p[i].dynamic_size = Total(sizeIn, Content(i))
               /\ p[i].marked_size <= p[i].dynamic_size
               /\ ~p[i].large_content =>
                    p[i].marked_size = Total(size, {o \in Content(i) : o.marked})
      /\ total_allocated_size(heap) = Total(static, DOMAIN p) + allocated

\* Memory is used for one thing at a time: every partition with small objects
\* has a bitmap of its own in a temporary partition while the collector runs;
\* objects lie in the dynamic space of partitions in use, a large one alone in
\* its partitions; a free partition has no trace of its former use; and all of
\* it lies below the end of the memory that has been allocated.
MemoryInUse ==
  LET p == heap.partitions
      bitmap(i) == p[i].bitmap .. p[i].bitmap + BITMAP_SIZE - 1
      mapped == {i \in DOMAIN p : p[i].bitmap # NoBitmap}
  IN  /\ heap.gc_running <=> gc_phase # "Pause"
      /\ gc_phase \notin {"Pause", "Start"} =>
           \A i \in DOMAIN p : has_dynamic_space(p[i]) /\ ~p[i].large_content => i \in mapped
      /\ \A i \in mapped : /\ p[index_of(p[i].bitmap)].temporary
                           /\ Max(bitmap(i)) < heap.memory
                           /\ \A j \in mapped \ {i} : bitmap(i) \cap bitmap(j) = {}
      /\ \A i \in DOMAIN p :
           /\ p[i].temporary => heap.gc_running /\ Content(i) = {}
           /\ p[i].free => /\ Content(i) = {} /\ p[i].marked_size = 0
                           /\ ~p[i].update /\ ~p[i].evacuate /\ ~p[i].temporary
      /\ \A o \in objects :
           /\ o.at + o.size <= heap.memory
           /\ o.at >= dynamic_space_start(heap, index_of(o.at))
           /\ IsLarge(o) => /\ o.at = start_address(index_of(o.at))
                            /\ \A i \in PartitionRange(o) : p[i].large_content /\ Content(i) = {o}
      /\ \A o, q \in objects : o.at < q.at => o.at + o.size <= q.at

\* The walks over the heap leave out nothing, although partitions are allocated
\* and large objects freed during them: when the update starts, all live
\* objects of the evacuated partitions have moved, and when a collection ends,
\* all objects that survived it have been updated.  Large objects survive if
\* they were marked, of whatever size they are.
AllVisited ==
  /\ \A o \in objects : is_object_marked(heap, o) <=> o.marked
  /\ gc_phase = "Update" =>
       \A o \in objects : heap.partitions[index_of(o.at)].evacuate =>
                            (o.marked => o.forwarded)
  /\ gc_phase = "Pause" => \A o \in objects : ~o.stale
=============================================================================
