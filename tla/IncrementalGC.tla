---------------------------- MODULE IncrementalGC ----------------------------
(***************************************************************************)
(* The incremental garbage collector of the runtime system and the mutator *)
(* it interleaves with (rts/motoko-rts/src/gc/incremental.rs, its phases,  *)
(* barriers and roots; the barriers that the compiler emits).              *)
(*                                                                         *)
(* The collector marks from a snapshot, evacuates sparse partitions by     *)
(* copying their objects and leaving forwarding pointers, and updates all  *)
(* pointers.  An increment runs when the call stack is empty, at the end   *)
(* of a message, and stops after a bounded time; messages run between two  *)
(* increments in every phase.  One action here is one mutator operation of *)
(* a message or one object (one array slice) of collector work, so every   *)
(* cut that the time limit can make is explored.                           *)
(*                                                                         *)
(* An object takes one address; PARTITION_SIZE consecutive addresses form  *)
(* a partition.  The mark stack is a set: its pops may come in any order.  *)
(***************************************************************************)
EXTENDS Integers, FiniteSets

CONSTANTS
    NumPartitions,     \* partitions of the heap
    PARTITION_SIZE,    \* objects per partition
    NumFields,         \* pointer fields per object
    SLICE_INCREMENT,   \* fields that one array slice covers
    EvacuationReserve, \* free partitions that the mutator may not take
    Roots,             \* the root locations
    TransientRoots,    \* the roots that an upgrade reinitializes
    MaxRegisters,      \* bound: pointers that one message holds
    NULL_POINTER

ASSUME GCConstants ==
    /\ NumPartitions \in Nat \ {0}
    /\ PARTITION_SIZE \in Nat \ {0}
    /\ NumFields \in Nat \ {0}
    /\ SLICE_INCREMENT \in Nat \ {0}
    /\ EvacuationReserve \in Nat
    /\ MaxRegisters \in Nat
    /\ TransientRoots \subseteq Roots
    /\ NULL_POINTER \notin Int

Partitions == 0 .. NumPartitions - 1
Addresses == 0 .. NumPartitions * PARTITION_SIZE - 1
Fields == 1 .. NumFields
Pointers == Addresses \cup {NULL_POINTER}

partition_of(a) == a \div PARTITION_SIZE

Phases == {"Pause", "Mark", "Evacuate", "Update"}

VARIABLES
    phase,             \* State.phase_inner
    running_gc,        \* the global __running_gc that the barriers test
    tag,               \* object headers: the tag ("Free" where there is no object)
    slice,             \* the slice start that the tag of an array encodes
    forward,           \* object headers: the forwarding pointer
    field,             \* the pointer fields
    id,                \* history: the number of the object that an address holds
    born,              \* history: how many objects the mutator has allocated
    marked,            \* the mark bitmaps
    mark_stack,
    weak_ref_registry,
    free,              \* Partition.free
    evacuate,          \* Partition.evacuate
    update,            \* Partition.update
    allocation_index,
    iterator,          \* the address that the heap iterator has reached
    root,              \* the root locations
    regs               \* pointers that the running message holds

memory == <<tag, slice, forward, field, id, born>>
marking == <<marked, mark_stack, weak_ref_registry>>
partitions == <<free, evacuate, update, allocation_index>>
vars == <<phase, running_gc, memory, marking, partitions, iterator, root, regs>>

TypeOK ==
    /\ phase \in Phases
    /\ running_gc \in BOOLEAN
    /\ tag \in [Addresses -> {"Free", "Array", "WeakRef"}]
    /\ slice \in [Addresses -> 0 .. NumFields]
    /\ forward \in [Addresses -> Addresses]
    /\ field \in [Addresses -> [Fields -> Pointers]]
    /\ id \in [Addresses -> Nat]
    /\ born \in Nat
    /\ marked \subseteq Addresses
    /\ mark_stack \subseteq marked
    /\ weak_ref_registry \subseteq marked
    /\ free \subseteq Partitions
    /\ evacuate \subseteq Partitions
    /\ update \subseteq Partitions
    /\ allocation_index \in Partitions
    /\ iterator \in 0 .. NumPartitions * PARTITION_SIZE
    /\ root \in [Roots -> Pointers]
    /\ regs \subseteq Addresses

Objects == {a \in Addresses : tag[a] # "Free"}
NoFields == [i \in Fields |-> NULL_POINTER]

(***************************************************************************)
(* Value::forward_if_possible: scalars and null have no forwarding.        *)
(***************************************************************************)
forward_if_possible(v) == IF v = NULL_POINTER THEN v ELSE forward[v]

Init ==
    /\ phase = "Pause"
    /\ running_gc = FALSE
    /\ tag = [a \in Addresses |-> "Free"]
    /\ slice = [a \in Addresses |-> 0]
    /\ forward = [a \in Addresses |-> a]
    /\ field = [a \in Addresses |-> NoFields]
    /\ id = [a \in Addresses |-> 0]
    /\ born = 0
    /\ marked = {}
    /\ mark_stack = {}
    /\ weak_ref_registry = {}
    /\ free = Partitions \ {0}
    /\ evacuate = {}
    /\ update = {}
    /\ allocation_index = 0
    /\ iterator = 0
    /\ root = [r \in Roots |-> NULL_POINTER]
    /\ regs = {}

(***************************************************************************)
(* State::set_phase: the running flag is pushed to the global only when it *)
(* changes.                                                                *)
(***************************************************************************)
set_phase(new) ==
    /\ phase' = new
    /\ running_gc' = IF (phase # "Pause") # (new # "Pause")
                     THEN new # "Pause" ELSE running_gc

(***************************************************************************)
(* Allocation.  The allocation partition fills from its start; then the    *)
(* lowest free partition is taken.  The mutator has to leave a reserve of  *)
(* free partitions (memory_reserve), a collector increment has not.        *)
(***************************************************************************)
Unused(p) == {a \in Addresses \ Objects : partition_of(a) = p}
Lowest(S) == {a \in S : \A b \in S : a <= b}

alloc_words(a, reserve) ==
    \/ /\ a \in Lowest(Unused(allocation_index))
       /\ UNCHANGED <<free, allocation_index>>
    \/ /\ Unused(allocation_index) = {}
       /\ Cardinality(free) > reserve
       /\ \E p \in Lowest(free) :
             /\ a \in Lowest(Unused(p))
             /\ free' = free \ {p}
             /\ allocation_index' = p

(***************************************************************************)
(* MarkIncrement::mark_object, for a set of objects: the ones that become  *)
(* marked are pushed, and the weak references among them registered.       *)
(***************************************************************************)

mark_objects(S) ==
    /\ marked' = marked \cup S
    /\ mark_stack' = mark_stack \cup (S \ marked)
    /\ weak_ref_registry' = weak_ref_registry
                                \cup {w \in S \ marked : tag[w] = "WeakRef"}

(***************************************************************************)
(* The barriers.  Compiled code calls them only if running_gc is set.      *)
(***************************************************************************)
NoWriteBarrier(overwritten_value) == UNCHANGED marking  \* mutant

pre_write_barrier(overwritten_value) ==
    IF phase = "Mark" /\ overwritten_value # NULL_POINTER
    THEN mark_objects({overwritten_value})
    ELSE UNCHANGED marking

pre_read_barrier(value) ==
    IF phase = "Mark" /\ value # NULL_POINTER
    THEN mark_objects({value})
    ELSE UNCHANGED marking

(***************************************************************************)
(* post_allocation_barrier: new objects are marked, not pushed, in the     *)
(* mark and evacuation phases; in the update phase their fields are        *)
(* forwarded if anything was evacuated.                                    *)
(***************************************************************************)
MarkNewInMarkOnly(a) ==  \* mutant: unmarked if born in the evacuation phase
    /\ marked' = IF phase = "Mark" THEN marked \cup {a} ELSE marked
    /\ UNCHANGED <<mark_stack, weak_ref_registry>>

mark_new_allocation(a) ==
    /\ marked' = IF phase \in {"Mark", "Evacuate"} THEN marked \cup {a} ELSE marked
    /\ UNCHANGED <<mark_stack, weak_ref_registry>>

updates_needed == evacuate # {}

update_new_allocation(fields) ==
    IF phase = "Update" /\ updates_needed
    THEN [i \in Fields |-> forward_if_possible(fields[i])]
    ELSE fields

(***************************************************************************)
(* The mutator.                                                            *)
(***************************************************************************)
HoldsAtMost == Cardinality(regs') <= MaxRegisters

\* A message reads a root location.
LoadRoot(r) ==
    /\ root[r] # NULL_POINTER
    /\ regs' = regs \cup {root[r]}
    /\ HoldsAtMost
    /\ UNCHANGED <<phase, running_gc, memory, marking, partitions, iterator, root>>

\* Mutant: the load does not follow the forwarding pointer.
LoadFieldOfOriginal(x, i) ==
    /\ tag[x] = "Array"
    /\ field[x][i] # NULL_POINTER
    /\ regs' = regs \cup {field[x][i]}
    /\ HoldsAtMost
    /\ UNCHANGED <<phase, running_gc, memory, marking, partitions, iterator, root>>

\* A field is loaded through the forwarding pointer of its object; what it
\* holds is not resolved.
LoadField(x, i) ==
    /\ tag[forward[x]] = "Array"
    /\ field[forward[x]][i] # NULL_POINTER
    /\ regs' = regs \cup {field[forward[x]][i]}
    /\ HoldsAtMost
    /\ UNCHANGED <<phase, running_gc, memory, marking, partitions, iterator, root>>

\* weak_get: the target is loaded with the read barrier.
WeakGet(x) ==
    LET target == field[forward[x]][1] IN
    /\ tag[forward[x]] = "WeakRef"
    /\ target # NULL_POINTER
    /\ regs' = regs \cup {target}
    /\ HoldsAtMost
    /\ IF running_gc THEN pre_read_barrier(target) ELSE UNCHANGED marking
    /\ UNCHANGED <<phase, running_gc, memory, partitions, iterator, root>>

\* A field is written through the forwarding pointer of its object.
WriteField(x, i, v) ==
    LET object == forward[x]
        write(w) == field' = [field EXCEPT ![object] = [field[object] EXCEPT ![i] = w]]
    IN
    /\ tag[object] = "Array"
    /\ IF running_gc
       THEN pre_write_barrier(field[object][i]) /\ write(forward_if_possible(v))
       ELSE UNCHANGED marking /\ write(v)
    /\ UNCHANGED <<phase, running_gc, tag, slice, forward, id, born, partitions,
                   iterator, root, regs>>

\* The runtime writes a root location; it always takes the barrier.
WriteRoot(r, v) ==
    /\ pre_write_barrier(root[r])
    /\ root' = [root EXCEPT ![r] = forward_if_possible(v)]
    /\ UNCHANGED <<phase, running_gc, memory, partitions, iterator, regs>>

\* The history variables number the objects in the order of their birth.
new_object(a, t, fields) ==
    /\ tag' = [tag EXCEPT ![a] = t]
    /\ field' = [field EXCEPT ![a] = fields]
    /\ id' = [id EXCEPT ![a] = born + 1]
    /\ born' = born + 1
    /\ regs' = regs \cup {a}
    /\ HoldsAtMost

\* Compiled code allocates an object, stores its fields unresolved and calls
\* the allocation barrier.
Allocate(a, fields) ==
    /\ alloc_words(a, EvacuationReserve)
    /\ IF running_gc
       THEN /\ mark_new_allocation(a)
            /\ new_object(a, "Array", update_new_allocation(fields))
       ELSE new_object(a, "Array", fields) /\ UNCHANGED marking
    /\ UNCHANGED <<phase, running_gc, slice, forward, evacuate, update, iterator, root>>

\* The runtime's alloc_weak_ref resolves the target, and its barrier does not
\* depend on running_gc.
AllocateWeakRef(a, target) ==
    /\ alloc_words(a, EvacuationReserve)
    /\ mark_new_allocation(a)
    /\ new_object(a, "WeakRef", update_new_allocation(
                     [NoFields EXCEPT ![1] = forward_if_possible(target)]))
    /\ UNCHANGED <<phase, running_gc, slice, forward, evacuate, update, iterator, root>>

\* A message ends: its call stack is gone.
EndMessage ==
    /\ regs # {}
    /\ regs' = {}
    /\ UNCHANGED <<phase, running_gc, memory, marking, partitions, iterator, root>>

\* Mutant: the new instance starts with its flag as it was reset.
UpgradeWithoutResync ==
    /\ regs = {}
    /\ root' = [r \in Roots |-> IF r \in TransientRoots THEN NULL_POINTER ELSE root[r]]
    /\ running_gc' = FALSE
    /\ UNCHANGED <<phase, memory, marking, partitions, iterator, regs>>

(***************************************************************************)
(* An upgrade keeps the heap and the collector's state.  The instantiation *)
(* resets the globals of the program, which initialize_incremental_gc      *)
(* resynchronizes before any barrier runs.                                 *)
(***************************************************************************)
Upgrade ==
    /\ regs = {}
    /\ root' = [r \in Roots |-> IF r \in TransientRoots THEN NULL_POINTER ELSE root[r]]
    /\ running_gc' = (phase # "Pause")
    /\ UNCHANGED <<phase, memory, marking, partitions, iterator, regs>>

(***************************************************************************)
(* The mark phase.                                                         *)
(***************************************************************************)
Targets(S) == S \ {NULL_POINTER}

start_marking ==
    /\ regs = {}
    /\ phase = "Pause"
    /\ set_phase("Mark")
    /\ mark_objects(Targets({root[r] : r \in Roots}))
    /\ UNCHANGED <<memory, partitions, iterator, root, regs>>

\* slice_array: the end of the slice that starts at slice[a]; only arrays are
\* visited in slices.
slice_stop(a) == IF tag[a] = "Array" /\ NumFields - slice[a] > SLICE_INCREMENT
                 THEN slice[a] + SLICE_INCREMENT ELSE NumFields

\* Visit one slice: an unfinished array stays on the stack, with the start of
\* its next slice in its tag.
next_slice(a) ==
    slice' = [slice EXCEPT ![a] = IF slice_stop(a) < NumFields THEN slice_stop(a) ELSE 0]

SliceFields(a) == slice[a] + 1 .. slice_stop(a)

MarkFieldsRepush(a) ==  \* mutant: a finished array is pushed again
    LET reached == Targets({field[a][i] : i \in SliceFields(a)}) IN
    /\ marked' = marked \cup reached
    /\ mark_stack' = mark_stack \cup (reached \ marked)
    /\ weak_ref_registry' = weak_ref_registry
                                \cup {w \in reached \ marked : tag[w] = "WeakRef"}
    /\ next_slice(a)

mark_fields(a) ==
    LET reached == Targets({field[a][i] : i \in SliceFields(a)}) IN
    /\ marked' = marked \cup reached
    /\ mark_stack' = (mark_stack \ {a}) \cup (reached \ marked)
                         \cup (IF slice_stop(a) < NumFields THEN {a} ELSE {})
    /\ weak_ref_registry' = weak_ref_registry
                                \cup {w \in reached \ marked : tag[w] = "WeakRef"}
    /\ next_slice(a)

\* The target of a weak reference is not visited.
mark_increment(a) ==
    /\ regs = {}
    /\ phase = "Mark"
    /\ IF tag[a] = "WeakRef"
       THEN mark_stack' = mark_stack \ {a} /\ UNCHANGED <<marked, weak_ref_registry, slice>>
       ELSE mark_fields(a)
    /\ UNCHANGED <<phase, running_gc, tag, forward, field, id, born, partitions,
                   iterator, root, regs>>

\* complete_marking clears the registered weak references whose target is
\* not marked.
complete_marking ==
    field' = [a \in Addresses |->
                IF a \in weak_ref_registry /\ field[a][1] \notin marked
                THEN NoFields ELSE field[a]]

(***************************************************************************)
(* plan_evacuations: the candidates, ranked by garbage, until one does not *)
(* fit into half of the free partitions.  The sort leaves the order of     *)
(* equal partitions open.                                                  *)
(***************************************************************************)
In(S, P) == {a \in S : partition_of(a) \in P}
marked_size(p) == Cardinality(In(marked, {p}))
dynamic_size(p) == Cardinality(In(Objects, {p}))
garbage_amount(p) == dynamic_size(p) - marked_size(p)

is_evacuation_candidate(p) ==
    /\ p \notin free
    /\ dynamic_size(p) > 0
    /\ 100 * marked_size(p) <= 85 * PARTITION_SIZE

plan_evacuations ==
    LET candidates == {p \in Partitions \ {allocation_index} : is_evacuation_candidate(p)}
        space == ((Cardinality(free) + 1) \div 2) * PARTITION_SIZE
        first(E, p) == \A q \in candidates \ E : garbage_amount(p) >= garbage_amount(q)
    IN {E \in SUBSET candidates :
           /\ \A p \in E : first(E, p)
           /\ Cardinality(In(marked, E)) <= space
           /\ \/ E = candidates
              \/ \E p \in candidates \ E :
                    first(E, p) /\ Cardinality(In(marked, E \cup {p})) > space}

\* The mark stack is empty: the phase completes, and the same increment plans
\* the evacuation.
start_evacuating ==
    /\ regs = {}
    /\ phase = "Mark"
    /\ mark_stack = {}
    /\ complete_marking
    /\ weak_ref_registry' = {}
    /\ set_phase("Evacuate")
    /\ evacuate' \in plan_evacuations
    /\ iterator' = 0
    /\ UNCHANGED <<tag, slice, forward, id, born, marked, mark_stack, free, update,
                   allocation_index, root, regs>>

(***************************************************************************)
(* The heap iterator: the marked objects of the flagged partitions from    *)
(* the address that it has reached.                                        *)
(***************************************************************************)
Remaining(P) == {a \in In(marked, P) : a >= iterator}
CurrentObject(P) == Lowest(Remaining(P))

\* Mutant: the payload of the original is cleared.
EvacuateAndClear(original, copy) ==
    /\ tag' = [tag EXCEPT ![copy] = tag[original]]
    /\ slice' = [slice EXCEPT ![copy] = slice[original]]
    /\ field' = [field EXCEPT ![copy] = field[original], ![original] = NoFields]
    /\ id' = [id EXCEPT ![copy] = id[original]]
    /\ forward' = [forward EXCEPT ![copy] = copy, ![original] = copy]
    /\ marked' = marked \cup {copy}
    /\ UNCHANGED <<mark_stack, weak_ref_registry>>

\* evacuate_object: copy, forward the original, and mark the copy.
evacuate_object(original, copy) ==
    /\ tag' = [tag EXCEPT ![copy] = tag[original]]
    /\ slice' = [slice EXCEPT ![copy] = slice[original]]
    /\ field' = [field EXCEPT ![copy] = field[original]]
    /\ id' = [id EXCEPT ![copy] = id[original]]
    /\ forward' = [forward EXCEPT ![copy] = copy, ![original] = copy]
    /\ marked' = marked \cup {copy}
    /\ UNCHANGED <<mark_stack, weak_ref_registry>>

evacuation_increment(original, copy) ==
    /\ regs = {}
    /\ phase = "Evacuate"
    /\ original \in CurrentObject(evacuate)
    /\ alloc_words(copy, 0)
    /\ evacuate_object(original, copy)
    /\ iterator' = original + 1
    /\ UNCHANGED <<phase, running_gc, born, evacuate, update, root, regs>>

\* Nothing is left to evacuate: plan_updates, and update_roots.
start_updating ==
    /\ regs = {}
    /\ phase = "Evacuate"
    /\ Remaining(evacuate) = {}
    /\ set_phase("Update")
    /\ update' = Partitions \ (free \cup evacuate)
    /\ iterator' = 0
    /\ root' = [r \in Roots |-> forward_if_possible(root[r])]
    /\ UNCHANGED <<memory, marking, free, evacuate, allocation_index, regs>>

\* update_fields: one slice of the current object; the iterator stays on an
\* array until its last slice.
update_fields(a) ==
    /\ field' = [field EXCEPT ![a] =
                    [i \in Fields |-> IF i \in SliceFields(a)
                                      THEN forward_if_possible(field[a][i])
                                      ELSE field[a][i]]]
    /\ next_slice(a)
    /\ iterator' = IF slice_stop(a) < NumFields THEN a ELSE a + 1

update_increment(a) ==
    /\ regs = {}
    /\ phase = "Update"
    /\ a \in CurrentObject(update)
    /\ IF updates_needed
       THEN update_fields(a)
       ELSE iterator' = a + 1 /\ UNCHANGED <<field, slice>>
    /\ UNCHANGED <<phase, running_gc, tag, forward, id, born, marking, partitions, root, regs>>

\* Mutant: the mark bitmaps of the kept partitions are not released.
CompleteKeepsMarks ==
    LET freed == In(Addresses, evacuate) IN
    /\ regs = {}
    /\ phase = "Update"
    /\ Remaining(update) = {}
    /\ set_phase("Pause")
    /\ tag' = [a \in Addresses |-> IF a \in freed THEN "Free" ELSE tag[a]]
    /\ slice' = [a \in Addresses |-> IF a \in freed THEN 0 ELSE slice[a]]
    /\ forward' = [a \in Addresses |-> IF a \in freed THEN a ELSE forward[a]]
    /\ field' = [a \in Addresses |-> IF a \in freed THEN NoFields ELSE field[a]]
    /\ id' = [a \in Addresses |-> IF a \in freed THEN 0 ELSE id[a]]
    /\ marked' = marked \ freed
    /\ free' = free \cup evacuate
    /\ evacuate' = {}
    /\ update' = {}
    /\ iterator' = 0
    /\ UNCHANGED <<born, mark_stack, weak_ref_registry, allocation_index, root, regs>>

\* complete_collection: the evacuated partitions become free.
complete_run ==
    LET freed == In(Addresses, evacuate) IN
    /\ regs = {}
    /\ phase = "Update"
    /\ Remaining(update) = {}
    /\ set_phase("Pause")
    /\ tag' = [a \in Addresses |-> IF a \in freed THEN "Free" ELSE tag[a]]
    /\ slice' = [a \in Addresses |-> IF a \in freed THEN 0 ELSE slice[a]]
    /\ forward' = [a \in Addresses |-> IF a \in freed THEN a ELSE forward[a]]
    /\ field' = [a \in Addresses |-> IF a \in freed THEN NoFields ELSE field[a]]
    /\ id' = [a \in Addresses |-> IF a \in freed THEN 0 ELSE id[a]]
    /\ marked' = {}
    /\ free' = free \cup evacuate
    /\ evacuate' = {}
    /\ update' = {}
    /\ iterator' = 0
    /\ UNCHANGED <<born, mark_stack, weak_ref_registry, allocation_index, root, regs>>

(***************************************************************************)
(* The specification.                                                      *)
(***************************************************************************)
Held == regs \cup {NULL_POINTER}

Reads ==
    \/ \E r \in Roots : LoadRoot(r)
    \/ \E x \in regs, i \in Fields : LoadField(x, i)
    \/ \E x \in regs : WeakGet(x)

Writes ==
    \/ \E x \in regs, i \in Fields, v \in Held : WriteField(x, i, v)
    \/ \E r \in Roots, v \in Held : WriteRoot(r, v)
    \/ \E a \in Addresses \ Objects, fields \in [Fields -> Held] : Allocate(a, fields)
    \/ \E a \in Addresses \ Objects, target \in regs : AllocateWeakRef(a, target)

Increment ==
    \/ \E a \in mark_stack : mark_increment(a)
    \/ start_evacuating
    \/ \E original \in marked, copy \in Addresses \ Objects :
          evacuation_increment(original, copy)
    \/ start_updating
    \/ \E a \in marked : update_increment(a)
    \/ complete_run

Next == Reads \/ Writes \/ EndMessage \/ Upgrade \/ start_marking \/ Increment

Spec == Init /\ [][Next]_vars

\* The program keeps receiving messages, each message ends, and at its end an
\* active collector runs an increment.
Fairness == WF_vars(EndMessage) /\ SF_vars(Increment)

(***************************************************************************)
(* Safety.                                                                 *)
(***************************************************************************)
RootTargets == Targets({root[r] : r \in Roots})

\* A set of addresses that the mutator cannot leave: it follows forwarding
\* pointers and the fields of the objects that it finds there.
Closed(L) ==
    \A a \in L : /\ forward[a] \in L
               /\ \A i \in Fields : field[forward[a]][i] \in L \cup {NULL_POINTER}

\* No pointer that the mutator can get at, through roots, fields and weak
\* references, ever points to freed memory.
NoDangling ==
    \E L \in SUBSET Objects : RootTargets \cup regs \subseteq L /\ Closed(L)

\* Snapshot-at-the-beginning.  Take any set C that contains the gray objects
\* and whatever the unvisited fields of its unmarked and gray objects point to:
\* all that the mutator holds, and all that a marked object points to, is
\* marked or in C.  So no unmarked object is lost from the collector's sight.
\* Only the registered weak references may point elsewhere.
Unvisited(a) == IF a \in marked THEN slice[a] + 1 .. NumFields ELSE Fields
GrayClosed(C) ==
    /\ mark_stack \subseteq C
    /\ \A a \in C : (a \notin marked \/ a \in mark_stack) /\ tag[a] # "WeakRef" =>
          \A i \in Unvisited(a) : field[a][i] \in C \cup marked \cup {NULL_POINTER}
SnapshotAtTheBeginning ==
    phase = "Mark" =>
        \A C \in SUBSET Addresses : GrayClosed(C) =>
            /\ RootTargets \cup regs \subseteq C \cup marked
            /\ \A a \in marked \ weak_ref_registry :
                  \A i \in Fields : field[a][i] \in C \cup marked \cup {NULL_POINTER}

\* The sanity check at the end of marking: in the evacuation phase all that the
\* mutator can get at, weak references included, is marked.
MarkedAfterMarking ==
    phase = "Evacuate" =>
        /\ RootTargets \cup regs \subseteq marked
        /\ \A a \in marked : \A i \in Fields : field[a][i] \in marked \cup {NULL_POINTER}

\* The flag that lets compiled code skip the barriers is never stale.
RunningFlagCurrent == running_gc = (phase # "Pause")

\* weak_ref_is_live does not resolve the forwarding of the weak reference: the
\* copy that it looks at answers like the current one.
WeakRefIsLiveAgrees ==
    \A a \in marked : tag[a] = "WeakRef" =>
        (field[a][1] = NULL_POINTER) = (field[forward[a]][1] = NULL_POINTER)

(***************************************************************************)
(* The inductive invariant behind NoDangling: in the pause and the mark    *)
(* phase nothing is forwarded; from the evacuation on, all that is live is *)
(* marked or born since, and the pointers that the update phase has passed *)
(* lead out of the evacuated partitions.                                   *)
(***************************************************************************)
Kept(a) == partition_of(a) \notin evacuate

Structure ==
    /\ \A a \in Addresses \ Objects : forward[a] = a /\ slice[a] = 0 /\ field[a] = NoFields
    /\ \A a \in Objects : partition_of(a) \in Partitions \ free
    /\ \A a \in Addresses : tag[a] = "WeakRef" =>
          slice[a] = 0 /\ \A i \in Fields \ {1} : field[a][i] = NULL_POINTER
    /\ marked \subseteq Objects
    /\ \A a \in weak_ref_registry : tag[a] = "WeakRef"
    /\ phase # "Mark" => mark_stack = {} /\ weak_ref_registry = {}
    /\ phase = "Pause" => marked = {}
    /\ phase \in {"Pause", "Mark"} => evacuate = {}
    /\ allocation_index \notin free \cup evacuate
    /\ free \cap evacuate = {}

SlicesCurrent ==
    \A a \in Addresses : slice[a] # 0 =>
        \/ phase = "Mark" /\ a \in mark_stack
        \/ /\ phase = "Update" /\ updates_needed
           /\ a = iterator /\ a \in In(marked, update)

Forwarding ==
    \A a \in Addresses : forward[a] # a =>
        /\ a \in marked /\ ~Kept(a)
        /\ forward[a] \in marked /\ Kept(forward[a])

\* The evacuated partitions have been copied up to the iterator.
Evacuated ==
    \A a \in marked :
        ~Kept(a) /\ (phase = "Evacuate" => a < iterator) => forward[a] # a

\* N: the objects that were allocated during the update phase.
UpdatedUpTo(N) ==
    /\ \A a \in N : Kept(a)
    /\ regs \subseteq marked \cup N
    /\ \A p \in RootTargets : p \in marked \cup N /\ Kept(p)
    /\ \A a \in marked \cup N, i \in Fields :
          field[a][i] # NULL_POINTER =>
              /\ field[a][i] \in marked \cup N
              /\ (a \in N \/ (Kept(a) /\ (a < iterator \/ (a = iterator /\ i <= slice[a]))))
                    => Kept(field[a][i])

Updating ==
    phase = "Update" =>
        /\ \A a \in marked : Kept(a) => partition_of(a) \in update
        /\ \E N \in SUBSET (Objects \ marked) : UpdatedUpTo(N)

\* What the collector has marked is live too, or was when it was marked.
LiveWhileMarking ==
    phase \in {"Pause", "Mark"} =>
        \E L \in SUBSET Objects : RootTargets \cup regs \cup marked \subseteq L /\ Closed(L)

IInv ==
    /\ TypeOK
    /\ RunningFlagCurrent
    /\ Structure
    /\ SlicesCurrent
    /\ Forwarding
    /\ Evacuated
    /\ LiveWhileMarking
    /\ SnapshotAtTheBeginning
    /\ MarkedAfterMarking
    /\ Updating

(***************************************************************************)
(* Liveness: a collection that has started completes.                      *)
(***************************************************************************)
RunCompletes == phase # "Pause" ~> phase = "Pause"
==============================================================================
