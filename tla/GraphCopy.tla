----------------------------- MODULE GraphCopy -----------------------------
(***************************************************************************)
(* Graph-copy stabilization of the runtime system                          *)
(* (rts/motoko-rts/src/stabilization): Cheney's algorithm copies the       *)
(* objects reachable from the stable roots from the heap to stable memory, *)
(* in increments over several messages; after the upgrade the copy is read *)
(* back by a second graph copy with a scan stack, and cleared.             *)
(*                                                                         *)
(* Stable memory is an array of cells.  A cell is a record [k, v]; pointers *)
(* have k = "ptr" in the heap, in unscanned copies (a heap object) and in  *)
(* scanned copies (an offset from the start of the copy), as in the code.  *)
(* Objects are arrays, objects whose hash blob determines their size,      *)
(* blobs and closures; the other layouts have a fixed number of fields.    *)
(***************************************************************************)
EXTENDS Integers, Sequences, FiniteSets, SequencesExt

CONSTANTS Heaps,            \* object graphs: sequences of [kind, body]
          RootSets,         \* actor, dedup table, migrations list (0: null)
          PageCells,        \* PAGE_SIZE
          RecordCells,      \* size of LastPageRecord
          DescriptorSizes,  \* sizes of the type descriptor
          RawPages,         \* logical sizes of the stable memory in pages
          SparePages,       \* physical pages behind them, from earlier upgrades
          SliceIncrement,   \* SLICE_INCREMENT of slice_array
          ClearChunk        \* MAX_CHUNK_SIZE of the cleanup

VARIABLES phase, heap,
          memory,           \* stable memory
          start, scan, free, slice,
          descriptor,       \* type descriptor the running program knows
          record,           \* content of the LastPageRecord
          target,           \* the heap of the new program
          stack, roots, clear_position,
          given             \* history: what there was before the upgrade

copyVars == <<phase, heap, memory, start, scan, free, slice, descriptor, record,
              target, stack, roots, clear_position, given>>

cell(k, v) == [k |-> k, v |-> v]
ZeroCell == cell("zero", 0)
DUMMY_VALUE == cell("dummy", 0)
NoSlice == [next_index |-> 0, array_length |-> 0]
Null == -1
Cells(k, n) == [i \in 1 .. n |-> cell(k, i)]
-----------------------------------------------------------------------------
(* Layouts: which cells of an object update_pointers and the dynamic scan  *)
(* translate.                                                              *)
StableMutBox == <<TRUE>>
StableSome == <<TRUE>>
StableWeakRef == <<TRUE>>
StableVariant == <<FALSE, TRUE>>
StableConcat_first == <<FALSE, TRUE, FALSE>>   \* mutant: text2 is not translated
StableConcat == <<FALSE, TRUE, TRUE>>
StableRegion == <<FALSE, FALSE, TRUE>>
StableBits64 == <<FALSE>>
StableArray(length) == [i \in 1 .. length |-> TRUE]
StableObject(size) == [i \in 1 .. 1 + size |-> TRUE]   \* the hash blob first
StableBlob(length) == [i \in 1 .. length |-> FALSE]

pointerFields(kind, length) ==
  CASE kind = "mutbox"  -> StableMutBox
    [] kind = "some"    -> StableSome
    [] kind = "weakref" -> StableWeakRef
    [] kind = "variant" -> StableVariant
    [] kind = "concat"  -> StableConcat
    [] kind = "region"  -> StableRegion
    [] kind = "bits64"  -> StableBits64
    [] kind = "array"   -> StableArray(length)
    [] kind = "object"  -> StableObject(length)
    [] kind = "blob"    -> StableBlob(length)

StableKinds == {"mutbox", "some", "weakref", "variant", "concat", "region", "bits64",
                "array", "object", "blob"}

\* The value of field i of an object, that may look like a pointer but be data.
Points(obj, i) ==
  /\ obj.body[i].k = "ptr"
  /\ <<obj.kind, i>> \notin {<<"variant", 1>>, <<"concat", 1>>, <<"region", 1>>,
                            <<"region", 2>>, <<"bits64", 1>>}
  /\ obj.kind # "blob"

\* An object graph with its roots: objects have the fields of their layout and an
\* object those its hash blob has entries for, and pointers lead to objects.
GraphOK(h, r) ==
  /\ h \in Seq([kind : StableKinds \cup {"closure"}, body : Seq([k : {"ptr", "data"}, v : Int])])
  /\ \A o \in DOMAIN h : h[o].kind # "closure" =>
       /\ \A i \in DOMAIN h[o].body : Points(h[o], i) => h[o].body[i].v \in DOMAIN h
       /\ h[o].kind \notin {"array", "object", "blob"} =>
            Len(h[o].body) = Len(pointerFields(h[o].kind, 0))
       /\ h[o].kind = "object" =>
            /\ h[o].body # <<>> /\ Points(h[o], 1)
            /\ h[h[o].body[1].v].kind = "blob"
            /\ Len(h[h[o].body[1].v].body) = Len(h[o].body) - 1
  /\ r \in [1 .. 3 -> 0 .. Len(h)]
  /\ \A i \in 1 .. 3 : r[i] # 0 => h[r[i]].kind # "closure"

ASSUME CopyConstants ==
  /\ PageCells \in Nat \ {0} /\ RecordCells \in Nat \ {0} /\ RecordCells < PageCells
  /\ DescriptorSizes \subseteq Nat /\ RawPages \subseteq Nat /\ SparePages \subseteq Nat
  /\ SliceIncrement \in Nat \ {0} /\ ClearChunk \in Nat \ {0}
  /\ \A h \in Heaps, r \in RootSets : GraphOK(h, r)
-----------------------------------------------------------------------------
(* Stable memory is a sequence, the cell with address p at index p + 1.    *)
AlignUp(offset) == ((offset + PageCells - 1) \div PageCells) * PageCells
Zeros(n) == [i \in 1 .. n |-> ZeroCell]
Read(mem, at, length) == SubSeq(mem, at + 1, at + length)

\* grant_stable_space grows it by whole pages.
Write(mem, at, cells) ==
  LET end == at + Len(cells)
      granted == IF AlignUp(end) > Len(mem) THEN mem \o Zeros(AlignUp(end) - Len(mem)) ELSE mem
  IN  Read(granted, 0, at) \o cells \o SubSeq(granted, end + 1, Len(granted))

clear_stable_memory(mem, at, length) == Write(mem, at, Zeros(length))
align_page_start(mem, offset) == clear_stable_memory(mem, offset, AlignUp(offset) - offset)
-----------------------------------------------------------------------------
(* Serialization; s has the heap, the memory and the free address.         *)

\* The hash blob tells the size of an object, but may have been copied before.
get_object_size(s, o) ==
  LET blob == s.heap[s.heap[o].body[1].v]
  IN  IF blob.kind = "fwd" THEN s.mem[start + blob.fwd + 1].v ELSE Len(blob.body)

serialize(s, o) ==
  LET obj == s.heap[o]
  IN  IF obj.kind = "object"
      THEN <<cell("object", get_object_size(s, o))>>
           \o SubSeq(obj.body, 1, 1 + get_object_size(s, o))
      ELSE <<cell(obj.kind, Len(obj.body))>> \o obj.body

\* GraphCopy.evacuate: copy the object unless it has been forwarded.
evacuate(s, o) ==
  IF s.heap[o].kind = "fwd" THEN s
  ELSE [heap |-> [s.heap EXCEPT ![o] = [kind |-> "fwd", fwd |-> s.free - start]],
        mem  |-> Write(s.mem, s.free, serialize(s, o)),
        free |-> s.free + Len(serialize(s, o))]

\* The translation Serialization.scan passes to scan_serialized.
translate(s, p) ==
  LET c == s.mem[p + 1]
      e == evacuate(s, c.v)
  IN  IF c.k # "ptr" THEN s
      ELSE IF s.heap[c.v].kind = "closure" THEN [s EXCEPT !.mem[p + 1] = DUMMY_VALUE]
      ELSE [e EXCEPT !.mem[p + 1] = cell("ptr", e.heap[c.v].fwd)]

translateAll(s, at, fields) ==
  LET after[i \in 0 .. Len(fields)] ==
        IF i = 0 THEN s
        ELSE CHOOSE v \in {IF fields[i] THEN translate(r, at + (i - 1)) ELSE r :
                             r \in {after[i - 1]}} : TRUE
  IN  after[Len(fields)]

Here == [heap |-> heap, mem |-> memory, free |-> free]
Becomes(s) == heap' = s.heap /\ memory' = s.mem /\ free' = s.free

evacuateRoot(s, o) == IF o = 0 THEN s ELSE evacuate(s, o)

start_graph_stabilization ==
  /\ phase = "running"
  /\ \E r \in {evacuateRoot(Here, roots[1])} : \E t \in {evacuateRoot(r, roots[2])} :
     \E s \in {evacuateRoot(t, roots[3])} :
         /\ Becomes(s)
         /\ roots' = [i \in 1 .. 3 |-> IF roots[i] = 0 THEN Null ELSE s.heap[roots[i]].fwd]
  /\ phase' = "serialize"
  /\ UNCHANGED <<start, scan, slice, descriptor, record, target, stack,
                 clear_position, given>>

\* The elements of the array at the scan address, until its end or, the time
\* being over, until any element; the next scan resumes there.
sliced_array_scan(at, index, length) ==
  \E n \in (IF index = length THEN {0} ELSE 1 .. length - index) :
    /\ Becomes(translateAll(Here, at, pointerFields("array", n)))
    /\ scan' = at + n
    /\ slice' = IF index + n < length
                THEN [next_index |-> index + n, array_length |-> length] ELSE NoSlice

resume_scanning == /\ slice # NoSlice
                   /\ sliced_array_scan(scan, slice.next_index, slice.array_length)

scan_serialized ==
  /\ slice = NoSlice
  /\ LET header == memory[scan + 1]
         fields == pointerFields(header.k, header.v)
     IN  IF header.k = "array" THEN sliced_array_scan(scan + 1, 0, header.v)
         ELSE /\ Becomes(translateAll(Here, scan + 1, fields))
              /\ scan' = scan + 1 + Len(fields)
              /\ slice' = slice

graph_stabilization_increment ==
  /\ phase = "serialize" /\ scan < free
  /\ resume_scanning \/ scan_serialized
  /\ UNCHANGED <<phase, start, descriptor, record, target, stack, roots,
                 clear_position, given>>

\* StabilizationMetadata::store: padding, type descriptor with its length,
\* padding, and the record at the end of the last physical page.
metadata_location(mem) == Len(mem) - RecordCells

store ==
  /\ phase = "serialize" /\ scan = free
  /\ LET at     == AlignUp(free)
         typed  == Write(align_page_start(memory, free), at,
                         <<cell("length", Len(descriptor))>> \o descriptor)
         padded == align_page_start(typed, at + 1 + Len(descriptor))
     IN  /\ record' = [start |-> start, length |-> free - start, descriptor |-> at,
                       roots |-> roots, first |-> padded[1]]
         /\ memory' = Write([padded EXCEPT ![1] = ZeroCell], metadata_location(padded),
                            Cells("record", RecordCells))
  /\ phase' = "stored"
  /\ UNCHANGED <<heap, start, scan, free, slice, descriptor, target, stack, roots,
                 clear_position, given>>
-----------------------------------------------------------------------------
(* Deserialization; s has the memory, the target heap and the scan stack.  *)
(* The forward address overwrites the header of the object in stable       *)
(* memory, and the copy has the offsets until it is scanned.               *)
evacuateBack(s, offset) ==
  LET at == record.start + offset
      header == s.mem[at + 1]
      body == Read(s.mem, at + 1, Len(pointerFields(header.k, header.v)))
  IN  IF header.k = "fwd" THEN s
      ELSE [mem    |-> [s.mem EXCEPT ![at + 1] = cell("fwd", Len(s.target) + 1)],
            target |-> Append(s.target, [kind |-> header.k, body |-> body, slice |-> 0]),
            stack  |-> Append(s.stack, Len(s.target) + 1)]

forwarded(s, offset) == s.mem[record.start + offset + 1].v
evacuateRootBack(s, offset) == IF offset = Null THEN s ELSE evacuateBack(s, offset)

Now == [mem |-> memory, target |-> target, stack |-> stack]
Moves(s) == memory' = s.mem /\ target' = s.target /\ stack' = s.stack

\* read_length and read_blob clear what they have read.
load_type_descriptor_data(mem, at, length) == clear_stable_memory(mem, at + 1, length) \* mutant: not the length
load_type_descriptor(mem, at, length) == clear_stable_memory(mem, at, 1 + length)

\* StabilizationMetadata::load in the new program: the record is cleared, the
\* first word restored, the descriptor read and cleared; then the roots.
start_graph_destabilization ==
  /\ phase = "stored"
  /\ LET cleared  == clear_stable_memory(memory, metadata_location(memory), RecordCells)
         restored == [cleared EXCEPT ![1] = record.first]
         at       == record.descriptor
         length   == restored[at + 1].v
         loaded   == load_type_descriptor(restored, at, length)
         none == [mem |-> loaded, target |-> <<>>, stack |-> <<>>]
     IN  \E r \in {evacuateRootBack(none, record.roots[1])} :
         \E t \in {evacuateRootBack(r, record.roots[2])} :
         \E s \in {evacuateRootBack(t, record.roots[3])} :
         /\ descriptor' = Read(restored, at + 1, length)
         /\ Moves(s)
         /\ roots' = [i \in 1 .. 3 |-> IF record.roots[i] = Null THEN 0
                                       ELSE forwarded(s, record.roots[i])]
  /\ heap' = <<>> /\ scan' = 0 /\ free' = 0
  /\ clear_position' = record.start
  /\ phase' = "deserialize"
  /\ UNCHANGED <<start, slice, record, given>>

visitField(s, o, i) ==
  LET c == s.target[o].body[i]
      e == evacuateBack(s, c.v)
  IN  IF c.k # "ptr" THEN s ELSE [e EXCEPT !.target[o].body[i] = cell("ptr", forwarded(e, c.v))]

visitFields(s, o, from, fields) ==
  LET after[i \in 0 .. Len(fields)] ==
        IF i = 0 THEN s
        ELSE CHOOSE v \in {IF fields[i] THEN visitField(r, o, from + i) ELSE r :
                             r \in {after[i - 1]}} : TRUE
  IN  after[Len(fields)]

\* mutant: the rest of a long array is not pushed back
scanArray_once(s, o) ==
  LET count == IF Len(s.target[o].body) > SliceIncrement THEN SliceIncrement
               ELSE Len(s.target[o].body)
  IN  visitFields(s, o, 0, pointerFields("array", count))

\* slice_array: a long array is pushed back before its next slice is visited.
scanArray(s, o) ==
  LET first == s.target[o].slice
      length == Len(s.target[o].body)
      stop == first + SliceIncrement
  IN  IF length - first > SliceIncrement
      THEN visitFields([s EXCEPT !.target[o].slice = stop, !.stack = Append(@, o)],
                       o, first, pointerFields("array", SliceIncrement))
      ELSE visitFields([s EXCEPT !.target[o].slice = 0], o, first,
                       pointerFields("array", length - first))

\* The hash blob is visited first: it tells how many fields follow.
scanObject(s, o) ==
  LET first == visitField(s, o, 1)
  IN  visitFields(first, o, 1,
                  [i \in 1 .. Len(first.target[first.target[o].body[1].v].body) |-> TRUE])

scan_deserialized(s, o) ==
  CASE s.target[o].kind = "array"  -> scanArray(s, o)
    [] s.target[o].kind = "object" -> scanObject(s, o)
    [] OTHER -> visitFields(s, o, 0, pointerFields(s.target[o].kind, Len(s.target[o].body)))

graph_destabilization_increment ==
  /\ phase = "deserialize" /\ stack # <<>>
  /\ Moves(scan_deserialized([Now EXCEPT !.stack = Front(stack)], Last(stack)))
  /\ UNCHANGED <<phase, heap, start, scan, free, slice, descriptor, record, roots,
                 clear_position, given>>

\* mutant: the position does not advance
cleanup_stuck ==
  /\ phase = "deserialize" /\ stack = <<>>
  /\ memory' = clear_stable_memory(memory, clear_position, 1)
  /\ UNCHANGED <<phase, heap, start, scan, free, slice, descriptor, record, target,
                 stack, roots, clear_position, given>>

cleanup ==
  /\ phase = "deserialize" /\ stack = <<>>
  /\ LET end == record.start + record.length
         chunk == IF end - clear_position < ClearChunk THEN end - clear_position
                  ELSE ClearChunk
     IN  /\ memory' = clear_stable_memory(memory, clear_position, chunk)
         /\ clear_position' = clear_position + chunk
         /\ phase' = IF clear_position + chunk >= end THEN "done" ELSE phase
  /\ UNCHANGED <<heap, start, scan, free, slice, descriptor, record, target, stack,
                 roots, given>>
-----------------------------------------------------------------------------
CopyInit ==
  /\ heap \in Heaps /\ roots \in RootSets
  /\ \E pages \in RawPages, spare \in SparePages, size \in DescriptorSizes :
       /\ start = pages * PageCells
       /\ memory = Cells("raw", pages * PageCells) \o Zeros(spare * PageCells)
       /\ descriptor = Cells("type", size)
  /\ scan = start /\ free = start /\ slice = NoSlice
  /\ record = <<>> /\ target = <<>> /\ stack = <<>> /\ clear_position = 0
  /\ given = [heap |-> heap, roots |-> roots, memory |-> memory,
              descriptor |-> descriptor]
  /\ phase = "running"

CopyNext == \/ start_graph_stabilization \/ graph_stabilization_increment \/ store
            \/ start_graph_destabilization \/ graph_destabilization_increment \/ cleanup

CopySpec == CopyInit /\ [][CopyNext]_copyVars

\* The code generator runs increments until both copies report completion.
CopyFairSpec == CopySpec /\ WF_copyVars(CopyNext)
-----------------------------------------------------------------------------
(* Types of the two copies and of the addresses.                           *)
CopyTypeOK ==
  /\ phase \in {"running", "serialize", "stored", "deserialize", "done"}
  /\ start <= free \/ phase \in {"deserialize", "done"}
  /\ scan <= free /\ Len(roots) = 3
  /\ Len(memory) % PageCells = 0
  /\ \A i \in DOMAIN stack : stack[i] \in DOMAIN target

Copied == {o \in DOMAIN heap : heap[o].kind = "fwd"}
Stays(o) == given.heap[o].kind # "closure"

\* Cheney's invariant, at every point where a message may end: the copy of
\* an object is the object it was before the upgrade, but its pointers before
\* the scan address have been replaced: by the offset of the copy of what they
\* pointed to, or by the dummy value in place of a closure.
CheneyInvariant ==
  /\ CopyTypeOK
  /\ phase = "serialize" =>
    \A o \in Copied :
      LET old == given.heap[o]
          at == start + heap[o].fwd
      IN  /\ memory[at + 1].k = old.kind
          /\ at + Len(old.body) < free
          /\ \A i \in DOMAIN old.body :
               LET old_value == old.body[i]
                   value == memory[at + i + 1]
               IN  IF at + i >= scan \/ ~Points(old, i) THEN value = old_value
                   ELSE IF ~Stays(old_value.v) THEN value = DUMMY_VALUE
                   ELSE old_value.v \in Copied /\ value = cell("ptr", heap[old_value.v].fwd)

Reachable ==
  LET closed(S) == /\ \A i \in 1 .. 3 : given.roots[i] # 0 => given.roots[i] \in S
                   /\ \A o \in S : \A i \in DOMAIN given.heap[o].body :
                        Points(given.heap[o], i) /\ Stays(given.heap[o].body[i].v)
                          => given.heap[o].body[i].v \in S
  IN  {o \in DOMAIN given.heap : \A S \in SUBSET DOMAIN given.heap : closed(S) => o \in S}

\* The new program has the graph the old one had, no more and no less: the
\* same objects with their sharing and cycles, closures replaced by the dummy
\* value, and the three roots, whatever the increments were.
SameGraph ==
  phase = "done" =>
    \E f \in Bijection(Reachable, DOMAIN target) :
      /\ \A i \in 1 .. 3 : roots[i] = IF given.roots[i] = 0 THEN 0 ELSE f[given.roots[i]]
      /\ \A o \in Reachable :
           LET old == given.heap[o]
           IN  target[f[o]] =
                 [kind |-> old.kind, slice |-> 0,
                  body |-> [i \in DOMAIN old.body |->
                              IF ~Points(old, i) THEN old.body[i]
                              ELSE IF ~Stays(old.body[i].v) THEN DUMMY_VALUE
                              ELSE cell("ptr", f[old.body[i].v])]]

\* After the upgrade stable memory is what it was, and zero behind its logical
\* end, which a later growth of the logical size relies on.
StableRestored ==
  phase = "done" =>
    \A p \in DOMAIN memory :
      memory[p] = IF p \in DOMAIN given.memory THEN given.memory[p] ELSE ZeroCell

\* The type descriptor is there for the compatibility check of the new program.
DescriptorSurvives ==
  phase \in {"deserialize", "done"} => descriptor = given.descriptor

\* The upgrade ends, whatever the graph and the slices of its arrays.
CopyCompletes == <>(phase = "done")
=============================================================================
