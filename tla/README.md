# A TLA+ model of the Motoko runtime

Motoko compiles actors to WebAssembly canisters of the Internet Computer.  This
directory holds TLA+ specifications of the compiler's runtime system, of two kinds.
The first kind is about the *order* in which things happen: the incremental garbage
collector with its barriers and its heap of partitions, the table of outstanding
continuations, futures and the callbacks of calls, the default timers, stable memory
with its regions through upgrades, the upgrade by graph copy, which runs in
increments over many messages, and the life cycle that decides which messages run
meanwhile.  The second kind is about data structures and codecs
that keep state between the calls of one message: the mark stack and the mark bitmap,
the remembered set, the sort of the partitions, the table of received blobs, the memo tables of the Candid subtype
test and of the memory compatibility check, the decoder of Candid type tables and
values, and text ropes.

The modules are translated from the sources of the repository (Rust in
`rts/motoko-rts`, OCaml in `src/codegen`, `src/ir_passes` and `src/lowering`, Motoko in
`src/prelude`), model-checked with TLC on small instances, and in part proved with
TLAPS for all instances.

## 1. Inventory of the system

The platform runs one message at a time in a canister; a message that traps leaves no
trace in the state.  There are no threads.  All concurrency is the interleaving of
*messages*: an `await` cuts a function into several messages, a garbage collection
is cut into increments that run at the ends of messages, a timer helper into one
message for its dispatch and one callback per job, an upgrade by graph copy into as many
messages as it takes.  This is where the difficult behaviours are.

| component | sources | state | operations | interacts with |
|---|---|---|---|---|
| continuation table | `rts/.../continuation_table.rs` | an array whose free slots hold the free list, the head of that list, the number of live slots | remember, peek, recall, count; grows by doubling | calls (the index is the environment of the callbacks), the collector (a root), upgrades (transient) |
| incremental collector | `rts/.../gc/incremental.rs`, `phases/*`, `barriers.rs`, `array_slicing.rs`, `roots/enhanced.rs` | the phase, its copy `__running_gc` in the program, mark bits, mark stack, weak reference registry, evacuation flags, heap iterator, forwarding pointers | mark, evacuate and update increments; write, read and allocation barriers | every load, store and allocation of compiled code; the runtime's own roots; upgrades |
| partitioned heap | `partitioned_heap.rs` | partitions (sizes, free, evacuate, update, temporary, large content), tables of partitions, bitmaps, the allocation partition, counters for the whole heap | allocate, mark, plan evacuations and updates, free large objects, complete a collection, iterate | collector, mutator |
| mark stack, bitmap, sort | `mark_stack.rs`, `mark_bitmap.rs`, `sort.rs` | linked stack tables; bits in words and an iterator over them | push, pop; mark, next; sort | collector |
| remembered set | `gc/remembered_set.rs` | a hash table with chains | insert, contains, grow, iterate | collector |
| scheduling, time limit | `scheduling.rs`, `time.rs` | counters | when to start, when to pause | collector |
| default timers | `prelude/internals.mo` (from `@Node` to `@cancelTimer`), `lowering/desugar.ml`, `ir_passes/await.ml` | a search tree of expirations, the queue of retries, the platform's global timer, the helpers that await jobs | set, cancel, the timer handler, the helper | self-calls and their rejections, time |
| asynchronous calls | `prelude/internals.mo` (`@new_async`), `ir_passes/async.ml`, `ir_passes/await.ml`, `codegen/compile.ml` (`FuncDec`) | futures with waiting continuations, callbacks in the continuation table | call, reply, reject, await, cleanup | continuation table, timers, upgrades |
| blob deduplication | `prelude/internals.mo` (`@dedup`) | hash table of weak references | dedup | collector (weak references) |
| lifecycle and persistence | `codegen/compile.ml` (`Lifecycle`, `Persistence`), `persistence.rs` | lifecycle state, persistent metadata, stable memory version | init, pre- and post-upgrade, checks | everything that survives an upgrade |
| memory compatibility | `persistence/compatibility.rs`, `idl.rs`, `bitrel.rs` | a memo table of two polarities | check the stable types of two versions | upgrades |
| graph-copy stabilization | `stabilization/*` | the copied graph, scan pointers, the metadata record, the scan stack | copy increments, store and load of metadata, cleanup | lifecycle, stable memory, collector (stopped meanwhile) |
| regions and stable memory | `region.rs`, `stable_mem.rs`, `codegen/compile.ml` (`NewStableMemory`) | block table, page counts, counters, region objects | new, grow, load, store, migrate, backup, restore, recover | upgrades |
| Candid decoding | `idl.rs`, `bitrel.rs` | the type table, cursors, quotas, the memo table of subtype tests | parse, skip, find a field, test references | messages |
| text | `text.rs`, `text_iter.rs` | ropes; the breadcrumbs of a flattening; iterators | concatenate, flatten, compare, iterate | - |
| numbers, runtime support | `bigint.rs`, `leb128.rs`, ... | none beyond a call | pure functions | - |
| frontend, type checker, passes, linker, interpreters, tools | `src/mo_frontend`, `src/mo_types`, `src/ir_passes`, `src/linking`, ... | none at run time | pure functions over syntax | - |

What makes each of them correct:

- **Continuation table**: an index that was handed out leads to its continuation
  exactly until it is recalled; no slot is lost or handed out twice.
- **Collector**: nothing that the program can get at is freed; the program sees one
  heap, whatever copies exist; a collection frees what was garbage when it began, and
  comes to an end; the flag that switches the barriers on is never stale.
- **Partitioned heap**: sizes that are counted in several places agree; no memory has two
  uses; the walks over the heap leave out no live object.
- **Mark stack, bitmap, remembered set, sort**: they are a stack, a set with an ordered
  iterator, a set, and a sorted permutation.
- **Timers**: a timer runs exactly once (or keeps recurring) unless it is cancelled;
  a cancelled one does not run; the global timer is always armed.
- **Calls**: a thread that waits is always continued or ended by exactly one outstanding
  call; the table keeps no continuation longer than its call; a trap cannot be caught;
  each thread sees its own cycles and refunds.
- **Regions**: each region is an array of pages of its own; all regions can be recovered
  from the table in stable memory after an upgrade.
- **Graph copy**: the new program has the graph of the old one; stable memory is afterwards
  what it was before; the copy comes to an end, however it is cut into increments.
- **Candid and memory compatibility**: accepted type tables have no dangling references, a
  value that is skipped is skipped to its end, tests decide the relation of the rules,
  whatever cycles the types have and whatever was tested before.
- **Text**: a rope is its bytes, in whatever way it was put together.
- **Blob deduplication**: the program never has two blobs of one content; the blobs
  that are reported as dead are those whose entries may be pruned, and pruning ends.
- **Lifecycle**: while the heap is copied, the program does not change it; the hooks run once
  per upgrade; the controllers get their answers.

Everything in the code that a test would hardly reach is listed in `PROJECT.json`
under "hazards", with the properties that guard it.

## 2. The modules

| module | models | kind |
|---|---|---|
| `ContinuationMap` | what the continuation table promises: a map from indices to continuations | abstract specification |
| `ContinuationTable` | `continuation_table.rs` | detailed specification |
| `MutatorHeap` | what a program may see of its heap: objects, fields, weak references, no addresses and no collector | abstract specification |
| `IncrementalGC` | the collector, its barriers and the compiled accesses | detailed specification |
| `IncrementalGCProofs` | | theorems |
| `HeapRefinementProofs` | | theorems |
| `PartitionedHeap` | `partitioned_heap.rs` as mutator and collector use it | detailed specification |
| `PartitionedHeapProofs` | | theorem |
| `SequenceStack` | what the mark stack promises | abstract specification |
| `MarkStack`, `MarkBitmap`, `RememberedSet`, `PartitionSort` | the data structures of the collector | detailed specifications |
| `Timers` | the default timer mechanism | detailed specification |
| `AsyncCalls` | futures, `await`, callbacks, traps, cleanup and upgrades, over `ContinuationMap` | detailed specification |
| `AsyncCallsProofs` | | theorems |
| `RegionPages` | what the regions promise: arrays of pages | abstract specification |
| `Regions` | `region.rs`, `stable_mem.rs` and the backup at upgrades | detailed specification |
| `RegionsProofs` | | theorems |
| `GraphCopy` | `stabilization/*`: both copies, the metadata and the cleanup | detailed specification |
| `GraphCopyProofs` | | theorems |
| `CandidTypes` | the types of Candid in type tables | definitions |
| `CandidSubtyping` | the type relations of `idl.rs` and the memo table `bitrel.rs` | detailed specification |
| `CandidDecoding` | parsing of type tables, skipping of values, search for fields | detailed specification |
| `TextRope` | `text.rs`, `text_iter.rs` | detailed specification |
| `BlobDedup` | `@dedup` of `internals.mo` and the pruning of `prim.mo` | detailed specification |
| `StructureProofs` | of `ContinuationTable`, `MarkStack`, `MarkBitmap`, `RememberedSet`, `PartitionSort` and `BlobDedup` | theorems |
| `Lifecycle` | the life cycle of a canister, with explicit stabilization and destabilization | detailed specification |
| `LifecycleProofs` | | theorems |

The modules that start with `MC` are instances for TLC.  `MCIncrementalGC`, `MCTimers`,
`MCAsyncCalls`, `MCRegions`, `MCCandid`, `MCGraphCopy`, `MCLifecycle` and `MCBlobDedup` are of
one module each; `MCHeapRefinement` has the refinement of `MutatorHeap` by the collector; `MCCandidTypes` and
`MCGraphs` have the type tables and graphs of the checks.  `MCStructures`, `MCCollector`,
`MCProgress`, `MCStableMemory` and `MCTimerInstances` put several modules (or instances of one)
into one specification; there a behaviour is of the part that the initial state picks
(`structure`, `view`, `part` or `instance`).  They extend the modules whose properties theorems
state (`MCCollector`: `MCHeapRefinement` and `AsyncCalls`; `MCProgress`: `MCIncrementalGC` and `Lifecycle`;
`MCStructures`: `ContinuationTable`, `BlobDedup`, `MarkStack`, `MarkBitmap`, `RememberedSet`, `PartitionSort` and `PartitionedHeap`;
`MCStableMemory`: `Regions` and `GraphCopy`), so that runs and
theorems speak of the same definitions, and have instances of the others.

Operators that carry the comment "mutant" are plausible bugs in the operator that follows
them.  No specification uses them; they serve to show that each property would notice such a
bug.

### 2.1 ContinuationTable

`TABLE`, `FREE_SLOT` and `N_CONTINUATIONS` are the statics of the source; `result` is
what the last call returned.  A slot of the table holds a continuation or a number:
the next free slot, as in the code.  One action per entry point; `remember_continuation`
includes the creation and the doubling of the table, and the trap of `recall_continuation`
on an index that is not live is a step that changes nothing but `result`.
`Reinitialize` is the instantiation of a new program version: the statics are
transient.  `Continuation` is the set of closures, `INITIAL_SIZE` the first length of
the table and `MaxSize` bounds its growth.

### 2.2 IncrementalGC

The heap has `NumPartitions` partitions of `PARTITION_SIZE` addresses, and an object
takes one address, with `NumFields` pointer fields.  `tag`, `forward`, `field` are the
header and the payload; `marked` stands for the mark bitmaps.  The mutator is a
program that holds pointers (`regs`) while a message runs, and is otherwise arbitrary:
it loads roots, fields and weak references, writes fields and roots, allocates.
The actions `LoadField`, `WriteField`, `Allocate`, ... include the barrier that compiled code
or the runtime runs with them, under the condition it runs it (`running_gc` for compiled
code, unconditionally in the runtime).  Collector increments run only when the call
stack is empty (`regs = {}`), as the code schedules them at the end of messages.

One action is one *unit* of an increment: `mark_increment` pops one object and visits
one slice of it, `evacuation_increment` copies one object, `update_increment` updates
one slice.  The code runs units until its time limit, at any of these points, so that
every way to cut a collection into increments is a behaviour of the model.
Completing a phase, planning and starting the next one happen within one increment in
the code, and are one action here (`start_evacuating`, `start_updating`, `complete_run`).

Abstractions: the mark stack is a set (any order of popping); allocation takes the
lowest unused address; when a collection starts is arbitrary.  What objects of several
sizes, bitmaps, counters and further tables add is in `PartitionedHeap`.
The phase `Stop`, in which the collector rests during a graph-copy upgrade, is `gc_stopped` of `Lifecycle`.
Queries and traps need no action: their changes are rolled back.

The properties `NoDangling` and `SnapshotAtTheBeginning` are stated with sets rather
than with reachability: "there is a set of objects that the mutator cannot leave",
"every set closed under the unvisited fields that contains the gray objects ...".
The definitions need no recursion, which the proofs rely on.

`MutatorHeap` is the heap that the language promises: a graph of objects with
identities, a root, and registers.  A `Collect` step may clear weak references whose
targets are not strongly reachable, all that lead to one target together.
`MCHeapRefinement` maps the collector's heap to it: pointers are resolved through forwarding,
objects are named by their birth number (`id`, a history variable), and what is
inaccessible is dropped.

### 2.3 PartitionedHeap

The complement of `IncrementalGC`: here objects have sizes and addresses, and no pointers.
Any object may turn out to be live (`MarkObject`), so that every outcome of a marking is a
behaviour.  `heap` is the record of the source with its partitions, `objects` is what lies on
the heap, `walk` the iterator over the marked objects.  `Allocate` and `MarkObject` are the mutator's and the
marking's; `start_evacuating`, `start_updating` and `complete_run` end a phase.  A round of a loop of the collector
is a step: `assign_bitmaps` gives the next partition its bitmap, `next_in_walk` leaves a partition,
`evacuate_object` and `update_object` are for one object.  The mutator allocates in between, except at the start of a
collection (the phase "Start", from `start_collection` to `start_marking`), which is one call in the code.

An operator that may need memory returns a *set* of results: it is empty if the code traps
with "Cannot grow memory".  That keeps the order of the code, in which a partition is taken, a
bitmap is needed for it, the bitmap takes another (temporary) partition, and that one may need a new table
of partitions, whose place is itself static space in a partition.  The ranking takes
partitions with equal amounts of garbage in any order.  The temporary array of the ranking is allocated on the heap, as in the code.  The
capacity is `MEMORY_CAPACITY`; the memory reserve of the code is left out.

### 2.4 The data structures of the collector

`MarkStack` has the linked tables of the mark stack, one of which may stay empty behind the
last one in use, and implements `SequenceStack`; the scan stack of the graph copy is the same code.  `MarkBitmap` has
bits in words and the iterator that skips words of zeros, a round of its loop a step.  `RememberedSet` has the chains in
their order, the collision and the growth at an occupation threshold: as `grow` calls `insert`, which calls `grow`, the
growths under way are a stack, and a round of the loop of `grow`, which moves the entry of the iterator, is a step.
`PartitionSort` is the in-place quicksort, one comparison or exchange a step, its recursive calls a worklist.

### 2.5 Timers

The tree has the shape the source gives it; a node is a record, its shared expiration
cell is `expunge`d by identity.  One action is one message: `setTimer` and
`cancelTimer` (called from any message), `canister_global_timer` (the handler that sets the
fallback and sends the helper; if the send fails, the timer is set to expire at once),
`timer_helper` (gather the retries and the expired timers, set the global timer,
dispatch), `JobStarts`, `JobEnds` (a job is itself any number of messages, so that it
starts and ends at different times) and `JobRejected`; the last two include what the
helper does in the callback: it goes on past all resolved jobs, up to the next
one that is open, and queues the rejected ones for a retry.
`HelperLost` is a helper message that is rejected before it runs.
`ran`, `oneshot`, `cancelled`, `late` are history variables.

Not modelled: a `system func timer` of the program, which replaces the mechanism;
upgrades (timers are not stable); the overflow of a recurring expiration
(delays of centuries).

### 2.6 AsyncCalls

A *thread* is one activation of a shared function or of an async block.  It runs in one
message after another.  `msg` is the message that is executed and what a trap of it would
bring back (`saved`).  A future is a number; `result`, `trapped`, `waiter` (for `ws` and `rs`),
`cleanup` and `getRefund` are the variables of `@new_async`.  `table` is the continuation table,
of which only the promises of `ContinuationMap` are used: `ContinuationTable` implements it.
`calls` are the calls whose callbacks have not run, with the response once it is there.

A message starts with `StartUpdate` (a shared function), `StartAsync` (the exported
method that looks up the body of an async block in the table), `RunSelfCall` (the empty
self-call of an await) or `Callback`; the running thread then takes any of the steps
`AddCycles`, `Call`, `Await`, `AwaitNow` (`await?`) and `Finish`; `Commit` or `Trap` end the
message.  A callback that has trapped is followed by `CleanupCallback`, or by `CleanupTraps`
if a `finally` clause traps in turn, in which case the table entry is lost, as the manual says
(`leaked`).  Whether a call can be performed is nondeterministic.  An await of a completed
future performs a self-call whose callbacks are `schedule`, or `bail` if the future's
callback has trapped.  `ProgramUpgrade` drops what the program has in memory; `pre_upgrade` lets it
happen only if the table is empty or the canister is stopped, in which case
no call is outstanding.

Abstractions: at most one thread runs in a message; a future is awaited only by the thread
that has created it, which the scope parameters of async types enforce; cycles and refunds
are represented by where they come from (`cycles` is the thread that has added them,
`refund` the future of the call that returned them); the program may catch every error
that is thrown.  One-way calls (their callbacks have an invalid index), `call_raw`,
composite queries and timeouts of calls are left out.

### 2.7 Regions and RegionPages

A page is one cell.  `stable` is the physical memory, `header` what the region manager writes
into its first pages: the base of the blocks, the totals and the table that has for each
block its region, its rank in it and the pages in use.  `obj` are the Region objects on the heap, with their vectors of
blocks.  `region_new` migrates an older memory first, by one of two ways: from none or from
some raw stable memory, whose first block makes place for the header.  `region_grow`,
`region_load` and `region_store` follow the code: an access that crosses blocks is cut
into a first short piece, whole blocks and a last piece.  The address of the relocated block is
computed modulo `U32Pages`, block numbers modulo `U16`.  `Backup` and `Restore` are the two halves
of an upgrade: the first word, the size and the version go to the page behind the logical
ones, and the region objects of the next program come from the table alone.

`RegionPages` says that a region is an array of its own, which only grows, by zeros at its
end, and changes only by its own stores; the refinement maps the pages of a region through
its blocks, and region 0 of a memory without regions to the raw memory.

### 2.8 GraphCopy

A cell is a record `[k, v]`: a pointer, plain data, or a part of a header.
`start_graph_stabilization`, `graph_stabilization_increment` and `store` are the messages before the upgrade:
Cheney's algorithm copies objects to stable memory, `scan` and `free` are its pointers, and an
array is scanned in slices of `SliceIncrement`.  `start_graph_destabilization` and
`graph_destabilization_increment` read the copy back, with a scan stack and forward
addresses that overwrite the headers in stable memory; `cleanup` clears the pages in chunks.  Each step is one unit,
as for the collector.  A layout per kind of object says which
of its fields are pointers; an object takes its size from its hash blob, as the code does,
which in turn may already have been moved.  `RecordCells` and `DescriptorSizes` give
the last page, which record and type descriptor share.

Left out: bigints, sizes in bytes, the limit of an increment (any number of units), the
records of older versions.  Closures are replaced by a dummy, as in the code.

### 2.9 CandidTypes, CandidSubtyping, CandidDecoding

A type is a negative number or an index of a type table.  In `CandidSubtyping` a rule
(`SubRule`, `MemRule`) gives the pairs of types that have to be related for a pair; `recurse` puts
them to the test in order, with the memo table that is shared by all
tests of a message: a pair is assumed before it is tested, and disproved if the test
fails.  The reference definition is the greatest relation that is closed under the same rules.
The memory compatibility uses the same table for three variances, where the order of the two
type tables is swapped at each contravariant position, and so uses cells of the memo table of
another shape.

`CandidDecoding` parses a header into a type table (`parse_idl_header`: two passes, because an
entry may refer to later ones), skips any value with a limit for depth and quota, and finds
fields.  A number, a length or a tag is one byte: LEB128 is left out.

### 2.10 TextRope

Texts are blobs or concatenations; `text_to_buf` flattens a rope without recursion and without a
stack of its own: it leaves breadcrumbs in the part of the destination that is not filled
yet.  `text_compare` compares ranges of two ropes piece by piece, and the iterator keeps a list
of what is to come.  `MIN_CONCAT_SIZE` and `CRUMB_SIZE` are the sizes of the source, scaled down.

### 2.11 BlobDedup

A blob has an identity and a content.  `dedup` is the reception of a blob: the program gets the
one that is there already, if the weak reference of its entry still has a target.
The program drops blobs (`Drop`) and the collector clears the references of any set of dropped ones
at once (`Collect`); a dropped blob that has not been collected yet may be handed out again, as
with the snapshot of `IncrementalGC`.  `pruneDeadBlobs` is the call for one confirmed blob.  `BlobIterator` visits
the lists from the second one: its first call has no list yet and moves on to index 1, so that
dead blobs of the first list are never reported (the empty blob is returned in their
place), and a live blob that was received again is reported while its older, dead entry is
still behind the new one.  The model has both; `Deduplicated` speaks of what the other lists report.

### 2.12 Lifecycle

The states are those of `Lifecycle` in `compile.ml`, with the same table of predecessors.  A message is an action and
may pass several states, so that a transition that would trap disables it.  `actor` counts the changes that are in
the state of the program and `changes` all that it has ever made, so that one that is lost, or made
twice, shows.  `stabilization` and `destabilization` are the two static states of
`stabilization/ic.rs`: what is left to copy, and what has been copied.  Each of the `Sequences` is a controller that
has called `__motoko_stabilize_before_upgrade` or `__motoko_destabilize_after_upgrade`, and is where its chain of
self-calls is: the next self-call is on its way, it has been executed and its callback comes next, or it was rejected.
`UpgradeInPlace` and `UpgradeByCopy` are pre_upgrade, the start of the new program and post_upgrade, which
the platform runs in one step; both are possible if the canister is stopped (no outstanding calls) or if no
continuation is in the table, so that an upgrade may happen between a self-call and its answer.
`SystemMessage` (heartbeat, timer, low memory) and `destabilize_after_upgrade` look at no state, as in the code: what
protects the former during a stabilization is the assertion of `incremental_gc` at its end.

Left out: queries, `InComposite` and inspect messages, whose changes are dropped; the checks of
the versions and of the compatibility (the latter is in `CandidSubtyping`).

## 3. The runs

| run | module, configuration | checks |
|---|---|---|
| `structures` | `MCStructures` | `FreeListComplete`, `VisitsMarks`, `IsTheSet`, `Sorted`, `TestsAreRight`, `CompatibilityIsExact`, `ParsedIsWellFormed`, `SkipsTheValue`, `RopeIsItsBytes`, `Deduplicated`, `SizesAgree`, `MemoryInUse`, `AllVisited`; refinements `ImplementsMap`, `RefinesStack` |
| `stable_memory` | `MCStableMemory` | `Recoverable`, `LoadsContent`, `CheneyInvariant`, `SameGraph`, `StableRestored`; refinement `RefinesPages`; liveness `UpgradeCompletes` |
| `program` | `MCCollector` | `NoDangling`, `SnapshotAtTheBeginning`, `MarkedAfterMarking`, `WeakRefIsLiveAgrees`, `GarbageNotMarked`, `TableHoldsOutstanding`, `NoneStranded`, `TrapNotCaught`, `RefundOfAwaited`, `NoTimerLost`, `CancelIsFinal`, `Armed`; refinement `ImplementsHeap` |
| `progress` | `MCProgress` | `StateSurvives`; liveness `RunCompletes`, `OneShotRuns`, `CallsAnswered`, `ThreadsEnd` |
| `timer_cancel` | `MCTimers`, `MCTimerCancel.cfg` | `CancelReachesFailedDispatch`, violated |
| `async_globals` | `MCAsyncCalls`, `MCAsyncGlobals.cfg` | `GlobalsAreOwn`, violated |
| `region_migration` | `MCRegions`, `MCRegionsMigration.cfg` | `MigrationKeepsData`, violated |
| `graph_descriptor` | `MCGraphCopy`, `MCGraphCopyDescriptor.cfg` | `DescriptorSurvives`, violated |
| `candid_memo` | `MCCandid`, `MCCandidMemo.cfg` | `MemoIsTransparent`, violated |
| `candid_record` | `MCCandid`, `MCCandidRecord.cfg` | `RecordRuleIsCandid`, violated |
| `lifecycle_cleanup` | `MCLifecycle`, `MCLifecycle.cfg` | `MessagesAreBlocked`, violated |
| `dedup_prune` | `MCBlobDedup`, `MCBlobDedup.cfg` | `PruneEnds`, violated |

**Bounds.**

- *Structures.*  Three continuations and a table of one slot that may double to four reach
  every shape of the free list: empty, full, doubled while partly used, reused in any
  order.  Stack tables of two values and up to five of them reach a third table and an
  empty one behind the last.  A bitmap of three words of three bits has words of zeros at
  the start, between and at the end.  The remembered set starts with two chains and grows
  twice with the seven values.  All sequences of up to five of four keys are sorted.  Type tables of two or three entries
  have cycles of one and two types, with functions in both directions; two tests can follow each
  other in a message.  Messages have four more numbers, out of three, values are
  skipped in types of two entries, and the depth of three and the quota of eight can be exceeded.
  Texts are put together three times from five literals of up to five bytes, so that
  ropes have up to four levels, in which crumbs fit or do not.
- *Collector.*  Three partitions of two objects: one to allocate in, one to
  evacuate and one to evacuate to, and `MaxOperations` = 7 writes,
  allocations, upgrades and collections in a behaviour, which is enough for two
  collections, or for an object that is evacuated, written to in its copy and loaded
  through an old pointer; reads, ends of messages and increments are unbounded.
- *Partitioned heap.*  Partitions of three units, four to a table, where a table takes one unit of the partition it is
  put in, bitmaps of one unit and a memory of 18 units, so that a second table is needed and
  memory can run out for an object, for a bitmap at the start of a collection and for a copy in its middle.  Objects have 1, 2, 4 or 6 units, so that there are large ones that end
  within a partition and at the end of one; 7 units are allocated in a behaviour, which is
  enough for two collections with objects between them, or one of a large object of two full partitions.
- *Progress.*  Arrays of two slices of one field with `MaxOperations` = 5; two timers with one failure,
  and a helper that gathers one timer at a time; one thread with two futures, so that it
  can leave one behind while it awaits the other.
- *Timers.*  Three instances (`MCTimerInstances`).  `Few`: two timers with one failure and overlapping
  helpers, where each job can be sent, unsent, rejected, running, failed or done.  `Failing`: one timer with up to
  three failures in a row, of the helper, its dispatch and its job.  `Trees`: four
  timers for the shapes of the tree (a served node with both branches, reinsertion below a
  recurring one, cancellation of an inner node), where failures add nothing.
  `MaxTime` ends the clock, but every failure moves the end by one `FALLBACK`, so that
  what a failure delays still happens.
- *Calls.*  Two threads, each of which may be the async block of the other, two futures,
  so that one can be awaited while the other one is answered, traps or waits for its
  self-call, and two indices of the table, all that two futures can need at once, so that the
  table may be full after a leak; traps, failed sends, rejections and upgrades are unbounded.  In the run that
  is violated there are three indices, and indices and threads are symmetric.
- *Blobs.*  Four receptions of three contents in two lists: an entry can be found, dead or alive, behind others, a blob
  can be received again before and after its first copy is collected, and the first list is in use.  The violated run
  has a third content in the same list.
- *Lifecycle.*  Two controllers, whose calls overlap, two units to copy, so that an increment can do none of the
  rest, part of it or all, two upgrades, two changes of the state and one outstanding call of the program.  Rejected
  self-calls are unbounded.
- *Regions.*  Blocks of two pages and at most three blocks and nine pages for the memory, two regions beside region 0, and raw memories
  of zero, one and three pages: less than the header needs, and more than one block.
  Each region can have a partly used last block between blocks of the others.  `U32Pages` is out of
  reach of these pages except in the violated run, where it is four.
- *Graph copy.*  Pages of six cells with a record of two and descriptors of one and three
  (in the violated run also four) cells, memories with and without raw pages and spare physical pages from an earlier
  upgrade, slices of one element, chunks of four cells, and the graphs of `MCGraphs`: all arrays of three elements over a small graph with
  cycles, closures and blobs whose content looks like a pointer, and an actor with objects
  that share a hash blob, regions, ropes and weak references, with one root or three.

**Fairness.**  `RunCompletes` assumes that messages end (`WF(EndMessage)`: the
platform limits their instructions) and that the collector's increments are not
postponed for ever (`SF(Increment)`: `incremental_gc` runs at the end of every
update message, timer and heartbeat, but only when no message is in progress, which is
why weak fairness would not do).  The heap is assumed to have room for the
evacuation; the code traps otherwise.  The collection also needs an end of
allocations, because new objects in the evacuation and update phases are visited too;
in the model `MaxOperations` provides it, in the code the increment limit grows with
the number of allocations.  `OneShotRuns` assumes that messages that were sent are
executed or rejected, that jobs return, that the handler runs when the timer is due
(`WF(Execute)`) and that time passes (`WF(Tick)`); failures are bounded by `MaxFailures`.
`ThreadsEnd` assumes that the platform executes and answers messages (`WF(Answers)`) and that a
thread comes to an end if it is given the chance again and again (`SF(Finish)`): it does not
await in an endless loop, which is up to the program.  `CallsAnswered` assumes that the platform delivers the
self-calls and the answers of each controller's chain (`WF(Delivered(s))`); it may reject each of them.
It need not run any message of the program, nor an upgrade.  `UpgradeCompletes` assumes that the
administrator goes on calling for the next increment (weak fairness of the steps of the copy), which the
messages of an explicit upgrade do for themselves.

**What the properties of the type relations mean.**  `TestsAreRight` and `CompatibilityIsExact` compare the
algorithms, with their assumptions and their memo tables, with the greatest relation that
their own rules define.  `TestsAreRight` claims as much as is true: the first test of a message is exact,
and a refusal is always right; `MemoIsTransparent`, violated, is what it
does not claim.  Whether the rules are those of Candid is a question of its own, and
`RecordRuleIsCandid`, violated, is about it.

**The violated runs.**  They state what a comment, a note or a test of the repository says; the findings in
`PROJECT.json` quote it.

- `timer_cancel`: the comment above `@retries` promises that a one-shot job whose dispatch
  failed is kept "under [its] own id so that `cancelTimer` still reaches" it.  The helper
  awaits its jobs in order.  If the second job of a batch is rejected while the first
  one is still running, it is not yet among the retries: `cancelTimer` finds it nowhere,
  and later the helper queues it for a retry, and it runs.
- `async_globals`: `test/run-drun/test-cycles-state.mo` says that cycles and
  refunds are "reset on context switches".  A shared function and an await that resumes in
  the callback of its call do so; an async block and an await that resumes after its commit (the
  `#schedule` path of `enqueue`) do not reset `@cycles`, and reset `@refund` only if the future
  has a value.  What does hold is `RefundOfAwaited`: after the
  await of a value the refund is always the one of that call.
- `region_migration`: the raw memory of an older canister "becomes region 0, with first block
  relocated".  The new address of the block is computed in 32 bits, and wraps around for memories
  of more than 4 GiB - 8 MiB: region 0 loses data.
- `graph_descriptor`: the last page of the copy has the type descriptor and, at its end, a record.
  No room is reserved for the record; it overwrites the end of a descriptor that comes close to the end of the page.
- `candid_memo`: a pair of types that was found to be related under an assumption stays in the
  memo table when the assumption is disproved, and a later reference of the message is
  accepted because of it.
- `candid_record`: when the loop that skips fields arrives at the last field, its type is compared
  although its tag is lower than the expected one; and a field that should be considered again is not if it
  was the last.
- `lifecycle_cleanup`: once a stabilization has started, "all messages are blocked except this method and the upgrade".
  The callback of a call that was outstanding is blocked by a trap, after which the platform runs
  its cleanup callback, which looks at no state: the `finally` clauses of the program run and change the state, which may
  have been copied already.  `StateSurvives` is what holds otherwise: nothing is lost but such changes.
- `dedup_prune`: pruning should remove the node of each confirmed blob whose reference is null.  `findLoop` goes on only past
  nodes that are alive; if it meets the dead node of another blob it neither removes it nor moves on, and the
  message runs into the instruction limit.

## 4. What is proved

Section 3 shows the properties for small instances; the theorems hold for all values of
the constants.  Each of the invariants below is inductive; a module has one lemma per action that the action
preserves it, and mostly one step per conjunct under it.

`StructureProofs`: the continuation table, for every first size, limit and set of continuations
- `TableCorrect`: `Spec => [](TypeOK /\ FreeListComplete /\ CountIsLive)`.
  The inductive invariant gives the free list as a sequence without repetitions that
  starts at `FREE_SLOT`, follows the slots, ends at the length of the table and visits
  exactly the slots that hold no continuation.  Recalling puts one slot in front of it,
  remembering takes the first one away, and doubling extends an empty list by the new
  half.
- `TableImplementsMap`: `Spec => ImplementsMap`.  Every step of the table is a step of the map, or none.

`StructureProofs`: the mark stack, for any capacity of the tables
- `TablesAreAStack`: `StackSpec => RefinesStack`.  The invariant is that the tables are linked in the order of their allocation.
  What is below a table is a recursive function that follows the links; with the invariant its equation has exactly one
  solution (`OneSolution`, by the least table at which two would differ), which does not depend on later tables.

`StructureProofs`: the mark bitmap, for words and bitmaps of any size
- `BitmapVisitsMarks`: `BitmapSpec => []VisitsMarks`.  The current word has the marks from the next bit up to a boundary of
  words (`UpTo`), and its highest one and the leading zeros lead exactly there.  What has been visited is what is marked below.

`StructureProofs`: the remembered set, for all values, initial lengths and occupation thresholds
- `RememberedSetIsTheSet`: `SetSpec => []IsTheSet`.  The invariant (`GrowthsOK`) follows the stack of growths outwards: the values of a
  table that grows are those of the next larger table and those its iterator has yet to yield, and no value is both.  The
  iterator yields no value twice because equal values are in the same list (`HashTable`, `ValuesByList`).

`StructureProofs`: the ranking of the partitions, for arrays of any length
- `SortSorts`: `SortSpec => []Sorted`.  Two elements that are out of order have still to be sorted together, by a pending call or by the
  one that runs (`OrderedBut`).  That the inner loops, which test no bounds, stay within the range of their call is the part
  of the invariant (`Loop`) that says which element each of them will stop at: at first the pivot, which is behind the first element,
  later one that was exchanged.  The unsigned `backward` therefore never goes below zero.

`PartitionedHeapProofs`: for partitions, tables, bitmaps and objects of any sizes and any capacity of the memory
- `HeapMemoryInUse`: `HeapSpec => []MemoryInUse`.  The property is not inductive: that a bitmap is in a temporary partition does not
  say that the next one does not overlap it, and that an object lies in a partition in use does not say that the next
  one is put behind it.  The invariant `HeapInv` adds
  - where bitmaps may lie: at multiples of their size, which divides that of a partition, in temporary partitions, and below the
    allocation pointer if they are in its partition (`BitmapsOK`); at the start of a collection the partitions that the loop has yet to
    come to (`Todo`) may be without one, among them none that was added for a bitmap, being temporary;
  - where objects lie, by their addresses and sizes alone (`ObjectsOK`): a small one in the dynamic space of its partition,
    a large one from the start of the first of its partitions, of which none is marked if the first is not; that is what makes it safe
    to release them all by the mark of the first;
  - which partitions allocation, evacuation and release never meet (`PartitionOK`, `AllocationOK`): one that is free, temporary
    or of a large object is never evacuated, and none of these is that of the allocation;
  - that the iterator is at an object of its partition (`WalkOK`), so that what is evacuated exists, although the mutator allocates and
    evacuations add copies between two steps.

  The lemmas follow an allocation through the calls of the code, each of which may need the next: an object takes a partition, that one a
  bitmap, the bitmap a temporary partition, and this one a table in a partition of its own.  `HeapInv` was checked by TLC first.

`StructureProofs`: received blobs, for any lists and contents
- `OneBlobForAContent`: `DedupSpec => []Deduplicated`.  A search ends at the first entry of a content, so that it is not enough
  that a blob that the program has is in its list: `HeldFound` says that the *first* entry of its content refers to it.

`IncrementalGCProofs`
- `HeapSafe`: `Spec => [](TypeOK /\ NoDangling)`.
- `SnapshotHolds`: `Spec => []SnapshotAtTheBeginning`.
- `MarkingComplete`: `Spec => []MarkedAfterMarking`.
- `FlagCurrent`: `Spec => []RunningFlagCurrent` (the flag that the barriers test is the phase of the
  collector); it is proved only, and in no run.

  These follow from the invariant `IInv` of `IncrementalGC`, which says what is true in
  each phase.  `NoDangling` alone is not inductive: freeing the evacuated partitions
  is safe only because all pointers have been updated (`Updating`), which is so only
  because every object that is accessible was marked (`MarkedAfterMarking`), which
  holds only because of the snapshot invariant in the mark phase.  `Structure`
  collects the plain facts (free partitions are empty, marks are on objects, ...),
  `SlicesCurrent` says which array may be partly visited, `Forwarding` and `Evacuated`
  tie forwarding pointers to the iterator.
- `IsLiveAgrees`: `Spec => []WeakRefIsLiveAgrees`.  `weak_ref_is_live` does not resolve the forwarding of
  the weak reference that it is given, and `weak_get` does.  The two agree because of `CopiesAgree`: an object that has been
  moved and its copy have the same tag, and if they are weak references both are cleared or neither.

`HeapRefinementProofs`
- `HeapImplemented`: `RefinementSpec => ImplementsHeap`.  The program sees the heap of `MutatorHeap`, whatever the
  collector is doing.  The invariant `Mapped` is `IInv`, `Names` and `graph = GraphOf(VisibleObjects)`.  `Names`
  says that an object and its copies have one name, which no other object has, and that one of them is the current one, to
  which the others lead.  What is accessible is defined by iteration (`Reachable`); the proofs use that this is the
  least set that contains the roots and is closed (`ReachableIsClosed`, `ReachableIsLeast`, shown by the least
  counterexample).  `Shows(g)` says that a graph `g`, which may also have what is no longer accessible, agrees
  with what the program can see; by `ForgetShown` such a graph becomes the mapped one when the
  inaccessible is dropped.  So a step of the mutator needs only be shown to do the same to both graphs.  The steps of the
  collector change nothing that is visible, except `start_evacuating`, which clears weak references and is the step `Collect`: the ones
  it clears lead to unmarked objects, which by the snapshot invariant (`StrongIsMarked`) are not strongly
  reachable, and it clears all that lead to one object.
- `NoGarbageMarked`: `RefinementSpec => []GarbageNotMarked`.  The invariant `GarbageInv` says that while the collector marks,
  there is a set that the program cannot leave, that contains all that is marked and nothing that was garbage at the start;
  afterwards only copies of marked objects and new objects are marked.

`AsyncCallsProofs`, for any threads and entries and any number of futures and indices
- `TableIsTheCalls`: `AsyncSpec => []TableHoldsOutstanding`.
- `NobodyStranded`: `AsyncSpec => []NoneStranded`.
- `TrapsAreNotCaught`: `AsyncSpec => []TrapNotCaught`.
- `RefundIsOfAwaited`: `AsyncSpec => []RefundOfAwaited`.

  A trap brings back the state at the start of the message.  The invariant therefore speaks of *both* states, the current one
  (`CurrentOK`) and the one that a trap would restore (`SavedOK`), and `MessageOK` says which message is
  executed.  An index that a callback has taken from its call is in no call any more while that message runs, and is accounted for
  there (`Consumed`).

`LifecycleProofs`, for any number of controllers, upgrades and units to copy
- `UpgradesKeepState`: `LifecycleSpec => []StateSurvives`.  The invariant says where the state of the program is, on the heap or in the
  copy, by the state of the life cycle and the two static states of stabilization (`IdleOK`,
  `StabilizationOK`, `DestabilizationOK`).

`RegionsProofs`
- `RegionsRecoverable`: `Spec => []Recoverable`.
- `LoadsAreOfContent`: `Spec => []LoadsContent`.
- `RegionsAreArrays`: `Spec => RefinesPages`, if `RawMemoryFits`.
- `MigrationKeeps`: `Spec => MigrationKeepsData`, if `RawMemoryFits`.

  The invariant is about one memory: the one the program runs on or, between the halves of an upgrade, the one that
  `Restore` will bring back.  `LayoutOK` says that blocks, table and objects agree and that no two regions share a
  block, `SpareIsZero` that the pages behind the end of a region in its last block are zero, without which growth within a block
  would not add zeros.  `RawMemoryFits` leaves out exactly the raw memories whose first block is moved to an address that does not
  fit in 32 bits (memories of about 4 GiB); for those, the run `region_migration` shows that data is lost.  The
  first two theorems do not need it.

`GraphCopyProofs`, for every graph, page size, slice and chunk
- `CheneyHolds`: `CopySpec => []CheneyInvariant`.
- `GraphIsKept`: `CopySpec => []SameGraph`.
- `MemoryRestored`: `CopySpec => []StableRestored`.

  None of the three is inductive, and the last two speak of the end alone.  The invariant `IInv` has a case for each phase.
  `Copying(f)`: a function `f` gives the offset of each object that has been copied; the copies lie one behind the other
  between `start` and `free`, the scan address is at the header of one of them or, while a slice remains, at an element of an array
  (`AtPlace`), fields before it are offsets and fields behind it are those of the graph, all that has been copied is
  reachable, and the memory outside of the copy is untouched (`Frame`).  A field that is translated evacuates at most one object, so that `f`
  only ever grows (`Evacuate`, `Translate`, `TranslateAll`).  `Stored(f)`: when `scan = free`, the copies are closed under their fields,
  and the record and the descriptor in the last page leave them alone.  `Returning(f, e)`: a second function `e` gives the place in the new heap
  of each object that was moved; its header in stable memory is a forward address, and an object of the new heap is visited, or it is
  on the stack once and has been visited up to where an array is to be resumed (`FieldBack`, `OnStack`, `Visited`).
  When the stack is empty, `GraphRebuilt` composes `f` and `e` to the isomorphism.  `Cleaning` says how far the copy has been
  cleared.  That an object takes its size from a hash blob that may already have been moved is the lemma `ObjectSize`.

**Assumptions.**  Those on the constants that the modules state (`ASSUME`), for example that sizes are positive and that
the null pointer is not an address, and the hypotheses `AsyncConstants`, `StackConstants`, `DedupConstants` and `CopyUnits \in Nat`.
The latter are hypotheses of the theorems, because the modules are also instantiated; `MCCollector` and
`MCStructures` state the first three as assumptions, so that TLC evaluates them for the instances of the runs, and
`MCCollector` also those on the constants of the timers.
`SizesAssumption` of `PartitionedHeap` is about the sizes that the source fixes: that a bitmap is a fraction of a partition, that a
table fits in one beside other data, and that the static data of the program lies in the partitions of the first table.
The bound `MaxOperations` of the collector's runs is any number in `HeapRefinementProofs`.  The type invariants of
all these modules, and `CountIsLive`, need no run of their own, being proved.  The invariants of `BlobDedup` and `Regions`
that strengthen the properties were checked by TLC on the instances of section 3 before they were proved.

**Only model-checked** are
- the liveness properties (`RunCompletes`, `OneShotRuns`, `CallsAnswered`, `ThreadsEnd`, `UpgradeCompletes`): fairness, and with it
  `ENABLED`, is out of the prover's reach;
- what is about modules with recursive operators, which the prover's arithmetic backend cannot read:
  `Timers`, `CandidSubtyping`, `CandidDecoding` and `TextRope`;
- `SizesAgree` of `PartitionedHeap`: sums over the partitions and over the objects in them, which is induction over data;
- `AllVisited`: it needs that a walk has left nothing behind it, beside what `HeapInv` says of the heap.

## 5. What is not modelled

- *Scheduling and time limits of the collector*: heuristics over floating-point numbers; every
  choice they could make is a behaviour of `IncrementalGC`.
- *Numbers, number formats (LEB128), strings of principals, UTF-8 checks, case conversion*:
  functions of one call without state, some of them wrappers of vendored libraries.
- *Encoding, and the decoding of values into the heap*, which the compiler generates for each type.
- *Frontend, type checker, IR passes and code generator* beyond what the runtime meets
  of them: pure functions whose input is a whole language.
- *Interpreters, linker, tools, tests, documentation.*

The parts that the modelled components leave out are listed with each component
in `PROJECT.json` and with each module in section 2.

## 6. Plan

1. Proofs: `AllVisited` of `PartitionedHeap`.  Recursive operators may become recursive functions, as in
   `MarkStack`, where that is practicable.
2. `AsyncCalls` with one-way calls and with calls that time out.
