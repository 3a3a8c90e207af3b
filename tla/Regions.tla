------------------------------- MODULE Regions -------------------------------
(***************************************************************************)
(* Stable memory and its regions: rts/motoko-rts/src/region.rs and         *)
(* stable_mem.rs, on top of the virtual page allocator StableMem and the   *)
(* NewStableMemory backup and restore of src/codegen/compile.ml.           *)
(*                                                                         *)
(* A page is one cell.  The region manager's header (magic, base, totals   *)
(* and block-region table) is the record `header`; the pages it occupies   *)
(* are pages 0 .. base-1 of `stable`, which hold nothing else.  A failed   *)
(* growth or a trap changes nothing and is a stuttering step.              *)
(***************************************************************************)
EXTENDS Integers, Sequences, FiniteSets, FiniteSetsExt

CONSTANTS PagesInBlock,     \* PAGES_IN_BLOCK, 128 in the code
          MetaPages,        \* BASE_LOW in pages, 16 in the code
          MaxBlocks,        \* max::BLOCKS, 32768 in the code
          LastReserved,     \* LAST_RESERVED_REGION_ID, 15 in the code
          MaxStablePages,   \* --max-stable-pages
          U16,              \* number of block identifiers, 2^16 in the code
          U32Pages,         \* 2^32 bytes in pages, 65536 in the code
          Legacy,           \* raw stable memories left by older programs
          RegionIds,        \* bound: identifiers the program asks for
          Srcs,             \* the sequences of cells a store writes
          Zero              \* the cell of a page never written

ASSUME RegionsAssumption ==
  /\ PagesInBlock \in Nat \ {0} /\ MetaPages \in 1 .. PagesInBlock
  /\ MaxBlocks \in Nat \ {0} /\ LastReserved \in Nat
  /\ MaxStablePages \in Nat /\ U16 \in Nat \ {0} /\ U32Pages \in Nat \ {0}
  /\ MaxStablePages < U16 * PagesInBlock
  /\ \A m \in Legacy \cup Srcs : Len(m) \in Nat /\ DOMAIN m = 1 .. Len(m)
  /\ \A m \in Legacy : Len(m) <= MaxStablePages
  /\ RegionIds \subseteq Nat /\ \A r \in RegionIds : r > LastReserved

VARIABLES version,   \* __stablemem_version: are there regions?
          size,      \* __stablemem_size: logical pages
          base,      \* BLOCK_BASE, in pages
          stable,    \* the physical pages
          header,    \* the region manager's meta data in stable memory
          obj,       \* the Region objects on the heap, by identifier
          running    \* FALSE between the old instance and the new one

vars == <<version, size, base, stable, header, obj, running>>

NoHeader == [base |-> 0, blocks |-> 0, regions |-> 0, table |-> <<>>]
LastPage(mem) == Cardinality(DOMAIN mem) - 1     \* of the physical memory
-----------------------------------------------------------------------------
(* Arithmetic of blocks. *)
BlockCount(pages) == (pages + (PagesInBlock - 1)) \div PagesInBlock

\* mutant: a last block that is full counts zero pages
block_page_count_remainder(rank, blocks, pages) ==
  IF rank = blocks - 1 THEN pages % PagesInBlock ELSE PagesInBlock

block_page_count(rank, blocks, pages) ==
  IF rank = blocks - 1 THEN pages - (blocks - 1) * PagesInBlock ELSE PagesInBlock

(* StableMem.grow: within the limit; pages never touched before are zero. *)
CanGrow(have, pages) == have + pages <= MaxStablePages
Grown(mem, pages) ==
  [p \in DOMAIN mem \cup 0 .. pages - 1 |-> IF p \in DOMAIN mem THEN mem[p] ELSE Zero]

(* region_recover: pages and blocks of a region, from the table alone. *)
BlocksOf(h, r) == {b \in 0 .. h.blocks - 1 : h.table[b].region = r}

region_recover(h, r) ==
  LET pages == MapThenSumSet(LAMBDA b : h.table[b].pages, BlocksOf(h, r))
  IN  [pages |-> pages,
       vec |-> [k \in 0 .. BlockCount(pages) - 1 |->
                  CHOOSE b \in BlocksOf(h, r) : h.table[b].rank = k]]

(* relative_into_absolute_info: the page of stable memory behind a page of *)
(* a region.                                                               *)
Absolute(o, blockBase, p) ==
  blockBase + o.vec[p \div PagesInBlock] * PagesInBlock + (p % PagesInBlock)

(* The i-th cell of a region_load or region_store of len cells at offset:  *)
(* one access when first and last cell share a block; else a first access  *)
(* to the end of its block, then one access per block.                     *)
\* mutant: later accesses are placed as if the first had a whole block
AccessStart_unaligned(rest, i) == (i \div PagesInBlock) * PagesInBlock

AccessStart(rest, i) ==
  IF i < rest THEN 0 ELSE rest + ((i - rest) \div PagesInBlock) * PagesInBlock

StagedAbsolute(o, offset, len, i) ==
  LET rest  == PagesInBlock - (offset % PagesInBlock)
      start == IF o.vec[offset \div PagesInBlock]
                  = o.vec[(offset + len - 1) \div PagesInBlock]
               THEN 0 ELSE AccessStart(rest, i)
  IN  Absolute(o, base, offset + start) + (i - start)

check_relative_range(o, offset, len) ==
  IF len <= 1 THEN offset < o.pages ELSE offset + len <= o.pages
-----------------------------------------------------------------------------
Init ==
  /\ \E m \in Legacy :
       /\ size = Len(m)
       /\ stable = [p \in 0 .. Len(m) - 1 |-> m[p + 1]]
  /\ version = "noregions" /\ base = 0
  /\ header = NoHeader /\ obj = <<>> /\ running = TRUE

(* region_migration_from_no_stable_memory. *)
MigrationFromNone(mem) ==
  [size   |-> MetaPages,
   stable |-> [p \in DOMAIN Grown(mem, MetaPages) |->
                 IF p < MetaPages THEN Zero ELSE mem[p]],
   header |-> [base |-> MetaPages, blocks |-> 0, regions |-> LastReserved + 1,
               table |-> <<>>],
   ok     |-> CanGrow(0, MetaPages)]

(* region_migration_from_some_stable_memory: the raw pages become region 0. *)
(* Its head block makes place for the header and moves behind the others,   *)
(* to a byte address computed in u32.                                       *)
HeadBlockAddress(blocks) == (blocks * PagesInBlock) % U32Pages

MigrationFromSome(pages, mem) ==
  LET blocks == BlockCount(pages)
      total  == PagesInBlock + blocks * PagesInBlock
      grown  == Grown(mem, total)
      head   == HeadBlockAddress(blocks)
      rankOf(b) == IF b = blocks - 1 THEN 0 ELSE b + 1
  IN  [size   |-> total,
       stable |-> [p \in DOMAIN grown |->
                     IF p < PagesInBlock THEN Zero
                     ELSE IF p \in head .. head + PagesInBlock - 1
                     THEN grown[p - head] ELSE grown[p]],
       header |-> [base |-> PagesInBlock, blocks |-> blocks,
                   regions |-> LastReserved + 1,
                   table |-> [b \in 0 .. blocks - 1 |->
                                [region |-> 0, rank |-> rankOf(b),
                                 pages |-> block_page_count(rankOf(b), blocks, pages)]]],
       ok     |-> pages <= PagesInBlock * MaxBlocks
                  /\ CanGrow(pages, total - pages)]

Migration(pages, mem) ==
  IF pages = 0 THEN MigrationFromNone(mem) ELSE MigrationFromSome(pages, mem)

\* The objects with the one of a region, new or in place of the one it had.
WithRegion(objects, r, o) ==
  [x \in DOMAIN objects \cup {r} |-> IF x = r THEN o ELSE objects[x]]

(* region_new: migrate on the first region, then take the next identifier. *)
region_new ==
  /\ running
  /\ LET fresh == version = "noregions"
         m == IF fresh THEN Migration(size, stable)
              ELSE [size |-> size, stable |-> stable, header |-> header, ok |-> TRUE]
         id == m.header.regions
     IN  /\ m.ok
         /\ id \in RegionIds
         /\ size' = m.size
         /\ stable' = m.stable
         /\ base' = m.header.base
         /\ header' = [m.header EXCEPT !.regions = id + 1]
         /\ obj' = WithRegion(IF fresh THEN WithRegion(<<>>, 0, region_recover(m.header, 0))
                              ELSE obj,
                              id, [pages |-> 0, vec |-> <<>>])
  /\ version' = "regions"
  /\ UNCHANGED running

(* region_grow by n pages; new blocks are the next ones of the whole memory. *)
(* The last old block gets more pages, so its entry is written again too.    *)
FirstWritten(old) == old - 1

region_grow(r, n) ==
  /\ running /\ r \in DOMAIN obj
  /\ n <= MaxBlocks * PagesInBlock - obj[r].pages
  /\ LET pages  == obj[r].pages + n
         old    == BlockCount(obj[r].pages)
         blocks == BlockCount(pages)
         total  == header.blocks + (blocks - old)
         need   == base + total * PagesInBlock
         newId(k) == (header.blocks + (k - old)) % U16
         entry(k) == [region |-> r, rank |-> k,
                      pages |-> block_page_count(k, blocks, pages)]
         vec    == [k \in 0 .. blocks - 1 |->
                      IF k < old THEN obj[r].vec[k] ELSE newId(k)]
         set    == {b \in 0 .. total - 1 :
                      \E k \in 0 .. blocks - 1 : k >= FirstWritten(old) /\ vec[k] = b}
     IN  /\ size < need => CanGrow(size, need - size)
         /\ size' = IF size < need THEN need ELSE size
         /\ stable' = Grown(stable, size')
         /\ header' = [header EXCEPT !.blocks = total,
                         !.table = [b \in 0 .. total - 1 |->
                           IF b \in set
                           THEN entry(CHOOSE k \in 0 .. blocks - 1 : k >= FirstWritten(old) /\ vec[k] = b)
                           ELSE header.table[b]]]
         /\ obj' = [obj EXCEPT ![r] = [pages |-> pages, vec |-> vec]]
  /\ UNCHANGED <<version, base, running>>

region_store(r, offset, src) ==
  /\ running /\ r \in DOMAIN obj
  /\ check_relative_range(obj[r], offset, Len(src))
  /\ stable' = [p \in DOMAIN stable |->
       IF \E i \in DOMAIN src : StagedAbsolute(obj[r], offset, Len(src), i - 1) = p
       THEN src[CHOOSE i \in DOMAIN src : StagedAbsolute(obj[r], offset, Len(src), i - 1) = p]
       ELSE stable[p]]
  /\ UNCHANGED <<version, size, base, header, obj, running>>

(* NewStableMemory.backup at the end of pre_upgrade: page 0, which stands   *)
(* for the first word, is cleared and kept with size and version in a page  *)
(* behind the logical ones.  The new instance starts with fresh globals.    *)
Backup ==
  /\ running
  /\ running' = FALSE
  /\ IF DOMAIN stable = {} THEN UNCHANGED stable
     ELSE LET grown == Grown(stable, size + 1)
          IN  stable' = [grown EXCEPT ![0] = Zero,
                           ![LastPage(grown)] = [size |-> size, first |-> stable[0],
                                                 version |-> version]]
  /\ size' = 0 /\ base' = 0 /\ version' = "noregions"
  /\ UNCHANGED <<header, obj>>

(* NewStableMemory.restore, then region_init: recover region 0 from the     *)
(* table, or migrate at once if compiled with --stable-regions.             *)
\* mutant: the record stays behind the logical pages
Restored_uncleared ==
  LET last == LastPage(stable)
  IN  IF DOMAIN stable = {} THEN [size |-> 0, version |-> "noregions", stable |-> stable]
      ELSE [size |-> stable[last].size, version |-> stable[last].version,
            stable |-> [stable EXCEPT ![0] = stable[last].first]]

Restored ==
  LET last == LastPage(stable)
  IN  IF DOMAIN stable = {} THEN [size |-> 0, version |-> "noregions", stable |-> stable]
      ELSE [size |-> stable[last].size, version |-> stable[last].version,
            stable |-> [stable EXCEPT ![last] = Zero, ![0] = stable[last].first]]

Restore(use_stable_regions) ==
  /\ ~running
  /\ running' = TRUE
  /\ LET old   == Restored
         fresh == use_stable_regions /\ old.version = "noregions"
         m == IF fresh THEN Migration(old.size, old.stable)
              ELSE [size |-> old.size, stable |-> old.stable, header |-> header, ok |-> TRUE]
     IN  /\ m.ok
         /\ size' = m.size
         /\ stable' = m.stable
         /\ header' = m.header
         /\ version' = IF fresh THEN "regions" ELSE old.version
         /\ base' = IF version' = "regions" THEN m.header.base ELSE 0
         /\ obj' = IF version' = "regions"
                   THEN WithRegion(obj, 0, region_recover(m.header, 0)) ELSE obj

Next ==
  \/ region_new
  \/ \E r \in RegionIds, n \in 0 .. MaxStablePages : region_grow(r, n)
  \/ \E r \in RegionIds, offset \in 0 .. MaxStablePages, src \in Srcs :
        region_store(r, offset, src)
  \/ Backup
  \/ \E b \in BOOLEAN : Restore(b)

Spec == Init /\ [][Next]_vars
-----------------------------------------------------------------------------
(* Invariants *)

\* What a program reads back from a region: region_load of len cells.
region_load(r, offset, len) ==
  [i \in 1 .. len |-> stable[StagedAbsolute(obj[r], offset, len, i - 1)]]

\* The abstract array behind a region: the raw memory while there is none.
Content(r) ==
  LET mem == IF running THEN [size |-> size, version |-> version, stable |-> stable]
             ELSE Restored
      at  == IF mem.version = "regions" THEN header.base ELSE 0
  IN  IF r = 0 /\ mem.version = "noregions"
      THEN [p \in 1 .. mem.size |-> mem.stable[p - 1]]
      ELSE IF r \in DOMAIN obj
      THEN [p \in 1 .. obj[r].pages |-> mem.stable[Absolute(obj[r], at, p - 1)]]
      ELSE <<>>

\* Types: a region object has one block for every started PagesInBlock pages,
\* all of them inside the logical memory.
TypeOK ==
  /\ version \in {"noregions", "regions"} /\ running \in BOOLEAN
  /\ size \in 0 .. MaxStablePages /\ base \in {0, MetaPages, PagesInBlock}
  /\ \A r \in DOMAIN obj :
       /\ DOMAIN obj[r].vec = 0 .. BlockCount(obj[r].pages) - 1
       /\ \A k \in DOMAIN obj[r].vec : obj[r].vec[k] \in 0 .. header.blocks - 1
  /\ DOMAIN header.table = 0 .. header.blocks - 1
  /\ running => 0 .. size - 1 \subseteq DOMAIN stable

\* Every block belongs to one region, at one rank: the table in stable memory
\* and the Region objects on the heap say the same, however regions, growth
\* and upgrades interleave.
TableAgrees ==
  \A b \in DOMAIN header.table :
    LET e == header.table[b]
    IN  /\ e.region \in DOMAIN obj
        /\ e.rank \in DOMAIN obj[e.region].vec
        /\ \A r \in DOMAIN obj : \A k \in DOMAIN obj[r].vec :
             obj[r].vec[k] = b <=> r = e.region /\ k = e.rank
        /\ e.pages = block_page_count(e.rank, BlockCount(obj[e.region].pages),
                                      obj[e.region].pages)

\* "we can also rebuild all of the region objects from data in stable memory"
\* (design/StableRegions.md): the table alone gives back each object.
Recoverable == TypeOK /\ TableAgrees /\ \A r \in DOMAIN obj : region_recover(header, r) = obj[r]

\* A load that is staged over blocks returns the cells of the region's array,
\* for every range that passes the bounds check, and never reads the header.
LoadsContent ==
  running => \A r \in DOMAIN obj \ {0} : \A offset \in 0 .. obj[r].pages :
    \A len \in 1 .. obj[r].pages :
      check_relative_range(obj[r], offset, len) =>
        region_load(r, offset, len) = SubSeq(Content(r), offset + 1, offset + len)

\* Every region behaves as an array of pages of its own (module RegionPages):
\* nothing done to another region, no upgrade and no migration changes it.
Pages == INSTANCE RegionPages WITH
  created <- DOMAIN obj \ {0},
  content <- [r \in RegionIds \cup {0} |-> Content(r)]
RefinesPages == Pages!Spec

\* Migration "must preserve existing data": the raw memory of an older program
\* is the content of region 0 afterwards, whatever its size.
MigrationKeepsData == [][Content(0)' = Content(0)]_vars
=============================================================================
