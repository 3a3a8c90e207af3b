---------------------------- MODULE RegionsProofs ----------------------------
(***************************************************************************)
(* Regions are arrays of their own, and the table in stable memory gives   *)
(* all of them back: for all sizes of blocks and of the memory, all stores *)
(* and all numbers of regions.                                             *)
(***************************************************************************)
EXTENDS Regions, TLAPS, FiniteSetTheorems, SequenceTheorems, WellFoundedInduction

-----------------------------------------------------------------------------
\* A block has pages, and the header of a new memory takes at most one block.
LEMMA Constants ==
    /\ PagesInBlock \in Nat /\ PagesInBlock > 0
    /\ MetaPages \in Nat /\ MetaPages > 0 /\ MetaPages <= PagesInBlock
    /\ MaxBlocks \in Nat /\ LastReserved \in Nat /\ MaxStablePages \in Nat
    /\ U16 \in Nat /\ U32Pages \in Nat /\ U32Pages > 0
    /\ MaxStablePages < U16 * PagesInBlock
  BY RegionsAssumption

\* A page of a region: the block and the place in it.
LEMMA Division ==
    ASSUME NEW p \in Nat
    PROVE  /\ p = (p \div PagesInBlock) * PagesInBlock + (p % PagesInBlock)
           /\ p \div PagesInBlock \in Nat
           /\ p % PagesInBlock \in 0 .. PagesInBlock - 1
  BY Constants

\* The block and the place of a page that is given by them.
LEMMA DivisionIs ==
    ASSUME NEW q \in Nat, NEW r \in 0 .. PagesInBlock - 1
    PROVE  /\ (q * PagesInBlock + r) \div PagesInBlock = q
           /\ (q * PagesInBlock + r) % PagesInBlock = r
  BY Constants

\* Blocks do not overlap.
LEMMA BlocksApart ==
    ASSUME NEW a \in Int, NEW b \in Int, a < b
    PROVE  a * PagesInBlock + PagesInBlock <= b * PagesInBlock
  BY Constants

\* Two pages are the same only if block and place are.
LEMMA PlaceInBlock ==
    ASSUME NEW a \in Int, NEW b \in Int,
           NEW r \in 0 .. PagesInBlock - 1, NEW s \in 0 .. PagesInBlock - 1,
           a * PagesInBlock + r = b * PagesInBlock + s
    PROVE  a = b /\ r = s
<1>1. /\ a * PagesInBlock \in Int /\ b * PagesInBlock \in Int /\ PagesInBlock \in Nat
  BY Constants
<1>2. ~(a < b)
  BY <1>1, BlocksApart
<1>3. ~(b < a)
  BY <1>1, BlocksApart
<1> QED BY <1>1, <1>2, <1>3

\* The blocks of so many pages hold them, and the last one is not empty.
LEMMA BlockCountIs ==
    ASSUME NEW pages \in Nat
    PROVE  /\ BlockCount(pages) \in Nat
           /\ pages <= BlockCount(pages) * PagesInBlock
           /\ (BlockCount(pages) - 1) * PagesInBlock < pages
           /\ BlockCount(pages) = 0 <=> pages = 0
<1> DEFINE n == BlockCount(pages)
           r == (pages + (PagesInBlock - 1)) % PagesInBlock
<1>1. /\ PagesInBlock \in Nat /\ PagesInBlock > 0 /\ pages + (PagesInBlock - 1) \in Nat
  BY Constants
<1>2. /\ pages + (PagesInBlock - 1) = n * PagesInBlock + r
      /\ n \in Nat /\ r \in 0 .. PagesInBlock - 1
  BY <1>1, Division DEF BlockCount
<1> HIDE DEF n, r
<1>3. (n - 1) * PagesInBlock = n * PagesInBlock - PagesInBlock /\ n * PagesInBlock \in Nat
  BY <1>1, <1>2
<1>4. pages <= n * PagesInBlock /\ (n - 1) * PagesInBlock < pages
  BY <1>1, <1>2, <1>3
<1>5. n = 0 => pages = 0
  BY <1>1, <1>4
<1>6. pages = 0 => n = 0
  <2> SUFFICES ASSUME pages = 0, n >= 1 PROVE FALSE
    BY <1>2
  <2>1. n * PagesInBlock >= PagesInBlock
    BY <1>1, <1>2
  <2> QED BY <1>1, <1>2, <2>1
<1> QED BY <1>2, <1>4, <1>5, <1>6 DEF n

\* It is the only such number.
LEMMA BlockCountUnique ==
    ASSUME NEW pages \in Nat, NEW n \in Nat,
           pages <= n * PagesInBlock, (n - 1) * PagesInBlock < pages
    PROVE  BlockCount(pages) = n
<1> DEFINE m == BlockCount(pages)
<1>1. /\ m \in Nat /\ pages <= m * PagesInBlock /\ (m - 1) * PagesInBlock < pages
  BY BlockCountIs
<1>2. PagesInBlock \in Nat /\ m * PagesInBlock \in Int /\ n * PagesInBlock \in Int
  BY <1>1, Constants
<1> HIDE DEF m
<1>3. ~(m < n)
  <2> SUFFICES ASSUME m < n PROVE FALSE
    OBVIOUS
  <2>1. m * PagesInBlock + PagesInBlock <= n * PagesInBlock
    BY <1>1, BlocksApart
  <2>2. (n - 1) * PagesInBlock = n * PagesInBlock - PagesInBlock
    BY <1>2
  <2> QED BY <1>1, <1>2, <2>1, <2>2
<1>4. ~(n < m)
  <2> SUFFICES ASSUME n < m PROVE FALSE
    OBVIOUS
  <2>1. n * PagesInBlock + PagesInBlock <= m * PagesInBlock
    BY <1>1, BlocksApart
  <2>2. (m - 1) * PagesInBlock = m * PagesInBlock - PagesInBlock
    BY <1>1, <1>2
  <2> QED BY <1>1, <1>2, <2>1, <2>2
<1> QED BY <1>1, <1>3, <1>4 DEF m

\* More pages have no fewer blocks.
LEMMA BlockCountGrows ==
    ASSUME NEW few \in Nat, NEW many \in Nat, few <= many
    PROVE  BlockCount(few) <= BlockCount(many)
<1> DEFINE m == BlockCount(few)
           n == BlockCount(many)
<1>1. /\ m \in Nat /\ n \in Nat /\ many <= n * PagesInBlock
      /\ (m - 1) * PagesInBlock < few
  BY BlockCountIs
<1> HIDE DEF m, n
<1> SUFFICES ASSUME n < m PROVE FALSE
  BY <1>1 DEF m, n
<1>2. n * PagesInBlock + PagesInBlock <= m * PagesInBlock
  BY <1>1, BlocksApart
<1>3. (m - 1) * PagesInBlock = m * PagesInBlock - PagesInBlock /\ PagesInBlock \in Nat
  BY <1>1, Constants
<1> QED BY <1>1, <1>2, <1>3

\* The pages of a region are those in its blocks.
LEMMA RankOfPage ==
    ASSUME NEW pages \in Nat, NEW p \in Nat, p < BlockCount(pages) * PagesInBlock
    PROVE  p \div PagesInBlock \in 0 .. BlockCount(pages) - 1
<1> DEFINE q == p \div PagesInBlock
           n == BlockCount(pages)
<1>1. /\ p = q * PagesInBlock + (p % PagesInBlock) /\ q \in Nat
      /\ p % PagesInBlock \in 0 .. PagesInBlock - 1
  BY Division
<1>2. n \in Nat /\ p < n * PagesInBlock
  BY BlockCountIs
<1> HIDE DEF q, n
<1> SUFFICES ASSUME n <= q PROVE FALSE
  BY <1>1, <1>2 DEF q, n
<1>3. n * PagesInBlock <= q * PagesInBlock
  BY <1>1, <1>2, Constants
<1>4. n * PagesInBlock \in Nat /\ q * PagesInBlock \in Nat /\ PagesInBlock \in Nat
  BY <1>1, <1>2, Constants
<1> QED BY <1>1, <1>2, <1>3, <1>4
-----------------------------------------------------------------------------
\* A set of numbers has a least one.
LEMMA LeastNumber ==
    ASSUME NEW S, S \subseteq Nat, S # {}
    PROVE  \E x \in S : \A y \in S : x <= y
<1>1. PICK x \in S : \A y \in S : ~(<<y, x>> \in OpToRel(<, Nat))
  BY NatLessThanWellFounded, WFMin
<1>2. \A y \in S : x <= y
  <2> SUFFICES ASSUME NEW y \in S, ~(x <= y) PROVE FALSE
    OBVIOUS
  <2>1. y < x /\ x \in Nat /\ y \in Nat
    OBVIOUS
  <2>2. <<y, x>> \in OpToRel(<, Nat)
    BY <2>1 DEF OpToRel
  <2> QED BY <1>1, <2>2
<1> QED BY <1>2

\* The pages of a set of blocks.
PagesOf(table, S) == MapThenSumSet(LAMBDA b : table[b].pages, S)

\* The pages of sets of blocks, one block at a time in any order.
Sums(sum, table, S) ==
    sum = [s \in SUBSET S |->
             IF s = {} THEN 0
             ELSE table[CHOOSE b \in s : TRUE].pages + sum[s \ {CHOOSE b \in s : TRUE}]]

\* All blocks of a region are full but the last one: so many pages they have.
LEMMA SumOfPages ==
    ASSUME NEW table, NEW S, IsFiniteSet(S), NEW last, NEW rest \in Nat,
           \A b \in S : table[b].pages = IF b = last THEN rest ELSE PagesInBlock
    PROVE  PagesOf(table, S)
             = Cardinality(S) * PagesInBlock + (IF last \in S THEN rest - PagesInBlock ELSE 0)
<1> DEFINE value(s) == Cardinality(s) * PagesInBlock
                         + (IF last \in s THEN rest - PagesInBlock ELSE 0)
           F == [s \in SUBSET S |-> value(s)]
           sum == CHOOSE f : Sums(f, table, S)
<1>0. PagesInBlock \in Nat
  BY Constants
<1>1. ASSUME NEW s \in SUBSET S
      PROVE  /\ IsFiniteSet(s) /\ Cardinality(s) \in Nat
             /\ s = {} => value(s) = 0
             /\ s # {} => /\ (CHOOSE b \in s : TRUE) \in s
                          /\ Cardinality(s \ {CHOOSE b \in s : TRUE}) = Cardinality(s) - 1
                          /\ value(s) = table[CHOOSE b \in s : TRUE].pages
                                          + value(s \ {CHOOSE b \in s : TRUE})
  <2>1. IsFiniteSet(s) /\ Cardinality(s) \in Nat
    BY FS_Subset, FS_CardinalityType
  <2>2. CASE s = {}
    BY <1>0, <2>1, <2>2, FS_EmptySet
  <2>3. CASE s # {}
    <3> DEFINE x == CHOOSE b \in s : TRUE
               t == s \ {x}
    <3>1. x \in s
      BY <2>3
    <3>2. Cardinality(t) = Cardinality(s) - 1 /\ Cardinality(s) \in Nat
      BY <2>1, <3>1, FS_RemoveElement
    <3>3. table[x].pages = IF x = last THEN rest ELSE PagesInBlock
      BY <3>1
    <3> HIDE DEF x
    <3>4. Cardinality(t) * PagesInBlock = Cardinality(s) * PagesInBlock - PagesInBlock
          /\ Cardinality(s) * PagesInBlock \in Int
      BY <1>0, <3>2
    <3>5. CASE x = last
      <4>1. last \in s /\ last \notin t
        BY <3>1, <3>5
      <4> QED BY <1>0, <2>1, <2>3, <3>1, <3>2, <3>3, <3>4, <3>5, <4>1 DEF x
    <3>6. CASE x # last
      <4>1. last \in s <=> last \in t
        BY <3>6
      <4> QED BY <1>0, <2>1, <2>3, <3>1, <3>2, <3>3, <3>4, <3>6, <4>1 DEF x
    <3> QED BY <3>5, <3>6
  <2> QED BY <2>1, <2>2, <2>3
<1> HIDE DEF value
<1>2. Sums(F, table, S)
  <2>1. ASSUME NEW s \in SUBSET S
        PROVE  F[s] = IF s = {} THEN 0
                      ELSE table[CHOOSE b \in s : TRUE].pages + F[s \ {CHOOSE b \in s : TRUE}]
    BY <1>1
  <2> QED BY <2>1 DEF Sums
<1>3. Sums(sum, table, S)
  BY <1>2
<1> HIDE DEF sum, F
<1>4. \A s \in SUBSET S : sum[s] = F[s]
  <2> SUFFICES ASSUME \E s \in SUBSET S : sum[s] # F[s] PROVE FALSE
    OBVIOUS
  <2> DEFINE T == {Cardinality(s) : s \in {t \in SUBSET S : sum[t] # F[t]}}
  <2>1. T \subseteq Nat /\ T # {}
    BY <1>1, ZenonT(40)
  <2>2. PICK n \in T : \A m \in T : n <= m
    BY <2>1, LeastNumber
  <2>3. PICK s \in SUBSET S : sum[s] # F[s] /\ n = Cardinality(s)
    BY <2>2
  <2>4. CASE s = {}
    BY <1>2, <1>3, <2>3, <2>4 DEF Sums
  <2>5. CASE s # {}
    <3> DEFINE x == CHOOSE b \in s : TRUE
               t == s \ {x}
    <3>1. t \in SUBSET S /\ Cardinality(t) = n - 1 /\ n \in Nat
      BY <1>1, <2>3, <2>5
    <3>2. sum[t] = F[t]
      <4> SUFFICES ASSUME sum[t] # F[t] PROVE FALSE
        OBVIOUS
      <4>1. Cardinality(t) \in T
        BY <3>1
      <4>2. n <= Cardinality(t)
        BY <2>2, <4>1
      <4> QED BY <3>1, <4>2
    <3>3. sum[s] = table[x].pages + sum[t] /\ F[s] = table[x].pages + F[t]
      BY <1>2, <1>3, <2>5 DEF Sums
    <3> QED BY <2>3, <3>2, <3>3
  <2> QED BY <2>4, <2>5
<1>5. PagesOf(table, S) = sum[S]
  BY DEF PagesOf, MapThenSumSet, MapThenFoldSet, Sums, sum
<1>6. sum[S] = value(S)
  BY <1>4 DEF F
<1> QED BY <1>5, <1>6 DEF value
-----------------------------------------------------------------------------
\* What the header h in stable memory and the Region objects o say of the blocks.
HeaderOK(h) ==
    /\ h \in [base : {0, MetaPages, PagesInBlock}, blocks : Nat, regions : Nat, table : {h.table}]
    /\ DOMAIN h.table = 0 .. h.blocks - 1

Ranks(object) == 0 .. BlockCount(object.pages) - 1

ObjectOK(object, h) ==
    object \in [pages : Nat, vec : [Ranks(object) -> 0 .. h.blocks - 1]]

EntryAgrees(h, o, b) ==
    LET e == h.table[b]
    IN  /\ e.region \in DOMAIN o
        /\ e.rank \in DOMAIN o[e.region].vec
        /\ \A r \in DOMAIN o : \A k \in DOMAIN o[r].vec :
             o[r].vec[k] = b <=> r = e.region /\ k = e.rank
        /\ e.pages = block_page_count(e.rank, BlockCount(o[e.region].pages), o[e.region].pages)

ObjectsOK(h, o) ==
    /\ HeaderOK(h)
    /\ o = [r \in DOMAIN o |-> o[r]]
    /\ \A r \in DOMAIN o : r \in Nat /\ r < h.regions /\ ObjectOK(o[r], h)
    /\ \A b \in 0 .. h.blocks - 1 : EntryAgrees(h, o, b)

\* A block of a region is in the table, at its rank.
LEMMA BlockEntry ==
    ASSUME NEW h, NEW o, ObjectsOK(h, o), NEW r \in DOMAIN o, NEW k \in Ranks(o[r])
    PROVE  /\ o[r].vec[k] \in 0 .. h.blocks - 1
           /\ h.table[o[r].vec[k]].region = r /\ h.table[o[r].vec[k]].rank = k
           /\ h.table[o[r].vec[k]].pages
                = block_page_count(k, BlockCount(o[r].pages), o[r].pages)
<1>1. ObjectOK(o[r], h)
  BY DEF ObjectsOK
<1>2. o[r].vec[k] \in 0 .. h.blocks - 1 /\ k \in DOMAIN o[r].vec
  BY <1>1 DEF ObjectOK
<1>3. EntryAgrees(h, o, o[r].vec[k])
  BY <1>2 DEF ObjectsOK
<1> QED BY <1>2, <1>3 DEF EntryAgrees

\* No block belongs to two regions, or to two ranks of one.
LEMMA BlocksDistinct ==
    ASSUME NEW h, NEW o, ObjectsOK(h, o),
           NEW r \in DOMAIN o, NEW k \in Ranks(o[r]),
           NEW s \in DOMAIN o, NEW l \in Ranks(o[s]),
           o[r].vec[k] = o[s].vec[l]
    PROVE  r = s /\ k = l
  BY BlockEntry

\* The blocks of a region in the table are those of its object.
LEMMA BlocksAre ==
    ASSUME NEW h, NEW o, ObjectsOK(h, o), NEW r \in DOMAIN o
    PROVE  /\ BlocksOf(h, r) = {o[r].vec[k] : k \in Ranks(o[r])}
           /\ IsFiniteSet(BlocksOf(h, r))
           /\ Cardinality(BlocksOf(h, r)) = BlockCount(o[r].pages)
<1> DEFINE n == BlockCount(o[r].pages)
<1>1. ObjectOK(o[r], h) /\ n \in Nat
  BY BlockCountIs DEF ObjectsOK, ObjectOK
<1>2. BlocksOf(h, r) \subseteq {o[r].vec[k] : k \in Ranks(o[r])}
  <2> SUFFICES ASSUME NEW b \in BlocksOf(h, r)
               PROVE  \E k \in Ranks(o[r]) : b = o[r].vec[k]
    OBVIOUS
  <2>1. b \in 0 .. h.blocks - 1 /\ h.table[b].region = r
    BY DEF BlocksOf
  <2>2. EntryAgrees(h, o, b)
    BY <2>1 DEF ObjectsOK
  <2>3. DOMAIN o[r].vec = Ranks(o[r])
    BY <1>1 DEF ObjectOK
  <2> QED BY <2>1, <2>2, <2>3 DEF EntryAgrees
<1>3. {o[r].vec[k] : k \in Ranks(o[r])} \subseteq BlocksOf(h, r)
  BY BlockEntry DEF BlocksOf
<1> DEFINE f == [k \in Ranks(o[r]) |-> o[r].vec[k]]
<1>4. f \in Bijection(Ranks(o[r]), BlocksOf(h, r))
  <2>1. f \in [Ranks(o[r]) -> BlocksOf(h, r)]
    BY <1>3
  <2>2. \A k, l \in Ranks(o[r]) : f[k] = f[l] => k = l
    BY BlocksDistinct
  <2>3. \A b \in BlocksOf(h, r) : \E k \in Ranks(o[r]) : f[k] = b
    BY <1>2
  <2> QED BY <2>1, <2>2, <2>3 DEF Bijection, Injection, Surjection, IsInjective
<1>5. IsFiniteSet(Ranks(o[r])) /\ Cardinality(Ranks(o[r])) = n
  <2>1. 0 \in Int /\ n - 1 \in Int
    BY <1>1
  <2>2. /\ IsFiniteSet(0 .. n - 1)
        /\ Cardinality(0 .. n - 1) = IF 0 > n - 1 THEN 0 ELSE (n - 1) - 0 + 1
    BY <2>1, FS_Interval
  <2> QED BY <1>1, <2>2 DEF Ranks
<1>6. ExistsBijection(Ranks(o[r]), BlocksOf(h, r))
  BY <1>4 DEF ExistsBijection
<1> QED BY <1>2, <1>3, <1>5, <1>6, FS_Bijection

\* The table alone gives back each object (region_recover).
LEMMA RecoverGivesBack ==
    ASSUME NEW h, NEW o, ObjectsOK(h, o), NEW r \in DOMAIN o
    PROVE  region_recover(h, r) = o[r]
<1> DEFINE pages == o[r].pages
           n == BlockCount(pages)
           S == BlocksOf(h, r)
           last == o[r].vec[n - 1]
           rest == pages - (n - 1) * PagesInBlock
           total == PagesOf(h.table, S)
<1>1. ObjectOK(o[r], h) /\ pages \in Nat
  BY DEF ObjectsOK, ObjectOK
<1>2. /\ n \in Nat /\ (n - 1) * PagesInBlock < pages
      /\ (n = 0 <=> pages = 0)
      /\ PagesInBlock \in Nat
  BY <1>1, BlockCountIs, Constants
<1>3. S = {o[r].vec[k] : k \in Ranks(o[r])} /\ IsFiniteSet(S) /\ Cardinality(S) = n
  BY BlocksAre
<1>4. rest \in Nat
  <2>1. (n - 1) * PagesInBlock \in Int
    BY <1>2
  <2> QED BY <1>1, <1>2, <2>1
<1>5. ASSUME NEW b \in S
      PROVE  h.table[b].pages = IF b = last THEN rest ELSE PagesInBlock
  <2>1. PICK k \in Ranks(o[r]) : b = o[r].vec[k]
    BY <1>3
  <2>2. h.table[b].pages = block_page_count(k, n, pages)
    BY <2>1, BlockEntry
  <2>3. n - 1 \in Ranks(o[r])
    BY <1>2, <2>1 DEF Ranks
  <2>4. b = last <=> k = n - 1
    BY <2>1, <2>3, BlocksDistinct
  <2> QED BY <2>2, <2>4 DEF block_page_count
<1>6. total = pages
  <2>1. total = n * PagesInBlock + (IF last \in S THEN rest - PagesInBlock ELSE 0)
    <3> HIDE DEF rest, last, S, n
    <3> QED BY <1>3, <1>4, <1>5, SumOfPages
  <2>2. CASE n = 0
    <3>1. S = {}
      BY <1>2, <1>3, <2>2 DEF Ranks
    <3> QED BY <1>2, <2>1, <2>2, <3>1
  <2>3. CASE n # 0
    <3>1. last \in S
      BY <1>2, <1>3, <2>3 DEF Ranks
    <3>2. (n - 1) * PagesInBlock = n * PagesInBlock - PagesInBlock /\ n * PagesInBlock \in Int
      BY <1>2
    <3> HIDE DEF last, S, n, total
    <3> QED BY <1>1, <1>2, <2>1, <3>1, <3>2 DEF rest
  <2> QED BY <2>2, <2>3
<1>7. ASSUME NEW k \in Ranks(o[r])
      PROVE  (CHOOSE b \in S : h.table[b].rank = k) = o[r].vec[k]
  <2>1. o[r].vec[k] \in S /\ h.table[o[r].vec[k]].rank = k
    BY <1>3, BlockEntry
  <2>2. ASSUME NEW b \in S, h.table[b].rank = k PROVE b = o[r].vec[k]
    <3>1. PICK l \in Ranks(o[r]) : b = o[r].vec[l]
      BY <1>3
    <3> QED BY <2>2, <3>1, BlockEntry
  <2> QED BY <2>1, <2>2
<1>8. region_recover(h, r)
        = [pages |-> total,
           vec |-> [k \in 0 .. BlockCount(total) - 1 |->
                      CHOOSE b \in S : h.table[b].rank = k]]
  BY DEF region_recover, PagesOf
<1> HIDE DEF total, S
<1>9. region_recover(h, r) = [pages |-> pages, vec |-> [k \in Ranks(o[r]) |-> o[r].vec[k]]]
  <2> DEFINE v == [k \in Ranks(o[r]) |-> CHOOSE b \in S : h.table[b].rank = k]
  <2>1. v = [k \in Ranks(o[r]) |-> o[r].vec[k]]
    BY <1>7
  <2>2. region_recover(h, r) = [pages |-> pages, vec |-> v]
    BY <1>6, <1>8 DEF Ranks
  <2> QED BY <2>1, <2>2
<1> QED BY <1>1, <1>9 DEF ObjectOK
-----------------------------------------------------------------------------
\* A page in a block of a region.
LEMMA AbsoluteIs ==
    ASSUME NEW object, NEW at, NEW k \in Nat, NEW j \in 0 .. PagesInBlock - 1
    PROVE  Absolute(object, at, k * PagesInBlock + j) = at + object.vec[k] * PagesInBlock + j
  BY DivisionIs DEF Absolute

\* Two pages of regions are at one place only if they are the same.
LEMMA PagesDistinct ==
    ASSUME NEW h, NEW o, ObjectsOK(h, o), NEW at \in Nat,
           NEW r \in DOMAIN o, NEW p \in 0 .. BlockCount(o[r].pages) * PagesInBlock - 1,
           NEW s \in DOMAIN o, NEW q \in 0 .. BlockCount(o[s].pages) * PagesInBlock - 1,
           Absolute(o[r], at, p) = Absolute(o[s], at, q)
    PROVE  r = s /\ p = q
<1> DEFINE k == p \div PagesInBlock
           l == q \div PagesInBlock
<1>1. o[r].pages \in Nat /\ o[s].pages \in Nat /\ PagesInBlock \in Nat
  BY Constants DEF ObjectsOK, ObjectOK
<1>2. /\ BlockCount(o[r].pages) * PagesInBlock \in Nat /\ p \in Nat
      /\ BlockCount(o[s].pages) * PagesInBlock \in Nat /\ q \in Nat
  BY <1>1, BlockCountIs
<1>3. k \in Ranks(o[r]) /\ l \in Ranks(o[s])
  BY <1>1, <1>2, RankOfPage DEF Ranks
<1>4. /\ p = k * PagesInBlock + (p % PagesInBlock) /\ k \in Nat
      /\ q = l * PagesInBlock + (q % PagesInBlock) /\ l \in Nat
      /\ p % PagesInBlock \in 0 .. PagesInBlock - 1
      /\ q % PagesInBlock \in 0 .. PagesInBlock - 1
  BY <1>2, Division
<1>5. o[r].vec[k] \in Nat /\ o[s].vec[l] \in Nat
  <2>1. o[r].vec[k] \in 0 .. h.blocks - 1 /\ o[s].vec[l] \in 0 .. h.blocks - 1
    BY <1>3, BlockEntry
  <2> QED BY <2>1
<1>6. at + o[r].vec[k] * PagesInBlock + (p % PagesInBlock)
        = at + o[s].vec[l] * PagesInBlock + (q % PagesInBlock)
  BY DEF Absolute
<1>7. o[r].vec[k] * PagesInBlock + (p % PagesInBlock)
        = o[s].vec[l] * PagesInBlock + (q % PagesInBlock)
  <2>1. o[r].vec[k] * PagesInBlock \in Nat /\ o[s].vec[l] * PagesInBlock \in Nat
    BY <1>1, <1>5
  <2> HIDE DEF k, l
  <2> QED BY <1>4, <1>6, <2>1
<1>8. o[r].vec[k] = o[s].vec[l] /\ p % PagesInBlock = q % PagesInBlock
  <2> HIDE DEF k, l
  <2> QED BY <1>4, <1>5, <1>7, PlaceInBlock
<1>9. r = s /\ k = l
  <2> HIDE DEF k, l
  <2> QED BY <1>3, <1>8, BlocksDistinct
<1> HIDE DEF k, l
<1> QED BY <1>4, <1>8, <1>9

\* The pages of a region are in the memory behind the header.
LEMMA PageInside ==
    ASSUME NEW h, NEW o, ObjectsOK(h, o), NEW at \in Nat,
           NEW r \in DOMAIN o, NEW p \in 0 .. BlockCount(o[r].pages) * PagesInBlock - 1
    PROVE  Absolute(o[r], at, p) \in at .. at + h.blocks * PagesInBlock - 1
<1> DEFINE k == p \div PagesInBlock
           b == o[r].vec[k]
<1>1. o[r].pages \in Nat /\ PagesInBlock \in Nat /\ h.blocks \in Nat
  BY Constants DEF ObjectsOK, ObjectOK, HeaderOK
<1>2. BlockCount(o[r].pages) * PagesInBlock \in Nat /\ p \in Nat
  BY <1>1, BlockCountIs
<1>3. k \in Ranks(o[r])
  BY <1>1, <1>2, RankOfPage DEF Ranks
<1>4. p % PagesInBlock \in 0 .. PagesInBlock - 1
  BY <1>2, Division
<1>5. b \in 0 .. h.blocks - 1
  BY <1>3, BlockEntry
<1>6. Absolute(o[r], at, p) = at + b * PagesInBlock + (p % PagesInBlock)
  BY DEF Absolute
<1> HIDE DEF b
<1>7. b * PagesInBlock + PagesInBlock <= h.blocks * PagesInBlock
  BY <1>1, <1>5, BlocksApart
<1>8. b * PagesInBlock \in Nat /\ h.blocks * PagesInBlock \in Nat
  BY <1>1, <1>5
<1> QED BY <1>1, <1>4, <1>6, <1>7, <1>8

\* Every access of a load or store that is staged over blocks goes to the page that
\* it is meant for.
LEMMA StagedIs ==
    ASSUME NEW object, object.pages \in Nat, base \in Nat,
           \A k \in Ranks(object) : object.vec[k] \in Nat,
           \A k, l \in Ranks(object) : object.vec[k] = object.vec[l] => k = l,
           NEW offset \in Nat, NEW len \in Nat, offset + len <= object.pages,
           NEW i \in 0 .. len - 1
    PROVE  StagedAbsolute(object, offset, len, i) = Absolute(object, base, offset + i)
<1> DEFINE k == offset \div PagesInBlock
           j == offset % PagesInBlock
           final == offset + len - 1
           l == final \div PagesInBlock
           rest == PagesInBlock - j
           start == IF object.vec[k] = object.vec[l] THEN 0 ELSE AccessStart(rest, i)
<1>1. PagesInBlock \in Nat /\ PagesInBlock > 0 /\ len > 0 /\ final \in Nat /\ i \in Nat
  BY Constants
<1>2. /\ offset = k * PagesInBlock + j /\ k \in Nat /\ j \in 0 .. PagesInBlock - 1
  BY Division
<1>3. /\ final = l * PagesInBlock + (final % PagesInBlock) /\ l \in Nat
      /\ final % PagesInBlock \in 0 .. PagesInBlock - 1
  BY <1>1, Division
<1>4. k \in Ranks(object) /\ l \in Ranks(object)
  <2>1. object.pages <= BlockCount(object.pages) * PagesInBlock
        /\ BlockCount(object.pages) * PagesInBlock \in Nat
    BY <1>1, BlockCountIs
  <2>2. offset < BlockCount(object.pages) * PagesInBlock
        /\ final < BlockCount(object.pages) * PagesInBlock
    BY <1>1, <2>1
  <2> QED BY <1>1, <2>2, RankOfPage DEF Ranks
<1>5. StagedAbsolute(object, offset, len, i) = Absolute(object, base, offset + start) + (i - start)
  BY DEF StagedAbsolute
<1>6. object.vec[k] \in Nat
  BY <1>4
<1> HIDE DEF k, l, j, final, start
<1>7. CASE start = 0 /\ j + i < PagesInBlock
  <2>1. offset + start = k * PagesInBlock + j /\ offset + i = k * PagesInBlock + (j + i)
        /\ j + i \in 0 .. PagesInBlock - 1
    BY <1>1, <1>2, <1>7
  <2>2. /\ Absolute(object, base, offset + start) = base + object.vec[k] * PagesInBlock + j
        /\ Absolute(object, base, offset + i) = base + object.vec[k] * PagesInBlock + (j + i)
    BY <1>2, <2>1, AbsoluteIs
  <2>3. object.vec[k] * PagesInBlock \in Nat
    BY <1>1, <1>6
  <2> QED BY <1>1, <1>2, <1>5, <1>7, <2>2, <2>3
<1>8. CASE object.vec[k] = object.vec[l]
  <2>1. k = l
    BY <1>4, <1>8
  <2>2. j + i < PagesInBlock
    <3>1. k * PagesInBlock \in Nat
      BY <1>1, <1>2
    <3> QED BY <1>1, <1>2, <1>3, <2>1, <3>1 DEF final
  <2>3. start = 0
    BY <1>8 DEF start
  <2> QED BY <1>7, <2>2, <2>3
<1>9. CASE object.vec[k] # object.vec[l] /\ i < rest
  <2>1. start = 0
    BY <1>9 DEF start, AccessStart
  <2>2. j + i < PagesInBlock
    BY <1>1, <1>2, <1>9
  <2> QED BY <1>7, <2>1, <2>2
<1>10. CASE object.vec[k] # object.vec[l] /\ ~(i < rest)
  <2> DEFINE m == (i - rest) \div PagesInBlock
             u == (i - rest) % PagesInBlock
  <2>1. i - rest \in Nat
    BY <1>1, <1>2, <1>10
  <2>2. /\ i - rest = m * PagesInBlock + u /\ m \in Nat /\ u \in 0 .. PagesInBlock - 1
    BY <2>1, Division
  <2>3. start = rest + m * PagesInBlock
    BY <1>10 DEF start, AccessStart
  <2> HIDE DEF m, u
  <2>4. /\ (k + 1 + m) * PagesInBlock = k * PagesInBlock + PagesInBlock + m * PagesInBlock
        /\ m * PagesInBlock \in Nat /\ k * PagesInBlock \in Nat /\ k + 1 + m \in Nat
    BY <1>1, <1>2, <2>2
  <2>5. /\ offset + start = (k + 1 + m) * PagesInBlock + 0
        /\ offset + i = (k + 1 + m) * PagesInBlock + u
        /\ i - start = u /\ 0 \in 0 .. PagesInBlock - 1
    BY <1>1, <1>2, <2>1, <2>2, <2>3, <2>4
  <2>6. k + 1 + m \in Ranks(object)
    <3>1. offset + i < object.pages
      BY <1>1
    <3>2. object.pages <= BlockCount(object.pages) * PagesInBlock
          /\ BlockCount(object.pages) * PagesInBlock \in Nat
      BY <1>1, BlockCountIs
    <3>3. offset + i \in Nat /\ offset + i < BlockCount(object.pages) * PagesInBlock
      BY <1>1, <3>1, <3>2
    <3>4. (offset + i) \div PagesInBlock \in Ranks(object)
      BY <3>3, RankOfPage DEF Ranks
    <3>5. (offset + i) \div PagesInBlock = k + 1 + m
      BY <2>2, <2>4, <2>5, DivisionIs
    <3> QED BY <3>4, <3>5
  <2>7. object.vec[k + 1 + m] \in Nat
    BY <2>6
  <2> DEFINE b == object.vec[k + 1 + m]
  <2>8. /\ Absolute(object, base, offset + start) = base + b * PagesInBlock + 0
        /\ Absolute(object, base, offset + i) = base + b * PagesInBlock + u
    BY <2>2, <2>4, <2>5, AbsoluteIs
  <2> HIDE DEF b
  <2>9. b * PagesInBlock \in Nat
    BY <1>1, <2>7 DEF b
  <2> QED BY <1>5, <2>2, <2>5, <2>8, <2>9
<1> QED BY <1>8, <1>9, <1>10
-----------------------------------------------------------------------------
\* The memory of the program that runs, or that the next instance restores.
Memory == IF running THEN [size |-> size, version |-> version, stable |-> stable]
          ELSE Restored

\* The physical pages include the logical ones, and the others are zero.
MemoryOK(mem) ==
    /\ mem.size \in 0 .. MaxStablePages
    /\ \E n \in Nat : /\ n >= mem.size /\ DOMAIN mem.stable = 0 .. n - 1
                      /\ mem.size = 0 => n = 0
    /\ \A p \in DOMAIN mem.stable : p >= mem.size => mem.stable[p] = Zero

\* The raw memory of an older program, as long as it has no regions.
RawOK(mem, h, o) ==
    /\ mem.version = "noregions"
    /\ DOMAIN o = {} /\ h.blocks = 0
    /\ \E m \in Legacy : mem.size = Len(m)

\* The head block of no raw memory is moved to an address beyond 32 bits.
RawMemoryFits ==
    \A m \in Legacy : BlockCount(Len(m)) * PagesInBlock < U32Pages

\* What the last block of a region has behind its pages is zero.
SpareIsZero(mem, h, o) ==
    \A r \in DOMAIN o : \A p \in o[r].pages .. BlockCount(o[r].pages) * PagesInBlock - 1 :
        mem.stable[Absolute(o[r], h.base, p)] = Zero

\* The blocks of all regions fill the memory behind the header.
RegionsOK(mem, h, o) ==
    /\ mem.version = "regions"
    /\ h.base \in {MetaPages, PagesInBlock}
    /\ mem.size = h.base + h.blocks * PagesInBlock
    /\ LastReserved < h.regions
    /\ 0 \in DOMAIN o /\ DOMAIN o \ {0} \subseteq RegionIds
    /\ RawMemoryFits => SpareIsZero(mem, h, o)

LayoutOK(mem, h, o) ==
    /\ MemoryOK(mem)
    /\ ObjectsOK(h, o)
    /\ RawOK(mem, h, o) \/ RegionsOK(mem, h, o)

IInv ==
    /\ running \in BOOLEAN
    /\ LayoutOK(Memory, header, obj)
    /\ IF running THEN base = IF version = "regions" THEN header.base ELSE 0
       ELSE size = 0 /\ base = 0 /\ version = "noregions"

ContentIn(mem, h, o, r) ==
    IF r = 0 /\ mem.version = "noregions"
    THEN [p \in 1 .. mem.size |-> mem.stable[p - 1]]
    ELSE IF r \in DOMAIN o
    THEN [p \in 1 .. o[r].pages |->
            mem.stable[Absolute(o[r], IF mem.version = "regions" THEN h.base ELSE 0, p - 1)]]
    ELSE <<>>
-----------------------------------------------------------------------------
\* The contents of regions are those that the layout gives them.
LEMMA ContentIsIn == \A r : Content(r) = ContentIn(Memory, header, obj, r)
  BY DEF Content, ContentIn, Memory

\* Memory grows by zero pages.
LEMMA GrownIs ==
    ASSUME NEW pages, NEW n \in Nat, DOMAIN pages = 0 .. n - 1, NEW want \in Nat
    PROVE  \E m \in Nat :
             /\ m >= n /\ m >= want /\ m \in {n, want}
             /\ DOMAIN Grown(pages, want) = 0 .. m - 1
             /\ \A p \in 0 .. m - 1 :
                  Grown(pages, want)[p] = IF p \in 0 .. n - 1 THEN pages[p] ELSE Zero
<1>1. CASE n >= want
  <2>1. DOMAIN pages \cup 0 .. want - 1 = 0 .. n - 1
    BY <1>1
  <2>2. Grown(pages, want) = [p \in 0 .. n - 1 |-> IF p \in 0 .. n - 1 THEN pages[p] ELSE Zero]
    BY <2>1 DEF Grown
  <2> QED BY <1>1, <2>2
<1>2. CASE n < want
  <2>1. DOMAIN pages \cup 0 .. want - 1 = 0 .. want - 1
    BY <1>2
  <2>2. Grown(pages, want) = [p \in 0 .. want - 1 |-> IF p \in 0 .. n - 1 THEN pages[p] ELSE Zero]
    BY <2>1 DEF Grown
  <2> QED BY <1>2, <2>2
<1>3. n >= want \/ n < want
  OBVIOUS
<1> QED BY <1>1, <1>2, <1>3, Zenon

\* A page of a region is a physical page.
LEMMA PagePhysical ==
    ASSUME NEW mem, NEW h, NEW o, MemoryOK(mem), ObjectsOK(h, o), RegionsOK(mem, h, o),
           NEW r \in DOMAIN o, NEW p \in 0 .. BlockCount(o[r].pages) * PagesInBlock - 1
    PROVE  /\ Absolute(o[r], h.base, p) \in DOMAIN mem.stable
           /\ Absolute(o[r], h.base, p) \in h.base .. mem.size - 1
<1> DEFINE end == h.base + h.blocks * PagesInBlock
<1>1. h.base \in Nat
  BY Constants DEF RegionsOK
<1>2. Absolute(o[r], h.base, p) \in h.base .. end - 1
  <2>1. Absolute(o[r], h.base, p) \in h.base .. h.base + h.blocks * PagesInBlock - 1
    BY <1>1, PageInside
  <2>2. h.blocks * PagesInBlock \in Nat
    BY Constants DEF ObjectsOK, HeaderOK
  <2> QED BY <1>1, <2>1, <2>2
<1>3. mem.size = end /\ mem.size \in Nat
  BY DEF RegionsOK, MemoryOK
<1> HIDE DEF end
<1>4. 0 .. mem.size - 1 \subseteq DOMAIN mem.stable
  BY <1>3 DEF MemoryOK
<1>5. h.base .. mem.size - 1 \subseteq 0 .. mem.size - 1
  BY <1>1, <1>3
<1>6. Absolute(o[r], h.base, p) \in h.base .. mem.size - 1
  BY <1>2, <1>3
<1> QED BY <1>4, <1>5, <1>6

\* The pages of a region are among those of its blocks.
LEMMA PagesInBlocks ==
    ASSUME NEW h, NEW o, ObjectsOK(h, o), NEW r \in DOMAIN o
    PROVE  /\ o[r].pages \in Nat /\ BlockCount(o[r].pages) \in Nat
           /\ BlockCount(o[r].pages) * PagesInBlock \in Nat
           /\ o[r].pages <= BlockCount(o[r].pages) * PagesInBlock
           /\ DOMAIN o[r].vec = Ranks(o[r])
<1>1. ObjectOK(o[r], h)
  BY DEF ObjectsOK
<1> QED BY <1>1, BlockCountIs, Constants DEF ObjectOK

\* More physical pages, all of them zero, change no region.
LEMMA MorePages ==
    ASSUME NEW mem, NEW h, NEW o, LayoutOK(mem, h, o),
           NEW new, new.size = mem.size, new.version = mem.version,
           DOMAIN mem.stable \subseteq DOMAIN new.stable,
           \E n \in Nat : /\ n >= mem.size /\ DOMAIN new.stable = 0 .. n - 1
                          /\ mem.size = 0 => n = 0,
           \A p \in DOMAIN mem.stable : new.stable[p] = mem.stable[p],
           \A p \in DOMAIN new.stable \ DOMAIN mem.stable : new.stable[p] = Zero
    PROVE  LayoutOK(new, h, o) /\ \A r : ContentIn(new, h, o, r) = ContentIn(mem, h, o, r)
<1>1. MemoryOK(mem) /\ ObjectsOK(h, o)
  BY DEF LayoutOK
<1>2. mem.size \in Nat /\ 0 .. mem.size - 1 \subseteq DOMAIN mem.stable
  BY <1>1 DEF MemoryOK
<1>3. MemoryOK(new)
  <2>1. \A p \in DOMAIN new.stable : p >= new.size => new.stable[p] = Zero
    BY <1>1 DEF MemoryOK
  <2>2. new.size \in 0 .. MaxStablePages
    BY <1>1 DEF MemoryOK
  <2> QED BY <2>1, <2>2 DEF MemoryOK
<1>4. CASE RawOK(mem, h, o)
  <2>1. RawOK(new, h, o)
    BY <1>4 DEF RawOK
  <2>2. ASSUME NEW r PROVE ContentIn(new, h, o, r) = ContentIn(mem, h, o, r)
    <3>1. \A p \in 1 .. mem.size : new.stable[p - 1] = mem.stable[p - 1]
      BY <1>2
    <3> QED BY <1>4, <3>1 DEF RawOK, ContentIn
  <2> QED BY <1>1, <1>3, <2>1, <2>2 DEF LayoutOK
<1>5. CASE RegionsOK(mem, h, o)
  <2>1. ASSUME NEW r \in DOMAIN o,
               NEW p \in 0 .. BlockCount(o[r].pages) * PagesInBlock - 1
        PROVE  new.stable[Absolute(o[r], h.base, p)] = mem.stable[Absolute(o[r], h.base, p)]
    BY <1>1, <1>5, PagePhysical
  <2>2. SpareIsZero(mem, h, o) => SpareIsZero(new, h, o)
    <3> SUFFICES ASSUME SpareIsZero(mem, h, o), NEW r \in DOMAIN o,
                        NEW p \in o[r].pages .. BlockCount(o[r].pages) * PagesInBlock - 1
                 PROVE  new.stable[Absolute(o[r], h.base, p)] = Zero
      BY DEF SpareIsZero
    <3>1. p \in 0 .. BlockCount(o[r].pages) * PagesInBlock - 1
      BY <1>1, PagesInBlocks
    <3> QED BY <2>1, <3>1 DEF SpareIsZero
  <2>3. RegionsOK(new, h, o)
    BY <1>5, <2>2 DEF RegionsOK
  <2>4. ASSUME NEW r PROVE ContentIn(new, h, o, r) = ContentIn(mem, h, o, r)
    <3>1. ASSUME r \in DOMAIN o, NEW p \in 1 .. o[r].pages
          PROVE  new.stable[Absolute(o[r], h.base, p - 1)] = mem.stable[Absolute(o[r], h.base, p - 1)]
      <4>1. p - 1 \in 0 .. BlockCount(o[r].pages) * PagesInBlock - 1
        BY <1>1, <3>1, PagesInBlocks
      <4> QED BY <2>1, <3>1, <4>1
    <3> QED BY <1>5, <3>1 DEF RegionsOK, ContentIn
  <2> QED BY <1>1, <1>3, <2>3, <2>4 DEF LayoutOK
<1> QED BY <1>4, <1>5 DEF LayoutOK
-----------------------------------------------------------------------------
\* The header once the next identifier is taken.
NextHeader(h) == [h EXCEPT !.regions = h.regions + 1]
NextObjects(h, o) == WithRegion(o, h.regions, [pages |-> 0, vec |-> <<>>])

\* What a new region has to leave alone: the layout, and the contents of the others.
OneMore(mem, h, o, new, objects) ==
    /\ LayoutOK(mem, new, objects) /\ RegionsOK(mem, new, objects)
    /\ DOMAIN objects = DOMAIN o \cup {h.regions} /\ h.regions \notin DOMAIN o
    /\ \A r : ContentIn(mem, new, objects, r) = ContentIn(mem, h, o, r)

\* The next identifier is for a region without pages, and no other one changes.
LEMMA NextRegion ==
    ASSUME NEW mem, NEW h, NEW o, LayoutOK(mem, h, o), RegionsOK(mem, h, o),
           h.regions \in RegionIds
    PROVE  OneMore(mem, h, o, NextHeader(h), NextObjects(h, o))
<1> DEFINE new == NextHeader(h)
           objects == NextObjects(h, o)
           id == h.regions
           empty == [pages |-> 0, vec |-> <<>>]
<1>1. MemoryOK(mem) /\ ObjectsOK(h, o) /\ HeaderOK(h)
  BY DEF LayoutOK, ObjectsOK
<1>2. /\ new = [base |-> h.base, blocks |-> h.blocks, regions |-> id + 1, table |-> h.table]
      /\ id \in Nat /\ id # 0
  <2>1. id \in Nat /\ h \in [base : {0, MetaPages, PagesInBlock}, blocks : Nat, regions : Nat,
                             table : {h.table}]
    BY <1>1 DEF HeaderOK
  <2>2. id # 0
    BY <2>1, Constants DEF RegionsOK
  <2> QED BY <2>1, <2>2 DEF NextHeader
<1> HIDE DEF new
<1>3. new.base = h.base /\ new.blocks = h.blocks /\ new.regions = id + 1 /\ new.table = h.table
  BY <1>2
<1>4. id \notin DOMAIN o
  BY <1>1, <1>2 DEF ObjectsOK
<1>5. /\ objects = [r \in DOMAIN o \cup {id} |-> IF r = id THEN empty ELSE o[r]]
      /\ DOMAIN objects = DOMAIN o \cup {id}
      /\ objects[id] = empty
      /\ \A r \in DOMAIN o : objects[r] = o[r]
  BY <1>4 DEF WithRegion, NextObjects
<1>6. empty.pages = 0 /\ BlockCount(0) = 0 /\ Ranks(empty) = {} /\ DOMAIN empty.vec = {}
      /\ BlockCount(0) * PagesInBlock = 0
  <2>1. BlockCount(0) = 0
    BY BlockCountIs
  <2> QED BY <2>1, Constants DEF Ranks
<1> HIDE DEF empty, id, objects
<1>7. ObjectsOK(new, objects)
  <2>1. HeaderOK(new)
    BY <1>1, <1>2, <1>3 DEF HeaderOK
  <2>2. ASSUME NEW r \in DOMAIN objects
        PROVE  r \in Nat /\ r < new.regions /\ ObjectOK(objects[r], new)
    <3>1. CASE r = id
      <4>1. <<>> \in [{} -> 0 .. new.blocks - 1]
        OBVIOUS
      <4>2. empty \in [pages : Nat, vec : [Ranks(empty) -> 0 .. new.blocks - 1]]
        BY <1>6, <4>1 DEF empty
      <4> QED BY <1>2, <1>3, <1>5, <3>1, <4>2 DEF ObjectOK
    <3>2. CASE r \in DOMAIN o
      <4>1. r \in Nat /\ r < id /\ ObjectOK(o[r], h)
        BY <1>1, <3>2 DEF ObjectsOK, id
      <4> QED BY <1>2, <1>3, <1>5, <3>2, <4>1 DEF ObjectOK
    <3> QED BY <1>5, <3>1, <3>2
  <2>3. ASSUME NEW b \in 0 .. new.blocks - 1 PROVE EntryAgrees(new, objects, b)
    <3>1. EntryAgrees(h, o, b)
      BY <1>1, <1>3 DEF ObjectsOK
    <3> QED BY <1>3, <1>4, <1>5, <1>6, <3>1 DEF EntryAgrees
  <2>4. objects = [r \in DOMAIN objects |-> objects[r]]
    BY <1>5
  <2> QED BY <2>1, <2>2, <2>3, <2>4 DEF ObjectsOK
<1>8. RegionsOK(mem, new, objects)
  <2>1. SpareIsZero(mem, h, o) => SpareIsZero(mem, new, objects)
    <3> SUFFICES ASSUME SpareIsZero(mem, h, o), NEW r \in DOMAIN objects,
                        NEW p \in objects[r].pages .. BlockCount(objects[r].pages) * PagesInBlock - 1
                 PROVE  mem.stable[Absolute(objects[r], new.base, p)] = Zero
      BY DEF SpareIsZero
    <3>1. CASE r = id
      BY <1>5, <1>6, <3>1
    <3>2. CASE r \in DOMAIN o
      BY <1>3, <1>5, <3>2 DEF SpareIsZero
    <3> QED BY <1>5, <3>1, <3>2
  <2>2. LastReserved < new.regions /\ id \in RegionIds
    BY <1>2, <1>3, Constants DEF RegionsOK, id
  <2> QED BY <1>3, <1>5, <2>1, <2>2 DEF RegionsOK
<1>9. ASSUME NEW r PROVE ContentIn(mem, new, objects, r) = ContentIn(mem, h, o, r)
  <2>1. CASE r = id
    <3>1. ContentIn(mem, h, o, r) = <<>>
      BY <1>2, <1>4, <2>1 DEF ContentIn
    <3>2. ContentIn(mem, new, objects, r) = [p \in 1 .. 0 |-> mem.stable[Absolute(empty, new.base, p - 1)]]
      BY <1>2, <1>5, <1>6, <2>1 DEF ContentIn, RegionsOK
    <3> QED BY <3>1, <3>2
  <2>2. CASE r # id
    <3>1. r \in DOMAIN objects <=> r \in DOMAIN o
      BY <1>5, <2>2
    <3>2. r \in DOMAIN o => objects[r] = o[r]
      BY <1>5
    <3>3. r \in DOMAIN objects =>
            [p \in 1 .. objects[r].pages |->
               mem.stable[Absolute(objects[r], IF mem.version = "regions" THEN new.base ELSE 0, p - 1)]]
            = [p \in 1 .. o[r].pages |->
               mem.stable[Absolute(o[r], IF mem.version = "regions" THEN h.base ELSE 0, p - 1)]]
      BY <1>3, <3>1, <3>2
    <3> QED BY <3>1, <3>3, Zenon DEF ContentIn
  <2> QED BY <2>1, <2>2
<1> QED BY <1>1, <1>4, <1>5, <1>7, <1>8, <1>9 DEF LayoutOK, OneMore, id, new, objects
-----------------------------------------------------------------------------
\* The header and region 0 of a migrated memory say the same.
LEMMA MigratedAgree ==
    ASSUME NEW h, NEW object, NEW start, DOMAIN start = {},
           HeaderOK(h), 0 < h.regions, ObjectOK(object, h),
           \A b \in 0 .. h.blocks - 1 :
               /\ h.table[b].region = 0
               /\ h.table[b].rank \in Ranks(object)
               /\ \A k \in Ranks(object) : object.vec[k] = b <=> k = h.table[b].rank
               /\ h.table[b].pages = block_page_count(h.table[b].rank, BlockCount(object.pages),
                                                      object.pages),
           NEW objects, objects = WithRegion(start, 0, region_recover(h, 0))
    PROVE  ObjectsOK(h, objects) /\ DOMAIN objects = {0} /\ objects[0] = object
<1> DEFINE o == WithRegion(start, 0, object)
<1>1. o = [r \in {0} |-> object] /\ DOMAIN o = {0} /\ o[0] = object
  BY DEF WithRegion
<1> HIDE DEF o
<1>2. ObjectsOK(h, o)
  <2>1. DOMAIN o[0].vec = Ranks(object)
    BY <1>1 DEF ObjectOK
  <2>2. ASSUME NEW b \in 0 .. h.blocks - 1 PROVE EntryAgrees(h, o, b)
    BY <1>1, <2>1 DEF EntryAgrees
  <2> QED BY <1>1, <2>2 DEF ObjectsOK
<1>3. region_recover(h, 0) = object
  BY <1>1, <1>2, RecoverGivesBack
<1>4. objects = o
  BY <1>3 DEF o
<1> QED BY <1>1, <1>2, <1>4

\* What a migration has to give: region 0 with the raw memory as its content.
Migrates(mem, h, o, new, header2, objects) ==
    /\ LayoutOK(new, header2, objects) /\ RegionsOK(new, header2, objects)
    /\ DOMAIN objects = {0}
    /\ \A r : r # 0 \/ RawMemoryFits =>
           ContentIn(new, header2, objects, r) = ContentIn(mem, h, o, r)

\* Without a raw memory, there is a header, and region 0 is empty.
LEMMA MigrationFromNoneOK ==
    ASSUME NEW mem, NEW h, NEW o, LayoutOK(mem, h, o), RawOK(mem, h, o), mem.size = 0,
           NEW start, DOMAIN start = {},
           NEW m, m = MigrationFromNone(mem.stable), m.ok,
           NEW new, new = [size |-> m.size, version |-> "regions", stable |-> m.stable],
           NEW objects, objects = WithRegion(start, 0, region_recover(m.header, 0))
    PROVE  Migrates(mem, h, o, new, m.header, objects)
<1> DEFINE h2 == m.header
           empty == [pages |-> 0, vec |-> <<>>]
<1>1. /\ m.size = MetaPages /\ MetaPages <= MaxStablePages
      /\ m.stable = [p \in DOMAIN Grown(mem.stable, MetaPages) |->
                       IF p < MetaPages THEN Zero ELSE mem.stable[p]]
      /\ h2 = [base |-> MetaPages, blocks |-> 0, regions |-> LastReserved + 1, table |-> <<>>]
  <2>1. /\ m.size = MetaPages /\ CanGrow(0, MetaPages)
        /\ m.stable = [p \in DOMAIN Grown(mem.stable, MetaPages) |->
                         IF p < MetaPages THEN Zero ELSE mem.stable[p]]
        /\ h2 = [base |-> MetaPages, blocks |-> 0, regions |-> LastReserved + 1, table |-> <<>>]
    BY DEF MigrationFromNone
  <2> QED BY <2>1, Constants DEF CanGrow
<1>2. DOMAIN mem.stable = {}
  BY DEF LayoutOK, MemoryOK
<1>3. DOMAIN m.stable = 0 .. MetaPages - 1 /\ \A p \in 0 .. MetaPages - 1 : m.stable[p] = Zero
  <2>1. DOMAIN Grown(mem.stable, MetaPages) = 0 .. MetaPages - 1
    BY <1>2 DEF Grown
  <2> QED BY <1>1, <2>1, Constants
<1>4. BlockCount(0) = 0 /\ Ranks(empty) = {} /\ BlockCount(0) * PagesInBlock = 0
  <2>1. BlockCount(0) = 0
    BY BlockCountIs
  <2> QED BY <2>1, Constants DEF Ranks
<1>5. ObjectOK(empty, h2)
  <2>1. <<>> \in [{} -> 0 .. h2.blocks - 1]
    OBVIOUS
  <2> QED BY <1>4, <2>1 DEF ObjectOK
<1>6. HeaderOK(h2) /\ 0 < h2.regions /\ h2.blocks = 0 /\ h2.base = MetaPages
      /\ LastReserved < h2.regions
  BY <1>1, Constants DEF HeaderOK
<1> HIDE DEF h2, empty
<1>7. ObjectsOK(h2, objects) /\ DOMAIN objects = {0} /\ objects[0] = empty
  <2>1. \A b \in 0 .. h2.blocks - 1 : FALSE
    BY <1>6
  <2>2. objects = WithRegion(start, 0, region_recover(h2, 0))
    BY DEF h2
  <2> QED BY <1>5, <1>6, <2>1, <2>2, MigratedAgree
<1>8. MemoryOK(new)
  BY <1>1, <1>3, Constants DEF MemoryOK
<1>9. RegionsOK(new, h2, objects)
  <2>1. SpareIsZero(new, h2, objects)
    BY <1>4, <1>7 DEF SpareIsZero, empty
  <2> QED BY <1>1, <1>6, <1>7, <2>1, Constants DEF RegionsOK
<1>10. ASSUME NEW r PROVE ContentIn(new, h2, objects, r) = ContentIn(mem, h, o, r)
  <2>1. CASE r = 0
    <3>1. ContentIn(mem, h, o, r) = [p \in 1 .. 0 |-> mem.stable[p - 1]]
      BY <2>1 DEF ContentIn, RawOK
    <3>2. ContentIn(new, h2, objects, r) = [p \in 1 .. 0 |-> new.stable[Absolute(empty, h2.base, p - 1)]]
      BY <1>7, <2>1 DEF ContentIn, empty
    <3> QED BY <3>1, <3>2
  <2>2. CASE r # 0
    BY <1>7, <2>2 DEF ContentIn, RawOK
  <2> QED BY <2>1, <2>2
<1> QED BY <1>7, <1>8, <1>9, <1>10 DEF Migrates, LayoutOK, h2

\* The raw pages become the blocks of region 0, the first one behind the others.
LEMMA MigrationFromSomeOK ==
    ASSUME NEW mem, NEW h, NEW o, LayoutOK(mem, h, o), RawOK(mem, h, o), mem.size # 0,
           NEW start, DOMAIN start = {},
           NEW m, m = MigrationFromSome(mem.size, mem.stable), m.ok,
           NEW new, new = [size |-> m.size, version |-> "regions", stable |-> m.stable],
           NEW objects, objects = WithRegion(start, 0, region_recover(m.header, 0))
    PROVE  Migrates(mem, h, o, new, m.header, objects)
<1> DEFINE pages == mem.size
           n == BlockCount(pages)
           total == PagesInBlock + n * PagesInBlock
           grown == Grown(mem.stable, total)
           head == HeadBlockAddress(n)
           rankOf(b) == IF b = n - 1 THEN 0 ELSE b + 1
           h2 == m.header
           object == [pages |-> pages, vec |-> [k \in 0 .. n - 1 |-> IF k = 0 THEN n - 1 ELSE k - 1]]
<1>1. /\ m.size = total /\ CanGrow(pages, total - pages)
      /\ m.stable = [p \in DOMAIN grown |->
                       IF p < PagesInBlock THEN Zero
                       ELSE IF p \in head .. head + PagesInBlock - 1
                       THEN grown[p - head] ELSE grown[p]]
      /\ h2 = [base |-> PagesInBlock, blocks |-> n, regions |-> LastReserved + 1,
               table |-> [b \in 0 .. n - 1 |->
                            [region |-> 0, rank |-> rankOf(b),
                             pages |-> block_page_count(rankOf(b), n, pages)]]]
  BY DEF MigrationFromSome
<1>2. /\ pages \in Nat /\ pages > 0 /\ n \in Nat /\ n > 0 /\ PagesInBlock \in Nat
      /\ PagesInBlock > 0
  <2>1. pages \in Nat /\ pages > 0
    BY DEF LayoutOK, MemoryOK
  <2> HIDE DEF pages
  <2>2. n \in Nat /\ (n = 0 <=> pages = 0)
    BY <2>1, BlockCountIs
  <2> HIDE DEF n
  <2> QED BY <2>1, <2>2, Constants
<1>3. /\ n * PagesInBlock \in Nat /\ pages <= n * PagesInBlock /\ total \in Nat
      /\ (n - 1) * PagesInBlock = n * PagesInBlock - PagesInBlock
  <2>1. pages <= n * PagesInBlock
    BY <1>2, BlockCountIs
  <2> HIDE DEF n
  <2> QED BY <1>2, <2>1
<1>4. PICK c \in Nat : c >= pages /\ DOMAIN mem.stable = 0 .. c - 1
  BY DEF LayoutOK, MemoryOK
<1>5. PICK d \in Nat :
        /\ d >= c /\ d >= total /\ d \in {c, total}
        /\ DOMAIN grown = 0 .. d - 1
        /\ \A p \in 0 .. d - 1 : grown[p] = IF p \in 0 .. c - 1 THEN mem.stable[p] ELSE Zero
  <2>1. total \in Nat
    BY <1>3
  <2> HIDE DEF total
  <2> QED BY <1>4, <2>1, GrownIs
<1>6. \A p \in 0 .. d - 1 : p >= pages => grown[p] = Zero
  BY <1>4, <1>5 DEF LayoutOK, MemoryOK
<1>7. head \in Nat /\ head <= n * PagesInBlock /\ (RawMemoryFits => head = n * PagesInBlock)
  <2>1. head = (n * PagesInBlock) % U32Pages
    BY DEF HeadBlockAddress
  <2>2. RawMemoryFits => n * PagesInBlock < U32Pages
    BY DEF RawMemoryFits, RawOK
  <2> DEFINE x == n * PagesInBlock
  <2>3. x \in Nat /\ U32Pages \in Nat /\ U32Pages > 0
    BY <1>3, Constants
  <2>4. head = x % U32Pages /\ (RawMemoryFits => x < U32Pages)
    BY <2>1, <2>2
  <2> HIDE DEF head, x
  <2>5. x % U32Pages \in Nat /\ x % U32Pages <= x /\ (x < U32Pages => x % U32Pages = x)
    <3> DEFINE q == x \div U32Pages
    <3>1. x = q * U32Pages + (x % U32Pages) /\ q \in Nat /\ x % U32Pages \in Nat
      BY <2>3
    <3> HIDE DEF q
    <3>2. q * U32Pages \in Nat /\ (q # 0 => q * U32Pages >= U32Pages)
          /\ (q = 0 => q * U32Pages = 0)
      BY <2>3, <3>1
    <3> QED BY <2>3, <3>1, <3>2
  <2>6. head \in Nat /\ head <= x /\ (RawMemoryFits => head = x)
    BY <2>4, <2>5
  <2> QED BY <2>6 DEF x
<1>8. HeaderOK(h2) /\ h2.base = PagesInBlock /\ h2.blocks = n /\ h2.regions = LastReserved + 1
  BY <1>1, <1>2, Constants DEF HeaderOK
<1>9. Ranks(object) = 0 .. n - 1
  BY DEF Ranks
<1>10. ObjectOK(object, h2) /\ object.pages = pages
  BY <1>2, <1>8, <1>9 DEF ObjectOK
<1>11. ASSUME NEW b \in 0 .. h2.blocks - 1
       PROVE  /\ h2.table[b].region = 0
              /\ h2.table[b].rank \in Ranks(object)
              /\ \A k \in Ranks(object) : object.vec[k] = b <=> k = h2.table[b].rank
              /\ h2.table[b].pages = block_page_count(h2.table[b].rank, BlockCount(object.pages),
                                                      object.pages)
  <2>1. /\ b \in 0 .. n - 1 /\ h2.table[b].region = 0 /\ h2.table[b].rank = rankOf(b)
        /\ h2.table[b].pages = block_page_count(rankOf(b), n, pages)
    BY <1>1, <1>8
  <2>2. rankOf(b) \in 0 .. n - 1
    BY <1>2, <2>1
  <2>3. \A k \in 0 .. n - 1 : object.vec[k] = b <=> k = rankOf(b)
    BY <1>2, <2>1
  <2> HIDE DEF n, object, h2
  <2>4. BlockCount(object.pages) = n
    BY <1>10 DEF n
  <2>5. object.pages = pages
    BY <1>10
  <2> DEFINE e == h2.table[b]
             rank == rankOf(b)
  <2>6. e.region = 0 /\ e.rank = rank /\ e.pages = block_page_count(rank, n, pages)
        /\ rank \in 0 .. n - 1
        /\ \A k \in 0 .. n - 1 : object.vec[k] = b <=> k = rank
    BY <2>1, <2>2, <2>3
  <2> HIDE DEF e, rank
  <2>7. /\ e.region = 0 /\ e.rank \in Ranks(object)
        /\ \A k \in Ranks(object) : object.vec[k] = b <=> k = e.rank
        /\ e.pages = block_page_count(e.rank, BlockCount(object.pages), object.pages)
    BY <1>9, <2>4, <2>5, <2>6
  <2> QED BY <2>7 DEF e
<1>12. ObjectsOK(h2, objects) /\ DOMAIN objects = {0} /\ objects[0] = object
  <2> HIDE DEF object, h2
  <2>1. 0 < h2.regions
    BY <1>8, Constants
  <2>2. objects = WithRegion(start, 0, region_recover(h2, 0))
    BY DEF h2
  <2> QED BY <1>8, <1>10, <1>11, <2>1, <2>2, MigratedAgree
<1> HIDE DEF n, grown, head, h2
<1>13. MemoryOK(new)
  <2>1. new.size = total /\ new.stable = m.stable /\ DOMAIN m.stable = 0 .. d - 1
    BY <1>1, <1>5
  <2>2. total <= MaxStablePages
    BY <1>1, <1>2, <1>3 DEF CanGrow
  <2>3. ASSUME NEW p \in 0 .. d - 1, p >= total PROVE m.stable[p] = Zero
    <3>1. ~(p < PagesInBlock) /\ ~(p \in head .. head + PagesInBlock - 1) /\ p >= pages
      BY <1>2, <1>3, <1>7, <2>3
    <3> QED BY <1>1, <1>5, <1>6, <3>1
  <2>4. total # 0 /\ d >= total
    BY <1>2, <1>3, <1>5
  <2> HIDE DEF total
  <2>5. new.size \in 0 .. MaxStablePages
    BY <1>3, <2>1, <2>2, Constants
  <2>6. \A p \in DOMAIN new.stable : p >= new.size => new.stable[p] = Zero
    BY <2>1, <2>3
  <2> QED BY <2>1, <2>4, <2>5, <2>6 DEF MemoryOK
<1>14. ASSUME RawMemoryFits, NEW p \in 0 .. n * PagesInBlock - 1
       PROVE  m.stable[Absolute(object, PagesInBlock, p)] = grown[p]
  <2> DEFINE k == p \div PagesInBlock
             j == p % PagesInBlock
             a == Absolute(object, PagesInBlock, p)
  <2>1. p \in Nat /\ p = k * PagesInBlock + j /\ k \in Nat /\ j \in 0 .. PagesInBlock - 1
    BY <1>3, Division
  <2>2. k \in 0 .. n - 1
    <3>1. p \in Nat /\ p < BlockCount(pages) * PagesInBlock /\ pages \in Nat
      BY <1>2, <1>3 DEF n
    <3> QED BY <3>1, RankOfPage DEF n
  <2>3. a = PagesInBlock + object.vec[k] * PagesInBlock + j
    BY DEF Absolute
  <2>4. object.vec[k] = IF k = 0 THEN n - 1 ELSE k - 1
    BY <2>2
  <2> HIDE DEF k, j, a, object
  <2>5. CASE k = 0
    <3>1. a = head + j /\ p = j
      BY <1>2, <1>3, <1>7, <1>14, <2>1, <2>3, <2>4, <2>5
    <3>2. /\ a \in 0 .. d - 1 /\ ~(a < PagesInBlock) /\ a \in head .. head + PagesInBlock - 1
          /\ a - head = p
      <4>1. n * PagesInBlock >= PagesInBlock
        BY <1>2
      <4> QED BY <1>2, <1>3, <1>5, <1>7, <1>14, <2>1, <3>1, <4>1
    <3> QED BY <1>1, <1>5, <3>2 DEF a
  <2>6. CASE k # 0
    <3>1. (k - 1) * PagesInBlock = k * PagesInBlock - PagesInBlock /\ k * PagesInBlock \in Nat
          /\ k * PagesInBlock >= PagesInBlock
      BY <1>2, <2>1, <2>6
    <3>2. a = p
      BY <1>2, <2>1, <2>3, <2>4, <2>6, <3>1
    <3>3. /\ a \in 0 .. d - 1 /\ ~(a < PagesInBlock)
          /\ ~(a \in head .. head + PagesInBlock - 1)
      BY <1>2, <1>3, <1>5, <1>7, <1>14, <2>1, <3>1, <3>2
    <3> QED BY <1>1, <1>5, <3>2, <3>3 DEF a
  <2> QED BY <2>5, <2>6
<1>15. RegionsOK(new, h2, objects)
  <2>1. RawMemoryFits => SpareIsZero(new, h2, objects)
    <3> SUFFICES ASSUME RawMemoryFits, NEW p \in pages .. n * PagesInBlock - 1
                 PROVE  m.stable[Absolute(object, PagesInBlock, p)] = Zero
      BY <1>8, <1>10, <1>12 DEF SpareIsZero, n
    <3>1. p \in 0 .. n * PagesInBlock - 1 /\ p \in 0 .. d - 1 /\ p >= pages
      BY <1>2, <1>3, <1>5
    <3> QED BY <1>6, <1>14, <3>1
  <2>2. new.size = h2.base + h2.blocks * PagesInBlock
    BY <1>1, <1>8
  <2> QED BY <1>8, <1>12, <2>1, <2>2, Constants DEF RegionsOK
<1>16. ASSUME NEW r, r # 0 \/ RawMemoryFits
       PROVE  ContentIn(new, h2, objects, r) = ContentIn(mem, h, o, r)
  <2>1. CASE r = 0
    <3>1. ASSUME NEW p \in 1 .. pages
          PROVE  m.stable[Absolute(object, PagesInBlock, p - 1)] = mem.stable[p - 1]
      <4>1. p - 1 \in 0 .. n * PagesInBlock - 1 /\ p - 1 \in 0 .. d - 1 /\ p - 1 \in 0 .. c - 1
        <5> DEFINE x == n * PagesInBlock
        <5>1. x \in Nat /\ pages <= x /\ p - 1 \in 0 .. x - 1
          BY <1>2, <1>3
        <5> QED BY <1>2, <1>4, <1>5, <5>1
      <4> QED BY <1>5, <1>14, <1>16, <2>1, <4>1
    <3>2. ContentIn(mem, h, o, r) = [p \in 1 .. pages |-> mem.stable[p - 1]]
      BY <2>1 DEF ContentIn, RawOK
    <3>3. ContentIn(new, h2, objects, r)
            = [p \in 1 .. pages |-> m.stable[Absolute(object, PagesInBlock, p - 1)]]
      BY <1>8, <1>10, <1>12, <2>1 DEF ContentIn
    <3> HIDE DEF object, pages
    <3>4. [p \in 1 .. pages |-> m.stable[Absolute(object, PagesInBlock, p - 1)]]
            = [p \in 1 .. pages |-> mem.stable[p - 1]]
      BY <3>1
    <3> QED BY <3>2, <3>3, <3>4
  <2>2. CASE r # 0
    BY <1>12, <2>2 DEF ContentIn, RawOK
  <2> QED BY <2>1, <2>2
<1> QED BY <1>12, <1>13, <1>15, <1>16 DEF Migrates, LayoutOK, h2
-----------------------------------------------------------------------------
\* The same for the contents after a step.
LEMMA NextContentIsIn == \A r : Content(r)' = ContentIn(Memory', header', obj', r)
  BY DEF Content, ContentIn, Memory

\* The raw memories of older programs fit, and have no regions.
LEMMA InitOK == Init => IInv
<1> SUFFICES ASSUME Init PROVE IInv
  OBVIOUS
<1>1. PICK m \in Legacy : /\ size = Len(m)
                          /\ stable = [p \in 0 .. Len(m) - 1 |-> m[p + 1]]
  BY DEF Init
<1>2. Len(m) \in Nat /\ Len(m) <= MaxStablePages
  BY RegionsAssumption
<1>3. /\ Memory.size = size /\ Memory.version = "noregions" /\ Memory.stable = stable
      /\ running = TRUE
  BY DEF Init, Memory
<1>4. MemoryOK(Memory)
  <2>1. Memory.size \in 0 .. MaxStablePages
    BY <1>1, <1>2, <1>3, Constants
  <2>2. DOMAIN Memory.stable = 0 .. Len(m) - 1 /\ Memory.size = Len(m)
    BY <1>1, <1>3
  <2> QED BY <1>2, <2>1, <2>2 DEF MemoryOK
<1>5. HeaderOK(header)
  <2>1. <<>> \in {<<>>} /\ DOMAIN <<>> = 0 .. 0 - 1
    OBVIOUS
  <2> QED BY <2>1 DEF Init, NoHeader, HeaderOK
<1>6. obj = <<>> /\ DOMAIN obj = {} /\ header.blocks = 0
  BY DEF Init, NoHeader
<1>7. ObjectsOK(header, obj)
  <2>1. obj = [r \in DOMAIN obj |-> obj[r]]
    BY <1>6
  <2> QED BY <1>5, <1>6, <2>1 DEF ObjectsOK
<1>8. RawOK(Memory, header, obj)
  BY <1>1, <1>3, <1>6 DEF RawOK
<1>9. base = 0 /\ version = "noregions"
  BY DEF Init
<1> QED BY <1>3, <1>4, <1>7, <1>8, <1>9 DEF IInv, LayoutOK

\* The old instance saves all that it changes in the physical memory.
LEMMA BackupPreserves ==
    ASSUME IInv, Backup
    PROVE  IInv' /\ \A r : Content(r)' = Content(r)
<1> DEFINE new == Restored'
<1>1. /\ running = TRUE /\ running' = FALSE
      /\ IF DOMAIN stable = {} THEN stable' = stable
         ELSE LET grown == Grown(stable, size + 1)
              IN  stable' = [grown EXCEPT ![0] = Zero,
                               ![LastPage(grown)] = [size |-> size, first |-> stable[0],
                                                     version |-> version]]
      /\ size' = 0 /\ base' = 0 /\ version' = "noregions" /\ header' = header /\ obj' = obj
  BY DEF Backup, IInv
<1>2. Memory = [size |-> size, version |-> version, stable |-> stable]
      /\ Memory.size = size /\ Memory.version = version /\ Memory.stable = stable
      /\ Memory' = new
  BY <1>1 DEF Memory
<1>3. LayoutOK(Memory, header, obj) /\ MemoryOK(Memory)
  BY DEF IInv, LayoutOK
<1>4. PICK n \in Nat : /\ n >= size /\ DOMAIN stable = 0 .. n - 1
                       /\ size = 0 => n = 0
  BY <1>2, <1>3 DEF MemoryOK
<1>5. size \in Nat /\ \A p \in 0 .. n - 1 : p >= size => stable[p] = Zero
  BY <1>2, <1>3, <1>4 DEF MemoryOK
<1>6. CASE DOMAIN stable = {}
  <2>1. size = 0
    BY <1>4, <1>5, <1>6
  <2>2. version = "noregions"
    <3>1. ~RegionsOK(Memory, header, obj)
      <4> SUFFICES ASSUME RegionsOK(Memory, header, obj) PROVE FALSE
        OBVIOUS
      <4>1. 0 = header.base + header.blocks * PagesInBlock /\ header.base \in Nat
            /\ header.base > 0
        BY <1>2, <2>1, Constants DEF RegionsOK
      <4>2. header.blocks \in Nat
        BY <1>3 DEF LayoutOK, ObjectsOK, HeaderOK
      <4>3. header.blocks * PagesInBlock \in Nat
        BY <4>2, Constants
      <4> QED BY <4>1, <4>3
    <3> QED BY <1>2, <1>3, <3>1 DEF LayoutOK, RawOK
  <2>3. new = [size |-> 0, version |-> "noregions", stable |-> stable]
    BY <1>1, <1>6 DEF Restored
  <2>4. Memory' = Memory
    BY <1>2, <2>1, <2>2, <2>3
  <2> QED BY <1>1, <1>3, <2>4, ContentIsIn, NextContentIsIn DEF IInv
<1>7. CASE DOMAIN stable # {}
  <2> DEFINE grown == Grown(stable, size + 1)
             record == [size |-> size, first |-> stable[0], version |-> version]
  <2>1. n > 0 /\ size > 0 /\ size + 1 \in Nat
    BY <1>4, <1>5, <1>7
  <2>2. PICK m \in Nat :
          /\ m >= n /\ m >= size + 1 /\ m \in {n, size + 1}
          /\ DOMAIN grown = 0 .. m - 1
          /\ \A p \in 0 .. m - 1 : grown[p] = IF p \in 0 .. n - 1 THEN stable[p] ELSE Zero
    BY <1>4, <2>1, GrownIs
  <2> DEFINE last == m - 1
  <2>3. LastPage(grown) = last
    <3>1. /\ IsFiniteSet(0 .. m - 1)
          /\ Cardinality(0 .. m - 1) = IF 0 > m - 1 THEN 0 ELSE (m - 1) - 0 + 1
      BY FS_Interval
    <3> QED BY <1>5, <2>2, <3>1 DEF LastPage
  <2> HIDE DEF grown
  <2>4. stable' = [grown EXCEPT ![0] = Zero, ![last] = record]
    BY <1>1, <1>7, <2>3 DEF grown
  <2> HIDE DEF record
  <2>5. last \in 0 .. m - 1 /\ last # 0 /\ 0 \in 0 .. m - 1 /\ last >= size
    BY <1>5, <2>1, <2>2
  <2> HIDE DEF last
  <2>6. /\ DOMAIN stable' = 0 .. m - 1 /\ stable'[last] = record
        /\ \A p \in 0 .. m - 1 : p # 0 /\ p # last => stable'[p] = grown[p]
    BY <2>2, <2>4, <2>5
  <2>7. LastPage(stable)' = last
    BY <2>2, <2>3, <2>6 DEF LastPage
  <2>8. new = [size |-> record.size, version |-> record.version,
               stable |-> [stable' EXCEPT ![last] = Zero, ![0] = record.first]]
    BY <2>5, <2>6, <2>7 DEF Restored
  <2>9. /\ new.size = size /\ new.version = version
        /\ new.stable = [stable' EXCEPT ![last] = Zero, ![0] = stable[0]]
    BY <2>8 DEF record
  <2>10. DOMAIN new.stable = 0 .. m - 1
    BY <2>6, <2>9
  <2>11. ASSUME NEW p \in 0 .. m - 1
         PROVE  new.stable[p] = IF p \in 0 .. n - 1 THEN stable[p] ELSE Zero
    <3>1. CASE p = 0
      BY <2>1, <2>5, <2>6, <2>9, <3>1
    <3>2. CASE p = last
      <4>1. new.stable[p] = Zero
        BY <2>5, <2>6, <2>9, <3>2
      <4> QED BY <1>5, <2>5, <3>2, <4>1
    <3>3. CASE p # 0 /\ p # last
      BY <2>2, <2>6, <2>9, <3>3
    <3> QED BY <3>1, <3>2, <3>3
  <2>12. 0 .. n - 1 \subseteq 0 .. m - 1 /\ m >= size /\ (size = 0 => m = 0)
    BY <1>5, <2>1, <2>2
  <2> HIDE DEF new
  <2>13. LayoutOK(new, header, obj)
         /\ \A r : ContentIn(new, header, obj, r) = ContentIn(Memory, header, obj, r)
    <3>1. DOMAIN Memory.stable \subseteq DOMAIN new.stable
      BY <1>2, <1>4, <2>10, <2>12
    <3>2. \A p \in DOMAIN Memory.stable : new.stable[p] = Memory.stable[p]
      BY <1>2, <1>4, <2>11, <2>12
    <3>3. \A p \in DOMAIN new.stable \ DOMAIN Memory.stable : new.stable[p] = Zero
      BY <1>2, <1>4, <2>10, <2>11
    <3>4. \E k \in Nat : /\ k >= Memory.size /\ DOMAIN new.stable = 0 .. k - 1
                         /\ Memory.size = 0 => k = 0
      BY <1>2, <2>10, <2>12
    <3>5. new.size = Memory.size /\ new.version = Memory.version
      BY <1>2, <2>9
    <3> QED BY <1>3, <3>1, <3>2, <3>3, <3>4, <3>5, MorePages
  <2> QED BY <1>1, <1>2, <2>13, ContentIsIn, NextContentIsIn DEF IInv
<1> QED BY <1>6, <1>7
-----------------------------------------------------------------------------
\* A migration of whatever raw memory there is.
LEMMA MigrationOK ==
    ASSUME NEW mem, NEW h, NEW o, LayoutOK(mem, h, o), RawOK(mem, h, o),
           NEW start, DOMAIN start = {},
           NEW m, m = Migration(mem.size, mem.stable), m.ok,
           NEW new, new = [size |-> m.size, version |-> "regions", stable |-> m.stable],
           NEW objects, objects = WithRegion(start, 0, region_recover(m.header, 0))
    PROVE  Migrates(mem, h, o, new, m.header, objects)
<1>1. CASE mem.size = 0
  <2>1. m = MigrationFromNone(mem.stable)
    BY <1>1 DEF Migration
  <2> QED BY <1>1, <2>1, MigrationFromNoneOK
<1>2. CASE mem.size # 0
  <2>1. m = MigrationFromSome(mem.size, mem.stable)
    BY <1>2 DEF Migration
  <2> QED BY <1>2, <2>1, MigrationFromSomeOK
<1> QED BY <1>1, <1>2

\* A layout has a raw memory or regions, as its version says.
LEMMA LayoutVersion ==
    ASSUME NEW mem, NEW h, NEW o, LayoutOK(mem, h, o)
    PROVE  /\ mem.version = "noregions" => RawOK(mem, h, o)
           /\ mem.version # "noregions" => mem.version = "regions" /\ RegionsOK(mem, h, o)
  BY DEF LayoutOK, RawOK, RegionsOK

\* The contents of all regions but 0 stay, and that of region 0 too if the raw
\* memory fits.
KeepsContents == \A r : r # 0 \/ RawMemoryFits => Content(r)' = Content(r)

\* The new instance finds what the old one had, and may have to migrate it.
LEMMA RestorePreserves ==
    ASSUME IInv, NEW use_stable_regions \in BOOLEAN, Restore(use_stable_regions)
    PROVE  /\ IInv' /\ KeepsContents
           /\ DOMAIN obj' \ {0} = DOMAIN obj \ {0}
<1> DEFINE old == Restored
           fresh == use_stable_regions /\ old.version = "noregions"
           m == IF fresh THEN Migration(old.size, old.stable)
                ELSE [size |-> old.size, stable |-> old.stable, header |-> header, ok |-> TRUE]
<1>1. /\ running = FALSE /\ running' = TRUE /\ m.ok
      /\ size' = m.size /\ stable' = m.stable /\ header' = m.header
      /\ version' = IF fresh THEN "regions" ELSE old.version
      /\ base' = IF version' = "regions" THEN m.header.base ELSE 0
      /\ obj' = IF version' = "regions"
                THEN WithRegion(obj, 0, region_recover(m.header, 0)) ELSE obj
  BY DEF Restore, IInv
<1>2. Memory = old
  BY <1>1 DEF Memory
<1>3. LayoutOK(old, header, obj)
  BY <1>2 DEF IInv
<1>4. Memory' = [size |-> size', version |-> version', stable |-> stable']
      /\ Memory'.version = version'
  BY <1>1 DEF Memory
<1>5. CASE fresh
  <2> HIDE DEF old
  <2>1. m = Migration(old.size, old.stable) /\ version' = "regions" /\ old.version = "noregions"
    BY <1>1, <1>5
  <2>2. RawOK(old, header, obj)
    BY <1>3, <2>1, LayoutVersion
  <2>3. DOMAIN obj = {}
    BY <2>2 DEF RawOK
  <2> HIDE DEF m
  <2>4. Migrates(old, header, obj, Memory', header', obj')
    <3>1. obj' = WithRegion(obj, 0, region_recover(m.header, 0))
      BY <1>1, <2>1
    <3>2. Memory' = [size |-> m.size, version |-> "regions", stable |-> m.stable]
      BY <1>1, <1>4, <2>1
    <3> QED BY <1>1, <1>3, <2>1, <2>2, <2>3, <3>1, <3>2, MigrationOK
  <2>5. IInv'
    BY <1>1, <2>1, <2>4 DEF IInv, Migrates
  <2>6. KeepsContents
    BY <1>2, <2>4, ContentIsIn, NextContentIsIn DEF KeepsContents, Migrates
  <2> QED BY <2>3, <2>4, <2>5, <2>6 DEF Migrates
<1>6. CASE ~fresh
  <2> HIDE DEF old
  <2>1. /\ size' = old.size /\ stable' = old.stable /\ version' = old.version
        /\ header' = header /\ base' = (IF version' = "regions" THEN header.base ELSE 0)
    BY <1>1, <1>6
  <2>2. Memory' = old
    <3>1. old = [size |-> old.size, version |-> old.version, stable |-> old.stable]
      BY DEF old, Restored
    <3> QED BY <1>4, <2>1, <3>1
  <2>3. obj' = obj
    <3>1. CASE version' = "regions"
      <4>1. RegionsOK(old, header, obj) /\ ObjectsOK(header, obj)
        BY <1>3, <2>1, <3>1, LayoutVersion DEF LayoutOK
      <4>2. 0 \in DOMAIN obj
        BY <4>1 DEF RegionsOK
      <4>3. region_recover(header, 0) = obj[0]
        BY <4>1, <4>2, RecoverGivesBack
      <4>4. obj' = WithRegion(obj, 0, obj[0])
        BY <1>1, <1>6, <3>1, <4>3
      <4>5. obj' = [r \in DOMAIN obj |-> obj[r]]
        BY <4>2, <4>4 DEF WithRegion
      <4> QED BY <4>1, <4>5 DEF ObjectsOK
    <3>2. CASE version' # "regions"
      BY <1>1, <3>2
    <3> QED BY <3>1, <3>2
  <2>4. IInv'
    BY <1>1, <1>3, <2>1, <2>2, <2>3 DEF IInv
  <2> QED BY <1>2, <2>1, <2>2, <2>3, <2>4, ContentIsIn, NextContentIsIn DEF KeepsContents
<1> QED BY <1>5, <1>6

\* A program gets its next region, after a migration if it is the first one.
LEMMA region_newPreserves ==
    ASSUME IInv, region_new
    PROVE  /\ IInv' /\ KeepsContents
           /\ \E id \in RegionIds : /\ id \notin DOMAIN obj
                                    /\ DOMAIN obj' \ {0} = (DOMAIN obj \ {0}) \cup {id}
<1> DEFINE fresh == version = "noregions"
           m == IF fresh THEN Migration(size, stable)
                ELSE [size |-> size, stable |-> stable, header |-> header, ok |-> TRUE]
           id == m.header.regions
           o == IF fresh THEN WithRegion(<<>>, 0, region_recover(m.header, 0)) ELSE obj
           middle == [size |-> m.size, version |-> "regions", stable |-> m.stable]
<1>1. /\ running = TRUE /\ running' = TRUE /\ m.ok /\ id \in RegionIds
      /\ size' = m.size /\ stable' = m.stable /\ base' = m.header.base
      /\ header' = [m.header EXCEPT !.regions = id + 1]
      /\ obj' = WithRegion(o, id, [pages |-> 0, vec |-> <<>>])
      /\ version' = "regions"
  BY DEF region_new, IInv
<1>2. Memory = [size |-> size, version |-> version, stable |-> stable]
      /\ Memory.size = size /\ Memory.version = version /\ Memory.stable = stable
      /\ LayoutOK(Memory, header, obj)
  BY <1>1 DEF Memory, IInv
<1>3. Memory' = middle
  BY <1>1 DEF Memory
<1> HIDE DEF m
<1>4. /\ LayoutOK(middle, m.header, o) /\ RegionsOK(middle, m.header, o)
      /\ \A r : r # 0 \/ RawMemoryFits =>
             ContentIn(middle, m.header, o, r) = ContentIn(Memory, header, obj, r)
      /\ DOMAIN o \ {0} = DOMAIN obj \ {0} /\ 0 \in DOMAIN o
      /\ (fresh => DOMAIN obj = {}) /\ (~fresh => o = obj)
  <2>1. CASE fresh
    <3>1. m = Migration(Memory.size, Memory.stable)
      BY <1>2, <2>1 DEF m
    <3>2. RawOK(Memory, header, obj)
      BY <1>2, <2>1, LayoutVersion
    <3>3. o = WithRegion(<<>>, 0, region_recover(m.header, 0)) /\ DOMAIN <<>> = {}
      BY <2>1
    <3> DEFINE start == <<>>
    <3>4. o = WithRegion(start, 0, region_recover(m.header, 0)) /\ DOMAIN start = {}
      BY <3>3
    <3> HIDE DEF start, o
    <3>5. Migrates(Memory, header, obj, middle, m.header, o)
      BY <1>1, <1>2, <3>1, <3>2, <3>4, MigrationOK
    <3>6. DOMAIN obj = {}
      BY <3>2 DEF RawOK
    <3>7. DOMAIN o = {0} /\ LayoutOK(middle, m.header, o) /\ RegionsOK(middle, m.header, o)
      BY <3>5 DEF Migrates
    <3>8. \A r : r # 0 \/ RawMemoryFits =>
             ContentIn(middle, m.header, o, r) = ContentIn(Memory, header, obj, r)
      BY <3>5 DEF Migrates
    <3> HIDE DEF middle
    <3> QED BY <2>1, <3>6, <3>7, <3>8
  <2>2. CASE ~fresh
    <3>1. m = [size |-> size, stable |-> stable, header |-> header, ok |-> TRUE]
      BY <2>2 DEF m
    <3>2. RegionsOK(Memory, header, obj) /\ version = "regions"
      BY <1>2, <2>2, LayoutVersion
    <3>3. middle = Memory /\ m.header = header /\ o = obj
      BY <1>2, <2>2, <3>1, <3>2
    <3>4. 0 \in DOMAIN obj
      BY <3>2 DEF RegionsOK
    <3> HIDE DEF middle, o
    <3> QED BY <1>2, <2>2, <3>2, <3>3, <3>4
  <2> QED BY <2>1, <2>2
<1> HIDE DEF o, middle
<1> DEFINE h == m.header
<1>5. /\ LayoutOK(middle, header', obj') /\ RegionsOK(middle, header', obj')
      /\ DOMAIN obj' = DOMAIN o \cup {id} /\ id \notin DOMAIN o
      /\ \A r : ContentIn(middle, header', obj', r) = ContentIn(middle, h, o, r)
  <2> HIDE DEF h
  <2>1. LayoutOK(middle, h, o)
    BY <1>4 DEF h
  <2>2. RegionsOK(middle, h, o)
    BY <1>4 DEF h
  <2>3. h.regions \in RegionIds
    BY <1>1 DEF h
  <2>4. header' = NextHeader(h)
    BY <1>1 DEF h, NextHeader
  <2>5. obj' = NextObjects(h, o)
    BY <1>1 DEF h, NextObjects
  <2>6. OneMore(middle, h, o, NextHeader(h), NextObjects(h, o))
    BY <2>1, <2>2, <2>3, NextRegion, Zenon
  <2>7. OneMore(middle, h, o, header', obj')
    BY <2>4, <2>5, <2>6
  <2> QED BY <2>7 DEF h, OneMore
<1>6. base' = header'.base
  <2>1. h \in [base : {0, MetaPages, PagesInBlock}, blocks : Nat, regions : Nat, table : {h.table}]
    BY <1>4 DEF LayoutOK, ObjectsOK, HeaderOK
  <2> HIDE DEF h
  <2>2. header' = [h EXCEPT !.regions = h.regions + 1] /\ base' = h.base
    BY <1>1 DEF h
  <2> QED BY <2>1, <2>2
<1>7. IInv'
  BY <1>1, <1>3, <1>5, <1>6 DEF IInv
<1>8. KeepsContents
  BY <1>3, <1>4, <1>5, ContentIsIn, NextContentIsIn DEF KeepsContents
<1>9. id \in RegionIds /\ id # 0 /\ id \notin DOMAIN obj
  <2>1. id \in RegionIds /\ id # 0
    BY <1>1, RegionsAssumption
  <2> QED BY <1>4, <1>5, <2>1
<1>10. DOMAIN obj' \ {0} = (DOMAIN obj \ {0}) \cup {id}
  BY <1>4, <1>5, <1>9
<1> QED BY <1>7, <1>8, <1>9, <1>10
-----------------------------------------------------------------------------
\* A program with a region object has regions.
LEMMA RegionsRun ==
    ASSUME IInv, running = TRUE, NEW r \in DOMAIN obj
    PROVE  /\ Memory = [size |-> size, version |-> version, stable |-> stable]
           /\ version = "regions" /\ base = header.base /\ header.base \in Nat
           /\ MemoryOK(Memory) /\ ObjectsOK(header, obj) /\ RegionsOK(Memory, header, obj)
<1>1. Memory = [size |-> size, version |-> version, stable |-> stable]
      /\ Memory.version = version
  BY DEF Memory
<1>2. LayoutOK(Memory, header, obj)
  BY DEF IInv
<1>3. version # "noregions"
  BY <1>1, <1>2, LayoutVersion DEF RawOK
<1>4. version = "regions" /\ RegionsOK(Memory, header, obj)
  BY <1>1, <1>2, <1>3, LayoutVersion
<1>5. header.base \in Nat
  BY <1>4, Constants DEF RegionsOK
<1> QED BY <1>1, <1>2, <1>4, <1>5 DEF IInv, LayoutOK

\* The cells of a staged access to a region that runs.
LEMMA StagedInRegion ==
    ASSUME IInv, running = TRUE, NEW r \in DOMAIN obj, NEW offset \in Nat, NEW len \in Nat,
           check_relative_range(obj[r], offset, len)
    PROVE  /\ offset + len <= obj[r].pages
           /\ \A i \in 0 .. len - 1 :
                StagedAbsolute(obj[r], offset, len, i) = Absolute(obj[r], header.base, offset + i)
<1> DEFINE object == obj[r]
<1>1. base = header.base /\ base \in Nat /\ ObjectsOK(header, obj)
  BY RegionsRun
<1>2. ObjectOK(object, header)
  BY <1>1 DEF ObjectsOK
<1>3. object.pages \in Nat /\ object.vec \in [Ranks(object) -> 0 .. header.blocks - 1]
  BY <1>2 DEF ObjectOK
<1>4. \A k \in Ranks(object) : object.vec[k] \in Nat
  BY <1>3
<1>5. \A k, l \in Ranks(object) : object.vec[k] = object.vec[l] => k = l
  BY <1>1, BlocksDistinct
<1>6. offset + len <= object.pages
  BY <1>3 DEF check_relative_range
<1> HIDE DEF object
<1>7. ASSUME NEW i \in 0 .. len - 1
      PROVE  StagedAbsolute(object, offset, len, i) = Absolute(object, base, offset + i)
  BY <1>1, <1>3, <1>4, <1>5, <1>6, StagedIs
<1> QED BY <1>1, <1>6, <1>7 DEF object

\* A store changes the cells it is meant for, and nothing else.
LEMMA region_storePreserves ==
    ASSUME IInv, NEW r \in RegionIds, NEW offset \in 0 .. MaxStablePages, NEW src \in Srcs,
           region_store(r, offset, src)
    PROVE  /\ IInv' /\ obj' = obj /\ r \in DOMAIN obj
           /\ DOMAIN Content(r) = 1 .. obj[r].pages /\ offset + Len(src) <= obj[r].pages
           /\ \A s : s # r => Content(s)' = Content(s)
           /\ Content(r)' = [p \in DOMAIN Content(r) |->
                               IF p - offset \in DOMAIN src THEN src[p - offset]
                               ELSE Content(r)[p]]
<1> DEFINE len == Len(src)
           Hit(p, i) == StagedAbsolute(obj[r], offset, len, i - 1) = p
           At(s, p) == Absolute(obj[s], header.base, p)
           InBlocks(s) == 0 .. BlockCount(obj[s].pages) * PagesInBlock - 1
<1>1. /\ running = TRUE /\ r \in DOMAIN obj /\ check_relative_range(obj[r], offset, len)
      /\ stable' = [p \in DOMAIN stable |->
                      IF \E i \in DOMAIN src : Hit(p, i)
                      THEN src[CHOOSE i \in DOMAIN src : Hit(p, i)] ELSE stable[p]]
      /\ version' = version /\ size' = size /\ base' = base /\ header' = header /\ obj' = obj
      /\ running' = TRUE
  BY DEF region_store, IInv
<1>2. /\ Memory = [size |-> size, version |-> version, stable |-> stable]
      /\ version = "regions" /\ base = header.base /\ header.base \in Nat
      /\ MemoryOK(Memory) /\ ObjectsOK(header, obj) /\ RegionsOK(Memory, header, obj)
  BY <1>1, RegionsRun
<1>3. /\ Memory' = [size |-> size, version |-> version, stable |-> stable']
      /\ Memory.stable = stable /\ Memory.size = size /\ Memory.version = version
  BY <1>1, <1>2 DEF Memory
<1>4. len \in Nat /\ DOMAIN src = 1 .. len /\ offset \in Nat
  BY RegionsAssumption
<1>5. /\ offset + len <= obj[r].pages
      /\ \A i \in 1 .. len : StagedAbsolute(obj[r], offset, len, i - 1) = At(r, offset + (i - 1))
  <2>1. /\ offset + len <= obj[r].pages
        /\ \A i \in 0 .. len - 1 : StagedAbsolute(obj[r], offset, len, i) = At(r, offset + i)
    BY <1>1, <1>4, StagedInRegion
  <2>2. \A i \in 1 .. len : i - 1 \in 0 .. len - 1
    BY <1>4
  <2> HIDE DEF At
  <2> QED BY <2>1, <2>2
<1>6. ASSUME NEW s \in DOMAIN obj
      PROVE  /\ obj[s].pages \in Nat /\ BlockCount(obj[s].pages) * PagesInBlock \in Nat
             /\ obj[s].pages <= BlockCount(obj[s].pages) * PagesInBlock
             /\ 0 .. obj[s].pages - 1 \subseteq InBlocks(s)
             /\ obj[s].pages .. BlockCount(obj[s].pages) * PagesInBlock - 1 \subseteq InBlocks(s)
  <2>1. /\ obj[s].pages \in Nat /\ BlockCount(obj[s].pages) * PagesInBlock \in Nat
        /\ obj[s].pages <= BlockCount(obj[s].pages) * PagesInBlock
    BY <1>2, PagesInBlocks
  <2> QED BY <2>1
<1>7. ASSUME NEW i \in 1 .. len PROVE offset + (i - 1) \in InBlocks(r)
  BY <1>1, <1>4, <1>5, <1>6
<1>8. ASSUME NEW s \in DOMAIN obj, NEW p \in InBlocks(s)
      PROVE  /\ At(s, p) \in DOMAIN stable /\ At(s, p) < size
             /\ \A i \in 1 .. len : Hit(At(s, p), i) <=> s = r /\ p = offset + (i - 1)
  <2>1. At(s, p) \in DOMAIN stable /\ At(s, p) < size
    <3>1. size \in Nat
      BY <1>2, <1>3 DEF MemoryOK
    <3>2. At(s, p) \in DOMAIN stable /\ At(s, p) \in header.base .. size - 1
      BY <1>2, <1>3, PagePhysical
    <3> QED BY <1>2, <3>1, <3>2
  <2>2. ASSUME NEW i \in 1 .. len, s = r, p = offset + (i - 1) PROVE Hit(At(s, p), i)
    BY <1>5, <2>2
  <2>3. ASSUME NEW i \in 1 .. len, Hit(At(s, p), i) PROVE s = r /\ p = offset + (i - 1)
    <3>1. At(r, offset + (i - 1)) = At(s, p) /\ offset + (i - 1) \in InBlocks(r)
      BY <1>5, <1>7, <2>3
    <3> QED BY <1>1, <1>2, <3>1, PagesDistinct
  <2> QED BY <2>1, <2>2, <2>3
<1> HIDE DEF At, Hit
<1>9. ASSUME NEW s \in DOMAIN obj, NEW p \in InBlocks(s), s # r \/ p - offset + 1 \notin 1 .. len
      PROVE  stable'[At(s, p)] = stable[At(s, p)]
  <2>1. ~\E i \in DOMAIN src : Hit(At(s, p), i)
    <3> SUFFICES ASSUME NEW i \in 1 .. len, Hit(At(s, p), i) PROVE FALSE
      BY <1>4
    <3>1. s = r /\ p = offset + (i - 1)
      BY <1>8
    <3> QED BY <1>4, <1>9, <3>1
  <2> QED BY <1>1, <1>8, <2>1
<1>10. ASSUME NEW i \in 1 .. len
       PROVE  stable'[At(r, offset + (i - 1))] = src[i]
  <2> DEFINE a == At(r, offset + (i - 1))
  <2>1. a \in DOMAIN stable /\ \A k \in 1 .. len : Hit(a, k) <=> offset + (i - 1) = offset + (k - 1)
    BY <1>1, <1>7, <1>8
  <2> HIDE DEF a
  <2>2. \A k \in DOMAIN src : Hit(a, k) <=> k = i
    BY <1>4, <2>1
  <2>3. (\E k \in DOMAIN src : Hit(a, k)) /\ (CHOOSE k \in DOMAIN src : Hit(a, k)) = i
    BY <1>4, <2>2
  <2> QED BY <1>1, <2>1, <2>3 DEF a
<1>11. ASSUME NEW p \in DOMAIN stable, p >= size PROVE stable'[p] = stable[p]
  <2>1. ~\E i \in DOMAIN src : Hit(p, i)
    <3> SUFFICES ASSUME NEW i \in 1 .. len, Hit(p, i) PROVE FALSE
      BY <1>4
    <3>1. p = At(r, offset + (i - 1))
      BY <1>5 DEF Hit
    <3>2. p < size
      BY <1>1, <1>7, <1>8, <3>1
    <3>3. p \in Int /\ size \in Int
      BY <1>2, <1>3 DEF MemoryOK
    <3> QED BY <1>11, <3>2, <3>3
  <2> QED BY <1>1, <2>1
<1>12. MemoryOK(Memory')
  <2>1. DOMAIN stable' = DOMAIN stable
    BY <1>1
  <2>2. Memory'.stable = stable' /\ Memory'.size = size
    BY <1>3
  <2>3. \A p \in DOMAIN stable' : p >= size => stable'[p] = Zero
    BY <1>2, <1>3, <1>11, <2>1 DEF MemoryOK
  <2>4. /\ size \in 0 .. MaxStablePages
        /\ \E n \in Nat : /\ n >= size /\ DOMAIN stable' = 0 .. n - 1
                          /\ size = 0 => n = 0
    BY <1>2, <1>3, <2>1 DEF MemoryOK
  <2> HIDE <1>1, <1>3
  <2> QED BY <2>2, <2>3, <2>4 DEF MemoryOK
<1>13. SpareIsZero(Memory, header, obj) => SpareIsZero(Memory', header', obj')
  <2> DEFINE new == Memory'
  <2>0. new.stable = stable' /\ header' = header /\ obj' = obj
    BY <1>1, <1>3
  <2> HIDE DEF new
  <2> SUFFICES ASSUME SpareIsZero(Memory, header, obj), NEW s \in DOMAIN obj,
                      NEW p \in obj[s].pages .. BlockCount(obj[s].pages) * PagesInBlock - 1
               PROVE  stable'[Absolute(obj[s], header.base, p)] = Zero
    <3>1. SpareIsZero(new, header, obj) => SpareIsZero(Memory', header', obj')
      BY <2>0 DEF new
    <3> QED BY <2>0, <3>1 DEF SpareIsZero
  <2>1. stable[At(s, p)] = Zero
    BY <1>3 DEF SpareIsZero, At
  <2>2. p \in InBlocks(s)
    BY <1>6
  <2>3. s # r \/ p - offset + 1 \notin 1 .. len
    BY <1>1, <1>4, <1>5, <1>6
  <2> QED BY <1>9, <2>1, <2>2, <2>3 DEF At
<1>14. RegionsOK(Memory', header', obj')
  <2>1. Memory'.version = "regions" /\ Memory'.size = Memory.size
    BY <1>2, <1>3
  <2> QED BY <1>1, <1>2, <1>13, <2>1 DEF RegionsOK
<1>15. IInv'
  BY <1>1, <1>2, <1>12, <1>14 DEF IInv, LayoutOK
<1>16. ASSUME NEW s \in DOMAIN obj
       PROVE  /\ Content(s) = [p \in 1 .. obj[s].pages |-> stable[At(s, p - 1)]]
              /\ Content(s)' = [p \in 1 .. obj[s].pages |-> stable'[At(s, p - 1)]]
  <2>1. ContentIn(Memory, header, obj, s) = [p \in 1 .. obj[s].pages |-> stable[At(s, p - 1)]]
    BY <1>2, <1>3 DEF ContentIn, At
  <2>2. ContentIn(Memory', header', obj', s) = [p \in 1 .. obj[s].pages |-> stable'[At(s, p - 1)]]
    BY <1>1, <1>2, <1>3 DEF ContentIn, At
  <2> QED BY <2>1, <2>2, ContentIsIn, NextContentIsIn
<1>17. ASSUME NEW s, s # r PROVE Content(s)' = Content(s)
  <2>1. CASE s \in DOMAIN obj
    <3>1. ASSUME NEW p \in 1 .. obj[s].pages
          PROVE  stable'[At(s, p - 1)] = stable[At(s, p - 1)]
      <4>1. p - 1 \in InBlocks(s)
        BY <1>6, <2>1
      <4> QED BY <1>9, <1>17, <2>1, <4>1
    <3> QED BY <1>16, <2>1, <3>1
  <2>2. CASE s \notin DOMAIN obj
    <3>1. ContentIn(Memory', header', obj', s) = <<>> /\ ContentIn(Memory, header, obj, s) = <<>>
      BY <1>1, <1>2, <1>3, <2>2 DEF ContentIn
    <3> QED BY <3>1, ContentIsIn, NextContentIsIn
  <2> QED BY <2>1, <2>2
<1>18. DOMAIN Content(r) = 1 .. obj[r].pages
  BY <1>1, <1>16
<1>19. Content(r)' = [p \in DOMAIN Content(r) |->
                        IF p - offset \in DOMAIN src THEN src[p - offset] ELSE Content(r)[p]]
  <2>1. ASSUME NEW p \in 1 .. obj[r].pages
        PROVE  stable'[At(r, p - 1)] = IF p - offset \in 1 .. len THEN src[p - offset]
                                       ELSE stable[At(r, p - 1)]
    <3>1. CASE p - offset \in 1 .. len
      <4>1. offset + ((p - offset) - 1) = p - 1
        BY <1>4
      <4> QED BY <1>10, <3>1, <4>1
    <3>2. CASE p - offset \notin 1 .. len
      <4>1. p - 1 \in InBlocks(r) /\ (p - 1) - offset + 1 = p - offset
        BY <1>1, <1>4, <1>6
      <4> QED BY <1>1, <1>9, <3>2, <4>1
    <3> QED BY <3>1, <3>2
  <2>2. Content(r)' = [p \in 1 .. obj[r].pages |->
                         IF p - offset \in 1 .. len THEN src[p - offset]
                         ELSE stable[At(r, p - 1)]]
    <3> DEFINE After(p) == stable'[At(r, p - 1)]
               Before(p) == stable[At(r, p - 1)]
    <3>1. Content(r)' = [p \in 1 .. obj[r].pages |-> After(p)]
      BY <1>1, <1>16
    <3>2. \A p \in 1 .. obj[r].pages :
            After(p) = IF p - offset \in 1 .. len THEN src[p - offset] ELSE Before(p)
      BY <2>1
    <3> HIDE DEF After, Before
    <3>3. Content(r)' = [p \in 1 .. obj[r].pages |->
                           IF p - offset \in 1 .. len THEN src[p - offset] ELSE Before(p)]
      BY <3>1, <3>2
    <3> QED BY <3>3 DEF Before
  <2>3. \A p \in 1 .. obj[r].pages : Content(r)[p] = stable[At(r, p - 1)]
    BY <1>1, <1>16
  <2>4. [p \in 1 .. obj[r].pages |->
           IF p - offset \in 1 .. len THEN src[p - offset] ELSE stable[At(r, p - 1)]]
        = [p \in 1 .. obj[r].pages |->
             IF p - offset \in 1 .. len THEN src[p - offset] ELSE Content(r)[p]]
    BY <2>3
  <2> HIDE DEF len
  <2> QED BY <1>4, <1>18, <2>2, <2>4
<1> QED BY <1>1, <1>5, <1>15, <1>17, <1>18, <1>19
-----------------------------------------------------------------------------
\* The blocks of a region with so many pages: the new ones are the next in memory.
GrownVec(h, object, pages) ==
    [k \in 0 .. BlockCount(pages) - 1 |->
       IF k < BlockCount(object.pages) THEN object.vec[k]
       ELSE h.blocks + (k - BlockCount(object.pages))]

GrownTotal(h, object, pages) == h.blocks + (BlockCount(pages) - BlockCount(object.pages))

\* The entry of block b is written as the one of rank k.
Written(object, vec, k, b) == k >= FirstWritten(BlockCount(object.pages)) /\ vec[k] = b

GrownEntry(r, pages, k) ==
    [region |-> r, rank |-> k, pages |-> block_page_count(k, BlockCount(pages), pages)]

\* The table once region r has so many pages.
GrownTable(h, object, r, pages, vec) ==
    [b \in 0 .. GrownTotal(h, object, pages) - 1 |->
       IF \E k \in 0 .. BlockCount(pages) - 1 : Written(object, vec, k, b)
       THEN GrownEntry(r, pages, CHOOSE k \in 0 .. BlockCount(pages) - 1 :
                                   Written(object, vec, k, b))
       ELSE h.table[b]]

GrownObjects(o, r, pages, vec) == [o EXCEPT ![r] = [pages |-> pages, vec |-> vec]]

GrownHeader(h, object, r, pages, vec) ==
    [h EXCEPT !.blocks = GrownTotal(h, object, pages),
              !.table = GrownTable(h, object, r, pages, vec)]

\* Header and objects say the same again once a region has grown.
LEMMA GrowAgrees ==
    ASSUME NEW h, NEW o, ObjectsOK(h, o), NEW r \in DOMAIN o,
           NEW pages \in Nat, o[r].pages <= pages,
           NEW vec, vec = GrownVec(h, o[r], pages),
           NEW h2, h2 = GrownHeader(h, o[r], r, pages, vec),
           NEW o2, o2 = GrownObjects(o, r, pages, vec)
    PROVE  /\ ObjectsOK(h2, o2) /\ h2.base = h.base /\ h2.regions = h.regions
           /\ h2.blocks = GrownTotal(h, o[r], pages)
<1> DEFINE object == o[r]
           old == BlockCount(object.pages)
           blocks == BlockCount(pages)
           H == h.blocks
           total == GrownTotal(h, object, pages)
           table == GrownTable(h, object, r, pages, vec)
           W(k, b) == Written(object, vec, k, b)
<1>1. /\ HeaderOK(h) /\ o = [s \in DOMAIN o |-> o[s]]
      /\ \A s \in DOMAIN o : s \in Nat /\ s < h.regions /\ ObjectOK(o[s], h)
      /\ \A b \in 0 .. h.blocks - 1 : EntryAgrees(h, o, b)
  BY DEF ObjectsOK
<1>2. object.pages \in Nat /\ object.vec \in [0 .. old - 1 -> 0 .. H - 1]
  BY <1>1 DEF ObjectOK, Ranks
<1>3. old \in Nat /\ blocks \in Nat /\ old <= blocks
  BY <1>2, BlockCountIs, BlockCountGrows
<1>4. H \in Nat /\ total = H + (blocks - old) /\ total \in Nat /\ H <= total
  <2>1. H \in Nat
    BY <1>1 DEF HeaderOK
  <2> HIDE DEF object, H
  <2> QED BY <1>3, <2>1 DEF GrownTotal, H
<1>5. /\ h2 \in [base : {0, MetaPages, PagesInBlock}, blocks : Nat, regions : Nat,
                 table : {table}]
      /\ h2.base = h.base /\ h2.regions = h.regions /\ h2.blocks = total /\ h2.table = table
  <2>1. h \in [base : {0, MetaPages, PagesInBlock}, blocks : Nat, regions : Nat,
               table : {h.table}]
    BY <1>1 DEF HeaderOK
  <2>2. h2 = [h EXCEPT !.blocks = total, !.table = table]
    BY DEF GrownHeader
  <2> HIDE DEF total, table
  <2> QED BY <1>4, <2>1, <2>2
<1>6. /\ vec = [k \in 0 .. blocks - 1 |-> IF k < old THEN object.vec[k] ELSE H + (k - old)]
      /\ DOMAIN table = 0 .. total - 1
      /\ \A b \in 0 .. total - 1 :
           table[b] = IF \E k \in 0 .. blocks - 1 : W(k, b)
                      THEN GrownEntry(r, pages, CHOOSE k \in 0 .. blocks - 1 : W(k, b))
                      ELSE h.table[b]
  BY DEF GrownVec, GrownTable
<1>7. /\ DOMAIN o2 = DOMAIN o /\ o2 = [s \in DOMAIN o2 |-> o2[s]]
      /\ o2[r] = [pages |-> pages, vec |-> vec] /\ o2[r].pages = pages /\ o2[r].vec = vec
      /\ \A s \in DOMAIN o : s # r => o2[s] = o[s]
  <2> DEFINE after == [pages |-> pages, vec |-> vec]
  <2>1. after.pages = pages /\ after.vec = vec
    OBVIOUS
  <2>2. o2 = [o EXCEPT ![r] = after]
    BY DEF GrownObjects
  <2> HIDE DEF after
  <2>3. /\ DOMAIN o2 = DOMAIN o /\ o2 = [s \in DOMAIN o2 |-> o2[s]] /\ o2[r] = after
        /\ \A s \in DOMAIN o : s # r => o2[s] = o[s]
    BY <1>1, <2>2
  <2> QED BY <2>1, <2>3 DEF after
<1>8. /\ \A k, b : W(k, b) <=> k >= old - 1 /\ vec[k] = b
      /\ \A k : /\ GrownEntry(r, pages, k).region = r /\ GrownEntry(r, pages, k).rank = k
                /\ GrownEntry(r, pages, k).pages = block_page_count(k, blocks, pages)
  BY DEF Written, FirstWritten, GrownEntry
<1> HIDE DEF object, old, blocks, H, total, table, W
<1>9. ASSUME NEW k \in 0 .. blocks - 1
      PROVE  /\ vec[k] \in 0 .. total - 1
             /\ k < old => vec[k] = object.vec[k] /\ vec[k] < H
             /\ k >= old => vec[k] = H + (k - old) /\ vec[k] >= H
  <2>1. CASE k < old
    <3>1. vec[k] = object.vec[k] /\ k \in 0 .. old - 1
      BY <1>3, <1>6, <2>1
    <3>2. object.vec[k] \in 0 .. H - 1
      BY <1>2, <3>1
    <3> QED BY <1>3, <1>4, <2>1, <3>1, <3>2
  <2>2. CASE k >= old
    <3>1. vec[k] = H + (k - old)
      BY <1>3, <1>6, <2>2
    <3> QED BY <1>3, <1>4, <2>2, <3>1
  <2> QED BY <1>3, <2>1, <2>2
<1>10. \A k, l \in 0 .. blocks - 1 : vec[k] = vec[l] => k = l
  <2> SUFFICES ASSUME NEW k \in 0 .. blocks - 1, NEW l \in 0 .. blocks - 1, vec[k] = vec[l]
               PROVE  k = l
    OBVIOUS
  <2>1. CASE k < old /\ l < old
    <3>1. o[r].vec[k] = o[r].vec[l] /\ k \in Ranks(o[r]) /\ l \in Ranks(o[r])
      BY <1>3, <1>9, <2>1 DEF object, old, Ranks
    <3> QED BY <3>1, BlocksDistinct
  <2>2. CASE ~(k < old) \/ ~(l < old)
    BY <1>3, <1>4, <1>9, <2>2
  <2> QED BY <2>1, <2>2
<1>11. HeaderOK(h2)
  BY <1>4, <1>5, <1>6 DEF HeaderOK
<1>12. ASSUME NEW s \in DOMAIN o2 PROVE s \in Nat /\ s < h2.regions /\ ObjectOK(o2[s], h2)
  <2>1. s \in Nat /\ s < h2.regions
    BY <1>1, <1>5, <1>7
  <2>2. CASE s = r
    <3>1. vec \in [0 .. blocks - 1 -> 0 .. h2.blocks - 1]
      BY <1>5, <1>6, <1>9
    <3>2. Ranks(o2[r]) = 0 .. blocks - 1
      BY <1>7 DEF Ranks, blocks
    <3>3. [pages |-> pages, vec |-> vec]
            \in [pages : Nat, vec : [0 .. blocks - 1 -> 0 .. h2.blocks - 1]]
      BY <3>1
    <3>4. ObjectOK(o2[r], h2)
      BY <1>7, <3>2, <3>3 DEF ObjectOK
    <3> QED BY <2>1, <2>2, <3>4
  <2>3. CASE s # r
    <3>1. o2[s] = o[s] /\ ObjectOK(o[s], h)
      BY <1>1, <1>7, <2>3
    <3>2. 0 .. H - 1 \subseteq 0 .. h2.blocks - 1
      BY <1>4, <1>5
    <3>3. o[s].vec \in [Ranks(o[s]) -> 0 .. h2.blocks - 1]
      BY <3>1, <3>2 DEF ObjectOK, H
    <3> QED BY <2>1, <3>1, <3>3 DEF ObjectOK
  <2> QED BY <2>2, <2>3
<1>13. ASSUME NEW s \in DOMAIN o
       PROVE  /\ DOMAIN o[s].vec = Ranks(o[s])
              /\ \A l \in Ranks(o[s]) : o[s].vec[l] \in 0 .. H - 1
  BY <1>1 DEF ObjectOK, H
<1>14. ASSUME NEW b \in 0 .. total - 1, NEW k \in 0 .. blocks - 1, W(k, b)
       PROVE  EntryAgrees(h2, o2, b)
  <2>1. k >= old - 1 /\ vec[k] = b /\ \A l \in 0 .. blocks - 1 : W(l, b) => l = k
    BY <1>8, <1>10, <1>14
  <2>2. h2.table[b] = GrownEntry(r, pages, k)
    <3>1. (CHOOSE l \in 0 .. blocks - 1 : W(l, b)) = k
      BY <1>14, <2>1
    <3> QED BY <1>5, <1>6, <1>14, <3>1
  <2>3. /\ h2.table[b].region = r /\ h2.table[b].rank = k
        /\ h2.table[b].pages = block_page_count(k, blocks, pages)
    BY <1>8, <2>2
  <2>4. ASSUME NEW s \in DOMAIN o2, NEW l \in DOMAIN o2[s].vec
        PROVE  o2[s].vec[l] = b <=> s = r /\ l = k
    <3>1. CASE s = r
      BY <1>6, <1>7, <1>10, <2>1, <3>1, ZenonT(40)
    <3>2. CASE s # r
      <4>1. s \in DOMAIN o /\ o2[s] = o[s] /\ l \in Ranks(o[s])
        BY <1>7, <1>13, <3>2
      <4>2. o[s].vec[l] \in 0 .. H - 1
        BY <1>13, <4>1
      <4>3. o[s].vec[l] # b
        <5>1. CASE k < old
          <6>1. b = o[r].vec[k] /\ k \in Ranks(o[r])
            BY <1>3, <1>9, <2>1, <5>1 DEF object, Ranks, old
          <6> QED BY <3>2, <4>1, <6>1, BlocksDistinct
        <5>2. CASE ~(k < old)
          BY <1>3, <1>4, <1>9, <2>1, <4>2, <5>2
        <5> QED BY <5>1, <5>2
      <4> QED BY <3>2, <4>1, <4>3
    <3> QED BY <3>1, <3>2
  <2>5. r \in DOMAIN o2 /\ k \in DOMAIN o2[r].vec /\ o2[r].pages = pages
    BY <1>6, <1>7
  <2> QED BY <2>3, <2>4, <2>5 DEF EntryAgrees, blocks
<1>15. ASSUME NEW b \in 0 .. total - 1, \A k \in 0 .. blocks - 1 : ~W(k, b)
       PROVE  EntryAgrees(h2, o2, b)
  <2> DEFINE e == h.table[b]
  <2>1. b < H
    <3> SUFFICES ASSUME b >= H PROVE FALSE
      BY <1>4
    <3> DEFINE k == b - H + old
    <3>1. k \in 0 .. blocks - 1 /\ k >= old /\ H + (k - old) = b
      BY <1>3, <1>4
    <3>2. W(k, b)
      BY <1>3, <1>8, <1>9, <3>1
    <3> QED BY <1>15, <3>1, <3>2
  <2>2. h2.table[b] = e
    BY <1>5, <1>6, <1>15
  <2>3. EntryAgrees(h, o, b) /\ b \in 0 .. H - 1
    BY <1>1, <1>4, <2>1 DEF H
  <2> HIDE DEF e
  <2>4. /\ e.region \in DOMAIN o /\ e.rank \in Ranks(o[e.region])
        /\ \A s \in DOMAIN o : \A l \in Ranks(o[s]) :
             o[s].vec[l] = b <=> s = e.region /\ l = e.rank
        /\ e.pages = block_page_count(e.rank, BlockCount(o[e.region].pages), o[e.region].pages)
    BY <1>13, <2>3 DEF EntryAgrees, e
  <2>5. e.region = r => e.rank \in 0 .. old - 2
    <3> SUFFICES ASSUME e.region = r PROVE e.rank \in 0 .. old - 2
      OBVIOUS
    <3>1. e.rank \in 0 .. old - 1 /\ o[r].vec[e.rank] = b
      BY <2>4 DEF object, Ranks, old
    <3>2. e.rank \in 0 .. blocks - 1 /\ vec[e.rank] = b
      BY <1>3, <1>9, <3>1 DEF object
    <3>3. ~(e.rank >= old - 1)
      BY <1>8, <1>15, <3>2
    <3> QED BY <1>3, <3>1, <3>3
  <2>6. ASSUME NEW s \in DOMAIN o2, NEW l \in DOMAIN o2[s].vec
        PROVE  o2[s].vec[l] = b <=> s = e.region /\ l = e.rank
    <3>1. CASE s = r
      <4>1. l \in 0 .. blocks - 1 /\ o2[s].vec[l] = vec[l]
        BY <1>6, <1>7, <3>1
      <4>2. CASE l < old
        <5>1. l \in Ranks(o[r]) /\ vec[l] = o[r].vec[l]
          BY <1>3, <1>9, <4>1, <4>2 DEF object, Ranks, old
        <5> QED BY <2>4, <3>1, <4>1, <5>1
      <4>3. CASE ~(l < old)
        <5>1. vec[l] # b
          BY <1>3, <1>4, <1>9, <2>1, <4>1, <4>3
        <5>2. ~(s = e.region /\ l = e.rank)
          BY <1>3, <2>5, <3>1, <4>3
        <5> QED BY <4>1, <5>1, <5>2
      <4> QED BY <4>2, <4>3
    <3>2. CASE s # r
      <4>1. s \in DOMAIN o /\ o2[s] = o[s] /\ l \in Ranks(o[s])
        BY <1>7, <1>13, <3>2
      <4> QED BY <2>4, <4>1
    <3> QED BY <3>1, <3>2
  <2>7. CASE e.region = r
    <3>1. /\ r \in DOMAIN o2 /\ e.rank \in DOMAIN o2[r].vec /\ o2[r].pages = pages
      BY <1>3, <1>6, <1>7, <2>5, <2>7
    <3>2. e.pages = block_page_count(e.rank, old, object.pages)
      BY <2>4, <2>7 DEF object, old
    <3>3. e.pages = block_page_count(e.rank, blocks, pages)
      BY <1>3, <2>5, <2>7, <3>2 DEF block_page_count
    <3> QED BY <2>2, <2>6, <2>7, <3>1, <3>3 DEF EntryAgrees, blocks
  <2>8. CASE e.region # r
    <3>1. /\ e.region \in DOMAIN o2 /\ e.rank \in DOMAIN o2[e.region].vec
          /\ o2[e.region] = o[e.region]
      BY <1>7, <1>13, <2>4, <2>8
    <3> QED BY <2>2, <2>4, <2>6, <3>1 DEF EntryAgrees
  <2> QED BY <2>7, <2>8
<1>16. \A b \in 0 .. h2.blocks - 1 : EntryAgrees(h2, o2, b)
  BY <1>5, <1>14, <1>15
<1>17. ObjectsOK(h2, o2)
  BY <1>7, <1>11, <1>12, <1>16 DEF ObjectsOK
<1> QED BY <1>5, <1>17 DEF total, object

\* The memory of a region that has grown: the pages it had, and zeros behind them.
LEMMA GrownMemory ==
    ASSUME NEW mem, NEW h, NEW o, MemoryOK(mem), ObjectsOK(h, o), RegionsOK(mem, h, o),
           NEW r \in DOMAIN o, NEW pages \in Nat, o[r].pages <= pages,
           NEW vec, vec = GrownVec(h, o[r], pages),
           NEW need, need = h.base + GrownTotal(h, o[r], pages) * PagesInBlock,
           need <= MaxStablePages,
           NEW object, object = [pages |-> pages, vec |-> vec],
           NEW grown, grown = Grown(mem.stable, need)
    PROVE  /\ MemoryOK([size |-> need, version |-> mem.version, stable |-> grown])
           /\ \A s \in DOMAIN o : \A p \in 0 .. BlockCount(o[s].pages) * PagesInBlock - 1 :
                grown[Absolute(o[s], h.base, p)] = mem.stable[Absolute(o[s], h.base, p)]
           /\ \A p \in 0 .. BlockCount(pages) * PagesInBlock - 1 :
                grown[Absolute(object, h.base, p)]
                  = IF p < BlockCount(o[r].pages) * PagesInBlock
                    THEN mem.stable[Absolute(o[r], h.base, p)] ELSE Zero
<1> DEFINE old == BlockCount(o[r].pages)
           blocks == BlockCount(pages)
           H == h.blocks
           total == GrownTotal(h, o[r], pages)
<1>1. /\ o[r].pages \in Nat /\ old \in Nat /\ blocks \in Nat /\ old <= blocks
      /\ DOMAIN o[r].vec = Ranks(o[r])
  BY PagesInBlocks, BlockCountIs, BlockCountGrows
<1>2. H \in Nat /\ h.base \in Nat /\ PagesInBlock \in Nat /\ PagesInBlock > 0
  BY Constants DEF ObjectsOK, HeaderOK, RegionsOK
<1>3. total = H + (blocks - old) /\ total \in Nat /\ H <= total
  BY <1>1, <1>2 DEF GrownTotal
<1>4. mem.size = h.base + H * PagesInBlock /\ mem.size \in Nat
  BY DEF RegionsOK, MemoryOK
<1>5. need = h.base + total * PagesInBlock
  OBVIOUS
<1>6. vec = [k \in 0 .. blocks - 1 |-> IF k < old THEN o[r].vec[k] ELSE H + (k - old)]
  BY DEF GrownVec
<1> HIDE DEF old, blocks, H, total
<1>7. /\ H * PagesInBlock \in Nat /\ total * PagesInBlock \in Nat
      /\ H * PagesInBlock <= total * PagesInBlock
      /\ old * PagesInBlock \in Nat /\ blocks * PagesInBlock \in Nat
      /\ old * PagesInBlock <= blocks * PagesInBlock
  BY <1>1, <1>2, <1>3
<1>8. need \in Nat /\ mem.size <= need
  BY <1>2, <1>4, <1>5, <1>7
<1>9. PICK n \in Nat : n >= mem.size /\ DOMAIN mem.stable = 0 .. n - 1
                       /\ (mem.size = 0 => n = 0)
  BY DEF MemoryOK
<1>10. PICK m \in Nat :
         /\ m >= n /\ m >= need /\ m \in {n, need}
         /\ DOMAIN grown = 0 .. m - 1
         /\ \A p \in 0 .. m - 1 : grown[p] = IF p \in 0 .. n - 1 THEN mem.stable[p] ELSE Zero
  <2> DEFINE before == mem.stable
  <2>1. DOMAIN before = 0 .. n - 1 /\ grown = Grown(before, need)
    BY <1>9
  <2> HIDE DEF before
  <2>2. \E m \in Nat :
          /\ m >= n /\ m >= need /\ m \in {n, need}
          /\ DOMAIN Grown(before, need) = 0 .. m - 1
          /\ \A p \in 0 .. m - 1 : Grown(before, need)[p] = IF p \in 0 .. n - 1 THEN before[p] ELSE Zero
    BY ONLY <1>8, <2>1, n \in Nat, GrownIs
  <2> QED BY <2>1, <2>2 DEF before
<1>11. \A p \in 0 .. m - 1 : p >= mem.size => grown[p] = Zero
  BY <1>9, <1>10 DEF MemoryOK
<1>12. MemoryOK([size |-> need, version |-> mem.version, stable |-> grown])
  <2> DEFINE new == [size |-> need, version |-> mem.version, stable |-> grown]
  <2>1. new.size = need /\ new.stable = grown
    OBVIOUS
  <2>2. \A p \in 0 .. m - 1 : p >= need => grown[p] = Zero
    BY <1>4, <1>8, <1>11
  <2>3. need = 0 => m = 0
    BY <1>4, <1>8, <1>9, <1>10
  <2>4. need \in 0 .. MaxStablePages
    BY <1>8, Constants
  <2> HIDE DEF new
  <2>5. MemoryOK(new)
    BY <1>10, <2>1, <2>2, <2>3, <2>4 DEF MemoryOK
  <2> QED BY <2>5 DEF new
<1>13. ASSUME NEW s \in DOMAIN o, NEW p \in 0 .. BlockCount(o[s].pages) * PagesInBlock - 1
       PROVE  grown[Absolute(o[s], h.base, p)] = mem.stable[Absolute(o[s], h.base, p)]
  <2> DEFINE a == Absolute(o[s], h.base, p)
  <2>1. a \in 0 .. n - 1
    BY <1>9, PagePhysical
  <2> HIDE DEF a
  <2>2. a \in 0 .. m - 1
    BY <1>10, <2>1
  <2>3. grown[a] = mem.stable[a]
    BY <1>10, <2>1, <2>2
  <2> QED BY <2>3 DEF a
<1>14. ASSUME NEW p \in 0 .. blocks * PagesInBlock - 1
       PROVE  grown[Absolute(object, h.base, p)]
                = IF p < old * PagesInBlock THEN mem.stable[Absolute(o[r], h.base, p)] ELSE Zero
  <2> DEFINE k == p \div PagesInBlock
             j == p % PagesInBlock
             a == Absolute(object, h.base, p)
  <2>1. p \in Nat /\ p = k * PagesInBlock + j /\ k \in Nat /\ j \in 0 .. PagesInBlock - 1
    BY <1>7, Division
  <2>2. k \in 0 .. blocks - 1
    <3>1. p \in Nat /\ p < BlockCount(pages) * PagesInBlock
      BY <1>7 DEF blocks
    <3> QED BY <3>1, RankOfPage DEF blocks
  <2>3. a = h.base + vec[k] * PagesInBlock + j
    BY DEF Absolute
  <2>4. Absolute(o[r], h.base, p) = h.base + o[r].vec[k] * PagesInBlock + j
    BY DEF Absolute
  <2> HIDE DEF k, j, a
  <2>5. CASE p < old * PagesInBlock
    <3>1. k < old
      <4> SUFFICES ASSUME old <= k PROVE FALSE
        BY <1>1, <2>1
      <4>1. old * PagesInBlock <= k * PagesInBlock /\ k * PagesInBlock \in Nat
        BY <1>1, <1>2, <2>1
      <4> QED BY <1>7, <2>1, <2>5, <4>1
    <3>2. a = Absolute(o[r], h.base, p)
      BY <1>6, <2>2, <2>3, <2>4, <3>1
    <3>3. p \in 0 .. BlockCount(o[r].pages) * PagesInBlock - 1
      BY <1>7, <2>1, <2>5 DEF old
    <3> QED BY <1>13, <2>5, <3>2, <3>3 DEF a
  <2>6. CASE ~(p < old * PagesInBlock)
    <3>1. old <= k
      <4> SUFFICES ASSUME k < old PROVE FALSE
        BY <1>1, <2>1
      <4>1. k * PagesInBlock + PagesInBlock <= old * PagesInBlock /\ k * PagesInBlock \in Nat
        BY <1>1, <1>2, <2>1, BlocksApart
      <4> QED BY <1>2, <1>7, <2>1, <2>6, <4>1
    <3> DEFINE b == H + (k - old)
    <3>2. vec[k] = b /\ b \in Nat /\ H <= b /\ b < total
      BY <1>1, <1>2, <1>3, <1>6, <2>2, <3>1
    <3> HIDE DEF b
    <3>3. /\ H * PagesInBlock <= b * PagesInBlock /\ b * PagesInBlock \in Nat
          /\ b * PagesInBlock + PagesInBlock <= total * PagesInBlock
      <4>1. b * PagesInBlock + PagesInBlock <= total * PagesInBlock
        BY <1>3, <3>2, BlocksApart
      <4> QED BY <1>2, <3>2, <4>1
    <3>4. a = h.base + b * PagesInBlock + j
      BY <2>3, <3>2
    <3>5. a \in 0 .. m - 1 /\ a >= mem.size
      <4> DEFINE x == b * PagesInBlock
                 y == H * PagesInBlock
                 z == total * PagesInBlock
      <4>1. /\ y <= x /\ x \in Nat /\ y \in Nat /\ z \in Nat /\ x + PagesInBlock <= z
            /\ a = h.base + x + j /\ need = h.base + z /\ mem.size = h.base + y
        BY <1>4, <1>5, <1>7, <3>3, <3>4
      <4> HIDE DEF x, y, z
      <4>2. m \in Nat /\ m >= need /\ j \in Nat /\ j < PagesInBlock
        BY <1>2, <1>10, <2>1
      <4>3. a \in Nat /\ a < need /\ a >= mem.size /\ need \in Nat
        BY ONLY <1>2, <4>1, <4>2
      <4> QED BY ONLY <4>2, <4>3
    <3> QED BY <1>11, <2>6, <3>5 DEF a
  <2> QED BY <2>5, <2>6
<1> QED BY <1>12, <1>13, <1>14 DEF old, blocks

\* A region grows by zero pages at its end, and nothing else changes.
LEMMA region_growPreserves ==
    ASSUME IInv, NEW r \in RegionIds, NEW n \in 0 .. MaxStablePages, region_grow(r, n)
    PROVE  /\ IInv' /\ r \in DOMAIN obj /\ DOMAIN obj' = DOMAIN obj
           /\ obj[r].pages \in Nat
           /\ \A s : s # r => Content(s)' = Content(s)
           /\ Content(r) = [p \in 1 .. obj[r].pages |-> Content(r)[p]]
           /\ Content(r)' = [p \in 1 .. obj[r].pages + n |-> Content(r)'[p]]
           /\ \A p \in 1 .. obj[r].pages : Content(r)'[p] = Content(r)[p]
           /\ RawMemoryFits => \A p \in 1 .. obj[r].pages + n :
                                 p > obj[r].pages => Content(r)'[p] = Zero
<1> DEFINE object == obj[r]
           pages == object.pages + n
           old == BlockCount(object.pages)
           blocks == BlockCount(pages)
           total == header.blocks + (blocks - old)
           need == base + total * PagesInBlock
           newId(k) == (header.blocks + (k - old)) % U16
           entry(k) == [region |-> r, rank |-> k, pages |-> block_page_count(k, blocks, pages)]
           vec == [k \in 0 .. blocks - 1 |-> IF k < old THEN object.vec[k] ELSE newId(k)]
           W(k, b) == k >= FirstWritten(old) /\ vec[k] = b
           set == {b \in 0 .. total - 1 : \E k \in 0 .. blocks - 1 : W(k, b)}
           table == [b \in 0 .. total - 1 |->
                       IF b \in set THEN entry(CHOOSE k \in 0 .. blocks - 1 : W(k, b))
                       ELSE header.table[b]]
<1>1. /\ running = TRUE /\ r \in DOMAIN obj
      /\ size < need => CanGrow(size, need - size)
      /\ size' = (IF size < need THEN need ELSE size)
      /\ stable' = Grown(stable, size')
      /\ header' = [header EXCEPT !.blocks = total, !.table = table]
      /\ obj' = [obj EXCEPT ![r] = [pages |-> pages, vec |-> vec]]
      /\ version' = version /\ base' = base /\ running' = TRUE
  BY DEF region_grow, IInv
<1>2. /\ Memory = [size |-> size, version |-> version, stable |-> stable]
      /\ version = "regions" /\ base = header.base /\ header.base \in Nat
      /\ MemoryOK(Memory) /\ ObjectsOK(header, obj) /\ RegionsOK(Memory, header, obj)
  BY <1>1, RegionsRun
<1>3. /\ Memory.size = size /\ Memory.version = version /\ Memory.stable = stable
      /\ Memory' = [size |-> size', version |-> version, stable |-> stable']
  BY <1>1, <1>2 DEF Memory
<1>4. /\ object.pages \in Nat /\ old \in Nat /\ pages \in Nat /\ blocks \in Nat
      /\ object.pages <= pages /\ old <= blocks /\ header.blocks \in Nat
      /\ object.pages <= old * PagesInBlock
  <2>1. object.pages \in Nat /\ old \in Nat /\ object.pages <= old * PagesInBlock
    BY <1>1, <1>2, PagesInBlocks
  <2>2. pages \in Nat /\ object.pages <= pages /\ n \in Nat
    BY <2>1, Constants
  <2> HIDE DEF pages
  <2>3. header.blocks \in Nat
    BY <1>2 DEF ObjectsOK, HeaderOK
  <2> QED BY <2>1, <2>2, <2>3, BlockCountIs, BlockCountGrows
<1>5. total = GrownTotal(header, object, pages) /\ total \in Nat /\ header.blocks <= total
  BY <1>4 DEF GrownTotal
<1> HIDE DEF blocks, old, total, pages, object
<1>6. need \in Nat /\ size' = need /\ need <= MaxStablePages /\ size <= need
  <2> DEFINE x == header.blocks * PagesInBlock
             y == total * PagesInBlock
  <2>1. size = header.base + x /\ need = header.base + y /\ size \in 0 .. MaxStablePages
    BY <1>2, <1>3 DEF RegionsOK, MemoryOK
  <2>2. x \in Nat /\ y \in Nat /\ x <= y
    BY <1>4, <1>5, Constants
  <2> HIDE DEF x, y, need
  <2>3. /\ size' = (IF size < need THEN need ELSE size)
        /\ size < need => size + (need - size) <= MaxStablePages
        /\ MaxStablePages \in Nat /\ header.base \in Nat
    BY <1>1, <1>2, Constants DEF CanGrow
  <2> QED BY ONLY <2>1, <2>2, <2>3
<1>7. total < U16
  <2> SUFFICES ASSUME U16 <= total PROVE FALSE
    BY <1>5, Constants
  <2> DEFINE y == total * PagesInBlock
             z == U16 * PagesInBlock
  <2>1. z <= y /\ y \in Nat /\ z \in Nat
    BY <1>5, Constants
  <2>2. need = base + y /\ MaxStablePages < z
    BY Constants
  <2> HIDE DEF y, z, need
  <2> QED BY <1>2, <1>6, <2>1, <2>2, Constants
<1>8. vec = GrownVec(header, object, pages)
  <2>1. ASSUME NEW k \in 0 .. blocks - 1, ~(k < old)
        PROVE  newId(k) = header.blocks + (k - old)
    <3> DEFINE b == header.blocks + (k - old)
    <3>1. b \in Nat /\ b < total
      BY <1>4, <2>1 DEF total
    <3>2. b < U16 /\ U16 \in Nat
      BY <1>5, <1>7, <3>1, Constants
    <3> HIDE DEF b
    <3>3. b % U16 = b
      BY <3>1, <3>2
    <3> QED BY <3>3 DEF b
  <2> HIDE DEF newId
  <2>2. vec = [k \in 0 .. blocks - 1 |->
                 IF k < old THEN object.vec[k] ELSE header.blocks + (k - old)]
    BY <2>1
  <2> HIDE DEF vec
  <2> QED BY <2>2 DEF GrownVec, old, blocks
<1> HIDE DEF vec, need
<1>9. header' = GrownHeader(header, object, r, pages, vec)
  <2>1. \A k, b : W(k, b) <=> Written(object, vec, k, b)
    BY DEF Written, old
  <2>2. \A k : entry(k) = GrownEntry(r, pages, k)
    BY DEF GrownEntry, blocks
  <2> HIDE DEF W, entry
  <2>3. \A b \in 0 .. total - 1 :
           /\ (b \in set <=> \E k \in 0 .. blocks - 1 : Written(object, vec, k, b))
           /\ (CHOOSE k \in 0 .. blocks - 1 : W(k, b))
                = (CHOOSE k \in 0 .. blocks - 1 : Written(object, vec, k, b))
    BY <2>1
  <2> HIDE DEF set
  <2>4. table = [b \in 0 .. total - 1 |->
                   IF \E k \in 0 .. blocks - 1 : Written(object, vec, k, b)
                   THEN GrownEntry(r, pages, CHOOSE k \in 0 .. blocks - 1 :
                                               Written(object, vec, k, b))
                   ELSE header.table[b]]
    <3>1. \A b \in 0 .. total - 1 :
             (IF b \in set THEN entry(CHOOSE k \in 0 .. blocks - 1 : W(k, b))
              ELSE header.table[b])
             = (IF \E k \in 0 .. blocks - 1 : Written(object, vec, k, b)
                THEN GrownEntry(r, pages, CHOOSE k \in 0 .. blocks - 1 :
                                            Written(object, vec, k, b))
                ELSE header.table[b])
      <4> SUFFICES ASSUME NEW b \in 0 .. total - 1
                   PROVE  (IF b \in set THEN entry(CHOOSE k \in 0 .. blocks - 1 : W(k, b))
                           ELSE header.table[b])
                          = (IF \E k \in 0 .. blocks - 1 : Written(object, vec, k, b)
                             THEN GrownEntry(r, pages, CHOOSE k \in 0 .. blocks - 1 :
                                                         Written(object, vec, k, b))
                             ELSE header.table[b])
        OBVIOUS
      <4> DEFINE one == CHOOSE k \in 0 .. blocks - 1 : W(k, b)
                 other == CHOOSE k \in 0 .. blocks - 1 : Written(object, vec, k, b)
      <4>1. entry(one) = GrownEntry(r, pages, other)
        BY <2>2, <2>3
      <4> HIDE DEF one, other
      <4>2. (IF b \in set THEN entry(one) ELSE header.table[b])
            = (IF \E k \in 0 .. blocks - 1 : Written(object, vec, k, b)
               THEN GrownEntry(r, pages, other) ELSE header.table[b])
        BY <2>3, <4>1
      <4> QED BY <4>2 DEF one, other
    <3> QED BY <3>1
  <2> HIDE DEF table
  <2>5. table = GrownTable(header, object, r, pages, vec)
    BY <1>5, <2>4 DEF GrownTable, blocks
  <2> QED BY <1>1, <1>5, <2>5 DEF GrownHeader
<1> HIDE DEF table, set, W, entry, newId
<1>10. /\ ObjectsOK(header', obj') /\ header'.base = header.base
       /\ header'.regions = header.regions /\ header'.blocks = total
  <2> DEFINE h2 == header'
             o2 == obj'
  <2>1. h2 = GrownHeader(header, obj[r], r, pages, vec) /\ vec = GrownVec(header, obj[r], pages)
        /\ o2 = GrownObjects(obj, r, pages, vec) /\ obj[r].pages <= pages
    BY <1>1, <1>4, <1>8, <1>9 DEF object, GrownObjects
  <2> HIDE DEF h2, o2
  <2>2. /\ ObjectsOK(h2, o2) /\ h2.base = header.base /\ h2.regions = header.regions
        /\ h2.blocks = GrownTotal(header, obj[r], pages)
    BY ONLY <1>1, <1>2, <1>4, <2>1, GrowAgrees
  <2> QED BY <1>5, <2>2 DEF h2, o2, object
<1> DEFINE At(s, p) == Absolute(obj[s], header.base, p)
           grown == [pages |-> pages, vec |-> vec]
           New(p) == Absolute(grown, header.base, p)
<1>11. /\ MemoryOK(Memory')
       /\ \A s \in DOMAIN obj : \A p \in 0 .. BlockCount(obj[s].pages) * PagesInBlock - 1 :
            stable'[At(s, p)] = stable[At(s, p)]
       /\ \A p \in 0 .. blocks * PagesInBlock - 1 :
            stable'[New(p)] = IF p < old * PagesInBlock THEN stable[At(r, p)] ELSE Zero
  <2> DEFINE mem == Memory
             after == stable'
  <2>1. /\ need = header.base + GrownTotal(header, obj[r], pages) * PagesInBlock
        /\ vec = GrownVec(header, obj[r], pages) /\ obj[r].pages <= pages
    BY <1>2, <1>4, <1>5, <1>8 DEF need, object
  <2>2. after = Grown(mem.stable, need) /\ mem.stable = stable /\ mem.version = version
        /\ Memory' = [size |-> need, version |-> mem.version, stable |-> after]
    BY <1>1, <1>3, <1>6
  <2>3. MemoryOK(mem) /\ RegionsOK(mem, header, obj)
    BY <1>2
  <2> HIDE DEF mem, after, grown
  <2>4. grown = [pages |-> pages, vec |-> vec]
    BY DEF grown
  <2>5. /\ MemoryOK([size |-> need, version |-> mem.version, stable |-> after])
        /\ \A s \in DOMAIN obj : \A p \in 0 .. BlockCount(obj[s].pages) * PagesInBlock - 1 :
             after[Absolute(obj[s], header.base, p)] = mem.stable[Absolute(obj[s], header.base, p)]
        /\ \A p \in 0 .. BlockCount(pages) * PagesInBlock - 1 :
             after[Absolute(grown, header.base, p)]
               = IF p < BlockCount(obj[r].pages) * PagesInBlock
                 THEN mem.stable[Absolute(obj[r], header.base, p)] ELSE Zero
    BY <1>1, <1>2, <1>4, <1>6, <2>1, <2>2, <2>3, <2>4, GrownMemory
  <2> QED BY <2>2, <2>5 DEF after, blocks, old, object
<1>12. /\ obj'[r] = grown /\ DOMAIN obj' = DOMAIN obj
       /\ \A s \in DOMAIN obj : s # r => obj'[s] = obj[s]
  BY <1>1, <1>2 DEF ObjectsOK
<1>13. grown.pages = pages
  OBVIOUS
<1> HIDE DEF grown
<1>14. \A s \in DOMAIN obj : /\ obj[s].pages \in Nat
                             /\ 0 .. obj[s].pages - 1
                                  \subseteq 0 .. BlockCount(obj[s].pages) * PagesInBlock - 1
                             /\ obj[s].pages .. BlockCount(obj[s].pages) * PagesInBlock - 1
                                  \subseteq 0 .. BlockCount(obj[s].pages) * PagesInBlock - 1
  <2> SUFFICES ASSUME NEW s \in DOMAIN obj
               PROVE  /\ obj[s].pages \in Nat
                      /\ 0 .. obj[s].pages - 1
                           \subseteq 0 .. BlockCount(obj[s].pages) * PagesInBlock - 1
                      /\ obj[s].pages .. BlockCount(obj[s].pages) * PagesInBlock - 1
                           \subseteq 0 .. BlockCount(obj[s].pages) * PagesInBlock - 1
    OBVIOUS
  <2>1. /\ obj[s].pages \in Nat /\ BlockCount(obj[s].pages) * PagesInBlock \in Nat
        /\ obj[s].pages <= BlockCount(obj[s].pages) * PagesInBlock
    BY <1>2, PagesInBlocks
  <2> QED BY <2>1
<1>15. old * PagesInBlock \in Nat /\ blocks * PagesInBlock \in Nat /\ pages <= blocks * PagesInBlock
       /\ old * PagesInBlock <= blocks * PagesInBlock
  <2>1. pages <= BlockCount(pages) * PagesInBlock
    BY <1>4, BlockCountIs
  <2> QED BY <1>4, <2>1, Constants DEF blocks
<1>16. SpareIsZero(Memory, header, obj) =>
         \A p \in 0 .. blocks * PagesInBlock - 1 : p >= object.pages => stable'[New(p)] = Zero
  <2> SUFFICES ASSUME SpareIsZero(Memory, header, obj),
                      NEW p \in 0 .. blocks * PagesInBlock - 1, p >= object.pages
               PROVE  stable'[New(p)] = Zero
    OBVIOUS
  <2>1. CASE p < old * PagesInBlock
    <3>1. p \in object.pages .. old * PagesInBlock - 1
      BY <1>4, <1>15, <2>1
    <3>2. stable[At(r, p)] = Zero
      BY <1>1, <1>3, <3>1 DEF SpareIsZero, old, object
    <3> QED BY <1>11, <2>1, <3>2
  <2>2. CASE ~(p < old * PagesInBlock)
    BY <1>11, <2>2
  <2> QED BY <2>1, <2>2
<1>17. SpareIsZero(Memory, header, obj) => SpareIsZero(Memory', header', obj')
  <2> DEFINE new == Memory'
             h2 == header'
             o2 == obj'
  <2>1. new.stable = stable' /\ h2.base = header.base /\ DOMAIN o2 = DOMAIN obj /\ o2[r] = grown
        /\ \A s \in DOMAIN obj : s # r => o2[s] = obj[s]
    BY <1>3, <1>10, <1>12
  <2> HIDE DEF new, h2, o2
  <2>2. ASSUME SpareIsZero(Memory, header, obj), NEW s \in DOMAIN o2,
               NEW p \in o2[s].pages .. BlockCount(o2[s].pages) * PagesInBlock - 1
        PROVE  new.stable[Absolute(o2[s], h2.base, p)] = Zero
    <3>1. CASE s = r
      <4>1. p \in pages .. blocks * PagesInBlock - 1
        BY <1>13, <2>1, <3>1 DEF blocks
      <4>2. p \in 0 .. blocks * PagesInBlock - 1 /\ p >= object.pages
        BY <1>4, <1>15, <4>1
      <4> QED BY <1>16, <2>1, <2>2, <3>1, <4>2
    <3>2. CASE s # r
      <4>1. s \in DOMAIN obj /\ p \in obj[s].pages .. BlockCount(obj[s].pages) * PagesInBlock - 1
            /\ o2[s] = obj[s]
        BY <2>1, <3>2
      <4>2. stable[At(s, p)] = Zero
        BY <1>3, <2>2, <4>1 DEF SpareIsZero
      <4>3. p \in 0 .. BlockCount(obj[s].pages) * PagesInBlock - 1
        BY <1>14, <4>1
      <4> QED BY <1>11, <2>1, <4>1, <4>2, <4>3
    <3> QED BY <3>1, <3>2
  <2>3. SpareIsZero(Memory, header, obj) => SpareIsZero(new, h2, o2)
    BY <2>2 DEF SpareIsZero
  <2> QED BY <2>3 DEF new, h2, o2
<1>18. RegionsOK(Memory', header', obj')
  <2> DEFINE new == Memory'
             h2 == header'
             o2 == obj'
  <2>1. /\ new.version = version /\ new.size = need /\ h2.base = header.base
        /\ h2.blocks = total /\ h2.regions = header.regions /\ DOMAIN o2 = DOMAIN obj
        /\ SpareIsZero(Memory, header, obj) => SpareIsZero(new, h2, o2)
    BY <1>3, <1>6, <1>10, <1>12, <1>17
  <2> HIDE DEF new, h2, o2
  <2>2. RegionsOK(new, h2, o2)
    BY <1>2, <2>1 DEF RegionsOK, need
  <2> QED BY <2>2 DEF new, h2, o2
<1>19. IInv'
  BY <1>1, <1>2, <1>10, <1>11, <1>18 DEF IInv, LayoutOK
<1>20. ASSUME NEW s, s # r PROVE Content(s)' = Content(s)
  <2> DEFINE new == Memory'
             h2 == header'
             o2 == obj'
  <2>1. new.stable = stable' /\ new.version = "regions" /\ h2.base = header.base
        /\ DOMAIN o2 = DOMAIN obj /\ (s \in DOMAIN obj => o2[s] = obj[s])
    BY <1>2, <1>3, <1>10, <1>12, <1>20
  <2>2. Content(s)' = ContentIn(new, h2, o2, s)
    BY NextContentIsIn
  <2>3. Content(s) = ContentIn(Memory, header, obj, s) /\ Memory.version = "regions"
    BY <1>2, <1>3, ContentIsIn
  <2> HIDE DEF new, h2, o2, At
  <2>4. CASE s \in DOMAIN obj
    <3>1. ContentIn(new, h2, o2, s) = [p \in 1 .. obj[s].pages |-> stable'[At(s, p - 1)]]
      BY <2>1, <2>4 DEF ContentIn, At
    <3>2. ContentIn(Memory, header, obj, s) = [p \in 1 .. obj[s].pages |-> stable[At(s, p - 1)]]
      BY <1>3, <2>3, <2>4 DEF ContentIn, At
    <3>3. ASSUME NEW p \in 1 .. obj[s].pages
          PROVE  stable'[At(s, p - 1)] = stable[At(s, p - 1)]
      <4>1. p - 1 \in 0 .. obj[s].pages - 1
        BY <1>14, <2>4
      <4> QED BY <1>11, <1>14, <2>4, <4>1
    <3> QED BY <2>2, <2>3, <3>1, <3>2, <3>3
  <2>5. CASE s \notin DOMAIN obj
    BY <2>1, <2>2, <2>3, <2>5 DEF ContentIn
  <2> QED BY <2>4, <2>5
<1>21. Content(r) = [p \in 1 .. object.pages |-> stable[At(r, p - 1)]]
  <2>1. ContentIn(Memory, header, obj, r) = [p \in 1 .. object.pages |-> stable[At(r, p - 1)]]
    BY <1>1, <1>2, <1>3 DEF ContentIn, object
  <2> QED BY <2>1, ContentIsIn
<1>22. Content(r)' = [p \in 1 .. pages |-> stable'[New(p - 1)]]
  <2> DEFINE new == Memory'
             h2 == header'
             o2 == obj'
  <2>1. new.stable = stable' /\ new.version = "regions" /\ h2.base = header.base
        /\ r \in DOMAIN o2 /\ o2[r] = grown
    BY <1>1, <1>2, <1>3, <1>10, <1>12
  <2>2. Content(r)' = ContentIn(new, h2, o2, r)
    BY NextContentIsIn
  <2> HIDE DEF new, h2, o2
  <2>3. ContentIn(new, h2, o2, r) = [p \in 1 .. pages |-> stable'[New(p - 1)]]
    BY <1>13, <2>1 DEF ContentIn
  <2> QED BY <2>2, <2>3
<1> HIDE DEF At, New
<1>23. ASSUME NEW p \in 1 .. object.pages PROVE Content(r)'[p] = Content(r)[p]
  <2>1. p \in 1 .. pages /\ p - 1 \in 0 .. blocks * PagesInBlock - 1 /\ p - 1 < old * PagesInBlock
    <3>1. object.pages <= old * PagesInBlock
      BY <1>4
    <3> DEFINE x == old * PagesInBlock
               y == blocks * PagesInBlock
    <3>2. x \in Nat /\ y \in Nat /\ x <= y /\ object.pages <= x
      BY <1>15, <3>1
    <3> HIDE DEF x, y
    <3>3. p \in 1 .. pages /\ p - 1 \in 0 .. y - 1 /\ p - 1 < x
      BY <1>4, <3>2
    <3> QED BY <3>3 DEF x, y
  <2>2. Content(r)'[p] = stable'[New(p - 1)] /\ Content(r)[p] = stable[At(r, p - 1)]
    BY <1>21, <1>22, <2>1
  <2>3. stable'[New(p - 1)] = stable[At(r, p - 1)]
    BY <1>11, <2>1
  <2> QED BY <2>2, <2>3
<1>24. ASSUME RawMemoryFits, NEW p \in 1 .. pages, p > object.pages PROVE Content(r)'[p] = Zero
  <2>1. SpareIsZero(Memory, header, obj)
    BY <1>2, <1>24 DEF RegionsOK
  <2>2. p - 1 \in 0 .. blocks * PagesInBlock - 1 /\ p - 1 >= object.pages
    BY <1>4, <1>15, <1>24
  <2>3. stable'[New(p - 1)] = Zero
    BY <1>16, <2>1, <2>2
  <2> QED BY <1>22, <2>3
<1>25. Content(r) = [p \in 1 .. object.pages |-> Content(r)[p]]
       /\ Content(r)' = [p \in 1 .. pages |-> Content(r)'[p]]
  BY <1>21, <1>22
<1> QED BY <1>1, <1>4, <1>12, <1>19, <1>20, <1>23, <1>24, <1>25 DEF object, pages
-----------------------------------------------------------------------------
\* A step that changes no variable of the memory.
LEMMA StutterPreserves ==
    ASSUME IInv, UNCHANGED vars
    PROVE  /\ IInv' /\ obj' = obj /\ \A r : Content(r)' = Content(r)
<1>1. /\ version' = version /\ size' = size /\ base' = base /\ stable' = stable
      /\ header' = header /\ obj' = obj /\ running' = running
  BY DEF vars
<1>2. Memory' = Memory
  BY <1>1 DEF Memory, Restored, LastPage
<1>3. IInv'
  BY <1>1, <1>2 DEF IInv
<1>4. \A r : Content(r)' = Content(r)
  BY <1>1, <1>2, ContentIsIn, NextContentIsIn
<1> QED BY <1>1, <1>3, <1>4

\* No step breaks the layout, and none but stores and growth change a content.
LEMMA StepOK == IInv /\ [Next]_vars => IInv' /\ (RawMemoryFits => Content(0)' = Content(0))
<1> SUFFICES ASSUME IInv, [Next]_vars
             PROVE  IInv' /\ (RawMemoryFits => Content(0)' = Content(0))
  OBVIOUS
<1>1. CASE region_new
  BY <1>1, region_newPreserves DEF KeepsContents
<1>2. ASSUME NEW r \in RegionIds, NEW n \in 0 .. MaxStablePages, region_grow(r, n)
      PROVE  IInv' /\ Content(0)' = Content(0)
  <2>1. r # 0
    BY RegionsAssumption
  <2> QED BY <1>2, <2>1, region_growPreserves
<1>3. ASSUME NEW r \in RegionIds, NEW offset \in 0 .. MaxStablePages, NEW src \in Srcs,
             region_store(r, offset, src)
      PROVE  IInv' /\ Content(0)' = Content(0)
  <2>1. r # 0
    BY RegionsAssumption
  <2> QED BY <1>3, <2>1, region_storePreserves
<1>4. CASE Backup
  BY <1>4, BackupPreserves
<1>5. ASSUME NEW b \in BOOLEAN, Restore(b)
      PROVE  IInv' /\ (RawMemoryFits => Content(0)' = Content(0))
  BY <1>5, RestorePreserves DEF KeepsContents
<1>6. CASE UNCHANGED vars
  BY <1>6, StutterPreserves
<1> QED BY <1>1, <1>2, <1>3, <1>4, <1>5, <1>6 DEF Next

\* The layout is an invariant.
LEMMA Invariance == Spec => []IInv
<1>1. Init => IInv
  BY InitOK
<1>2. IInv /\ [Next]_vars => IInv'
  BY StepOK
<1> QED BY <1>1, <1>2, PTL DEF Spec
-----------------------------------------------------------------------------
\* The table in stable memory says of every block what the Region objects on the heap
\* say, and gives every object back (region_recover), at every step of a program that
\* creates, grows and writes regions, is upgraded, and migrates its raw memory.
THEOREM RegionsRecoverable == Spec => []Recoverable
<1>1. IInv => Recoverable
  <2> SUFFICES ASSUME IInv PROVE Recoverable
    OBVIOUS
  <2>1. LayoutOK(Memory, header, obj) /\ ObjectsOK(header, obj) /\ HeaderOK(header)
    BY DEF IInv, LayoutOK, ObjectsOK
  <2>2. /\ header.base \in {0, MetaPages, PagesInBlock}
        /\ DOMAIN header.table = 0 .. header.blocks - 1
    BY <2>1 DEF HeaderOK
  <2>3. ASSUME NEW r \in DOMAIN obj
        PROVE  /\ DOMAIN obj[r].vec = 0 .. BlockCount(obj[r].pages) - 1
               /\ \A k \in DOMAIN obj[r].vec : obj[r].vec[k] \in 0 .. header.blocks - 1
    BY <2>1 DEF ObjectsOK, ObjectOK, Ranks
  <2>4. /\ version \in {"noregions", "regions"} /\ size \in 0 .. MaxStablePages
        /\ base \in {0, MetaPages, PagesInBlock}
        /\ running = TRUE => 0 .. size - 1 \subseteq DOMAIN stable
    <3>1. CASE running = TRUE
      <4>1. Memory.size = size /\ Memory.version = version /\ Memory.stable = stable
        BY <3>1 DEF Memory
      <4>2. size \in 0 .. MaxStablePages /\ 0 .. size - 1 \subseteq DOMAIN stable
        BY <2>1, <4>1 DEF LayoutOK, MemoryOK
      <4>3. version \in {"noregions", "regions"}
        BY <2>1, <4>1, LayoutVersion
      <4>4. base \in {0, MetaPages, PagesInBlock}
        BY <2>2, <3>1 DEF IInv
      <4> QED BY <4>2, <4>3, <4>4
    <3>2. CASE running # TRUE
      <4>1. size = 0 /\ base = 0 /\ version = "noregions"
        BY <3>2 DEF IInv
      <4> QED BY <3>2, <4>1, Constants
    <3> QED BY <3>1, <3>2
  <2>5. running \in BOOLEAN /\ (running => running = TRUE)
    BY DEF IInv
  <2>6. TypeOK
    <3>1. running => 0 .. size - 1 \subseteq DOMAIN stable
      BY <2>4, <2>5, Zenon
    <3> QED BY <2>2, <2>3, <2>4, <2>5, <3>1, Zenon DEF TypeOK
  <2>7. TableAgrees
    <3>1. \A b \in DOMAIN header.table : EntryAgrees(header, obj, b)
      BY <2>1, <2>2 DEF ObjectsOK
    <3> QED BY <3>1 DEF TableAgrees, EntryAgrees
  <2>8. \A r \in DOMAIN obj : region_recover(header, r) = obj[r]
    BY <2>1, RecoverGivesBack
  <2> QED BY <2>6, <2>7, <2>8 DEF Recoverable
<1> QED BY <1>1, Invariance, PTL

\* The raw memory of an older program is the content of region 0 after the migration, and
\* no later step changes it: if no raw memory is so big that its head block is moved to an
\* address beyond 32 bits, which is where region_migration_from_some_stable_memory fails.
THEOREM MigrationKeeps == ASSUME RawMemoryFits PROVE Spec => MigrationKeepsData
<1>1. IInv /\ [Next]_vars => [Content(0)' = Content(0)]_vars
  BY StepOK
<1> QED BY <1>1, Invariance, PTL DEF Spec, MigrationKeepsData

\* A load that is staged over blocks returns the cells of the region's array, for every
\* range that passes the bounds check (region_load, check_relative_range).
THEOREM LoadsAreOfContent == Spec => []LoadsContent
<1>1. IInv => LoadsContent
  <2> SUFFICES ASSUME IInv, running = TRUE, NEW r \in DOMAIN obj \ {0},
                      NEW offset \in 0 .. obj[r].pages, NEW len \in 1 .. obj[r].pages,
                      check_relative_range(obj[r], offset, len)
               PROVE  region_load(r, offset, len)
                        = SubSeq(Content(r), offset + 1, offset + len)
    BY DEF LoadsContent, IInv
  <2> DEFINE At(p) == Absolute(obj[r], header.base, p)
             cells == {stable[At(p - 1)] : p \in 1 .. obj[r].pages}
             part == SubSeq(Content(r), offset + 1, offset + len)
  <2>1. /\ Memory = [size |-> size, version |-> version, stable |-> stable]
        /\ version = "regions" /\ ObjectsOK(header, obj)
    BY RegionsRun
  <2>2. obj[r].pages \in Nat /\ offset \in Nat /\ len \in Nat /\ len > 0
    BY <2>1, PagesInBlocks
  <2>3. /\ offset + len <= obj[r].pages
        /\ \A i \in 0 .. len - 1 : StagedAbsolute(obj[r], offset, len, i) = At(offset + i)
    BY <2>2, StagedInRegion
  <2>4. Content(r) = [p \in 1 .. obj[r].pages |-> stable[At(p - 1)]]
    <3>1. ContentIn(Memory, header, obj, r) = [p \in 1 .. obj[r].pages |-> stable[At(p - 1)]]
      BY <2>1 DEF ContentIn
    <3> QED BY <3>1, ContentIsIn
  <2> HIDE DEF At
  <2>5. \A p \in 1 .. obj[r].pages : Content(r)[p] = stable[At(p - 1)] /\ Content(r)[p] \in cells
    BY <2>4
  <2> HIDE DEF cells
  <2>6. \A i \in offset + 1 .. offset + len : Content(r)[i] \in cells
    BY <2>2, <2>3, <2>5
  <2>7. /\ part \in Seq(cells) /\ Len(part) = len
        /\ \A i \in 1 .. len : part[i] = Content(r)[offset + i]
    <3> DEFINE c == Content(r)
               first == offset + 1
               last == offset + len
    <3>1. first \in Int /\ last \in Int /\ first <= last /\ last - first + 1 = len
          /\ \A i \in first .. last : c[i] \in cells
      BY <2>2, <2>6
    <3> HIDE DEF c, first, last
    <3>2. /\ SubSeq(c, first, last) \in Seq(cells) /\ Len(SubSeq(c, first, last)) = len
          /\ \A i \in 1 .. len : SubSeq(c, first, last)[i] = c[first + i - 1]
      BY <3>1, SubSeqProperties
    <3>3. \A i \in 1 .. len : first + i - 1 = offset + i
      BY <2>2 DEF first
    <3> QED BY <3>2, <3>3 DEF c, first, last
  <2>8. part = [i \in 1 .. len |-> Content(r)[offset + i]]
    <3>1. part \in [1 .. len -> cells]
      BY <2>7, LenProperties
    <3> QED BY <2>7, <3>1
  <2>9. ASSUME NEW i \in 1 .. len
        PROVE  stable[StagedAbsolute(obj[r], offset, len, i - 1)] = Content(r)[offset + i]
    <3>1. i - 1 \in 0 .. len - 1 /\ offset + i \in 1 .. obj[r].pages
          /\ offset + (i - 1) = (offset + i) - 1
      BY <2>2, <2>3
    <3> QED BY <2>3, <2>5, <3>1
  <2> HIDE DEF part
  <2>10. region_load(r, offset, len) = part
    BY <2>8, <2>9 DEF region_load
  <2> QED BY <2>10 DEF part
<1> QED BY <1>1, Invariance, PTL
-----------------------------------------------------------------------------
Contents == [r \in RegionIds \cup {0} |-> Content(r)]
Created == DOMAIN obj \ {0}

\* A function on 1 .. n is a sequence of length n.
LEMMA LenOfFunction ==
    ASSUME NEW n \in Nat, NEW f, f = [i \in 1 .. n |-> f[i]]
    PROVE  Len(f) = n
<1> DEFINE S == {f[i] : i \in 1 .. n}
<1>1. f \in [1 .. n -> S] /\ DOMAIN f = 1 .. n
  OBVIOUS
<1> HIDE DEF S
<1>2. f \in Seq(S)
  BY <1>1, SeqDef
<1>3. Len(f) \in Nat /\ DOMAIN f = 1 .. Len(f)
  BY <1>2, LenProperties
<1> QED BY <1>1, <1>3

\* The abstract state after a step that changes the content of at most one region.
LEMMA NextContents ==
    ASSUME NEW r \in RegionIds, \A s : s # r => Content(s)' = Content(s)
    PROVE  Contents' = [Contents EXCEPT ![r] = Contents'[r]] /\ Contents'[r] = Content(r)'
           /\ Contents[r] = Content(r)
<1>1. /\ Contents = [s \in RegionIds \cup {0} |-> Content(s)]
      /\ Contents' = [s \in RegionIds \cup {0} |-> Content(s)']
  BY DEF Contents
<1>2. \A s \in RegionIds \cup {0} : s # r => Contents'[s] = Contents[s]
  BY <1>1
<1> QED BY <1>1, <1>2

\* Contents do not change if no region's does.
LEMMA SameContents ==
    ASSUME \A s \in RegionIds \cup {0} : Content(s)' = Content(s)
    PROVE  Contents' = Contents
  BY DEF Contents

\* Every step of the regions is one of the arrays, or none.
LEMMA StepMaps ==
    ASSUME RawMemoryFits, IInv, [Next]_vars
    PROVE  [Pages!Next]_Pages!vars
<1> DEFINE unchanged == Created' = Created /\ Contents' = Contents
<1>1. unchanged => UNCHANGED Pages!vars
  BY DEF Pages!vars, Created, Contents
<1>2. CASE region_new
  <2>1. PICK id \in RegionIds : /\ id \notin DOMAIN obj
                                /\ DOMAIN obj' \ {0} = (DOMAIN obj \ {0}) \cup {id}
    BY <1>2, region_newPreserves
  <2>2. Contents' = Contents
    BY <1>2, region_newPreserves, SameContents DEF KeepsContents
  <2>3. Pages!Create(id)
    BY <2>1, <2>2 DEF Pages!Create, Contents
  <2> QED BY <2>3 DEF Pages!Next
<1>3. ASSUME NEW r \in RegionIds, NEW n \in 0 .. MaxStablePages, region_grow(r, n)
      PROVE  Pages!Next \/ unchanged
  <2> DEFINE few == obj[r].pages
             old == Content(r)
             new == Content(r)'
  <2>1. /\ r \in DOMAIN obj /\ DOMAIN obj' = DOMAIN obj /\ few \in Nat
        /\ \A s : s # r => Content(s)' = Content(s)
        /\ old = [p \in 1 .. few |-> old[p]]
        /\ new = [p \in 1 .. few + n |-> new[p]]
        /\ \A p \in 1 .. few : new[p] = old[p]
        /\ \A p \in 1 .. few + n : p > few => new[p] = Zero
    BY <1>3, region_growPreserves
  <2>2. /\ Contents' = [Contents EXCEPT ![r] = Contents'[r]] /\ Contents'[r] = new
        /\ Contents[r] = old
    BY <2>1, NextContents
  <2>3. r \in Created /\ Created' = Created
    <3>1. r # 0
      BY RegionsAssumption
    <3> QED BY <2>1, <3>1 DEF Created
  <2> HIDE DEF few, old, new
  <2>4. n \in Nat /\ few + n \in Nat
    BY <2>1, Constants
  <2>5. Len(old) = few /\ Len(new) = few + n
    <3>1. Len(old) = few
      BY <2>1, LenOfFunction
    <3> DEFINE many == few + n
    <3>2. many \in Nat /\ new = [p \in 1 .. many |-> new[p]]
      BY <2>1, <2>4
    <3> HIDE DEF many
    <3>3. Len(new) = many
      BY <3>2, LenOfFunction
    <3> QED BY <3>1, <3>3 DEF many
  <2>6. CASE n = 0
    <3>1. few + n = few
      BY <2>1, <2>6
    <3>2. new = old
      BY <2>1, <3>1
    <3>3. Contents' = Contents
      BY <2>1, <3>2, SameContents DEF old, new
    <3> QED BY <2>3, <3>3
  <2>7. CASE n # 0
    <3>1. Len(Contents'[r]) > Len(Contents[r])
      BY <2>1, <2>2, <2>4, <2>5, <2>7
    <3>2. \A p \in 1 .. Len(Contents'[r]) :
            Contents'[r][p] = IF p <= Len(Contents[r]) THEN Contents[r][p] ELSE Zero
      <4>1. ASSUME NEW p \in 1 .. few + n
            PROVE  new[p] = IF p <= few THEN old[p] ELSE Zero
        BY <2>1, <2>4
      <4> QED BY <2>2, <2>5, <4>1
    <3>3. Pages!Grow(r)
      BY <2>2, <2>3, <3>1, <3>2 DEF Pages!Grow, Contents, Created
    <3> QED BY <3>3 DEF Pages!Next
  <2> QED BY <2>6, <2>7
<1>4. ASSUME NEW r \in RegionIds, NEW offset \in 0 .. MaxStablePages, NEW src \in Srcs,
             region_store(r, offset, src)
      PROVE  Pages!Next
  <2> DEFINE old == Content(r)
             new == Content(r)'
  <2>1. /\ obj' = obj /\ r \in DOMAIN obj
        /\ DOMAIN old = 1 .. obj[r].pages /\ offset + Len(src) <= obj[r].pages
        /\ \A s : s # r => Content(s)' = Content(s)
        /\ new = [p \in DOMAIN old |->
                    IF p - offset \in DOMAIN src THEN src[p - offset] ELSE old[p]]
    BY <1>4, region_storePreserves
  <2>2. /\ Contents' = [Contents EXCEPT ![r] = Contents'[r]] /\ Contents'[r] = new
        /\ Contents[r] = old
    BY <2>1, NextContents
  <2>3. r \in Created /\ Created' = Created
    <3>1. r # 0
      BY RegionsAssumption
    <3> QED BY <2>1, <3>1 DEF Created
  <2>4. obj[r].pages \in Nat /\ Len(src) \in Nat
    <3>1. running = TRUE
      BY <1>4 DEF IInv, region_store
    <3>2. ObjectsOK(header, obj)
      BY <2>1, <3>1, RegionsRun
    <3> QED BY <2>1, <3>2, PagesInBlocks, RegionsAssumption
  <2> HIDE DEF old, new
  <2>5. Len(old) = obj[r].pages
    <3>1. old = [p \in 1 .. obj[r].pages |-> old[p]]
      <4>1. ContentIn(Memory, header, obj, r)
              = [p \in 1 .. obj[r].pages |-> ContentIn(Memory, header, obj, r)[p]]
        <5>1. r # 0
          BY RegionsAssumption
        <5> QED BY <2>1, <5>1 DEF ContentIn
      <4> QED BY <4>1, ContentIsIn DEF old
    <3> QED BY <2>4, <3>1, LenOfFunction
  <2>6. offset \in 0 .. Len(Contents[r]) /\ offset + Len(src) <= Len(Contents[r])
    BY <2>1, <2>2, <2>4, <2>5
  <2>7. Contents' = [Contents EXCEPT ![r] =
                       [p \in DOMAIN @ |-> IF p - offset \in DOMAIN src THEN src[p - offset]
                                           ELSE @[p]]]
    BY <2>1, <2>2
  <2>8. Pages!Store(r, offset, src)
    BY <2>3, <2>6, <2>7 DEF Pages!Store, Contents, Created
  <2> QED BY <2>6, <2>8 DEF Pages!Next, Contents
<1>5. CASE Backup
  <2>1. obj' = obj
    BY <1>5 DEF Backup
  <2>2. Contents' = Contents
    BY <1>5, BackupPreserves, SameContents
  <2> QED BY <1>1, <2>1, <2>2 DEF Created
<1>6. ASSUME NEW b \in BOOLEAN, Restore(b) PROVE unchanged
  <2>1. KeepsContents /\ DOMAIN obj' \ {0} = DOMAIN obj \ {0}
    BY <1>6, RestorePreserves
  <2>2. Contents' = Contents
    BY <2>1, SameContents DEF KeepsContents
  <2> QED BY <2>1, <2>2 DEF Created
<1>7. CASE UNCHANGED vars
  <2>1. Contents' = Contents
    BY <1>7, StutterPreserves, SameContents
  <2>2. obj' = obj
    BY <1>7, StutterPreserves
  <2> QED BY <1>1, <2>1, <2>2 DEF Created
<1> HIDE DEF unchanged
<1> QED BY <1>1, <1>2, <1>3, <1>4, <1>5, <1>6, <1>7 DEF Next

\* Every region behaves as an array of pages of its own: what creates, grows or writes one
\* region, upgrades the program or migrates its raw memory leaves all the others as they
\* are, and a region that grows gets zero pages at its end. The raw memories in question are
\* those that the migration of region_migration_from_some_stable_memory keeps.
THEOREM RegionsAreArrays == ASSUME RawMemoryFits PROVE Spec => RefinesPages
<1>1. Init => Pages!Init
  <2> SUFFICES ASSUME Init PROVE Pages!Init
    OBVIOUS
  <2>1. DOMAIN obj = {}
    BY DEF Init
  <2>2. ASSUME NEW r \in RegionIds PROVE Content(r) = <<>>
    <3>1. r # 0
      BY RegionsAssumption
    <3> QED BY <2>1, <3>1, ContentIsIn DEF ContentIn
  <2> QED BY <2>1, <2>2 DEF Pages!Init
<1>2. IInv /\ [Next]_vars => [Pages!Next]_Pages!vars
  BY StepMaps
<1> QED BY <1>1, <1>2, Invariance, PTL DEF Spec, RefinesPages, Pages!Spec
=============================================================================
