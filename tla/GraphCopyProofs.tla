-------------------------- MODULE GraphCopyProofs --------------------------
(***************************************************************************)
(* Proofs about the upgrade by graph copy, for every object graph, page    *)
(* size, size of an increment and stable memory of the program.            *)
(*                                                                         *)
(* The inductive invariant has a case for each phase.  While the program   *)
(* copies, a function f gives the offset of each object that has been      *)
(* copied: the copies lie one after the other between start and free, the  *)
(* heap has the forward address of each, and the fields before the scan    *)
(* address are offsets where the fields behind it are those of the graph   *)
(* (Copying).  The same f reads the image that the metadata describe       *)
(* (Stored).  On the way back a second function e gives the place of each  *)
(* object in the new heap, and the stack has those that are still to be    *)
(* visited, with the element at which an array is resumed (Returning).     *)
(* The composition of the two is the isomorphism that the program expects. *)
(***************************************************************************)
EXTENDS GraphCopy, SequenceTheorems, FiniteSetTheorems, WellFoundedInduction, TLAPS

\* A set of numbers has a least one.
LEMMA LeastNumber ==
    ASSUME NEW S, S \subseteq Nat, S # {}
    PROVE  \E x \in S : \A y \in S : x <= y
<1>1. PICK x \in S : \A y \in S : ~(<<y, x>> \in OpToRel(<, Nat))
  BY NatLessThanWellFounded, WFMin
<1>2. \A y \in S : x <= y
  <2> SUFFICES ASSUME NEW y \in S, ~(x <= y) PROVE FALSE
    OBVIOUS
  <2>1. y < x /\ x \in Nat /\ y \in Nat
    OBVIOUS
  <2> QED BY <1>1, <2>1 DEF OpToRel
<1> QED BY <1>2
-----------------------------------------------------------------------------
(* Stable memory: it is granted in whole pages, and a write changes the cells *)
(* it names alone.                                                            *)

\* What a cell may hold.
Cell == [k : {"ptr", "data", "dummy", "zero", "raw", "type", "length", "record", "fwd"}
              \cup StableKinds, v : Int]

\* The sizes are positive.
LEMMA Sizes ==
    /\ PageCells \in Nat /\ PageCells > 0
    /\ RecordCells \in Nat /\ RecordCells > 0 /\ RecordCells < PageCells
    /\ SliceIncrement \in Nat /\ SliceIncrement > 0 /\ ClearChunk \in Nat /\ ClearChunk > 0
  BY CopyConstants

\* Division by the page size.
LEMMA Division ==
    ASSUME NEW n \in Nat
    PROVE  /\ n = (n \div PageCells) * PageCells + (n % PageCells)
           /\ n \div PageCells \in Nat /\ n % PageCells \in 0 .. PageCells - 1
  BY Sizes

\* A multiple has no remainder.
LEMMA Multiple ==
    ASSUME NEW q \in Nat
    PROVE  (q * PageCells) % PageCells = 0
  BY Sizes

\* A multiple of the page size is reached in less than a page.
LEMMA AlignUpIs ==
    ASSUME NEW n \in Nat
    PROVE  /\ AlignUp(n) \in Nat /\ n <= AlignUp(n) /\ AlignUp(n) < n + PageCells
           /\ AlignUp(n) % PageCells = 0
<1> DEFINE q == (n + PageCells - 1) \div PageCells
           r == (n + PageCells - 1) % PageCells
<1>1. PageCells \in Nat /\ PageCells > 0 /\ n + PageCells - 1 \in Nat
  BY Sizes
<1>2. n + PageCells - 1 = q * PageCells + r /\ r \in 0 .. PageCells - 1 /\ q \in Nat
  BY <1>1, Division
<1>3. AlignUp(n) = q * PageCells
  BY DEF AlignUp
<1> HIDE DEF q, r
<1>4. q * PageCells \in Int
  BY <1>1, <1>2
<1>5. n <= q * PageCells /\ q * PageCells < n + PageCells
  BY <1>1, <1>2, <1>4
<1>6. (q * PageCells) % PageCells = 0
  BY <1>1, <1>2, Multiple
<1> QED BY <1>1, <1>3, <1>4, <1>5, <1>6

\* The pages behind a page boundary begin there.
LEMMA AlignUpLeast ==
    ASSUME NEW n \in Nat, NEW m \in Nat, n <= m, m % PageCells = 0
    PROVE  AlignUp(n) <= m
<1> DEFINE q == (n + PageCells - 1) \div PageCells
           r == (n + PageCells - 1) % PageCells
           k == m \div PageCells
<1>1. PageCells \in Nat /\ PageCells > 0 /\ n + PageCells - 1 \in Nat
  BY Sizes
<1>2. n + PageCells - 1 = q * PageCells + r /\ r \in 0 .. PageCells - 1 /\ q \in Nat
  BY <1>1, Division
<1>3. m = k * PageCells /\ k \in Nat
  <2>1. m = k * PageCells + (m % PageCells) /\ k \in Nat
    BY Division
  <2> HIDE DEF k
  <2>2. k * PageCells \in Int
    BY <1>1, <2>1
  <2> QED BY <2>1, <2>2
<1>4. AlignUp(n) = q * PageCells
  BY DEF AlignUp
<1> HIDE DEF q, r, k
<1>5. q * PageCells \in Int /\ k * PageCells \in Int
  BY <1>1, <1>2, <1>3
<1>6. q * PageCells < k * PageCells + PageCells
  BY <1>1, <1>2, <1>3, <1>5
<1>7. ~(q >= k + 1)
  <2> SUFFICES ASSUME q >= k + 1 PROVE FALSE
    OBVIOUS
  <2>1. q * PageCells >= (k + 1) * PageCells
    BY <1>1, <1>2, <1>3
  <2>2. (k + 1) * PageCells = k * PageCells + PageCells
    BY <1>1, <1>3
  <2> QED BY <1>5, <1>6, <2>1, <2>2, <1>1
<1>8. q <= k
  BY <1>2, <1>3, <1>7
<1>9. q * PageCells <= k * PageCells
  BY <1>1, <1>2, <1>3, <1>8
<1> QED BY <1>3, <1>4, <1>9

\* A write grows the memory to whole pages and changes the cells written alone.
Written(mem, at, cells, new) ==
  /\ new \in Seq(Cell)
  /\ Len(new) = IF AlignUp(at + Len(cells)) > Len(mem) THEN AlignUp(at + Len(cells)) ELSE Len(mem)
  /\ \A p \in 1 .. Len(new) :
       new[p] = IF p > at /\ p <= at + Len(cells) THEN cells[p - at]
                ELSE IF p <= Len(mem) THEN mem[p] ELSE ZeroCell

\* What a write does is Written.
LEMMA WriteIs ==
    ASSUME NEW mem \in Seq(Cell), NEW at \in Nat, at <= Len(mem), NEW cells \in Seq(Cell)
    PROVE  Written(mem, at, cells, Write(mem, at, cells))
<1> DEFINE end == at + Len(cells)
           zeros == Zeros(AlignUp(end) - Len(mem))
           granted == IF AlignUp(end) > Len(mem) THEN mem \o zeros ELSE mem
           n == IF AlignUp(end) > Len(mem) THEN AlignUp(end) ELSE Len(mem)
           before == SubSeq(granted, 1, at)
           behind == SubSeq(granted, end + 1, Len(granted))
<1>1. /\ Len(mem) \in Nat /\ Len(cells) \in Nat /\ end \in Nat /\ AlignUp(end) \in Nat
      /\ end <= AlignUp(end) /\ n \in Nat /\ end <= n /\ at <= end
  <2>1. Len(mem) \in Nat /\ Len(cells) \in Nat /\ end \in Nat /\ at <= end
    BY LenProperties
  <2> HIDE DEF end
  <2>2. AlignUp(end) \in Nat /\ end <= AlignUp(end)
    BY <2>1, AlignUpIs
  <2> QED BY <2>1, <2>2
<1>2. ZeroCell \in Cell
  BY DEF ZeroCell, cell, Cell
<1>3. /\ granted \in Seq(Cell) /\ Len(granted) = n
      /\ \A p \in 1 .. n : granted[p] = IF p <= Len(mem) THEN mem[p] ELSE ZeroCell
  <2>1. CASE AlignUp(end) > Len(mem)
    <3>1. AlignUp(end) - Len(mem) \in Nat
      BY <1>1, <2>1
    <3>2. zeros \in Seq(Cell) /\ Len(zeros) = AlignUp(end) - Len(mem)
      BY <3>1, <1>2 DEF Zeros
    <3>3. \A i \in 1 .. AlignUp(end) - Len(mem) : zeros[i] = ZeroCell
      BY <3>1 DEF Zeros
    <3> HIDE DEF zeros, end
    <3>4. /\ mem \o zeros \in Seq(Cell) /\ Len(mem \o zeros) = Len(mem) + Len(zeros)
          /\ \A p \in 1 .. Len(mem) + Len(zeros) :
               (mem \o zeros)[p] = IF p <= Len(mem) THEN mem[p] ELSE zeros[p - Len(mem)]
      BY <3>2, ConcatProperties
    <3>5. \A p \in 1 .. n : p > Len(mem) => p - Len(mem) \in 1 .. AlignUp(end) - Len(mem)
      BY <1>1, <2>1
    <3> QED BY <2>1, <3>2, <3>3, <3>4, <3>5, <1>1
  <2>2. CASE ~(AlignUp(end) > Len(mem))
    BY <2>2, <1>1
  <2> QED BY <2>1, <2>2
<1> HIDE DEF granted, n
<1>4. /\ before \in Seq(Cell) /\ Len(before) = at
      /\ \A p \in 1 .. at : before[p] = granted[p]
  <2>1. \A p \in 1 .. at : granted[p] \in Cell
    BY <1>1, <1>3, ElementOfSeq
  <2>2. /\ before \in Seq(Cell) /\ Len(before) = IF 1 <= at THEN at - 1 + 1 ELSE 0
        /\ \A p \in 1 .. at - 1 + 1 : before[p] = granted[1 + p - 1]
    BY <2>1, SubSeqProperties
  <2> HIDE DEF before
  <2> QED BY <2>2
<1>5. /\ behind \in Seq(Cell) /\ Len(behind) = n - end
      /\ \A p \in 1 .. n - end : behind[p] = granted[end + p]
  <2>1. \A p \in end + 1 .. n : granted[p] \in Cell
    BY <1>1, <1>3, ElementOfSeq
  <2> DEFINE first == end + 1
  <2>2. first \in Int
    BY <1>1
  <2>3. /\ behind \in Seq(Cell) /\ Len(behind) = IF first <= n THEN n - first + 1 ELSE 0
        /\ \A p \in 1 .. n - first + 1 : behind[p] = granted[first + p - 1]
    <3> HIDE DEF end
    <3> QED BY <1>1, <1>3, <2>1, SubSeqProperties
  <2> HIDE DEF behind, end
  <2>4. \A p \in 1 .. n - end : p \in 1 .. n - first + 1 /\ first + p - 1 = end + p
    BY <1>1
  <2> QED BY <1>1, <2>3, <2>4
<1>6. Write(mem, at, cells) = before \o cells \o behind
  <2>1. 0 + 1 = 1 /\ 0 + at = at
    OBVIOUS
  <2>2. Write(mem, at, cells) = SubSeq(granted, 0 + 1, 0 + at) \o cells \o behind
    BY DEF Write, Read, granted
  <2> QED BY <2>1, <2>2
<1> HIDE DEF before, behind
<1>7. /\ before \o cells \in Seq(Cell) /\ Len(before \o cells) = end
      /\ \A p \in 1 .. end : (before \o cells)[p] = IF p <= at THEN before[p] ELSE cells[p - at]
  BY <1>4, ConcatProperties
<1> DEFINE front == before \o cells
<1> HIDE DEF front, end
<1>8. /\ front \o behind \in Seq(Cell) /\ Len(front \o behind) = end + (n - end)
      /\ \A p \in 1 .. end + (n - end) : (front \o behind)[p] = IF p <= end THEN front[p] ELSE behind[p - end]
  <2>1. front \in Seq(Cell) /\ Len(front) = end
    BY <1>7 DEF front
  <2> QED BY <1>5, <2>1, ConcatProperties
<1>9. end + (n - end) = n
  BY <1>1
<1>10. ASSUME NEW p \in 1 .. n
       PROVE  (front \o behind)[p] = IF p > at /\ p <= end THEN cells[p - at]
                ELSE IF p <= Len(mem) THEN mem[p] ELSE ZeroCell
  <2>1. CASE p <= at
    <3>1. p \in 1 .. at /\ p \in 1 .. end
      BY <1>1, <2>1
    <3> QED BY <3>1, <1>1, <1>3, <1>4, <1>7, <1>8, <1>9, <2>1 DEF front
  <2>2. CASE p > at /\ p <= end
    <3>1. p \in 1 .. end /\ ~(p <= at)
      BY <1>1, <2>2
    <3> QED BY <3>1, <1>7, <1>8, <1>9, <2>2 DEF front
  <2>3. CASE p > end
    <3>1. p - end \in 1 .. n - end /\ end + (p - end) = p /\ ~(p <= end) /\ p > at
      BY <1>1, <2>3
    <3> QED BY <3>1, <1>3, <1>5, <1>8, <1>9
  <2>4. p <= at \/ (p > at /\ p <= end) \/ p > end
    BY <1>1
  <2> QED BY <2>1, <2>2, <2>3, <2>4
<1>11. Write(mem, at, cells) = front \o behind
  BY <1>6 DEF front
<1> QED BY <1>8, <1>9, <1>10, <1>11 DEF Written, n, end
-----------------------------------------------------------------------------
(* What there is while objects are copied to stable memory.  g is the graph  *)
(* before the upgrade and f the offset of each object that has been copied.  *)

Size(obj) == 1 + Len(obj.body)
Header(obj) == cell(obj.kind, IF obj.kind = "object" THEN Len(obj.body) - 1 ELSE Len(obj.body))

\* A copy has a place of its own before the end.
Layout(g, f, from, end) ==
  /\ \A o \in DOMAIN f : /\ o \in DOMAIN g /\ g[o].kind # "closure" /\ f[o] \in Nat
                         /\ from + f[o] + Size(g[o]) <= end
  /\ \A o, q \in DOMAIN f : o # q => \/ f[o] + Size(g[o]) <= f[q]
                                     \/ f[q] + Size(g[q]) <= f[o]

\* An address is where a copy begins or at the end.
Begins(f, from, end, a) == a = end \/ \E q \in DOMAIN f : a = from + f[q]
Tiled(g, f, from, end) ==
  /\ Begins(f, from, end, from)
  /\ \A o \in DOMAIN f : Begins(f, from, end, from + f[o] + Size(g[o]))

\* What a field becomes in the copy.
Image(g, f, o, i) ==
  IF ~Points(g[o], i) THEN g[o].body[i]
  ELSE IF g[g[o].body[i].v].kind = "closure" THEN DUMMY_VALUE
  ELSE cell("ptr", f[g[o].body[i].v])

\* Field i of an object that has been scanned or not.
FieldOK(g, f, from, mem, sc, o, i) ==
  IF from + f[o] + i < sc
  THEN /\ mem[from + f[o] + i + 1] = Image(g, f, o, i)
       /\ Points(g[o], i) /\ g[g[o].body[i].v].kind # "closure" => g[o].body[i].v \in DOMAIN f
  ELSE mem[from + f[o] + i + 1] = g[o].body[i]

Contents(g, f, from, mem, sc) ==
  \A o \in DOMAIN f : /\ mem[from + f[o] + 1] = Header(g[o])
                     /\ \A i \in 1 .. Len(g[o].body) : FieldOK(g, f, from, mem, sc, o, i)

HeapIs(g, f, h) ==
  h = [o \in DOMAIN g |-> IF o \in DOMAIN f THEN [kind |-> "fwd", fwd |-> f[o]] ELSE g[o]]

\* The memory outside of the copy.
Frame(base, from, mem, end) ==
  /\ mem \in Seq(Cell) /\ Len(mem) % PageCells = 0
  /\ from \in Nat /\ end \in Nat /\ from <= end /\ end <= Len(mem) /\ Len(base) \in Nat /\ Len(base) <= Len(mem)
  /\ \A p \in 1 .. Len(mem) : /\ p <= from => mem[p] = base[p]
                              /\ p > end => mem[p] = ZeroCell

\* The roots and what is reached from an object are in the set.
Closed(g, r, S) ==
  /\ \A i \in 1 .. 3 : r[i] # 0 => r[i] \in S
  /\ \A o \in S : \A i \in DOMAIN g[o].body :
       Points(g[o], i) /\ g[g[o].body[i].v].kind # "closure" => g[o].body[i].v \in S
Reached(g, r, M) == \A S \in SUBSET DOMAIN g : Closed(g, r, S) => M \subseteq S

\* The copy: s has the heap, the memory and the free address, sc is the scan address.
CopyState(g, r, base, f, s, sc) ==
  /\ s = [heap |-> s.heap, mem |-> s.mem, free |-> s.free]
  /\ HeapIs(g, f, s.heap) /\ Layout(g, f, start, s.free) /\ Tiled(g, f, start, s.free)
  /\ Contents(g, f, start, s.mem, sc) /\ Frame(base, start, s.mem, s.free)
  /\ Reached(g, r, DOMAIN f) /\ sc \in Nat /\ sc <= s.free

\* More objects have been copied.
Extends(f, e) == DOMAIN f \subseteq DOMAIN e /\ \A o \in DOMAIN f : e[o] = f[o]

\* The objects of a graph.
LEMMA GraphObject ==
    ASSUME NEW g, NEW r, GraphOK(g, r), NEW o \in DOMAIN g
    PROVE  /\ g[o].body \in Seq(Cell) /\ Len(g[o].body) \in Nat
           /\ DOMAIN g[o].body = 1 .. Len(g[o].body)
           /\ g[o].kind \in StableKinds \cup {"closure"} /\ g[o].kind # "fwd"
           /\ g[o].kind # "closure" => \A i \in 1 .. Len(g[o].body) :
                Points(g[o], i) => g[o].body[i].v \in DOMAIN g
           /\ g[o].kind = "object" =>
                /\ Len(g[o].body) > 0 /\ g[o].body[1].v \in DOMAIN g
                /\ g[g[o].body[1].v].kind = "blob"
                /\ Len(g[g[o].body[1].v].body) = Len(g[o].body) - 1
<1> DEFINE Plain == [k : {"ptr", "data"}, v : Int]
<1>1. /\ g \in Seq([kind : StableKinds \cup {"closure"}, body : Seq(Plain)])
  BY DEF GraphOK
<1>2. g[o] \in [kind : StableKinds \cup {"closure"}, body : Seq(Plain)]
  <2>1. o \in 1 .. Len(g)
    BY <1>1, LenProperties
  <2> QED BY <1>1, <2>1, ElementOfSeq
<1>3. g[o].body \in Seq(Plain) /\ g[o].kind \in StableKinds \cup {"closure"}
  BY <1>2
<1>4. Plain \subseteq Cell
  BY DEF Cell
<1>5. g[o].body \in Seq(Cell)
  <2> HIDE DEF Plain
  <2> QED BY <1>3, <1>4, SeqMonotonic
<1>6. Len(g[o].body) \in Nat /\ DOMAIN g[o].body = 1 .. Len(g[o].body)
  BY <1>5, LenProperties
<1>7. g[o].kind # "fwd"
  BY <1>3 DEF StableKinds
<1>8. g[o].kind # "closure" => \A i \in 1 .. Len(g[o].body) :
                Points(g[o], i) => g[o].body[i].v \in DOMAIN g
  BY <1>6 DEF GraphOK
<1>9. ASSUME g[o].kind = "object"
      PROVE  /\ Len(g[o].body) > 0 /\ g[o].body[1].v \in DOMAIN g
             /\ g[g[o].body[1].v].kind = "blob"
             /\ Len(g[g[o].body[1].v].body) = Len(g[o].body) - 1
  <2>1. /\ g[o].body # <<>> /\ Points(g[o], 1)
        /\ g[g[o].body[1].v].kind = "blob"
        /\ Len(g[g[o].body[1].v].body) = Len(g[o].body) - 1
    BY <1>9 DEF GraphOK
  <2>2. Len(g[o].body) > 0
    BY <1>5, <1>6, <2>1, EmptySeq
  <2>3. 1 \in 1 .. Len(g[o].body)
    BY <1>6, <2>2
  <2> QED BY <1>8, <1>9, <2>1, <2>2, <2>3
<1> QED BY <1>3, <1>5, <1>6, <1>7, <1>8, <1>9

\* The copies of two fields are in different places.
LEMMA Places ==
    ASSUME NEW g, NEW r, GraphOK(g, r), NEW f, NEW from \in Nat, NEW end \in Nat,
           Layout(g, f, from, end), NEW o \in DOMAIN f, NEW q \in DOMAIN f,
           NEW i \in 0 .. Len(g[o].body), NEW j \in 0 .. Len(g[q].body),
           from + f[o] + i = from + f[q] + j
    PROVE  o = q /\ i = j
<1>1. Len(g[o].body) \in Nat /\ Len(g[q].body) \in Nat
  BY GraphObject DEF Layout
<1>2. /\ f[o] \in Nat /\ f[q] \in Nat
      /\ o # q => f[o] + Size(g[o]) <= f[q] \/ f[q] + Size(g[q]) <= f[o]
  BY DEF Layout
<1>3. f[o] + i = f[q] + j /\ i \in Nat /\ j \in Nat /\ i <= Len(g[o].body) /\ j <= Len(g[q].body)
  BY <1>1, <1>2, SMTT(30)
<1>4. o = q
  <2>1. Size(g[o]) = 1 + Len(g[o].body) /\ Size(g[q]) = 1 + Len(g[q].body)
    BY DEF Size
  <2>2. \A a, b, m, n, k, l \in Nat : a + k = b + l /\ k <= m => ~(a + (1 + m) <= b)
    OBVIOUS
  <2>3. ~(f[o] + (1 + Len(g[o].body)) <= f[q])
    BY <1>1, <1>2, <1>3, <2>2
  <2>4. ~(f[q] + (1 + Len(g[q].body)) <= f[o])
    BY <1>1, <1>2, <1>3, <2>2
  <2> QED BY <1>2, <2>1, <2>3, <2>4
<1> QED BY <1>1, <1>2, <1>3, <1>4

\* What is in the heap of an object.
LEMMA HeapObject ==
    ASSUME NEW g, NEW r, GraphOK(g, r), NEW f, NEW h, HeapIs(g, f, h), NEW o \in DOMAIN g
    PROVE  /\ o \in DOMAIN f => h[o].kind = "fwd" /\ h[o].fwd = f[o]
           /\ o \notin DOMAIN f => h[o] = g[o] /\ h[o].kind # "fwd"
<1>1. h[o] = IF o \in DOMAIN f THEN [kind |-> "fwd", fwd |-> f[o]] ELSE g[o]
  BY DEF HeapIs
<1> QED BY <1>1, GraphObject

\* The length of the hash blob tells the size of an object, copied or not.
LEMMA ObjectSize ==
    ASSUME NEW g, NEW r, GraphOK(g, r), NEW f, NEW s, HeapIs(g, f, s.heap), NEW sc,
           Contents(g, f, start, s.mem, sc), NEW o \in DOMAIN g, o \notin DOMAIN f,
           g[o].kind = "object"
    PROVE  get_object_size(s, o) = Len(g[o].body) - 1
<1> DEFINE b == g[o].body[1].v
<1>1. /\ b \in DOMAIN g /\ g[b].kind = "blob" /\ Len(g[b].body) = Len(g[o].body) - 1
  BY GraphObject
<1>2. s.heap[o] = g[o]
  BY HeapObject
<1> HIDE DEF b
<1>3. CASE b \in DOMAIN f
  <2>1. s.heap[b].kind = "fwd" /\ s.heap[b].fwd = f[b]
    BY <1>1, <1>3, HeapObject
  <2>2. s.mem[start + f[b] + 1] = Header(g[b])
    BY <1>3 DEF Contents
  <2>3. Header(g[b]).v = Len(g[b].body)
    BY <1>1 DEF Header, cell
  <2> QED BY <1>1, <1>2, <2>1, <2>2, <2>3 DEF get_object_size, b
<1>4. CASE b \notin DOMAIN f
  <2>1. s.heap[b] = g[b] /\ s.heap[b].kind # "fwd"
    BY <1>1, <1>4, HeapObject
  <2> QED BY <1>1, <1>2, <2>1 DEF get_object_size, b
<1> QED BY <1>3, <1>4

\* A serialized object is its header and its fields.
IsSerialized(cells, obj) ==
  /\ cells \in Seq(Cell) /\ Len(cells) = Size(obj) /\ cells[1] = Header(obj)
  /\ \A i \in 1 .. Len(obj.body) : cells[i + 1] = obj.body[i]

\* serialize writes them.
LEMMA Serialized ==
    ASSUME NEW g, NEW r, GraphOK(g, r), NEW f, NEW s, HeapIs(g, f, s.heap), NEW sc,
           Contents(g, f, start, s.mem, sc), NEW o \in DOMAIN g, o \notin DOMAIN f,
           g[o].kind # "closure"
    PROVE  IsSerialized(serialize(s, o), g[o])
<1> DEFINE body == g[o].body
           head == <<Header(g[o])>>
           n == Len(body)
<1>1. /\ body \in Seq(Cell) /\ n \in Nat /\ s.heap[o] = g[o]
      /\ g[o].kind \in StableKinds
  BY GraphObject, HeapObject
<1>2. head \in Seq(Cell) /\ Len(head) = 1 /\ head[1] = Header(g[o])
  <2>1. g[o].kind = "object" => n - 1 \in Int
    BY <1>1
  <2>2. Header(g[o]) \in Cell
    BY <1>1, <2>1 DEF Header, cell, Cell
  <2> QED BY <2>2
<1>3. serialize(s, o) = head \o body
  <2>1. CASE g[o].kind = "object"
    <3>1. get_object_size(s, o) = n - 1
      BY <2>1, ObjectSize
    <3>2. 1 + (n - 1) = n
      BY <1>1
    <3>3. SubSeq(body, 1, n) = body
      <4>1. \A i \in 1 .. n : body[i] \in Cell
        BY <1>1, ElementOfSeq
      <4> HIDE DEF body, n
      <4>2. /\ SubSeq(body, 1, n) \in Seq(Cell)
            /\ Len(SubSeq(body, 1, n)) = IF 1 <= n THEN n - 1 + 1 ELSE 0
            /\ \A i \in 1 .. n - 1 + 1 : SubSeq(body, 1, n)[i] = body[1 + i - 1]
        BY <1>1, <4>1, SubSeqProperties
      <4>3. Len(SubSeq(body, 1, n)) = n /\ Len(body) = n
        BY <1>1, <4>2 DEF n
      <4>4. \A i \in 1 .. n : SubSeq(body, 1, n)[i] = body[i]
        BY <1>1, <4>2
      <4> QED BY <1>1, <4>2, <4>3, <4>4, SeqEqual
    <3>4. Header(g[o]) = cell("object", n - 1)
      BY <2>1 DEF Header
    <3> QED BY <1>1, <2>1, <3>1, <3>2, <3>3, <3>4 DEF serialize
  <2>2. CASE g[o].kind # "object"
    BY <1>1, <2>2 DEF serialize, Header
  <2> QED BY <2>1, <2>2
<1> HIDE DEF head, body
<1>4. /\ head \o body \in Seq(Cell) /\ Len(head \o body) = 1 + n
      /\ \A i \in 1 .. 1 + n : (head \o body)[i] = IF i <= 1 THEN head[i] ELSE body[i - 1]
  <2>1. /\ head \o body \in Seq(Cell) /\ Len(head \o body) = Len(head) + Len(body)
        /\ \A i \in 1 .. Len(head) + Len(body) :
             (head \o body)[i] = IF i <= Len(head) THEN head[i] ELSE body[i - Len(head)]
    BY <1>1, <1>2, ConcatProperties
  <2> QED BY <1>2, <2>1
<1>5. (head \o body)[1] = Header(g[o])
  BY <1>1, <1>2, <1>4
<1>6. ASSUME NEW i \in 1 .. n PROVE (head \o body)[i + 1] = body[i]
  <2>1. i + 1 \in 1 .. 1 + n /\ ~(i + 1 <= 1) /\ (i + 1) - 1 = i
    BY <1>1
  <2> QED BY <1>4, <2>1
<1> QED BY <1>3, <1>4, <1>5, <1>6 DEF IsSerialized, Size, body

\* A copied object in memory that is the same up to its end, more being copied.
LEMMA ContentsStay ==
    ASSUME NEW g, NEW r, GraphOK(g, r), NEW f, NEW from \in Nat, NEW end \in Nat,
           Layout(g, f, from, end), NEW mem, NEW sc, Contents(g, f, from, mem, sc),
           NEW e, Extends(f, e), NEW new,
           \A p \in 1 .. end : new[p] = mem[p], NEW o \in DOMAIN f
    PROVE  /\ new[from + e[o] + 1] = Header(g[o])
           /\ \A i \in 1 .. Len(g[o].body) : FieldOK(g, e, from, new, sc, o, i)
<1>1. e[o] = f[o] /\ \A q \in DOMAIN f : q \in DOMAIN e /\ e[q] = f[q]
  BY DEF Extends
<1> DEFINE a == f[o]
           n == Len(g[o].body)
<1>2. a \in Nat /\ n \in Nat /\ from + a + (1 + n) <= end
  BY GraphObject DEF Layout, Size
<1>3. new[from + a + 1] = mem[from + a + 1]
  <2> HIDE DEF a, n
  <2>1. from + a + 1 \in 1 .. end
    BY <1>2
  <2> QED BY <2>1
<1>4. ASSUME NEW i \in 1 .. n PROVE FieldOK(g, e, from, new, sc, o, i)
  <2>1. new[from + a + i + 1] = mem[from + a + i + 1]
    <3> HIDE DEF a, n
    <3>1. from + a + i + 1 \in 1 .. end
      BY <1>2
    <3> QED BY <3>1
  <2>2. FieldOK(g, f, from, mem, sc, o, i)
    BY DEF Contents
  <2>3. CASE from + a + i < sc
    <3>1. /\ mem[from + a + i + 1] = Image(g, f, o, i)
          /\ Points(g[o], i) /\ g[g[o].body[i].v].kind # "closure" => g[o].body[i].v \in DOMAIN f
      BY <2>2, <2>3 DEF FieldOK
    <3>2. Image(g, e, o, i) = Image(g, f, o, i)
      BY <1>1, <3>1 DEF Image
    <3> QED BY <1>1, <2>1, <2>3, <3>1, <3>2 DEF FieldOK
  <2>4. CASE ~(from + a + i < sc)
    BY <1>1, <2>1, <2>2, <2>4 DEF FieldOK
  <2> QED BY <2>3, <2>4
<1>5. mem[from + a + 1] = Header(g[o])
  BY DEF Contents
<1> QED BY <1>1, <1>3, <1>4, <1>5

\* An object may be in the copy.
MayCopy(g, r, o) == o \in DOMAIN g /\ g[o].kind # "closure" /\ Reached(g, r, {o})

\* Evacuating an object that has not been copied appends its copy.
LEMMA EvacuateNew ==
    ASSUME NEW g, NEW r, GraphOK(g, r), NEW base, NEW f, NEW s, NEW sc,
           CopyState(g, r, base, f, s, sc), NEW o, MayCopy(g, r, o), o \notin DOMAIN f
    PROVE  \E e : /\ CopyState(g, r, base, e, evacuate(s, o), sc) /\ Extends(f, e)
                  /\ o \in DOMAIN e
<1> DEFINE cells == serialize(s, o)
           n == evacuate(s, o)
           end == s.free
           size == Size(g[o])
           e == [q \in DOMAIN f \cup {o} |-> IF q = o THEN end - start ELSE f[q]]
<1>1. /\ o \in DOMAIN g /\ g[o].kind # "closure" /\ HeapIs(g, f, s.heap)
      /\ Layout(g, f, start, end) /\ Tiled(g, f, start, end)
      /\ Contents(g, f, start, s.mem, sc) /\ Frame(base, start, s.mem, end)
      /\ sc \in Nat /\ sc <= end
  BY DEF CopyState, MayCopy
<1>2. s.mem \in Seq(Cell) /\ start \in Nat /\ end \in Nat /\ start <= end /\ end <= Len(s.mem)
  BY <1>1 DEF Frame
<1>3. /\ cells \in Seq(Cell) /\ Len(cells) = size /\ cells[1] = Header(g[o])
      /\ \A i \in 1 .. Len(g[o].body) : cells[i + 1] = g[o].body[i]
  <2>1. IsSerialized(serialize(s, o), g[o])
    BY <1>1, Serialized
  <2> QED BY <2>1 DEF IsSerialized
<1>4. Len(g[o].body) \in Nat /\ size = 1 + Len(g[o].body) /\ size \in Nat
  BY <1>1, GraphObject DEF Size
<1>5. s.heap[o].kind # "fwd"
  BY <1>1, HeapObject
<1>6. n = [heap |-> [s.heap EXCEPT ![o] = [kind |-> "fwd", fwd |-> end - start]],
           mem  |-> Write(s.mem, end, cells), free |-> end + size]
  BY <1>3, <1>5 DEF evacuate
<1>7. /\ n = [heap |-> n.heap, mem |-> n.mem, free |-> n.free]
      /\ n.heap = [s.heap EXCEPT ![o] = [kind |-> "fwd", fwd |-> end - start]]
      /\ n.mem = Write(s.mem, end, cells) /\ n.free = end + size
  <2> HIDE DEF n, cells
  <2> QED BY <1>6
<1>8. Written(s.mem, end, cells, n.mem)
  <2> HIDE DEF n, cells
  <2> QED BY <1>2, <1>3, <1>7, WriteIs
<1> HIDE DEF n, cells
<1>9. DOMAIN e = DOMAIN f \cup {o} /\ e[o] = end - start /\ \A q \in DOMAIN f : e[q] = f[q]
  OBVIOUS
<1> HIDE DEF e, size, end
<1>10. Extends(f, e) /\ o \in DOMAIN e
  BY <1>9 DEF Extends
<1>11. HeapIs(g, e, n.heap)
  <2>1. s.heap = [q \in DOMAIN g |-> IF q \in DOMAIN f THEN [kind |-> "fwd", fwd |-> f[q]] ELSE g[q]]
    BY <1>1 DEF HeapIs
  <2> DEFINE h == [s.heap EXCEPT ![o] = [kind |-> "fwd", fwd |-> end - start]]
  <2>2. DOMAIN h = DOMAIN g
    BY <2>1
  <2>3. h = [q \in DOMAIN g |-> IF q \in DOMAIN e THEN [kind |-> "fwd", fwd |-> e[q]] ELSE g[q]]
    BY <1>1, <1>9, <2>1, <2>2
  <2> QED BY <1>7, <2>3 DEF HeapIs
<1>12. Layout(g, e, start, n.free)
  <2>1. ASSUME NEW q \in DOMAIN e
        PROVE  /\ q \in DOMAIN g /\ g[q].kind # "closure" /\ e[q] \in Nat
               /\ start + e[q] + Size(g[q]) <= n.free
    <3>1. CASE q = o
      BY <1>1, <1>2, <1>4, <1>7, <1>9, <3>1 DEF size
    <3>2. CASE q # o
      <4>1. /\ q \in DOMAIN f /\ q \in DOMAIN g /\ g[q].kind # "closure" /\ f[q] \in Nat
            /\ start + f[q] + Size(g[q]) <= end
        BY <1>1, <1>9, <3>2 DEF Layout
      <4>2. Size(g[q]) \in Nat
        BY <4>1, GraphObject DEF Size
      <4> QED BY <1>2, <1>4, <1>7, <1>9, <4>1, <4>2, SMTT(30)
    <3> QED BY <3>1, <3>2
  <2>2. ASSUME NEW q \in DOMAIN f PROVE f[q] + Size(g[q]) <= end - start
    <3>1. f[q] \in Nat /\ q \in DOMAIN g /\ start + f[q] + Size(g[q]) <= end
      BY <1>1 DEF Layout
    <3>2. Size(g[q]) \in Nat
      BY <3>1, GraphObject DEF Size
    <3> QED BY <1>2, <3>1, <3>2
  <2>3. ASSUME NEW p \in DOMAIN e, NEW q \in DOMAIN e, p # q
        PROVE  e[p] + Size(g[p]) <= e[q] \/ e[q] + Size(g[q]) <= e[p]
    <3>1. CASE p = o
      BY <1>9, <2>2, <2>3, <3>1
    <3>2. CASE q = o
      BY <1>9, <2>2, <2>3, <3>2
    <3>3. CASE p # o /\ q # o
      BY <1>1, <1>9, <2>3, <3>3 DEF Layout
    <3> QED BY <3>1, <3>2, <3>3
  <2> QED BY <2>1, <2>3 DEF Layout
<1>13. Tiled(g, e, start, n.free)
  <2>1. start + e[o] = end
    BY <1>2, <1>9
  <2>2. start + e[o] + Size(g[o]) = n.free
    BY <1>7, <2>1 DEF size
  <2>3. ASSUME NEW q \in DOMAIN f PROVE Begins(e, start, n.free, start + e[q] + Size(g[q]))
    <3>1. Begins(f, start, end, start + f[q] + Size(g[q]))
      BY <1>1 DEF Tiled
    <3> QED BY <1>9, <2>1, <3>1 DEF Begins
  <2>4. Begins(e, start, n.free, start + e[o] + Size(g[o]))
    BY <2>2 DEF Begins
  <2>5. Begins(e, start, n.free, start)
    <3>1. Begins(f, start, end, start)
      BY <1>1 DEF Tiled
    <3> QED BY <1>9, <2>1, <3>1 DEF Begins
  <2> QED BY <1>9, <2>3, <2>4, <2>5 DEF Tiled
<1>14. /\ n.mem \in Seq(Cell) /\ Len(s.mem) \in Nat /\ Len(n.mem) \in Nat
       /\ AlignUp(end + size) \in Nat /\ end + size <= AlignUp(end + size)
       /\ AlignUp(end + size) % PageCells = 0
       /\ Len(n.mem) = IF AlignUp(end + size) > Len(s.mem) THEN AlignUp(end + size) ELSE Len(s.mem)
       /\ \A p \in 1 .. Len(n.mem) :
            n.mem[p] = IF p > end /\ p <= end + size THEN cells[p - end]
                       ELSE IF p <= Len(s.mem) THEN s.mem[p] ELSE ZeroCell
  <2>1. end + size \in Nat
    BY <1>2, <1>4
  <2> DEFINE top == end + size
  <2> HIDE DEF top
  <2>2. AlignUp(top) \in Nat /\ top <= AlignUp(top) /\ AlignUp(top) % PageCells = 0
    BY <2>1, AlignUpIs DEF top
  <2>3. Len(s.mem) \in Nat
    BY <1>2, LenProperties
  <2> QED BY <1>3, <1>8, <2>2, <2>3 DEF Written, top
<1>15. \A p \in 1 .. end : n.mem[p] = s.mem[p]
  BY <1>2, <1>4, <1>14, SMTT(30)
<1>16. \A p \in 1 .. size : n.mem[end + p] = cells[p]
  <2>1. ASSUME NEW p \in 1 .. size PROVE n.mem[end + p] = cells[p]
    <3>1. end + p \in 1 .. Len(n.mem) /\ end + p > end /\ end + p <= end + size /\ (end + p) - end = p
      BY <1>2, <1>4, <1>14
    <3> QED BY <1>14, <3>1
  <2> QED BY <2>1
<1>17. Contents(g, e, start, n.mem, sc)
  <2>1. start + e[o] = end
    BY <1>2, <1>9
  <2>2. n.mem[start + e[o] + 1] = Header(g[o])
    <3>1. 1 \in 1 .. size
      BY <1>4
    <3> QED BY <1>3, <1>16, <2>1, <3>1
  <2>3. ASSUME NEW i \in 1 .. Len(g[o].body) PROVE FieldOK(g, e, start, n.mem, sc, o, i)
    <3>1. i + 1 \in 1 .. size /\ end + i + 1 = end + (i + 1) /\ ~(end + i < sc)
      BY <1>1, <1>2, <1>4
    <3>2. n.mem[end + i + 1] = g[o].body[i]
      BY <1>3, <1>16, <3>1
    <3> QED BY <2>1, <3>1, <3>2 DEF FieldOK
  <2>4. ASSUME NEW q \in DOMAIN f
        PROVE  /\ n.mem[start + e[q] + 1] = Header(g[q])
               /\ \A i \in 1 .. Len(g[q].body) : FieldOK(g, e, start, n.mem, sc, q, i)
    <3> DEFINE mem == s.mem
               new == n.mem
    <3>1. /\ Layout(g, f, start, end) /\ Contents(g, f, start, mem, sc)
          /\ \A p \in 1 .. end : new[p] = mem[p]
      BY <1>1, <1>15
    <3> HIDE DEF mem, new
    <3>2. /\ new[start + e[q] + 1] = Header(g[q])
          /\ \A i \in 1 .. Len(g[q].body) : FieldOK(g, e, start, new, sc, q, i)
      BY <1>2, <1>10, <3>1, ContentsStay
    <3> QED BY <3>2 DEF new
  <2> QED BY <1>9, <2>2, <2>3, <2>4 DEF Contents
<1>18. Frame(base, start, n.mem, n.free)
  <2>1. Len(s.mem) % PageCells = 0 /\ Len(base) <= Len(s.mem)
        /\ \A p \in 1 .. Len(s.mem) : (p <= start => s.mem[p] = base[p]) /\ (p > end => s.mem[p] = ZeroCell)
    BY <1>1 DEF Frame
  <2>2. Len(n.mem) % PageCells = 0
    BY <1>14, <2>1
  <2>3. n.free \in Nat /\ start <= n.free /\ n.free <= Len(n.mem) /\ Len(s.mem) <= Len(n.mem)
    <3>1. n.free = end + size
      BY <1>7
    <3>4. end + size \in Nat /\ start <= end + size
      BY <1>2, <1>4
    <3>2. end + size <= Len(n.mem)
      BY <1>14, <3>4
    <3>3. Len(s.mem) <= Len(n.mem)
      BY <1>14
    <3> QED BY <3>1, <3>2, <3>3, <3>4
  <2>4. ASSUME NEW p \in 1 .. Len(n.mem)
        PROVE  (p <= start => n.mem[p] = base[p]) /\ (p > n.free => n.mem[p] = ZeroCell)
    <3>1. p <= start => p \in 1 .. Len(s.mem) /\ p \in 1 .. end
      BY <1>2, <1>14
    <3>2. p > n.free => ~(p > end /\ p <= end + size) /\ p > end
      BY <1>2, <1>4, <1>7, <1>14
    <3>3. p <= Len(s.mem) => p \in 1 .. Len(s.mem)
      BY <1>14
    <3> QED BY <1>14, <1>15, <2>1, <3>1, <3>2, <3>3
  <2>5. Len(base) <= Len(n.mem)
    BY <1>1, <1>14, <2>3 DEF Frame
  <2> QED BY <1>2, <1>14, <2>2, <2>3, <2>4, <2>5 DEF Frame
<1>19. Reached(g, r, DOMAIN e)
  BY <1>9 DEF CopyState, MayCopy, Reached
<1>20. sc <= n.free
  BY <1>1, <1>2, <1>4, <1>7
<1>21. CopyState(g, r, base, e, n, sc)
  BY <1>1, <1>7, <1>11, <1>12, <1>13, <1>17, <1>18, <1>19, <1>20 DEF CopyState
<1> QED BY <1>10, <1>21 DEF n

\* Evacuating an object leaves it with a copy, what has been copied stays.
LEMMA Evacuate ==
    ASSUME NEW g, NEW r, GraphOK(g, r), NEW base, NEW f, NEW s, NEW sc,
           CopyState(g, r, base, f, s, sc), NEW o, MayCopy(g, r, o)
    PROVE  \E e : /\ CopyState(g, r, base, e, evacuate(s, o), sc) /\ Extends(f, e)
                  /\ o \in DOMAIN e
<1>1. CASE o \in DOMAIN f
  <2>1. s.heap[o].kind = "fwd"
    BY <1>1, HeapObject DEF CopyState, MayCopy
  <2>2. evacuate(s, o) = s
    BY <2>1 DEF evacuate
  <2>3. CopyState(g, r, base, f, evacuate(s, o), sc)
    BY <2>2
  <2>4. Extends(f, f)
    BY DEF Extends
  <2> QED BY <1>1, <2>3, <2>4
<1>2. CASE o \notin DOMAIN f
  BY <1>2, EvacuateNew
<1> QED BY <1>1, <1>2

\* The scan address passes the header or a field of a copy.
LEMMA Advance ==
    ASSUME NEW g, NEW r, GraphOK(g, r), NEW base, NEW f, NEW s, NEW sc,
           CopyState(g, r, base, f, s, sc), NEW o \in DOMAIN f,
           NEW i \in 0 .. Len(g[o].body), sc = start + f[o] + i,
           NEW new \in Seq(Cell), Len(new) = Len(s.mem),
           \A p \in 1 .. Len(new) : p # sc + 1 => new[p] = s.mem[p],
           IF i = 0 THEN new[sc + 1] = s.mem[sc + 1] ELSE FieldOK(g, f, start, new, sc + 1, o, i)
    PROVE  CopyState(g, r, base, f, [heap |-> s.heap, mem |-> new, free |-> s.free], sc + 1)
<1> DEFINE mem == s.mem
           end == s.free
           t == [heap |-> s.heap, mem |-> new, free |-> s.free]
<1>1. /\ Layout(g, f, start, end) /\ Contents(g, f, start, mem, sc) /\ sc \in Nat
      /\ Frame(base, start, mem, end)
  BY DEF CopyState
<1>2. /\ start \in Nat /\ end \in Nat /\ end <= Len(mem) /\ Len(mem) \in Nat
  BY <1>1, LenProperties DEF Frame
<1>3. /\ sc < end /\ start <= sc
  <2>1. f[o] \in Nat /\ start + f[o] + (1 + Len(g[o].body)) <= end /\ o \in DOMAIN g
    BY <1>1 DEF Layout, Size
  <2>2. Len(g[o].body) \in Nat /\ i \in Nat /\ i <= Len(g[o].body)
    BY <2>1, GraphObject
  <2> DEFINE a == f[o]
             n == Len(g[o].body)
  <2>3. sc = start + a + i
    OBVIOUS
  <2>4. a \in Nat /\ n \in Nat /\ i \in Nat /\ i <= n
    BY <2>1, <2>2
  <2>5. start + a + (1 + n) <= end
    BY <2>1
  <2> HIDE DEF a, n, end
  <2> QED BY <1>2, <2>3, <2>4, <2>5
<1>4. ASSUME NEW q \in DOMAIN f, NEW j \in 0 .. Len(g[q].body)
      PROVE  /\ start + f[q] + j \in Nat /\ start + f[q] + j + 1 \in 1 .. Len(new)
             /\ start + f[q] + j = sc => q = o /\ j = i
  <2>1. f[q] \in Nat /\ start + f[q] + (1 + Len(g[q].body)) <= end /\ q \in DOMAIN g
    BY <1>1 DEF Layout, Size
  <2>2. Len(g[q].body) \in Nat /\ j \in Nat /\ j <= Len(g[q].body)
    BY <2>1, GraphObject
  <2>3. start + f[q] + j \in Nat /\ start + f[q] + j + 1 \in 1 .. Len(new)
    <3> DEFINE a == f[q]
               n == Len(g[q].body)
               l == Len(mem)
    <3>1. Len(new) = l /\ l \in Nat /\ end <= l
      BY <1>2
    <3>2. a \in Nat /\ n \in Nat /\ j \in Nat /\ j <= n
      BY <2>1, <2>2
    <3>3. start + a + (1 + n) <= end
      BY <2>1
    <3> HIDE DEF a, n, l, end
    <3>4. start + a + j \in Nat /\ start + a + j + 1 \in 1 .. Len(new)
      BY <1>2, <3>1, <3>2, <3>3
    <3> QED BY <3>4 DEF a
  <2>4. ASSUME start + f[q] + j = sc PROVE q = o /\ j = i
    <3> HIDE DEF end
    <3> QED BY <1>1, <1>2, <2>4, Places
  <2> QED BY <2>3, <2>4
<1> HIDE DEF mem, end
<1>5. Contents(g, f, start, new, sc + 1)
  <2>1. ASSUME NEW q \in DOMAIN f PROVE new[start + f[q] + 1] = Header(g[q])
    <3>1. mem[start + f[q] + 1] = Header(g[q])
      BY <1>1 DEF Contents
    <3>2. 0 \in 0 .. Len(g[q].body) /\ start + f[q] + 0 = start + f[q]
      BY <1>1, <1>2, GraphObject DEF Layout
    <3>3. /\ start + f[q] \in Nat /\ start + f[q] + 1 \in 1 .. Len(new)
          /\ start + f[q] = sc => q = o /\ i = 0
      BY <1>4, <3>2
    <3>4. CASE start + f[q] = sc
      BY <3>1, <3>3, <3>4 DEF mem
    <3>5. CASE start + f[q] # sc
      <4>1. start + f[q] + 1 # sc + 1
        BY <1>1, <3>3, <3>5
      <4> QED BY <3>1, <3>3, <4>1 DEF mem
    <3> QED BY <3>4, <3>5
  <2>2. ASSUME NEW q \in DOMAIN f, NEW j \in 1 .. Len(g[q].body)
        PROVE  FieldOK(g, f, start, new, sc + 1, q, j)
    <3>1. FieldOK(g, f, start, mem, sc, q, j)
      BY <1>1 DEF Contents
    <3>2. j \in 0 .. Len(g[q].body) /\ j # 0
      OBVIOUS
    <3>3. /\ start + f[q] + j \in Nat /\ start + f[q] + j + 1 \in 1 .. Len(new)
          /\ start + f[q] + j = sc => q = o /\ j = i
      BY <1>4, <3>2
    <3>4. CASE start + f[q] + j = sc
      BY <3>2, <3>3, <3>4
    <3>5. CASE start + f[q] + j # sc
      <4> DEFINE a == start + f[q] + j
      <4>1. a \in Nat /\ a # sc /\ sc \in Nat
        BY <1>1, <3>3, <3>5
      <4>2. new[a + 1] = mem[a + 1]
        <5>1. a + 1 # sc + 1
          <6> HIDE DEF a
          <6> QED BY <4>1
        <5> QED BY <3>3, <5>1 DEF mem
      <4>3. a < sc + 1 <=> a < sc
        <5> HIDE DEF a
        <5> QED BY <4>1
      <4> QED BY <3>1, <4>2, <4>3 DEF FieldOK
    <3> QED BY <3>4, <3>5
  <2> QED BY <2>1, <2>2 DEF Contents
<1>6. Frame(base, start, new, end)
  <2>1. /\ Len(mem) % PageCells = 0 /\ start <= end /\ Len(base) \in Nat /\ Len(base) <= Len(mem)
        /\ \A p \in 1 .. Len(mem) : (p <= start => mem[p] = base[p]) /\ (p > end => mem[p] = ZeroCell)
    BY <1>1 DEF Frame
  <2>2. Len(new) = Len(mem)
    BY DEF mem
  <2>3. ASSUME NEW p \in 1 .. Len(new)
        PROVE  (p <= start => new[p] = base[p]) /\ (p > end => new[p] = ZeroCell)
    <3>1. p <= start \/ p > end => p # sc + 1
      BY <1>1, <1>2, <1>3
    <3> QED BY <2>1, <2>2, <3>1 DEF mem
  <2> QED BY <1>2, <2>1, <2>2, <2>3 DEF Frame
<1>7. sc + 1 \in Nat /\ sc + 1 <= end
  BY <1>1, <1>2, <1>3
<1> QED BY <1>5, <1>6, <1>7 DEF CopyState, end

\* The scan address passes a header or a field that is kept.
LEMMA Skip ==
    ASSUME NEW g, NEW r, GraphOK(g, r), NEW base, NEW f, NEW s, NEW sc,
           CopyState(g, r, base, f, s, sc), NEW o \in DOMAIN f,
           NEW i \in 0 .. Len(g[o].body), sc = start + f[o] + i, i # 0 => ~Points(g[o], i)
    PROVE  CopyState(g, r, base, f, s, sc + 1)
<1>1. /\ Contents(g, f, start, s.mem, sc) /\ sc \in Nat /\ s.mem \in Seq(Cell)
      /\ s = [heap |-> s.heap, mem |-> s.mem, free |-> s.free]
  BY DEF CopyState, Frame
<1>2. ASSUME i # 0 PROVE FieldOK(g, f, start, s.mem, sc + 1, o, i)
  <2>1. i \in 1 .. Len(g[o].body)
    BY <1>2
  <2>2. FieldOK(g, f, start, s.mem, sc, o, i)
    BY <1>1, <2>1 DEF Contents
  <2>3. ~(sc < sc) /\ sc < sc + 1
    BY <1>1
  <2> QED BY <1>2, <2>2, <2>3 DEF FieldOK, Image
<1>3. CopyState(g, r, base, f, [heap |-> s.heap, mem |-> s.mem, free |-> s.free], sc + 1)
  <2> DEFINE new == s.mem
  <2>1. new \in Seq(Cell) /\ Len(new) = Len(s.mem) /\ \A p \in 1 .. Len(new) : new[p] = s.mem[p]
    BY <1>1
  <2>2. IF i = 0 THEN new[sc + 1] = s.mem[sc + 1] ELSE FieldOK(g, f, start, new, sc + 1, o, i)
    BY <1>2
  <2> HIDE DEF new
  <2>3. CopyState(g, r, base, f, [heap |-> s.heap, mem |-> new, free |-> s.free], sc + 1)
    BY <2>1, <2>2, Advance
  <2> QED BY <2>3 DEF new
<1> QED BY <1>1, <1>3

\* A field that is replaced at the scan address.
LEMMA Replace ==
    ASSUME NEW g, NEW r, GraphOK(g, r), NEW base, NEW f, NEW s, NEW sc,
           CopyState(g, r, base, f, s, sc), NEW o \in DOMAIN f,
           NEW i \in 1 .. Len(g[o].body), sc = start + f[o] + i, NEW x \in Cell,
           Points(g[o], i), x = Image(g, f, o, i),
           g[g[o].body[i].v].kind # "closure" => g[o].body[i].v \in DOMAIN f
    PROVE  CopyState(g, r, base, f, [s EXCEPT !.mem[sc + 1] = x], sc + 1)
<1> DEFINE mem == s.mem
           new == [mem EXCEPT ![sc + 1] = x]
<1>1. /\ mem \in Seq(Cell) /\ sc \in Nat /\ s = [heap |-> s.heap, mem |-> mem, free |-> s.free]
      /\ sc = start + f[o] + i
  BY DEF CopyState, Frame
<1>2. sc + 1 \in 1 .. Len(mem)
  <2>1. /\ o \in DOMAIN g /\ f[o] \in Nat /\ start + f[o] + (1 + Len(g[o].body)) <= s.free
        /\ start \in Nat /\ s.free \in Nat /\ s.free <= Len(mem) /\ Len(mem) \in Nat
    BY LenProperties DEF CopyState, Layout, Frame, Size
  <2>2. Len(g[o].body) \in Nat
    BY <2>1, GraphObject
  <2> DEFINE a == f[o]
             n == Len(g[o].body)
             end == s.free
             l == Len(mem)
  <2>3. /\ a \in Nat /\ start + a + (1 + n) <= end
        /\ start \in Nat /\ end \in Nat /\ end <= l /\ l \in Nat
    BY <2>1
  <2>4. n \in Nat /\ i \in 1 .. n /\ sc = start + a + i
    BY <2>2
  <2> HIDE DEF a, n, end, l
  <2>5. sc + 1 \in 1 .. l
    BY <2>3, <2>4
  <2> QED BY <2>5 DEF l
<1>3. [s EXCEPT !.mem[sc + 1] = x] = [heap |-> s.heap, mem |-> new, free |-> s.free]
  <2> DEFINE h == s.heap
             e == s.free
             k == sc + 1
  <2>1. s = [heap |-> h, mem |-> mem, free |-> e]
    BY <1>1
  <2> HIDE DEF h, mem, e, k
  <2>2. [s EXCEPT !.mem[k] = x] = [heap |-> h, mem |-> [mem EXCEPT ![k] = x], free |-> e]
    BY <2>1
  <2> QED BY <2>2 DEF h, e, k
<1> HIDE DEF mem
<1>4. /\ new \in Seq(Cell) /\ Len(new) = Len(mem)
      /\ \A j \in 1 .. Len(mem) : new[j] = IF j = sc + 1 THEN x ELSE mem[j]
  BY <1>1, <1>2, ExceptSeq
<1>5. FieldOK(g, f, start, new, sc + 1, o, i)
  <2>1. new[sc + 1] = x
    BY <1>2, <1>4
  <2>2. sc < sc + 1
    BY <1>1
  <2> QED BY <1>1, <2>1, <2>2 DEF FieldOK
<1> HIDE DEF new
<1>6. i # 0 /\ i \in 0 .. Len(g[o].body)
  OBVIOUS
<1>7. Len(new) = Len(s.mem) /\ \A p \in 1 .. Len(new) : p # sc + 1 => new[p] = s.mem[p]
  BY <1>4 DEF mem
<1>8. CopyState(g, r, base, f, [heap |-> s.heap, mem |-> new, free |-> s.free], sc + 1)
  BY <1>1, <1>4, <1>5, <1>6, <1>7, Advance
<1> QED BY <1>3, <1>8

\* Translating a pointer field of a copy: what it points to has a copy, or is a closure.
LEMMA Translate ==
    ASSUME NEW g, NEW r, GraphOK(g, r), NEW base, NEW f, NEW s, NEW sc,
           CopyState(g, r, base, f, s, sc), NEW o \in DOMAIN f,
           NEW i \in 1 .. Len(g[o].body), sc = start + f[o] + i,
           g[o].body[i].k = "ptr" => Points(g[o], i)
    PROVE  \E e : CopyState(g, r, base, e, translate(s, sc), sc + 1) /\ Extends(f, e)
<1> DEFINE c == s.mem[sc + 1]
           v == g[o].body[i].v
<1>1. /\ HeapIs(g, f, s.heap) /\ Layout(g, f, start, s.free)
      /\ Contents(g, f, start, s.mem, sc) /\ sc \in Nat /\ Reached(g, r, DOMAIN f)
  BY DEF CopyState
<1>2. o \in DOMAIN g /\ g[o].kind # "closure"
  BY <1>1 DEF Layout
<1>3. c = g[o].body[i]
  <2>1. FieldOK(g, f, start, s.mem, sc, o, i)
    BY <1>1 DEF Contents
  <2>2. ~(sc < sc)
    BY <1>1
  <2> QED BY <2>1, <2>2 DEF FieldOK
<1>4. i \in 0 .. Len(g[o].body)
  OBVIOUS
<1>5. CASE ~Points(g[o], i)
  <2>1. c.k # "ptr"
    BY <1>3, <1>5
  <2>2. translate(s, sc) = s
    BY <2>1 DEF translate
  <2>3. CopyState(g, r, base, f, s, sc + 1)
    BY <1>4, <1>5, Skip
  <2>4. Extends(f, f)
    BY DEF Extends
  <2> QED BY <2>2, <2>3, <2>4
<1>6. CASE Points(g[o], i)
  <2>1. v \in DOMAIN g /\ c.k = "ptr" /\ c.v = v
    BY <1>2, <1>3, <1>6, GraphObject DEF Points
  <2> HIDE DEF c
  <2>2. CASE g[v].kind = "closure"
    <3>1. v \notin DOMAIN f
      BY <1>1, <2>2 DEF Layout
    <3>2. s.heap[v] = g[v]
      BY <1>1, <2>1, <3>1, HeapObject
    <3>3. translate(s, sc) = [s EXCEPT !.mem[sc + 1] = DUMMY_VALUE]
      BY <2>1, <2>2, <3>2 DEF translate, c
    <3>4. Image(g, f, o, i) = DUMMY_VALUE
      BY <1>6, <2>2 DEF Image
    <3>5. DUMMY_VALUE \in Cell
      BY DEF DUMMY_VALUE, cell, Cell
    <3>6. CopyState(g, r, base, f, [s EXCEPT !.mem[sc + 1] = DUMMY_VALUE], sc + 1)
      BY <1>6, <2>2, <3>4, <3>5, Replace
    <3>7. Extends(f, f)
      BY DEF Extends
    <3> QED BY <3>3, <3>6, <3>7
  <2>3. CASE g[v].kind # "closure"
    <3> DEFINE n == evacuate(s, v)
    <3>1. MayCopy(g, r, v)
      <4>1. ASSUME NEW S \in SUBSET DOMAIN g, Closed(g, r, S) PROVE v \in S
        <5>1. o \in S /\ i \in DOMAIN g[o].body
          BY <1>1, <1>2, <4>1, GraphObject DEF Reached
        <5> QED BY <1>6, <2>3, <4>1, <5>1 DEF Closed
      <4> QED BY <2>1, <2>3, <4>1 DEF MayCopy, Reached
    <3>2. PICK e : CopyState(g, r, base, e, n, sc) /\ Extends(f, e) /\ v \in DOMAIN e
      BY <3>1, Evacuate
    <3>3. s.heap[v].kind # "closure"
      <4>1. v \in DOMAIN f \/ v \notin DOMAIN f
        OBVIOUS
      <4> QED BY <1>1, <2>1, <2>3, <4>1, HeapObject
    <3>4. n.heap[v].fwd = e[v]
      <4>1. HeapIs(g, e, n.heap)
        BY <3>2 DEF CopyState
      <4> HIDE DEF n
      <4> QED BY <2>1, <3>2, <4>1, HeapObject
    <3>5. translate(s, sc) = [n EXCEPT !.mem[sc + 1] = cell("ptr", n.heap[v].fwd)]
      BY <2>1, <3>3 DEF translate, c
    <3> HIDE DEF n
    <3>6. Image(g, e, o, i) = cell("ptr", e[v])
      BY <1>6, <2>3 DEF Image
    <3>7. e[v] \in Nat
      BY <3>2 DEF CopyState, Layout
    <3>8. cell("ptr", e[v]) \in Cell
      BY <3>7 DEF cell, Cell
    <3>9. o \in DOMAIN e /\ sc = start + e[o] + i
      BY <3>2 DEF Extends
    <3>10. CopyState(g, r, base, e, [n EXCEPT !.mem[sc + 1] = cell("ptr", e[v])], sc + 1)
      BY <1>6, <3>2, <3>6, <3>8, <3>9, Replace
    <3> QED BY <3>2, <3>4, <3>5, <3>10
  <2> QED BY <2>2, <2>3
<1> QED BY <1>5, <1>6

-----------------------------------------------------------------------------
(* The fields of a copy are translated one after the other. *)

\* What the translation of field i makes of a state.
translated(s, at, fields, i) == IF fields[i] THEN translate(s, at + (i - 1)) ELSE s

\* The states after each of the first n fields.
After(a, s, at, fields, n) ==
  a = [i \in 0 .. n |-> IF i = 0 THEN s
                        ELSE CHOOSE v \in {IF fields[i] THEN translate(r, at + (i - 1)) ELSE r :
                                             r \in {a[i - 1]}} : TRUE]

\* Each state results from the one before.
LEMMA AfterStep ==
    ASSUME NEW a, NEW s, NEW at, NEW fields, NEW n \in Nat, After(a, s, at, fields, n)
    PROVE  a[0] = s /\ \A i \in 1 .. n : a[i] = translated(a[i - 1], at, fields, i)
<1>1. a[0] = s
  BY DEF After
<1>2. ASSUME NEW i \in 1 .. n PROVE a[i] = translated(a[i - 1], at, fields, i)
  <2> DEFINE set == {IF fields[i] THEN translate(r, at + (i - 1)) ELSE r : r \in {a[i - 1]}}
  <2>1. a[i] = CHOOSE v \in set : TRUE
    BY DEF After
  <2>2. set = {translated(a[i - 1], at, fields, i)}
    BY DEF translated
  <2> HIDE DEF set
  <2> QED BY <2>1, <2>2
<1> QED BY <1>1, <1>2

\* There are such states.
LEMMA AfterExists ==
    ASSUME NEW s, NEW at, NEW fields, NEW n \in Nat
    PROVE  \E a : After(a, s, at, fields, n)
<1> DEFINE S == {m \in Nat : ~\E a : After(a, s, at, fields, m)}
<1> SUFFICES ASSUME S # {} PROVE FALSE
  OBVIOUS
<1>1. PICK m \in S : \A k \in S : m <= k
  <2> HIDE DEF S
  <2> QED BY LeastNumber DEF S
<1>2. m # 0
  <2>1. After([i \in 0 .. 0 |-> s], s, at, fields, 0)
    BY DEF After
  <2> QED BY <2>1
<1>3. m \in Nat /\ m - 1 \in Nat /\ m - 1 \notin S
  BY <1>1, <1>2
<1>4. PICK b : After(b, s, at, fields, m - 1)
  BY <1>3
<1> DEFINE last(i) == CHOOSE v \in {IF fields[i] THEN translate(r, at + (i - 1)) ELSE r :
                                      r \in {b[i - 1]}} : TRUE
           a == [i \in 0 .. m |-> IF i = 0 THEN s ELSE last(i)]
<1>5. \A i \in 0 .. m - 1 : a[i] = b[i]
  <2>1. \A i \in 0 .. m - 1 : b[i] = IF i = 0 THEN s ELSE last(i)
    BY <1>4 DEF After
  <2>2. \A i \in 0 .. m - 1 : i \in 0 .. m
    BY <1>3
  <2> HIDE DEF last
  <2> QED BY <2>1, <2>2
<1>6. \A i \in 0 .. m : i # 0 => i - 1 \in 0 .. m - 1
  BY <1>3
<1>7. After(a, s, at, fields, m)
  <2>1. \A i \in 0 .. m : i # 0 => a[i - 1] = b[i - 1]
    BY <1>5, <1>6
  <2> HIDE DEF a
  <2>2. a = [i \in 0 .. m |-> IF i = 0 THEN s
                        ELSE CHOOSE v \in {IF fields[i] THEN translate(r, at + (i - 1)) ELSE r :
                                             r \in {a[i - 1]}} : TRUE]
    BY <2>1 DEF a
  <2> QED BY <2>2 DEF After
<1> QED BY <1>7

\* A part of the fields of an object, with those that may be pointers.
FieldsOf(obj, k, fields) ==
  /\ Len(fields) \in Nat /\ k \in Nat /\ k + Len(fields) <= Len(obj.body)
  /\ \A i \in 1 .. Len(fields) :
       IF fields[i] THEN obj.body[k + i].k = "ptr" => Points(obj, k + i)
       ELSE ~Points(obj, k + i)

\* Translating them moves the scan address behind them.
LEMMA TranslateAll ==
    ASSUME NEW g, NEW r, GraphOK(g, r), NEW base, NEW f, NEW s, NEW at,
           CopyState(g, r, base, f, s, at), NEW o \in DOMAIN f, NEW k, NEW fields,
           FieldsOf(g[o], k, fields), at = start + f[o] + 1 + k
    PROVE  \E e : /\ CopyState(g, r, base, e, translateAll(s, at, fields), at + Len(fields))
                  /\ Extends(f, e)
<1> DEFINE n == Len(fields)
           a == CHOOSE b : After(b, s, at, fields, n)
<1>1. /\ n \in Nat /\ k \in Nat /\ k + n <= Len(g[o].body) /\ at \in Nat /\ start \in Nat
      /\ f[o] \in Nat /\ o \in DOMAIN g
  BY DEF CopyState, FieldsOf, Frame, Layout
<1>2. Len(g[o].body) \in Nat
  BY <1>1, GraphObject
<1> HIDE DEF n
<1>3. After(a, s, at, fields, n)
  BY <1>1, AfterExists
<1>4. translateAll(s, at, fields) = a[n]
  BY DEF translateAll, After, n
<1> HIDE DEF a
<1>5. a[0] = s /\ \A i \in 1 .. n : a[i] = translated(a[i - 1], at, fields, i)
  BY <1>1, <1>3, AfterStep
<1> DEFINE Good(i) == \E e : CopyState(g, r, base, e, a[i], at + i) /\ Extends(f, e)
<1>6. Good(0)
  <2>1. Extends(f, f) /\ at + 0 = at
    BY <1>1 DEF Extends
  <2> QED BY <1>5, <2>1
<1>7. ASSUME NEW i \in 1 .. n, Good(i - 1) PROVE Good(i)
  <2>1. PICK e : CopyState(g, r, base, e, a[i - 1], at + (i - 1)) /\ Extends(f, e)
    BY <1>7
  <2>2. o \in DOMAIN e /\ e[o] = f[o]
    BY <2>1 DEF Extends
  <2> DEFINE sc == at + (i - 1)
             l == Len(g[o].body)
             p == f[o]
  <2>3. /\ k + i \in 1 .. Len(g[o].body) /\ k + i \in 0 .. Len(g[o].body) /\ k + i # 0
        /\ sc = start + e[o] + (k + i) /\ at + i = sc + 1
    <3>1. at = start + p + 1 + k /\ p \in Nat /\ l \in Nat /\ k + n <= l
      BY <1>1, <1>2
    <3> HIDE DEF l, p
    <3>2. /\ k + i \in 1 .. l /\ k + i \in 0 .. l /\ k + i # 0
          /\ at + (i - 1) = start + p + (k + i) /\ at + i = at + (i - 1) + 1
      BY <1>1, <3>1, SMTT(30)
    <3> QED BY <2>2, <3>2 DEF l, p
  <2>4. a[i] = translated(a[i - 1], at, fields, i)
    BY <1>5
  <2>5. IF fields[i] THEN g[o].body[k + i].k = "ptr" => Points(g[o], k + i)
        ELSE ~Points(g[o], k + i)
    BY DEF FieldsOf, n
  <2> DEFINE t == a[i - 1]
  <2>6. CopyState(g, r, base, e, t, sc)
    BY <2>1
  <2> HIDE DEF sc, t
  <2>7. CASE fields[i]
    <3>1. \E d : CopyState(g, r, base, d, translate(t, sc), sc + 1) /\ Extends(e, d)
      BY <2>2, <2>3, <2>5, <2>6, <2>7, Translate
    <3>2. a[i] = translate(t, sc)
      BY <2>4, <2>7 DEF translated, t, sc
    <3>3. \A d : Extends(e, d) => Extends(f, d)
      BY <2>1 DEF Extends
    <3> QED BY <2>3, <3>1, <3>2, <3>3
  <2>8. CASE ~fields[i]
    <3>1. CopyState(g, r, base, e, t, sc + 1)
      BY <2>2, <2>3, <2>5, <2>6, <2>8, Skip
    <3>2. a[i] = t
      BY <2>4, <2>8 DEF translated, t
    <3> QED BY <2>1, <2>3, <3>1, <3>2
  <2> QED BY <2>7, <2>8
<1> HIDE DEF Good
<1>8. Good(n)
  <2> DEFINE S == {i \in 0 .. n : ~Good(i)}
  <2> SUFFICES ASSUME S # {} PROVE FALSE
    BY <1>1
  <2>1. S \subseteq Nat
    BY <1>1
  <2>2. PICK i \in S : \A j \in S : i <= j
    <3> HIDE DEF S
    <3> QED BY <2>1, LeastNumber
  <2>3. i # 0 /\ i \in 1 .. n
    BY <1>1, <1>6, <2>2
  <2>4. i - 1 \in 0 .. n /\ i - 1 \notin S
    BY <1>1, <2>2, <2>3
  <2> QED BY <1>7, <2>2, <2>3, <2>4
<1> QED BY <1>4, <1>8 DEF Good, n

-----------------------------------------------------------------------------
(* The layouts: the header of a copy tells which of its fields are pointers. *)

Layouts(obj) == pointerFields(Header(obj).k, Header(obj).v)

\* The layout of an array names all its elements.
LEMMA ArrayFields ==
    ASSUME NEW g, NEW r, GraphOK(g, r), NEW o \in DOMAIN g, g[o].kind = "array",
           NEW k \in Nat, NEW n \in Nat, k + n <= Len(g[o].body)
    PROVE  FieldsOf(g[o], k, pointerFields("array", n)) /\ Len(pointerFields("array", n)) = n
<1>1. pointerFields("array", n) = [i \in 1 .. n |-> TRUE]
  BY DEF pointerFields, StableArray
<1>2. Len([i \in 1 .. n |-> TRUE]) = n
  OBVIOUS
<1>3. \A i \in 1 .. n : [j \in 1 .. n |-> TRUE][i]
  OBVIOUS
<1>4. \A i \in 1 .. n : g[o].body[k + i].k = "ptr" => Points(g[o], k + i)
  BY DEF Points
<1> DEFINE all == [i \in 1 .. n |-> TRUE]
<1>5. all = pointerFields("array", n) /\ Len(all) = n /\ \A i \in 1 .. n : all[i]
  BY <1>1, <1>2, <1>3
<1> HIDE DEF all
<1> QED BY <1>4, <1>5 DEF FieldsOf

\* The layout of an object names its fields, and no field of it that is data.
LEMMA AllFields ==
    ASSUME NEW g, NEW r, GraphOK(g, r), NEW o \in DOMAIN g, g[o].kind # "closure"
    PROVE  FieldsOf(g[o], 0, Layouts(g[o])) /\ Len(Layouts(g[o])) = Len(g[o].body)
<1> DEFINE obj == g[o]
           kind == obj.kind
           n == Len(obj.body)
           fields == Layouts(obj)
<1>1. n \in Nat /\ kind \in StableKinds
  BY GraphObject
<1>2. kind \notin {"array", "object", "blob"} => n = Len(pointerFields(kind, 0))
  BY DEF GraphOK
<1>3. kind = "object" => n > 0
  BY GraphObject
<1>4. Header(obj).k = kind /\ Header(obj).v = IF kind = "object" THEN n - 1 ELSE n
  BY DEF Header, cell
<1>5. fields = pointerFields(kind, IF kind = "object" THEN n - 1 ELSE n)
  BY <1>4 DEF Layouts
<1>6. SUFFICES /\ Len(fields) = n
               /\ \A i \in 1 .. n : IF fields[i] THEN obj.body[i].k = "ptr" => Points(obj, i)
                                    ELSE ~Points(obj, i)
  <2>1. \A i \in 1 .. n : 0 + i = i
    BY <1>1
  <2>2. 0 \in Nat /\ 0 + n <= n
    BY <1>1
  <2> HIDE DEF obj, fields, n
  <2>3. FieldsOf(obj, 0, fields) /\ Len(fields) = n
    BY <1>1, <1>6, <2>1, <2>2 DEF FieldsOf, n
  <2> QED BY <2>3 DEF obj, fields, n
<1> HIDE DEF fields, n
<1>7. CASE kind = "array"
  <2>1. fields = [i \in 1 .. n |-> TRUE]
    BY <1>5, <1>7 DEF pointerFields, StableArray
  <2> QED BY <1>1, <1>7, <2>1 DEF Points
<1>8. CASE kind = "object"
  <2>1. fields = [i \in 1 .. 1 + (n - 1) |-> TRUE]
    BY <1>5, <1>8 DEF pointerFields, StableObject
  <2>2. 1 + (n - 1) = n
    BY <1>1
  <2> QED BY <1>1, <1>8, <2>1, <2>2 DEF Points
<1>9. CASE kind = "blob"
  <2>1. fields = [i \in 1 .. n |-> FALSE]
    BY <1>5, <1>9 DEF pointerFields, StableBlob
  <2> QED BY <1>1, <1>9, <2>1 DEF Points
<1>10. CASE kind = "mutbox"
  <2>1. fields = <<TRUE>> /\ n = 1
    BY <1>2, <1>5, <1>10 DEF pointerFields, StableMutBox
  <2> QED BY <1>10, <2>1 DEF Points
<1>11. CASE kind = "some"
  <2>1. fields = <<TRUE>> /\ n = 1
    BY <1>2, <1>5, <1>11 DEF pointerFields, StableSome
  <2> QED BY <1>11, <2>1 DEF Points
<1>12. CASE kind = "weakref"
  <2>1. fields = <<TRUE>> /\ n = 1
    BY <1>2, <1>5, <1>12 DEF pointerFields, StableWeakRef
  <2> QED BY <1>12, <2>1 DEF Points
<1>13. CASE kind = "variant"
  <2>1. fields = <<FALSE, TRUE>> /\ n = 2
    BY <1>2, <1>5, <1>13 DEF pointerFields, StableVariant
  <2> QED BY <1>13, <2>1 DEF Points
<1>14. CASE kind = "concat"
  <2>1. fields = <<FALSE, TRUE, TRUE>> /\ n = 3
    BY <1>2, <1>5, <1>14 DEF pointerFields, StableConcat
  <2> QED BY <1>14, <2>1 DEF Points
<1>15. CASE kind = "region"
  <2>1. fields = <<FALSE, FALSE, TRUE>> /\ n = 3
    BY <1>2, <1>5, <1>15 DEF pointerFields, StableRegion
  <2> QED BY <1>15, <2>1 DEF Points
<1>16. CASE kind = "bits64"
  <2>1. fields = <<FALSE>> /\ n = 1
    BY <1>2, <1>5, <1>16 DEF pointerFields, StableBits64
  <2> QED BY <1>16, <2>1 DEF Points
<1> QED BY <1>1, <1>7, <1>8, <1>9, <1>10, <1>11, <1>12, <1>13, <1>14, <1>15, <1>16 DEF StableKinds

-----------------------------------------------------------------------------
(* The steps of the copy to stable memory. *)

\* What there was before the upgrade.
Before ==
  /\ GraphOK(given.heap, given.roots)
  /\ given.memory \in Seq(Cell) /\ given.descriptor \in Seq(Cell)
  /\ start \in Nat /\ start <= Len(given.memory) /\ Len(given.memory) % PageCells = 0
  /\ \A p \in 1 .. Len(given.memory) : p > start => given.memory[p] = ZeroCell

\* Nothing has been copied.
Running ==
  /\ heap = given.heap /\ roots = given.roots /\ memory = given.memory
  /\ descriptor = given.descriptor /\ scan = start /\ free = start /\ slice = NoSlice

\* The roots have been copied.
RootsCopied(f, offsets) ==
  /\ \A i \in 1 .. 3 : given.roots[i] # 0 => given.roots[i] \in DOMAIN f
  /\ offsets = [i \in 1 .. 3 |-> IF given.roots[i] = 0 THEN Null ELSE f[given.roots[i]]]

\* The scan address is at a header or, when a slice remains, at an element of an array.
AtPlace(f) ==
  IF slice = NoSlice THEN Begins(f, start, free, scan)
  ELSE \E o \in DOMAIN f :
         /\ given.heap[o].kind = "array" /\ slice.array_length = Len(given.heap[o].body)
         /\ slice.next_index \in Nat /\ slice.next_index <= slice.array_length
         /\ scan = start + f[o] + 1 + slice.next_index

Copying(f) ==
  /\ CopyState(given.heap, given.roots, given.memory, f, Here, scan)
  /\ RootsCopied(f, roots) /\ AtPlace(f)

\* Evacuating a root, when there is one.
LEMMA EvacuateRoot ==
    ASSUME NEW g, NEW r, GraphOK(g, r), NEW base, NEW f, NEW s, NEW sc,
           CopyState(g, r, base, f, s, sc), NEW i \in 1 .. 3
    PROVE  \E e : /\ CopyState(g, r, base, e, evacuateRoot(s, r[i]), sc) /\ Extends(f, e)
                  /\ r[i] # 0 => r[i] \in DOMAIN e
<1>1. CASE r[i] = 0
  <2>1. evacuateRoot(s, r[i]) = s /\ Extends(f, f)
    BY <1>1 DEF evacuateRoot, Extends
  <2> QED BY <1>1, <2>1
<1>2. CASE r[i] # 0
  <2>1. MayCopy(g, r, r[i])
    <3>1. r[i] \in DOMAIN g /\ g[r[i]].kind # "closure"
      <4>1. r[i] \in 0 .. Len(g) /\ g[r[i]].kind # "closure"
        BY <1>2 DEF GraphOK
      <4>2. DOMAIN g = 1 .. Len(g) /\ Len(g) \in Nat
        BY LenProperties DEF GraphOK
      <4> QED BY <1>2, <4>1, <4>2
    <3>2. Reached(g, r, {r[i]})
      BY <1>2 DEF Reached, Closed
    <3> QED BY <3>1, <3>2 DEF MayCopy
  <2>2. evacuateRoot(s, r[i]) = evacuate(s, r[i])
    BY <1>2 DEF evacuateRoot
  <2> QED BY <2>1, <2>2, Evacuate
<1> QED BY <1>1, <1>2

\* At the beginning nothing has been copied.
LEMMA NothingCopied ==
    ASSUME Before, Running
    PROVE  CopyState(given.heap, given.roots, given.memory, <<>>, Here, start)
<1> DEFINE g == given.heap
           m == given.memory
<1>1. Here = [heap |-> g, mem |-> m, free |-> start]
  BY DEF Running, Here
<1>2. HeapIs(g, <<>>, g)
  <2>1. DOMAIN <<>> = {}
    OBVIOUS
  <2>2. g = [o \in DOMAIN g |-> g[o]]
    BY LenProperties DEF Before, GraphOK
  <2> HIDE DEF g
  <2> QED BY <2>1, <2>2 DEF HeapIs
<1>3. Layout(g, <<>>, start, start) /\ Contents(g, <<>>, start, m, start)
  BY DEF Layout, Contents
<1>4. Tiled(g, <<>>, start, start)
  BY DEF Tiled, Begins
<1>5. Frame(m, start, m, start)
  <2>1. Len(m) \in Nat
    BY LenProperties DEF Before
  <2> QED BY <2>1 DEF Frame, Before
<1>6. Reached(g, given.roots, DOMAIN <<>>)
  BY DEF Reached
<1>7. start \in Nat
  BY DEF Before
<1> HIDE DEF g, m
<1>8. CopyState(g, given.roots, m, <<>>, [heap |-> g, mem |-> m, free |-> start], start)
  BY <1>2, <1>3, <1>4, <1>5, <1>6, <1>7 DEF CopyState
<1> QED BY <1>1, <1>8 DEF g, m

\* The roots are evacuated.
LEMMA StartCopies ==
    ASSUME Before, Running, start_graph_stabilization
    PROVE  \E f : Copying(f)'
<1> DEFINE g == given.heap
           rt == given.roots
           m == given.memory
<1>1. PICK r \in {evacuateRoot(Here, roots[1])} : \E t \in {evacuateRoot(r, roots[2])} :
         \E s \in {evacuateRoot(t, roots[3])} :
           /\ Becomes(s)
           /\ roots' = [i \in 1 .. 3 |-> IF roots[i] = 0 THEN Null ELSE s.heap[roots[i]].fwd]
  BY DEF start_graph_stabilization
<1>2. PICK t \in {evacuateRoot(r, roots[2])} :
         \E s \in {evacuateRoot(t, roots[3])} :
           /\ Becomes(s)
           /\ roots' = [i \in 1 .. 3 |-> IF roots[i] = 0 THEN Null ELSE s.heap[roots[i]].fwd]
  BY <1>1
<1>3. PICK s \in {evacuateRoot(t, roots[3])} :
           /\ Becomes(s)
           /\ roots' = [i \in 1 .. 3 |-> IF roots[i] = 0 THEN Null ELSE s.heap[roots[i]].fwd]
  BY <1>2
<1>4. roots = rt /\ GraphOK(g, rt)
  BY DEF Running, Before
<1>5. CopyState(g, rt, m, <<>>, Here, start)
  BY NothingCopied
<1> HIDE DEF g, rt, m
<1>6. PICK f1 : /\ CopyState(g, rt, m, f1, r, start)
                /\ rt[1] # 0 => rt[1] \in DOMAIN f1
  BY <1>4, <1>5, EvacuateRoot
<1>7. PICK f2 : /\ CopyState(g, rt, m, f2, t, start) /\ Extends(f1, f2)
                /\ rt[2] # 0 => rt[2] \in DOMAIN f2
  <2>1. t = evacuateRoot(r, rt[2]) /\ 2 \in 1 .. 3
    BY <1>2, <1>4
  <2>2. \E e : /\ CopyState(g, rt, m, e, evacuateRoot(r, rt[2]), start) /\ Extends(f1, e)
               /\ rt[2] # 0 => rt[2] \in DOMAIN e
    BY <1>4, <1>6, <2>1, EvacuateRoot
  <2> QED BY <2>1, <2>2
<1>8. PICK f : /\ CopyState(g, rt, m, f, s, start) /\ Extends(f2, f)
               /\ rt[3] # 0 => rt[3] \in DOMAIN f
  <2>1. s = evacuateRoot(t, rt[3]) /\ 3 \in 1 .. 3
    BY <1>3, <1>4
  <2>2. \E e : /\ CopyState(g, rt, m, e, evacuateRoot(t, rt[3]), start) /\ Extends(f2, e)
               /\ rt[3] # 0 => rt[3] \in DOMAIN e
    BY <1>4, <1>7, <2>1, EvacuateRoot
  <2> QED BY <2>1, <2>2
<1>9. \A i \in 1 .. 3 : rt[i] # 0 => rt[i] \in DOMAIN f
  <2>1. 1 .. 3 = {1, 2, 3}
    OBVIOUS
  <2> QED BY <1>6, <1>7, <1>8, <2>1 DEF Extends
<1>10. /\ scan' = start /\ start' = start /\ slice' = NoSlice /\ given' = given
       /\ heap' = s.heap /\ memory' = s.mem /\ free' = s.free
  BY <1>3 DEF start_graph_stabilization, Running, Becomes
<1>11. s = [heap |-> s.heap, mem |-> s.mem, free |-> s.free]
  BY <1>8 DEF CopyState
<1>12. Here' = s
  BY <1>10, <1>11 DEF Here
<1>13. RootsCopied(f, roots)'
  <2>1. roots' = [i \in 1 .. 3 |-> IF rt[i] = 0 THEN Null ELSE f[rt[i]]]
    <3>1. ASSUME NEW i \in 1 .. 3, rt[i] # 0 PROVE s.heap[rt[i]].fwd = f[rt[i]]
      <4>1. rt[i] \in DOMAIN g /\ rt[i] \in DOMAIN f /\ HeapIs(g, f, s.heap)
        BY <1>8, <1>9, <3>1 DEF CopyState, Layout
      <4> QED BY <1>4, <4>1, HeapObject
    <3>2. roots' = [i \in 1 .. 3 |-> IF rt[i] = 0 THEN Null ELSE s.heap[rt[i]].fwd]
      BY <1>3, <1>4
    <3> QED BY <3>1, <3>2
  <2> QED BY <1>9, <1>10, <2>1 DEF RootsCopied, rt
<1>14. AtPlace(f)'
  <2>1. Begins(f, start, s.free, start)
    BY <1>8 DEF CopyState, Tiled
  <2> QED BY <1>10, <2>1 DEF AtPlace, Begins
<1>15. CopyState(given.heap, given.roots, given.memory, f, Here, scan)'
  <2>1. CopyState(g, rt, m, f, Here', scan')
    BY <1>8, <1>10, <1>12
  <2> QED BY <1>10, <2>1 DEF CopyState, g, rt, m
<1> QED BY <1>13, <1>14, <1>15 DEF Copying

\* The roots stay copied when more objects are.
LEMMA RootsStay ==
    ASSUME NEW f, NEW e, NEW offsets, RootsCopied(f, offsets), Extends(f, e)
    PROVE  RootsCopied(e, offsets)
  BY DEF RootsCopied, Extends

\* The memory and the scan address after a step of the scan.
LEMMA Scanned ==
    ASSUME Before, NEW f, RootsCopied(f, roots), NEW e, NEW s, NEW sc,
           CopyState(given.heap, given.roots, given.memory, e, s, sc), Extends(f, e),
           Becomes(s), scan' = sc, UNCHANGED <<start, roots, given>>,
           AtPlace(e)'
    PROVE  Copying(e)'
<1>1. s = [heap |-> s.heap, mem |-> s.mem, free |-> s.free]
  BY DEF CopyState
<1>2. Here' = s
  BY <1>1 DEF Here, Becomes
<1>3. CopyState(given.heap, given.roots, given.memory, e, Here, scan)'
  <2>1. CopyState(given.heap, given.roots, given.memory, e, Here', scan')
    BY <1>2
  <2> QED BY <2>1 DEF CopyState
<1>4. RootsCopied(e, roots)'
  <2>1. RootsCopied(e, roots)
    BY RootsStay
  <2> QED BY <2>1 DEF RootsCopied
<1> QED BY <1>3, <1>4 DEF Copying

\* The elements of an array, to its end or not.
LEMMA SlicedScan ==
    ASSUME Before, NEW f, RootsCopied(f, roots), NEW at, NEW index \in Nat,
           CopyState(given.heap, given.roots, given.memory, f, Here, at),
           NEW o \in DOMAIN f, given.heap[o].kind = "array",
           index <= Len(given.heap[o].body), at = start + f[o] + 1 + index,
           sliced_array_scan(at, index, Len(given.heap[o].body)), UNCHANGED <<start, roots, given>>
    PROVE  \E e : Copying(e)'
<1> DEFINE g == given.heap
           length == Len(g[o].body)
<1>1. PICK n \in (IF index = length THEN {0} ELSE 1 .. length - index) :
         /\ Becomes(translateAll(Here, at, pointerFields("array", n)))
         /\ scan' = at + n
         /\ slice' = IF index + n < length
                     THEN [next_index |-> index + n, array_length |-> length] ELSE NoSlice
  BY DEF sliced_array_scan
<1>2. /\ GraphOK(g, given.roots) /\ o \in DOMAIN g /\ f[o] \in Nat /\ start \in Nat
  BY DEF Before, CopyState, Layout
<1>3. length \in Nat
  BY <1>2, GraphObject
<1>4. n \in Nat /\ index + n <= length
  BY <1>1, <1>3
<1> DEFINE fields == pointerFields("array", n)
           s == translateAll(Here, at, fields)
<1>5. FieldsOf(g[o], index, fields) /\ Len(fields) = n
  BY <1>2, <1>4, ArrayFields
<1> HIDE DEF fields
<1>6. PICK e : CopyState(g, given.roots, given.memory, e, s, at + n) /\ Extends(f, e)
  BY <1>2, <1>5, TranslateAll
<1>7. o \in DOMAIN e /\ e[o] = f[o]
  BY <1>6 DEF Extends
<1>8. Becomes(s)
  BY <1>1 DEF fields
<1> HIDE DEF s
<1>9. AtPlace(e)'
  <2>1. slice' = IF index + n < length
                 THEN [next_index |-> index + n, array_length |-> length] ELSE NoSlice
    BY <1>1
  <2>2. scan' = at + n /\ free' = s.free
    BY <1>1, <1>8 DEF Becomes
  <2> HIDE DEF length
  <2>3. CASE index + n < length
    <3>1. slice'.next_index = index + n /\ slice'.array_length = length /\ slice' # NoSlice
      BY <1>3, <1>4, <2>1, <2>3 DEF NoSlice
    <3>2. scan' = start + e[o] + 1 + (index + n)
      BY <1>2, <1>4, <1>7, <2>2
    <3> QED BY <1>4, <1>7, <2>3, <3>1, <3>2 DEF AtPlace, length
  <2>4. CASE ~(index + n < length)
    <3>1. slice' = NoSlice /\ index + n = length
      BY <1>3, <1>4, <2>1, <2>4
    <3>2. scan' = start + e[o] + Size(g[o])
      <4>1. Size(g[o]) = 1 + length
        BY DEF Size, length
      <4> DEFINE p == e[o]
      <4>2. p \in Nat /\ scan' = (start + p + 1 + index) + n
        BY <1>2, <1>7, <2>2
      <4> HIDE DEF p
      <4>3. scan' = start + p + (1 + length)
        BY <1>2, <1>3, <1>4, <3>1, <4>2
      <4> QED BY <4>1, <4>3 DEF p
    <3>3. Begins(e, start, s.free, start + e[o] + Size(g[o]))
      BY <1>6, <1>7 DEF CopyState, Tiled
    <3> QED BY <2>2, <3>1, <3>2, <3>3 DEF AtPlace, Begins
  <2> QED BY <2>3, <2>4
<1>10. Copying(e)'
  BY <1>1, <1>6, <1>8, <1>9, Scanned
<1> QED BY <1>10

\* An increment scans an object, a slice of an array or the rest of it.
LEMMA IncrementCopies ==
    ASSUME Before, NEW f, Copying(f), graph_stabilization_increment
    PROVE  \E e : Copying(e)'
<1> DEFINE g == given.heap
<1>1. /\ GraphOK(g, given.roots) /\ RootsCopied(f, roots) /\ UNCHANGED <<start, roots, given>>
      /\ CopyState(g, given.roots, given.memory, f, Here, scan) /\ scan < free
  BY DEF Before, Copying, graph_stabilization_increment
<1>2. Here.mem = memory
  BY DEF Here
<1>3. CASE resume_scanning
  <2>1. slice # NoSlice /\ sliced_array_scan(scan, slice.next_index, slice.array_length)
    BY <1>3 DEF resume_scanning
  <2>2. PICK o \in DOMAIN f :
           /\ g[o].kind = "array" /\ slice.array_length = Len(g[o].body)
           /\ slice.next_index \in Nat /\ slice.next_index <= slice.array_length
           /\ scan = start + f[o] + 1 + slice.next_index
    BY <2>1 DEF Copying, AtPlace
  <2> QED BY <1>1, <2>1, <2>2, SlicedScan
<1>4. CASE scan_serialized
  <2>1. slice = NoSlice
    BY <1>4 DEF scan_serialized
  <2>2. PICK o \in DOMAIN f : scan = start + f[o]
    <3>1. Begins(f, start, free, scan) /\ scan # free
      <4>1. scan \in Nat /\ free \in Nat
        BY <1>1 DEF CopyState, Frame, Here
      <4> QED BY <1>1, <2>1, <4>1 DEF Copying, AtPlace
    <3> QED BY <3>1 DEF Begins
  <2>3. /\ o \in DOMAIN g /\ g[o].kind # "closure" /\ f[o] \in Nat /\ start \in Nat
        /\ memory[scan + 1] = Header(g[o])
    BY <1>1, <1>2, <2>2 DEF CopyState, Layout, Contents, Before
  <2>4. Len(g[o].body) \in Nat
    BY <1>1, <2>3, GraphObject
  <2>5. scan = start + f[o] + 0 /\ 0 \in 0 .. Len(g[o].body) /\ scan + 1 = start + f[o] + 1 + 0
    BY <2>2, <2>3, <2>4
  <2>6. CopyState(g, given.roots, given.memory, f, Here, scan + 1)
    BY <1>1, <2>5, Skip
  <2>7. Header(g[o]).k = g[o].kind
    BY DEF Header, cell
  <2>8. CASE g[o].kind = "array"
    <3>1. Header(g[o]).v = Len(g[o].body)
      BY <2>8 DEF Header, cell
    <3>2. sliced_array_scan(scan + 1, 0, Len(g[o].body))
      BY <1>4, <2>3, <2>7, <2>8, <3>1 DEF scan_serialized
    <3>3. 0 \in Nat /\ 0 <= Len(g[o].body)
      BY <2>4
    <3> QED BY <1>1, <2>5, <2>6, <2>8, <3>2, <3>3, SlicedScan
  <2>9. CASE g[o].kind # "array"
    <3> DEFINE fields == Layouts(g[o])
               s == translateAll(Here, scan + 1, fields)
    <3>1. Becomes(s) /\ scan' = (scan + 1) + Len(fields) /\ slice' = slice
      BY <1>4, <2>3, <2>7, <2>9 DEF scan_serialized, Layouts
    <3>2. FieldsOf(g[o], 0, fields) /\ Len(fields) = Len(g[o].body)
      BY <1>1, <2>3, AllFields
    <3> HIDE DEF fields
    <3>3. PICK e : /\ CopyState(g, given.roots, given.memory, e, s, (scan + 1) + Len(fields))
                   /\ Extends(f, e)
      BY <1>1, <2>5, <2>6, <3>2, TranslateAll
    <3> HIDE DEF s
    <3>4. AtPlace(e)'
      <4>1. o \in DOMAIN e /\ e[o] = f[o]
        BY <3>3 DEF Extends
      <4>2. Begins(e, start, s.free, start + e[o] + Size(g[o]))
        BY <3>3, <4>1 DEF CopyState, Tiled
      <4>3. scan' = start + e[o] + Size(g[o])
        <5> DEFINE n == Len(g[o].body)
        <5>1. Size(g[o]) = 1 + n /\ n \in Nat /\ scan' = (scan + 1) + n
          BY <2>4, <3>1, <3>2 DEF Size
        <5> HIDE DEF n
        <5> QED BY <2>2, <2>3, <4>1, <5>1
      <4>4. free' = s.free /\ slice' = NoSlice
        BY <2>1, <3>1 DEF Becomes
      <4> QED BY <1>1, <4>2, <4>3, <4>4 DEF AtPlace, Begins
    <3> QED BY <1>1, <3>1, <3>3, <3>4, Scanned
  <2> QED BY <2>8, <2>9
<1> QED BY <1>3, <1>4 DEF graph_stabilization_increment

-----------------------------------------------------------------------------
(* The metadata behind the copy. *)

\* A clear within the pages granted, or up to the end of them.
Cleared(mem, at, length, new) ==
  /\ new \in Seq(Cell) /\ Len(mem) <= Len(new) /\ at + length <= Len(new)
  /\ Len(new) % PageCells = 0
  /\ at + length <= Len(mem) => Len(new) = Len(mem)
  /\ \A p \in 1 .. Len(new) :
       new[p] = IF p > at /\ p <= at + length THEN ZeroCell
                ELSE IF p <= Len(mem) THEN mem[p] ELSE ZeroCell

\* The length after a write.
LEMMA WrittenLength ==
    ASSUME NEW mem \in Seq(Cell), Len(mem) % PageCells = 0, NEW at \in Nat, at <= Len(mem),
           NEW cells \in Seq(Cell), NEW new, Written(mem, at, cells, new)
    PROVE  /\ new \in Seq(Cell) /\ Len(new) \in Nat
           /\ Len(mem) <= Len(new) /\ at + Len(cells) <= Len(new)
           /\ Len(new) % PageCells = 0
           /\ at + Len(cells) <= Len(mem) => Len(new) = Len(mem)
<1> DEFINE end == at + Len(cells)
<1>1. end \in Nat /\ Len(mem) \in Nat
  BY LenProperties
<1>2. /\ new \in Seq(Cell) /\ Len(new) = IF AlignUp(end) > Len(mem) THEN AlignUp(end) ELSE Len(mem)
  BY DEF Written
<1> HIDE DEF end
<1>3. AlignUp(end) \in Nat /\ end <= AlignUp(end) /\ AlignUp(end) % PageCells = 0
  BY <1>1, AlignUpIs
<1>4. end <= Len(mem) => AlignUp(end) <= Len(mem)
  BY <1>1, AlignUpLeast
<1>5. /\ Len(new) \in Nat /\ Len(mem) <= Len(new) /\ end <= Len(new) /\ Len(new) % PageCells = 0
      /\ end <= Len(mem) => Len(new) = Len(mem)
  BY <1>1, <1>2, <1>3, <1>4
<1> QED BY <1>2, <1>5 DEF end

\* What clearing cells does is Cleared.
LEMMA ClearIs ==
    ASSUME NEW mem \in Seq(Cell), Len(mem) % PageCells = 0, NEW at \in Nat, at <= Len(mem),
           NEW length \in Nat
    PROVE  Cleared(mem, at, length, clear_stable_memory(mem, at, length))
<1> DEFINE cells == Zeros(length)
           new == clear_stable_memory(mem, at, length)
<1>1. ZeroCell \in Cell
  BY DEF ZeroCell, cell, Cell
<1>2. cells \in Seq(Cell) /\ Len(cells) = length /\ \A i \in 1 .. length : cells[i] = ZeroCell
  BY <1>1 DEF Zeros
<1>3. new = Write(mem, at, cells)
  BY DEF clear_stable_memory
<1> HIDE DEF cells, new
<1>4. Written(mem, at, cells, new)
  BY <1>2, <1>3, WriteIs
<1>5. /\ new \in Seq(Cell) /\ Len(new) \in Nat
      /\ Len(mem) <= Len(new) /\ at + length <= Len(new) /\ Len(new) % PageCells = 0
      /\ at + length <= Len(mem) => Len(new) = Len(mem)
  BY <1>2, <1>4, WrittenLength
<1>6. ASSUME NEW p \in 1 .. Len(new)
      PROVE  new[p] = IF p > at /\ p <= at + length THEN ZeroCell
                ELSE IF p <= Len(mem) THEN mem[p] ELSE ZeroCell
  <2>1. new[p] = IF p > at /\ p <= at + length THEN cells[p - at]
                 ELSE IF p <= Len(mem) THEN mem[p] ELSE ZeroCell
    BY <1>2, <1>4 DEF Written
  <2>2. p > at /\ p <= at + length => p - at \in 1 .. length
    BY <1>5
  <2> QED BY <1>2, <2>1, <2>2
<1>7. Cleared(mem, at, length, new)
  BY <1>5, <1>6 DEF Cleared
<1> QED BY <1>7 DEF new

\* Page boundaries are a page apart.
LEMMA PagesApart ==
    ASSUME NEW n \in Nat, NEW m \in Nat, n < m, n % PageCells = 0, m % PageCells = 0
    PROVE  n + PageCells <= m
<1> DEFINE q == n \div PageCells
           k == m \div PageCells
<1>1. /\ n = q * PageCells + (n % PageCells) /\ q \in Nat
      /\ m = k * PageCells + (m % PageCells) /\ k \in Nat
      /\ PageCells \in Nat /\ PageCells > 0
  BY Division, Sizes
<1> HIDE DEF q, k
<1>2. q * PageCells \in Nat /\ k * PageCells \in Nat
  BY <1>1
<1>3. n = q * PageCells /\ m = k * PageCells
  BY <1>1, <1>2
<1>4. ~(k <= q)
  <2> SUFFICES ASSUME k <= q PROVE FALSE
    OBVIOUS
  <2>1. k * PageCells <= q * PageCells
    BY <1>1
  <2> QED BY <1>2, <1>3, <2>1
<1>5. q + 1 <= k
  BY <1>1, <1>4
<1>6. (q + 1) * PageCells <= k * PageCells
  BY <1>1, <1>5
<1>7. (q + 1) * PageCells = q * PageCells + PageCells
  BY <1>1
<1> QED BY <1>3, <1>6, <1>7

\* A copy that has been scanned: its end, the objects in it and what is where.
ImageAt(g, r, f, from, end, mem) ==
  /\ Layout(g, f, from, end) /\ Contents(g, f, from, mem, end) /\ Reached(g, r, DOMAIN f)

\* The copy and its metadata, the first word being in the record.
Stored(f) ==
  LET mem == [memory EXCEPT ![1] = record.first]
      end == record.start + record.length
      at  == record.descriptor
      n   == Len(given.descriptor)
  IN  /\ memory \in Seq(Cell) /\ record.first \in Cell /\ Len(memory) % PageCells = 0
      /\ record.start = start /\ record.length \in Nat
      /\ at = AlignUp(end) /\ at + PageCells <= Len(memory) /\ at + 1 + n <= Len(memory)
      /\ mem[at + 1] = cell("length", n)
      /\ ImageAt(given.heap, given.roots, f, start, end, mem)
      /\ RootsCopied(f, record.roots)
      /\ Len(given.memory) <= Len(memory)
      /\ \A p \in 1 .. Len(memory) :
           /\ p <= start => mem[p] = given.memory[p]
           /\ p > end /\ (p <= at \/ (p > at + 1 + n /\ p <= Len(memory) - RecordCells))
                => mem[p] = ZeroCell

\* The record and the descriptor are written behind the copy.
LEMMA StoreCopies ==
    ASSUME Before, descriptor = given.descriptor, NEW f, Copying(f), store
    PROVE  Stored(f)'
<1> DEFINE at == AlignUp(free)
           n == Len(descriptor)
           data == <<cell("length", n)>> \o descriptor
           m1 == align_page_start(memory, free)
           m2 == Write(m1, at, data)
           m3 == align_page_start(m2, at + 1 + n)
           m4 == [m3 EXCEPT ![1] = ZeroCell]
           place == metadata_location(m3)
           m5 == Write(m4, place, Cells("record", RecordCells))
<1>1. /\ scan = free /\ UNCHANGED <<start, given>>
      /\ record' = [start |-> start, length |-> free - start, descriptor |-> at,
                    roots |-> roots, first |-> m3[1]]
      /\ memory' = m5
  BY DEF store
<1>2. /\ descriptor \in Seq(Cell) /\ n \in Nat
      /\ PageCells \in Nat /\ PageCells > 0
      /\ RecordCells \in Nat /\ RecordCells > 0 /\ RecordCells < PageCells
  BY Sizes, LenProperties DEF Before
<1>3. /\ memory \in Seq(Cell) /\ Len(memory) \in Nat /\ Len(memory) % PageCells = 0
      /\ start \in Nat /\ free \in Nat /\ start <= free /\ free <= Len(memory)
      /\ Len(given.memory) \in Nat /\ Len(given.memory) <= Len(memory)
      /\ \A p \in 1 .. Len(memory) : (p <= start => memory[p] = given.memory[p])
                                     /\ (p > free => memory[p] = ZeroCell)
      /\ Layout(given.heap, f, start, free) /\ Contents(given.heap, f, start, memory, free)
      /\ Reached(given.heap, given.roots, DOMAIN f)
  BY <1>1, LenProperties DEF Copying, CopyState, Frame, Here
<1>4. at \in Nat /\ free <= at /\ at % PageCells = 0
  BY <1>3, AlignUpIs
<1> HIDE DEF at, n
<1>5. /\ data \in Seq(Cell) /\ Len(data) = 1 + n /\ data[1] = cell("length", n)
  <2> DEFINE one == <<cell("length", n)>>
  <2>1. cell("length", n) \in Cell
    BY <1>2 DEF cell, Cell
  <2>2. one \in Seq(Cell) /\ Len(one) = 1 /\ one[1] = cell("length", n)
    BY <2>1
  <2> HIDE DEF one
  <2>3. /\ one \o descriptor \in Seq(Cell) /\ Len(one \o descriptor) = Len(one) + Len(descriptor)
        /\ \A i \in 1 .. Len(one) + Len(descriptor) :
             (one \o descriptor)[i] = IF i <= Len(one) THEN one[i] ELSE descriptor[i - Len(one)]
    BY <1>2, <2>2, ConcatProperties
  <2>4. 1 \in 1 .. 1 + n
    BY <1>2
  <2> QED BY <2>2, <2>3, <2>4 DEF one, n
<1>6. Cleared(memory, free, at - free, m1)
  <2>1. at - free \in Nat
    BY <1>3, <1>4
  <2> QED BY <1>3, <2>1, ClearIs DEF align_page_start, at
<1> HIDE DEF m1, data
<1>7. /\ m1 \in Seq(Cell) /\ Len(m1) \in Nat /\ Len(m1) % PageCells = 0 /\ at <= Len(m1)
      /\ Len(memory) <= Len(m1)
      /\ \A p \in 1 .. Len(m1) :
           m1[p] = IF p > free /\ p <= at THEN ZeroCell
                   ELSE IF p <= Len(memory) THEN memory[p] ELSE ZeroCell
  <2>1. free + (at - free) = at
    BY <1>3, <1>4
  <2> QED BY <1>6, <2>1, LenProperties DEF Cleared
<1>8. Written(m1, at, data, m2)
  BY <1>4, <1>5, <1>7, WriteIs
<1> HIDE DEF m2
<1>9. /\ m2 \in Seq(Cell) /\ Len(m2) \in Nat /\ Len(m1) <= Len(m2)
      /\ at + (1 + n) <= Len(m2) /\ Len(m2) % PageCells = 0
  BY <1>4, <1>5, <1>7, <1>8, WrittenLength
<1>10. \A p \in 1 .. Len(m2) :
         m2[p] = IF p > at /\ p <= at + (1 + n) THEN data[p - at]
                 ELSE IF p <= Len(m1) THEN m1[p] ELSE ZeroCell
  BY <1>5, <1>8 DEF Written
<1> DEFINE top == at + 1 + n
<1>11. top \in Nat /\ top = at + (1 + n) /\ AlignUp(top) \in Nat /\ top <= AlignUp(top)
  <2>1. top \in Nat /\ top = at + (1 + n)
    BY <1>2, <1>4
  <2> HIDE DEF top
  <2> QED BY <2>1, AlignUpIs
<1>12. Cleared(m2, top, AlignUp(top) - top, m3)
  <2>1. AlignUp(top) - top \in Nat /\ top <= Len(m2)
    BY <1>9, <1>11
  <2> HIDE DEF top
  <2>2. m3 = clear_stable_memory(m2, top, AlignUp(top) - top)
    BY DEF align_page_start, top
  <2> QED BY <1>9, <1>11, <2>1, <2>2, ClearIs
<1> HIDE DEF m3, top
<1>13. /\ m3 \in Seq(Cell) /\ Len(m3) \in Nat /\ Len(m2) <= Len(m3)
       /\ Len(m3) % PageCells = 0
       /\ \A p \in 1 .. Len(m3) :
            m3[p] = IF p > top /\ p <= AlignUp(top) THEN ZeroCell
                    ELSE IF p <= Len(m2) THEN m2[p] ELSE ZeroCell
  <2>1. top + (AlignUp(top) - top) = AlignUp(top)
    BY <1>11
  <2> QED BY <1>12, <2>1, LenProperties DEF Cleared
<1>14. /\ at + PageCells <= Len(m3) /\ top <= Len(m3) /\ Len(memory) <= Len(m3)
       /\ at < Len(m3)
  <2>1. at < Len(m3) /\ top <= Len(m3) /\ Len(memory) <= Len(m3)
    BY <1>2, <1>4, <1>7, <1>9, <1>11, <1>13
  <2> QED BY <1>4, <1>13, <2>1, PagesApart
<1>15. \A p \in 1 .. Len(m3) :
         /\ p <= start => m3[p] = given.memory[p]
         /\ p <= free => m3[p] = memory[p]
         /\ p > free /\ p <= at => m3[p] = ZeroCell
         /\ p > top => m3[p] = ZeroCell
  <2> SUFFICES ASSUME NEW p \in 1 .. Len(m3)
               PROVE  /\ p <= start => m3[p] = given.memory[p]
                      /\ p <= free => m3[p] = memory[p]
                      /\ p > free /\ p <= at => m3[p] = ZeroCell
                      /\ p > top => m3[p] = ZeroCell
    OBVIOUS
  <2>1. ASSUME p <= at PROVE m3[p] = IF p > free THEN ZeroCell ELSE memory[p]
    <3>1. /\ p \in 1 .. Len(m1) /\ p \in 1 .. Len(m2) /\ ~(p > at) /\ ~(p > top)
          /\ p <= free => p <= Len(memory)
      BY <1>2, <1>3, <1>4, <1>7, <1>9, <1>11, <2>1
    <3>2. m3[p] = m2[p]
      BY <1>13, <3>1
    <3>3. m2[p] = m1[p]
      BY <1>10, <3>1
    <3>4. p > free \/ p <= free
      BY <1>3
    <3> QED BY <1>7, <2>1, <3>1, <3>2, <3>3, <3>4
  <2>2. ASSUME p > top PROVE m3[p] = ZeroCell
    <3>1. p > at /\ ~(p <= at + (1 + n)) /\ p > free
      BY <1>2, <1>3, <1>4, <1>11, <2>2
    <3>2. p <= Len(m2) => m2[p] = ZeroCell
      <4> SUFFICES ASSUME p <= Len(m2) PROVE m2[p] = ZeroCell
        OBVIOUS
      <4>1. p \in 1 .. Len(m2)
        BY <1>9
      <4>2. m2[p] = IF p <= Len(m1) THEN m1[p] ELSE ZeroCell
        BY <1>10, <3>1, <4>1
      <4>3. p <= Len(m1) => p \in 1 .. Len(m1)
        BY <1>7
      <4>4. p <= Len(memory) => p \in 1 .. Len(memory)
        BY <1>3
      <4> QED BY <1>3, <1>7, <3>1, <4>2, <4>3, <4>4
    <3> QED BY <1>13, <3>2
  <2>3. /\ p <= start => p <= free /\ p <= at /\ p \in 1 .. Len(memory)
        /\ p <= free => p <= at /\ ~(p > free)
    BY <1>3, <1>4
  <2> QED BY <1>3, <2>1, <2>2, <2>3
<1>16. m3[at + 1] = cell("length", n)
  <2>1. at + 1 \in 1 .. Len(m2) /\ at + 1 \in 1 .. Len(m3) /\ at + 1 > at /\ at + 1 <= at + (1 + n)
        /\ ~(at + 1 > top) /\ (at + 1) - at = 1
    <3> DEFINE l2 == Len(m2)
               l3 == Len(m3)
    <3>1. /\ l2 \in Nat /\ l3 \in Nat /\ l2 <= l3 /\ at + (1 + n) <= l2 /\ top = at + (1 + n)
          /\ at \in Nat /\ n \in Nat
      BY <1>2, <1>4, <1>9, <1>11, <1>13
    <3> HIDE DEF l2, l3
    <3>2. at + 1 \in 1 .. l2 /\ at + 1 \in 1 .. l3 /\ at + 1 > at /\ at + 1 <= at + (1 + n)
          /\ ~(at + 1 > top) /\ (at + 1) - at = 1
      BY <3>1
    <3> QED BY <3>2 DEF l2, l3
  <2>2. m3[at + 1] = m2[at + 1]
    BY <1>13, <2>1
  <2>3. m2[at + 1] = data[1]
    BY <1>10, <2>1
  <2> QED BY <1>5, <2>2, <2>3
<1>17. 1 \in 1 .. Len(m3)
  BY <1>4, <1>13, <1>14
<1>18. ZeroCell \in Cell /\ m3[1] \in Cell
  <2>1. ZeroCell \in Cell
    BY DEF ZeroCell, cell, Cell
  <2> QED BY <1>13, <1>17, <2>1, ElementOfSeq
<1>19. /\ m4 \in Seq(Cell) /\ Len(m4) = Len(m3)
       /\ \A p \in 1 .. Len(m3) : m4[p] = IF p = 1 THEN ZeroCell ELSE m3[p]
  BY <1>13, <1>17, <1>18, ExceptSeq
<1> HIDE DEF m4
<1>20. place = Len(m3) - RecordCells /\ place \in Nat /\ place >= 1 /\ place > at
       /\ place + RecordCells = Len(m3)
  <2>1. place = Len(m3) - RecordCells
    BY DEF metadata_location
  <2> HIDE DEF place
  <2> QED BY <1>2, <1>4, <1>13, <1>14, <2>1
<1> DEFINE mark == Cells("record", RecordCells)
<1>21. mark \in Seq(Cell) /\ Len(mark) = RecordCells
  <2>1. cell("record", RecordCells) \in Cell /\ \A i \in 1 .. RecordCells : cell("record", i) \in Cell
    BY <1>2 DEF cell, Cell
  <2> QED BY <1>2, <2>1 DEF Cells
<1> HIDE DEF mark, place
<1>22. Written(m4, place, mark, m5)
  <2>1. place <= Len(m4)
    BY <1>2, <1>13, <1>19, <1>20
  <2>2. m5 = Write(m4, place, mark)
    BY DEF mark
  <2> HIDE DEF m5
  <2> QED BY <1>19, <1>20, <1>21, <2>1, <2>2, WriteIs
<1> HIDE DEF m5
<1>23. /\ m5 \in Seq(Cell) /\ Len(m5) = Len(m3)
       /\ \A p \in 1 .. Len(m3) : p <= place => m5[p] = m4[p]
  <2>1. Len(m4) % PageCells = 0 /\ place <= Len(m4) /\ place + Len(mark) <= Len(m4)
    BY <1>2, <1>13, <1>19, <1>20, <1>21
  <2>2. m5 \in Seq(Cell) /\ Len(m5) = Len(m4)
    BY <1>19, <1>20, <1>21, <1>22, <2>1, WrittenLength
  <2>3. ASSUME NEW p \in 1 .. Len(m3), p <= place PROVE m5[p] = m4[p]
    <3>1. p \in 1 .. Len(m5) /\ ~(p > place) /\ p <= Len(m4)
      BY <1>13, <1>19, <1>20, <2>2, <2>3
    <3> QED BY <1>22, <3>1 DEF Written
  <2> QED BY <1>19, <2>2, <2>3
<1> DEFINE mem == [m5 EXCEPT ![1] = m3[1]]
<1>24. /\ mem \in Seq(Cell) /\ Len(mem) = Len(m3)
       /\ \A p \in 1 .. Len(m3) : p <= place => mem[p] = m3[p]
  <2>1. /\ mem \in Seq(Cell) /\ Len(mem) = Len(m5)
        /\ \A p \in 1 .. Len(m5) : mem[p] = IF p = 1 THEN m3[1] ELSE m5[p]
    BY <1>17, <1>18, <1>23, ExceptSeq
  <2> HIDE DEF mem
  <2> QED BY <1>19, <1>23, <2>1
<1> HIDE DEF mem
<1>25. \A p \in 1 .. Len(m3) : p <= free => mem[p] = memory[p]
  <2>1. \A p \in 1 .. Len(m3) : p <= free => p <= place
    BY <1>3, <1>4, <1>20
  <2> QED BY <1>15, <1>24, <2>1
<1>26. Contents(given.heap, f, start, mem, free)
  <2>1. \A p \in 1 .. free : mem[p] = memory[p]
    <3>1. \A p \in 1 .. free : p \in 1 .. Len(m3)
      BY <1>3, <1>13, <1>14
    <3> QED BY <1>25, <3>1
  <2>2. Extends(f, f) /\ GraphOK(given.heap, given.roots)
    BY DEF Extends, Before
  <2>3. ASSUME NEW o \in DOMAIN f
        PROVE  /\ mem[start + f[o] + 1] = Header(given.heap[o])
               /\ \A i \in 1 .. Len(given.heap[o].body) :
                    FieldOK(given.heap, f, start, mem, free, o, i)
    BY <1>3, <2>1, <2>2, ContentsStay
  <2> QED BY <2>3 DEF Contents
<1>27. \A p \in 1 .. Len(m3) :
          /\ p <= start => mem[p] = given.memory[p]
          /\ p > free /\ (p <= at \/ (p > top /\ p <= place)) => mem[p] = ZeroCell
  <2>1. \A p \in 1 .. Len(m3) : (p <= start => p <= place) /\ (p <= at => p <= place)
    BY <1>3, <1>4, <1>20
  <2> QED BY <1>15, <1>24, <2>1
<1>28. start + (free - start) = free /\ free - start \in Nat
  BY <1>3
<1>29. mem[at + 1] = cell("length", n)
  <2>1. at + 1 \in 1 .. Len(m3) /\ at + 1 <= place
    BY <1>4, <1>13, <1>14, <1>20
  <2> QED BY <1>16, <1>24, <2>1
<1>30. /\ record'.start = start /\ record'.length = free - start /\ record'.descriptor = at
       /\ record'.roots = roots /\ record'.first = m3[1]
  BY <1>1
<1>31. RootsCopied(f, roots)
  BY DEF Copying
<1>32. mem = [memory' EXCEPT ![1] = record'.first] /\ memory' = m5
  BY <1>1, <1>30 DEF mem
<1>33. Len(given.descriptor) = n
  BY DEF n
<1>34. ImageAt(given.heap, given.roots, f, start, free, mem)
  BY <1>3, <1>26 DEF ImageAt
<1>35. /\ at + PageCells <= Len(m5) /\ at + 1 + n <= Len(m5) /\ Len(given.memory) <= Len(m5)
       /\ Len(m5) % PageCells = 0 /\ Len(m5) - RecordCells = place
  BY <1>3, <1>13, <1>14, <1>20, <1>23 DEF top
<1>36. at = AlignUp(free)
  BY DEF at
<1>37. start' = start /\ given' = given
  BY <1>1
<1>38. record'.start + record'.length = free
  BY <1>28, <1>30
<1>39. \A p \in 1 .. Len(m5) :
           /\ p <= start => mem[p] = given.memory[p]
           /\ p > free /\ (p <= at \/ (p > at + 1 + n /\ p <= Len(m5) - RecordCells))
                => mem[p] = ZeroCell
  BY <1>23, <1>27, <1>35 DEF top
<1>40. RootsCopied(f, record.roots)'
  BY <1>30, <1>31, <1>37 DEF RootsCopied
<1> HIDE DEF at, n
<1> QED BY <1>18, <1>23, <1>28, <1>29, <1>30, <1>32, <1>33, <1>34, <1>35, <1>36, <1>37, <1>38, <1>39, <1>40 DEF Stored

-----------------------------------------------------------------------------
(* The way back.  f has the offset of each object of the graph in the image *)
(* and e the place of each object that has been moved to the new heap.      *)

\* The objects of the image do not overlap and lead to objects of the image.
Complete(g, f, end) ==
  /\ Layout(g, f, record.start, end) /\ record.start \in Nat
  /\ \A o \in DOMAIN f : \A i \in 1 .. Len(g[o].body) :
       Points(g[o], i) /\ g[g[o].body[i].v].kind # "closure" => g[o].body[i].v \in DOMAIN f

\* The forward address of an object that has been moved is in place of its header.
BackMemory(g, f, e, base, mem, end) ==
  /\ Frame(base, record.start, mem, end)
  /\ \A o \in DOMAIN f :
       /\ mem[record.start + f[o] + 1] = IF o \in DOMAIN e THEN cell("fwd", e[o]) ELSE Header(g[o])
       /\ \A i \in 1 .. Len(g[o].body) : mem[record.start + f[o] + i + 1] = Image(g, f, o, i)

BackObject == [kind : StableKinds, body : Seq(Cell), slice : Nat]

\* The objects moved are those of the new heap.
Moved(f, e, target_) ==
  /\ \A o \in DOMAIN e : o \in DOMAIN f /\ e[o] \in 1 .. Len(target_)
  /\ \A o, q \in DOMAIN e : e[o] = e[q] => o = q
  /\ \A t \in 1 .. Len(target_) : \E o \in DOMAIN e : e[o] = t

OnStack(s, t) == \E j \in 1 .. Len(s.stack) : s.stack[j] = t

\* How many fields of an object have been visited; cur is being visited up to n.
Visited(s, cur, n, t) ==
  IF t = cur THEN n ELSE IF OnStack(s, t) THEN s.target[t].slice ELSE Len(s.target[t].body)

\* Field i of an object of the new heap.
FieldBack(g, f, e, o, i, value, visited) ==
  IF i <= visited
  THEN /\ value = Image(g, e, o, i)
       /\ Points(g[o], i) /\ g[g[o].body[i].v].kind # "closure" => g[o].body[i].v \in DOMAIN e
  ELSE value = Image(g, f, o, i)

ObjectBack(g, f, e, obj, o, visited) ==
  /\ obj.kind = g[o].kind /\ Len(obj.body) = Len(g[o].body)
  /\ \A i \in 1 .. Len(g[o].body) : FieldBack(g, f, e, o, i, obj.body[i], visited)

\* An object is on the stack once, and only arrays remember where to go on.
StackOK(s) ==
  /\ \A i, j \in 1 .. Len(s.stack) : s.stack[i] = s.stack[j] => i = j
  /\ \A i \in 1 .. Len(s.stack) : s.stack[i] \in 1 .. Len(s.target)
  /\ \A t \in 1 .. Len(s.target) :
       IF OnStack(s, t) THEN /\ s.target[t].slice <= Len(s.target[t].body)
                             /\ s.target[t].slice # 0 => s.target[t].kind = "array"
       ELSE s.target[t].slice = 0

\* The visit of an object goes on to its end or up to where it will be resumed.
Visiting(s, cur, stop) ==
  cur # 0 => /\ cur \in 1 .. Len(s.target)
             /\ stop = IF OnStack(s, cur) THEN s.target[cur].slice ELSE Len(s.target[cur].body)

BackState(g, f, base, end, e, s, cur, n, stop) ==
  /\ s = [mem |-> s.mem, target |-> s.target, stack |-> s.stack]
  /\ s.target \in Seq(BackObject) /\ s.stack \in Seq(Nat)
  /\ BackMemory(g, f, e, base, s.mem, end) /\ Moved(f, e, s.target)
  /\ \A o \in DOMAIN e : ObjectBack(g, f, e, s.target[e[o]], o, Visited(s, cur, n, e[o]))
  /\ StackOK(s) /\ Visiting(s, cur, stop)

\* What an image has of an object.
LEMMA ImageObject ==
    ASSUME NEW g, NEW r, GraphOK(g, r), NEW f, NEW end, Complete(g, f, end), NEW o \in DOMAIN f
    PROVE  /\ o \in DOMAIN g /\ g[o].kind \in StableKinds /\ g[o].kind # "closure"
           /\ Len(g[o].body) \in Nat /\ f[o] \in Nat
           /\ \A i \in 1 .. Len(g[o].body) :
                /\ Image(g, f, o, i) \in Cell
                /\ Points(g[o], i) => g[o].body[i].v \in DOMAIN g
<1>1. o \in DOMAIN g /\ g[o].kind # "closure" /\ f[o] \in Nat
  BY DEF Complete, Layout
<1>2. /\ g[o].body \in Seq(Cell) /\ Len(g[o].body) \in Nat /\ g[o].kind \in StableKinds
      /\ \A i \in 1 .. Len(g[o].body) : Points(g[o], i) => g[o].body[i].v \in DOMAIN g
  BY <1>1, GraphObject
<1>3. ASSUME NEW i \in 1 .. Len(g[o].body) PROVE Image(g, f, o, i) \in Cell
  <2>1. g[o].body[i] \in Cell
    BY <1>2, ElementOfSeq
  <2>2. DUMMY_VALUE \in Cell
    BY DEF DUMMY_VALUE, cell, Cell
  <2>3. Points(g[o], i) /\ g[g[o].body[i].v].kind # "closure" => f[g[o].body[i].v] \in Nat
    BY DEF Complete, Layout
  <2>4. \A m \in Nat : cell("ptr", m) \in Cell
    BY DEF cell, Cell
  <2> QED BY <2>1, <2>2, <2>3, <2>4 DEF Image
<1> QED BY <1>1, <1>2, <1>3

\* The fields of an object as they are in the image.
BodyIs(cells, g, f, o) ==
  /\ cells \in Seq(Cell) /\ Len(cells) = Len(g[o].body)
  /\ \A i \in 1 .. Len(g[o].body) : cells[i] = Image(g, f, o, i)

\* Reading the body of an object of the image.
LEMMA ReadBody ==
    ASSUME NEW g, NEW r, GraphOK(g, r), NEW f, NEW base, NEW end, Complete(g, f, end),
           NEW e, NEW mem, BackMemory(g, f, e, base, mem, end), NEW o \in DOMAIN f,
           NEW at, at = record.start + f[o]
    PROVE  BodyIs(Read(mem, at + 1, Len(g[o].body)), g, f, o)
<1> DEFINE n == Len(g[o].body)
           a == at + 1 + 1
           b == at + 1 + n
<1>1. n \in Nat /\ at \in Nat /\ \A i \in 1 .. n : Image(g, f, o, i) \in Cell
  <2>1. record.start \in Nat
    BY DEF Complete
  <2> QED BY <2>1, ImageObject
<1>2. \A i \in 1 .. n : mem[at + i + 1] = Image(g, f, o, i)
  BY DEF BackMemory
<1> HIDE DEF n
<1>3. a \in Int /\ b \in Int
  BY <1>1
<1>4. \A i \in a .. b : mem[i] \in Cell
  <2> SUFFICES ASSUME NEW i \in a .. b PROVE mem[i] \in Cell
    OBVIOUS
  <2>1. (i - 1) - at \in 1 .. n /\ at + ((i - 1) - at) + 1 = i
    BY <1>1
  <2> QED BY <1>1, <1>2, <2>1
<1> HIDE DEF a, b
<1>5. /\ SubSeq(mem, a, b) \in Seq(Cell)
      /\ Len(SubSeq(mem, a, b)) = IF a <= b THEN b - a + 1 ELSE 0
      /\ \A i \in 1 .. b - a + 1 : SubSeq(mem, a, b)[i] = mem[a + i - 1]
  BY <1>3, <1>4, SubSeqProperties
<1>6. /\ (IF a <= b THEN b - a + 1 ELSE 0) = n /\ b - a + 1 = n
      /\ \A i \in 1 .. n : a + i - 1 = at + i + 1
  BY <1>1 DEF a, b
<1>7. Read(mem, at + 1, n) = SubSeq(mem, a, b)
  BY DEF Read, a, b
<1> HIDE DEF n
<1>8. \A i \in 1 .. n : SubSeq(mem, a, b)[i] = Image(g, f, o, i)
  BY <1>2, <1>5, <1>6
<1> QED BY <1>5, <1>6, <1>7, <1>8 DEF n, BodyIs

\* The forward address replaces a header.
LEMMA ForwardBack ==
    ASSUME NEW g, NEW r, GraphOK(g, r), NEW f, NEW base, NEW end, Complete(g, f, end),
           NEW e, NEW mem, BackMemory(g, f, e, base, mem, end), NEW o \in DOMAIN f,
           NEW x \in Nat, NEW d, DOMAIN d = DOMAIN e \cup {o}, d[o] = x,
           \A q \in DOMAIN e : q # o => d[q] = e[q]
    PROVE  BackMemory(g, f, d, base, [mem EXCEPT ![record.start + f[o] + 1] = cell("fwd", x)], end)
<1> DEFINE from == record.start
           p == from + f[o] + 1
           new == [mem EXCEPT ![p] = cell("fwd", x)]
<1>1. /\ from \in Nat /\ end \in Nat /\ end <= Len(mem) /\ Len(mem) \in Nat /\ mem \in Seq(Cell)
      /\ Layout(g, f, from, end)
  BY LenProperties DEF BackMemory, Frame, Complete
<1>2. from + f[o] \in Nat /\ p \in 1 .. Len(mem) /\ p <= end /\ p > from
  <2> DEFINE a == f[o]
             l == Len(mem)
             n == Len(g[o].body)
  <2>1. a \in Nat /\ n \in Nat /\ from + a + (1 + n) <= end
    BY <1>1, ImageObject DEF Layout, Size
  <2>2. l \in Nat /\ end <= l
    BY <1>1
  <2> HIDE DEF a, l, n, from
  <2>3. from + a \in Nat /\ from + a + 1 \in 1 .. l /\ from + a + 1 <= end /\ from + a + 1 > from
    BY <1>1, <2>1, <2>2
  <2> QED BY <2>3 DEF a, l
<1>3. cell("fwd", x) \in Cell
  BY DEF cell, Cell
<1> HIDE DEF p
<1>4. /\ new \in Seq(Cell) /\ Len(new) = Len(mem)
      /\ \A i \in 1 .. Len(mem) : new[i] = IF i = p THEN cell("fwd", x) ELSE mem[i]
  BY <1>1, <1>2, <1>3, ExceptSeq
<1> HIDE DEF new
<1>5. ASSUME NEW q \in DOMAIN f, NEW j \in 0 .. Len(g[q].body)
      PROVE  /\ from + f[q] + j + 1 \in 1 .. Len(mem)
             /\ from + f[q] + j + 1 = p => q = o /\ j = 0
  <2> DEFINE a == f[q]
             l == Len(mem)
             n == Len(g[q].body)
  <2>1. a \in Nat /\ n \in Nat /\ from + a + (1 + n) <= end
    BY <1>1, ImageObject DEF Layout, Size
  <2>2. l \in Nat /\ end <= l /\ j \in Nat /\ j <= n
    BY <1>1, <2>1
  <2>3. from + a + j \in Nat /\ from + a + j + 1 \in 1 .. l
    <3> HIDE DEF a, l, n, from
    <3> QED BY <1>1, <2>1, <2>2
  <2>4. ASSUME from + f[q] + j + 1 = p PROVE q = o /\ j = 0
    <3>1. from + f[q] + j = from + f[o] + 0
      <4> DEFINE u == from + f[q] + j
                 v == from + f[o]
      <4>1. u \in Nat /\ v \in Nat /\ u + 1 = v + 1
        BY <1>2, <2>3, <2>4 DEF p
      <4> HIDE DEF u, v
      <4>2. u = v + 0
        BY <4>1
      <4> QED BY <4>2 DEF u, v
    <3>2. 0 \in 0 .. Len(g[o].body)
      BY ImageObject
    <3> HIDE DEF from
    <3> QED BY <1>1, <3>1, <3>2, Places
  <2> QED BY <2>3, <2>4
<1>6. ASSUME NEW q \in DOMAIN f
      PROVE  /\ new[from + f[q] + 1] = IF q \in DOMAIN d THEN cell("fwd", d[q]) ELSE Header(g[q])
             /\ \A i \in 1 .. Len(g[q].body) : new[from + f[q] + i + 1] = Image(g, f, q, i)
  <2>1. /\ mem[from + f[q] + 1] = IF q \in DOMAIN e THEN cell("fwd", e[q]) ELSE Header(g[q])
        /\ \A i \in 1 .. Len(g[q].body) : mem[from + f[q] + i + 1] = Image(g, f, q, i)
    BY DEF BackMemory
  <2>2. Len(g[q].body) \in Nat /\ f[q] \in Nat
    BY ImageObject
  <2>3. 0 \in 0 .. Len(g[q].body) /\ from + f[q] + 0 = from + f[q]
    BY <1>1, <2>2
  <2>4. from + f[q] + 1 \in 1 .. Len(mem) /\ (from + f[q] + 1 = p => q = o)
    BY <1>5, <2>3
  <2>5. new[from + f[q] + 1] = IF q \in DOMAIN d THEN cell("fwd", d[q]) ELSE Header(g[q])
    <3>1. CASE q = o
      BY <1>4, <2>4, <3>1 DEF p
    <3>2. CASE q # o
      BY <1>4, <2>1, <2>4, <3>2
    <3> QED BY <3>1, <3>2
  <2>6. ASSUME NEW i \in 1 .. Len(g[q].body) PROVE new[from + f[q] + i + 1] = Image(g, f, q, i)
    <3>1. i \in 0 .. Len(g[q].body) /\ i # 0
      BY <2>2
    <3>2. from + f[q] + i + 1 \in 1 .. Len(mem) /\ from + f[q] + i + 1 # p
      BY <1>5, <3>1
    <3> QED BY <1>4, <2>1, <3>2
  <2> QED BY <2>5, <2>6
<1>7. Frame(base, from, new, end)
  <2>1. /\ Len(mem) % PageCells = 0 /\ from <= end /\ Len(base) \in Nat /\ Len(base) <= Len(mem)
        /\ \A i \in 1 .. Len(mem) : (i <= from => mem[i] = base[i]) /\ (i > end => mem[i] = ZeroCell)
    BY DEF BackMemory, Frame
  <2>2. \A i \in 1 .. Len(mem) : i <= from \/ i > end => i # p
    BY <1>1, <1>2
  <2> QED BY <1>1, <1>4, <2>1, <2>2 DEF Frame
<1> QED BY <1>6, <1>7 DEF BackMemory, new, p

\* What one more object on the heap and on the stack leaves as it is.
LEMMA PushedStack ==
    ASSUME NEW s, NEW t, s.stack \in Seq(Nat), s.target \in Seq(BackObject), StackOK(s),
           NEW obj \in BackObject, obj.slice = 0,
           t.stack = Append(s.stack, Len(s.target) + 1), t.target = Append(s.target, obj)
    PROVE  /\ t.stack \in Seq(Nat) /\ t.target \in Seq(BackObject) /\ StackOK(t)
           /\ Len(s.target) \in Nat /\ Len(t.target) = Len(s.target) + 1
           /\ t.target[Len(s.target) + 1] = obj /\ OnStack(t, Len(s.target) + 1)
           /\ \A i \in 1 .. Len(s.target) :
                t.target[i] = s.target[i] /\ (OnStack(t, i) <=> OnStack(s, i))
<1> DEFINE l == Len(s.target)
           m == Len(s.stack)
           st == s.stack
           tg == s.target
           new == l + 1
<1>1. l \in Nat /\ m \in Nat /\ new \in Nat /\ st \in Seq(Nat) /\ tg \in Seq(BackObject)
  BY LenProperties
<1> HIDE DEF st, tg, new
<1>2. /\ Append(st, new) \in Seq(Nat) /\ Len(Append(st, new)) = Len(st) + 1
      /\ \A i \in 1 .. Len(st) : Append(st, new)[i] = st[i]
      /\ Append(st, new)[Len(st) + 1] = new
  BY <1>1, AppendProperties
<1>3. /\ Append(tg, obj) \in Seq(BackObject) /\ Len(Append(tg, obj)) = Len(tg) + 1
      /\ \A i \in 1 .. Len(tg) : Append(tg, obj)[i] = tg[i]
      /\ Append(tg, obj)[Len(tg) + 1] = obj
  BY <1>1, AppendProperties
<1>4. /\ t.stack \in Seq(Nat) /\ Len(t.stack) = m + 1 /\ t.stack[m + 1] = new
      /\ \A i \in 1 .. m : t.stack[i] = s.stack[i]
  BY <1>2 DEF st, new
<1>5. /\ t.target \in Seq(BackObject) /\ Len(t.target) = l + 1 /\ t.target[new] = obj
      /\ \A i \in 1 .. l : t.target[i] = s.target[i]
  BY <1>3 DEF tg, new
<1>6. new = l + 1
  BY DEF new
<1>7. \A i \in 1 .. m : s.stack[i] \in 1 .. l
  BY DEF StackOK
<1> HIDE DEF l, m
<1>20. \A i \in 1 .. m + 1 : IF i <= m THEN i \in 1 .. m ELSE i = m + 1
  BY <1>1
<1>8. \A i \in 1 .. m + 1 : IF i <= m THEN i \in 1 .. m /\ t.stack[i] = s.stack[i] ELSE t.stack[i] = new
  BY <1>4, <1>20
<1>9. \A i \in 1 .. m + 1 : IF i <= m THEN t.stack[i] \in 1 .. l ELSE t.stack[i] = new /\ i = m + 1
  BY <1>7, <1>8, <1>20
<1>10. m + 1 \in 1 .. m + 1 /\ \A i \in 1 .. m : i \in 1 .. m + 1 /\ i <= m
  BY <1>1
<1>11. OnStack(t, new)
  BY <1>4, <1>10 DEF OnStack
<1>12. ASSUME NEW i \in 1 .. l PROVE OnStack(t, i) <=> OnStack(s, i)
  <2>1. i # new
    BY <1>1, <1>6
  <2>2. OnStack(s, i) => OnStack(t, i)
    BY <1>4, <1>10 DEF OnStack, m
  <2>3. OnStack(t, i) => OnStack(s, i)
    BY <1>4, <1>8, <2>1 DEF OnStack, m
  <2> QED BY <2>2, <2>3
<1>13. StackOK(t)
  <2>1. ASSUME NEW i \in 1 .. m + 1, NEW j \in 1 .. m + 1, t.stack[i] = t.stack[j] PROVE i = j
    <3>1. ~(new \in 1 .. l)
      BY <1>1, <1>6
    <3>2. \A a, b \in 1 .. m : s.stack[a] = s.stack[b] => a = b
      BY DEF StackOK, m
    <3>3. CASE i <= m /\ j <= m
      BY <1>8, <2>1, <3>2, <3>3
    <3>4. CASE ~(i <= m) /\ ~(j <= m)
      BY <1>9, <3>4
    <3>5. \A a, b \in 1 .. m + 1 : a <= m /\ ~(b <= m) => t.stack[a] # t.stack[b]
      <4> SUFFICES ASSUME NEW a \in 1 .. m + 1, NEW b \in 1 .. m + 1, a <= m, ~(b <= m)
                   PROVE  t.stack[a] # t.stack[b]
        OBVIOUS
      <4>1. t.stack[a] \in 1 .. l /\ t.stack[b] = new
        BY <1>9
      <4> QED BY <3>1, <4>1
    <3> QED BY <2>1, <3>3, <3>4, <3>5
  <2>2. ASSUME NEW i \in 1 .. m + 1 PROVE t.stack[i] \in 1 .. l + 1
    <3> DEFINE x == t.stack[i]
    <3>1. x \in 1 .. l \/ x = l + 1
      BY <1>6, <1>9
    <3> HIDE DEF x
    <3>2. x \in 1 .. l + 1
      BY <1>1, <3>1
    <3> QED BY <3>2 DEF x
  <2>3. ASSUME NEW i \in 1 .. l + 1
        PROVE IF OnStack(t, i) THEN /\ t.target[i].slice <= Len(t.target[i].body)
                                    /\ t.target[i].slice # 0 => t.target[i].kind = "array"
              ELSE t.target[i].slice = 0
    <3>1. CASE i = new
      <4>1. obj.body \in Seq(Cell)
        BY DEF BackObject
      <4>2. Len(obj.body) \in Nat
        BY <4>1, LenProperties
      <4> QED BY <1>5, <1>11, <3>1, <4>2
    <3>2. CASE i # new
      <4>1. i \in 1 .. l
        BY <1>1, <1>6, <3>2
      <4> QED BY <1>5, <1>12, <4>1 DEF StackOK, l
    <3> QED BY <3>1, <3>2
  <2> QED BY <1>4, <1>5, <2>1, <2>2, <2>3 DEF StackOK
<1> QED BY <1>1, <1>4, <1>5, <1>6, <1>11, <1>12, <1>13 DEF l

\* A field that was visited or not stays so when more objects are moved.
LEMMA FieldStays ==
    ASSUME NEW g, NEW f, NEW e, NEW d, Extends(e, d), NEW o, NEW i, NEW value, NEW visited,
           FieldBack(g, f, e, o, i, value, visited)
    PROVE  FieldBack(g, f, d, o, i, value, visited)
<1>1. CASE i <= visited
  <2>1. /\ value = Image(g, e, o, i)
        /\ Points(g[o], i) /\ g[g[o].body[i].v].kind # "closure" => g[o].body[i].v \in DOMAIN e
    BY <1>1 DEF FieldBack
  <2>2. \A q \in DOMAIN e : q \in DOMAIN d /\ d[q] = e[q]
    BY DEF Extends
  <2>3. Image(g, d, o, i) = Image(g, e, o, i)
    BY <2>1, <2>2 DEF Image
  <2> QED BY <1>1, <2>1, <2>2, <2>3 DEF FieldBack
<1>2. CASE ~(i <= visited)
  BY <1>2 DEF FieldBack
<1> QED BY <1>1, <1>2

\* An object that has not been moved is read, moved and put on the stack.
LEMMA EvacuateBackNew ==
    ASSUME NEW g, NEW r, GraphOK(g, r), NEW f, NEW base, NEW end, Complete(g, f, end),
           NEW e, NEW s, NEW cur, NEW n, NEW stop,
           BackState(g, f, base, end, e, s, cur, n, stop),
           NEW o \in DOMAIN f, o \notin DOMAIN e
    PROVE  \E d : /\ BackState(g, f, base, end, d, evacuateBack(s, f[o]), cur, n, stop)
                  /\ Extends(e, d) /\ o \in DOMAIN d
<1> DEFINE at == record.start + f[o]
           header == s.mem[at + 1]
           l == Len(s.target)
           body == Read(s.mem, at + 1, Len(g[o].body))
           obj == [kind |-> g[o].kind, body |-> body, slice |-> 0]
           t == evacuateBack(s, f[o])
           d == [q \in DOMAIN e \cup {o} |-> IF q = o THEN l + 1 ELSE e[q]]
<1>1. /\ s.target \in Seq(BackObject) /\ s.stack \in Seq(Nat) /\ StackOK(s) /\ Visiting(s, cur, stop)
      /\ BackMemory(g, f, e, base, s.mem, end) /\ Moved(f, e, s.target)
      /\ \A q \in DOMAIN e : ObjectBack(g, f, e, s.target[e[q]], q, Visited(s, cur, n, e[q]))
  BY DEF BackState
<1>2. header = Header(g[o])
  BY <1>1 DEF BackMemory
<1>3. /\ o \in DOMAIN g /\ g[o].kind \in StableKinds /\ g[o].kind # "closure"
      /\ Len(g[o].body) \in Nat
  BY ImageObject
<1>4. header.k = g[o].kind /\ header.k # "fwd"
  BY <1>2, <1>3 DEF Header, cell, StableKinds
<1>5. Len(pointerFields(header.k, header.v)) = Len(g[o].body)
  BY <1>2, <1>3, AllFields DEF Layouts
<1>6. /\ body \in Seq(Cell) /\ Len(body) = Len(g[o].body)
      /\ \A i \in 1 .. Len(g[o].body) : body[i] = Image(g, f, o, i)
  <2> DEFINE mem == s.mem
  <2>1. BackMemory(g, f, e, base, mem, end)
    BY <1>1
  <2>3. at = record.start + f[o]
    OBVIOUS
  <2> HIDE DEF mem, at
  <2>2. BodyIs(Read(mem, at + 1, Len(g[o].body)), g, f, o)
    BY <2>1, <2>3, ReadBody
  <2> QED BY <2>2 DEF mem, BodyIs
<1>7. t = [mem    |-> [s.mem EXCEPT ![at + 1] = cell("fwd", l + 1)],
           target |-> Append(s.target, obj), stack |-> Append(s.stack, l + 1)]
  BY <1>4, <1>5 DEF evacuateBack
<1> HIDE DEF t, body
<1>8. /\ t = [mem |-> t.mem, target |-> t.target, stack |-> t.stack]
      /\ t.mem = [s.mem EXCEPT ![at + 1] = cell("fwd", l + 1)]
      /\ t.target = Append(s.target, obj) /\ t.stack = Append(s.stack, l + 1)
  BY <1>7
<1>9. obj \in BackObject /\ obj.slice = 0 /\ obj.kind = g[o].kind /\ obj.body = body
  BY <1>3, <1>6 DEF BackObject
<1> HIDE DEF obj
<1>10. /\ t.stack \in Seq(Nat) /\ t.target \in Seq(BackObject) /\ StackOK(t)
       /\ l \in Nat /\ Len(t.target) = l + 1 /\ t.target[l + 1] = obj /\ OnStack(t, l + 1)
       /\ \A i \in 1 .. l : t.target[i] = s.target[i] /\ (OnStack(t, i) <=> OnStack(s, i))
  <2>1. /\ t.stack = Append(s.stack, Len(s.target) + 1) /\ t.target = Append(s.target, obj)
    BY <1>8
  <2>2. /\ t.stack \in Seq(Nat) /\ t.target \in Seq(BackObject) /\ StackOK(t)
        /\ Len(s.target) \in Nat /\ Len(t.target) = Len(s.target) + 1
        /\ t.target[Len(s.target) + 1] = obj /\ OnStack(t, Len(s.target) + 1)
        /\ \A i \in 1 .. Len(s.target) :
             t.target[i] = s.target[i] /\ (OnStack(t, i) <=> OnStack(s, i))
    <3> HIDE DEF l
    <3> QED BY <1>1, <1>9, <2>1, PushedStack
  <2> QED BY <2>2
<1>11. /\ DOMAIN d = DOMAIN e \cup {o} /\ d[o] = l + 1 /\ \A q \in DOMAIN e : d[q] = e[q]
  OBVIOUS
<1> HIDE DEF d
<1>12. Extends(e, d) /\ o \in DOMAIN d
  BY <1>11 DEF Extends
<1>13. BackMemory(g, f, d, base, t.mem, end)
  <2> DEFINE mem == s.mem
             x == l + 1
  <2>1. /\ BackMemory(g, f, e, base, mem, end) /\ x \in Nat /\ d[o] = x
        /\ t.mem = [mem EXCEPT ![record.start + f[o] + 1] = cell("fwd", x)]
    BY <1>1, <1>8, <1>10, <1>11
  <2>2. \A q \in DOMAIN e : q # o => d[q] = e[q]
    BY <1>11
  <2>3. /\ DOMAIN d = DOMAIN e \cup {o}
    BY <1>11
  <2> HIDE DEF mem, x, l
  <2>4. BackMemory(g, f, d, base, [mem EXCEPT ![record.start + f[o] + 1] = cell("fwd", x)], end)
    BY <2>1, <2>2, <2>3, ForwardBack
  <2> QED BY <2>1, <2>4
<1>14. \A q \in DOMAIN e : q \in DOMAIN f /\ e[q] \in 1 .. l
  BY <1>1 DEF Moved
<1>15. Moved(f, d, t.target)
  <2>1. \A q \in DOMAIN d : q \in DOMAIN f /\ d[q] \in 1 .. l + 1
    BY <1>10, <1>11, <1>14
  <2>2. \A p, q \in DOMAIN d : d[p] = d[q] => p = q
    <3>1. \A q \in DOMAIN e : d[q] # l + 1
      BY <1>10, <1>11, <1>14
    <3>2. \A p, q \in DOMAIN e : d[p] = d[q] => p = q
      BY <1>1, <1>11 DEF Moved
    <3> QED BY <1>11, <3>1, <3>2
  <2>3. ASSUME NEW i \in 1 .. l + 1 PROVE \E q \in DOMAIN d : d[q] = i
    <3>1. CASE i = l + 1
      BY <1>11, <3>1
    <3>2. CASE i # l + 1
      <4>1. i \in 1 .. l
        BY <1>10, <3>2
      <4>2. PICK q \in DOMAIN e : e[q] = i
        BY <1>1, <4>1 DEF Moved
      <4> QED BY <1>11, <4>2
    <3> QED BY <3>1, <3>2
  <2> QED BY <1>10, <2>1, <2>2, <2>3 DEF Moved
<1>16. cur # 0 => cur \in 1 .. l
  BY <1>1 DEF Visiting
<1>17. Visiting(t, cur, stop)
  <2> SUFFICES ASSUME cur # 0
               PROVE  /\ cur \in 1 .. Len(t.target)
                      /\ stop = IF OnStack(t, cur) THEN t.target[cur].slice ELSE Len(t.target[cur].body)
    BY DEF Visiting
  <2>1. cur \in 1 .. l /\ cur \in 1 .. l + 1
    BY <1>10, <1>16
  <2> QED BY <1>1, <1>10, <2>1 DEF Visiting
<1>18. ASSUME NEW q \in DOMAIN e
       PROVE  ObjectBack(g, f, d, t.target[d[q]], q, Visited(t, cur, n, d[q]))
  <2>1. d[q] = e[q] /\ e[q] \in 1 .. l
    BY <1>11, <1>14
  <2>2. t.target[d[q]] = s.target[e[q]] /\ Visited(t, cur, n, d[q]) = Visited(s, cur, n, e[q])
    BY <1>10, <2>1 DEF Visited
  <2> DEFINE v == Visited(s, cur, n, e[q])
             old == s.target[e[q]]
  <2>3. ObjectBack(g, f, e, old, q, v)
    BY <1>1
  <2> HIDE DEF v, old
  <2>4. ObjectBack(g, f, d, old, q, v)
    BY <1>12, <2>3, FieldStays DEF ObjectBack
  <2> QED BY <2>2, <2>4 DEF v, old
<1>19. ObjectBack(g, f, d, t.target[d[o]], o, Visited(t, cur, n, d[o]))
  <2>1. t.target[d[o]] = obj /\ l + 1 # cur
    BY <1>10, <1>11, <1>16
  <2>2. Visited(t, cur, n, d[o]) = 0
    BY <1>9, <1>10, <1>11, <2>1 DEF Visited
  <2>3. \A i \in 1 .. Len(g[o].body) : ~(i <= 0)
    BY <1>3
  <2> QED BY <1>6, <1>9, <2>1, <2>2, <2>3 DEF ObjectBack, FieldBack
<1>20. \A q \in DOMAIN d : ObjectBack(g, f, d, t.target[d[q]], q, Visited(t, cur, n, d[q]))
  BY <1>11, <1>18, <1>19
<1>21. BackState(g, f, base, end, d, t, cur, n, stop)
  BY <1>8, <1>10, <1>13, <1>15, <1>17, <1>20 DEF BackState
<1> QED BY <1>12, <1>21 DEF t

\* Moving an object leaves it with a forward address, what has been moved stays.
LEMMA EvacuateBack ==
    ASSUME NEW g, NEW r, GraphOK(g, r), NEW f, NEW base, NEW end, Complete(g, f, end),
           NEW e, NEW s, NEW cur, NEW n, NEW stop,
           BackState(g, f, base, end, e, s, cur, n, stop), NEW o \in DOMAIN f
    PROVE  \E d : /\ BackState(g, f, base, end, d, evacuateBack(s, f[o]), cur, n, stop)
                  /\ Extends(e, d) /\ o \in DOMAIN d
<1>1. CASE o \in DOMAIN e
  <2>1. s.mem[record.start + f[o] + 1] = cell("fwd", e[o])
    BY <1>1 DEF BackState, BackMemory
  <2>2. evacuateBack(s, f[o]) = s
    BY <2>1 DEF evacuateBack, cell
  <2>3. Extends(e, e)
    BY DEF Extends
  <2> QED BY <1>1, <2>2, <2>3
<1>2. CASE o \notin DOMAIN e
  BY <1>2, EvacuateBackNew
<1> QED BY <1>1, <1>2

\* The forward address of an object that has been moved.
LEMMA ForwardedIs ==
    ASSUME NEW g, NEW f, NEW base, NEW end, NEW e, NEW s, NEW cur, NEW n, NEW stop,
           BackState(g, f, base, end, e, s, cur, n, stop), NEW o \in DOMAIN f, o \in DOMAIN e
    PROVE  forwarded(s, f[o]) = e[o]
<1>1. s.mem[record.start + f[o] + 1] = cell("fwd", e[o])
  BY DEF BackState, BackMemory
<1>2. cell("fwd", e[o]).v = e[o]
  BY DEF cell
<1> QED BY <1>1, <1>2 DEF forwarded

\* Field i of an object of the new heap has been set.
FieldSet(s, t, cur, i, value) ==
  /\ t = [mem |-> t.mem, target |-> t.target, stack |-> t.stack]
  /\ t.mem = s.mem /\ t.stack = s.stack
  /\ t.target \in Seq(BackObject) /\ Len(t.target) = Len(s.target)
  /\ \A j \in 1 .. Len(s.target) : j # cur => t.target[j] = s.target[j]
  /\ t.target[cur].kind = s.target[cur].kind /\ t.target[cur].slice = s.target[cur].slice
  /\ Len(t.target[cur].body) = Len(s.target[cur].body)
  /\ \A j \in 1 .. Len(s.target[cur].body) :
       t.target[cur].body[j] = IF j = i THEN value ELSE s.target[cur].body[j]

\* The stack is as good as it was.
LEMMA SetKeepsStack ==
    ASSUME NEW s, NEW t, NEW cur, NEW i, NEW value, FieldSet(s, t, cur, i, value),
           StackOK(s), NEW stop, Visiting(s, cur, stop)
    PROVE  /\ StackOK(t) /\ Visiting(t, cur, stop) /\ Len(t.target) = Len(s.target)
           /\ \A j : OnStack(t, j) <=> OnStack(s, j)
<1>1. t.stack = s.stack /\ Len(t.target) = Len(s.target)
  BY DEF FieldSet
<1>2. \A j : OnStack(t, j) <=> OnStack(s, j)
  BY <1>1 DEF OnStack
<1>3. \A j \in 1 .. Len(s.target) :
        /\ t.target[j].slice = s.target[j].slice /\ t.target[j].kind = s.target[j].kind
        /\ Len(t.target[j].body) = Len(s.target[j].body)
  BY DEF FieldSet
<1>4. StackOK(t)
  BY <1>1, <1>2, <1>3 DEF StackOK
<1>5. Visiting(t, cur, stop)
  BY <1>1, <1>2, <1>3 DEF Visiting
<1> QED BY <1>1, <1>2, <1>4, <1>5

\* The next field of the object that is being visited has been set.
LEMMA FieldVisited ==
    ASSUME NEW g, NEW f, NEW base, NEW end, NEW e, NEW s, NEW cur, NEW n \in Nat, NEW stop,
           BackState(g, f, base, end, e, s, cur, n, stop),
           NEW q \in DOMAIN e, e[q] = cur, cur # 0, Len(g[q].body) \in Nat,
           NEW value, FieldBack(g, f, e, q, n + 1, value, n + 1),
           NEW t, FieldSet(s, t, cur, n + 1, value)
    PROVE  BackState(g, f, base, end, e, t, cur, n + 1, stop)
<1>1. /\ s.target \in Seq(BackObject) /\ s.stack \in Seq(Nat)
      /\ BackMemory(g, f, e, base, s.mem, end) /\ Moved(f, e, s.target)
      /\ StackOK(s) /\ Visiting(s, cur, stop)
      /\ \A o \in DOMAIN e : ObjectBack(g, f, e, s.target[e[o]], o, Visited(s, cur, n, e[o]))
  BY DEF BackState
<1>2. /\ t = [mem |-> t.mem, target |-> t.target, stack |-> t.stack]
      /\ t.target \in Seq(BackObject) /\ t.stack = s.stack /\ t.mem = s.mem
  BY DEF FieldSet
<1>3. /\ StackOK(t) /\ Visiting(t, cur, stop) /\ Len(t.target) = Len(s.target)
      /\ \A j : OnStack(t, j) <=> OnStack(s, j)
  BY <1>1, SetKeepsStack
<1>4. Moved(f, e, t.target)
  BY <1>1, <1>3 DEF Moved
<1>5. ASSUME NEW o \in DOMAIN e, o # q
      PROVE  ObjectBack(g, f, e, t.target[e[o]], o, Visited(t, cur, n + 1, e[o]))
  <2>1. e[o] # cur /\ e[o] \in 1 .. Len(s.target)
    BY <1>1, <1>5 DEF Moved
  <2>2. t.target[e[o]] = s.target[e[o]]
    BY <2>1 DEF FieldSet
  <2>3. Visited(t, cur, n + 1, e[o]) = Visited(s, cur, n, e[o])
    BY <1>3, <2>1, <2>2 DEF Visited
  <2> QED BY <1>1, <2>2, <2>3
<1>6. ObjectBack(g, f, e, t.target[e[q]], q, Visited(t, cur, n + 1, e[q]))
  <2> DEFINE old == s.target[cur]
             new == t.target[cur]
  <2>1. ObjectBack(g, f, e, old, q, n)
    BY <1>1 DEF Visited
  <2>2. /\ old.kind = g[q].kind /\ Len(old.body) = Len(g[q].body)
        /\ \A i \in 1 .. Len(g[q].body) : FieldBack(g, f, e, q, i, old.body[i], n)
    BY <2>1 DEF ObjectBack
  <2>3. /\ new.kind = g[q].kind /\ Len(new.body) = Len(g[q].body)
        /\ \A i \in 1 .. Len(g[q].body) :
             new.body[i] = IF i = n + 1 THEN value ELSE old.body[i]
    BY <2>2 DEF FieldSet
  <2> HIDE DEF old, new
  <2>4. ASSUME NEW i \in 1 .. Len(g[q].body) PROVE FieldBack(g, f, e, q, i, new.body[i], n + 1)
    <3>1. CASE i = n + 1
      BY <2>3, <3>1
    <3>2. CASE i # n + 1
      <4>1. i <= n + 1 <=> i <= n
        BY <3>2
      <4>2. FieldBack(g, f, e, q, i, new.body[i], n)
        BY <2>2, <2>3, <3>2
      <4> QED BY <4>1, <4>2 DEF FieldBack
    <3> QED BY <3>1, <3>2
  <2>5. ObjectBack(g, f, e, new, q, n + 1)
    BY <2>3, <2>4 DEF ObjectBack
  <2> QED BY <2>5 DEF Visited, new
<1>7. \A o \in DOMAIN e : ObjectBack(g, f, e, t.target[e[o]], o, Visited(t, cur, n + 1, e[o]))
  BY <1>5, <1>6
<1> QED BY <1>1, <1>2, <1>3, <1>4, <1>7 DEF BackState

\* Setting a field.
LEMMA SetField ==
    ASSUME NEW s, s = [mem |-> s.mem, target |-> s.target, stack |-> s.stack],
           s.target \in Seq(BackObject), NEW cur \in 1 .. Len(s.target), NEW i,
           i \in 1 .. Len(s.target[cur].body), NEW value \in Cell
    PROVE  FieldSet(s, [s EXCEPT !.target[cur].body[i] = value], cur, i, value)
<1> DEFINE t == [s EXCEPT !.target[cur].body[i] = value]
           tg == s.target
           obj == s.target[cur]
           body == s.target[cur].body
           newbody == [body EXCEPT ![i] = value]
           new == [obj EXCEPT !.body = newbody]
           newtg == [tg EXCEPT ![cur] = new]
           mem == s.mem
           stack_ == s.stack
<1>1. obj \in BackObject /\ Len(tg) \in Nat
  BY ElementOfSeq, LenProperties
<1>2. body \in Seq(Cell)
  BY <1>1 DEF BackObject
<1>3. /\ newbody \in Seq(Cell) /\ Len(newbody) = Len(body)
      /\ \A j \in 1 .. Len(body) : newbody[j] = IF j = i THEN value ELSE body[j]
  <2> HIDE DEF body
  <2> QED BY <1>2, ExceptSeq DEF body
<1> HIDE DEF newbody
<1>4. new \in BackObject /\ new.kind = obj.kind /\ new.slice = obj.slice /\ new.body = newbody
  BY <1>1, <1>3 DEF BackObject
<1> HIDE DEF new
<1>5. /\ newtg \in Seq(BackObject) /\ Len(newtg) = Len(tg)
      /\ \A j \in 1 .. Len(tg) : newtg[j] = IF j = cur THEN new ELSE tg[j]
  <2> HIDE DEF tg
  <2> QED BY <1>4, ExceptSeq DEF tg
<1>6. t.target = [s.target EXCEPT ![cur] = [s.target[cur] EXCEPT !.body = [s.target[cur].body EXCEPT ![i] = value]]]
  <2>1. s = [mem |-> mem, target |-> tg, stack |-> stack_]
    OBVIOUS
  <2> QED BY <2>1
<1>7. t.target = newtg
  BY <1>6 DEF new, newbody
<1>8. t = [mem |-> t.mem, target |-> t.target, stack |-> t.stack] /\ t.mem = s.mem /\ t.stack = s.stack
  <2> DEFINE x == [s.target EXCEPT ![cur] = [s.target[cur] EXCEPT !.body = [s.target[cur].body EXCEPT ![i] = value]]]
  <2>1. s = [mem |-> mem, target |-> tg, stack |-> stack_]
    OBVIOUS
  <2>2. t = [s EXCEPT !.target = x]
    OBVIOUS
  <2> HIDE DEF x, tg
  <2>3. t = [mem |-> mem, target |-> x, stack |-> stack_]
    <3> HIDE DEF mem, stack_, t
    <3> QED BY <2>1, <2>2
  <2> QED BY <2>3
<1>9. /\ t.target \in Seq(BackObject) /\ Len(t.target) = Len(s.target)
      /\ \A j \in 1 .. Len(s.target) : t.target[j] = IF j = cur THEN new ELSE s.target[j]
  <2> HIDE DEF newtg, t
  <2> QED BY <1>5, <1>7
<1>10. t.target[cur] = new
  BY <1>9
<1> HIDE DEF t, newtg
<1>11. /\ t.target[cur].kind = s.target[cur].kind /\ t.target[cur].slice = s.target[cur].slice
       /\ t.target[cur].body = newbody
  BY <1>4, <1>10
<1>12. /\ Len(t.target[cur].body) = Len(s.target[cur].body)
       /\ \A j \in 1 .. Len(s.target[cur].body) :
            t.target[cur].body[j] = IF j = i THEN value ELSE s.target[cur].body[j]
  BY <1>3, <1>11
<1>13. FieldSet(s, t, cur, i, value)
  BY <1>8, <1>9, <1>11, <1>12 DEF FieldSet
<1> QED BY <1>13 DEF t

\* Visiting a field that may be a pointer moves what it points to.
LEMMA VisitField ==
    ASSUME NEW g, NEW r, GraphOK(g, r), NEW f, NEW base, NEW end, Complete(g, f, end),
           NEW e, NEW s, NEW cur, NEW n \in Nat, NEW stop,
           BackState(g, f, base, end, e, s, cur, n, stop),
           NEW q \in DOMAIN e, e[q] = cur, cur # 0, NEW i, i = n + 1, i <= Len(g[q].body),
           g[q].body[i].k = "ptr" => Points(g[q], i)
    PROVE  \E d : /\ BackState(g, f, base, end, d, visitField(s, cur, i), cur, i, stop)
                  /\ Extends(e, d)
<1> DEFINE c == s.target[cur].body[i]
           p == g[q].body[i].v
<1>1. /\ s = [mem |-> s.mem, target |-> s.target, stack |-> s.stack]
      /\ s.target \in Seq(BackObject) /\ Moved(f, e, s.target)
      /\ ObjectBack(g, f, e, s.target[cur], q, Visited(s, cur, n, cur))
  BY DEF BackState
<1>2. q \in DOMAIN f /\ cur \in 1 .. Len(s.target)
  BY <1>1 DEF Moved
<1>3. Len(g[q].body) \in Nat /\ i \in 1 .. Len(g[q].body) /\ Image(g, f, q, i) \in Cell
  <2>1. Len(g[q].body) \in Nat
    BY <1>2, ImageObject
  <2>2. i \in 1 .. Len(g[q].body)
    BY <2>1
  <2> QED BY <1>2, <2>1, <2>2, ImageObject
<1>4. c = Image(g, f, q, i) /\ Len(s.target[cur].body) = Len(g[q].body)
  <2>1. ObjectBack(g, f, e, s.target[cur], q, n)
    BY <1>1 DEF Visited
  <2>2. ~(i <= n)
    OBVIOUS
  <2> QED BY <1>3, <2>1, <2>2 DEF ObjectBack, FieldBack
<1>5. Extends(e, e)
  BY DEF Extends
<1>6. ASSUME c.k # "ptr" PROVE BackState(g, f, base, end, e, visitField(s, cur, i), cur, i, stop)
  <2>1. visitField(s, cur, i) = s
    BY <1>6 DEF visitField
  <2>2. FieldSet(s, s, cur, n + 1, c)
    BY <1>1 DEF FieldSet
  <2>3. ~(Points(g[q], i) /\ g[p].kind # "closure")
    BY <1>4, <1>6 DEF Image, cell
  <2>4. Image(g, e, q, i) = Image(g, f, q, i)
    BY <2>3 DEF Image
  <2>5. FieldBack(g, f, e, q, n + 1, c, n + 1)
    BY <1>4, <2>3, <2>4 DEF FieldBack
  <2> HIDE DEF c
  <2> QED BY <1>3, <2>1, <2>2, <2>5, FieldVisited
<1>7. ASSUME c.k = "ptr"
      PROVE  \E d : /\ BackState(g, f, base, end, d, visitField(s, cur, i), cur, i, stop)
                    /\ Extends(e, d)
  <2>1. Points(g[q], i) /\ g[p].kind # "closure" /\ c = cell("ptr", f[p])
    <3>1. DUMMY_VALUE.k = "dummy"
      BY DEF DUMMY_VALUE, cell
    <3>2. Points(g[q], i)
      BY <1>4, <1>7 DEF Image
    <3>3. g[p].kind # "closure"
      BY <1>4, <1>7, <3>1, <3>2 DEF Image
    <3> QED BY <1>4, <3>2, <3>3 DEF Image
  <2>2. p \in DOMAIN f
    BY <1>2, <1>3, <2>1 DEF Complete
  <2>3. c.v = f[p]
    BY <2>1 DEF cell
  <2> DEFINE t == evacuateBack(s, f[p])
             value == cell("ptr", forwarded(t, f[p]))
  <2>4. visitField(s, cur, i) = [t EXCEPT !.target[cur].body[i] = value]
    <3> HIDE DEF p
    <3> QED BY <1>7, <2>3 DEF visitField
  <2> HIDE DEF p
  <2>5. PICK d : BackState(g, f, base, end, d, t, cur, n, stop) /\ Extends(e, d) /\ p \in DOMAIN d
    BY <2>2, EvacuateBack
  <2> HIDE DEF t
  <2>6. forwarded(t, f[p]) = d[p]
    BY <2>2, <2>5, ForwardedIs
  <2>7. q \in DOMAIN d /\ d[q] = cur
    BY <2>5 DEF Extends
  <2>8. /\ t = [mem |-> t.mem, target |-> t.target, stack |-> t.stack]
        /\ t.target \in Seq(BackObject) /\ Moved(f, d, t.target)
        /\ ObjectBack(g, f, d, t.target[cur], q, Visited(t, cur, n, cur))
    BY <2>5, <2>7 DEF BackState
  <2>9. cur \in 1 .. Len(t.target) /\ Len(t.target) \in Nat /\ d[p] \in 1 .. Len(t.target)
    BY <2>5, <2>7, <2>8, LenProperties DEF Moved
  <2>10. i \in 1 .. Len(t.target[cur].body)
    BY <1>3, <2>8 DEF ObjectBack
  <2>11. value \in Cell /\ value = Image(g, d, q, i)
    <3>1. d[p] \in Int
      BY <2>9
    <3>2. value = cell("ptr", d[p])
      BY <2>6
    <3>3. \A x \in Int : cell("ptr", x) \in Cell
      BY DEF cell, Cell
    <3> QED BY <2>1, <3>1, <3>2, <3>3 DEF Image, p
  <2> HIDE DEF value
  <2>12. FieldSet(t, visitField(s, cur, i), cur, i, value)
    <3> DEFINE x == value
    <3>1. x \in Cell /\ visitField(s, cur, i) = [t EXCEPT !.target[cur].body[i] = x]
      BY <2>4, <2>11
    <3> HIDE DEF x
    <3>2. FieldSet(t, [t EXCEPT !.target[cur].body[i] = x], cur, i, x)
      BY <2>8, <2>9, <2>10, <3>1, SetField
    <3> QED BY <3>1, <3>2 DEF x
  <2>13. FieldBack(g, f, d, q, i, value, i)
    BY <2>5, <2>11 DEF FieldBack, p
  <2>14. BackState(g, f, base, end, d, visitField(s, cur, i), cur, i, stop)
    BY <1>3, <2>5, <2>7, <2>12, <2>13, FieldVisited
  <2> QED BY <2>5, <2>14
<1> QED BY <1>5, <1>6, <1>7

\* A field that is no pointer is left as it is.
LEMMA PassField ==
    ASSUME NEW g, NEW r, GraphOK(g, r), NEW f, NEW base, NEW end, Complete(g, f, end),
           NEW e, NEW s, NEW cur, NEW n \in Nat, NEW stop,
           BackState(g, f, base, end, e, s, cur, n, stop),
           NEW q \in DOMAIN e, e[q] = cur, cur # 0, NEW i, i = n + 1, i <= Len(g[q].body),
           ~Points(g[q], i)
    PROVE  BackState(g, f, base, end, e, s, cur, i, stop)
<1> DEFINE c == s.target[cur].body[i]
<1>1. /\ s = [mem |-> s.mem, target |-> s.target, stack |-> s.stack]
      /\ s.target \in Seq(BackObject) /\ Moved(f, e, s.target)
      /\ ObjectBack(g, f, e, s.target[cur], q, n)
  BY DEF BackState, Visited
<1>2. q \in DOMAIN f /\ Len(g[q].body) \in Nat
  <2>1. q \in DOMAIN f
    BY <1>1 DEF Moved
  <2> QED BY <2>1, ImageObject
<1>3. i \in 1 .. Len(g[q].body) /\ ~(i <= n)
  BY <1>2
<1>4. c = Image(g, f, q, i)
  BY <1>1, <1>3 DEF ObjectBack, FieldBack
<1>5. FieldBack(g, f, e, q, n + 1, c, n + 1)
  BY <1>4 DEF FieldBack, Image
<1>6. FieldSet(s, s, cur, n + 1, c)
  BY <1>1 DEF FieldSet
<1> HIDE DEF c
<1> QED BY <1>2, <1>5, <1>6, FieldVisited

\* What the visit of field i makes of a state.
visited(s, o, from, fields, i) == IF fields[i] THEN visitField(s, o, from + i) ELSE s

\* The states after each of the first n fields.
AfterVisits(a, s, o, from, fields, n) ==
  a = [i \in 0 .. n |-> IF i = 0 THEN s
                        ELSE CHOOSE v \in {IF fields[i] THEN visitField(r, o, from + i) ELSE r :
                                             r \in {a[i - 1]}} : TRUE]

\* Each state results from the one before.
LEMMA VisitStep ==
    ASSUME NEW a, NEW s, NEW o, NEW from, NEW fields, NEW n \in Nat,
           AfterVisits(a, s, o, from, fields, n)
    PROVE  a[0] = s /\ \A i \in 1 .. n : a[i] = visited(a[i - 1], o, from, fields, i)
<1>1. a[0] = s
  BY DEF AfterVisits
<1>2. ASSUME NEW i \in 1 .. n PROVE a[i] = visited(a[i - 1], o, from, fields, i)
  <2> DEFINE set == {IF fields[i] THEN visitField(r, o, from + i) ELSE r : r \in {a[i - 1]}}
  <2>1. a[i] = CHOOSE v \in set : TRUE
    BY DEF AfterVisits
  <2>2. set = {visited(a[i - 1], o, from, fields, i)}
    BY DEF visited
  <2> HIDE DEF set
  <2> QED BY <2>1, <2>2
<1> QED BY <1>1, <1>2

\* There are such states.
LEMMA VisitsExist ==
    ASSUME NEW s, NEW o, NEW from, NEW fields, NEW n \in Nat
    PROVE  \E a : AfterVisits(a, s, o, from, fields, n)
<1> DEFINE S == {m \in Nat : ~\E a : AfterVisits(a, s, o, from, fields, m)}
<1> SUFFICES ASSUME S # {} PROVE FALSE
  OBVIOUS
<1>1. PICK m \in S : \A k \in S : m <= k
  <2> HIDE DEF S
  <2> QED BY LeastNumber DEF S
<1>2. m # 0
  <2>1. AfterVisits([i \in 0 .. 0 |-> s], s, o, from, fields, 0)
    BY DEF AfterVisits
  <2> QED BY <2>1
<1>3. m \in Nat /\ m - 1 \in Nat /\ m - 1 \notin S
  BY <1>1, <1>2
<1>4. PICK b : AfterVisits(b, s, o, from, fields, m - 1)
  BY <1>3
<1> DEFINE last(i) == CHOOSE v \in {IF fields[i] THEN visitField(r, o, from + i) ELSE r :
                                      r \in {b[i - 1]}} : TRUE
           a == [i \in 0 .. m |-> IF i = 0 THEN s ELSE last(i)]
<1>5. \A i \in 0 .. m - 1 : a[i] = b[i]
  <2>1. \A i \in 0 .. m - 1 : b[i] = IF i = 0 THEN s ELSE last(i)
    BY <1>4 DEF AfterVisits
  <2>2. \A i \in 0 .. m - 1 : i \in 0 .. m
    BY <1>3
  <2> HIDE DEF last
  <2> QED BY <2>1, <2>2
<1>6. \A i \in 0 .. m : i # 0 => i - 1 \in 0 .. m - 1
  BY <1>3
<1>7. AfterVisits(a, s, o, from, fields, m)
  <2>1. \A i \in 0 .. m : i # 0 => a[i - 1] = b[i - 1]
    BY <1>5, <1>6
  <2> HIDE DEF a
  <2>2. a = [i \in 0 .. m |-> IF i = 0 THEN s
                        ELSE CHOOSE v \in {IF fields[i] THEN visitField(r, o, from + i) ELSE r :
                                             r \in {a[i - 1]}} : TRUE]
    BY <2>1 DEF a
  <2> QED BY <2>2 DEF AfterVisits
<1> QED BY <1>7

\* Visiting fields moves what they point to.
LEMMA VisitFields ==
    ASSUME NEW g, NEW r, GraphOK(g, r), NEW f, NEW base, NEW end, Complete(g, f, end),
           NEW e, NEW s, NEW cur, NEW from, NEW stop,
           BackState(g, f, base, end, e, s, cur, from, stop),
           NEW q \in DOMAIN e, e[q] = cur, cur # 0, NEW fields,
           FieldsOf(g[q], from, fields)
    PROVE  \E d : /\ BackState(g, f, base, end, d, visitFields(s, cur, from, fields), cur,
                               from + Len(fields), stop)
                  /\ Extends(e, d)
<1> DEFINE n == Len(fields)
           a == CHOOSE b : AfterVisits(b, s, cur, from, fields, n)
<1>1. n \in Nat /\ from \in Nat /\ from + n <= Len(g[q].body)
  BY DEF FieldsOf
<1>2. Len(g[q].body) \in Nat
  <2>1. q \in DOMAIN f
    BY DEF BackState, Moved
  <2> QED BY <2>1, ImageObject
<1>3. \A i \in 1 .. n : IF fields[i] THEN g[q].body[from + i].k = "ptr" => Points(g[q], from + i)
                        ELSE ~Points(g[q], from + i)
  BY DEF FieldsOf
<1> HIDE DEF n
<1>4. AfterVisits(a, s, cur, from, fields, n)
  BY <1>1, VisitsExist
<1>5. visitFields(s, cur, from, fields) = a[n]
  BY DEF visitFields, AfterVisits, n
<1> HIDE DEF a
<1>6. a[0] = s /\ \A i \in 1 .. n : a[i] = visited(a[i - 1], cur, from, fields, i)
  BY <1>1, <1>4, VisitStep
<1> DEFINE Good(i) == \E d : BackState(g, f, base, end, d, a[i], cur, from + i, stop) /\ Extends(e, d)
<1>7. Good(0)
  <2>1. Extends(e, e) /\ from + 0 = from
    BY <1>1 DEF Extends
  <2> QED BY <1>6, <2>1
<1>8. ASSUME NEW i \in 1 .. n, Good(i - 1) PROVE Good(i)
  <2> DEFINE t == a[i - 1]
             m == from + (i - 1)
             l == Len(g[q].body)
  <2>1. PICK d : BackState(g, f, base, end, d, t, cur, m, stop) /\ Extends(e, d)
    BY <1>8
  <2>2. m \in Nat /\ from + i = m + 1 /\ from + i <= l
    <3>1. l \in Nat /\ from + n <= l
      BY <1>1, <1>2
    <3> HIDE DEF l
    <3> QED BY <1>1, <3>1
  <2>3. q \in DOMAIN d /\ d[q] = cur
    BY <2>1 DEF Extends
  <2>4. a[i] = visited(t, cur, from, fields, i)
    BY <1>6
  <2> HIDE DEF t, m
  <2>5. CASE fields[i]
    <3>1. \E c : BackState(g, f, base, end, c, visitField(t, cur, from + i), cur, from + i, stop)
                 /\ Extends(d, c)
      BY <1>3, <2>1, <2>2, <2>3, <2>5, VisitField
    <3>2. a[i] = visitField(t, cur, from + i)
      BY <2>4, <2>5 DEF visited
    <3>3. \A c : Extends(d, c) => Extends(e, c)
      BY <2>1 DEF Extends
    <3> QED BY <3>1, <3>2, <3>3
  <2>6. CASE ~fields[i]
    <3>1. BackState(g, f, base, end, d, t, cur, from + i, stop)
      BY <1>3, <2>1, <2>2, <2>3, <2>6, PassField
    <3>2. a[i] = t
      BY <2>4, <2>6 DEF visited
    <3> QED BY <2>1, <3>1, <3>2
  <2> QED BY <2>5, <2>6
<1> HIDE DEF Good
<1>9. Good(n)
  <2> DEFINE S == {i \in 0 .. n : ~Good(i)}
  <2> SUFFICES ASSUME S # {} PROVE FALSE
    BY <1>1
  <2>1. S \subseteq Nat
    BY <1>1
  <2>2. PICK i \in S : \A j \in S : i <= j
    <3> HIDE DEF S
    <3> QED BY <2>1, LeastNumber
  <2>3. i # 0 /\ i \in 1 .. n
    BY <1>1, <1>7, <2>2
  <2>4. i - 1 \in 0 .. n /\ i - 1 \notin S
    BY <1>1, <2>2, <2>3
  <2> QED BY <1>8, <2>2, <2>3, <2>4
<1> QED BY <1>5, <1>9 DEF Good, n

\* An object is popped from the stack, to be visited from where it was left.
Popped(s, t, cur, stop) ==
  /\ t = [mem |-> t.mem, target |-> t.target, stack |-> t.stack]
  /\ t.mem = s.mem
  /\ t.target \in Seq(BackObject) /\ Len(t.target) = Len(s.target)
  /\ \A j \in 1 .. Len(s.target) : j # cur => t.target[j] = s.target[j]
  /\ t.target[cur].kind = s.target[cur].kind /\ t.target[cur].body = s.target[cur].body
  /\ \/ /\ t.stack = s.stack /\ s.target[cur].kind = "array"
        /\ t.target[cur].slice = stop /\ stop <= Len(s.target[cur].body)
     \/ /\ t.stack = Front(s.stack)
        /\ t.target[cur].slice = 0 /\ stop = Len(s.target[cur].body)

\* The elements of a stack but its last.
LEMMA FrontIs ==
    ASSUME NEW S, NEW st \in Seq(S), st # <<>>
    PROVE  /\ Len(st) \in Nat \ {0} /\ Front(st) \in Seq(S) /\ Len(Front(st)) = Len(st) - 1
           /\ \A i \in 1 .. Len(st) - 1 : Front(st)[i] = st[i]
           /\ Last(st) = st[Len(st)] /\ Last(st) \in S
<1>1. Len(st) \in Nat \ {0}
  <2>1. Len(st) \in Nat /\ (Len(st) = 0 => st = <<>>)
    BY LenProperties, EmptySeq
  <2> QED BY <2>1
<1>2. Front(st) = SubSeq(st, 1, Len(st) - 1) /\ Last(st) = st[Len(st)]
  BY DEF Front, Last
<1>3. \A i \in 1 .. Len(st) - 1 : st[i] \in S
  BY <1>1, ElementOfSeq
<1>4. 1 \in Int /\ Len(st) - 1 \in Int
  BY <1>1
<1> DEFINE m == Len(st) - 1
<1>5. m \in Nat /\ m + 1 = Len(st)
  BY <1>1
<1> HIDE DEF m
<1>6. \A i \in 1 .. m : st[i] \in S
  BY <1>3 DEF m
<1>7. /\ SubSeq(st, 1, m) \in Seq(S) /\ Len(SubSeq(st, 1, m)) = IF 1 <= m THEN m - 1 + 1 ELSE 0
      /\ \A i \in 1 .. m - 1 + 1 : SubSeq(st, 1, m)[i] = st[1 + i - 1]
  BY <1>5, <1>6, SubSeqProperties
<1>8. (IF 1 <= m THEN m - 1 + 1 ELSE 0) = m /\ m - 1 + 1 = m /\ \A i \in 1 .. m : 1 + i - 1 = i
  BY <1>5
<1>9. Front(st) \in Seq(S) /\ Len(Front(st)) = m /\ \A i \in 1 .. m : Front(st)[i] = st[i]
  BY <1>2, <1>7, <1>8 DEF m
<1>10. Last(st) \in S
  BY <1>1, <1>2, ElementOfSeq
<1> QED BY <1>1, <1>2, <1>9, <1>10 DEF m

\* What is on the stack then.
LEMMA PoppedStack ==
    ASSUME NEW s, NEW t, NEW cur, NEW stop, Popped(s, t, cur, stop), s.stack \in Seq(Nat),
           s.stack # <<>>, cur = Last(s.stack), StackOK(s), s.target \in Seq(BackObject)
    PROVE  /\ t.stack \in Seq(Nat) /\ StackOK(t) /\ Visiting(t, cur, stop)
           /\ cur \in 1 .. Len(s.target) /\ OnStack(s, cur)
           /\ \A j : j # cur => (OnStack(t, j) <=> OnStack(s, j))
<1> DEFINE m == Len(s.stack)
<1>1. /\ m \in Nat \ {0} /\ Front(s.stack) \in Seq(Nat) /\ Len(Front(s.stack)) = m - 1
      /\ \A i \in 1 .. m - 1 : Front(s.stack)[i] = s.stack[i]
      /\ cur = s.stack[m] /\ cur \in Nat
  BY FrontIs
<1>2. /\ \A i, j \in 1 .. m : s.stack[i] = s.stack[j] => i = j
      /\ \A i \in 1 .. m : s.stack[i] \in 1 .. Len(s.target)
      /\ m \in 1 .. m
  BY <1>1 DEF StackOK
<1>3. cur \in 1 .. Len(s.target) /\ OnStack(s, cur)
  BY <1>1, <1>2 DEF OnStack
<1>4. /\ Len(t.target) = Len(s.target)
      /\ \A j \in 1 .. Len(s.target) :
           /\ Len(t.target[j].body) = Len(s.target[j].body) /\ t.target[j].kind = s.target[j].kind
           /\ j # cur => t.target[j].slice = s.target[j].slice
  BY <1>3 DEF Popped
<1>5. cur # 0
  BY <1>3
<1>6. CASE /\ t.stack = s.stack /\ s.target[cur].kind = "array"
           /\ t.target[cur].slice = stop /\ stop <= Len(s.target[cur].body)
  <2>1. \A j : OnStack(t, j) <=> OnStack(s, j)
    BY <1>6 DEF OnStack
  <2>2. StackOK(t)
    BY <1>2, <1>3, <1>4, <1>6, <2>1 DEF StackOK
  <2>3. Visiting(t, cur, stop)
    BY <1>3, <1>4, <1>6, <2>1 DEF Visiting
  <2> QED BY <1>3, <1>6, <2>1, <2>2, <2>3
<1>7. CASE /\ t.stack = Front(s.stack)
           /\ t.target[cur].slice = 0 /\ stop = Len(s.target[cur].body)
  <2> HIDE DEF m
  <2>1. /\ t.stack \in Seq(Nat) /\ Len(t.stack) = m - 1
        /\ \A i \in 1 .. m - 1 : t.stack[i] = s.stack[i] /\ i \in 1 .. m /\ i # m
    BY <1>1, <1>7
  <2>2. \A i \in 1 .. m : i # m => i \in 1 .. m - 1
    BY <1>1
  <2>3. ~OnStack(t, cur)
    BY <1>1, <1>2, <2>1 DEF OnStack
  <2>4. \A j : j # cur => (OnStack(t, j) <=> OnStack(s, j))
    <3>1. ASSUME NEW j, j # cur, OnStack(s, j) PROVE OnStack(t, j)
      <4>1. PICK i \in 1 .. m : s.stack[i] = j
        BY <3>1 DEF OnStack, m
      <4>2. i # m
        BY <1>1, <3>1, <4>1
      <4> QED BY <2>1, <2>2, <4>1, <4>2 DEF OnStack
    <3>2. ASSUME NEW j, OnStack(t, j) PROVE OnStack(s, j)
      BY <2>1, <3>2 DEF OnStack, m
    <3> QED BY <3>1, <3>2
  <2>5. ASSUME NEW j \in 1 .. Len(t.target)
        PROVE  IF OnStack(t, j) THEN /\ t.target[j].slice <= Len(t.target[j].body)
                                     /\ t.target[j].slice # 0 => t.target[j].kind = "array"
               ELSE t.target[j].slice = 0
    <3>1. CASE j = cur
      BY <1>7, <2>3, <3>1
    <3>2. CASE j # cur
      BY <1>4, <2>4, <3>2 DEF StackOK
    <3> QED BY <3>1, <3>2
  <2>6. /\ \A i, j \in 1 .. m - 1 : t.stack[i] = t.stack[j] => i = j
        /\ \A i \in 1 .. m - 1 : t.stack[i] \in 1 .. Len(t.target)
    BY <1>2, <1>4, <2>1
  <2>7. StackOK(t)
    BY <2>1, <2>5, <2>6 DEF StackOK
  <2>8. Visiting(t, cur, stop)
    BY <1>3, <1>4, <1>7, <2>3 DEF Visiting
  <2> QED BY <1>3, <2>1, <2>4, <2>7, <2>8
<1> QED BY <1>6, <1>7 DEF Popped

\* The object is visited from where it was left.
LEMMA Resumed ==
    ASSUME NEW g, NEW f, NEW base, NEW end, NEW e, NEW s,
           BackState(g, f, base, end, e, s, 0, 0, 0), s.stack # <<>>,
           NEW cur, cur = Last(s.stack), NEW t, NEW stop, Popped(s, t, cur, stop)
    PROVE  /\ BackState(g, f, base, end, e, t, cur, s.target[cur].slice, stop)
           /\ cur \in 1 .. Len(s.target) /\ cur # 0
<1>1. /\ s.target \in Seq(BackObject) /\ s.stack \in Seq(Nat)
      /\ BackMemory(g, f, e, base, s.mem, end) /\ Moved(f, e, s.target) /\ StackOK(s)
      /\ \A o \in DOMAIN e : ObjectBack(g, f, e, s.target[e[o]], o, Visited(s, 0, 0, e[o]))
  BY DEF BackState
<1>2. /\ t = [mem |-> t.mem, target |-> t.target, stack |-> t.stack] /\ t.mem = s.mem
      /\ t.target \in Seq(BackObject) /\ Len(t.target) = Len(s.target)
      /\ \A j \in 1 .. Len(s.target) : j # cur => t.target[j] = s.target[j]
      /\ t.target[cur].kind = s.target[cur].kind /\ t.target[cur].body = s.target[cur].body
  BY DEF Popped
<1>3. /\ t.stack \in Seq(Nat) /\ StackOK(t) /\ Visiting(t, cur, stop)
      /\ cur \in 1 .. Len(s.target) /\ OnStack(s, cur)
      /\ \A j : j # cur => (OnStack(t, j) <=> OnStack(s, j))
  BY <1>1, PoppedStack
<1>4. Moved(f, e, t.target)
  BY <1>1, <1>2 DEF Moved
<1> DEFINE n == s.target[cur].slice
<1>5. ASSUME NEW o \in DOMAIN e
      PROVE  ObjectBack(g, f, e, t.target[e[o]], o, Visited(t, cur, n, e[o]))
  <2>1. e[o] \in 1 .. Len(s.target) /\ e[o] # 0
    BY <1>1 DEF Moved
  <2>2. Visited(t, cur, n, e[o]) = Visited(s, 0, 0, e[o])
    BY <1>2, <1>3, <2>1 DEF Visited
  <2>3. /\ t.target[e[o]].kind = s.target[e[o]].kind
        /\ t.target[e[o]].body = s.target[e[o]].body
    BY <1>2, <2>1
  <2>4. ObjectBack(g, f, e, s.target[e[o]], o, Visited(t, cur, n, e[o]))
    BY <1>1, <2>2
  <2> HIDE DEF n
  <2> QED BY <2>3, <2>4 DEF ObjectBack
<1>6. BackState(g, f, base, end, e, t, cur, n, stop)
  <2> HIDE DEF n
  <2> QED BY <1>1, <1>2, <1>3, <1>4, <1>5 DEF BackState
<1> QED BY <1>3, <1>6

\* The visit has come to its end.
LEMMA Finished ==
    ASSUME NEW g, NEW f, NEW base, NEW end, NEW e, NEW s, NEW cur, cur # 0, NEW stop,
           BackState(g, f, base, end, e, s, cur, stop, stop)
    PROVE  BackState(g, f, base, end, e, s, 0, 0, 0)
<1>1. /\ s = [mem |-> s.mem, target |-> s.target, stack |-> s.stack]
      /\ s.target \in Seq(BackObject) /\ s.stack \in Seq(Nat)
      /\ BackMemory(g, f, e, base, s.mem, end) /\ Moved(f, e, s.target) /\ StackOK(s)
      /\ \A o \in DOMAIN e : ObjectBack(g, f, e, s.target[e[o]], o, Visited(s, cur, stop, e[o]))
      /\ stop = IF OnStack(s, cur) THEN s.target[cur].slice ELSE Len(s.target[cur].body)
  BY DEF BackState, Visiting
<1>2. \A o \in DOMAIN e : e[o] # 0
  BY <1>1 DEF Moved
<1>3. ASSUME NEW o \in DOMAIN e PROVE Visited(s, cur, stop, e[o]) = Visited(s, 0, 0, e[o])
  BY <1>1, <1>2 DEF Visited
<1>4. Visiting(s, 0, 0)
  BY DEF Visiting
<1> QED BY <1>1, <1>3, <1>4 DEF BackState

\* All the fields may be pointers in the rest of an array or of an object.
LEMMA TrueFields ==
    ASSUME NEW g, NEW r, GraphOK(g, r), NEW o \in DOMAIN g, g[o].kind \in {"array", "object"},
           NEW k \in Nat, NEW n \in Nat, k + n <= Len(g[o].body)
    PROVE  FieldsOf(g[o], k, [i \in 1 .. n |-> TRUE]) /\ Len([i \in 1 .. n |-> TRUE]) = n
<1>1. \A i \in 1 .. n : g[o].body[k + i].k = "ptr" => Points(g[o], k + i)
  BY DEF Points
<1> DEFINE all == [i \in 1 .. n |-> TRUE]
<1>2. Len(all) = n /\ \A i \in 1 .. n : all[i]
  OBVIOUS
<1> HIDE DEF all
<1>3. FieldsOf(g[o], k, all) /\ Len(all) = n
  BY <1>1, <1>2 DEF FieldsOf
<1> QED BY <1>3 DEF all

\* The object on the heap with a number is that of the graph.
LEMMA ObjectAt ==
    ASSUME NEW g, NEW r, GraphOK(g, r), NEW f, NEW base, NEW end, Complete(g, f, end),
           NEW e, NEW s, NEW cur, NEW n, NEW stop,
           BackState(g, f, base, end, e, s, cur, n, stop), NEW t \in 1 .. Len(s.target)
    PROVE  \E q \in DOMAIN e : /\ e[q] = t /\ q \in DOMAIN f /\ q \in DOMAIN g
                               /\ g[q].kind # "closure" /\ s.target[t].kind = g[q].kind
                               /\ Len(s.target[t].body) = Len(g[q].body)
                               /\ Len(g[q].body) \in Nat
<1>1. PICK q \in DOMAIN e : e[q] = t /\ q \in DOMAIN f
  BY DEF BackState, Moved
<1>2. q \in DOMAIN g /\ g[q].kind # "closure" /\ Len(g[q].body) \in Nat
  BY <1>1, ImageObject
<1>3. s.target[t].kind = g[q].kind /\ Len(s.target[t].body) = Len(g[q].body)
  BY <1>1 DEF BackState, ObjectBack
<1> QED BY <1>1, <1>2, <1>3

\* What is set in a state.
LEMMA SetParts ==
    ASSUME NEW mem, NEW tg, NEW st, NEW u, u = [mem |-> mem, target |-> tg, stack |-> st],
           NEW cur, NEW x
    PROVE  /\ \A v : v = [u EXCEPT !.target[cur].slice = x]
                => v = [mem |-> mem, target |-> [tg EXCEPT ![cur].slice = x], stack |-> st]
           /\ \A v : v = [u EXCEPT !.target[cur].slice = x, !.stack = Append(@, cur)]
                => v = [mem |-> mem, target |-> [tg EXCEPT ![cur].slice = x],
                        stack |-> Append(st, cur)]
<1> DEFINE y == [tg EXCEPT ![cur] = [tg[cur] EXCEPT !.slice = x]]
           z == Append(st, cur)
<1>1. y = [tg EXCEPT ![cur].slice = x]
  OBVIOUS
<1>2. u.target = tg /\ u.stack = st
  OBVIOUS
<1>3. [u EXCEPT !.target[cur].slice = x]
        = [u EXCEPT !.target = [u.target EXCEPT ![cur] = [u.target[cur] EXCEPT !.slice = x]]]
  OBVIOUS
<1>4. [u EXCEPT !.target[cur].slice = x, !.stack = Append(@, cur)]
        = [u EXCEPT !.target = [u.target EXCEPT ![cur] = [u.target[cur] EXCEPT !.slice = x]],
                    !.stack = Append(u.stack, cur)]
  OBVIOUS
<1>5. /\ [u EXCEPT !.target[cur].slice = x] = [u EXCEPT !.target = y]
      /\ [u EXCEPT !.target[cur].slice = x, !.stack = Append(@, cur)]
           = [u EXCEPT !.target = y, !.stack = z]
  BY <1>2, <1>3, <1>4, Zenon
<1> HIDE DEF y, z
<1>6. /\ [u EXCEPT !.target = y] = [mem |-> mem, target |-> y, stack |-> st]
      /\ [u EXCEPT !.target = y, !.stack = z] = [mem |-> mem, target |-> y, stack |-> z]
  <2> DEFINE v == [u EXCEPT !.target = y]
             w == [u EXCEPT !.target = y, !.stack = z]
  <2>1. v = [u EXCEPT !.target = y] /\ w = [u EXCEPT !.target = y, !.stack = z]
    OBVIOUS
  <2> HIDE DEF v, w
  <2>2. v = [mem |-> mem, target |-> y, stack |-> st]
    BY <2>1
  <2>3. w = [mem |-> mem, target |-> y, stack |-> z]
    BY <2>1
  <2> QED BY <2>2, <2>3 DEF v, w
<1>7. /\ [u EXCEPT !.target[cur].slice = x] = [mem |-> mem, target |-> y, stack |-> st]
      /\ [u EXCEPT !.target[cur].slice = x, !.stack = Append(@, cur)]
           = [mem |-> mem, target |-> y, stack |-> z]
  BY <1>5, <1>6, Zenon
<1> QED BY <1>1, <1>7, Zenon DEF z

\* The slice and the stack have been set.
SliceSet(s, t, cur, x, st) ==
  /\ t = [mem |-> t.mem, target |-> t.target, stack |-> t.stack]
  /\ t.mem = s.mem /\ t.stack = st
  /\ t.target \in Seq(BackObject) /\ Len(t.target) = Len(s.target)
  /\ \A j \in 1 .. Len(s.target) : j # cur => t.target[j] = s.target[j]
  /\ t.target[cur].kind = s.target[cur].kind /\ t.target[cur].body = s.target[cur].body
  /\ t.target[cur].slice = x

\* Setting the slice and the stack.
LEMMA SetSlice ==
    ASSUME NEW s, s = [mem |-> s.mem, target |-> s.target, stack |-> s.stack],
           s.target \in Seq(BackObject), NEW cur \in 1 .. Len(s.target),
           NEW x \in Nat, NEW st, NEW t,
           t = [mem |-> s.mem, target |-> [s.target EXCEPT ![cur].slice = x], stack |-> st]
    PROVE  SliceSet(s, t, cur, x, st)
<1> DEFINE tg == s.target
           obj == tg[cur]
           new == [obj EXCEPT !.slice = x]
<1>1. obj \in BackObject
  BY ElementOfSeq
<1>2. new \in BackObject /\ new.kind = obj.kind /\ new.body = obj.body /\ new.slice = x
  BY <1>1 DEF BackObject
<1> HIDE DEF new
<1>3. /\ [tg EXCEPT ![cur] = new] \in Seq(BackObject)
      /\ Len([tg EXCEPT ![cur] = new]) = Len(tg)
      /\ \A j \in 1 .. Len(tg) : [tg EXCEPT ![cur] = new][j] = IF j = cur THEN new ELSE tg[j]
  <2> HIDE DEF tg
  <2> QED BY <1>2, ExceptSeq DEF tg
<1>4. t.target = [tg EXCEPT ![cur] = new]
  BY DEF new
<1>5. t = [mem |-> t.mem, target |-> t.target, stack |-> t.stack] /\ t.mem = s.mem /\ t.stack = st
  OBVIOUS
<1> HIDE DEF obj, tg
<1>6. /\ t.target \in Seq(BackObject) /\ Len(t.target) = Len(tg)
      /\ \A j \in 1 .. Len(tg) : t.target[j] = IF j = cur THEN new ELSE tg[j]
  BY <1>3, <1>4
<1>7. t.target[cur] = new /\ cur \in 1 .. Len(tg)
  BY <1>6 DEF tg
<1> QED BY <1>2, <1>5, <1>6, <1>7 DEF SliceSet, tg, obj

\* A slice of an array, or its rest.
LEMMA ScanArrayBack ==
    ASSUME NEW g, NEW r, GraphOK(g, r), NEW f, NEW base, NEW end, Complete(g, f, end),
           NEW e, NEW s, BackState(g, f, base, end, e, s, 0, 0, 0), s.stack # <<>>,
           NEW cur, cur = Last(s.stack), cur \in 1 .. Len(s.target),
           s.target[cur].kind = "array"
    PROVE  \E d : /\ BackState(g, f, base, end, d,
                               scanArray([s EXCEPT !.stack = Front(s.stack)], cur), 0, 0, 0)
                  /\ Extends(e, d)
<1> DEFINE u == [s EXCEPT !.stack = Front(s.stack)]
           first == s.target[cur].slice
           length == Len(s.target[cur].body)
<1>1. /\ s = [mem |-> s.mem, target |-> s.target, stack |-> s.stack]
      /\ s.target \in Seq(BackObject) /\ s.stack \in Seq(Nat) /\ StackOK(s) /\ cur # 0
  BY DEF BackState
<1>2. u = [mem |-> s.mem, target |-> s.target, stack |-> Front(s.stack)]
  <2> DEFINE mem == s.mem
             tg == s.target
             st == s.stack
             fr == Front(s.stack)
  <2>1. s = [mem |-> mem, target |-> tg, stack |-> st] /\ u = [s EXCEPT !.stack = fr]
    BY <1>1
  <2> HIDE DEF mem, tg, st, fr, u
  <2>2. u = [mem |-> mem, target |-> tg, stack |-> fr]
    BY <2>1
  <2> QED BY <2>2 DEF mem, tg, fr
<1>3. PICK q \in DOMAIN e : /\ e[q] = cur /\ q \in DOMAIN f /\ q \in DOMAIN g
                            /\ g[q].kind = "array" /\ length = Len(g[q].body) /\ length \in Nat
  BY ObjectAt
<1>4. first \in Nat /\ first <= length
  <2>1. s.target[cur] \in BackObject
    BY <1>1, ElementOfSeq
  <2>2. s.target[cur].slice <= Len(s.target[cur].body) \/ s.target[cur].slice = 0
    BY <1>1 DEF StackOK
  <2>3. first \in Nat
    BY <2>1 DEF BackObject
  <2> QED BY <1>3, <2>2, <2>3
<1>5. SliceIncrement \in Nat /\ SliceIncrement > 0
  BY Sizes
<1> HIDE DEF u
<1> DEFINE next == first + SliceIncrement
           tg == s.target
           front == Front(s.stack)
<1>6. u.target = tg /\ u.stack = front /\ u.mem = s.mem
  BY <1>2
<1>7. Append(front, cur) = s.stack
  <2>1. /\ Len(s.stack) \in Nat \ {0} /\ front \in Seq(Nat) /\ Len(front) = Len(s.stack) - 1
        /\ \A i \in 1 .. Len(s.stack) - 1 : front[i] = s.stack[i]
        /\ cur = s.stack[Len(s.stack)] /\ cur \in Nat
    BY <1>1, FrontIs
  <2> HIDE DEF front
  <2>2. /\ Append(front, cur) \in Seq(Nat) /\ Len(Append(front, cur)) = Len(front) + 1
        /\ \A i \in 1 .. Len(front) : Append(front, cur)[i] = front[i]
        /\ Append(front, cur)[Len(front) + 1] = cur
    BY <2>1, AppendProperties
  <2> DEFINE ap == Append(front, cur)
             m == Len(s.stack)
  <2>3. /\ ap \in Seq(Nat) /\ Len(ap) = m /\ m \in Nat
        /\ \A i \in 1 .. m - 1 : ap[i] = s.stack[i]
        /\ ap[m] = s.stack[m]
    BY <2>1, <2>2
  <2> HIDE DEF ap, m
  <2>4. \A i \in 1 .. m : i \in 1 .. m - 1 \/ i = m
    BY <2>3
  <2>5. \A i \in 1 .. m : ap[i] = s.stack[i]
    BY <2>3, <2>4
  <2>6. ap = s.stack
    BY <1>1, <2>3, <2>5, SeqEqual DEF m
  <2> QED BY <2>6 DEF ap
<1>8. CASE length - first > SliceIncrement
  <2> DEFINE t == [mem |-> s.mem, target |-> [s.target EXCEPT ![cur].slice = next],
                   stack |-> s.stack]
             all == pointerFields("array", SliceIncrement)
  <2>1. scanArray(u, cur) = visitFields(t, cur, first, all)
    <3>1. [u EXCEPT !.target[cur].slice = next, !.stack = Append(@, cur)]
            = [mem |-> s.mem, target |-> [s.target EXCEPT ![cur].slice = next],
               stack |-> Append(front, cur)]
      <4> HIDE DEF next, front
      <4>1. u = [mem |-> s.mem, target |-> s.target, stack |-> front]
        BY <1>2 DEF front
      <4> DEFINE v == [u EXCEPT !.target[cur].slice = next, !.stack = Append(@, cur)]
                 mem == s.mem
      <4>2. v = [u EXCEPT !.target[cur].slice = next, !.stack = Append(@, cur)]
        OBVIOUS
      <4>3. u = [mem |-> mem, target |-> tg, stack |-> front]
        BY <4>1
      <4> HIDE DEF tg, v, mem
      <4>4. v = [mem |-> mem, target |-> [tg EXCEPT ![cur].slice = next],
                 stack |-> Append(front, cur)]
        BY <4>2, <4>3, SetParts
      <4> QED BY <4>4 DEF v, tg, mem
    <3>2. [u EXCEPT !.target[cur].slice = next, !.stack = Append(@, cur)] = t
      <4> HIDE DEF next, front
      <4> QED BY <1>7, <3>1
    <3> HIDE DEF t, all, tg, front
    <3> QED BY <1>6, <1>8, <3>2 DEF scanArray, all, tg
  <2>2. next \in Nat /\ next <= length /\ first + SliceIncrement <= length
    <3> HIDE DEF first, length
    <3> QED BY <1>3, <1>4, <1>5, <1>8
  <2>3. Popped(s, t, cur, next)
    <3> HIDE DEF next
    <3> HIDE DEF t
    <3>1. SliceSet(s, t, cur, next, s.stack)
      <4>1. t = [mem |-> s.mem, target |-> [s.target EXCEPT ![cur].slice = next],
                 stack |-> s.stack]
        BY DEF t
      <4> DEFINE st == s.stack
      <4>2. t = [mem |-> s.mem, target |-> [s.target EXCEPT ![cur].slice = next], stack |-> st]
        BY <4>1
      <4>3. st = s.stack
        OBVIOUS
      <4> HIDE DEF st, tg, first, length, front
      <4>4. SliceSet(s, t, cur, next, st)
        BY <1>1, <2>2, <4>2, SetSlice
      <4> QED BY <4>3, <4>4
    <3> QED BY <2>2, <3>1 DEF Popped, SliceSet
  <2> HIDE DEF t, next
  <2>4. BackState(g, f, base, end, e, t, cur, first, next)
    BY <2>3, Resumed
  <2>5. FieldsOf(g[q], first, all) /\ Len(all) = SliceIncrement
    <3> HIDE DEF first
    <3> QED BY <1>3, <1>4, <1>5, <2>2, ArrayFields, SMTT(60)
  <2> HIDE DEF all, first
  <2>6. PICK d : /\ BackState(g, f, base, end, d, visitFields(t, cur, first, all), cur,
                              first + Len(all), next)
                 /\ Extends(e, d)
    BY <1>1, <1>3, <2>4, <2>5, VisitFields
  <2>7. first + Len(all) = next
    BY <2>5 DEF next
  <2>8. BackState(g, f, base, end, d, visitFields(t, cur, first, all), 0, 0, 0)
    BY <1>1, <2>6, <2>7, Finished
  <2> QED BY <2>1, <2>6, <2>8 DEF u
<1>9. CASE ~(length - first > SliceIncrement)
  <2> DEFINE t == [mem |-> s.mem, target |-> [s.target EXCEPT ![cur].slice = 0], stack |-> front]
             n == length - first
             all == pointerFields("array", n)
  <2>1. scanArray(u, cur) = visitFields(t, cur, first, all)
    <3>1. [u EXCEPT !.target[cur].slice = 0] = t
      <4> DEFINE x == 0
      <4> HIDE DEF front, x
      <4>1. u = [mem |-> s.mem, target |-> s.target, stack |-> front]
        BY <1>2 DEF front
      <4> DEFINE v == [u EXCEPT !.target[cur].slice = x]
                 mem == s.mem
      <4>2. v = [u EXCEPT !.target[cur].slice = x]
        OBVIOUS
      <4>3. u = [mem |-> mem, target |-> tg, stack |-> front]
        BY <4>1
      <4> HIDE DEF tg, v, mem
      <4>4. v = [mem |-> mem, target |-> [tg EXCEPT ![cur].slice = x], stack |-> front]
        BY <4>2, <4>3, SetParts
      <4> QED BY <4>4 DEF v, tg, mem, x
    <3> HIDE DEF t, tg, front
    <3> QED BY <1>6, <1>9, <3>1 DEF scanArray, tg
  <2>2. n \in Nat /\ first + n = length /\ first + n <= length
    <3> HIDE DEF first, length
    <3> QED BY <1>3, <1>4
  <2>3. Popped(s, t, cur, length)
    <3> HIDE DEF t, front
    <3> DEFINE x == 0
    <3>1. x \in Nat /\ t = [mem |-> s.mem, target |-> [s.target EXCEPT ![cur].slice = x], stack |-> front]
      BY DEF t
    <3>3. x = 0
      OBVIOUS
    <3> HIDE DEF x
    <3>2. SliceSet(s, t, cur, x, front)
      <4> HIDE DEF tg, first, length
      <4> QED BY <1>1, <3>1, SetSlice
    <3> QED BY <3>2, <3>3 DEF Popped, front, SliceSet
  <2> HIDE DEF t
  <2>4. BackState(g, f, base, end, e, t, cur, first, length)
    <3> HIDE DEF length
    <3> QED BY <2>3, Resumed
  <2> HIDE DEF n
  <2>5. FieldsOf(g[q], first, all) /\ Len(all) = n
    <3> HIDE DEF first
    <3> QED BY <1>3, <1>4, <2>2, ArrayFields
  <2> HIDE DEF all, first
  <2>6. PICK d : /\ BackState(g, f, base, end, d, visitFields(t, cur, first, all), cur,
                              first + Len(all), length)
                 /\ Extends(e, d)
    <3> HIDE DEF length
    <3> QED BY <1>1, <1>3, <2>4, <2>5, VisitFields
  <2>7. first + Len(all) = length
    BY <2>2, <2>5
  <2>8. BackState(g, f, base, end, d, visitFields(t, cur, first, all), 0, 0, 0)
    <3> HIDE DEF length
    <3> QED BY <1>1, <2>6, <2>7, Finished
  <2> QED BY <2>1, <2>6, <2>8 DEF u
<1> QED BY <1>8, <1>9
\* Popping an object whose visit starts at its first field.
LEMMA PopObject ==
    ASSUME NEW g, NEW r, GraphOK(g, r), NEW f, NEW base, NEW end, Complete(g, f, end),
           NEW e, NEW s, BackState(g, f, base, end, e, s, 0, 0, 0), s.stack # <<>>,
           NEW cur, cur = Last(s.stack), cur \in 1 .. Len(s.target),
           s.target[cur].kind # "array",
           NEW u, u = [s EXCEPT !.stack = Front(s.stack)]
    PROVE  /\ BackState(g, f, base, end, e, u, cur, 0, Len(s.target[cur].body))
           /\ u.target = s.target
<1>1. /\ s = [mem |-> s.mem, target |-> s.target, stack |-> s.stack]
      /\ s.target \in Seq(BackObject) /\ s.stack \in Seq(Nat) /\ StackOK(s)
  BY DEF BackState
<1>2. u = [mem |-> s.mem, target |-> s.target, stack |-> Front(s.stack)]
  <2> DEFINE mem == s.mem
             tg == s.target
             st == s.stack
             fr == Front(s.stack)
  <2>1. s = [mem |-> mem, target |-> tg, stack |-> st] /\ u = [s EXCEPT !.stack = fr]
    BY <1>1
  <2> HIDE DEF mem, tg, st, fr
  <2>2. u = [mem |-> mem, target |-> tg, stack |-> fr]
    BY <2>1
  <2> QED BY <2>2 DEF mem, tg, fr
<1>3. u.target = s.target /\ u.stack = Front(s.stack) /\ u.mem = s.mem
      /\ u = [mem |-> u.mem, target |-> u.target, stack |-> u.stack]
  BY <1>2
<1>4. s.target[cur].slice = 0
  BY <1>1 DEF StackOK
<1> DEFINE length == Len(s.target[cur].body)
           n == s.target[cur].slice
<1>5. Popped(s, u, cur, length)
  BY <1>1, <1>3, <1>4 DEF Popped
<1> HIDE DEF length
<1>6. BackState(g, f, base, end, e, u, cur, n, length)
  BY <1>5, Resumed
<1>7. n = 0
  BY <1>4
<1> HIDE DEF n
<1> QED BY <1>3, <1>6, <1>7 DEF length

\* An object whose layout tells all its fields.
LEMMA ScanOtherBack ==
    ASSUME NEW g, NEW r, GraphOK(g, r), NEW f, NEW base, NEW end, Complete(g, f, end),
           NEW e, NEW s, BackState(g, f, base, end, e, s, 0, 0, 0), s.stack # <<>>,
           NEW cur, cur = Last(s.stack), cur \in 1 .. Len(s.target),
           s.target[cur].kind \notin {"array", "object"},
           NEW u, u = [s EXCEPT !.stack = Front(s.stack)]
    PROVE  \E d : /\ BackState(g, f, base, end, d,
                       visitFields(u, cur, 0, pointerFields(u.target[cur].kind,
                                                            Len(u.target[cur].body))), 0, 0, 0)
                  /\ Extends(e, d)
<1> DEFINE length == Len(s.target[cur].body)
           fields == pointerFields(u.target[cur].kind, Len(u.target[cur].body))
<1>1. BackState(g, f, base, end, e, u, cur, 0, length) /\ u.target = s.target
  BY PopObject
<1>2. PICK q \in DOMAIN e : /\ e[q] = cur /\ q \in DOMAIN f /\ q \in DOMAIN g
                            /\ g[q].kind # "closure" /\ s.target[cur].kind = g[q].kind
                            /\ length = Len(g[q].body) /\ length \in Nat
  BY ObjectAt
<1>3. fields = Layouts(g[q])
  BY <1>1, <1>2 DEF Layouts, Header, cell
<1>4. FieldsOf(g[q], 0, fields) /\ Len(fields) = length
  BY <1>2, <1>3, AllFields
<1>5. cur # 0
  OBVIOUS
<1> HIDE DEF fields, length
<1> DEFINE t == visitFields(u, cur, 0, fields)
           zero == 0
<1>6. \E d : BackState(g, f, base, end, d, t, cur, zero + Len(fields), length) /\ Extends(e, d)
  <2>1. BackState(g, f, base, end, e, u, cur, zero, length) /\ FieldsOf(g[q], zero, fields)
        /\ t = visitFields(u, cur, zero, fields)
    BY <1>1, <1>4
  <2> HIDE DEF zero, t
  <2>2. \E d : BackState(g, f, base, end, d, visitFields(u, cur, zero, fields), cur,
                         zero + Len(fields), length) /\ Extends(e, d)
    BY <1>2, <1>5, <2>1, VisitFields
  <2> QED BY <2>1, <2>2
<1>7. PICK d : BackState(g, f, base, end, d, t, cur, zero + Len(fields), length) /\ Extends(e, d)
  BY <1>6
<1>8. zero + Len(fields) = length
  BY <1>2, <1>4
<1> HIDE DEF t, zero
<1>9. BackState(g, f, base, end, d, t, 0, 0, 0)
  BY <1>5, <1>7, <1>8, Finished
<1> QED BY <1>7, <1>9 DEF t, fields

\* The hash blob of an object tells how many fields follow.
LEMMA ScanObjectBack ==
    ASSUME NEW g, NEW r, GraphOK(g, r), NEW f, NEW base, NEW end, Complete(g, f, end),
           NEW e, NEW s, BackState(g, f, base, end, e, s, 0, 0, 0), s.stack # <<>>,
           NEW cur, cur = Last(s.stack), cur \in 1 .. Len(s.target),
           s.target[cur].kind = "object",
           NEW u, u = [s EXCEPT !.stack = Front(s.stack)]
    PROVE  \E d : BackState(g, f, base, end, d, scanObject(u, cur), 0, 0, 0) /\ Extends(e, d)
<1> DEFINE length == Len(s.target[cur].body)
           v == visitField(u, cur, 1)
<1>1. BackState(g, f, base, end, e, u, cur, 0, length) /\ u.target = s.target
  BY PopObject
<1>2. PICK q \in DOMAIN e : /\ e[q] = cur /\ q \in DOMAIN f /\ q \in DOMAIN g
                            /\ g[q].kind = "object"
                            /\ length = Len(g[q].body) /\ length \in Nat
  BY ObjectAt
<1> DEFINE b == g[q].body[1].v
<1>3. length > 0 /\ b \in DOMAIN g /\ g[b].kind = "blob" /\ Len(g[b].body) = length - 1
  BY <1>2, GraphObject
<1>4. Points(g[q], 1)
  BY <1>2 DEF GraphOK
<1>5. cur # 0
  OBVIOUS
<1> HIDE DEF length, v
<1>6. PICK d : BackState(g, f, base, end, d, v, cur, 1, length) /\ Extends(e, d)
  <2> DEFINE zero == 0
             one == 1
  <2>1. /\ zero \in Nat /\ one = zero + 1 /\ one <= Len(g[q].body) /\ Points(g[q], one)
        /\ BackState(g, f, base, end, e, u, cur, zero, length) /\ v = visitField(u, cur, one)
    BY <1>1, <1>2, <1>3, <1>4 DEF v
  <2> HIDE DEF zero, one
  <2>2. \E d : BackState(g, f, base, end, d, visitField(u, cur, one), cur, one, length)
               /\ Extends(e, d)
    BY <1>2, <1>5, <2>1, VisitField
  <2> QED BY <2>1, <2>2 DEF one
<1>7. q \in DOMAIN d /\ d[q] = cur
  BY <1>2, <1>6 DEF Extends
<1>8. /\ v.target[cur].body[1] = Image(g, d, q, 1) /\ b \in DOMAIN d
  <2>1. ObjectBack(g, f, d, v.target[cur], q, 1)
    BY <1>6, <1>7 DEF BackState, Visited
  <2>2. 1 \in 1 .. Len(g[q].body)
    BY <1>2, <1>3
  <2>3. FieldBack(g, f, d, q, 1, v.target[cur].body[1], 1)
    BY <2>1, <2>2 DEF ObjectBack
  <2> QED BY <1>3, <1>4, <2>3 DEF FieldBack
<1>9. v.target[cur].body[1].v = d[b]
  BY <1>3, <1>4, <1>8 DEF Image, cell
<1>10. Len(v.target[d[b]].body) = length - 1
  <2>1. Len(v.target[d[b]].body) = Len(g[b].body)
    BY <1>6, <1>8 DEF BackState, ObjectBack
  <2> QED BY <1>3, <2>1
<1> DEFINE n == length - 1
           fields == [i \in 1 .. n |-> TRUE]
           one == 1
           t == visitFields(v, cur, one, fields)
<1>11. scanObject(u, cur) = t
  BY <1>9, <1>10 DEF scanObject, v
<1>12. n \in Nat /\ one + n = length /\ one + n <= length /\ one \in Nat
  BY <1>2, <1>3
<1>13. BackState(g, f, base, end, d, v, cur, one, length)
  BY <1>6
<1> HIDE DEF n, one, b
<1>14. FieldsOf(g[q], one, fields) /\ Len(fields) = n
  BY <1>2, <1>12, TrueFields
<1> HIDE DEF fields
<1>15. PICK c : BackState(g, f, base, end, c, t, cur, one + Len(fields), length) /\ Extends(d, c)
  <2> HIDE DEF t
  <2>1. \E c : BackState(g, f, base, end, c, visitFields(v, cur, one, fields), cur,
                         one + Len(fields), length) /\ Extends(d, c)
    BY <1>5, <1>7, <1>13, <1>14, VisitFields
  <2> QED BY <2>1 DEF t
<1> HIDE DEF t
<1>16. BackState(g, f, base, end, c, t, 0, 0, 0)
  BY <1>5, <1>12, <1>14, <1>15, Finished
<1>17. Extends(e, c)
  BY <1>6, <1>15 DEF Extends
<1> QED BY <1>11, <1>16, <1>17

\* A step of the way back.
LEMMA ScanBack ==
    ASSUME NEW g, NEW r, GraphOK(g, r), NEW f, NEW base, NEW end, Complete(g, f, end),
           NEW e, NEW s, BackState(g, f, base, end, e, s, 0, 0, 0), s.stack # <<>>
    PROVE  \E d : /\ BackState(g, f, base, end, d,
                       scan_deserialized([s EXCEPT !.stack = Front(s.stack)], Last(s.stack)),
                       0, 0, 0)
                  /\ Extends(e, d)
<1> DEFINE u == [s EXCEPT !.stack = Front(s.stack)]
           cur == Last(s.stack)
<1>1. cur \in 1 .. Len(s.target)
  <2>1. s.stack \in Seq(Nat) /\ StackOK(s)
    BY DEF BackState
  <2>2. Len(s.stack) \in Nat \ {0} /\ cur = s.stack[Len(s.stack)]
    BY <2>1, FrontIs
  <2>3. Len(s.stack) \in 1 .. Len(s.stack)
    BY <2>2
  <2> QED BY <2>1, <2>2, <2>3 DEF StackOK
<1>2. u.target = s.target
  <2>1. s = [mem |-> s.mem, target |-> s.target, stack |-> s.stack]
    BY DEF BackState
  <2> QED BY <2>1
<1>3. u = [s EXCEPT !.stack = Front(s.stack)] /\ cur = Last(s.stack)
  OBVIOUS
<1>4. CASE s.target[cur].kind = "array"
  <2>1. scan_deserialized(u, cur) = scanArray(u, cur)
    BY <1>2, <1>4 DEF scan_deserialized
  <2>2. \E d : BackState(g, f, base, end, d, scanArray([s EXCEPT !.stack = Front(s.stack)], cur), 0, 0, 0)
               /\ Extends(e, d)
    <3> HIDE DEF cur, u
    <3> QED BY <1>1, <1>3, <1>4, ScanArrayBack
  <2> QED BY <2>1, <2>2
<1>5. CASE s.target[cur].kind = "object"
  <2>1. scan_deserialized(u, cur) = scanObject(u, cur)
    BY <1>2, <1>5 DEF scan_deserialized
  <2>2. \E d : BackState(g, f, base, end, d, scanObject(u, cur), 0, 0, 0) /\ Extends(e, d)
    <3> HIDE DEF cur, u
    <3> QED BY <1>1, <1>3, <1>5, ScanObjectBack
  <2> QED BY <2>1, <2>2
<1>6. CASE s.target[cur].kind \notin {"array", "object"}
  <2> DEFINE t == visitFields(u, cur, 0, pointerFields(u.target[cur].kind, Len(u.target[cur].body)))
  <2>1. scan_deserialized(u, cur) = t
    BY <1>2, <1>6 DEF scan_deserialized
  <2>2. \E d : BackState(g, f, base, end, d, t, 0, 0, 0) /\ Extends(e, d)
    <3> HIDE DEF cur, u
    <3> QED BY <1>1, <1>3, <1>6, ScanOtherBack
  <2> QED BY <2>1, <2>2
<1> QED BY <1>4, <1>5, <1>6

-----------------------------------------------------------------------------
(* The new program reads the metadata and starts the way back. *)

\* Clearing cells of the memory changes these alone.
ClearedIn(mem, at, length, new) ==
  /\ new \in Seq(Cell) /\ Len(new) = Len(mem)
  /\ \A p \in 1 .. Len(mem) :
       new[p] = IF p > at /\ p <= at + length THEN ZeroCell ELSE mem[p]

\* What clearing cells within the memory does is ClearedIn.
LEMMA ClearsWithin ==
    ASSUME NEW mem \in Seq(Cell), Len(mem) % PageCells = 0, NEW at \in Nat, NEW length \in Nat,
           at + length <= Len(mem), NEW new, new = clear_stable_memory(mem, at, length)
    PROVE  ClearedIn(mem, at, length, new)
<1>1. Len(mem) \in Nat
  BY LenProperties
<1>2. at <= Len(mem)
  BY <1>1
<1>3. Cleared(mem, at, length, new)
  BY <1>2, ClearIs
<1>4. /\ new \in Seq(Cell) /\ Len(new) = Len(mem)
      /\ \A p \in 1 .. Len(new) :
           new[p] = IF p > at /\ p <= at + length THEN ZeroCell
                    ELSE IF p <= Len(mem) THEN mem[p] ELSE ZeroCell
  BY <1>3 DEF Cleared
<1>5. \A p \in 1 .. Len(mem) : p <= Len(mem)
  BY <1>1
<1> QED BY <1>4, <1>5 DEF ClearedIn

\* The image is found where the metadata says, and nothing but the image is left
\* behind the stable memory of the program.
LEMMA Loaded ==
    ASSUME Before, NEW f, Stored(f), NEW cleared, NEW restored, NEW at, NEW length, NEW loaded,
           cleared = clear_stable_memory(memory, metadata_location(memory), RecordCells),
           restored = [cleared EXCEPT ![1] = record.first],
           at = record.descriptor, length = restored[at + 1].v,
           loaded = load_type_descriptor(restored, at, length)
    PROVE  LET end == record.start + record.length
           IN  /\ Complete(given.heap, f, end)
               /\ BackMemory(given.heap, f, <<>>, given.memory, loaded, end)
<1> DEFINE g == given.heap
           end == record.start + record.length
           n == Len(given.descriptor)
           top == Len(memory)
           place == metadata_location(memory)
           mem == [memory EXCEPT ![1] = record.first]
<1>1. /\ memory \in Seq(Cell) /\ record.first \in Cell /\ top % PageCells = 0
      /\ record.start = start /\ record.length \in Nat
      /\ at = AlignUp(end) /\ at + PageCells <= top /\ at + 1 + n <= top
      /\ mem[at + 1] = cell("length", n)
      /\ Layout(g, f, start, end) /\ Contents(g, f, start, mem, end)
      /\ Len(given.memory) <= top
      /\ \A p \in 1 .. top :
           /\ p <= start => mem[p] = given.memory[p]
           /\ p > end /\ (p <= at \/ (p > at + 1 + n /\ p <= top - RecordCells))
                => mem[p] = ZeroCell
  BY DEF Stored, ImageAt
<1>2. /\ start \in Nat /\ end \in Nat /\ start <= end /\ n \in Nat /\ top \in Nat
      /\ Len(given.memory) \in Nat
      /\ PageCells \in Nat /\ RecordCells \in Nat /\ RecordCells > 0 /\ RecordCells < PageCells
  BY <1>1, Sizes, LenProperties DEF Before
<1>3. at \in Nat /\ end <= at
  <2> HIDE DEF end
  <2> QED BY <1>1, <1>2, AlignUpIs
<1> HIDE DEF end, n, top
<1>4. /\ place = top - RecordCells /\ place \in Nat /\ place <= top /\ place + RecordCells = top
      /\ at + 1 <= place /\ 1 <= place
  <2>1. place = top - RecordCells
    BY DEF metadata_location, top
  <2>2. /\ at \in Nat /\ at + PageCells <= top /\ top \in Nat
        /\ PageCells \in Nat /\ RecordCells \in Nat /\ RecordCells > 0 /\ RecordCells < PageCells
    BY <1>1, <1>2, <1>3
  <2> HIDE DEF place, mem
  <2> QED BY <2>1, <2>2
<1> HIDE DEF place
<1>5. /\ cleared \in Seq(Cell) /\ Len(cleared) = top
      /\ \A p \in 1 .. top : cleared[p] = IF p > place THEN ZeroCell ELSE memory[p]
  <2>1. Cleared(memory, place, RecordCells, clear_stable_memory(memory, place, RecordCells))
    BY <1>1, <1>2, <1>4, ClearIs DEF top
  <2>2. cleared = clear_stable_memory(memory, place, RecordCells)
    BY DEF place
  <2>3. Cleared(memory, place, RecordCells, cleared)
    BY <2>1, <2>2
  <2>4. /\ cleared \in Seq(Cell) /\ Len(cleared) = top
        /\ \A p \in 1 .. top :
             cleared[p] = IF p > place /\ p <= place + RecordCells THEN ZeroCell
                          ELSE IF p <= top THEN memory[p] ELSE ZeroCell
    BY <1>4, <2>3 DEF Cleared, top
  <2> QED BY <1>4, <2>4
<1>6. 1 \in 1 .. top /\ at + 1 \in 1 .. top
  BY <1>2, <1>3, <1>4
<1>7. /\ restored \in Seq(Cell) /\ Len(restored) = top
      /\ \A p \in 1 .. top : restored[p] = IF p = 1 THEN record.first ELSE cleared[p]
  BY <1>1, <1>5, <1>6, ExceptSeq
<1>8. \A p \in 1 .. top : mem[p] = IF p = 1 THEN record.first ELSE memory[p]
  BY <1>1, <1>6, ExceptSeq DEF top
<1> HIDE DEF mem
<1>9. \A p \in 1 .. top : restored[p] = IF p > place THEN ZeroCell ELSE mem[p]
  <2>1. ~(1 > place)
    BY <1>4
  <2> QED BY <1>5, <1>7, <1>8, <2>1
<1>10. length = n
  <2>1. restored[at + 1] = mem[at + 1]
    BY <1>3, <1>4, <1>6, <1>9
  <2>2. cell("length", n).v = n
    BY DEF cell
  <2> QED BY <1>1, <2>1, <2>2
<1>11. /\ loaded \in Seq(Cell) /\ Len(loaded) = top /\ top % PageCells = 0
       /\ \A p \in 1 .. top :
            loaded[p] = IF p > at /\ p <= at + (1 + n) THEN ZeroCell ELSE restored[p]
  <2>1. n \in Nat /\ at \in Nat /\ top \in Nat /\ at + 1 + n <= top
    BY <1>1, <1>2, <1>3
  <2> DEFINE m == 1 + n
  <2>2. m \in Nat /\ at + m <= top
    BY <2>1
  <2>3. loaded = clear_stable_memory(restored, at, m)
    BY <1>10 DEF load_type_descriptor
  <2> HIDE DEF m
  <2>4. ClearedIn(restored, at, m, loaded)
    BY <1>1, <1>3, <1>7, <2>2, <2>3, ClearsWithin
  <2> QED BY <1>1, <1>7, <2>4 DEF m, ClearedIn
<1>12. \A p \in 1 .. top : loaded[p] = IF p <= end THEN mem[p] ELSE ZeroCell
  <2> SUFFICES ASSUME NEW p \in 1 .. top
               PROVE  loaded[p] = IF p <= end THEN mem[p] ELSE ZeroCell
    OBVIOUS
  <2>1. CASE p <= end
    <3>1. ~(p > at) /\ ~(p > place)
      BY <1>2, <1>3, <1>4, <2>1
    <3> QED BY <1>9, <1>11, <2>1, <3>1
  <2>2. CASE ~(p <= end)
    <3>1. p > end
      BY <1>2, <2>2
    <3>2. CASE p > at /\ p <= at + (1 + n)
      BY <1>11, <2>2, <3>2
    <3>3. CASE ~(p > at /\ p <= at + (1 + n))
      <4>1. loaded[p] = restored[p]
        BY <1>11, <3>3
      <4>2. p <= at \/ p > at + 1 + n
        BY <1>2, <1>3, <3>3
      <4>3. CASE p > place
        BY <1>9, <2>2, <4>1, <4>3
      <4>4. CASE ~(p > place)
        <5>1. p <= top - RecordCells
          BY <1>2, <1>4, <4>4
        <5> QED BY <1>1, <1>9, <2>2, <3>1, <4>1, <4>2, <4>4, <5>1
      <4> QED BY <4>3, <4>4
    <3> QED BY <3>2, <3>3
  <2> QED BY <2>1, <2>2
<1>13. Frame(given.memory, start, loaded, end)
  <2>1. \A p \in 1 .. top : /\ p <= start => p <= end
                            /\ p > end => ~(p <= end)
    BY <1>2
  <2>2. end <= top
    BY <1>1, <1>2, <1>3
  <2>3. /\ loaded \in Seq(Cell) /\ Len(loaded) % PageCells = 0 /\ Len(loaded) = top
        /\ start \in Nat /\ end \in Nat /\ start <= end
        /\ Len(given.memory) \in Nat /\ Len(given.memory) <= top
    BY <1>1, <1>2, <1>11
  <2>4. \A p \in 1 .. top : /\ p <= start => loaded[p] = given.memory[p]
                            /\ p > end => loaded[p] = ZeroCell
    BY <1>1, <1>12, <2>1
  <2> QED BY <2>2, <2>3, <2>4 DEF Frame
<1>14. ASSUME NEW o \in DOMAIN f
       PROVE  /\ mem[start + f[o] + 1] = Header(g[o])
              /\ loaded[start + f[o] + 1] = mem[start + f[o] + 1]
              /\ \A i \in 1 .. Len(g[o].body) :
                   /\ loaded[start + f[o] + i + 1] = mem[start + f[o] + i + 1]
                   /\ mem[start + f[o] + i + 1] = Image(g, f, o, i)
                   /\ Points(g[o], i) /\ g[g[o].body[i].v].kind # "closure"
                        => g[o].body[i].v \in DOMAIN f
  <2> DEFINE a == f[o]
             k == Len(g[o].body)
  <2>1. /\ a \in Nat /\ start + a + Size(g[o]) <= end /\ o \in DOMAIN g
    BY <1>1 DEF Layout
  <2>2. k \in Nat /\ start + a + (1 + k) <= end
    <3>1. k \in Nat
      BY <2>1, GraphObject DEF Before
    <3> QED BY <2>1, <3>1 DEF Size
  <2>3. /\ mem[start + a + 1] = Header(g[o])
        /\ \A i \in 1 .. k : FieldOK(g, f, start, mem, end, o, i)
    BY <1>1 DEF Contents
  <2>4. end <= top
    BY <1>1, <1>2, <1>3
  <2> HIDE DEF a, k, g
  <2>5. start + a + 1 \in 1 .. top /\ start + a + 1 <= end
    BY <1>2, <2>1, <2>2, <2>4
  <2>6. ASSUME NEW i \in 1 .. k
        PROVE  /\ start + a + i + 1 \in 1 .. top /\ start + a + i + 1 <= end
               /\ start + a + i < end
    BY <1>2, <2>1, <2>2, <2>4
  <2>7. \A i \in 1 .. k :
                   /\ mem[start + a + i + 1] = Image(g, f, o, i)
                   /\ Points(g[o], i) /\ g[g[o].body[i].v].kind # "closure"
                        => g[o].body[i].v \in DOMAIN f
    BY <2>3, <2>6 DEF FieldOK, a
  <2>8. loaded[start + a + 1] = mem[start + a + 1]
    BY <1>12, <2>5
  <2>9. \A i \in 1 .. k : loaded[start + a + i + 1] = mem[start + a + i + 1]
    BY <1>12, <2>6
  <2> QED BY <2>3, <2>7, <2>8, <2>9 DEF a, k
<1>15. Complete(g, f, end)
  BY <1>1, <1>2, <1>14 DEF Complete
<1>16. BackMemory(g, f, <<>>, given.memory, loaded, end)
  <2>1. DOMAIN <<>> = {}
    OBVIOUS
  <2> HIDE DEF g
  <2>2. record.start = start
    BY <1>1
  <2>3. Frame(given.memory, record.start, loaded, end)
    BY <1>13, <2>2
  <2>4. ASSUME NEW o \in DOMAIN f
        PROVE  /\ loaded[record.start + f[o] + 1] = IF o \in DOMAIN <<>> THEN cell("fwd", <<>>[o])
                                                    ELSE Header(g[o])
               /\ \A i \in 1 .. Len(g[o].body) : loaded[record.start + f[o] + i + 1] = Image(g, f, o, i)
    <3>1. loaded[record.start + f[o] + 1] = Header(g[o])
      BY <1>14, <2>2
    <3>2. \A i \in 1 .. Len(g[o].body) : loaded[record.start + f[o] + i + 1] = Image(g, f, o, i)
      BY <1>14, <2>2, ZenonT(40)
    <3>3. o \notin DOMAIN <<>>
      BY <2>1
    <3> QED BY <3>1, <3>2, <3>3
  <2> QED BY <2>3, <2>4 DEF BackMemory
<1> QED BY <1>15, <1>16 DEF end, g

\* The way back: the image, what has been moved and the roots.
Returning(f, e) ==
  LET end == record.start + record.length
  IN  /\ record.start = start /\ record.length \in Nat
      /\ Complete(given.heap, f, end) /\ Reached(given.heap, given.roots, DOMAIN f)
      /\ BackState(given.heap, f, given.memory, end, e, Now, 0, 0, 0)
      /\ \A i \in 1 .. 3 : given.roots[i] # 0 => given.roots[i] \in DOMAIN e
      /\ roots = [i \in 1 .. 3 |-> IF given.roots[i] = 0 THEN 0 ELSE e[given.roots[i]]]
      /\ clear_position = start

\* Evacuating a root, when there is one.
LEMMA EvacuateRootBack ==
    ASSUME NEW g, NEW r, GraphOK(g, r), NEW f, NEW base, NEW end, Complete(g, f, end),
           NEW e, NEW s, BackState(g, f, base, end, e, s, 0, 0, 0),
           NEW o, o # 0 => o \in DOMAIN f, NEW offset, offset = IF o = 0 THEN Null ELSE f[o]
    PROVE  \E d : /\ BackState(g, f, base, end, d, evacuateRootBack(s, offset), 0, 0, 0)
                  /\ Extends(e, d) /\ (o # 0 => o \in DOMAIN d)
<1>1. CASE o = 0
  <2>1. evacuateRootBack(s, offset) = s
    BY <1>1 DEF evacuateRootBack
  <2>2. Extends(e, e)
    BY DEF Extends
  <2> QED BY <1>1, <2>1, <2>2
<1>2. CASE o # 0
  <2>1. f[o] \in Nat /\ o \in DOMAIN f
    BY <1>2 DEF Complete, Layout
  <2>2. evacuateRootBack(s, offset) = evacuateBack(s, f[o])
    BY <1>2, <2>1 DEF evacuateRootBack, Null
  <2> DEFINE zero == 0
  <2>3. BackState(g, f, base, end, e, s, zero, zero, zero)
    OBVIOUS
  <2> HIDE DEF zero
  <2>4. \E d : /\ BackState(g, f, base, end, d, evacuateBack(s, f[o]), zero, zero, zero)
               /\ Extends(e, d) /\ o \in DOMAIN d
    BY <2>1, <2>3, EvacuateBack
  <2> QED BY <2>2, <2>4 DEF zero
<1> QED BY <1>1, <1>2

\* Nothing has been moved.
LEMMA NothingMoved ==
    ASSUME NEW g, NEW f, NEW base, NEW end, NEW mem, BackMemory(g, f, <<>>, base, mem, end)
    PROVE  BackState(g, f, base, end, <<>>, [mem |-> mem, target |-> <<>>, stack |-> <<>>], 0, 0, 0)
<1> DEFINE s == [mem |-> mem, target |-> <<>>, stack |-> <<>>]
           none == <<>>
<1>1. /\ s = [mem |-> s.mem, target |-> s.target, stack |-> s.stack]
      /\ s.mem = mem /\ s.target = none /\ s.stack = none
  OBVIOUS
<1>2. DOMAIN none = {} /\ Len(none) = 0 /\ none \in Seq(Nat) /\ none \in Seq(BackObject)
  OBVIOUS
<1>3. BackMemory(g, f, none, base, mem, end)
  OBVIOUS
<1> HIDE DEF s, none
<1>4. Moved(f, none, none)
  BY <1>2 DEF Moved
<1>5. StackOK(s)
  BY <1>1, <1>2 DEF StackOK
<1>6. Visiting(s, 0, 0)
  BY DEF Visiting
<1>7. BackState(g, f, base, end, none, s, 0, 0, 0)
  BY <1>1, <1>2, <1>3, <1>4, <1>5, <1>6 DEF BackState
<1> QED BY <1>7 DEF s, none

\* The roots are moved to the new heap.
LEMMA StartRestores ==
    ASSUME Before, NEW f, Stored(f), start_graph_destabilization
    PROVE  \E e : Returning(f, e)'
<1> DEFINE g == given.heap
           rt == given.roots
           m == given.memory
           end == record.start + record.length
           cleared  == clear_stable_memory(memory, metadata_location(memory), RecordCells)
           restored == [cleared EXCEPT ![1] = record.first]
           at       == record.descriptor
           length   == restored[at + 1].v
           loaded   == load_type_descriptor(restored, at, length)
           none == [mem |-> loaded, target |-> <<>>, stack |-> <<>>]
           ro == record.roots
           Done(s) == /\ Moves(s)
                      /\ roots' = [i \in 1 .. 3 |-> IF ro[i] = Null THEN 0 ELSE forwarded(s, ro[i])]
<1>1. PICK r \in {evacuateRootBack(none, ro[1])} : \E t \in {evacuateRootBack(r, ro[2])} :
         \E s \in {evacuateRootBack(t, ro[3])} : Done(s)
  BY DEF start_graph_destabilization
<1>2. PICK t \in {evacuateRootBack(r, ro[2])} : \E s \in {evacuateRootBack(t, ro[3])} : Done(s)
  BY <1>1
<1>3. PICK s \in {evacuateRootBack(t, ro[3])} : Done(s)
  BY <1>2
<1>4. /\ UNCHANGED <<start, record, given>> /\ clear_position' = record.start
  BY DEF start_graph_destabilization
<1>5. Complete(g, f, end) /\ BackMemory(g, f, <<>>, m, loaded, end)
  <2>1. /\ cleared = clear_stable_memory(memory, metadata_location(memory), RecordCells)
        /\ restored = [cleared EXCEPT ![1] = record.first]
        /\ at = record.descriptor /\ length = restored[at + 1].v
        /\ loaded = load_type_descriptor(restored, at, length)
    OBVIOUS
  <2> HIDE DEF cleared, restored, at, length, loaded
  <2> QED BY <2>1, Loaded
<1>6. /\ record.start = start /\ record.length \in Nat /\ Reached(g, rt, DOMAIN f)
      /\ RootsCopied(f, ro) /\ GraphOK(g, rt)
  BY DEF Stored, ImageAt, Before
<1>7. /\ \A i \in 1 .. 3 : rt[i] # 0 => rt[i] \in DOMAIN f
      /\ \A i \in 1 .. 3 : ro[i] = IF rt[i] = 0 THEN Null ELSE f[rt[i]]
  BY <1>6 DEF RootsCopied
<1> HIDE DEF loaded
<1>8. BackState(g, f, m, end, <<>>, none, 0, 0, 0)
  BY <1>5, NothingMoved
<1> DEFINE empty == <<>>
<1>9. BackState(g, f, m, end, empty, none, 0, 0, 0)
  BY <1>8
<1> HIDE DEF g, rt, m, end, none, ro, empty, Done
<1>10. PICK e1 : /\ BackState(g, f, m, end, e1, r, 0, 0, 0)
                 /\ rt[1] # 0 => rt[1] \in DOMAIN e1
  <2>1. r = evacuateRootBack(none, ro[1]) /\ 1 \in 1 .. 3
    BY <1>1
  <2>2. \E d : /\ BackState(g, f, m, end, d, evacuateRootBack(none, ro[1]), 0, 0, 0)
               /\ Extends(empty, d) /\ (rt[1] # 0 => rt[1] \in DOMAIN d)
    BY <1>5, <1>6, <1>7, <1>9, <2>1, EvacuateRootBack
  <2> QED BY <2>1, <2>2
<1>11. PICK e2 : /\ BackState(g, f, m, end, e2, t, 0, 0, 0) /\ Extends(e1, e2)
                 /\ rt[2] # 0 => rt[2] \in DOMAIN e2
  <2>1. t = evacuateRootBack(r, ro[2]) /\ 2 \in 1 .. 3
    BY <1>2
  <2>2. \E d : /\ BackState(g, f, m, end, d, evacuateRootBack(r, ro[2]), 0, 0, 0)
               /\ Extends(e1, d) /\ (rt[2] # 0 => rt[2] \in DOMAIN d)
    BY <1>5, <1>6, <1>7, <1>10, <2>1, EvacuateRootBack
  <2> QED BY <2>1, <2>2
<1>12. PICK e : /\ BackState(g, f, m, end, e, s, 0, 0, 0) /\ Extends(e2, e)
                /\ rt[3] # 0 => rt[3] \in DOMAIN e
  <2>1. s = evacuateRootBack(t, ro[3]) /\ 3 \in 1 .. 3
    BY <1>3
  <2>2. \E d : /\ BackState(g, f, m, end, d, evacuateRootBack(t, ro[3]), 0, 0, 0)
               /\ Extends(e2, d) /\ (rt[3] # 0 => rt[3] \in DOMAIN d)
    BY <1>5, <1>6, <1>7, <1>11, <2>1, EvacuateRootBack
  <2> QED BY <2>1, <2>2
<1>13. \A i \in 1 .. 3 : rt[i] # 0 => rt[i] \in DOMAIN e
  <2>1. 1 .. 3 = {1, 2, 3}
    OBVIOUS
  <2> QED BY <1>10, <1>11, <1>12, <2>1 DEF Extends
<1>14. ASSUME NEW i \in 1 .. 3
       PROVE  (IF ro[i] = Null THEN 0 ELSE forwarded(s, ro[i]))
                = IF rt[i] = 0 THEN 0 ELSE e[rt[i]]
  <2>1. CASE rt[i] = 0
    BY <1>7, <2>1
  <2>2. CASE rt[i] # 0
    <3>1. rt[i] \in DOMAIN f /\ rt[i] \in DOMAIN e /\ ro[i] = f[rt[i]]
      BY <1>7, <1>13, <2>2
    <3>2. f[rt[i]] # Null
      BY <1>5, <3>1 DEF Complete, Layout, Null
    <3> DEFINE zero == 0
               o == rt[i]
    <3>3. BackState(g, f, m, end, e, s, zero, zero, zero) /\ o \in DOMAIN f /\ o \in DOMAIN e
      BY <1>12, <3>1
    <3> HIDE DEF zero, o
    <3>4. forwarded(s, f[o]) = e[o]
      BY <3>3, ForwardedIs
    <3> QED BY <2>2, <3>1, <3>2, <3>4 DEF o
  <2> QED BY <2>1, <2>2
<1>15. roots' = [i \in 1 .. 3 |-> IF rt[i] = 0 THEN 0 ELSE e[rt[i]]]
  BY <1>3, <1>14 DEF Done
<1>16. Now' = s
  <2>1. s = [mem |-> s.mem, target |-> s.target, stack |-> s.stack]
    BY <1>12 DEF BackState
  <2> QED BY <1>3, <2>1 DEF Done, Moves, Now
<1>17. /\ given' = given /\ start' = start /\ record' = record /\ clear_position' = start
  BY <1>4, <1>6
<1>18. BackState(given'.heap, f, given'.memory, record'.start + record'.length, e, Now', 0, 0, 0)
  BY <1>12, <1>16, <1>17 DEF g, m, end
<1>19. Complete(given.heap, f, record.start + record.length)'
  BY <1>5, <1>17 DEF Complete, g, end
<1>20. BackState(given.heap, f, given.memory, record.start + record.length, e, Now, 0, 0, 0)'
  BY <1>17, <1>18 DEF BackState, BackMemory
<1>21. /\ Reached(given.heap, given.roots, DOMAIN f)'
       /\ (\A i \in 1 .. 3 : given.roots[i] # 0 => given.roots[i] \in DOMAIN e)'
       /\ (roots = [i \in 1 .. 3 |-> IF given.roots[i] = 0 THEN 0 ELSE e[given.roots[i]]])'
       /\ record'.start = start' /\ record'.length \in Nat
  BY <1>6, <1>13, <1>15, <1>17 DEF g, rt
<1> QED BY <1>17, <1>19, <1>20, <1>21 DEF Returning

\* A step of the way back.
LEMMA ReturnGoesOn ==
    ASSUME Before, NEW f, NEW e, Returning(f, e), graph_destabilization_increment
    PROVE  \E d : Returning(f, d)'
<1> DEFINE g == given.heap
           m == given.memory
           end == record.start + record.length
           u == [Now EXCEPT !.stack = Front(stack)]
           s == scan_deserialized(u, Last(stack))
<1>1. /\ stack # <<>> /\ Moves(s)
      /\ UNCHANGED <<start, record, given, roots, clear_position>>
  BY DEF graph_destabilization_increment
<1>2. /\ Complete(g, f, end) /\ GraphOK(g, given.roots)
      /\ BackState(g, f, m, end, e, Now, 0, 0, 0) /\ Now.stack = stack
  BY DEF Returning, Before, Now
<1>3. PICK d : BackState(g, f, m, end, d, s, 0, 0, 0) /\ Extends(e, d)
  <2> DEFINE n == Now
  <2>1. BackState(g, f, m, end, e, n, 0, 0, 0) /\ n.stack # <<>>
    BY <1>1, <1>2
  <2>2. s = scan_deserialized([n EXCEPT !.stack = Front(n.stack)], Last(n.stack))
    BY <1>2
  <2> HIDE DEF g, m, end, n, s
  <2>3. \E d : /\ BackState(g, f, m, end, d,
                       scan_deserialized([n EXCEPT !.stack = Front(n.stack)], Last(n.stack)), 0, 0, 0)
               /\ Extends(e, d)
    BY <1>2, <2>1, ScanBack
  <2> QED BY <2>2, <2>3
<1> HIDE DEF s
<1>4. s = [mem |-> s.mem, target |-> s.target, stack |-> s.stack]
  BY <1>3 DEF BackState
<1>5. Now' = s
  BY <1>1, <1>4 DEF Now, Moves
<1>6. BackState(given.heap, f, given.memory, record.start + record.length, d, Now, 0, 0, 0)'
  <2>1. BackState(given'.heap, f, given'.memory, record'.start + record'.length, d, Now', 0, 0, 0)
    BY <1>1, <1>3, <1>5
  <2> QED BY <1>1, <2>1 DEF BackState, BackMemory
<1>7. /\ record.start = start /\ record.length \in Nat /\ Reached(g, given.roots, DOMAIN f)
      /\ \A i \in 1 .. 3 : given.roots[i] # 0 => given.roots[i] \in DOMAIN e
      /\ roots = [i \in 1 .. 3 |-> IF given.roots[i] = 0 THEN 0 ELSE e[given.roots[i]]]
      /\ clear_position = start
  BY DEF Returning
<1>8. /\ \A i \in 1 .. 3 : given.roots[i] # 0 => given.roots[i] \in DOMAIN d
      /\ roots = [i \in 1 .. 3 |-> IF given.roots[i] = 0 THEN 0 ELSE d[given.roots[i]]]
  BY <1>3, <1>7 DEF Extends
<1>9. Complete(given.heap, f, record.start + record.length)'
  BY <1>1, <1>2 DEF Complete
<1>10. Reached(given.heap, given.roots, DOMAIN f)'
  BY <1>1, <1>7
<1> QED BY <1>1, <1>6, <1>7, <1>8, <1>9, <1>10 DEF Returning

\* What the new program has, whatever the phase: see SameGraph.
NewObject(g, f, o) ==
  [kind |-> g[o].kind, slice |-> 0,
   body |-> [i \in DOMAIN g[o].body |->
               IF ~Points(g[o], i) THEN g[o].body[i]
               ELSE IF ~(g[g[o].body[i].v].kind # "closure") THEN DUMMY_VALUE
               ELSE cell("ptr", f[g[o].body[i].v])]]

SameAs(g, r, R, newheap, newroots) ==
  \E f \in Bijection(R, DOMAIN newheap) :
    /\ \A i \in 1 .. 3 : newroots[i] = IF r[i] = 0 THEN 0 ELSE f[r[i]]
    /\ \A o \in R : newheap[f[o]] = NewObject(g, f, o)

Rebuilt == SameAs(given.heap, given.roots, Reachable, target, roots)

\* The objects to be kept are those that are reached.
LEMMA ReachableIs ==
    ASSUME Before, NEW M, M \subseteq DOMAIN given.heap,
           Closed(given.heap, given.roots, M), Reached(given.heap, given.roots, M)
    PROVE  Reachable = M
<1> DEFINE g == given.heap
<1>1. Reachable = {o \in DOMAIN g : \A S \in SUBSET DOMAIN g : Closed(g, given.roots, S) => o \in S}
  BY DEF Reachable, Closed, Stays
<1>2. \A o \in Reachable : o \in M
  BY <1>1
<1>3. \A o \in M : o \in Reachable
  BY <1>1 DEF Reached
<1> QED BY <1>2, <1>3

\* When the stack is empty, the new heap has the graph.
LEMMA GraphRebuilt ==
    ASSUME Before, NEW f, NEW e, Returning(f, e), stack = <<>>
    PROVE  Rebuilt
<1> DEFINE g == given.heap
           end == record.start + record.length
           M == DOMAIN e
<1>1. /\ Complete(g, f, end) /\ Reached(g, given.roots, DOMAIN f) /\ GraphOK(g, given.roots)
      /\ target \in Seq(BackObject) /\ Moved(f, e, target) /\ StackOK(Now)
      /\ \A o \in M : ObjectBack(g, f, e, target[e[o]], o, Visited(Now, 0, 0, e[o]))
      /\ \A i \in 1 .. 3 : given.roots[i] # 0 => given.roots[i] \in M
      /\ roots = [i \in 1 .. 3 |-> IF given.roots[i] = 0 THEN 0 ELSE e[given.roots[i]]]
  BY DEF Returning, Before, BackState, Now
<1>2. DOMAIN target = 1 .. Len(target)
  BY <1>1, LenProperties
<1>3. ASSUME NEW o \in M
      PROVE  /\ o \in DOMAIN f /\ o \in DOMAIN g /\ e[o] \in 1 .. Len(target)
             /\ g[o].body \in Seq(Cell) /\ Len(g[o].body) \in Nat
             /\ DOMAIN g[o].body = 1 .. Len(g[o].body)
  <2>1. o \in DOMAIN f /\ e[o] \in 1 .. Len(target)
    BY <1>1 DEF Moved
  <2>2. o \in DOMAIN g
    BY <1>1, <2>1, ImageObject
  <2> QED BY <1>1, <2>1, <2>2, GraphObject
<1>4. ASSUME NEW o \in M
      PROVE  /\ target[e[o]] \in BackObject /\ target[e[o]].slice = 0
             /\ target[e[o]].kind = g[o].kind /\ Len(target[e[o]].body) = Len(g[o].body)
             /\ \A i \in 1 .. Len(g[o].body) :
                  /\ target[e[o]].body[i] = Image(g, e, o, i)
                  /\ Points(g[o], i) /\ g[g[o].body[i].v].kind # "closure"
                       => g[o].body[i].v \in M
  <2>1. e[o] \in 1 .. Len(target) /\ target[e[o]] \in BackObject /\ e[o] # 0
    BY <1>1, <1>3, ElementOfSeq
  <2>2. ~OnStack(Now, e[o])
    BY DEF OnStack, Now
  <2>3. target[e[o]].slice = 0
    BY <1>1, <2>1, <2>2 DEF StackOK, Now
  <2>4. Visited(Now, 0, 0, e[o]) = Len(target[e[o]].body)
    BY <2>1, <2>2 DEF Visited, Now
  <2> DEFINE obj == target[e[o]]
             n == Len(g[o].body)
  <2>5. ObjectBack(g, f, e, obj, o, Len(obj.body))
    BY <1>1, <2>4
  <2>6. obj.kind = g[o].kind /\ Len(obj.body) = n
    BY <2>5 DEF ObjectBack
  <2>7. \A i \in 1 .. n : FieldBack(g, f, e, o, i, obj.body[i], n)
    BY <2>5, <2>6 DEF ObjectBack
  <2>8. n \in Nat
    BY <1>3
  <2> HIDE DEF obj, n
  <2>9. \A i \in 1 .. n : i <= n
    BY <2>8
  <2>10. \A i \in 1 .. n : /\ obj.body[i] = Image(g, e, o, i)
                           /\ Points(g[o], i) /\ g[g[o].body[i].v].kind # "closure"
                                => g[o].body[i].v \in M
    BY <2>7, <2>9 DEF FieldBack
  <2> QED BY <2>1, <2>3, <2>6, <2>10 DEF obj, n
<1>5. Closed(g, given.roots, M)
  BY <1>1, <1>3, <1>4 DEF Closed
<1>6. Reached(g, given.roots, M)
  <2>1. M \subseteq DOMAIN f
    BY <1>3
  <2> QED BY <1>1, <2>1 DEF Reached
<1>7. Reachable = M
  <2>1. M \subseteq DOMAIN g
    BY <1>3
  <2> QED BY <1>5, <1>6, <2>1, ReachableIs
<1> DEFINE b == [o \in M |-> e[o]]
<1>8. b \in Bijection(M, DOMAIN target)
  <2>1. b \in [M -> DOMAIN target]
    BY <1>2, <1>3
  <2>2. \A o, q \in M : b[o] = b[q] => o = q
    BY <1>1 DEF Moved
  <2>3. \A t \in DOMAIN target : \E o \in M : b[o] = t
    BY <1>1, <1>2 DEF Moved
  <2> HIDE DEF b, M
  <2> QED BY <2>1, <2>2, <2>3 DEF Bijection, Injection, Surjection, IsInjective
<1>9. \A o \in M : b[o] = e[o]
  OBVIOUS
<1> HIDE DEF b
<1>10. \A i \in 1 .. 3 : roots[i] = IF given.roots[i] = 0 THEN 0 ELSE b[given.roots[i]]
  BY <1>1, <1>9
<1>11. ASSUME NEW o \in M
       PROVE  target[b[o]] = NewObject(g, b, o)
  <2> DEFINE obj == target[e[o]]
             n == Len(g[o].body)
             new == [i \in DOMAIN g[o].body |->
                              IF ~Points(g[o], i) THEN g[o].body[i]
                              ELSE IF ~(g[g[o].body[i].v].kind # "closure") THEN DUMMY_VALUE
                              ELSE cell("ptr", b[g[o].body[i].v])]
  <2>1. /\ obj \in BackObject /\ obj.slice = 0 /\ obj.kind = g[o].kind /\ Len(obj.body) = n
        /\ \A i \in 1 .. n : obj.body[i] = Image(g, e, o, i)
        /\ \A i \in 1 .. n : Points(g[o], i) /\ g[g[o].body[i].v].kind # "closure"
                               => g[o].body[i].v \in M
    BY <1>4
  <2>2. \A i \in 1 .. n : new[i] = Image(g, e, o, i)
    BY <1>3, <1>9, <2>1 DEF Image
  <2>3. obj.body \in Seq(Cell)
    BY <2>1 DEF BackObject
  <2>4. obj.body = [i \in 1 .. n |-> obj.body[i]]
    BY <2>1, <2>3
  <2>5. new = [i \in 1 .. n |-> new[i]]
    BY <1>3
  <2> HIDE DEF new
  <2> DEFINE body == obj.body
  <2>9. \A i \in 1 .. n : body[i] = new[i]
    BY <2>1, <2>2
  <2>10. body = [i \in 1 .. n |-> body[i]]
    BY <2>4
  <2> HIDE DEF body, obj, n
  <2>11. body = new
    BY <2>5, <2>9, <2>10
  <2>6. obj.body = new
    BY <2>11 DEF body
  <2>7. obj = [kind |-> obj.kind, slice |-> obj.slice, body |-> obj.body]
    BY <2>1 DEF BackObject
  <2>8. target[b[o]] = obj
    BY <1>9 DEF obj
  <2>12. NewObject(g, b, o) = [kind |-> g[o].kind, slice |-> 0, body |-> new]
    BY DEF NewObject, new
  <2> QED BY <2>1, <2>6, <2>7, <2>8, <2>12
<1> QED BY <1>7, <1>8, <1>10, <1>11 DEF Rebuilt, SameAs

-----------------------------------------------------------------------------
(* The cleanup, and the phases of the upgrade. *)

\* A part of the copy has been cleared.
Cleaning ==
  LET end == record.start + record.length
  IN  /\ record.start = start /\ record.length \in Nat
      /\ Frame(given.memory, start, memory, end)
      /\ clear_position \in Nat /\ start <= clear_position /\ clear_position <= end
      /\ \A p \in 1 .. Len(memory) : p > start /\ p <= clear_position => memory[p] = ZeroCell

\* What holds in each phase.
Phases ==
  /\ phase = "running" => Running /\ stack = <<>>
  /\ phase = "serialize" => /\ descriptor = given.descriptor /\ stack = <<>>
                            /\ \E f : Copying(f)
  /\ phase = "stored" => /\ stack = <<>> /\ start <= free /\ scan <= free /\ Len(roots) = 3
                         /\ \E f : Stored(f)
  /\ phase = "deserialize" => /\ scan <= free /\ Len(roots) = 3
                              /\ \/ \E f, e : Returning(f, e)
                                 \/ stack = <<>> /\ Rebuilt /\ Cleaning
  /\ phase = "done" => /\ scan <= free /\ Len(roots) = 3 /\ stack = <<>>
                       /\ Rebuilt /\ Cleaning /\ clear_position = record.start + record.length

\* The inductive invariant: what there was before the upgrade is known throughout, and
\* each phase has what it needs.
IInv ==
  /\ phase \in {"running", "serialize", "stored", "deserialize", "done"}
  /\ Before /\ Phases

\* An upgrade starts with the graph and the memory of a program.
LEMMA InitHolds == CopyInit => IInv
<1> SUFFICES ASSUME CopyInit PROVE IInv
  OBVIOUS
<1>1. PICK pages \in RawPages, spare \in SparePages, size \in DescriptorSizes :
        /\ start = pages * PageCells
        /\ memory = Cells("raw", pages * PageCells) \o Zeros(spare * PageCells)
        /\ descriptor = Cells("type", size)
  BY DEF CopyInit
<1>2. /\ heap \in Heaps /\ roots \in RootSets /\ scan = start /\ free = start /\ slice = NoSlice
      /\ stack = <<>> /\ phase = "running"
      /\ given = [heap |-> heap, roots |-> roots, memory |-> memory, descriptor |-> descriptor]
  BY DEF CopyInit
<1>3. /\ given.heap = heap /\ given.roots = roots /\ given.memory = memory
      /\ given.descriptor = descriptor
  BY <1>2
<1>4. GraphOK(heap, roots)
  BY <1>2, CopyConstants
<1>5. pages \in Nat /\ spare \in Nat /\ size \in Nat /\ PageCells \in Nat
  BY CopyConstants
<1>6. /\ pages * PageCells \in Nat /\ spare * PageCells \in Nat
      /\ pages * PageCells + spare * PageCells = (pages + spare) * PageCells
      /\ pages + spare \in Nat
  BY <1>5
<1> DEFINE n == pages * PageCells
           m == spare * PageCells
           raw == Cells("raw", n)
           zeros == Zeros(m)
<1>7. cell("raw", 0) \in Cell /\ \A i \in Int : cell("raw", i) \in Cell /\ cell("type", i) \in Cell
  BY DEF cell, Cell
<1>8. ZeroCell \in Cell
  BY DEF ZeroCell, cell, Cell
<1> HIDE DEF n, m
<1>9. n \in Nat /\ m \in Nat
  BY <1>6 DEF n, m
<1>10. raw \in Seq(Cell) /\ Len(raw) = n
  BY <1>7, <1>9 DEF Cells
<1>11. zeros \in Seq(Cell) /\ Len(zeros) = m /\ \A i \in 1 .. m : zeros[i] = ZeroCell
  BY <1>8, <1>9 DEF Zeros
<1>12. descriptor \in Seq(Cell)
  BY <1>1, <1>5, <1>7 DEF Cells
<1>13. memory = raw \o zeros /\ start = n
  BY <1>1 DEF n, m
<1> HIDE DEF raw, zeros
<1>14. /\ memory \in Seq(Cell) /\ Len(memory) = n + m
       /\ \A p \in 1 .. n + m : memory[p] = IF p <= n THEN raw[p] ELSE zeros[p - n]
  BY <1>9, <1>10, <1>11, <1>13, ConcatProperties, ZenonT(40)
<1>15. \A p \in 1 .. n + m : p > n => memory[p] = ZeroCell
  <2>1. \A p \in 1 .. n + m : p > n => ~(p <= n) /\ p - n \in 1 .. m
    BY <1>9
  <2> QED BY <1>11, <1>14, <2>1
<1>16. Len(memory) % PageCells = 0
  <2>1. Len(memory) = (pages + spare) * PageCells
    BY <1>6, <1>14 DEF n, m
  <2>2. ((pages + spare) * PageCells) % PageCells = 0
    BY <1>6, Multiple
  <2> QED BY <2>1, <2>2
<1>17. start \in Nat /\ start <= Len(memory)
  BY <1>9, <1>13, <1>14
<1>18. Before
  BY <1>3, <1>4, <1>12, <1>13, <1>14, <1>15, <1>16, <1>17 DEF Before
<1>19. Running
  BY <1>2, <1>3 DEF Running
<1> QED BY <1>2, <1>18, <1>19 DEF IInv, Phases

\* When the stack is empty, the cleanup starts.
LEMMA CleaningStarts ==
    ASSUME Before, NEW f, NEW e, Returning(f, e), stack = <<>>
    PROVE  Rebuilt /\ Cleaning
<1>1. Rebuilt
  BY GraphRebuilt
<1>2. /\ record.start = start /\ record.length \in Nat /\ clear_position = start /\ start \in Nat
      /\ Frame(given.memory, start, memory, record.start + record.length)
  BY DEF Returning, BackState, BackMemory, Now, Before
<1>3. \A p \in 1 .. Len(memory) : ~(p > start /\ p <= start)
  BY <1>2
<1>4. start <= record.start + record.length
  BY <1>2
<1> QED BY <1>1, <1>2, <1>3, <1>4 DEF Cleaning

\* A step of the cleanup.
LEMMA CleaningGoesOn ==
    ASSUME Before, Cleaning, cleanup
    PROVE  Cleaning' /\ (phase' = "done" => clear_position' = record'.start + record'.length)
<1> DEFINE end == record.start + record.length
           chunk == IF end - clear_position < ClearChunk THEN end - clear_position ELSE ClearChunk
           top == Len(memory)
<1>1. /\ memory' = clear_stable_memory(memory, clear_position, chunk)
      /\ clear_position' = clear_position + chunk
      /\ phase' = IF clear_position + chunk >= end THEN "done" ELSE phase
      /\ phase = "deserialize"
      /\ UNCHANGED <<start, record, given>>
  BY DEF cleanup
<1>2. /\ record.start = start /\ record.length \in Nat
      /\ memory \in Seq(Cell) /\ top % PageCells = 0 /\ top \in Nat
      /\ start \in Nat /\ end \in Nat /\ start <= end /\ end <= top
      /\ Len(given.memory) \in Nat /\ Len(given.memory) <= top
      /\ \A p \in 1 .. top : /\ p <= start => memory[p] = given.memory[p]
                             /\ p > end => memory[p] = ZeroCell
      /\ clear_position \in Nat /\ start <= clear_position /\ clear_position <= end
      /\ \A p \in 1 .. top : p > start /\ p <= clear_position => memory[p] = ZeroCell
  BY LenProperties DEF Cleaning, Frame
<1> HIDE DEF end, top
<1>3. chunk \in Nat /\ clear_position + chunk <= end
  BY <1>2, Sizes
<1> HIDE DEF chunk
<1>4. clear_position + chunk <= top
  BY <1>2, <1>3
<1>5. ClearedIn(memory, clear_position, chunk, memory')
  BY <1>1, <1>2, <1>3, <1>4, ClearsWithin DEF top
<1>6. /\ memory' \in Seq(Cell) /\ Len(memory') = top
      /\ \A p \in 1 .. top : memory'[p] = IF p > clear_position /\ p <= clear_position + chunk
                                          THEN ZeroCell ELSE memory[p]
  BY <1>5 DEF ClearedIn, top
<1>7. \A p \in 1 .. top : /\ p <= start => memory'[p] = given.memory[p]
                          /\ p > end => memory'[p] = ZeroCell
  <2>1. \A p \in 1 .. top : p <= start \/ p > end =>
                              ~(p > clear_position /\ p <= clear_position + chunk)
    BY <1>2, <1>3
  <2> QED BY <1>2, <1>6, <2>1
<1>8. \A p \in 1 .. top : p > start /\ p <= clear_position + chunk => memory'[p] = ZeroCell
  <2>1. \A p \in 1 .. top : p > clear_position \/ p <= clear_position
    BY <1>2
  <2> QED BY <1>2, <1>6, <2>1
<1>9. Frame(given.memory, start, memory', end)
  BY <1>2, <1>6, <1>7 DEF Frame
<1>10. /\ clear_position' \in Nat /\ start <= clear_position' /\ clear_position' <= end
       /\ phase' = "done" => clear_position' = end
  BY <1>1, <1>2, <1>3
<1>11. /\ record' = record /\ start' = start /\ given' = given
       /\ record'.start + record'.length = end
  BY <1>1 DEF end
<1>12. Frame(given.memory, start, memory, record.start + record.length)'
  BY <1>9, <1>11 DEF Frame
<1>13. Cleaning'
  BY <1>1, <1>2, <1>6, <1>8, <1>10, <1>11, <1>12 DEF Cleaning
<1> QED BY <1>10, <1>11, <1>13

\* The next phase has what it needs.
LEMMA StepKeeps == IInv /\ [CopyNext]_copyVars => IInv'
<1> SUFFICES ASSUME IInv, [CopyNext]_copyVars PROVE IInv'
  OBVIOUS
<1>1. Before /\ Phases
  BY DEF IInv
<1>2. UNCHANGED <<start, given>>
  BY DEF CopyNext, start_graph_stabilization, graph_stabilization_increment, store,
         start_graph_destabilization, graph_destabilization_increment, cleanup, copyVars
<1>3. Before'
  BY <1>1, <1>2 DEF Before
<1>4. CASE start_graph_stabilization
  <2>1. phase = "running" /\ phase' = "serialize" /\ UNCHANGED <<descriptor, stack, given>>
    BY <1>4 DEF start_graph_stabilization
  <2>2. Running /\ stack = <<>>
    BY <1>1, <2>1 DEF Phases
  <2>3. \E f : Copying(f)'
    BY <1>1, <1>4, <2>2, StartCopies
  <2>4. descriptor' = given'.descriptor
    BY <2>1, <2>2 DEF Running
  <2> QED BY <1>3, <2>1, <2>2, <2>3, <2>4 DEF IInv, Phases
<1>5. CASE graph_stabilization_increment
  <2>1. phase = "serialize" /\ phase' = "serialize" /\ UNCHANGED <<descriptor, stack, given>>
    BY <1>5 DEF graph_stabilization_increment
  <2>2. PICK f : Copying(f)
    BY <1>1, <2>1 DEF Phases
  <2>3. \E e : Copying(e)'
    BY <1>1, <1>5, <2>2, IncrementCopies
  <2>4. descriptor' = given'.descriptor /\ stack' = <<>>
    BY <1>1, <2>1 DEF Phases
  <2> QED BY <1>3, <2>1, <2>3, <2>4 DEF IInv, Phases
<1>6. CASE store
  <2>1. /\ phase = "serialize" /\ phase' = "stored"
        /\ UNCHANGED <<free, scan, roots, stack>>
    BY <1>6 DEF store
  <2>2. PICK f : Copying(f)
    BY <1>1, <2>1 DEF Phases
  <2>3. descriptor = given.descriptor /\ stack = <<>>
    BY <1>1, <2>1 DEF Phases
  <2>4. Stored(f)'
    BY <1>1, <1>6, <2>2, <2>3, StoreCopies
  <2>5. start <= free /\ scan <= free
    BY <2>2 DEF Copying, CopyState, Frame, Here
  <2>6. Len(roots) = 3
    <3>1. roots = [i \in 1 .. 3 |-> IF given.roots[i] = 0 THEN Null ELSE f[given.roots[i]]]
      BY <2>2 DEF Copying, RootsCopied
    <3> QED BY <3>1
  <2> QED BY <1>2, <1>3, <2>1, <2>3, <2>4, <2>5, <2>6 DEF IInv, Phases
<1>7. CASE start_graph_destabilization
  <2>1. /\ phase = "stored" /\ phase' = "deserialize" /\ scan' = 0 /\ free' = 0
    BY <1>7 DEF start_graph_destabilization
  <2>2. PICK f : Stored(f)
    BY <1>1, <2>1 DEF Phases
  <2>3. PICK e : Returning(f, e)'
    BY <1>1, <1>7, <2>2, StartRestores
  <2>4. Len(roots') = 3
    <3>1. roots' = [i \in 1 .. 3 |-> IF given'.roots[i] = 0 THEN 0 ELSE e[given'.roots[i]]]
      BY <2>3 DEF Returning
    <3> QED BY <3>1
  <2>5. scan' <= free'
    BY <2>1
  <2> QED BY <1>3, <2>1, <2>3, <2>4, <2>5 DEF IInv, Phases
<1>8. CASE graph_destabilization_increment
  <2>1. /\ phase = "deserialize" /\ phase' = "deserialize" /\ stack # <<>>
        /\ UNCHANGED <<scan, free, roots>>
    BY <1>8 DEF graph_destabilization_increment
  <2>2. PICK f, e : Returning(f, e)
    BY <1>1, <2>1 DEF Phases
  <2>3. \E d : Returning(f, d)'
    BY <1>1, <1>8, <2>2, ReturnGoesOn
  <2>4. scan <= free /\ Len(roots) = 3
    BY <1>1, <2>1 DEF Phases
  <2> QED BY <1>3, <2>1, <2>3, <2>4 DEF IInv, Phases
<1>9. CASE cleanup
  <2>1. /\ phase = "deserialize" /\ phase' \in {"deserialize", "done"} /\ stack = <<>>
        /\ UNCHANGED <<scan, free, roots, stack, target, given>>
    BY <1>9 DEF cleanup
  <2>2. Rebuilt /\ Cleaning
    <3>1. CASE \E f, e : Returning(f, e)
      BY <1>1, <2>1, <3>1, CleaningStarts
    <3>2. CASE stack = <<>> /\ Rebuilt /\ Cleaning
      BY <3>2
    <3> QED BY <1>1, <2>1, <3>1, <3>2 DEF Phases
  <2>3. Cleaning' /\ (phase' = "done" => clear_position' = record'.start + record'.length)
    BY <1>1, <1>9, <2>2, CleaningGoesOn
  <2>4. Rebuilt'
    <3>1. Reachable' = Reachable
      BY <2>1 DEF Reachable, Stays
    <3> QED BY <2>1, <2>2, <3>1 DEF Rebuilt
  <2>5. scan <= free /\ Len(roots) = 3
    BY <1>1, <2>1 DEF Phases
  <2> QED BY <1>3, <2>1, <2>3, <2>4, <2>5 DEF IInv, Phases
<1>10. CASE UNCHANGED copyVars
  <2>1. \A f : Copying(f) => Copying(f)'
    BY <1>10 DEF copyVars, Copying, CopyState, RootsCopied, AtPlace, Here
  <2>2. \A f : Stored(f) => Stored(f)'
    BY <1>10 DEF copyVars, Stored, RootsCopied
  <2>3. \A f, e : Returning(f, e) => Returning(f, e)'
    BY <1>10, SMTT(60) DEF copyVars, Returning, Now, Complete, BackState, BackMemory
  <2>4. Rebuilt => Rebuilt'
    <3>1. UNCHANGED <<given, target, roots>>
      BY <1>10 DEF copyVars
    <3>2. Reachable' = Reachable
      BY <3>1 DEF Reachable, Stays
    <3> QED BY <3>1, <3>2 DEF Rebuilt
  <2>5. Cleaning => Cleaning'
    BY <1>10 DEF copyVars, Cleaning
  <2>6. Running => Running'
    BY <1>10 DEF copyVars, Running
  <2>7. UNCHANGED <<phase, stack, descriptor, given, start, scan, free, roots, clear_position, record>>
    BY <1>10 DEF copyVars
  <2>8. Phases'
    BY <1>1, <2>1, <2>2, <2>3, <2>4, <2>5, <2>6, <2>7 DEF Phases
  <2> QED BY <1>3, <2>7, <2>8 DEF IInv
<1> QED BY <1>4, <1>5, <1>6, <1>7, <1>8, <1>9, <1>10 DEF CopyNext

\* The invariant holds throughout an upgrade.
LEMMA Invariance == CopySpec => []IInv
<1> QED BY InitHolds, StepKeeps, PTL DEF CopySpec

\* The addresses and the stack are as they should be.
LEMMA Typed == IInv => CopyTypeOK
<1> SUFFICES ASSUME IInv PROVE CopyTypeOK
  OBVIOUS
<1>1. /\ phase \in {"running", "serialize", "stored", "deserialize", "done"}
      /\ Before /\ Phases
  BY DEF IInv
<1>2. CASE phase = "running"
  <2>1. /\ Running /\ stack = <<>> /\ start \in Nat /\ Len(memory) % PageCells = 0
    BY <1>1, <1>2 DEF Phases, Before, Running
  <2>2. Len(roots) = 3
    <3>1. roots \in [1 .. 3 -> 0 .. Len(given.heap)]
      BY <1>1, <2>1 DEF Before, GraphOK, Running
    <3>2. roots = [i \in 1 .. 3 |-> roots[i]]
      BY <3>1
    <3> QED BY <3>2
  <2>3. DOMAIN <<>> = {}
    OBVIOUS
  <2> QED BY <1>1, <2>1, <2>2, <2>3 DEF CopyTypeOK, Running
<1>3. CASE phase = "serialize"
  <2>1. PICK f : Copying(f) /\ stack = <<>>
    BY <1>1, <1>3 DEF Phases
  <2>2. start <= free /\ scan <= free /\ Len(memory) % PageCells = 0
    BY <2>1 DEF Copying, CopyState, Frame, Here
  <2>3. Len(roots) = 3
    <3>1. roots = [i \in 1 .. 3 |-> IF given.roots[i] = 0 THEN Null ELSE f[given.roots[i]]]
      BY <2>1 DEF Copying, RootsCopied
    <3> QED BY <3>1
  <2>4. DOMAIN <<>> = {}
    OBVIOUS
  <2> QED BY <1>1, <2>1, <2>2, <2>3, <2>4 DEF CopyTypeOK
<1>4. CASE phase = "stored"
  <2>1. /\ stack = <<>> /\ start <= free /\ scan <= free /\ Len(roots) = 3
        /\ Len(memory) % PageCells = 0
    BY <1>1, <1>4 DEF Phases, Stored
  <2>2. DOMAIN <<>> = {}
    OBVIOUS
  <2> QED BY <1>1, <2>1, <2>2 DEF CopyTypeOK
<1>5. CASE phase \in {"deserialize", "done"}
  <2>1. scan <= free /\ Len(roots) = 3
    BY <1>1, <1>5 DEF Phases
  <2>2. CASE \E f, e : Returning(f, e)
    <3>1. PICK f, e : Returning(f, e)
      BY <2>2
    <3>2. /\ Len(memory) % PageCells = 0 /\ StackOK(Now) /\ stack \in Seq(Nat)
          /\ target \in Seq(BackObject)
      BY <3>1 DEF Returning, BackState, BackMemory, Frame, Now
    <3>3. DOMAIN stack = 1 .. Len(stack) /\ DOMAIN target = 1 .. Len(target)
      BY <3>2, LenProperties
    <3>4. \A i \in DOMAIN stack : stack[i] \in DOMAIN target
      BY <3>2, <3>3 DEF StackOK, Now
    <3> QED BY <1>1, <1>5, <2>1, <3>2, <3>4 DEF CopyTypeOK
  <2>3. CASE stack = <<>> /\ Cleaning
    <3>1. DOMAIN <<>> = {}
      OBVIOUS
    <3>2. Len(memory) % PageCells = 0
      BY <2>3 DEF Cleaning, Frame
    <3> QED BY <1>1, <1>5, <2>1, <2>3, <3>1, <3>2 DEF CopyTypeOK
  <2> QED BY <1>1, <1>5, <2>2, <2>3 DEF Phases
<1> QED BY <1>1, <1>2, <1>3, <1>4, <1>5

\* The invariant of Cheney's algorithm follows from what the copy is.
LEMMA CheneyFollows == IInv => CheneyInvariant
<1> SUFFICES ASSUME IInv, phase = "serialize", NEW o \in Copied
             PROVE  LET old == given.heap[o]
                        at == start + heap[o].fwd
                    IN  /\ memory[at + 1].k = old.kind
                        /\ at + Len(old.body) < free
                        /\ \A i \in DOMAIN old.body :
                             LET old_value == old.body[i]
                                 value == memory[at + i + 1]
                             IN  IF at + i >= scan \/ ~Points(old, i) THEN value = old_value
                                 ELSE IF ~Stays(old_value.v) THEN value = DUMMY_VALUE
                                 ELSE /\ old_value.v \in Copied
                                      /\ value = cell("ptr", heap[old_value.v].fwd)
  BY Typed DEF CheneyInvariant
<1> DEFINE g == given.heap
           n == Len(g[o].body)
<1>1. PICK f : Copying(f)
  BY DEF IInv, Phases
<1>2. /\ GraphOK(g, given.roots)
      /\ HeapIs(g, f, heap) /\ Layout(g, f, start, free) /\ Contents(g, f, start, memory, scan)
      /\ start \in Nat /\ free \in Nat /\ scan \in Nat
  BY <1>1 DEF Copying, CopyState, Here, IInv, Before, Frame
<1>3. Copied = DOMAIN f
  <2>1. DOMAIN heap = DOMAIN g
    BY <1>2 DEF HeapIs
  <2>2. \A q \in DOMAIN g : heap[q].kind = "fwd" <=> q \in DOMAIN f
    BY <1>2, HeapObject
  <2>3. \A q \in DOMAIN f : q \in DOMAIN g
    BY <1>2 DEF Layout
  <2> QED BY <2>1, <2>2, <2>3 DEF Copied
<1>4. \A q \in DOMAIN f : heap[q].fwd = f[q] /\ f[q] \in Nat /\ q \in DOMAIN g
  <2>1. \A q \in DOMAIN f : q \in DOMAIN g /\ f[q] \in Nat
    BY <1>2 DEF Layout
  <2> QED BY <1>2, <2>1, HeapObject
<1>5. n \in Nat /\ DOMAIN g[o].body = 1 .. n /\ o \in DOMAIN f
  BY <1>2, <1>3, <1>4, GraphObject
<1> DEFINE a == f[o]
<1>6. a \in Nat /\ start + a + (1 + n) <= free /\ heap[o].fwd = a
  BY <1>2, <1>4, <1>5 DEF Layout, Size
<1>7. memory[start + a + 1].k = g[o].kind
  <2>1. memory[start + a + 1] = Header(g[o])
    BY <1>2, <1>5 DEF Contents
  <2>2. Header(g[o]).k = g[o].kind
    BY DEF Header, cell
  <2> QED BY <2>1, <2>2
<1>8. \A i \in 1 .. n : FieldOK(g, f, start, memory, scan, o, i)
  BY <1>2, <1>5 DEF Contents
<1> HIDE DEF n
<1>9. start + a + n < free
  <2> HIDE DEF a
  <2> QED BY <1>2, <1>5, <1>6
<1>10. ASSUME NEW i \in 1 .. n
       PROVE  IF start + a + i >= scan \/ ~Points(g[o], i)
              THEN memory[start + a + i + 1] = g[o].body[i]
              ELSE IF ~Stays(g[o].body[i].v) THEN memory[start + a + i + 1] = DUMMY_VALUE
              ELSE /\ g[o].body[i].v \in Copied
                   /\ memory[start + a + i + 1] = cell("ptr", heap[g[o].body[i].v].fwd)
  <2> DEFINE b == g[o].body[i].v
             value == memory[start + a + i + 1]
             place == start + a + i
  <2>1. IF place < scan
        THEN /\ value = Image(g, f, o, i)
             /\ Points(g[o], i) /\ g[b].kind # "closure" => b \in DOMAIN f
        ELSE value = g[o].body[i]
    BY <1>8 DEF FieldOK
  <2>2. place \in Nat
    <3> HIDE DEF a
    <3> QED BY <1>2, <1>5, <1>6
  <2> HIDE DEF place, value
  <2>3. place >= scan <=> ~(place < scan)
    BY <1>2, <2>2
  <2>4. CASE place >= scan \/ ~Points(g[o], i)
    <3>1. value = g[o].body[i]
      BY <2>1, <2>3, <2>4 DEF Image
    <3> QED BY <2>4, <3>1 DEF place, value
  <2>5. CASE ~(place >= scan \/ ~Points(g[o], i))
    <3>1. value = Image(g, f, o, i) /\ (g[b].kind # "closure" => b \in DOMAIN f)
      BY <2>1, <2>3, <2>5
    <3>2. CASE Stays(b)
      <4>1. b \in Copied /\ value = cell("ptr", heap[b].fwd)
        BY <1>3, <1>4, <2>5, <3>1, <3>2 DEF Image, Stays
      <4> QED BY <2>5, <3>2, <4>1 DEF place, value
    <3>3. CASE ~Stays(b)
      <4>1. value = DUMMY_VALUE
        BY <2>5, <3>1, <3>3 DEF Image, Stays
      <4> QED BY <2>5, <3>3, <4>1 DEF place, value
    <3> QED BY <3>2, <3>3
  <2> QED BY <2>4, <2>5
<1> QED BY <1>5, <1>6, <1>7, <1>9, <1>10

\* CheneyInvariant: at every point of the copy to stable memory where a message
\* may end (graph_stabilization_increment), the objects before the scan address
\* have been translated and those behind it are what they were.
THEOREM CheneyHolds == CopySpec => []CheneyInvariant
<1> QED BY Invariance, CheneyFollows, PTL

\* SameGraph: after serialization and deserialization in any increments the new
\* heap is isomorphic to the part of the old one that the roots reach.
THEOREM GraphIsKept == CopySpec => []SameGraph
<1>1. IInv => SameGraph
  <2> SUFFICES ASSUME IInv, phase = "done" PROVE SameGraph
    BY DEF SameGraph
  <2>1. Rebuilt
    BY DEF IInv, Phases
  <2> QED BY <2>1 DEF SameGraph, Rebuilt, SameAs, NewObject, Stays
<1> QED BY <1>1, Invariance, PTL

\* StableRestored: the program's stable memory survives the copy behind it, and
\* the cleanup leaves zeros where the copy was.
THEOREM MemoryRestored == CopySpec => []StableRestored
<1>1. IInv => StableRestored
  <2> SUFFICES ASSUME IInv, phase = "done", NEW p \in DOMAIN memory
               PROVE  memory[p] = IF p \in DOMAIN given.memory THEN given.memory[p] ELSE ZeroCell
    BY DEF StableRestored
  <2>1. Cleaning /\ clear_position = record.start + record.length /\ Before
    BY DEF IInv, Phases
  <2> DEFINE end == record.start + record.length
             top == Len(memory)
             old == Len(given.memory)
  <2>2. /\ memory \in Seq(Cell) /\ given.memory \in Seq(Cell) /\ start \in Nat /\ end \in Nat
        /\ top \in Nat /\ old \in Nat /\ start <= old /\ start <= end
        /\ \A q \in 1 .. top : /\ q <= start => memory[q] = given.memory[q]
                               /\ q > end => memory[q] = ZeroCell
                               /\ q > start /\ q <= end => memory[q] = ZeroCell
        /\ \A q \in 1 .. old : q > start => given.memory[q] = ZeroCell
    BY <2>1, LenProperties DEF Cleaning, Frame, Before
  <2>3. p \in 1 .. top /\ DOMAIN given.memory = 1 .. old
    BY <2>2, LenProperties
  <2> HIDE DEF end, top, old
  <2>4. CASE p <= start
    <3>1. p \in 1 .. old
      BY <2>2, <2>3, <2>4
    <3> QED BY <2>2, <2>3, <2>4, <3>1
  <2>5. CASE ~(p <= start)
    <3>1. p > start /\ (p <= end \/ p > end)
      BY <2>2, <2>3, <2>5
    <3>2. memory[p] = ZeroCell
      BY <2>2, <2>3, <3>1
    <3> QED BY <2>2, <2>3, <3>1, <3>2
  <2> QED BY <2>4, <2>5
<1> QED BY <1>1, Invariance, PTL
=============================================================================
