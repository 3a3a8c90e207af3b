------------------------- MODULE HeapRefinementProofs -------------------------
(***************************************************************************)
(* The collector and the mutator, for heaps of every size: the program     *)
(* sees an ordinary heap, and a collection finds the garbage that there    *)
(* was when it started.                                                    *)
(*                                                                         *)
(* What the program can get at is defined by iteration.  The proofs use    *)
(* that it is the least set that contains the roots and is closed under    *)
(* the fields (ReachableIsClosed, ReachableIsLeast).                       *)
(***************************************************************************)
EXTENDS MCHeapRefinement, IncrementalGCProofs, FiniteSetTheorems, WellFoundedInduction

(***************************************************************************)
(* Reachability.                                                           *)
(***************************************************************************)
\* A set of numbers has a least one.
LEMMA LeastNumber ==
    ASSUME NEW S, S \subseteq Nat, S # {}
    PROVE  \E x \in S : \A y \in S : x <= y
<1>1. PICK x \in S : \A y \in S : ~(<<y, x>> \in OpToRel(<, Nat))
  BY NatLessThanWellFounded, WFMin
<1>2. \A y \in S : x <= y
  <2> SUFFICES ASSUME NEW y \in S, ~(x <= y) PROVE FALSE
    OBVIOUS
  <2>1. y < x /\ x \in Nat /\ y \in Nat
    OBVIOUS
  <2> QED BY <1>1, <2>1 DEF OpToRel
<1> QED BY <1>2

\* One round of the iteration.
Round(succ, X) == UNION {{x} \cup succ[x] : x \in X}

\* f has the sets that are reached in up to n rounds.
Rounds(start, succ, f, n) ==
    /\ f \in [0 .. n -> SUBSET DOMAIN succ]
    /\ f[0] = start
    /\ \A k \in 1 .. n : f[k] = Round(succ, f[k - 1])

\* The iteration is well defined.
LEMMA RoundsExist ==
    ASSUME NEW A, NEW succ \in [A -> SUBSET A], NEW start \in SUBSET A, NEW N \in Nat
    PROVE  \E f : Rounds(start, succ, f, N)
<1> DEFINE S == {n \in Nat : ~\E f : Rounds(start, succ, f, n)}
<1> SUFFICES ASSUME S # {} PROVE FALSE
  OBVIOUS
<1>1. PICK n \in S : \A m \in S : n <= m
  <2>1. S \subseteq Nat
    OBVIOUS
  <2> HIDE DEF S
  <2> QED BY <2>1, LeastNumber
<1>2. n # 0
  <2>1. Rounds(start, succ, [k \in 0 .. 0 |-> start], 0)
    BY DEF Rounds
  <2> QED BY <2>1
<1>3. n - 1 \in Nat /\ n - 1 \notin S
  BY <1>1, <1>2
<1>4. PICK f : Rounds(start, succ, f, n - 1)
  BY <1>3
<1> DEFINE g == [k \in 0 .. n |-> IF k = n THEN Round(succ, f[n - 1]) ELSE f[k]]
<1>5. f[n - 1] \in SUBSET A
  BY <1>3, <1>4 DEF Rounds
<1>6. Round(succ, f[n - 1]) \in SUBSET A
  BY <1>5 DEF Round
<1>7. g \in [0 .. n -> SUBSET A]
  BY <1>3, <1>4, <1>6 DEF Rounds
<1>8. g[0] = start
  BY <1>2, <1>4 DEF Rounds
<1>9. ASSUME NEW k \in 1 .. n PROVE g[k] = Round(succ, g[k - 1])
  <2>1. CASE k = n
    BY <2>1, <1>3
  <2>2. CASE k # n
    BY <2>2, <1>3, <1>4 DEF Rounds
  <2> QED BY <2>1, <2>2
<1> HIDE DEF g
<1>10. Rounds(start, succ, g, n)
  BY <1>7, <1>8, <1>9 DEF Rounds
<1> QED BY <1>1, <1>10

\* MutatorHeap counts like the other modules.
LEMMA SameCardinality == ASSUME NEW S PROVE Heap!Cardinality(S) = Cardinality(S)
  BY DEF Heap!Cardinality, Cardinality, Heap!IsFiniteSet, IsFiniteSet

\* What is reached is what the last round reaches.
LEMMA ReachableByRounds ==
    ASSUME NEW A, IsFiniteSet(A), NEW succ \in [A -> SUBSET A], NEW start \in SUBSET A
    PROVE  \E f : /\ Rounds(start, succ, f, Cardinality(A))
                  /\ Heap!Reachable(start, succ) = f[Cardinality(A)]
<1> DEFINE N == Cardinality(DOMAIN succ)
           R == CHOOSE R : R = [n \in 0 .. N |->
                    IF n = 0 THEN start ELSE UNION {{x} \cup succ[x] : x \in R[n - 1]}]
<1>1. N = Cardinality(A) /\ N \in Nat
  BY FS_CardinalityType
<1>2. PICK f : Rounds(start, succ, f, N)
  BY <1>1, RoundsExist
<1>5. Heap!Reachable(start, succ) = R[N]
  BY SameCardinality DEF Heap!Reachable
<1> HIDE DEF N
<1>3. f = [n \in 0 .. N |-> IF n = 0 THEN start
                           ELSE UNION {{x} \cup succ[x] : x \in f[n - 1]}]
  BY <1>1, <1>2 DEF Rounds, Round
<1>4. R = [n \in 0 .. N |-> IF n = 0 THEN start ELSE Round(succ, R[n - 1])]
  BY <1>3 DEF Round
<1> HIDE DEF R
<1>6. R \in [0 .. N -> SUBSET A]
  <2> DEFINE S == {n \in 0 .. N : R[n] \notin SUBSET A}
  <2> SUFFICES ASSUME S # {} PROVE FALSE
    BY <1>4
  <2>1. S \subseteq Nat
    BY <1>1
  <2>2. PICK n \in S : \A m \in S : n <= m
    <3> HIDE DEF S
    <3> QED BY <2>1, LeastNumber
  <2>3. n # 0
    BY <1>4, <1>1
  <2>4. n - 1 \in 0 .. N /\ n - 1 \notin S
    BY <1>1, <2>2, <2>3
  <2>5. R[n] = Round(succ, R[n - 1])
    BY <1>4, <2>2, <2>3
  <2> QED BY <2>2, <2>4, <2>5 DEF Round
<1>7. Rounds(start, succ, R, N)
  <2>1. R[0] = start
    BY <1>1, <1>4
  <2>2. \A k \in 1 .. N : R[k] = Round(succ, R[k - 1])
    BY <1>1, <1>4
  <2> QED BY <1>6, <2>1, <2>2 DEF Rounds
<1> QED BY <1>1, <1>5, <1>7

\* The start is reached, and so are the successors of what is reached: a round
\* that adds nothing comes before the rounds are used up.
LEMMA ReachableIsClosed ==
    ASSUME NEW A, IsFiniteSet(A), NEW succ \in [A -> SUBSET A], NEW start \in SUBSET A
    PROVE  /\ start \subseteq Heap!Reachable(start, succ)
           /\ Heap!Reachable(start, succ) \subseteq A
           /\ \A x \in Heap!Reachable(start, succ) : succ[x] \subseteq Heap!Reachable(start, succ)
<1> DEFINE N == Cardinality(A)
<1>1. N \in Nat
  BY FS_CardinalityType
<1>2. PICK f : Rounds(start, succ, f, N) /\ Heap!Reachable(start, succ) = f[N]
  BY ReachableByRounds
<1> HIDE DEF N
<1> DEFINE Good(n) == /\ start \subseteq f[n] /\ f[n] \subseteq A
                      /\ Cardinality(f[n]) >= n \/ Round(succ, f[n]) = f[n]
           S == {n \in 0 .. N : ~Good(n)}
<1>3. S = {}
  <2> SUFFICES ASSUME S # {} PROVE FALSE
    OBVIOUS
  <2>1. S \subseteq Nat
    BY <1>1
  <2>2. PICK n \in S : \A m \in S : n <= m
    <3> HIDE DEF S
    <3> QED BY <2>1, LeastNumber
  <2>3. n \in 0 .. N /\ ~Good(n)
    BY <2>2
  <2>4. n # 0
    <3>1. f[0] = start /\ Cardinality(start) \in Nat
      BY <1>2, FS_Subset, FS_CardinalityType DEF Rounds
    <3> QED BY <2>3, <3>1
  <2>5. n - 1 \in 0 .. N /\ Good(n - 1)
    BY <1>1, <2>2, <2>3, <2>4
  <2>6. f[n] = Round(succ, f[n - 1])
    BY <1>1, <1>2, <2>3, <2>4 DEF Rounds
  <2>7. f[n - 1] \subseteq f[n] /\ f[n] \subseteq A
    BY <2>5, <2>6 DEF Round
  <2>8. CASE f[n] = f[n - 1]
    BY <2>3, <2>5, <2>6, <2>7, <2>8
  <2>9. CASE f[n] # f[n - 1]
    <3> HIDE DEF Good
    <3>1. IsFiniteSet(f[n]) /\ IsFiniteSet(f[n - 1])
      BY <2>7, FS_Subset
    <3>2. Cardinality(f[n - 1]) < Cardinality(f[n])
      <4>1. /\ Cardinality(f[n - 1]) <= Cardinality(f[n])
            /\ Cardinality(f[n]) = Cardinality(f[n - 1]) => f[n] = f[n - 1]
        BY <2>7, <3>1, FS_Subset
      <4>2. Cardinality(f[n - 1]) \in Nat /\ Cardinality(f[n]) \in Nat
        BY <3>1, FS_CardinalityType
      <4> QED BY <2>9, <4>1, <4>2
    <3>3. Cardinality(f[n - 1]) >= n - 1 \/ Round(succ, f[n - 1]) = f[n - 1]
      BY <2>5 DEF Good
    <3>4. Cardinality(f[n]) >= n
      BY <1>1, <2>3, <2>6, <2>9, <3>1, <3>2, <3>3, FS_CardinalityType
    <3> QED BY <2>3, <2>5, <2>7, <3>4 DEF Good
  <2> QED BY <2>8, <2>9
<1>4. Good(N)
  BY <1>1, <1>3
<1>5. CASE Round(succ, f[N]) = f[N]
  BY <1>2, <1>4, <1>5 DEF Round
<1>6. CASE Cardinality(f[N]) >= N
  <2>1. f[N] = A
    <3>1. /\ IsFiniteSet(f[N]) /\ Cardinality(f[N]) <= Cardinality(A)
          /\ Cardinality(A) = Cardinality(f[N]) => A = f[N]
      BY <1>4, FS_Subset
    <3>2. Cardinality(f[N]) \in Nat /\ Cardinality(A) = N
      BY <3>1, FS_CardinalityType DEF N
    <3> QED BY <1>1, <1>6, <3>1, <3>2
  <2> QED BY <1>2, <1>4, <2>1
<1> QED BY <1>4, <1>5, <1>6

\* Every set that contains the start and is closed contains what is reached.
LEMMA ReachableIsLeast ==
    ASSUME NEW A, IsFiniteSet(A), NEW succ \in [A -> SUBSET A], NEW start \in SUBSET A,
           NEW T, start \subseteq T, \A x \in T \cap A : succ[x] \subseteq T
    PROVE  Heap!Reachable(start, succ) \subseteq T
<1> DEFINE N == Cardinality(A)
<1>1. N \in Nat
  BY FS_CardinalityType
<1>2. PICK f : Rounds(start, succ, f, N) /\ Heap!Reachable(start, succ) = f[N]
  BY ReachableByRounds
<1> HIDE DEF N
<1> DEFINE S == {n \in 0 .. N : ~(f[n] \subseteq T)}
<1>3. S = {}
  <2> SUFFICES ASSUME S # {} PROVE FALSE
    OBVIOUS
  <2>1. S \subseteq Nat
    BY <1>1
  <2>2. PICK n \in S : \A m \in S : n <= m
    <3> HIDE DEF S
    <3> QED BY <2>1, LeastNumber
  <2>3. n # 0
    BY <1>2, <2>2 DEF Rounds
  <2>4. n - 1 \in 0 .. N /\ n - 1 \notin S
    BY <1>1, <2>2, <2>3
  <2>5. f[n] = Round(succ, f[n - 1]) /\ f[n - 1] \subseteq A
    BY <1>1, <1>2, <2>2, <2>3, <2>4 DEF Rounds
  <2> QED BY <2>2, <2>4, <2>5 DEF Round
<1> QED BY <1>1, <1>2, <1>3

(***************************************************************************)
(* What the mutator can get at.                                            *)
(***************************************************************************)
\* The objects that are visible from pointers, in a state of the heap.
Seen(fwd, fld, pointers) ==
    Heap!Reachable({fwd[p] : p \in pointers},
                   [a \in Addresses |-> {fwd[p] : p \in Targets({fld[a][i] : i \in Fields})}])

\* The heap is finite.
LEMMA FiniteHeap == IsFiniteSet(Addresses)
<1>1. NumPartitions * PARTITION_SIZE - 1 \in Int
  BY HeapSize
<1> HIDE DEF Addresses
<1>2. IsFiniteSet(0 .. NumPartitions * PARTITION_SIZE - 1)
  BY <1>1, FS_Interval
<1> QED BY <1>2 DEF Addresses

\* Both facts about reachable sets, for the fields of objects.
LEMMA SeenIsClosed ==
    ASSUME NEW fwd \in [Addresses -> Addresses], NEW fld \in [Addresses -> [Fields -> Pointers]],
           NEW pointers \in SUBSET Addresses
    PROVE  /\ Seen(fwd, fld, pointers) \subseteq Addresses
           /\ \A p \in pointers : fwd[p] \in Seen(fwd, fld, pointers)
           /\ \A a \in Seen(fwd, fld, pointers), i \in Fields :
                 fld[a][i] # NULL_POINTER => fwd[fld[a][i]] \in Seen(fwd, fld, pointers)
<1> DEFINE start == {fwd[p] : p \in pointers}
           succ == [a \in Addresses |-> {fwd[p] : p \in Targets({fld[a][i] : i \in Fields})}]
<1>1. start \in SUBSET Addresses
  OBVIOUS
<1>2. ASSUME NEW a \in Addresses
      PROVE  /\ succ[a] \in SUBSET Addresses
             /\ \A i \in Fields : fld[a][i] # NULL_POINTER => fwd[fld[a][i]] \in succ[a]
  <2>1. Targets({fld[a][i] : i \in Fields}) \subseteq Addresses
    BY DEF Targets, Pointers
  <2> QED BY <2>1 DEF Targets
<1>3. succ \in [Addresses -> SUBSET Addresses]
  BY <1>2
<1>4. Seen(fwd, fld, pointers) = Heap!Reachable(start, succ)
  BY DEF Seen
<1>5. \A p \in pointers : fwd[p] \in start
  OBVIOUS
<1> HIDE DEF start, succ
<1>6. /\ start \subseteq Heap!Reachable(start, succ)
      /\ Heap!Reachable(start, succ) \subseteq Addresses
      /\ \A x \in Heap!Reachable(start, succ) : succ[x] \subseteq Heap!Reachable(start, succ)
  BY <1>1, <1>3, FiniteHeap, ReachableIsClosed
<1> QED BY <1>2, <1>4, <1>5, <1>6

\* A set that contains the start and is closed contains what is seen.
LEMMA SeenIsLeast ==
    ASSUME NEW fwd \in [Addresses -> Addresses], NEW fld \in [Addresses -> [Fields -> Pointers]],
           NEW pointers \in SUBSET Addresses,
           NEW T, \A p \in pointers : fwd[p] \in T,
           \A a \in T \cap Addresses, i \in Fields :
               fld[a][i] # NULL_POINTER => fwd[fld[a][i]] \in T
    PROVE  Seen(fwd, fld, pointers) \subseteq T
<1> DEFINE start == {fwd[p] : p \in pointers}
           succ == [a \in Addresses |-> {fwd[p] : p \in Targets({fld[a][i] : i \in Fields})}]
<1>1. start \in SUBSET Addresses /\ start \subseteq T
  OBVIOUS
<1>2. ASSUME NEW a \in Addresses
      PROVE  succ[a] \in SUBSET Addresses /\ (a \in T => succ[a] \subseteq T)
  <2>1. Targets({fld[a][i] : i \in Fields}) \subseteq Addresses
    BY DEF Targets, Pointers
  <2>2. ASSUME NEW p \in Targets({fld[a][i] : i \in Fields}), a \in T PROVE fwd[p] \in T
    BY <2>2 DEF Targets
  <2> QED BY <2>1, <2>2
<1>3. succ \in [Addresses -> SUBSET Addresses]
  BY <1>2
<1>4. Seen(fwd, fld, pointers) = Heap!Reachable(start, succ)
  BY DEF Seen
<1> HIDE DEF start, succ
<1>5. Heap!Reachable(start, succ) \subseteq T
  BY <1>1, <1>2, <1>3, FiniteHeap, ReachableIsLeast
<1> QED BY <1>4, <1>5

\* The pointers that the program starts from.
Starts == RootTargets \cup regs

\* They are addresses, before and after a step.
LEMMA StartsAreAddresses ==
    /\ TypeOK => Starts \in SUBSET Addresses
    /\ TypeOK' => Starts' \in SUBSET Addresses
  BY DEF Starts, RootTargets, Targets, TypeOK, Pointers

\* What the program can get at, before and after a step.
LEMMA VisibleIsSeen ==
    /\ VisibleObjects = Seen(forward, field, Starts)
    /\ VisibleObjects' = Seen(forward', field', Starts')
  BY DEF VisibleObjects, Seen, Starts

\* What the program can get at is closed.
LEMMA VisibleIsClosed ==
    ASSUME TypeOK
    PROVE  /\ VisibleObjects \subseteq Addresses
           /\ \A p \in Starts : forward[p] \in VisibleObjects
           /\ \A a \in VisibleObjects, i \in Fields :
                 field[a][i] # NULL_POINTER => forward[field[a][i]] \in VisibleObjects
<1>1. /\ forward \in [Addresses -> Addresses] /\ field \in [Addresses -> [Fields -> Pointers]]
      /\ Starts \in SUBSET Addresses
  BY StartsAreAddresses DEF TypeOK
<1> QED BY <1>1, VisibleIsSeen, SeenIsClosed

\* It is closed after a step.
LEMMA VisibleIsClosedNext ==
    ASSUME TypeOK'
    PROVE  /\ VisibleObjects' \subseteq Addresses
           /\ \A p \in Starts' : forward'[p] \in VisibleObjects'
           /\ \A a \in VisibleObjects', i \in Fields :
                 field'[a][i] # NULL_POINTER => forward'[field'[a][i]] \in VisibleObjects'
<1>1. /\ forward' \in [Addresses -> Addresses] /\ field' \in [Addresses -> [Fields -> Pointers]]
      /\ Starts' \in SUBSET Addresses
  BY StartsAreAddresses DEF TypeOK
<1> QED BY <1>1, VisibleIsSeen, SeenIsClosed

\* It is the least closed set.
LEMMA VisibleIsLeast ==
    ASSUME TypeOK, NEW T, \A p \in Starts : forward[p] \in T,
           \A a \in T \cap Addresses, i \in Fields :
               field[a][i] # NULL_POINTER => forward[field[a][i]] \in T
    PROVE  VisibleObjects \subseteq T
<1>1. /\ forward \in [Addresses -> Addresses] /\ field \in [Addresses -> [Fields -> Pointers]]
      /\ Starts \in SUBSET Addresses
  BY StartsAreAddresses DEF TypeOK
<1> QED BY <1>1, VisibleIsSeen, SeenIsLeast

\* It is the least closed set after a step.
LEMMA VisibleIsLeastNext ==
    ASSUME TypeOK', NEW T, \A p \in Starts' : forward'[p] \in T,
           \A a \in T \cap Addresses, i \in Fields :
               field'[a][i] # NULL_POINTER => forward'[field'[a][i]] \in T
    PROVE  VisibleObjects' \subseteq T
<1>1. /\ forward' \in [Addresses -> Addresses] /\ field' \in [Addresses -> [Fields -> Pointers]]
      /\ Starts' \in SUBSET Addresses
  BY StartsAreAddresses DEF TypeOK
<1> QED BY <1>1, VisibleIsSeen, SeenIsLeast

\* What is visible is allocated, and not forwarded.
LEMMA VisibleAreObjects ==
    ASSUME IInv
    PROVE  /\ VisibleObjects \subseteq Objects
           /\ \A a \in VisibleObjects : forward[a] = a
<1>1. PICK L \in SUBSET Objects : RootTargets \cup regs \subseteq L /\ Closed(L)
  BY IInvNoDangling DEF NoDangling
<1>2. TypeOK
  BY DEF IInv
<1> DEFINE T == {a \in L : forward[a] = a}
<1>3. \A a \in Addresses : forward[forward[a]] = forward[a]
  BY DEF IInv, Forwarding, TypeOK
<1>4. L \subseteq Addresses
  BY DEF Objects
<1>5. \A p \in L : forward[p] \in T
  BY <1>1, <1>3, <1>4 DEF Closed
<1>6. ASSUME NEW a \in T \cap Addresses, NEW i \in Fields, field[a][i] # NULL_POINTER
      PROVE  forward[field[a][i]] \in T
  BY <1>1, <1>5, <1>6 DEF Closed
<1>7. \A p \in Starts : forward[p] \in T
  BY <1>1, <1>5 DEF Starts
<1> HIDE DEF T
<1>8. VisibleObjects \subseteq T
  BY <1>2, <1>6, <1>7, VisibleIsLeast
<1> QED BY <1>8 DEF T

(***************************************************************************)
(* Garbage.                                                                *)
(***************************************************************************)
\* What the mutator can follow from L stays in L, where nothing is forwarded.
LiveSet(L) ==
    /\ L \in SUBSET Objects
    /\ RootTargets \cup regs \cup marked \subseteq L
    /\ \A a \in L, i \in Fields : field[a][i] \in L \cup {NULL_POINTER}

\* While the collector marks, what it marks is in a set that the program cannot
\* leave and that has no garbage; later it marks only copies and new objects.
GarbageInv ==
    /\ \A a \in Addresses : id[a] <= born
    /\ \A x \in garbage : x \in Nat /\ x <= born
    /\ phase = "Pause" => garbage = {}
    /\ phase = "Mark" => \E L : LiveSet(L) /\ \A a \in L : id[a] \notin garbage
    /\ GarbageNotMarked

\* A step of the mark phase that creates no object.
LEMMA MarkStepGarbage ==
    ASSUME IInv, IInv', GarbageInv, phase = "Mark", UNCHANGED <<garbage, id, born, tag, forward>>,
           \A L : LiveSet(L) =>
               /\ RootTargets' \cup regs' \cup marked' \subseteq L
               /\ \A a \in L, i \in Fields : field'[a][i] \in L \cup {NULL_POINTER},
           phase' \in {"Mark", "Evacuate"}
    PROVE  GarbageInv'
<1>1. PICK L : LiveSet(L) /\ \A a \in L : id[a] \notin garbage
  BY DEF GarbageInv
<1>2. LiveSet(L)'
  BY <1>1 DEF LiveSet, Objects
<1>3. GarbageNotMarked'
  BY <1>1, <1>2 DEF GarbageNotMarked, LiveSet
<1> QED BY <1>1, <1>2, <1>3 DEF GarbageInv

\* A step after the mark phase: what is marked is a copy of what was, or new.
LEMMA LaterStepGarbage ==
    ASSUME IInv, IInv', GarbageInv, garbage' = IF phase' = "Pause" THEN {} ELSE garbage,
           phase' # "Mark", born' \in Nat, born <= born',
           \A a \in Addresses : id'[a] <= born',
           phase' # "Pause" => \A a \in marked' :
               \/ \E b \in marked : id'[a] = id[b]
               \/ id'[a] > born
    PROVE  GarbageInv'
<1>1. born \in Nat /\ \A a \in Addresses : id'[a] \in Nat
  BY DEF IInv, TypeOK
<1>2. marked' \subseteq Addresses
  BY DEF IInv, TypeOK
<1>3. \A x \in garbage' : x \in Nat /\ x <= born'
  BY <1>1 DEF GarbageInv
<1>4. GarbageNotMarked'
  <2> SUFFICES ASSUME NEW a \in marked', id'[a] \in garbage' PROVE FALSE
    BY DEF GarbageNotMarked
  <2>1. phase' # "Pause" /\ garbage' = garbage
    OBVIOUS
  <2>2. id'[a] <= born
    BY <2>1 DEF GarbageInv
  <2>3. id'[a] \in Nat
    BY <1>1, <1>2
  <2>4. PICK b \in marked : id'[a] = id[b]
    BY <1>1, <2>1, <2>2, <2>3
  <2> QED BY <2>1, <2>4 DEF GarbageInv, GarbageNotMarked
<1> QED BY <1>3, <1>4 DEF GarbageInv

\* Nothing has been marked of what is not an object.
LEMMA MarkedAreObjects == ASSUME IInv PROVE marked \subseteq Objects /\ Objects \subseteq Addresses
  BY DEF IInv, Structure, Objects

\* A new object has a number that no garbage has.
LEMMA AllocationGarbage ==
    ASSUME IInv, IInv', GarbageInv, NEW a \in Addresses \ Objects, NEW t \in {"Array", "WeakRef"},
           NEW fields \in [Fields -> Pointers], new_object(a, t, fields), mark_new_allocation(a),
           phase = "Mark" => \A i \in Fields : fields[i] \in Held,
           UNCHANGED <<phase, forward, root, garbage>>
    PROVE  GarbageInv'
<1> USE DEF new_object
<1>1. /\ tag \in [Addresses -> {"Free", "Array", "WeakRef"}] /\ id \in [Addresses -> Nat]
      /\ field \in [Addresses -> [Fields -> Pointers]] /\ born \in Nat /\ marked \subseteq Objects
      /\ born' = born + 1 /\ id'[a] = born + 1 /\ \A b \in Addresses \ {a} : id'[b] = id[b]
  BY DEF IInv, TypeOK, Structure
<1>2. Objects' = Objects \cup {a} /\ Objects \subseteq Addresses
  BY <1>1 DEF Objects
<1>3. \A b \in Addresses : id'[b] <= born'
  BY <1>1 DEF GarbageInv
<1>4. CASE phase = "Mark"
  <2>1. PICK L : LiveSet(L) /\ \A b \in L : id[b] \notin garbage
    BY <1>4 DEF GarbageInv
  <2> DEFINE M == L \cup {a}
  <2>2. M \in SUBSET Objects' /\ regs' \subseteq M /\ marked' \subseteq M
    BY <1>2, <2>1 DEF LiveSet, mark_new_allocation
  <2>3. RootTargets' \subseteq M
    BY <2>1 DEF LiveSet, RootTargets
  <2>4. ASSUME NEW b \in M, NEW i \in Fields PROVE field'[b][i] \in M \cup {NULL_POINTER}
    <3>1. CASE b = a
      <4>1. field'[a] = fields
        BY <1>1
      <4>2. fields[i] \in L \cup {NULL_POINTER}
        BY <1>4, <2>1 DEF Held, LiveSet
      <4> QED BY <3>1, <4>1, <4>2
    <3>2. CASE b # a
      <4>1. b \in L /\ b \in Addresses /\ field'[b] = field[b]
        BY <1>1, <1>2, <2>1, <3>2 DEF LiveSet
      <4> QED BY <2>1, <4>1 DEF LiveSet
    <3> QED BY <3>1, <3>2
  <2> HIDE DEF M
  <2>5. LiveSet(M)'
    BY <2>2, <2>3, <2>4 DEF LiveSet
  <2>6. \A b \in M : id'[b] \notin garbage'
    <3>1. a \notin L /\ L \subseteq Addresses
      BY <1>2, <2>1 DEF LiveSet
    <3>2. born + 1 \notin garbage
      BY <1>1 DEF GarbageInv
    <3> QED BY <1>1, <2>1, <3>1, <3>2 DEF M
  <2>7. GarbageNotMarked'
    BY <2>2, <2>6 DEF GarbageNotMarked
  <2>8. \A x \in garbage' : x \in Nat /\ x <= born'
    BY <1>1 DEF GarbageInv
  <2> QED BY <1>3, <1>4, <2>5, <2>6, <2>7, <2>8 DEF GarbageInv
<1>5. CASE phase # "Mark"
  <2>1. \A b \in marked' : (\E c \in marked : id'[b] = id[c]) \/ id'[b] > born
    <3> SUFFICES ASSUME NEW b \in marked', b # a PROVE \E c \in marked : id'[b] = id[c]
      BY <1>1
    <3>1. b \in marked /\ b \in Addresses
      BY <1>1, <1>2 DEF mark_new_allocation
    <3> QED BY <1>1, <3>1
  <2>2. garbage' = IF phase' = "Pause" THEN {} ELSE garbage
    BY DEF GarbageInv
  <2> QED BY <1>1, <1>3, <1>5, <2>1, <2>2, LaterStepGarbage
<1> QED BY <1>4, <1>5

\* A step outside the mark phase that creates no object and marks nothing.
LEMMA QuietStepGarbage ==
    ASSUME IInv, IInv', GarbageInv, phase # "Mark", UNCHANGED <<phase, id, born, marked, garbage>>
    PROVE  GarbageInv'
<1>1. born \in Nat /\ marked \subseteq Addresses
  BY DEF IInv, TypeOK
<1>2. garbage' = IF phase' = "Pause" THEN {} ELSE garbage
  BY DEF GarbageInv
<1>3. \A a \in marked' : (\E b \in marked : id'[a] = id[b]) \/ id'[a] > born
  OBVIOUS
<1> QED BY <1>1, <1>2, <1>3, LaterStepGarbage DEF GarbageInv

\* Reading a root or a field, and getting the target of a weak reference.
LEMMA ReadsGarbage == ASSUME IInv, IInv', GarbageInv, Reads, garbage' = garbage PROVE GarbageInv'
<1>1. UNCHANGED <<phase, tag, forward, field, id, born, root>>
  BY DEF Reads, LoadRoot, LoadField, WeakGet, memory
<1>2. CASE phase # "Mark"
  <2>1. marked' = marked
    BY <1>2 DEF Reads, LoadRoot, LoadField, WeakGet, marking, pre_read_barrier
  <2> QED BY <1>1, <1>2, <2>1, QuietStepGarbage
<1>3. CASE phase = "Mark"
  <2>1. ASSUME NEW L, LiveSet(L)
        PROVE  regs' \subseteq L /\ marked' \subseteq L
    <3>1. regs \subseteq L /\ marked \subseteq L /\ RootTargets \subseteq L /\ L \subseteq Addresses
          /\ regs \subseteq Addresses
      BY <2>1, MarkedAreObjects DEF LiveSet
    <3>2. CASE \E r \in Roots : LoadRoot(r)
      BY <3>1, <3>2 DEF LoadRoot, RootTargets, Targets, marking
    <3>3. ASSUME NEW x \in regs, NEW i \in Fields, LoadField(x, i)
          PROVE  regs' \subseteq L /\ marked' \subseteq L
      <4>1. forward[x] = x
        BY <1>3, <3>1, Unforwarded
      <4>2. field[x][i] \in L
        BY <2>1, <3>1, <3>3, <4>1 DEF LiveSet, LoadField
      <4> QED BY <3>1, <3>3, <4>1, <4>2 DEF LoadField, marking
    <3>4. ASSUME NEW x \in regs, WeakGet(x)
          PROVE  regs' \subseteq L /\ marked' \subseteq L
      <4>1. forward[x] = x
        BY <1>3, <3>1, Unforwarded
      <4>2. field[x][1] \in L
        BY <2>1, <3>1, <3>4, <4>1, FirstField DEF LiveSet, WeakGet
      <4>3. regs' = regs \cup {field[x][1]} /\ marked' \subseteq marked \cup {field[x][1]}
        BY <3>4, <4>1 DEF WeakGet, marking, pre_read_barrier, mark_objects
      <4> QED BY <3>1, <4>2, <4>3
    <3> QED BY <3>2, <3>3, <3>4 DEF Reads
  <2>2. RootTargets' = RootTargets
    BY <1>1 DEF RootTargets
  <2>3. \A L : LiveSet(L) =>
           /\ RootTargets' \cup regs' \cup marked' \subseteq L
           /\ \A a \in L, i \in Fields : field'[a][i] \in L \cup {NULL_POINTER}
    BY <1>1, <2>1, <2>2 DEF LiveSet
  <2> QED BY <1>1, <1>3, <2>3, MarkStepGarbage
<1> QED BY <1>2, <1>3

\* Writes.
LEMMA WriteFieldGarbage ==
    ASSUME IInv, IInv', GarbageInv, NEW x \in regs, NEW i \in Fields, NEW v \in Held,
           WriteField(x, i, v), garbage' = garbage
    PROVE  GarbageInv'
<1>1. CASE phase # "Mark"
  BY <1>1, QuietStepGarbage DEF WriteField, pre_write_barrier, marking
<1>2. CASE phase = "Mark"
  <2>1. /\ field \in [Addresses -> [Fields -> Pointers]] /\ regs \subseteq Addresses
        /\ forward[x] = x /\ x \in Addresses /\ running_gc
    BY <1>2, Unforwarded DEF IInv, TypeOK, RunningFlagCurrent
  <2>2. forward_if_possible(v) = v
    BY <1>2, <2>1, Unforwarded DEF forward_if_possible, Held
  <2>3. /\ pre_write_barrier(field[x][i])
        /\ field' = [field EXCEPT ![x] = [field[x] EXCEPT ![i] = v]]
        /\ UNCHANGED <<phase, tag, forward, id, born, root, regs>>
    BY <2>1, <2>2 DEF WriteField
  <2>4. ASSUME NEW L, LiveSet(L)
        PROVE  marked' \subseteq L /\ \A a \in L, j \in Fields : field'[a][j] \in L \cup {NULL_POINTER}
    <3>1. x \in L /\ v \in L \cup {NULL_POINTER} /\ marked \subseteq L
      BY <2>4 DEF LiveSet, Held
    <3>2. marked' \subseteq L
      <4>1. marked' \subseteq marked \cup Targets({field[x][i]})
        BY <2>3 DEF pre_write_barrier, mark_objects, marking, Targets
      <4>2. field[x][i] \in L \cup {NULL_POINTER}
        BY <2>4, <3>1 DEF LiveSet
      <4> QED BY <3>1, <4>1, <4>2 DEF Targets
    <3>3. ASSUME NEW a \in L, NEW j \in Fields PROVE field'[a][j] = v \/ field'[a][j] = field[a][j]
      BY <2>1, <2>3, <2>4, MarkedAreObjects DEF LiveSet
    <3> QED BY <2>4, <3>1, <3>2, <3>3 DEF LiveSet
  <2>5. RootTargets' = RootTargets
    BY <2>3 DEF RootTargets
  <2> QED BY <1>2, <2>3, <2>4, <2>5, MarkStepGarbage DEF LiveSet
<1> QED BY <1>1, <1>2

\* The runtime writes a root.
LEMMA WriteRootGarbage ==
    ASSUME IInv, IInv', GarbageInv, NEW r \in Roots, NEW v \in Held,
           WriteRoot(r, v), garbage' = garbage
    PROVE  GarbageInv'
<1>1. CASE phase # "Mark"
  BY <1>1, QuietStepGarbage DEF WriteRoot, pre_write_barrier, marking, memory
<1>2. CASE phase = "Mark"
  <2>1. forward_if_possible(v) = v
    BY <1>2, Unforwarded DEF forward_if_possible, Held, IInv, TypeOK
  <2>2. /\ pre_write_barrier(root[r]) /\ root' = [root EXCEPT ![r] = v]
        /\ root \in [Roots -> Pointers]
        /\ UNCHANGED <<phase, tag, forward, field, id, born, regs>>
    BY <2>1 DEF WriteRoot, memory, IInv, TypeOK
  <2>3. marked' \subseteq marked \cup RootTargets
    BY <2>2 DEF pre_write_barrier, mark_objects, marking, RootTargets, Targets
  <2>4. RootTargets' \subseteq RootTargets \cup Targets({v})
    BY <2>2 DEF RootTargets, Targets
  <2>5. \A L : LiveSet(L) =>
           /\ RootTargets' \cup regs' \cup marked' \subseteq L
           /\ \A a \in L, i \in Fields : field'[a][i] \in L \cup {NULL_POINTER}
    BY <2>2, <2>3, <2>4 DEF LiveSet, Held, Targets
  <2> QED BY <1>2, <2>2, <2>5, MarkStepGarbage
<1> QED BY <1>1, <1>2

\* What the barrier does when no collection runs is nothing.
LEMMA NewUnmarkedInPause ==
    ASSUME IInv, ~running_gc, UNCHANGED marking, NEW a PROVE mark_new_allocation(a)
  BY DEF IInv, RunningFlagCurrent, mark_new_allocation, marking

\* Compiled code allocates an object.
LEMMA AllocateGarbage ==
    ASSUME IInv, IInv', GarbageInv, NEW a \in Addresses \ Objects, NEW fields \in [Fields -> Held],
           Allocate(a, fields), garbage' = garbage
    PROVE  GarbageInv'
<1>1. UNCHANGED <<phase, forward, root>>
  BY DEF Allocate
<1>2. regs \subseteq Addresses /\ forward \in [Addresses -> Addresses]
  BY DEF IInv, TypeOK
<1>3. fields \in [Fields -> Pointers]
  BY <1>2 DEF Held, Pointers
<1>4. mark_new_allocation(a)
  BY NewUnmarkedInPause DEF Allocate
<1> DEFINE stored == IF running_gc THEN update_new_allocation(fields) ELSE fields
<1>5. new_object(a, "Array", stored)
  BY DEF Allocate
<1>6. stored \in [Fields -> Pointers] /\ (phase = "Mark" => stored = fields)
  BY <1>2, <1>3 DEF update_new_allocation, forward_if_possible, Pointers
<1>7. phase = "Mark" => \A i \in Fields : stored[i] \in Held
  BY <1>6
<1> HIDE DEF stored
<1> QED BY <1>1, <1>4, <1>5, <1>6, <1>7, AllocationGarbage

\* The runtime allocates a weak reference.
LEMMA AllocateWeakRefGarbage ==
    ASSUME IInv, IInv', GarbageInv, NEW a \in Addresses \ Objects, NEW target \in regs,
           AllocateWeakRef(a, target), garbage' = garbage
    PROVE  GarbageInv'
<1>1. UNCHANGED <<phase, forward, root>> /\ mark_new_allocation(a)
  BY DEF AllocateWeakRef
<1>2. regs \subseteq Addresses /\ forward \in [Addresses -> Addresses]
  BY DEF IInv, TypeOK
<1> DEFINE fields == [NoFields EXCEPT ![1] = forward_if_possible(target)]
           stored == update_new_allocation(fields)
<1>3. new_object(a, "WeakRef", stored)
  BY DEF AllocateWeakRef
<1>4. fields \in [Fields -> Pointers]
  BY <1>2 DEF NoFields, forward_if_possible, Pointers
<1>5. phase = "Mark" => \A i \in Fields : fields[i] \in Held
  BY <1>2, Unforwarded DEF NoFields, forward_if_possible, Held
<1> HIDE DEF fields
<1>6. stored \in [Fields -> Pointers] /\ (phase = "Mark" => stored = fields)
  BY <1>2, <1>4 DEF update_new_allocation, forward_if_possible, Pointers
<1>7. phase = "Mark" => \A i \in Fields : stored[i] \in Held
  BY <1>5, <1>6
<1> HIDE DEF stored
<1> QED BY <1>1, <1>3, <1>6, <1>7, AllocationGarbage

\* The end of a message and an upgrade only drop pointers.
LEMMA DropsGarbage ==
    ASSUME IInv, IInv', GarbageInv, EndMessage \/ Upgrade, garbage' = garbage
    PROVE  GarbageInv'
<1>1. UNCHANGED <<phase, tag, forward, field, id, born, marked>> /\ regs' \subseteq regs
  BY DEF EndMessage, Upgrade, memory, marking
<1>2. RootTargets' \subseteq RootTargets
  BY DEF EndMessage, Upgrade, RootTargets, Targets
<1>3. \A L : LiveSet(L) =>
         /\ RootTargets' \cup regs' \cup marked' \subseteq L
         /\ \A a \in L, i \in Fields : field'[a][i] \in L \cup {NULL_POINTER}
  BY <1>1, <1>2 DEF LiveSet
<1>4. CASE phase = "Mark"
  BY <1>1, <1>3, <1>4, MarkStepGarbage
<1>5. CASE phase # "Mark"
  BY <1>1, <1>5, QuietStepGarbage
<1> QED BY <1>4, <1>5

\* A collection starts: what the program can get at is not garbage.
LEMMA start_markingGarbage ==
    ASSUME IInv, IInv', GarbageInv, start_marking,
           garbage' = {id[a] : a \in Objects} \ {id[a] : a \in VisibleObjects}
    PROVE  GarbageInv'
<1>1. /\ UNCHANGED <<tag, forward, field, id, born, root, regs>> /\ regs = {} /\ marked = {}
      /\ phase = "Pause" /\ phase' = "Mark" /\ marked' = RootTargets
  BY DEF start_marking, set_phase, mark_objects, memory, RootTargets, IInv, Structure
<1>2. VisibleObjects \subseteq Objects /\ \A a \in Addresses : forward[a] = a
  BY <1>1, VisibleAreObjects, Unforwarded
<1>3. /\ \A p \in Starts : forward[p] \in VisibleObjects
      /\ \A a \in VisibleObjects, i \in Fields :
            field[a][i] # NULL_POINTER => forward[field[a][i]] \in VisibleObjects
  BY VisibleIsClosed DEF IInv
<1>4. Starts \subseteq Addresses
  BY StartsAreAddresses DEF IInv
<1>5. RootTargets \subseteq VisibleObjects
  BY <1>2, <1>3, <1>4 DEF Starts
<1>6. ASSUME NEW a \in VisibleObjects, NEW i \in Fields
      PROVE  field[a][i] \in VisibleObjects \cup {NULL_POINTER}
  <2>1. a \in Addresses /\ field[a][i] \in Pointers
    BY <1>2, MarkedAreObjects DEF IInv, TypeOK
  <2> QED BY <1>2, <1>3, <2>1 DEF Pointers
<1>11. PICK L : L = VisibleObjects
  OBVIOUS
<1>7. /\ L \in SUBSET Objects'
      /\ RootTargets' \cup regs' \cup marked' \subseteq L
      /\ \A a \in L, i \in Fields : field'[a][i] \in L \cup {NULL_POINTER}
      /\ \A a \in L : id'[a] \notin garbage'
  BY <1>1, <1>2, <1>5, <1>6, <1>11 DEF Objects, RootTargets
<1>8. LiveSet(L)'
  BY <1>7 DEF LiveSet
<1>9. GarbageNotMarked'
  <2>1. marked' \subseteq L /\ \A a \in L : id'[a] \notin garbage'
    BY <1>7
  <2> QED BY <2>1 DEF GarbageNotMarked
<1>12. \A a \in Addresses : id'[a] <= born'
  BY <1>1 DEF GarbageInv
<1>13. \E M : LiveSet(M)' /\ \A a \in M : id'[a] \notin garbage'
  BY <1>7, <1>8
<1>10. \A x \in garbage' : x \in Nat /\ x <= born'
  BY <1>1, MarkedAreObjects DEF GarbageInv, IInv, TypeOK
<1> QED BY <1>1, <1>9, <1>10, <1>12, <1>13 DEF GarbageInv

\* The collector marks what it finds in marked objects.
LEMMA mark_incrementGarbage ==
    ASSUME IInv, IInv', GarbageInv, NEW a \in mark_stack, mark_increment(a), garbage' = garbage
    PROVE  GarbageInv'
<1>1. /\ phase = "Mark" /\ UNCHANGED <<phase, tag, forward, field, id, born, root, regs>>
      /\ a \in marked
  BY DEF mark_increment, IInv, TypeOK
<1>2. slice[a] \in 0 .. NumFields /\ NumFields \in Nat
  BY <1>1, GCConstants DEF IInv, TypeOK
<1>3. SliceFields(a) \subseteq Fields
  BY <1>2, GCConstants DEF SliceFields, slice_stop, Fields
<1>4. marked' \subseteq marked \cup Targets({field[a][i] : i \in Fields})
  BY <1>3 DEF mark_increment, mark_fields, Targets
<1>5. RootTargets' = RootTargets
  BY <1>1 DEF RootTargets
<1>6. \A L : LiveSet(L) =>
         /\ RootTargets' \cup regs' \cup marked' \subseteq L
         /\ \A b \in L, i \in Fields : field'[b][i] \in L \cup {NULL_POINTER}
  BY <1>1, <1>4, <1>5 DEF LiveSet, Targets
<1> QED BY <1>1, <1>6, MarkStepGarbage

\* Marking ends: weak references are cleared.
LEMMA start_evacuatingGarbage ==
    ASSUME IInv, IInv', GarbageInv, start_evacuating, garbage' = garbage
    PROVE  GarbageInv'
<1>1. /\ phase = "Mark" /\ phase' = "Evacuate"
      /\ UNCHANGED <<tag, forward, id, born, marked, root, regs>>
  BY DEF start_evacuating, set_phase
<1>2. \A b \in Addresses, i \in Fields : field'[b][i] \in {field[b][i], NULL_POINTER}
  BY DEF start_evacuating, complete_marking, NoFields
<1>3. RootTargets' = RootTargets
  BY <1>1 DEF RootTargets
<1>4. \A L : LiveSet(L) =>
         /\ RootTargets' \cup regs' \cup marked' \subseteq L
         /\ \A b \in L, i \in Fields : field'[b][i] \in L \cup {NULL_POINTER}
  BY <1>1, <1>2, <1>3, MarkedAreObjects DEF LiveSet
<1> QED BY <1>1, <1>4, MarkStepGarbage

\* A copy has the number of its original, which was marked.
LEMMA evacuation_incrementGarbage ==
    ASSUME IInv, IInv', GarbageInv, NEW original \in marked, NEW copy \in Addresses \ Objects,
           evacuation_increment(original, copy), garbage' = garbage
    PROVE  GarbageInv'
<1>1. /\ phase = "Evacuate" /\ UNCHANGED <<phase, born>>
      /\ id' = [id EXCEPT ![copy] = id[original]] /\ marked' = marked \cup {copy}
      /\ id \in [Addresses -> Nat] /\ marked \subseteq Addresses /\ copy \notin marked
      /\ born \in Nat
  BY MarkedAreObjects DEF evacuation_increment, evacuate_object, IInv, TypeOK
<1>2. \A b \in Addresses : id'[b] <= born'
  BY <1>1 DEF GarbageInv
<1>3. \A b \in marked' : \E c \in marked : id'[b] = id[c]
  BY <1>1
<1> QED BY <1>1, <1>2, <1>3, LaterStepGarbage

\* A collection completes.
LEMMA complete_runGarbage ==
    ASSUME IInv, IInv', GarbageInv, complete_run, garbage' = {}
    PROVE  GarbageInv'
<1>1. /\ phase # "Mark" /\ phase' = "Pause" /\ born' = born /\ born \in Nat
      /\ \A a \in Addresses : id'[a] \in {0, id[a]}
  BY DEF complete_run, set_phase, IInv, TypeOK
<1>2. \A a \in Addresses : id'[a] <= born'
  BY <1>1 DEF GarbageInv
<1> QED BY <1>1, <1>2, LaterStepGarbage

\* No step marks garbage.
LEMMA NextGarbage ==
    ASSUME IInv, IInv', GarbageInv, [RefinementNext]_<<vars, operations, graph, garbage>>
    PROVE  GarbageInv'
<1>1. CASE UNCHANGED <<vars, garbage>>
  <2>1. UNCHANGED <<phase, tag, field, id, born, marked, root, regs, garbage>>
    BY <1>1 DEF vars, memory, marking
  <2>2. \A L : LiveSet(L) => LiveSet(L)'
    BY <2>1 DEF LiveSet, Objects, RootTargets
  <2> QED BY <2>1, <2>2 DEF GarbageInv, GarbageNotMarked
<1>2. CASE RefinementNext
  <2>1. /\ Next
        /\ garbage' = CASE phase = "Pause" /\ phase' = "Mark" ->
                              {id[a] : a \in Objects} \ {id[a] : a \in VisibleObjects'}
                         [] phase' = "Pause" -> {}
                         [] OTHER -> garbage
    BY <1>2 DEF RefinementNext, MCNext, Next
  <2>2. garbage' = garbage \/ start_marking \/ complete_run
    <3>1. \/ start_marking \/ complete_run
          \/ ~(phase = "Pause" /\ phase' = "Mark") /\ (phase' = "Pause" => phase = "Pause")
      BY <2>1 DEF Next, Reads, Writes, Increment, LoadRoot, LoadField, WeakGet, WriteField, WriteRoot,
            Allocate, AllocateWeakRef, EndMessage, Upgrade, mark_increment, start_evacuating,
            evacuation_increment, start_updating, update_increment, set_phase
    <3> QED BY <2>1, <3>1 DEF GarbageInv
  <2>3. CASE start_marking
    <3>1. VisibleObjects' = VisibleObjects
      <4>1. UNCHANGED <<forward, field, root, regs>>
        BY <2>3 DEF start_marking, memory
      <4>2. Starts' = Starts
        BY <4>1 DEF Starts, RootTargets
      <4> QED BY <4>1, <4>2, VisibleIsSeen
    <3>2. phase = "Pause" /\ phase' = "Mark"
      BY <2>3 DEF start_marking, set_phase
    <3> QED BY <2>1, <2>3, <3>1, <3>2, start_markingGarbage
  <2>4. CASE complete_run
    <3>1. phase' = "Pause" /\ phase # "Pause"
      BY <2>4 DEF complete_run, set_phase
    <3> QED BY <2>1, <2>4, <3>1, complete_runGarbage
  <2>5. CASE garbage' = garbage /\ ~start_marking /\ ~complete_run
    <3>1. CASE Reads
      BY <2>5, <3>1, ReadsGarbage
    <3>2. CASE Writes
      BY <2>5, <3>2, WriteFieldGarbage, WriteRootGarbage, AllocateGarbage, AllocateWeakRefGarbage
         DEF Writes
    <3>3. CASE EndMessage \/ Upgrade
      BY <2>5, <3>3, DropsGarbage
    <3>4. ASSUME NEW a \in mark_stack, mark_increment(a) PROVE GarbageInv'
      BY <2>5, <3>4, mark_incrementGarbage
    <3>5. CASE start_evacuating
      BY <2>5, <3>5, start_evacuatingGarbage
    <3>6. ASSUME NEW original \in marked, NEW copy \in Addresses \ Objects,
                 evacuation_increment(original, copy)
          PROVE  GarbageInv'
      BY <2>5, <3>6, evacuation_incrementGarbage
    <3>7. CASE start_updating
      <4>1. /\ phase = "Evacuate" /\ phase' = "Update" /\ UNCHANGED <<id, born, marked>>
            /\ born \in Nat
        BY <3>7 DEF start_updating, set_phase, memory, marking, IInv, TypeOK
      <4>2. \A a \in Addresses : id'[a] <= born'
        BY <4>1 DEF GarbageInv
      <4> QED BY <2>5, <4>1, <4>2, LaterStepGarbage
    <3>8. ASSUME NEW a \in marked, update_increment(a) PROVE GarbageInv'
      BY <2>5, <3>8, QuietStepGarbage DEF update_increment, marking
    <3> QED BY <2>1, <2>5, <3>1, <3>2, <3>3, <3>4, <3>5, <3>6, <3>7, <3>8 DEF Next, Increment
  <2> QED BY <2>2, <2>3, <2>4, <2>5
<1> QED BY <1>1, <1>2 DEF vars

\* A collection marks, copies and keeps alive nothing that was inaccessible when
\* it started: neither the barriers, nor the root set that start_marking takes,
\* nor an evacuation bring garbage back.
THEOREM NoGarbageMarked == RefinementSpec => []GarbageNotMarked
<1>1. RefinementInit => IInv /\ GarbageInv
  BY InitIInv DEF RefinementInit, MCInit, Init, GarbageInv, GarbageNotMarked
<1>2. IInv /\ GarbageInv /\ [RefinementNext]_<<vars, operations, graph, garbage>>
         => IInv' /\ GarbageInv'
  <2>1. [RefinementNext]_<<vars, operations, graph, garbage>> => [Next]_vars
    BY DEF RefinementNext, MCNext, Next
  <2> QED BY <2>1, NextIInv, NextGarbage
<1>3. GarbageInv => GarbageNotMarked
  BY DEF GarbageInv
<1> QED BY <1>1, <1>2, <1>3, PTL DEF RefinementSpec

(***************************************************************************)
(* Names.                                                                  *)
(***************************************************************************)
\* An object and its copies have one name, which they do not share, and one
\* current copy.
Names ==
    /\ \A a \in Objects : id[a] \in 1 .. born /\ id[forward[a]] = id[a]
    /\ \A a, b \in Objects : id[a] = id[b] => forward[a] = forward[b]
    /\ phase = "Evacuate" => \A a \in Objects : forward[a] # a => a < iterator
    /\ operations \in Nat /\ born <= operations /\ operations <= MaxOperations

\* Forwarding leads from objects to objects, in one step.
LEMMA ForwardIsObject ==
    ASSUME IInv, NEW a \in Objects
    PROVE  forward[a] \in Objects /\ forward[forward[a]] = forward[a]
  BY ForwardedAreObjects, MarkedAreObjects DEF IInv, Forwarding

\* The steps that neither create nor free nor forward an object.
LEMMA NamesKept ==
    ASSUME IInv, Names, UNCHANGED <<tag, forward, id, born>>,
           phase' = "Evacuate" => phase = "Evacuate" /\ iterator' = iterator,
           operations' \in Nat, operations <= operations', operations' <= MaxOperations
    PROVE  Names'
<1>1. Objects' = Objects /\ born \in Nat
  BY DEF Objects, IInv, TypeOK
<1>2. born <= operations' /\ operations \in Nat
  BY <1>1, MaxOperationsIsBound DEF Names
<1>3. \A a \in Objects : id[a] \in 1 .. born /\ id[forward[a]] = id[a]
  BY DEF Names
<1>4. \A a, b \in Objects : id[a] = id[b] => forward[a] = forward[b]
  BY DEF Names
<1>5. phase' = "Evacuate" => \A a \in Objects : forward[a] # a => a < iterator'
  BY DEF Names
<1> QED BY <1>1, <1>2, <1>3, <1>4, <1>5 DEF Names

\* A new object has a new name.
LEMMA AllocationNames ==
    ASSUME IInv, Names, NEW a \in Addresses \ Objects, NEW t, t # "Free", NEW fields,
           new_object(a, t, fields), UNCHANGED <<phase, forward, iterator>>,
           operations < MaxOperations, operations' = operations + 1
    PROVE  Names'
<1>1. /\ tag \in [Addresses -> {"Free", "Array", "WeakRef"}] /\ id \in [Addresses -> Nat]
      /\ born \in Nat /\ born' = born + 1
      /\ tag' = [tag EXCEPT ![a] = t] /\ id' = [id EXCEPT ![a] = born + 1]
      /\ forward[a] = a
  BY DEF IInv, TypeOK, Structure, new_object
<1>2. Objects' = Objects \cup {a} /\ Objects \subseteq Addresses
  BY <1>1 DEF Objects
<1>3. ASSUME NEW b \in Objects
      PROVE  /\ id'[b] = id[b] /\ id'[b] \in 1 .. born /\ forward[b] \in Objects
             /\ id'[forward[b]] = id'[b]
  BY <1>1, <1>2, ForwardIsObject DEF Names
<1>4. id'[a] = born + 1
  BY <1>1
<1>5. \A b \in Objects' : id'[b] \in 1 .. born' /\ id'[forward[b]] = id'[b]
  BY <1>1, <1>2, <1>3, <1>4
<1>6. \A b, c \in Objects' : id'[b] = id'[c] => forward[b] = forward[c]
  BY <1>1, <1>2, <1>3, <1>4 DEF Names
<1>7. phase = "Evacuate" => \A b \in Objects' : forward[b] # b => b < iterator
  BY <1>1, <1>2 DEF Names
<1>8. operations' \in Nat /\ born' <= operations' /\ operations' <= MaxOperations
  BY <1>1, MaxOperationsIsBound DEF Names
<1> QED BY <1>5, <1>6, <1>7, <1>8 DEF Names

\* The next object to evacuate has not been copied, so its name is not shared.
LEMMA CurrentOriginal ==
    ASSUME IInv, Names, NEW original \in marked, phase = "Evacuate",
           original \in CurrentObject(evacuate)
    PROVE  /\ original \in Objects /\ forward[original] = original
           /\ \A b \in Objects : forward[b] = original => b = original
<1>1. original \in Objects /\ ~Kept(original) /\ original >= iterator
  BY MarkedAreObjects DEF CurrentObject, Lowest, Remaining, In, Kept
<1>2. original \in Int /\ iterator \in Int
  BY <1>1, HeapSize, MarkedAreObjects DEF IInv, TypeOK, Addresses
<1>3. forward[original] = original
  BY <1>1, <1>2 DEF Names
<1>4. \A b \in Objects : forward[b] = original => b = original
  BY <1>1, MarkedAreObjects DEF IInv, Forwarding
<1> QED BY <1>1, <1>3, <1>4

\* An evacuation gives the copy the name of its original.
LEMMA EvacuationNames ==
    ASSUME IInv, Names, NEW original \in marked, NEW copy \in Addresses \ Objects,
           evacuation_increment(original, copy), operations' = operations
    PROVE  Names'
<1>1. /\ original \in Objects /\ forward[original] = original
      /\ \A b \in Objects : forward[b] = original => b = original
  BY CurrentOriginal DEF evacuation_increment
<1>2. /\ tag' = [tag EXCEPT ![copy] = tag[original]] /\ born' = born
      /\ id' = [id EXCEPT ![copy] = id[original]] /\ iterator' = original + 1
      /\ forward' = [forward EXCEPT ![copy] = copy, ![original] = copy]
      /\ tag \in [Addresses -> {"Free", "Array", "WeakRef"}] /\ id \in [Addresses -> Nat]
      /\ forward \in [Addresses -> Addresses] /\ phase = "Evacuate" /\ phase' = phase
      /\ original \in CurrentObject(evacuate) /\ iterator \in Nat
  BY HeapSize DEF evacuation_increment, evacuate_object, IInv, TypeOK
<1>3. Objects \subseteq Addresses /\ original \in Addresses /\ original # copy /\ copy \notin Objects
      /\ Addresses \subseteq Int
  BY <1>1, MarkedAreObjects, HeapSize DEF Addresses
<1>4. Objects' = Objects \cup {copy}
  BY <1>1, <1>2, <1>3 DEF Objects
<1>5. forward'[original] = copy /\ forward'[copy] = copy /\ id'[copy] = id[original]
  BY <1>2, <1>3
<1>6. ASSUME NEW b \in Objects
      PROVE  /\ id'[b] = id[b] /\ forward[b] \in Objects
             /\ b # original => forward'[b] = forward[b] /\ forward[b] # original
  BY <1>1, <1>2, <1>3, ForwardIsObject
<1>7. ASSUME NEW b \in Objects' PROVE id'[b] \in 1 .. born' /\ id'[forward'[b]] = id'[b]
  <2>1. CASE b \in {original, copy}
    <3>1. id[original] \in 1 .. born'
      BY <1>1, <1>2 DEF Names
    <3> QED BY <1>1, <1>5, <1>6, <2>1, <3>1
  <2>2. CASE b \notin {original, copy}
    <3>1. b \in Objects /\ forward'[b] = forward[b] /\ forward[b] \in Objects
      BY <1>4, <1>6, <2>2
    <3>2. id'[b] = id[b] /\ id'[forward[b]] = id[forward[b]]
      BY <1>6, <3>1
    <3>3. id[b] \in 1 .. born' /\ id[forward[b]] = id[b]
      BY <1>2, <3>1 DEF Names
    <3> QED BY <3>1, <3>2, <3>3
  <2> QED BY <2>1, <2>2
<1>8. \A b, c \in Objects' : id'[b] = id'[c] => forward'[b] = forward'[c]
  <2>1. \A b \in Objects : id[b] = id[original] => b = original
    BY <1>1 DEF Names
  <2>2. \A b \in Objects' : id'[b] = id[original] => forward'[b] = copy
    BY <1>4, <1>5, <1>6, <2>1
  <2>3. \A b \in Objects' : id'[b] # id[original] => b \in Objects /\ b # original
    BY <1>1, <1>4, <1>5, <1>6
  <2>4. \A b, c \in Objects : b # original /\ c # original /\ id'[b] = id'[c]
                                 => forward'[b] = forward'[c]
    BY <1>6 DEF Names
  <2> QED BY <2>2, <2>3, <2>4
<1>9. \A b \in Objects' : forward'[b] # b => b < iterator'
  <2>1. iterator <= original
    BY <1>2 DEF CurrentObject, Lowest, Remaining
  <2> QED BY <1>2, <1>3, <1>4, <1>5, <1>6, <2>1 DEF Names
<1> QED BY <1>2, <1>7, <1>8, <1>9 DEF Names

\* What is kept at the end of a collection keeps its name, and is current.
LEMMA complete_runNames ==
    ASSUME IInv, Names, complete_run, operations' = operations
    PROVE  Names'
<1>1. /\ tag' = [a \in Addresses |-> IF a \in In(Addresses, evacuate) THEN "Free" ELSE tag[a]]
      /\ forward' = [a \in Addresses |-> IF a \in In(Addresses, evacuate) THEN a ELSE forward[a]]
      /\ id' = [a \in Addresses |-> IF a \in In(Addresses, evacuate) THEN 0 ELSE id[a]]
      /\ born' = born /\ phase' = "Pause"
  BY DEF complete_run, set_phase
<1>2. \A a \in Objects' : a \in Objects /\ Kept(a)
  BY <1>1 DEF Objects, In, Kept
<1>3. \A a \in Objects' : forward[a] = a /\ forward'[a] = a /\ id'[a] = id[a]
  BY <1>1, <1>2, MarkedAreObjects DEF IInv, Forwarding, In, Kept
<1> QED BY <1>1, <1>2, <1>3 DEF Names

\* No step makes objects share a name.
LEMMA NextNames == IInv /\ Names /\ [MCNext]_<<vars, operations>> => Names'
<1> SUFFICES ASSUME IInv, Names, [MCNext]_<<vars, operations>> PROVE Names'
  OBVIOUS
<1>1. CASE UNCHANGED <<vars, operations>>
  <2>1. UNCHANGED <<phase, tag, forward, id, born, iterator, operations>>
    BY <1>1 DEF vars, memory
  <2> QED BY <2>1, NamesKept, MaxOperationsIsBound DEF Names
<1>2. CASE (Writes \/ start_marking \/ Upgrade) /\ operations < MaxOperations
              /\ operations' = operations + 1
  <2>1. operations' \in Nat /\ operations <= operations' /\ operations' <= MaxOperations
    BY <1>2, MaxOperationsIsBound DEF Names
  <2>2. ASSUME NEW a \in Addresses \ Objects, NEW fields \in [Fields -> Held], Allocate(a, fields)
        PROVE  Names'
    BY <1>2, <2>2, AllocationNames DEF Allocate
  <2>3. ASSUME NEW a \in Addresses \ Objects, NEW target \in regs, AllocateWeakRef(a, target)
        PROVE  Names'
    BY <1>2, <2>3, AllocationNames DEF AllocateWeakRef
  <2>4. ASSUME NEW x \in regs, NEW i \in Fields, NEW v \in Held, WriteField(x, i, v)
        PROVE  Names'
    BY <2>1, <2>4, NamesKept DEF WriteField
  <2>5. ASSUME NEW r \in Roots, NEW v \in Held, WriteRoot(r, v) PROVE Names'
    BY <2>1, <2>5, NamesKept DEF WriteRoot, memory
  <2>6. CASE start_marking \/ Upgrade
    BY <2>1, <2>6, NamesKept DEF start_marking, set_phase, Upgrade, memory
  <2> QED BY <1>2, <2>2, <2>3, <2>4, <2>5, <2>6 DEF Writes
<1>3. CASE (Reads \/ EndMessage \/ Increment) /\ operations' = operations
  <2>1. operations' \in Nat /\ operations <= operations' /\ operations' <= MaxOperations
    BY <1>3 DEF Names
  <2>2. CASE Reads \/ EndMessage
    BY <2>1, <2>2, NamesKept DEF Reads, LoadRoot, LoadField, WeakGet, EndMessage, memory
  <2>3. ASSUME NEW a \in mark_stack, mark_increment(a) PROVE Names'
    BY <2>1, <2>3, NamesKept DEF mark_increment
  <2>4. CASE start_evacuating
    <3>1. Objects' = Objects /\ UNCHANGED <<forward, id, born>> /\ \A a \in Objects : forward[a] = a
      BY <2>4, Unforwarded, MarkedAreObjects DEF start_evacuating, Objects
    <3> QED BY <1>3, <3>1 DEF Names
  <2>5. ASSUME NEW original \in marked, NEW copy \in Addresses \ Objects,
               evacuation_increment(original, copy)
        PROVE  Names'
    BY <1>3, <2>5, EvacuationNames
  <2>6. CASE start_updating
    BY <2>1, <2>6, NamesKept DEF start_updating, set_phase, memory
  <2>7. ASSUME NEW a \in marked, update_increment(a) PROVE Names'
    BY <2>1, <2>7, NamesKept DEF update_increment
  <2>8. CASE complete_run
    BY <1>3, <2>8, complete_runNames
  <2> QED BY <1>3, <2>2, <2>3, <2>4, <2>5, <2>6, <2>7, <2>8 DEF Increment
<1> QED BY <1>1, <1>2, <1>3 DEF MCNext

(***************************************************************************)
(* The graph that the program sees.                                        *)
(***************************************************************************)
VisibleNames == {id[a] : a \in VisibleObjects}
NamedFields(a) == [i \in Fields |-> Name(field[a][i])]

Graphs == [root  : [Roots -> Ids \cup {NULL_POINTER}],
           regs  : SUBSET Ids,
           tag   : [Ids -> {"Free", "Array", "WeakRef"}],
           field : [Ids -> [Fields -> Ids \cup {NULL_POINTER}]],
           born  : Nat]

\* g agrees with the heap on all that the program can get at.
Shows(g) ==
    /\ g \in Graphs
    /\ g.root = [r \in Roots |-> Name(root[r])]
    /\ g.regs = {id[p] : p \in regs}
    /\ g.born = born
    /\ \A a \in VisibleObjects : g.tag[id[a]] = tag[a] /\ g.field[id[a]] = NamedFields(a)

\* What the program sees points to objects.
LEMMA VisiblePointers ==
    IInv => /\ Starts \subseteq Objects
            /\ VisibleObjects \subseteq Objects
            /\ \A a \in VisibleObjects : forward[a] = a
            /\ \A p \in Starts : forward[p] \in VisibleObjects
            /\ \A a \in VisibleObjects, i \in Fields :
                  /\ field[a][i] \in Objects \cup {NULL_POINTER}
                  /\ field[a][i] # NULL_POINTER => forward[field[a][i]] \in VisibleObjects
<1> SUFFICES ASSUME IInv
             PROVE  Starts \subseteq Objects /\ \A a \in VisibleObjects, i \in Fields :
                       field[a][i] \in Objects \cup {NULL_POINTER}
  BY VisibleAreObjects, VisibleIsClosed DEF IInv
<1>1. PICK L \in SUBSET Objects : RootTargets \cup regs \subseteq L /\ Closed(L)
  BY IInvNoDangling DEF NoDangling
<1>2. \A p \in Starts : forward[p] \in L
  BY <1>1 DEF Starts, Closed
<1> DEFINE T == {a \in L : forward[a] = a}
<1>3. \A p \in L : forward[p] \in T
  BY <1>1, ForwardIsObject DEF Closed
<1>4. ASSUME NEW a \in T \cap Addresses, NEW i \in Fields, field[a][i] # NULL_POINTER
      PROVE  forward[field[a][i]] \in T
  BY <1>1, <1>3, <1>4 DEF Closed
<1>5. \A p \in Starts : forward[p] \in T
  BY <1>1, <1>3 DEF Starts
<1>6. VisibleObjects \subseteq T
  <2> HIDE DEF T
  <2> QED BY <1>4, <1>5, VisibleIsLeast DEF IInv
<1> QED BY <1>1, <1>6 DEF Closed, Starts

\* Names of objects are ids, and current objects have different ones.
LEMMA NamesAreIds ==
    IInv /\ Names =>
        /\ \A a \in Objects : id[a] \in Ids /\ id[forward[a]] = id[a] /\ id[a] # NULL_POINTER
        /\ \A a, b \in VisibleObjects : id[a] = id[b] => a = b
        /\ born \in Nat
<1> SUFFICES ASSUME IInv, Names
             PROVE  /\ \A a \in Objects : id[a] \in Ids /\ id[forward[a]] = id[a] /\ id[a] # NULL_POINTER
                    /\ \A a, b \in VisibleObjects : id[a] = id[b] => a = b
                    /\ born \in Nat
  OBVIOUS
<1>1. born \in Nat
  BY DEF IInv, TypeOK
<1>2. \A n \in 1 .. born : n \in Ids
  BY <1>1, MaxOperationsIsBound DEF Names, Ids
<1>3. \A n \in Ids : n # NULL_POINTER
  BY GCConstants DEF Ids
<1>4. \A a, b \in VisibleObjects : id[a] = id[b] => a = b
  BY VisiblePointers DEF Names
<1> QED BY <1>1, <1>2, <1>3, <1>4 DEF Names

\* The names are finitely many.
LEMMA FiniteIds == IsFiniteSet(Ids)
  BY FS_Interval, MaxOperationsIsBound DEF Ids

\* The pointers of a graph are names.
LEMMA GraphPointers ==
    ASSUME NEW g \in Graphs
    PROVE  /\ Heap!RootsOf(g) \in SUBSET Ids
           /\ [x \in Ids |-> Heap!FieldsOf(g, x)] \in [Ids -> SUBSET Ids]
<1>1. /\ g.root \in [Roots -> Ids \cup {NULL_POINTER}] /\ g.regs \in SUBSET Ids
      /\ g.field \in [Ids -> [Fields -> Ids \cup {NULL_POINTER}]]
  BY DEF Graphs
<1>2. \A x \in Ids : Heap!FieldsOf(g, x) \in SUBSET Ids
  BY <1>1 DEF Heap!FieldsOf, Heap!Targets
<1> QED BY <1>1, <1>2 DEF Heap!RootsOf, Heap!Targets

\* What is visible in the graph is what the program can get at.
LEMMA VisibleIsShown ==
    IInv /\ Names => \A g : Shows(g) => Heap!Visible(g) = VisibleNames
<1> SUFFICES ASSUME IInv, Names, NEW g, Shows(g) PROVE Heap!Visible(g) = VisibleNames
  OBVIOUS
<1> DEFINE start == Heap!RootsOf(g)
           succ == [x \in Ids |-> Heap!FieldsOf(g, x)]
<1>1. Heap!Visible(g) = Heap!Reachable(start, succ)
  BY DEF Heap!Visible
<1>2. start \in SUBSET Ids /\ succ \in [Ids -> SUBSET Ids]
  BY GraphPointers DEF Shows
<1>3. start = {id[p] : p \in Starts}
  <2>1. /\ g.root = [r \in Roots |-> Name(root[r])] /\ g.regs = {id[p] : p \in regs}
    BY DEF Shows
  <2>2. \A r \in Roots : root[r] # NULL_POINTER => id[root[r]] # NULL_POINTER
    BY VisiblePointers, NamesAreIds DEF Starts, RootTargets, Targets
  <2>3. Heap!Targets({g.root[r] : r \in Roots}) = {id[p] : p \in RootTargets}
    BY <2>1, <2>2 DEF Heap!Targets, RootTargets, Targets, Name
  <2> QED BY <2>1, <2>3 DEF Heap!RootsOf, Starts
<1>4. ASSUME NEW a \in VisibleObjects
      PROVE  /\ id[a] \in Ids
             /\ succ[id[a]] = {id[p] : p \in Targets({field[a][i] : i \in Fields})}
  <2>1. id[a] \in Ids /\ g.field[id[a]] = NamedFields(a)
    BY VisiblePointers, NamesAreIds DEF Shows
  <2>2. \A i \in Fields : field[a][i] # NULL_POINTER => id[field[a][i]] # NULL_POINTER
    BY VisiblePointers, NamesAreIds
  <2>3. Heap!FieldsOf(g, id[a]) = {id[p] : p \in Targets({field[a][i] : i \in Fields})}
    BY <2>1, <2>2 DEF Heap!FieldsOf, Heap!Targets, NamedFields, Targets, Name
  <2> QED BY <2>1, <2>3
<1> HIDE DEF start, succ
<1> DEFINE R == Heap!Reachable(start, succ)
<1>5. /\ start \subseteq R /\ R \subseteq Ids
      /\ \A x \in R : succ[x] \subseteq R
  BY <1>2, FiniteIds, ReachableIsClosed
<1>6. \A p \in Objects : id[forward[p]] = id[p]
  BY NamesAreIds
<1>7. R \subseteq VisibleNames
  <2>1. start \subseteq VisibleNames
    BY <1>3, <1>6, VisiblePointers DEF VisibleNames
  <2>2. ASSUME NEW a \in VisibleObjects PROVE succ[id[a]] \subseteq VisibleNames
    <3> SUFFICES ASSUME NEW i \in Fields, field[a][i] # NULL_POINTER
                 PROVE  id[field[a][i]] \in VisibleNames
      BY <1>4 DEF Targets
    <3> QED BY <1>6, VisiblePointers DEF VisibleNames
  <2>3. \A x \in VisibleNames \cap Ids : succ[x] \subseteq VisibleNames
    BY <2>2 DEF VisibleNames
  <2> QED BY <1>2, <2>1, <2>3, FiniteIds, ReachableIsLeast
<1>8. VisibleNames \subseteq R
  <2> DEFINE T == {a \in VisibleObjects : id[a] \in R}
  <2>1. \A p \in Starts : forward[p] \in T
    BY <1>3, <1>5, <1>6, VisiblePointers
  <2>2. ASSUME NEW a \in T \cap Addresses, NEW i \in Fields, field[a][i] # NULL_POINTER
        PROVE  forward[field[a][i]] \in T
    <3>1. a \in VisibleObjects /\ succ[id[a]] \subseteq R
      BY <1>5
    <3>2. id[field[a][i]] \in R
      BY <1>4, <2>2, <3>1 DEF Targets
    <3> QED BY <1>6, <2>2, <3>1, <3>2, VisiblePointers
  <2>3. VisibleObjects \subseteq T
    <3> HIDE DEF T
    <3> QED BY <2>1, <2>2, VisibleIsLeast DEF IInv
  <2> QED BY <2>3 DEF VisibleNames
<1> QED BY <1>1, <1>7, <1>8

\* g has only what the program can get at.
Forgotten(g) ==
    \A x \in Ids \ VisibleNames : g.tag[x] = "Free" /\ g.field[x] = Heap!NoFields

\* GraphOf shows the heap, and nothing else.
LEMMA GraphOfShows ==
    IInv /\ Names => Shows(GraphOf(VisibleObjects)) /\ Forgotten(GraphOf(VisibleObjects))
<1> SUFFICES ASSUME IInv, Names
             PROVE  Shows(GraphOf(VisibleObjects)) /\ Forgotten(GraphOf(VisibleObjects))
  OBVIOUS
<1> DEFINE at(x) == CHOOSE a \in VisibleObjects : id[a] = x
           G == [root  |-> [r \in Roots |-> Name(root[r])],
                 regs  |-> {id[p] : p \in regs},
                 tag   |-> [x \in Ids |-> IF x \in VisibleNames THEN tag[at(x)] ELSE "Free"],
                 field |-> [x \in Ids |-> IF x \in VisibleNames THEN NamedFields(at(x)) ELSE NoFields],
                 born  |-> born]
<1>1. GraphOf(VisibleObjects) = G
  BY DEF GraphOf, VisibleNames, NamedFields
<1>2. \A a \in VisibleObjects : at(id[a]) = a /\ id[a] \in Ids /\ id[a] \in VisibleNames
  BY NamesAreIds, VisiblePointers DEF VisibleNames
<1>3. \A x \in VisibleNames : at(x) \in VisibleObjects
  BY DEF VisibleNames
<1> HIDE DEF at
<1>4. /\ \A p \in Objects \cup {NULL_POINTER} : Name(p) \in Ids \cup {NULL_POINTER}
      /\ \A p \in regs : id[p] \in Ids
      /\ \A r \in Roots : root[r] \in Objects \cup {NULL_POINTER}
  BY NamesAreIds, VisiblePointers DEF Name, Starts, RootTargets, Targets
<1>5. \A a \in VisibleObjects : NamedFields(a) \in [Fields -> Ids \cup {NULL_POINTER}]
  BY <1>4, VisiblePointers DEF NamedFields
<1>6. \A a \in VisibleObjects : tag[a] \in {"Free", "Array", "WeakRef"}
  BY VisibleIsClosed DEF IInv, TypeOK
<1>7. NoFields \in [Fields -> Ids \cup {NULL_POINTER}] /\ NoFields = Heap!NoFields
  BY DEF NoFields, Heap!NoFields
<1>8. /\ G.root \in [Roots -> Ids \cup {NULL_POINTER}]
      /\ G.regs \in SUBSET Ids
      /\ G.born \in Nat
  BY <1>4, NamesAreIds
<1>9. G.tag \in [Ids -> {"Free", "Array", "WeakRef"}]
  BY <1>3, <1>6
<1>10. G.field \in [Ids -> [Fields -> Ids \cup {NULL_POINTER}]]
  BY <1>3, <1>5, <1>7
<1>11. \A a \in VisibleObjects : G.tag[id[a]] = tag[a] /\ G.field[id[a]] = NamedFields(a)
  BY <1>2
<1>12. \A x \in Ids \ VisibleNames : G.tag[x] = "Free" /\ G.field[x] = Heap!NoFields
  BY <1>7
<1>13. G \in Graphs
  BY <1>8, <1>9, <1>10 DEF Graphs
<1>14. G.root = [r \in Roots |-> Name(root[r])] /\ G.regs = {id[p] : p \in regs} /\ G.born = born
  OBVIOUS
<1> HIDE DEF G
<1> QED BY <1>1, <1>11, <1>12, <1>13, <1>14 DEF Shows, Forgotten

\* It is the only graph that does.
LEMMA ShownIsUnique ==
    IInv /\ Names => \A g : Shows(g) /\ Forgotten(g) => g = GraphOf(VisibleObjects)
<1> SUFFICES ASSUME IInv, Names, NEW g, Shows(g), Forgotten(g)
             PROVE  g = GraphOf(VisibleObjects)
  OBVIOUS
<1>1. PICK h : h = GraphOf(VisibleObjects)
  OBVIOUS
<1>2. Shows(h) /\ Forgotten(h)
  BY <1>1, GraphOfShows
<1>3. ASSUME NEW x \in Ids PROVE g.tag[x] = h.tag[x] /\ g.field[x] = h.field[x]
  <2>1. CASE x \in VisibleNames
    BY <1>2, <2>1 DEF VisibleNames, Shows
  <2>2. CASE x \notin VisibleNames
    BY <1>2, <2>2 DEF Forgotten
  <2> QED BY <2>1, <2>2
<1>4. /\ g \in Graphs /\ h \in Graphs /\ g.root = h.root /\ g.regs = h.regs /\ g.born = h.born
  BY <1>2 DEF Shows
<1>5. g.tag = h.tag /\ g.field = h.field
  BY <1>3, <1>4 DEF Graphs
<1> QED BY <1>1, <1>4, <1>5 DEF Graphs

\* Forgetting what is inaccessible gives the graph that the program sees.
LEMMA ForgetShown ==
    IInv /\ Names => \A g : Shows(g) => Heap!Forget(g) = GraphOf(VisibleObjects)
<1> SUFFICES ASSUME IInv, Names, NEW g, Shows(g)
             PROVE  Heap!Forget(g) = GraphOf(VisibleObjects)
  OBVIOUS
<1> DEFINE h == [g EXCEPT
                   !.tag = [x \in Ids |-> IF x \in VisibleNames THEN g.tag[x] ELSE "Free"],
                   !.field = [x \in Ids |-> IF x \in VisibleNames THEN g.field[x] ELSE Heap!NoFields]]
<1>1. Heap!Forget(g) = h
  BY VisibleIsShown DEF Heap!Forget
<1>2. g \in Graphs
  BY DEF Shows
<1>3. /\ h.root = g.root /\ h.regs = g.regs /\ h.born = g.born
      /\ h.tag = [x \in Ids |-> IF x \in VisibleNames THEN g.tag[x] ELSE "Free"]
      /\ h.field = [x \in Ids |-> IF x \in VisibleNames THEN g.field[x] ELSE Heap!NoFields]
  BY <1>2 DEF Graphs
<1>4. h \in Graphs
  <2>1. Heap!NoFields \in [Fields -> Ids \cup {NULL_POINTER}]
    BY DEF Heap!NoFields
  <2> QED BY <1>2, <2>1 DEF Graphs
<1> HIDE DEF h
<1>5. \A a \in VisibleObjects : id[a] \in Ids /\ id[a] \in VisibleNames
  BY NamesAreIds, VisiblePointers DEF VisibleNames
<1>6. \A a \in VisibleObjects : h.tag[id[a]] = tag[a] /\ h.field[id[a]] = NamedFields(a)
  BY <1>3, <1>5 DEF Shows
<1>7. Shows(h)
  BY <1>3, <1>4, <1>6 DEF Shows
<1>8. Forgotten(h)
  BY <1>3 DEF Forgotten
<1> QED BY <1>1, <1>7, <1>8, GraphOfShows, ShownIsUnique

\* The same facts after a step.
LEMMA VisiblePointersNext ==
    IInv' => /\ Starts' \subseteq Objects'
             /\ VisibleObjects' \subseteq Objects'
             /\ \A a \in VisibleObjects' : forward'[a] = a
             /\ \A p \in Starts' : forward'[p] \in VisibleObjects'
             /\ \A a \in VisibleObjects', i \in Fields :
                   /\ field'[a][i] \in Objects' \cup {NULL_POINTER}
                   /\ field'[a][i] # NULL_POINTER => forward'[field'[a][i]] \in VisibleObjects'
<1>1. IInv' => (/\ Starts \subseteq Objects
                /\ VisibleObjects \subseteq Objects
                /\ \A a \in VisibleObjects : forward[a] = a
                /\ \A p \in Starts : forward[p] \in VisibleObjects
                /\ \A a \in VisibleObjects, i \in Fields :
                      /\ field[a][i] \in Objects \cup {NULL_POINTER}
                      /\ field[a][i] # NULL_POINTER => forward[field[a][i]] \in VisibleObjects)'
  BY VisiblePointers, PTL
<1> QED BY <1>1

\* The graph after a step is what the program can get at of any graph that shows the heap.
LEMMA ForgetShownNext ==
    IInv' /\ Names' => \A g : Shows(g)' => Heap!Forget(g) = GraphOf(VisibleObjects)'
<1>1. IInv' /\ Names' => (\A g : Shows(g) => Heap!Forget(g) = GraphOf(VisibleObjects))'
  BY ForgetShown, PTL
<1> QED BY <1>1

\* The graph is the one that the heap shows.
Mapped == IInv /\ Names /\ graph = GraphOf(VisibleObjects)

\* The graph shows the heap, and nothing else.
LEMMA MappedShows == Mapped => Shows(graph) /\ Forgotten(graph)
  BY GraphOfShows DEF Mapped

\* A step after which every visible object is one that was visible, with the
\* same name, tag and fields, is no step of the graph.
LEMMA SameGraph ==
    ASSUME Mapped, Mapped',
           \A r \in Roots : Name(root[r])' = Name(root[r]),
           {id'[p] : p \in regs'} = {id[p] : p \in regs},
           born' = born,
           \A b \in VisibleObjects' : \E a \in VisibleObjects :
               /\ id'[b] = id[a]
               /\ tag'[b] = tag[a]
               /\ \A i \in Fields : Name(field[b][i])' = Name(field[a][i])
    PROVE  graph' = graph
<1>1. PICK g : g = graph
  OBVIOUS
<1>2. Shows(g)
  BY <1>1, MappedShows
<1>3. ASSUME NEW b \in VisibleObjects'
      PROVE  g.tag[id'[b]] = tag'[b] /\ g.field[id'[b]] = NamedFields(b)'
  <2>1. PICK a \in VisibleObjects :
               /\ id'[b] = id[a]
               /\ tag'[b] = tag[a]
               /\ \A i \in Fields : Name(field[b][i])' = Name(field[a][i])
    OBVIOUS
  <2>2. g.tag[id[a]] = tag[a] /\ g.field[id[a]] = NamedFields(a)
    BY <1>2 DEF Shows
  <2>3. NamedFields(b)' = NamedFields(a)
    BY <2>1 DEF NamedFields
  <2> QED BY <2>1, <2>2, <2>3
<1>4. g.root = [r \in Roots |-> Name(root[r])'] /\ g.regs = {id'[p] : p \in regs'}
  BY <1>2 DEF Shows
<1>5. Shows(g)'
  BY <1>2, <1>3, <1>4 DEF Shows
<1>6. Heap!Forget(g) = GraphOf(VisibleObjects) /\ Heap!Forget(g) = GraphOf(VisibleObjects)'
  BY <1>2, <1>5, ForgetShown, ForgetShownNext DEF Mapped
<1> QED BY <1>6 DEF Mapped

\* Steps that change nothing that the program can see.
LEMMA HeapUnchanged ==
    ASSUME Mapped, Mapped', UNCHANGED <<tag, forward, field, id, born, root, regs>>
    PROVE  graph' = graph
<1>1. VisibleObjects' = VisibleObjects
  BY VisibleIsSeen DEF Starts, RootTargets
<1>2. \A p : Name(p)' = Name(p)
  BY DEF Name
<1> QED BY <1>1, <1>2, SameGraph

\* Updating the roots.
LEMMA start_updatingSame ==
    ASSUME Mapped, Mapped', start_updating
    PROVE  graph' = graph
<1>1. /\ UNCHANGED <<tag, forward, field, id, born, regs>>
      /\ root' = [r \in Roots |-> forward_if_possible(root[r])]
  BY DEF start_updating, memory
<1>2. /\ root \in [Roots -> Pointers] /\ forward \in [Addresses -> Addresses] /\ IInv /\ IInv'
  BY DEF Mapped, IInv, TypeOK
<1>3. \A r \in Roots : root[r] = NULL_POINTER \/ root[r] \in Starts
  BY DEF Starts, RootTargets, Targets
<1>4. \A p \in Starts' : \E q \in Starts : p = q \/ p = forward[q]
  BY <1>1, <1>2, <1>3 DEF Starts, RootTargets, Targets, forward_if_possible
<1>5. \A p \in Starts' : forward[p] \in VisibleObjects
  BY <1>2, <1>4, VisiblePointers, ForwardIsObject
<1>6. VisibleObjects' \subseteq VisibleObjects
  BY <1>1, <1>2, <1>5, VisiblePointers, VisibleIsLeastNext DEF IInv
<1>7. \A p : Name(p)' = Name(p)
  BY <1>1 DEF Name
<1>8. ASSUME NEW r \in Roots PROVE Name(root[r])' = Name(root[r])
  <2>1. CASE root[r] = NULL_POINTER
    BY <1>1, <2>1 DEF Name, forward_if_possible
  <2>2. CASE root[r] # NULL_POINTER
    <3>1. root[r] \in Objects /\ root'[r] = forward[root[r]]
      BY <1>1, <1>2, <1>3, <2>2, VisiblePointers DEF forward_if_possible
    <3>2. id[forward[root[r]]] = id[root[r]] /\ forward[root[r]] \in Objects
      BY <1>2, <3>1, NamesAreIds, ForwardIsObject DEF Mapped
    <3>3. forward[root[r]] # NULL_POINTER
      BY <3>2, NullIsNoAddress, MarkedAreObjects DEF Objects
    <3> QED BY <1>1, <2>2, <3>1, <3>2, <3>3 DEF Name
  <2> QED BY <2>1, <2>2
<1> QED BY <1>1, <1>6, <1>7, <1>8, SameGraph

\* A pointer and what it is forwarded to have one name.
LEMMA ForwardedName ==
    ASSUME Mapped, NEW p \in Objects
    PROVE  /\ Name(p) = id[p] /\ Name(forward[p]) = id[p]
           /\ forward[p] \in Objects /\ forward[forward[p]] = forward[p]
<1>1. p # NULL_POINTER /\ forward[p] \in Objects /\ forward[p] # NULL_POINTER
      /\ forward[forward[p]] = forward[p]
  BY ForwardIsObject, NullIsNoAddress, MarkedAreObjects DEF Mapped
<1> QED BY <1>1, NamesAreIds DEF Mapped, Name

\* Updating the fields of an object.
LEMMA update_incrementSame ==
    ASSUME Mapped, Mapped', NEW a \in marked, update_increment(a)
    PROVE  graph' = graph
<1>1. UNCHANGED <<tag, forward, id, born, root, regs>>
  BY DEF update_increment
<1>2. IInv /\ IInv' /\ TypeOK
  BY DEF Mapped, IInv
<1>3. ASSUME NEW b \in Addresses, NEW i \in Fields
      PROVE  \/ field'[b][i] = field[b][i]
             \/ field[b][i] # NULL_POINTER /\ field'[b][i] = forward[field[b][i]]
  BY <1>2 DEF update_increment, update_fields, forward_if_possible, TypeOK
<1>4. VisibleObjects \subseteq Addresses /\ VisibleObjects \subseteq Objects
  BY <1>2, VisiblePointers, MarkedAreObjects
<1>5. \A p \in Starts' : forward'[p] \in VisibleObjects
  BY <1>1, <1>2, VisiblePointers DEF Starts, RootTargets
<1>6. ASSUME NEW b \in VisibleObjects, NEW i \in Fields
      PROVE  /\ field'[b][i] # NULL_POINTER => forward'[field'[b][i]] \in VisibleObjects
             /\ Name(field[b][i])' = Name(field[b][i])
  <2>1. CASE field[b][i] = NULL_POINTER
    BY <1>1, <1>3, <1>4, <2>1 DEF Name
  <2>2. CASE field[b][i] # NULL_POINTER
    <3>1. field[b][i] \in Objects /\ forward[field[b][i]] \in VisibleObjects
      BY <1>2, <2>2, VisiblePointers
    <3>2. field'[b][i] \in {field[b][i], forward[field[b][i]]}
      BY <1>3, <1>4
    <3>3. /\ Name(field[b][i]) = id[field[b][i]] /\ Name(forward[field[b][i]]) = id[field[b][i]]
          /\ forward[forward[field[b][i]]] = forward[field[b][i]]
      BY <3>1, ForwardedName
    <3>4. Name(field'[b][i]) = id[field[b][i]] /\ Name(field[b][i])' = Name(field'[b][i])
      BY <1>1, <3>2, <3>3 DEF Name
    <3> QED BY <1>1, <3>1, <3>2, <3>3, <3>4
  <2> QED BY <2>1, <2>2
<1>7. VisibleObjects' \subseteq VisibleObjects
  BY <1>2, <1>5, <1>6, VisibleIsLeastNext DEF IInv
<1>8. \A r \in Roots : Name(root[r])' = Name(root[r])
  BY <1>1 DEF Name
<1> QED BY <1>1, <1>6, <1>7, <1>8, SameGraph

\* Copying an object.
LEMMA evacuation_incrementSame ==
    ASSUME Mapped, Mapped', NEW original \in marked, NEW copy \in Addresses \ Objects,
           evacuation_increment(original, copy)
    PROVE  graph' = graph
<1>1. IInv /\ IInv' /\ TypeOK /\ Names
  BY DEF Mapped, IInv
<1>2. /\ original \in Objects /\ forward[original] = original
      /\ \A b \in Objects : forward[b] = original => b = original
  BY <1>1, CurrentOriginal DEF evacuation_increment
<1>3. /\ tag' = [tag EXCEPT ![copy] = tag[original]]
      /\ field' = [field EXCEPT ![copy] = field[original]]
      /\ id' = [id EXCEPT ![copy] = id[original]]
      /\ forward' = [forward EXCEPT ![copy] = copy, ![original] = copy]
      /\ UNCHANGED <<born, root, regs>>
  BY DEF evacuation_increment, evacuate_object
<1>4. /\ original \in Addresses /\ Objects \subseteq Addresses /\ original # copy
      /\ VisibleObjects \subseteq Objects /\ NULL_POINTER \notin Objects
  BY <1>1, <1>2, MarkedAreObjects, VisiblePointers, NullIsNoAddress
<1> DEFINE moved(b) == IF b = original THEN copy ELSE b
           T == {moved(b) : b \in VisibleObjects}
<1>5. ASSUME NEW b \in VisibleObjects
      PROVE  tag'[moved(b)] = tag[b] /\ field'[moved(b)] = field[b] /\ id'[moved(b)] = id[b]
  <2>1. b \in Addresses /\ b # copy
    BY <1>4
  <2> QED BY <1>1, <1>3, <1>4, <2>1 DEF TypeOK
<1>6. ASSUME NEW p \in Objects
      PROVE  id'[p] = id[p] /\ forward'[p] = moved(forward[p])
  <2>1. p \in Addresses /\ p # copy /\ forward[p] \in Objects
    BY <1>1, <1>4, ForwardIsObject
  <2>2. CASE p = original
    BY <1>1, <1>2, <1>3, <1>4, <2>1, <2>2 DEF TypeOK
  <2>3. CASE p # original
    <3>1. forward[p] # original
      BY <1>2, <2>3
    <3> QED BY <1>1, <1>3, <1>4, <2>1, <2>3, <3>1 DEF TypeOK
  <2> QED BY <2>2, <2>3
<1>7. \A p \in Starts' : p \in Objects /\ forward'[p] \in T
  <2>1. Starts' = Starts
    BY <1>3 DEF Starts, RootTargets
  <2>2. \A p \in Starts : p \in Objects /\ forward[p] \in VisibleObjects
    BY <1>1, VisiblePointers
  <2> QED BY <1>6, <2>1, <2>2
<1>8. \A b \in T, i \in Fields : field'[b][i] # NULL_POINTER => forward'[field'[b][i]] \in T
  <2> SUFFICES ASSUME NEW b \in VisibleObjects, NEW i \in Fields, field[b][i] # NULL_POINTER
               PROVE  forward'[field[b][i]] \in T
    BY <1>5
  <2>1. field[b][i] \in Objects /\ forward[field[b][i]] \in VisibleObjects
    BY <1>1, VisiblePointers
  <2> QED BY <1>6, <2>1
<1>9. VisibleObjects' \subseteq T
  <2> HIDE DEF T
  <2> QED BY <1>1, <1>7, <1>8, VisibleIsLeastNext DEF IInv
<1>10. ASSUME NEW p \in Objects \cup {NULL_POINTER} PROVE Name(p)' = Name(p)
  BY <1>6 DEF Name
<1>11. \A r \in Roots : Name(root[r])' = Name(root[r])
  <2>1. \A r \in Roots : root[r] \in Objects \cup {NULL_POINTER} /\ root'[r] = root[r]
    BY <1>1, <1>3, VisiblePointers DEF Starts, RootTargets, Targets
  <2> QED BY <1>10, <2>1 DEF Name
<1>12. {id'[p] : p \in regs'} = {id[p] : p \in regs}
  <2>1. regs' = regs /\ \A p \in regs : id'[p] = id[p]
    BY <1>1, <1>3, <1>6, VisiblePointers DEF Starts
  <2> QED BY <2>1
<1>13. ASSUME NEW c \in VisibleObjects'
       PROVE  \E b \in VisibleObjects :
                 /\ id'[c] = id[b]
                 /\ tag'[c] = tag[b]
                 /\ \A i \in Fields : Name(field[c][i])' = Name(field[b][i])
  <2>1. PICK b \in VisibleObjects : c = moved(b)
    BY <1>9
  <2>2. id'[c] = id[b] /\ tag'[c] = tag[b] /\ field'[c] = field[b]
    BY <1>5, <2>1
  <2>3. ASSUME NEW i \in Fields PROVE Name(field[c][i])' = Name(field[b][i])
    <3>1. field[b][i] \in Objects \cup {NULL_POINTER}
      BY <1>1, VisiblePointers
    <3> QED BY <1>10, <2>2, <3>1 DEF Name
  <2> QED BY <2>2, <2>3
<1>14. born' = born
  BY <1>3
<1> HIDE DEF T, moved
<1> QED BY <1>11, <1>12, <1>13, <1>14, SameGraph

\* Freeing the evacuated partitions.
LEMMA complete_runSame ==
    ASSUME Mapped, Mapped', complete_run
    PROVE  graph' = graph
<1>1. IInv /\ IInv' /\ TypeOK
  BY DEF Mapped, IInv
<1>2. /\ tag' = [a \in Addresses |-> IF a \in In(Addresses, evacuate) THEN "Free" ELSE tag[a]]
      /\ forward' = [a \in Addresses |-> IF a \in In(Addresses, evacuate) THEN a ELSE forward[a]]
      /\ field' = [a \in Addresses |-> IF a \in In(Addresses, evacuate) THEN NoFields ELSE field[a]]
      /\ id' = [a \in Addresses |-> IF a \in In(Addresses, evacuate) THEN 0 ELSE id[a]]
      /\ UNCHANGED <<born, root, regs>>
  BY DEF complete_run
<1>3. ASSUME NEW a \in Objects'
      PROVE  /\ a \in Objects /\ forward[a] = a
             /\ tag'[a] = tag[a] /\ field'[a] = field[a] /\ id'[a] = id[a]
  <2>1. a \in Addresses /\ a \in Objects /\ Kept(a) /\ a \notin In(Addresses, evacuate)
    BY <1>2 DEF Objects, In, Kept
  <2> QED BY <1>1, <1>2, <2>1 DEF IInv, Forwarding
<1>4. \A a \in Objects : forward'[a] = a
  BY <1>1, <1>2, MarkedAreObjects DEF IInv, Forwarding, In, Kept
<1>5. Starts' = Starts /\ Starts \subseteq Objects
  BY <1>1, <1>2, VisiblePointers DEF Starts, RootTargets
<1>6. \A p \in Starts' : forward'[p] \in VisibleObjects \cap VisibleObjects' /\ p \in Objects'
  BY <1>1, <1>3, <1>4, <1>5, VisiblePointers, VisiblePointersNext
<1>7. ASSUME NEW b \in VisibleObjects \cap VisibleObjects', NEW i \in Fields,
             field'[b][i] # NULL_POINTER
      PROVE  forward'[field'[b][i]] \in VisibleObjects \cap VisibleObjects'
  <2>1. b \in Objects' /\ field'[b][i] = field[b][i]
    BY <1>1, <1>3, VisiblePointersNext
  <2>2. /\ field[b][i] \in Objects /\ forward[field[b][i]] \in VisibleObjects
        /\ forward'[field'[b][i]] \in VisibleObjects'
    BY <1>1, <1>7, <2>1, VisiblePointers, VisiblePointersNext
  <2>3. forward'[field'[b][i]] = field[b][i]
    BY <1>4, <2>1, <2>2
  <2>4. field[b][i] \in Objects'
    BY <1>1, <2>2, <2>3, VisiblePointersNext
  <2> QED BY <1>3, <2>2, <2>3, <2>4
<1>8. VisibleObjects' \subseteq VisibleObjects
  <2>1. PICK T : T = VisibleObjects \cap VisibleObjects'
    OBVIOUS
  <2>2. VisibleObjects' \subseteq T
    <3>1. TypeOK' /\ \A p \in Starts' : forward'[p] \in T
      BY <1>1, <1>6, <2>1 DEF IInv
    <3>2. \A b \in T \cap Addresses, i \in Fields :
             field'[b][i] # NULL_POINTER => forward'[field'[b][i]] \in T
      BY <1>7, <2>1
    <3> QED BY <3>1, <3>2, VisibleIsLeastNext
  <2> QED BY <2>1, <2>2
<1>9. ASSUME NEW p \in Objects' \cup {NULL_POINTER} PROVE Name(p)' = Name(p)
  BY <1>3 DEF Name
<1>10. ASSUME NEW r \in Roots PROVE Name(root[r])' = Name(root[r])
  <2>1. root'[r] = root[r] /\ root[r] \in Objects' \cup {NULL_POINTER}
    BY <1>2, <1>5, <1>6 DEF Starts, RootTargets, Targets
  <2> QED BY <1>9, <2>1 DEF Name
<1>11. {id'[p] : p \in regs'} = {id[p] : p \in regs}
  <2>1. regs' = regs /\ \A p \in regs : id'[p] = id[p]
    BY <1>2, <1>3, <1>5, <1>6 DEF Starts
  <2> QED BY <2>1
<1>12. ASSUME NEW b \in VisibleObjects'
       PROVE  /\ b \in VisibleObjects /\ id'[b] = id[b] /\ tag'[b] = tag[b]
              /\ \A i \in Fields : Name(field[b][i])' = Name(field[b][i])
  <2>1. b \in VisibleObjects /\ b \in Objects' /\ field'[b] = field[b]
    BY <1>1, <1>3, <1>8, VisiblePointersNext
  <2>2. ASSUME NEW i \in Fields PROVE Name(field[b][i])' = Name(field[b][i])
    <3>1. field'[b][i] \in Objects' \cup {NULL_POINTER}
      BY <1>1, VisiblePointersNext
    <3>2. field[b][i] \in Objects' \cup {NULL_POINTER}
      BY <2>1, <3>1
    <3> QED BY <1>9, <2>1, <3>2 DEF Name
  <2> QED BY <1>3, <2>1, <2>2
<1> QED BY <1>2, <1>10, <1>11, <1>12, SameGraph

(***************************************************************************)
(* The mutator's steps.                                                    *)
(***************************************************************************)
\* A step that hides objects or changes a pointer: the graph is what is left of
\* one that shows the heap.
LEMMA ForgetStep ==
    ASSUME Mapped, Mapped', NEW g, Shows(g)'
    PROVE  graph' = Heap!Forget(g)
  BY ForgetShownNext DEF Mapped

\* A step after which g shows the heap and nothing else gives g.
LEMMA ExactStep ==
    ASSUME Mapped, Mapped', NEW h, Shows(h)', Forgotten(h)'
    PROVE  graph' = h
<1>1. IInv' /\ Names' => (\A g : Shows(g) /\ Forgotten(g) => g = GraphOf(VisibleObjects))'
  BY ShownIsUnique, PTL
<1> QED BY <1>1 DEF Mapped

\* A message ends.
LEMMA EndMessageStep ==
    ASSUME Mapped, Mapped', EndMessage
    PROVE  Heap!EndMessage(graph, graph')
<1>1. UNCHANGED <<tag, forward, field, id, born, root>> /\ regs' = {} /\ IInv /\ IInv'
  BY DEF EndMessage, memory, Mapped
<1>2. VisibleObjects' \subseteq VisibleObjects
  <2>1. Starts' \subseteq Starts
    BY <1>1 DEF Starts, RootTargets
  <2> QED BY <1>1, <2>1, VisiblePointers, VisibleIsLeastNext DEF IInv
<1>3. PICK g : g = [graph EXCEPT !.regs = {}]
  OBVIOUS
<1>4. Shows(graph)
  BY MappedShows
<1>5. /\ g \in Graphs /\ g.root = graph.root /\ g.regs = {} /\ g.tag = graph.tag
      /\ g.field = graph.field /\ g.born = graph.born
  BY <1>3, <1>4 DEF Shows, Graphs
<1>6. \A a \in VisibleObjects' : g.tag[id'[a]] = tag'[a] /\ g.field[id'[a]] = NamedFields(a)'
  BY <1>1, <1>2, <1>4, <1>5 DEF Shows, NamedFields, Name
<1>7. g.root = [r \in Roots |-> Name(root[r])'] /\ g.regs = {id'[p] : p \in regs'} /\ g.born = born'
  BY <1>1, <1>4, <1>5 DEF Shows, Name
<1>8. Shows(g)'
  BY <1>5, <1>6, <1>7 DEF Shows
<1> QED BY <1>3, <1>8, ForgetStep DEF Heap!EndMessage

\* An upgrade clears the transient roots.
LEMMA UpgradeStep ==
    ASSUME Mapped, Mapped', Upgrade
    PROVE  Heap!Upgrade(graph, graph')
<1>1. /\ UNCHANGED <<tag, forward, field, id, born, regs>> /\ IInv /\ IInv'
      /\ root' = [r \in Roots |-> IF r \in TransientRoots THEN NULL_POINTER ELSE root[r]]
  BY DEF Upgrade, memory, Mapped
<1>2. VisibleObjects' \subseteq VisibleObjects
  <2>1. Starts' \subseteq Starts
    BY <1>1 DEF Starts, RootTargets, Targets
  <2> QED BY <1>1, <2>1, VisiblePointers, VisibleIsLeastNext DEF IInv
<1>3. PICK g : g = [graph EXCEPT !.root =
                       [r \in Roots |-> IF r \in TransientRoots THEN NULL_POINTER ELSE graph.root[r]]]
  OBVIOUS
<1>4. Shows(graph)
  BY MappedShows
<1>5. /\ g \in Graphs /\ g.regs = graph.regs /\ g.tag = graph.tag
      /\ g.field = graph.field /\ g.born = graph.born
      /\ g.root = [r \in Roots |-> IF r \in TransientRoots THEN NULL_POINTER ELSE graph.root[r]]
  BY <1>3, <1>4 DEF Shows, Graphs
<1>6. \A a \in VisibleObjects' : g.tag[id'[a]] = tag'[a] /\ g.field[id'[a]] = NamedFields(a)'
  BY <1>1, <1>2, <1>4, <1>5 DEF Shows, NamedFields, Name
<1>7. g.root = [r \in Roots |-> Name(root[r])'] /\ g.regs = {id'[p] : p \in regs'} /\ g.born = born'
  BY <1>1, <1>4, <1>5 DEF Shows, Name
<1>8. Shows(g)'
  BY <1>5, <1>6, <1>7 DEF Shows
<1> QED BY <1>3, <1>8, ForgetStep DEF Heap!Upgrade

\* The graph's object for a pointer that the message holds.
LEMMA HeldObject ==
    ASSUME Mapped, NEW x \in regs
    PROVE  /\ x \in Objects /\ forward[x] \in VisibleObjects
           /\ id[x] \in graph.regs /\ id[x] \in Ids /\ id[forward[x]] = id[x]
           /\ graph.tag[id[x]] = tag[forward[x]]
           /\ graph.field[id[x]] = NamedFields(forward[x])
<1>1. IInv /\ Names /\ x \in Starts /\ Shows(graph)
  BY MappedShows DEF Mapped, Starts
<1>2. x \in Objects /\ forward[x] \in VisibleObjects
  BY <1>1, VisiblePointers
<1>3. id[forward[x]] = id[x] /\ id[x] \in Ids
  BY <1>1, <1>2, NamesAreIds
<1> QED BY <1>1, <1>2, <1>3 DEF Shows

\* A message gets hold of an object that it can get at.
LEMMA LoadStep ==
    ASSUME Mapped, Mapped', NEW v \in Objects, regs' = regs \cup {v},
           UNCHANGED <<tag, forward, field, id, born, root>>,
           \/ v \in {root[r] : r \in Roots}
           \/ \E x \in regs, i \in Fields : v = field[forward[x]][i]
    PROVE  Heap!Load(graph, graph')
<1>1. IInv /\ IInv' /\ Names /\ TypeOK /\ Shows(graph)
  BY MappedShows DEF Mapped, IInv
<1>2. v # NULL_POINTER /\ id[v] # NULL_POINTER /\ id[forward[v]] = id[v] /\ Name(v) = id[v]
  BY <1>1, NullIsNoAddress, MarkedAreObjects, NamesAreIds DEF Name
<1>3. forward[v] \in VisibleObjects
  <2>1. CASE v \in {root[r] : r \in Roots}
    <3>1. v \in Starts
      BY <1>2, <2>1 DEF Starts, RootTargets, Targets
    <3> QED BY <1>1, <3>1, VisiblePointers
  <2>2. CASE \E x \in regs, i \in Fields : v = field[forward[x]][i]
    BY <1>1, <1>2, <2>2, HeldObject, VisiblePointers
  <2> QED BY <2>1, <2>2
<1>4. \A p \in Starts' : forward'[p] \in VisibleObjects
  BY <1>1, <1>3, VisiblePointers DEF Starts, RootTargets
<1>5. VisibleObjects' \subseteq VisibleObjects
  BY <1>1, <1>4, VisiblePointers, VisibleIsLeastNext DEF IInv
<1>6. VisibleObjects \subseteq VisibleObjects'
  <2>1. PICK T : T = VisibleObjects'
    OBVIOUS
  <2>2. \A p \in Starts : forward[p] \in T
    BY <1>1, <2>1, VisiblePointersNext DEF Starts, RootTargets
  <2>3. \A a \in T \cap Addresses, i \in Fields : field[a][i] # NULL_POINTER => forward[field[a][i]] \in T
    BY <1>1, <2>1, VisiblePointersNext
  <2> QED BY <1>1, <2>1, <2>2, <2>3, VisibleIsLeast
<1>7. graph = GraphOf(VisibleObjects) /\ graph' = GraphOf(VisibleObjects)'
  BY DEF Mapped
<1>8. graph' = [graph EXCEPT !.regs = graph.regs \cup {id[v]}]
  <2>1. VisibleObjects' = VisibleObjects /\ VisibleNames' = VisibleNames
    BY <1>5, <1>6 DEF VisibleNames
  <2>2. PICK g : g = [graph EXCEPT !.regs = graph.regs \cup {id[v]}]
    OBVIOUS
  <2>3. id[v] \in Ids
    BY <1>1, NamesAreIds
  <2>4. /\ g \in Graphs /\ g.root = graph.root /\ g.tag = graph.tag /\ g.field = graph.field
        /\ g.born = graph.born /\ g.regs = {id[p] : p \in regs} \cup {id[v]}
    BY <1>1, <2>2, <2>3 DEF Shows, Graphs
  <2>5. g.regs = {id'[p] : p \in regs'}
    BY <2>4
  <2>6. g.root = [r \in Roots |-> Name(root[r])'] /\ g.born = born'
    BY <1>1, <2>4 DEF Shows, Name
  <2>7. \A a \in VisibleObjects' : g.tag[id'[a]] = tag'[a] /\ g.field[id'[a]] = NamedFields(a)'
    BY <1>1, <2>1, <2>4 DEF Shows, NamedFields, Name
  <2>8. Shows(g)'
    BY <2>4, <2>5, <2>6, <2>7 DEF Shows
  <2>9. Forgotten(g)'
    BY <2>1, <2>4, MappedShows DEF Forgotten
  <2> QED BY <2>2, <2>8, <2>9, ExactStep
<1>9. id[v] \in Heap!Visible(graph)
  <2>1. id[v] \in VisibleNames
    BY <1>2, <1>3 DEF VisibleNames
  <2> QED BY <1>1, <2>1, VisibleIsShown
<1>10. id[v] \in {graph.root[r] : r \in Roots}
           \/ id[v] \in UNION {Heap!FieldsOf(graph, y) : y \in graph.regs}
  <2>1. CASE v \in {root[r] : r \in Roots}
    BY <1>1, <1>2, <2>1 DEF Shows, Name
  <2>2. ASSUME NEW x \in regs, NEW i \in Fields, v = field[forward[x]][i]
        PROVE  id[v] \in UNION {Heap!FieldsOf(graph, y) : y \in graph.regs}
    <3>1. id[x] \in graph.regs /\ graph.field[id[x]] = NamedFields(forward[x])
      BY HeldObject
    <3>2. graph.field[id[x]][i] = id[v]
      BY <1>2, <2>2, <3>1 DEF NamedFields
    <3>3. id[v] \in Heap!FieldsOf(graph, id[x])
      BY <1>2, <3>2 DEF Heap!FieldsOf, Heap!Targets
    <3> QED BY <3>1, <3>3
  <2> QED BY <2>1, <2>2
<1> QED BY <1>8, <1>9, <1>10 DEF Heap!Load

\* Reading a root or a field, and getting the target of a weak reference.
LEMMA ReadsStep == ASSUME Mapped, Mapped', Reads PROVE Heap!Load(graph, graph')
<1>1. UNCHANGED <<tag, forward, field, id, born, root>> /\ IInv
  BY DEF Reads, LoadRoot, LoadField, WeakGet, memory, Mapped
<1>2. ASSUME NEW r \in Roots, LoadRoot(r) PROVE Heap!Load(graph, graph')
  <2>1. root[r] \in Objects /\ regs' = regs \cup {root[r]}
    BY <1>1, <1>2, VisiblePointers DEF LoadRoot, Starts, RootTargets, Targets
  <2> QED BY <1>1, <2>1, LoadStep
<1>3. ASSUME NEW x \in regs, NEW i \in Fields, LoadField(x, i) \/ (i = 1 /\ WeakGet(x))
      PROVE  Heap!Load(graph, graph')
  <2>1. field[forward[x]][i] # NULL_POINTER /\ regs' = regs \cup {field[forward[x]][i]}
    BY <1>3 DEF LoadField, WeakGet
  <2>2. field[forward[x]][i] \in Objects
    BY <1>1, <2>1, HeldObject, VisiblePointers
  <2> QED BY <1>1, <2>1, <2>2, LoadStep
<1> QED BY <1>2, <1>3, FirstField DEF Reads

\* What a message stores has one name before and after it is resolved.
LEMMA StoredName ==
    ASSUME Mapped, NEW v \in Held, NEW w, w \in {v, forward_if_possible(v)}
    PROVE  /\ Name(w) = Name(v) /\ Name(v) \in Heap!Held(graph) /\ Name(v) \in Ids \cup {NULL_POINTER}
           /\ w # NULL_POINTER => forward[w] \in VisibleObjects
<1>1. CASE v = NULL_POINTER
  BY <1>1 DEF Name, forward_if_possible, Heap!Held
<1>2. CASE v # NULL_POINTER
  <2>1. /\ v \in Objects /\ forward[v] \in VisibleObjects
        /\ id[v] \in graph.regs /\ id[v] \in Ids
    BY <1>2, HeldObject DEF Held
  <2>2. /\ Name(v) = id[v] /\ Name(forward[v]) = id[v] /\ forward[forward[v]] = forward[v]
    BY <2>1, ForwardedName
  <2> QED BY <1>2, <2>1, <2>2 DEF forward_if_possible, Heap!Held
<1> QED BY <1>1, <1>2

\* A field is written.
LEMMA WriteFieldStep ==
    ASSUME Mapped, Mapped', NEW x \in regs, NEW i \in Fields, NEW v \in Held, WriteField(x, i, v)
    PROVE  Heap!Write(graph, graph')
<1> DEFINE object == forward[x]
<1>1. PICK w \in {v, forward_if_possible(v)} :
          field' = [field EXCEPT ![object] = [field[object] EXCEPT ![i] = w]]
  BY DEF WriteField
<1>2. UNCHANGED <<tag, forward, id, born, root, regs>> /\ tag[object] = "Array"
  BY DEF WriteField
<1>3. IInv /\ IInv' /\ Names /\ TypeOK /\ Shows(graph)
  BY MappedShows DEF Mapped, IInv
<1>4. /\ Name(w) = Name(v) /\ Name(v) \in Heap!Held(graph) /\ Name(v) \in Ids \cup {NULL_POINTER}
      /\ w # NULL_POINTER => forward[w] \in VisibleObjects
  BY StoredName
<1>5. /\ object \in VisibleObjects /\ id[x] \in graph.regs /\ id[x] \in Ids /\ id[object] = id[x]
      /\ graph.tag[id[x]] = "Array" /\ graph.field[id[x]] = NamedFields(object)
  BY <1>2, HeldObject
<1>6. VisibleObjects \subseteq Addresses
  BY <1>3, VisiblePointers, MarkedAreObjects
<1>7. /\ \A a \in VisibleObjects \ {object} : field'[a] = field[a]
      /\ field'[object] = [field[object] EXCEPT ![i] = w]
      /\ field[object] \in [Fields -> Pointers]
  BY <1>1, <1>3, <1>5, <1>6 DEF TypeOK
<1> HIDE DEF object
<1>8. \A a \in VisibleObjects, j \in Fields : field'[a][j] = field[a][j] \/ field'[a][j] = w
  BY <1>7
<1>9. VisibleObjects' \subseteq VisibleObjects
  <2>1. \A p \in Starts' : forward'[p] \in VisibleObjects
    BY <1>2, <1>3, VisiblePointers DEF Starts, RootTargets
  <2>2. \A a \in VisibleObjects, j \in Fields :
           field'[a][j] # NULL_POINTER => forward'[field'[a][j]] \in VisibleObjects
    BY <1>2, <1>3, <1>4, <1>8, VisiblePointers
  <2> QED BY <1>3, <2>1, <2>2, VisibleIsLeastNext DEF IInv
<1>10. PICK g : g = [graph EXCEPT !.field[id[x]][i] = Name(v)]
  OBVIOUS
<1>11. graph \in Graphs
  BY <1>3 DEF Shows
<1>12. /\ g.root = graph.root /\ g.regs = graph.regs /\ g.tag = graph.tag /\ g.born = graph.born
       /\ g.field = [graph.field EXCEPT ![id[x]] = [graph.field[id[x]] EXCEPT ![i] = Name(v)]]
       /\ g = [graph EXCEPT !.field = g.field]
  BY <1>10, <1>11 DEF Graphs
<1>13. graph.field \in [Ids -> [Fields -> Ids \cup {NULL_POINTER}]]
  BY <1>11 DEF Graphs
<1>14. g.field \in [Ids -> [Fields -> Ids \cup {NULL_POINTER}]]
  BY <1>4, <1>5, <1>12, <1>13
<1>15. g \in Graphs
  BY <1>11, <1>12, <1>14 DEF Graphs
<1>16. ASSUME NEW a \in VisibleObjects
       PROVE  g.tag[id[a]] = tag[a] /\ g.field[id[a]] = NamedFields(a)'
  <2>1. graph.tag[id[a]] = tag[a] /\ graph.field[id[a]] = NamedFields(a) /\ id[a] \in Ids
    BY <1>3, NamesAreIds, VisiblePointers DEF Shows
  <2>2. CASE a = object
    <3>1. g.field[id[a]] = [NamedFields(a) EXCEPT ![i] = Name(v)]
      BY <1>5, <1>12, <1>13, <2>1, <2>2
    <3>2. ASSUME NEW j \in Fields PROVE Name(field[a][j])' = IF j = i THEN Name(v) ELSE Name(field[a][j])
      <4>1. field'[a][j] = IF j = i THEN w ELSE field[a][j]
        BY <1>7, <2>2
      <4> QED BY <1>2, <1>4, <4>1 DEF Name
    <3> QED BY <2>1, <1>12, <3>1, <3>2 DEF NamedFields
  <2>3. CASE a # object
    <3>1. id[a] # id[x]
      BY <1>3, <1>5, <2>3, NamesAreIds
    <3>2. g.field[id[a]] = NamedFields(a)
      BY <1>12, <1>13, <2>1, <3>1
    <3>3. NamedFields(a)' = NamedFields(a)
      BY <1>2, <1>7, <2>3 DEF NamedFields, Name
    <3> QED BY <1>12, <2>1, <3>2, <3>3
  <2> QED BY <2>2, <2>3
<1>17. \A a \in VisibleObjects' : g.tag[id'[a]] = tag'[a] /\ g.field[id'[a]] = NamedFields(a)'
  BY <1>2, <1>9, <1>16
<1>18. g.root = [r \in Roots |-> Name(root[r])'] /\ g.regs = {id'[p] : p \in regs'} /\ g.born = born'
  BY <1>2, <1>3, <1>12 DEF Shows, Name
<1>19. Shows(g)'
  BY <1>15, <1>17, <1>18 DEF Shows
<1>20. graph' = Heap!Forget([graph EXCEPT !.field[id[x]][i] = Name(v)])
  BY <1>10, <1>19, ForgetStep
<1> QED BY <1>4, <1>5, <1>20 DEF Heap!Write

\* A root is written.
LEMMA WriteRootStep ==
    ASSUME Mapped, Mapped', NEW r \in Roots, NEW v \in Held, WriteRoot(r, v)
    PROVE  Heap!Write(graph, graph')
<1> DEFINE w == forward_if_possible(v)
<1>1. /\ UNCHANGED <<tag, forward, field, id, born, regs>>
      /\ root' = [root EXCEPT ![r] = w]
  BY DEF WriteRoot, memory
<1>2. IInv /\ IInv' /\ Names /\ root \in [Roots -> Pointers] /\ Shows(graph) /\ graph \in Graphs
  BY MappedShows DEF Mapped, IInv, TypeOK, Shows
<1>3. /\ Name(w) = Name(v) /\ Name(v) \in Heap!Held(graph) /\ Name(v) \in Ids \cup {NULL_POINTER}
      /\ w # NULL_POINTER => forward[w] \in VisibleObjects
  BY StoredName
<1> HIDE DEF w
<1>4. \A p \in Starts' : p \in Starts \/ (p = w /\ w # NULL_POINTER)
  BY <1>1, <1>2 DEF Starts, RootTargets, Targets
<1>5. VisibleObjects' \subseteq VisibleObjects
  BY <1>1, <1>2, <1>3, <1>4, VisiblePointers, VisibleIsLeastNext DEF IInv
<1>6. PICK g : g = [graph EXCEPT !.root[r] = Name(v)]
  OBVIOUS
<1>7. /\ g \in Graphs /\ g.regs = graph.regs /\ g.tag = graph.tag /\ g.field = graph.field
      /\ g.born = graph.born /\ g.root = [graph.root EXCEPT ![r] = Name(v)]
  BY <1>2, <1>3, <1>6 DEF Graphs
<1>8. \A a \in VisibleObjects' : g.tag[id'[a]] = tag'[a] /\ g.field[id'[a]] = NamedFields(a)'
  BY <1>1, <1>2, <1>5, <1>7 DEF Shows, NamedFields, Name
<1>9. g.root = [q \in Roots |-> Name(root[q])']
  <2>1. graph.root = [q \in Roots |-> Name(root[q])]
    BY <1>2 DEF Shows
  <2>2. ASSUME NEW q \in Roots PROVE Name(root[q])' = IF q = r THEN Name(v) ELSE Name(root[q])
    <3>1. root'[q] = IF q = r THEN w ELSE root[q]
      BY <1>1, <1>2
    <3> QED BY <1>1, <1>3, <3>1 DEF Name
  <2> QED BY <1>7, <2>1, <2>2
<1>10. g.regs = {id'[p] : p \in regs'} /\ g.born = born'
  BY <1>1, <1>2, <1>7 DEF Shows
<1>11. Shows(g)'
  BY <1>7, <1>8, <1>9, <1>10 DEF Shows
<1>12. graph' = Heap!Forget([graph EXCEPT !.root[r] = Name(v)])
  BY <1>6, <1>11, ForgetStep
<1> QED BY <1>3, <1>12 DEF Heap!Write

\* An object is allocated: it has the next name, and the fields that the message
\* stores, whether they are resolved or not.
LEMMA AllocationStep ==
    ASSUME Mapped, Mapped', NEW a \in Addresses \ Objects, NEW t \in {"Array", "WeakRef"},
           NEW fields \in [Fields -> Held], NEW stored \in [Fields -> Pointers],
           \A i \in Fields : stored[i] \in {fields[i], forward_if_possible(fields[i])},
           t = "WeakRef" => \E target \in regs : fields = [NoFields EXCEPT ![1] = target],
           new_object(a, t, stored), UNCHANGED <<forward, root>>
    PROVE  Heap!Allocate(graph, graph')
<1>1. IInv /\ IInv' /\ Names /\ TypeOK /\ Shows(graph) /\ Forgotten(graph) /\ graph \in Graphs
  BY MappedShows DEF Mapped, IInv, Shows
<1>2. /\ tag' = [tag EXCEPT ![a] = t] /\ field' = [field EXCEPT ![a] = stored]
      /\ id' = [id EXCEPT ![a] = born + 1] /\ born' = born + 1 /\ regs' = regs \cup {a}
      /\ born \in Nat /\ a \in Addresses /\ a \notin Objects /\ NULL_POINTER \notin Addresses
  BY <1>1, NullIsNoAddress DEF new_object, TypeOK
<1>3. /\ tag'[a] = t /\ field'[a] = stored /\ id'[a] = born + 1
      /\ \A b \in Addresses \ {a} : tag'[b] = tag[b] /\ field'[b] = field[b] /\ id'[b] = id[b]
  BY <1>1, <1>2 DEF TypeOK
<1>4. Objects \subseteq Addresses /\ VisibleObjects \subseteq Objects /\ Starts \subseteq Objects
      /\ forward[a] = a
  BY <1>1, VisiblePointers, MarkedAreObjects DEF IInv, Structure
<1>5. ASSUME NEW i \in Fields
      PROVE  /\ Name(stored[i]) = Name(fields[i]) /\ Name(fields[i]) \in Heap!Held(graph)
             /\ Name(fields[i]) \in Ids \cup {NULL_POINTER}
             /\ stored[i] # NULL_POINTER => forward[stored[i]] \in VisibleObjects
             /\ stored[i] \in Objects \cup {NULL_POINTER}
  <2>1. fields[i] \in Held /\ stored[i] \in {fields[i], forward_if_possible(fields[i])}
    OBVIOUS
  <2>2. fields[i] \in Objects \cup {NULL_POINTER}
    BY <1>4, <2>1 DEF Held, Starts
  <2>3. stored[i] \in Objects \cup {NULL_POINTER}
    BY <1>1, <2>1, <2>2, ForwardIsObject DEF forward_if_possible
  <2> QED BY <2>1, <2>3, StoredName
<1>6. Starts' = Starts \cup {a}
  BY <1>2 DEF Starts, RootTargets
<1>7. VisibleObjects' \subseteq VisibleObjects \cup {a}
  <2>1. \A p \in Starts' : forward'[p] \in VisibleObjects \cup {a}
    BY <1>1, <1>4, <1>6, VisiblePointers
  <2>2. \A b \in VisibleObjects \cup {a}, i \in Fields :
           field'[b][i] # NULL_POINTER => forward'[field'[b][i]] \in VisibleObjects \cup {a}
    BY <1>1, <1>2, <1>3, <1>4, <1>5, VisiblePointers
  <2> QED BY <1>1, <2>1, <2>2, VisibleIsLeastNext DEF IInv
<1>8. VisibleObjects \cup {a} \subseteq VisibleObjects'
  <2>1. PICK T : T = VisibleObjects'
    OBVIOUS
  <2>2. \A p \in Starts : forward[p] \in T
    BY <1>1, <1>6, <2>1, VisiblePointersNext
  <2>3. \A b \in T \cap Addresses, i \in Fields : field[b][i] # NULL_POINTER => forward[field[b][i]] \in T
    <3> SUFFICES ASSUME NEW b \in T \cap Addresses, NEW i \in Fields, field[b][i] # NULL_POINTER
                 PROVE  forward[field[b][i]] \in T
      OBVIOUS
    <3>1. b # a
      BY <1>1, <1>2 DEF IInv, Structure, NoFields
    <3>2. field'[b][i] = field[b][i]
      BY <1>3, <3>1
    <3> QED BY <1>1, <2>1, <3>2, VisiblePointersNext
  <2>4. a \in T
    BY <1>1, <1>4, <1>6, <2>1, VisiblePointersNext
  <2> QED BY <1>1, <2>1, <2>2, <2>3, <2>4, VisibleIsLeast
<1>9. VisibleObjects' = VisibleObjects \cup {a}
  BY <1>7, <1>8
<1>10. /\ \A b \in VisibleObjects : b \in Addresses /\ b # a /\ id'[b] = id[b]
       /\ \A p \in Objects \cup {NULL_POINTER} : Name(p)' = Name(p)
  BY <1>2, <1>3, <1>4 DEF Name
<1>11. VisibleNames' = VisibleNames \cup {born + 1}
  <2>1. VisibleNames' = {id'[b] : b \in VisibleObjects \cup {a}}
    BY <1>9 DEF VisibleNames
  <2> QED BY <1>3, <1>10, <2>1 DEF VisibleNames
<1> DEFINE x == born + 1
           N == [i \in Fields |-> Name(fields[i])]
<1>12. x \in Ids
  <2>1. x \in Nat /\ x <= MaxOperations /\ x >= 1
    BY <1>2, MaxOperationsIsBound DEF Mapped, Names
  <2> QED BY <2>1, MaxOperationsIsBound DEF Ids
<1>13. N \in [Fields -> Ids \cup {NULL_POINTER}] /\ N \in [Fields -> Heap!Held(graph)]
  BY <1>5
<1>14. PICK g : g = [graph EXCEPT !.regs = graph.regs \cup {x}, !.tag[x] = t, !.field[x] = N, !.born = x]
  OBVIOUS
<1>15. /\ graph.tag \in [Ids -> {"Free", "Array", "WeakRef"}]
       /\ graph.field \in [Ids -> [Fields -> Ids \cup {NULL_POINTER}]]
       /\ graph.regs \in SUBSET Ids /\ graph.born = born
       /\ graph.root = [r \in Roots |-> Name(root[r])] /\ graph.regs = {id[p] : p \in regs}
  BY <1>1 DEF Shows, Graphs
<1> HIDE DEF x, N
<1>16. /\ g.root = graph.root /\ g.regs = graph.regs \cup {x} /\ g.born = x
       /\ g.tag = [graph.tag EXCEPT ![x] = t] /\ g.field = [graph.field EXCEPT ![x] = N]
  BY <1>1, <1>14 DEF Graphs
<1>17. /\ g.tag \in [Ids -> {"Free", "Array", "WeakRef"}]
       /\ g.field \in [Ids -> [Fields -> Ids \cup {NULL_POINTER}]]
       /\ g.regs \in SUBSET Ids
  BY <1>12, <1>13, <1>15, <1>16
<1>18. g \in Graphs
  <2>1. x \in Nat
    BY <1>2 DEF x
  <2> QED BY <1>1, <1>14, <1>16, <1>17, <2>1 DEF Graphs
<1>19. g.root = [r \in Roots |-> Name(root[r])']
  <2>1. \A r \in Roots : root[r] \in Objects \cup {NULL_POINTER} /\ root'[r] = root[r]
    BY <1>4 DEF Starts, RootTargets, Targets
  <2>2. \A r \in Roots : Name(root[r])' = Name(root[r])
    BY <1>10, <2>1 DEF Name
  <2> QED BY <1>15, <1>16, <2>2
<1>20. g.regs = {id'[p] : p \in regs'} /\ g.born = born'
  <2>1. \A p \in regs : id'[p] = id[p]
    BY <1>2, <1>3, <1>4 DEF Starts
  <2> QED BY <1>2, <1>3, <1>15, <1>16, <2>1 DEF x
<1>21. g.tag[x] = t /\ g.field[x] = N
  BY <1>12, <1>15, <1>16
<1>22. ASSUME NEW b \in VisibleObjects'
       PROVE  g.tag[id'[b]] = tag'[b] /\ g.field[id'[b]] = NamedFields(b)'
  <2>1. CASE b = a
    <3>1. ASSUME NEW i \in Fields PROVE Name(field[b][i])' = Name(fields[i])
      <4>1. field'[b][i] = stored[i]
        BY <1>3, <2>1
      <4> QED BY <1>5, <1>10, <4>1 DEF Name
    <3>2. NamedFields(b)' = N
      BY <3>1 DEF NamedFields, N
    <3> QED BY <1>3, <1>21, <2>1, <3>2 DEF x
  <2>2. CASE b # a
    <3>1. b \in VisibleObjects /\ tag'[b] = tag[b] /\ field'[b] = field[b] /\ id'[b] = id[b]
      BY <1>3, <1>4, <1>9, <2>2
    <3>2. id[b] \in Ids /\ id[b] # x
      <4>1. id[b] \in 1 .. born
        BY <1>1, <1>4, <3>1 DEF Names
      <4> QED BY <1>1, <1>2, <1>4, <3>1, <4>1, NamesAreIds DEF x
    <3>3. g.tag[id[b]] = tag[b] /\ g.field[id[b]] = NamedFields(b)
      BY <1>1, <1>15, <1>16, <3>1, <3>2 DEF Shows
    <3>4. ASSUME NEW i \in Fields PROVE Name(field[b][i])' = Name(field[b][i])
      <4>1. field[b][i] \in Objects \cup {NULL_POINTER}
        BY <1>1, <3>1, VisiblePointers
      <4> QED BY <1>10, <3>1, <4>1 DEF Name
    <3>5. NamedFields(b)' = NamedFields(b)
      BY <3>4 DEF NamedFields
    <3> QED BY <3>1, <3>3, <3>5
  <2> QED BY <2>1, <2>2
<1>23. Shows(g)'
  BY <1>18, <1>19, <1>20, <1>22 DEF Shows
<1>24. Forgotten(g)'
  <2> SUFFICES ASSUME NEW y \in Ids \ VisibleNames'
               PROVE  g.tag[y] = "Free" /\ g.field[y] = Heap!NoFields
    BY DEF Forgotten
  <2>1. y # x /\ y \in Ids \ VisibleNames
    BY <1>11 DEF x
  <2> QED BY <1>1, <1>15, <1>16, <2>1 DEF Forgotten
<1>25. graph' = g
  BY <1>23, <1>24, ExactStep
<1>26. \/ g.tag[x] = "Array" /\ g.field[x] \in [Fields -> Heap!Held(graph)]
       \/ g.tag[x] = "WeakRef" /\ \E v \in graph.regs : g.field[x] = [Heap!NoFields EXCEPT ![1] = v]
  <2>1. CASE t = "Array"
    BY <1>13, <1>21, <2>1
  <2>2. CASE t = "WeakRef"
    <3>1. PICK target \in regs : fields = [NoFields EXCEPT ![1] = target]
      BY <2>2
    <3>2. Name(target) = id[target] /\ id[target] \in graph.regs /\ Name(NULL_POINTER) = NULL_POINTER
      BY <1>4, <1>15, ForwardedName DEF Name, Starts
    <3>3. N = [Heap!NoFields EXCEPT ![1] = id[target]]
      BY <3>1, <3>2 DEF N, NoFields, Heap!NoFields
    <3> QED BY <1>21, <2>2, <3>2, <3>3
  <2> QED BY <2>1, <2>2
<1>27. g = [graph EXCEPT !.regs = graph.regs \cup {x}, !.tag[x] = g.tag[x],
                         !.field[x] = g.field[x], !.born = x]
  BY <1>14, <1>21
<1> QED BY <1>15, <1>16, <1>25, <1>26, <1>27 DEF Heap!Allocate, x

\* An object of compiled code.
LEMMA AllocateStep ==
    ASSUME Mapped, Mapped', NEW a \in Addresses \ Objects, NEW fields \in [Fields -> Held],
           Allocate(a, fields)
    PROVE  Heap!Allocate(graph, graph')
<1> DEFINE stored == IF running_gc THEN update_new_allocation(fields) ELSE fields
<1>1. UNCHANGED <<forward, root>> /\ new_object(a, "Array", stored)
  BY DEF Allocate
<1>2. regs \subseteq Addresses /\ forward \in [Addresses -> Addresses]
  BY DEF Mapped, IInv, TypeOK
<1>3. fields \in [Fields -> Pointers]
  BY <1>2 DEF Held, Pointers
<1>4. stored \in [Fields -> Pointers]
  BY <1>2, <1>3 DEF update_new_allocation, forward_if_possible, Pointers
<1>5. \A i \in Fields : stored[i] \in {fields[i], forward_if_possible(fields[i])}
  BY DEF update_new_allocation
<1> HIDE DEF stored
<1> QED BY <1>1, <1>4, <1>5, AllocationStep

\* A weak reference, whose target the runtime resolves.
LEMMA AllocateWeakRefStep ==
    ASSUME Mapped, Mapped', NEW a \in Addresses \ Objects, NEW target \in regs,
           AllocateWeakRef(a, target)
    PROVE  Heap!Allocate(graph, graph')
<1> DEFINE fields == [NoFields EXCEPT ![1] = target]
           resolved == [NoFields EXCEPT ![1] = forward_if_possible(target)]
           stored == update_new_allocation(resolved)
<1>1. UNCHANGED <<forward, root>> /\ new_object(a, "WeakRef", stored)
  BY DEF AllocateWeakRef
<1>2. regs \subseteq Addresses /\ forward \in [Addresses -> Addresses]
  BY DEF Mapped, IInv, TypeOK
<1>3. target \in Addresses /\ target # NULL_POINTER /\ forward[target] # NULL_POINTER
      /\ forward[target] \in Addresses /\ forward[forward[target]] = forward[target]
  BY <1>2, HeldObject, ForwardIsObject, NullIsNoAddress DEF Mapped
<1>4. fields \in [Fields -> Held]
  BY DEF NoFields, Held
<1>5. resolved \in [Fields -> Pointers]
  BY <1>3 DEF NoFields, forward_if_possible, Pointers
<1>6. stored \in [Fields -> Pointers]
  BY <1>2, <1>5 DEF update_new_allocation, forward_if_possible, Pointers
<1>7. ASSUME NEW i \in Fields
      PROVE  stored[i] \in {fields[i], forward_if_possible(fields[i])}
  <2>1. stored[i] \in {resolved[i], forward_if_possible(resolved[i])}
    BY <1>5 DEF update_new_allocation
  <2>2. CASE i = 1
    <3>1. fields[i] = target /\ resolved[i] = forward[target]
      BY <1>3, <2>2 DEF NoFields, forward_if_possible
    <3> QED BY <1>3, <2>1, <3>1 DEF forward_if_possible
  <2>3. CASE i # 1
    <3>1. fields[i] = NULL_POINTER /\ resolved[i] = NULL_POINTER
      BY <2>3 DEF NoFields
    <3> QED BY <2>1, <3>1 DEF forward_if_possible
  <2> QED BY <2>2, <2>3
<1>8. \E v \in regs : fields = [NoFields EXCEPT ![1] = v]
  OBVIOUS
<1> HIDE DEF fields, resolved, stored
<1> QED BY <1>1, <1>4, <1>6, <1>7, <1>8, AllocationStep

(***************************************************************************)
(* The end of marking.                                                     *)
(***************************************************************************)
\* At the end of marking all that chains of ordinary fields lead to is marked,
\* and so are the targets of the marked weak references that are not registered.
LEMMA MarkedAtTheEnd ==
    ASSUME IInv, phase = "Mark", mark_stack = {}
    PROVE  /\ RootTargets \cup regs \subseteq marked
           /\ \A a \in marked \ weak_ref_registry, i \in Fields :
                 field[a][i] \in marked \cup {NULL_POINTER}
<1>1. GrayClosed({}) /\ {} \in SUBSET Addresses
  BY DEF GrayClosed
<1> QED BY <1>1 DEF IInv, SnapshotAtTheBeginning

\* The graph has no strong path to what is not marked.
LEMMA StrongIsMarked ==
    ASSUME Mapped, phase = "Mark", mark_stack = {}
    PROVE  Heap!StronglyReachable(graph) \subseteq {id[a] : a \in VisibleObjects \cap marked}
<1>1. IInv /\ Names /\ Shows(graph) /\ graph \in Graphs
  BY MappedShows DEF Mapped, Shows
<1> DEFINE strong(x) == IF graph.tag[x] = "WeakRef" THEN {} ELSE Heap!FieldsOf(graph, x)
           start == Heap!RootsOf(graph)
           succ == [x \in Ids |-> strong(x)]
           T == {id[a] : a \in VisibleObjects \cap marked}
<1>2. start \in SUBSET Ids /\ succ \in [Ids -> SUBSET Ids]
  BY <1>1, GraphPointers
<1>3. \A a \in Objects : forward[a] = a
  BY <1>1, Unforwarded, MarkedAreObjects
<1>4. start \subseteq T
  <2>1. \A p \in Starts : p \in VisibleObjects \cap marked
    BY <1>1, <1>3, MarkedAtTheEnd, VisiblePointers DEF Starts
  <2>2. start \subseteq {id[p] : p \in Starts}
    <3>1. \A r \in Roots : Name(root[r]) # NULL_POINTER => root[r] \in RootTargets
                                                           /\ Name(root[r]) = id[root[r]]
      BY DEF RootTargets, Targets, Name
    <3> QED BY <1>1, <3>1 DEF Shows, Heap!RootsOf, Heap!Targets, Starts
  <2> QED BY <2>1, <2>2
<1>5. ASSUME NEW a \in VisibleObjects \cap marked PROVE strong(id[a]) \subseteq T
  <2> SUFFICES ASSUME NEW y \in strong(id[a]) PROVE y \in T
    OBVIOUS
  <2>1. graph.tag[id[a]] = tag[a] /\ graph.field[id[a]] = NamedFields(a)
    BY <1>1 DEF Shows
  <2>2. tag[a] # "WeakRef" /\ y \in Heap!FieldsOf(graph, id[a])
    BY <2>1
  <2>3. PICK i \in Fields : y = Name(field[a][i]) /\ y # NULL_POINTER
    BY <2>1, <2>2 DEF Heap!FieldsOf, Heap!Targets, NamedFields
  <2>4. a \notin weak_ref_registry
    BY <1>1, <2>2 DEF IInv, Structure
  <2>5. field[a][i] \in marked \cup {NULL_POINTER}
    BY <1>1, <2>4, MarkedAtTheEnd
  <2>6. field[a][i] # NULL_POINTER /\ y = id[field[a][i]]
    BY <2>3 DEF Name
  <2>7. field[a][i] \in VisibleObjects
    BY <1>1, <1>3, <2>6, VisiblePointers
  <2> QED BY <2>5, <2>6, <2>7
<1>6. \A x \in T \cap Ids : succ[x] \subseteq T
  BY <1>5
<1>7. Heap!StronglyReachable(graph) = Heap!Reachable(start, succ)
  BY DEF Heap!StronglyReachable
<1> HIDE DEF start, succ, T
<1>8. Heap!Reachable(start, succ) \subseteq T
  BY <1>2, <1>4, <1>6, FiniteIds, ReachableIsLeast
<1> QED BY <1>7, <1>8 DEF T

\* Marking ends: the weak references to the objects that no strong path leads to
\* are cleared, all those to a target together.
LEMMA start_evacuatingStep ==
    ASSUME Mapped, Mapped', start_evacuating
    PROVE  Heap!Collect(graph, graph')
<1>1. IInv /\ IInv' /\ Names /\ TypeOK /\ Shows(graph) /\ graph \in Graphs
  BY MappedShows DEF Mapped, IInv, Shows
<1>2. /\ phase = "Mark" /\ mark_stack = {} /\ phase' = "Evacuate"
      /\ UNCHANGED <<tag, forward, id, born, marked, root, regs>>
      /\ field' = [a \in Addresses |->
                     IF a \in weak_ref_registry /\ field[a][1] \notin marked
                     THEN NoFields ELSE field[a]]
  BY DEF start_evacuating, complete_marking, set_phase
<1>3. \A a \in Objects : forward[a] = a
  BY <1>1, <1>2, Unforwarded, MarkedAreObjects
<1>4. /\ VisibleObjects \subseteq Objects /\ Objects \subseteq Addresses
      /\ \A a \in VisibleObjects, i \in Fields : field[a][i] # NULL_POINTER =>
            field[a][i] \in VisibleObjects /\ Name(field[a][i]) = id[field[a][i]]
  BY <1>1, <1>3, VisiblePointers, MarkedAreObjects DEF Name
<1>5. VisibleObjects' \subseteq VisibleObjects \cap marked
  <2> DEFINE T == VisibleObjects \cap marked
  <2>1. RootTargets' \cup regs' \subseteq marked
        /\ \A a \in marked, i \in Fields : field'[a][i] \in marked \cup {NULL_POINTER}
    BY <1>1, <1>2 DEF IInv, MarkedAfterMarking
  <2>2. Starts' = Starts
    BY <1>2 DEF Starts, RootTargets
  <2>3. \A p \in Starts' : forward'[p] \in T
    BY <1>1, <1>2, <1>3, <2>1, <2>2, VisiblePointers DEF Starts
  <2>4. ASSUME NEW a \in T, NEW i \in Fields, field'[a][i] # NULL_POINTER
        PROVE  forward'[field'[a][i]] \in T
    <3>1. field'[a][i] = field[a][i]
      BY <1>2, <1>4, <2>4 DEF NoFields
    <3> QED BY <1>2, <1>3, <1>4, <2>1, <2>4, <3>1
  <2> HIDE DEF T
  <2>5. VisibleObjects' \subseteq T
    BY <1>1, <2>3, <2>4, VisibleIsLeastNext DEF IInv
  <2> QED BY <2>5 DEF T
<1> DEFINE weak == {x \in Ids : graph.tag[x] = "WeakRef"}
           lost(w) == tag[w] = "WeakRef" /\ field[w][1] # NULL_POINTER /\ field[w][1] \notin marked
           dead == {id[field[w][1]] : w \in {w \in VisibleObjects : lost(w)}}
           cleared == [x \in Ids |-> IF x \in weak /\ graph.field[x][1] \in dead
                                     THEN Heap!NoFields ELSE graph.field[x]]
<1>6. \A w \in VisibleObjects : /\ id[w] \in Ids
                                /\ graph.tag[id[w]] = tag[w] /\ graph.field[id[w]] = NamedFields(w)
                                /\ graph.field[id[w]][1] = Name(field[w][1])
  BY <1>1, <1>4, NamesAreIds, FirstField DEF Shows, NamedFields
<1>7. dead \subseteq {graph.field[x][1] : x \in weak} \ Heap!StronglyReachable(graph)
  <2> SUFFICES ASSUME NEW w \in VisibleObjects, lost(w)
               PROVE  /\ id[field[w][1]] \in {graph.field[x][1] : x \in weak}
                      /\ id[field[w][1]] \notin Heap!StronglyReachable(graph)
    OBVIOUS
  <2>1. field[w][1] \in VisibleObjects /\ Name(field[w][1]) = id[field[w][1]]
    BY <1>4, FirstField
  <2>2. id[w] \in weak /\ graph.field[id[w]][1] = id[field[w][1]]
    BY <1>6, <2>1
  <2>3. ASSUME NEW a \in VisibleObjects \cap marked, id[a] = id[field[w][1]] PROVE FALSE
    BY <1>1, <2>1, <2>3, NamesAreIds
  <2> QED BY <1>2, <2>2, <2>3, StrongIsMarked
<1>8. \A w \in VisibleObjects : graph.field[id[w]][1] \in dead <=>
                                    field[w][1] # NULL_POINTER /\ \E u \in VisibleObjects :
                                        lost(u) /\ field[u][1] = field[w][1]
  <2>1. \A w \in VisibleObjects : field[w][1] # NULL_POINTER =>
           field[w][1] \in VisibleObjects /\ graph.field[id[w]][1] = id[field[w][1]]
    BY <1>4, <1>6, FirstField
  <2>2. \A w \in VisibleObjects : field[w][1] = NULL_POINTER => graph.field[id[w]][1] = NULL_POINTER
    BY <1>6 DEF Name
  <2>3. NULL_POINTER \notin dead
    BY <1>1, <1>4, <2>1, NamesAreIds
  <2>4. \A a, b \in VisibleObjects : id[a] = id[b] => a = b
    BY <1>1, NamesAreIds
  <2> QED BY <2>1, <2>2, <2>3, <2>4
<1>9. ASSUME NEW a \in VisibleObjects'
      PROVE  cleared[id[a]] = NamedFields(a)'
  <2>1. a \in VisibleObjects /\ a \in marked /\ a \in Addresses /\ id[a] \in Ids
    BY <1>4, <1>5, <1>6
  <2>2. NamedFields(a)' = [i \in Fields |-> Name(field'[a][i])]
    BY <1>2 DEF NamedFields, Name
  <2>3. CASE tag[a] = "WeakRef" /\ field[a][1] \notin marked
    <3>1. a \in weak_ref_registry \/ field[a][1] = NULL_POINTER
      BY <1>1, <1>2, <2>1, <2>3, MarkedAtTheEnd, FirstField
    <3>2. \A i \in Fields : field'[a][i] = NULL_POINTER
      BY <1>1, <1>2, <2>1, <2>3, <3>1 DEF NoFields, IInv, Structure
    <3>3. NamedFields(a)' = Heap!NoFields
      BY <2>2, <3>2 DEF Name, Heap!NoFields
    <3>4. CASE field[a][1] # NULL_POINTER
      <4>1. id[a] \in weak /\ graph.field[id[a]][1] \in dead
        BY <1>6, <1>8, <2>1, <2>3, <3>4
      <4> QED BY <2>1, <3>3, <4>1
    <3>5. CASE field[a][1] = NULL_POINTER
      <4>1. \A i \in Fields : field[a][i] = NULL_POINTER
        BY <1>1, <2>1, <2>3, <3>5 DEF IInv, Structure
      <4>2. graph.field[id[a]] = Heap!NoFields
        BY <1>6, <2>1, <4>1 DEF NamedFields, Name, Heap!NoFields
      <4> QED BY <2>1, <3>3, <4>2
    <3> QED BY <3>4, <3>5
  <2>4. CASE ~(tag[a] = "WeakRef" /\ field[a][1] \notin marked)
    <3>1. field'[a] = field[a]
      BY <1>1, <1>2, <2>1, <2>4 DEF IInv, Structure
    <3>2. NamedFields(a)' = graph.field[id[a]]
      BY <1>6, <2>1, <2>2, <3>1 DEF NamedFields
    <3>3. ~(id[a] \in weak /\ graph.field[id[a]][1] \in dead)
      BY <1>6, <1>8, <2>1, <2>4
    <3> QED BY <2>1, <3>2, <3>3
  <2> QED BY <2>3, <2>4
<1>10. cleared \in [Ids -> [Fields -> Ids \cup {NULL_POINTER}]]
  <2>1. Heap!NoFields \in [Fields -> Ids \cup {NULL_POINTER}]
    BY DEF Heap!NoFields
  <2>2. graph.field \in [Ids -> [Fields -> Ids \cup {NULL_POINTER}]]
    BY <1>1 DEF Graphs
  <2> QED BY <2>1, <2>2
<1> HIDE DEF dead, weak
<1>11. PICK g : g = [graph EXCEPT !.field = cleared]
  OBVIOUS
<1>12. g = [graph EXCEPT !.field =
               [x \in Ids |-> IF x \in weak /\ graph.field[x][1] \in dead
                              THEN Heap!NoFields ELSE graph.field[x]]]
  BY <1>11
<1> HIDE DEF cleared
<1>13. /\ g \in Graphs /\ g.root = graph.root /\ g.regs = graph.regs /\ g.tag = graph.tag
       /\ g.field = cleared /\ g.born = graph.born
  BY <1>1, <1>10, <1>11 DEF Graphs
<1>14. \A a \in VisibleObjects' : g.tag[id'[a]] = tag'[a] /\ g.field[id'[a]] = NamedFields(a)'
  BY <1>2, <1>5, <1>6, <1>9, <1>13
<1>15. g.root = [r \in Roots |-> Name(root[r])'] /\ g.regs = {id'[p] : p \in regs'} /\ g.born = born'
  BY <1>1, <1>2, <1>13 DEF Shows, Name
<1>16. Shows(g)'
  BY <1>13, <1>14, <1>15 DEF Shows
<1>17. graph' = Heap!Forget(g)
  BY <1>16, ForgetStep
<1>18. dead \in SUBSET ({graph.field[x][1] : x \in weak} \ Heap!StronglyReachable(graph))
  BY <1>7
<1> QED BY <1>12, <1>17, <1>18 DEF Heap!Collect, weak

(***************************************************************************)
(* The refinement.                                                         *)
(***************************************************************************)
\* The graph starts empty.
LEMMA InitMapped == RefinementInit => Mapped /\ Heap!Init
<1> SUFFICES ASSUME RefinementInit PROVE Mapped /\ Heap!Init
  OBVIOUS
<1>1. /\ IInv /\ graph = GraphOf(VisibleObjects)
      /\ tag = [a \in Addresses |-> "Free"] /\ root = [r \in Roots |-> NULL_POINTER]
      /\ regs = {} /\ born = 0 /\ operations = 0 /\ phase = "Pause"
  BY InitIInv DEF RefinementInit, MCInit, Init
<1>2. Names
  BY <1>1, MaxOperationsIsBound DEF Names, Objects
<1>3. VisibleObjects = {}
  <2>1. VisibleObjects \subseteq Objects
    BY <1>1, VisiblePointers
  <2> QED BY <1>1, <2>1 DEF Objects
<1>4. graph = Heap!EmptyGraph
  <2>1. GraphOf({}) = [root  |-> [r \in Roots |-> NULL_POINTER],
                       regs  |-> {},
                       tag   |-> [x \in Ids |-> "Free"],
                       field |-> [x \in Ids |-> NoFields],
                       born  |-> 0]
    <3>1. [r \in Roots |-> Name(root[r])] = [r \in Roots |-> NULL_POINTER]
      BY <1>1 DEF Name
    <3>2. {id[p] : p \in regs} = {} /\ \A x : x \notin {id[a] : a \in {}}
      BY <1>1
    <3> QED BY <1>1, <3>1, <3>2 DEF GraphOf
  <2> QED BY <1>1, <1>3, <2>1 DEF Heap!EmptyGraph, Heap!NoFields, NoFields
<1> QED BY <1>1, <1>2, <1>4 DEF Mapped, Heap!Init

\* The graph follows the heap.
LEMMA NextMapped == Mapped /\ [RefinementNext]_<<vars, operations, graph, garbage>> => Mapped'
<1> SUFFICES ASSUME Mapped, [RefinementNext]_<<vars, operations, graph, garbage>> PROVE Mapped'
  OBVIOUS
<1>1. IInv' /\ Names'
  <2>1. [Next]_vars /\ [MCNext]_<<vars, operations>>
    BY DEF RefinementNext, MCNext, Next
  <2> QED BY <2>1, NextIInv, NextNames DEF Mapped
<1>2. CASE RefinementNext
  <2>1. graph' = GraphOf(VisibleObjects)'
    BY <1>2 DEF RefinementNext, GraphOf, Name
  <2> QED BY <1>1, <2>1 DEF Mapped
<1>3. CASE UNCHANGED <<vars, graph>>
  <2>1. UNCHANGED <<tag, forward, field, id, born, root, regs>>
    BY <1>3 DEF vars, memory
  <2>2. VisibleObjects' = VisibleObjects
    BY <2>1, VisibleIsSeen DEF Starts, RootTargets
  <2>3. GraphOf(VisibleObjects)' = GraphOf(VisibleObjects)
    BY <2>1, <2>2 DEF GraphOf, Name
  <2> QED BY <1>1, <1>3, <2>3 DEF Mapped
<1> QED BY <1>2, <1>3

\* Every step is a step of the graph or leaves it as it is.
LEMMA StepRefines ==
    Mapped /\ Mapped' /\ [RefinementNext]_<<vars, operations, graph, garbage>> => [Heap!Next]_graph
<1> SUFFICES ASSUME Mapped, Mapped', [RefinementNext]_<<vars, operations, graph, garbage>>
             PROVE  Heap!Step(graph, graph') \/ graph' = graph
  BY DEF Heap!Next
<1>1. CASE UNCHANGED graph
  BY <1>1
<1>2. CASE RefinementNext
  <2>1. Next
    BY <1>2 DEF RefinementNext, MCNext, Next
  <2>2. CASE Reads
    BY <2>2, ReadsStep DEF Heap!Step
  <2>3. CASE Writes
    <3>1. ASSUME NEW x \in regs, NEW i \in Fields, NEW v \in Held, WriteField(x, i, v)
          PROVE  Heap!Write(graph, graph')
      BY <3>1, WriteFieldStep
    <3>2. ASSUME NEW r \in Roots, NEW v \in Held, WriteRoot(r, v) PROVE Heap!Write(graph, graph')
      BY <3>2, WriteRootStep
    <3>3. ASSUME NEW a \in Addresses \ Objects, NEW fields \in [Fields -> Held], Allocate(a, fields)
          PROVE  Heap!Allocate(graph, graph')
      BY <3>3, AllocateStep
    <3>4. ASSUME NEW a \in Addresses \ Objects, NEW target \in regs, AllocateWeakRef(a, target)
          PROVE  Heap!Allocate(graph, graph')
      BY <3>4, AllocateWeakRefStep
    <3> QED BY <2>3, <3>1, <3>2, <3>3, <3>4 DEF Writes, Heap!Step
  <2>4. CASE EndMessage \/ Upgrade
    BY <2>4, EndMessageStep, UpgradeStep DEF Heap!Step
  <2>5. CASE start_marking
    BY <2>5, HeapUnchanged DEF start_marking, memory
  <2>6. ASSUME NEW a \in mark_stack, mark_increment(a) PROVE graph' = graph
    BY <2>6, HeapUnchanged DEF mark_increment
  <2>7. CASE start_evacuating
    BY <2>7, start_evacuatingStep DEF Heap!Step
  <2>8. ASSUME NEW original \in marked, NEW copy \in Addresses \ Objects,
               evacuation_increment(original, copy)
        PROVE  graph' = graph
    BY <2>8, evacuation_incrementSame
  <2>9. CASE start_updating
    BY <2>9, start_updatingSame
  <2>10. ASSUME NEW a \in marked, update_increment(a) PROVE graph' = graph
    BY <2>10, update_incrementSame
  <2>11. CASE complete_run
    BY <2>11, complete_runSame
  <2> QED BY <2>1, <2>2, <2>3, <2>4, <2>5, <2>6, <2>7, <2>8, <2>9, <2>10, <2>11 DEF Next, Increment
<1> QED BY <1>1, <1>2

\* Whatever the collector is doing, the program sees an ordinary heap: each step
\* of the runtime is a read, a write, an allocation, the end of a message, an
\* upgrade or a clearing of weak references to dead objects of MutatorHeap, or
\* is invisible.
THEOREM HeapImplemented == RefinementSpec => ImplementsHeap
<1>1. RefinementInit => Mapped /\ Heap!Init
  BY InitMapped
<1>2. Mapped /\ [RefinementNext]_<<vars, operations, graph, garbage>> => Mapped'
  BY NextMapped
<1>3. Mapped /\ Mapped' /\ [RefinementNext]_<<vars, operations, graph, garbage>> => [Heap!Next]_graph
  BY StepRefines
<1> QED BY <1>1, <1>2, <1>3, PTL DEF RefinementSpec, ImplementsHeap, Heap!Spec
===============================================================================
