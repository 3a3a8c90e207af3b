------------------------- MODULE IncrementalGCProofs -------------------------
(***************************************************************************)
(* The collector's invariants, for every heap size, object size, slice     *)
(* size and number of roots.                                               *)
(***************************************************************************)
EXTENDS IncrementalGC, TLAPS

\* Everything but the registers, and everything but the registers and roots.
AllButRegs == <<phase, running_gc, memory, marking, partitions, iterator, root>>

\* The heap has finitely many addresses.
LEMMA HeapSize == NumPartitions * PARTITION_SIZE \in Nat
<1>1. ASSUME NEW m \in Nat, NEW n \in Nat PROVE m * n \in Nat
  OBVIOUS
<1> QED BY <1>1, GCConstants

\* No object is at the null pointer.
LEMMA NullIsNoAddress == NULL_POINTER \notin Addresses
  BY HeapSize, GCConstants DEF Addresses

\* An empty heap without a collection.
LEMMA InitIInv == Init => IInv
<1> SUFFICES ASSUME Init PROVE IInv
  OBVIOUS
<1> USE GCConstants DEF Init, Objects
<1>1. TypeOK
  <2>1. 0 \in 0 .. NumPartitions * PARTITION_SIZE /\ 0 \in Partitions
    BY HeapSize DEF Partitions
  <2>2. field \in [Addresses -> [Fields -> Pointers]] /\ root \in [Roots -> Pointers]
    BY DEF Pointers, NoFields
  <2>3. phase \in Phases /\ slice \in [Addresses -> 0 .. NumFields]
    BY DEF Phases
  <2>4. free \subseteq Partitions /\ id \in [Addresses -> Nat]
    OBVIOUS
  <2>5. forward \in [Addresses -> Addresses]
    OBVIOUS
  <2>6. tag \in [Addresses -> {"Free", "Array", "WeakRef"}]
    OBVIOUS
  <2>7. running_gc \in BOOLEAN
    BY Zenon
  <2> QED BY <2>1, <2>2, <2>3, <2>4, <2>5, <2>6, <2>7 DEF TypeOK
<1>2. Structure /\ SlicesCurrent
  BY DEF Structure, SlicesCurrent, Partitions
<1>3. RootTargets = {}
  BY DEF RootTargets, Targets
<1>4. LiveWhileMarking
  <2>1. {} \in SUBSET Objects /\ RootTargets \cup regs \cup marked \subseteq {} /\ Closed({})
    BY <1>3 DEF Closed
  <2> QED BY <2>1 DEF LiveWhileMarking
<1>5. SnapshotAtTheBeginning /\ MarkedAfterMarking /\ Updating
  BY DEF SnapshotAtTheBeginning, MarkedAfterMarking, Updating
<1>6. RunningFlagCurrent /\ Forwarding /\ Evacuated
  BY DEF RunningFlagCurrent, Forwarding, Evacuated
<1> QED
  BY <1>1, <1>2, <1>4, <1>5, <1>6 DEF IInv

(***************************************************************************)
(* Steps that change only what the message holds.                          *)
(***************************************************************************)
LEMMA RegsStep ==
    ASSUME IInv, UNCHANGED AllButRegs, regs' \subseteq Addresses,
           phase \in {"Pause", "Mark"} =>
               \A L \in SUBSET Objects :
                   RootTargets \cup regs \cup marked \subseteq L /\ Closed(L) =>
                       regs' \subseteq L,
           phase = "Mark" =>
               \A C \in SUBSET Addresses : GrayClosed(C) => regs' \subseteq C \cup marked,
           phase = "Evacuate" => regs' \subseteq marked,
           phase = "Update" =>
               \A N \in SUBSET (Objects \ marked) :
                   UpdatedUpTo(N) => regs' \subseteq marked \cup N
    PROVE  IInv'
<1> USE DEF AllButRegs, memory, marking, partitions
<1>1. TypeOK'
  BY DEF IInv, TypeOK
<1>2. Structure' /\ SlicesCurrent' /\ Forwarding' /\ Evacuated' /\ RunningFlagCurrent'
  BY DEF IInv, Structure, SlicesCurrent, Forwarding, Evacuated, RunningFlagCurrent,
         Objects, Kept, In, updates_needed
<1>3. RootTargets' = RootTargets /\ Objects' = Objects
  BY DEF RootTargets, Objects
<1>4. ASSUME NEW L PROVE Closed(L)' <=> Closed(L)
  BY DEF Closed
<1>5. LiveWhileMarking'
  <2> SUFFICES ASSUME phase \in {"Pause", "Mark"} PROVE LiveWhileMarking'
    BY DEF LiveWhileMarking
  <2>1. PICK L \in SUBSET Objects :
           RootTargets \cup regs \cup marked \subseteq L /\ Closed(L)
    BY DEF IInv, LiveWhileMarking
  <2>2. regs' \subseteq L /\ RootTargets' \subseteq L /\ L \in SUBSET Objects'
    BY <2>1, <1>3
  <2>3. Closed(L)'
    BY <2>1, <1>4
  <2> QED BY <2>1, <2>2, <2>3 DEF LiveWhileMarking
<1>6. SnapshotAtTheBeginning'
  <2> SUFFICES ASSUME phase = "Mark", NEW C \in SUBSET Addresses, GrayClosed(C)'
               PROVE  /\ (RootTargets \cup regs)' \subseteq C \cup marked
                      /\ \A a \in marked \ weak_ref_registry : \A i \in Fields :
                            field[a][i] \in C \cup marked \cup {NULL_POINTER}
    BY DEF SnapshotAtTheBeginning
  <2>1. GrayClosed(C)
    BY DEF GrayClosed, Unvisited
  <2> QED BY <2>1, <1>3 DEF IInv, SnapshotAtTheBeginning
<1>7. MarkedAfterMarking'
  BY <1>3 DEF IInv, MarkedAfterMarking
<1>8. Updating'
  <2> SUFFICES ASSUME phase = "Update" PROVE Updating'
    BY DEF Updating
  <2>1. PICK N \in SUBSET (Objects \ marked) : UpdatedUpTo(N)
    BY DEF IInv, Updating
  <2>2. UpdatedUpTo(N)'
    BY <2>1, <1>3 DEF UpdatedUpTo, Kept
  <2> QED BY <2>1, <2>2, <1>3 DEF IInv, Updating, Kept
<1> QED
  BY <1>1, <1>2, <1>5, <1>6, <1>7, <1>8 DEF IInv

\* A message reads a root.
LEMMA LoadRootIInv == ASSUME IInv, NEW r \in Roots, LoadRoot(r) PROVE IInv'
<1>1. root[r] \in RootTargets /\ root[r] \in Addresses
  BY DEF LoadRoot, RootTargets, Targets, IInv, TypeOK, Pointers
<1>2. regs \subseteq Addresses
  BY DEF IInv, TypeOK
<1> QED
  BY <1>1, <1>2, RegsStep DEF LoadRoot, AllButRegs, IInv, SnapshotAtTheBeginning,
     MarkedAfterMarking, UpdatedUpTo

\* A message ends: what it held on the stack is gone.
LEMMA EndMessageIInv == ASSUME IInv, EndMessage PROVE IInv'
  BY RegsStep DEF EndMessage, AllButRegs

\* A message reads a field through the forwarding pointer.
LEMMA LoadFieldIInv ==
    ASSUME IInv, NEW x \in regs, NEW i \in Fields, LoadField(x, i) PROVE IInv'
<1> DEFINE v == field[forward[x]][i]
<1>1. x \in Addresses /\ forward[x] \in Addresses /\ v \in Addresses
  BY DEF LoadField, IInv, TypeOK, Pointers
<1>2. regs \subseteq Addresses
  BY DEF IInv, TypeOK
<1>3. regs' = regs \cup {v} /\ UNCHANGED AllButRegs /\ v # NULL_POINTER
  BY DEF LoadField, AllButRegs
<1>4. ASSUME phase \in {"Pause", "Mark"} PROVE forward[x] = x
  BY <1>1, <1>4 DEF IInv, Structure, Forwarding, Kept
<1>5. ASSUME NEW L, regs \subseteq L, Closed(L) PROVE v \in L
  BY <1>3, <1>5 DEF Closed
<1>6. ASSUME phase = "Mark", NEW C \in SUBSET Addresses, GrayClosed(C)
      PROVE  v \in C \cup marked
  <2>1. forward[x] = x /\ tag[x] = "Array"
    BY <1>4, <1>6 DEF LoadField
  <2>2. x \in C \cup marked
    BY <1>6 DEF IInv, SnapshotAtTheBeginning
  <2>3. x \notin weak_ref_registry
    BY <2>1 DEF IInv, Structure
  <2>4. CASE x \in marked
    BY <2>1, <2>3, <2>4, <1>3, <1>6 DEF IInv, SnapshotAtTheBeginning
  <2>5. CASE x \notin marked
    BY <2>1, <2>2, <2>5, <1>3, <1>6 DEF GrayClosed, Unvisited
  <2> QED BY <2>4, <2>5
<1>7. ASSUME x \in marked PROVE forward[x] \in marked
  BY <1>1, <1>7 DEF IInv, Forwarding
<1>8. ASSUME phase = "Evacuate" PROVE v \in marked
  BY <1>3, <1>7, <1>8 DEF IInv, MarkedAfterMarking
<1>9. ASSUME phase = "Update", NEW N \in SUBSET (Objects \ marked), UpdatedUpTo(N)
      PROVE  v \in marked \cup N
  <2>1. x \in marked \cup N
    BY <1>9 DEF UpdatedUpTo
  <2>2. forward[x] \in marked \cup N
    BY <2>1, <1>1, <1>7 DEF IInv, Forwarding
  <2> QED BY <2>2, <1>3, <1>9 DEF UpdatedUpTo
<1> HIDE DEF v
<1>10. phase = "Evacuate" => regs \subseteq marked
  BY DEF IInv, MarkedAfterMarking
<1>11. phase = "Mark" =>
          \A C \in SUBSET Addresses : GrayClosed(C) => regs \subseteq C \cup marked
  BY DEF IInv, SnapshotAtTheBeginning
<1>12. \A N : UpdatedUpTo(N) => regs \subseteq marked \cup N
  BY DEF UpdatedUpTo
<1> QED
  BY <1>1, <1>2, <1>3, <1>5, <1>6, <1>8, <1>9, <1>10, <1>11, <1>12, RegsStep
(***************************************************************************)
(* Facts about forwarding.                                                 *)
(***************************************************************************)
LEMMA Unforwarded ==
    ASSUME IInv, phase \in {"Pause", "Mark"}, NEW a \in Addresses
    PROVE  forward[a] = a /\ Kept(a)
  BY DEF IInv, Structure, Forwarding, Kept

\* A marked object is forwarded to a marked one.
LEMMA ResolvedMarked == ASSUME IInv, NEW a \in marked PROVE forward[a] \in marked
<1>1. a \in Addresses
  BY DEF IInv, TypeOK
<1> QED BY <1>1 DEF IInv, Forwarding

\* While references are updated, what is forwarded to stays.
LEMMA ResolvedKept ==
    ASSUME IInv, phase = "Update",
           NEW N \in SUBSET (Objects \ marked), UpdatedUpTo(N), NEW a \in marked \cup N
    PROVE  forward[a] \in marked \cup N /\ Kept(forward[a])
<1>1. a \in Addresses
  BY DEF IInv, TypeOK, Objects
<1>2. CASE a \in N
  BY <1>1, <1>2 DEF IInv, Forwarding, UpdatedUpTo
<1>3. CASE a \in marked
  BY <1>1, <1>3, ResolvedMarked DEF IInv, Forwarding, Evacuated
<1> QED BY <1>2, <1>3

(***************************************************************************)
(* Marking a set of objects during the mark phase, while overwriting only  *)
(* fields whose old targets are in that set.                               *)
(***************************************************************************)
LEMMA MarkingKeepsSnapshot ==
    ASSUME IInv, phase = "Mark", NEW S \in SUBSET Addresses, mark_objects(S),
           UNCHANGED <<tag, slice>>,
           \A a \in Addresses, i \in Fields :
               field'[a][i] = field[a][i] \/ field[a][i] \in S \cup {NULL_POINTER},
           NEW C \in SUBSET Addresses, GrayClosed(C)'
    PROVE  /\ GrayClosed(C)
           /\ S \subseteq C \cup marked
           /\ \A a \in marked' \ weak_ref_registry' :
                 \/ a \in marked \ weak_ref_registry
                 \/ \A i \in Fields : field'[a][i] \in C \cup marked' \cup {NULL_POINTER}
<1> USE DEF mark_objects
<1>1. S \ marked \subseteq C /\ mark_stack \subseteq C
  BY DEF GrayClosed
<1>2. mark_stack \subseteq marked
  BY DEF IInv, TypeOK
<1>3. \A a \in Addresses \ marked : slice[a] = 0
  BY <1>2 DEF IInv, SlicesCurrent
<1>4. ASSUME NEW a \in C, a \notin marked \/ a \in mark_stack, tag[a] # "WeakRef",
             NEW i \in Unvisited(a)
      PROVE  field'[a][i] \in C \cup marked' \cup {NULL_POINTER}
  <2>1. i \in Unvisited(a)'
    BY <1>2, <1>3, <1>4, GCConstants DEF Unvisited, Fields
  <2>2. (a \notin marked \/ a \in mark_stack)'
    BY <1>4
  <2> QED BY <2>1, <2>2, <1>4 DEF GrayClosed
<1>5. ASSUME NEW a \in C, NEW i \in Unvisited(a) PROVE a \in Addresses /\ i \in Fields
  BY <1>5, GCConstants DEF Unvisited, Fields, IInv, TypeOK
<1>6. GrayClosed(C)
  <2> SUFFICES ASSUME NEW a \in C, a \notin marked \/ a \in mark_stack,
                      tag[a] # "WeakRef", NEW i \in Unvisited(a)
               PROVE  field[a][i] \in C \cup marked \cup {NULL_POINTER}
    BY <1>1 DEF GrayClosed
  <2>1. a \in Addresses /\ i \in Fields
    BY <1>5
  <2> QED BY <2>1, <1>1, <1>4
<1>7. ASSUME NEW a \in marked' \ weak_ref_registry', a \notin marked \ weak_ref_registry,
             NEW i \in Fields
      PROVE  field'[a][i] \in C \cup marked' \cup {NULL_POINTER}
  <2>1. a \in S \ marked /\ tag[a] # "WeakRef"
    BY <1>7
  <2>2. i \in Unvisited(a) /\ a \in C
    BY <2>1, <1>1 DEF Unvisited
  <2> QED BY <2>1, <2>2, <1>4
<1> QED BY <1>1, <1>6, <1>7

\* What marking does to the parts of the invariant that are about structure.
LEMMA MarkingKeepsStructure ==
    ASSUME IInv, phase = "Mark", NEW S \in SUBSET Objects, mark_objects(S)
    PROVE  /\ marked' \in SUBSET Objects
           /\ mark_stack' \subseteq marked' /\ mark_stack \subseteq mark_stack'
           /\ weak_ref_registry' \subseteq marked'
           /\ \A a \in weak_ref_registry' : tag[a] = "WeakRef"
  BY DEF IInv, TypeOK, Structure, mark_objects, Objects

(***************************************************************************)
(* The other mutator operations.                                           *)
(***************************************************************************)
LEMMA UpgradeIInv == ASSUME IInv, Upgrade PROVE IInv'
<1> USE DEF Upgrade, memory, marking, partitions
<1>1. RootTargets' \subseteq RootTargets /\ regs' = {} /\ Objects' = Objects
  BY DEF RootTargets, Targets, Objects
<1>2. root' \in [Roots -> Pointers]
  BY DEF IInv, TypeOK, Pointers
<1>3. running_gc' \in BOOLEAN /\ RunningFlagCurrent'
  BY Zenon DEF RunningFlagCurrent
<1>4. TypeOK'
  BY <1>2, <1>3 DEF IInv, TypeOK
<1>5. Structure' /\ SlicesCurrent' /\ Forwarding' /\ Evacuated'
  BY DEF IInv, Structure, SlicesCurrent, Forwarding, Evacuated, Objects, Kept, In,
         updates_needed
<1>6. LiveWhileMarking'
  <2> SUFFICES ASSUME phase \in {"Pause", "Mark"} PROVE LiveWhileMarking'
    BY DEF LiveWhileMarking
  <2>1. PICK L \in SUBSET Objects :
           RootTargets \cup regs \cup marked \subseteq L /\ Closed(L)
    BY DEF IInv, LiveWhileMarking
  <2>2. Closed(L)'
    BY <2>1 DEF Closed
  <2> QED BY <2>1, <2>2, <1>1 DEF LiveWhileMarking
<1>7. SnapshotAtTheBeginning'
  <2> SUFFICES ASSUME phase = "Mark", NEW C \in SUBSET Addresses, GrayClosed(C)'
               PROVE  /\ (RootTargets \cup regs)' \subseteq C \cup marked
                      /\ \A a \in marked \ weak_ref_registry : \A i \in Fields :
                            field[a][i] \in C \cup marked \cup {NULL_POINTER}
    BY DEF SnapshotAtTheBeginning
  <2>1. GrayClosed(C)
    BY DEF GrayClosed, Unvisited
  <2> QED BY <2>1, <1>1 DEF IInv, SnapshotAtTheBeginning
<1>8. MarkedAfterMarking'
  BY <1>1 DEF IInv, MarkedAfterMarking
<1>9. Updating'
  <2> SUFFICES ASSUME phase = "Update" PROVE Updating'
    BY DEF Updating
  <2>1. PICK N \in SUBSET (Objects \ marked) : UpdatedUpTo(N)
    BY DEF IInv, Updating
  <2>2. UpdatedUpTo(N)'
    BY <2>1, <1>1 DEF UpdatedUpTo, Kept
  <2> QED BY <2>1, <2>2, <1>1 DEF IInv, Updating, Kept
<1> QED
  BY <1>3, <1>4, <1>5, <1>6, <1>7, <1>8, <1>9 DEF IInv

\* In the pause and the mark phase, what the mutator can get at is allocated.
LEMMA HeldAreObjects ==
    ASSUME IInv, phase \in {"Pause", "Mark"}
    PROVE  /\ RootTargets \cup regs \subseteq Objects
           /\ \A x \in regs : \A i \in Fields :
                 field[x][i] \in Objects \cup {NULL_POINTER}
<1>1. PICK L \in SUBSET Objects :
           RootTargets \cup regs \cup marked \subseteq L /\ Closed(L)
  BY DEF IInv, LiveWhileMarking
<1>2. \A x \in regs : x \in Addresses
  BY DEF IInv, TypeOK
<1> QED BY <1>1, <1>2, Unforwarded DEF Closed

\* The write barrier of a root: the old target is marked before it is lost.
LEMMA WriteRootIInv ==
    ASSUME IInv, NEW r \in Roots, NEW v \in Held, WriteRoot(r, v) PROVE IInv'
<1> DEFINE w == forward_if_possible(v)
           S == IF phase = "Mark" /\ root[r] # NULL_POINTER THEN {root[r]} ELSE {}
<1> USE DEF memory, partitions
<1>1. /\ UNCHANGED <<phase, running_gc, memory, partitions, iterator, regs>>
      /\ root' = [root EXCEPT ![r] = w]
      /\ phase # "Mark" => UNCHANGED marking
  BY DEF WriteRoot, pre_write_barrier
<1>2. phase = "Mark" => mark_objects(S)
  BY DEF WriteRoot, pre_write_barrier, mark_objects, marking
<1>3. v \in regs \/ v = NULL_POINTER
  BY DEF Held
<1>4. w \in Pointers /\ (v \in regs => w = forward[v]) /\ (v \notin regs => w = NULL_POINTER)
  BY <1>3, NullIsNoAddress DEF forward_if_possible, IInv, TypeOK, Pointers
<1>5. root' \in [Roots -> Pointers]
  BY <1>1, <1>4 DEF IInv, TypeOK
<1>6. RootTargets' \subseteq RootTargets \cup Targets({w}) /\ Objects' = Objects
  BY <1>1, <1>5 DEF RootTargets, Targets, Objects, IInv, TypeOK
<1>7. root[r] # NULL_POINTER => root[r] \in RootTargets
  BY DEF RootTargets, Targets
<1>8. phase = "Mark" => S \in SUBSET Objects
  BY <1>7, HeldAreObjects
<1>9. phase \in {"Pause", "Mark"} => Targets({w}) \subseteq regs
  BY <1>4, Unforwarded DEF Targets, IInv, TypeOK
<1> HIDE DEF w, S
<1>10. /\ marked' \in SUBSET Objects
       /\ mark_stack' \subseteq marked' /\ mark_stack \subseteq mark_stack'
       /\ weak_ref_registry' \subseteq marked'
       /\ \A a \in weak_ref_registry' : tag[a] = "WeakRef"
       /\ phase # "Mark" => UNCHANGED <<marked, mark_stack, weak_ref_registry>>
  <2>1. CASE phase = "Mark"
    BY <2>1, <1>2, <1>8, MarkingKeepsStructure
  <2>2. CASE phase # "Mark"
    BY <2>2, <1>1 DEF marking, IInv, TypeOK, Structure
  <2> QED BY <2>1, <2>2
<1>11. TypeOK'
  BY <1>1, <1>5, <1>10 DEF IInv, TypeOK, Objects
<1>12. Structure' /\ SlicesCurrent' /\ RunningFlagCurrent'
  BY <1>1, <1>6, <1>10
     DEF IInv, Structure, SlicesCurrent, RunningFlagCurrent, In, updates_needed
<1>13. Forwarding' /\ Evacuated'
  <2>1. CASE phase = "Mark"
    BY <2>1, <1>1, <1>10, Unforwarded DEF Forwarding, Evacuated, Kept, Objects
  <2>2. CASE phase # "Mark"
    BY <2>2, <1>1, <1>10 DEF IInv, Forwarding, Evacuated, Kept
  <2> QED BY <2>1, <2>2
<1>14. LiveWhileMarking'
  <2> SUFFICES ASSUME phase \in {"Pause", "Mark"} PROVE LiveWhileMarking'
    BY <1>1 DEF LiveWhileMarking
  <2>1. PICK L \in SUBSET Objects :
           RootTargets \cup regs \cup marked \subseteq L /\ Closed(L)
    BY DEF IInv, LiveWhileMarking
  <2>2. Closed(L)'
    BY <2>1, <1>1 DEF Closed
  <2>3. marked' \subseteq L
    <3>1. S \subseteq L
      BY <2>1, <1>7 DEF S
    <3> QED BY <3>1, <2>1, <1>2, <1>10 DEF mark_objects
  <2> QED BY <2>1, <2>2, <2>3, <1>1, <1>6, <1>9 DEF LiveWhileMarking
<1>15. SnapshotAtTheBeginning'
  <2> SUFFICES ASSUME phase = "Mark", NEW C \in SUBSET Addresses, GrayClosed(C)'
               PROVE  /\ (RootTargets \cup regs)' \subseteq C \cup marked'
                      /\ \A a \in marked' \ weak_ref_registry' : \A i \in Fields :
                            field'[a][i] \in C \cup marked' \cup {NULL_POINTER}
    BY <1>1 DEF SnapshotAtTheBeginning
  <2>1. S \in SUBSET Addresses /\ UNCHANGED <<tag, slice, field>>
    BY <1>1, <1>8 DEF Objects
  <2>2. /\ GrayClosed(C)
        /\ \A a \in marked' \ weak_ref_registry' :
              \/ a \in marked \ weak_ref_registry
              \/ \A i \in Fields : field'[a][i] \in C \cup marked' \cup {NULL_POINTER}
    BY <2>1, <1>2, MarkingKeepsSnapshot
  <2>3. marked \subseteq marked'
    BY <1>2 DEF mark_objects
  <2>4. /\ RootTargets \cup regs \subseteq C \cup marked
        /\ \A a \in marked \ weak_ref_registry : \A i \in Fields :
              field[a][i] \in C \cup marked \cup {NULL_POINTER}
    BY <2>2 DEF IInv, SnapshotAtTheBeginning
  <2> QED BY <2>1, <2>2, <2>3, <2>4, <1>1, <1>6, <1>9
<1>16. MarkedAfterMarking'
  <2> SUFFICES ASSUME phase = "Evacuate" PROVE MarkedAfterMarking'
    BY <1>1 DEF MarkedAfterMarking
  <2>1. Targets({w}) \subseteq marked
    BY <1>4, ResolvedMarked DEF Targets, IInv, MarkedAfterMarking
  <2> QED BY <2>1, <1>1, <1>6, <1>10 DEF IInv, MarkedAfterMarking
<1>17. Updating'
  <2> SUFFICES ASSUME phase = "Update" PROVE Updating'
    BY <1>1 DEF Updating
  <2>1. PICK N \in SUBSET (Objects \ marked) : UpdatedUpTo(N)
    BY DEF IInv, Updating
  <2>2. \A p \in Targets({w}) : p \in marked \cup N /\ Kept(p)
    BY <2>1, <1>4, ResolvedKept DEF Targets, UpdatedUpTo
  <2>3. UpdatedUpTo(N)'
    BY <2>1, <2>2, <1>1, <1>6, <1>10 DEF UpdatedUpTo, Kept
  <2> QED BY <2>1, <2>3, <1>1, <1>6, <1>10 DEF IInv, Updating, Kept
<1> QED
  BY <1>11, <1>12, <1>13, <1>14, <1>15, <1>16, <1>17 DEF IInv

\* A message gets the target of a live weak reference.
LEMMA WeakGetIInv == ASSUME IInv, NEW x \in regs, WeakGet(x) PROVE IInv'
<1> DEFINE t == field[forward[x]][1]
<1>0. 1 \in Fields
  BY GCConstants DEF Fields
<1>1. x \in Addresses /\ forward[x] \in Addresses /\ t \in Addresses
  BY <1>0 DEF WeakGet, IInv, TypeOK, Pointers
<1>2. CASE phase # "Mark"
  <2>1. regs' = regs \cup {t} /\ UNCHANGED AllButRegs
    BY <1>2 DEF WeakGet, AllButRegs, pre_read_barrier
  <2>2. regs' \subseteq Addresses
    BY <2>1, <1>1 DEF IInv, TypeOK
  <2>3. \A L : regs \subseteq L /\ Closed(L) => t \in L
    BY <1>0, <1>1, NullIsNoAddress DEF Closed
  <2>4. phase = "Evacuate" => regs \cup {t} \subseteq marked
    BY <1>0, <1>1, ResolvedMarked, NullIsNoAddress DEF IInv, MarkedAfterMarking
  <2>5. ASSUME phase = "Update", NEW N \in SUBSET (Objects \ marked), UpdatedUpTo(N)
        PROVE  regs \cup {t} \subseteq marked \cup N
    <3>1. forward[x] \in marked \cup N
      BY <2>5, ResolvedKept DEF UpdatedUpTo
    <3> QED BY <3>1, <2>5, <1>0, <1>1, NullIsNoAddress DEF UpdatedUpTo
  <2> HIDE DEF t
  <2> QED BY <1>2, <2>1, <2>2, <2>3, <2>4, <2>5, RegsStep
<1>3. CASE phase = "Mark"
  <2> USE DEF memory, partitions
  <2>1. /\ UNCHANGED <<phase, running_gc, memory, partitions, iterator, root>>
        /\ regs' = regs \cup {t}
        /\ mark_objects({t})
    BY <1>3 DEF WeakGet, pre_read_barrier, IInv, RunningFlagCurrent
  <2>2. forward[x] = x
    BY <1>1, <1>3, Unforwarded
  <2>3. t \in Objects
    BY <2>2, <1>0, <1>1, <1>3, HeldAreObjects, NullIsNoAddress
  <2>4. \A L : regs \subseteq L /\ Closed(L) => t \in L
    BY <1>0, <1>1, NullIsNoAddress DEF Closed
  <2> HIDE DEF t
  <2>5. /\ marked' \in SUBSET Objects
        /\ mark_stack' \subseteq marked' /\ mark_stack \subseteq mark_stack'
        /\ weak_ref_registry' \subseteq marked'
        /\ \A a \in weak_ref_registry' : tag[a] = "WeakRef"
    BY <2>1, <2>3, <1>3, MarkingKeepsStructure
  <2>6. RootTargets' = RootTargets /\ Objects' = Objects
    BY <2>1 DEF RootTargets, Objects
  <2>7. TypeOK'
    BY <2>1, <2>5, <1>1 DEF IInv, TypeOK, Objects
  <2>8. Structure' /\ SlicesCurrent' /\ RunningFlagCurrent'
    BY <2>1, <2>5, <2>6, <1>3 DEF IInv, Structure, SlicesCurrent, RunningFlagCurrent
  <2>9. Forwarding' /\ Evacuated'
    BY <2>1, <2>5, <1>3, Unforwarded DEF Forwarding, Evacuated, Kept, Objects
  <2>10. LiveWhileMarking'
    <3>1. PICK L \in SUBSET Objects :
           RootTargets \cup regs \cup marked \subseteq L /\ Closed(L)
      BY <1>3 DEF IInv, LiveWhileMarking
    <3>2. Closed(L)'
      BY <3>1, <2>1 DEF Closed
    <3>3. t \in L /\ marked' \subseteq L
      BY <3>1, <2>1, <2>4 DEF mark_objects
    <3> QED BY <3>1, <3>2, <3>3, <2>1, <2>6 DEF LiveWhileMarking
  <2>11. SnapshotAtTheBeginning'
    <3> SUFFICES ASSUME NEW C \in SUBSET Addresses, GrayClosed(C)'
                 PROVE  /\ (RootTargets \cup regs)' \subseteq C \cup marked'
                        /\ \A a \in marked' \ weak_ref_registry' : \A i \in Fields :
                              field'[a][i] \in C \cup marked' \cup {NULL_POINTER}
      BY DEF SnapshotAtTheBeginning
    <3>1. {t} \in SUBSET Addresses /\ UNCHANGED <<tag, slice, field>>
      BY <2>1, <1>1
    <3>2. /\ GrayClosed(C)
          /\ \A a \in marked' \ weak_ref_registry' :
                \/ a \in marked \ weak_ref_registry
                \/ \A i \in Fields : field'[a][i] \in C \cup marked' \cup {NULL_POINTER}
      BY <3>1, <2>1, <1>3, MarkingKeepsSnapshot
    <3>3. marked \cup {t} \subseteq marked'
      BY <2>1 DEF mark_objects
    <3>4. /\ RootTargets \cup regs \subseteq C \cup marked
          /\ \A a \in marked \ weak_ref_registry : \A i \in Fields :
                field[a][i] \in C \cup marked \cup {NULL_POINTER}
      BY <3>2, <1>3 DEF IInv, SnapshotAtTheBeginning
    <3> QED BY <3>1, <3>2, <3>3, <3>4, <2>1, <2>6
  <2>12. MarkedAfterMarking' /\ Updating'
    BY <2>1, <1>3 DEF MarkedAfterMarking, Updating
  <2> QED BY <2>7, <2>8, <2>9, <2>10, <2>11, <2>12 DEF IInv
<1> QED BY <1>2, <1>3

\* The write barrier of a field.
LEMMA WriteFieldIInv ==
    ASSUME IInv, NEW x \in regs, NEW j \in Fields, NEW v \in Held, WriteField(x, j, v)
    PROVE  IInv'
<1> DEFINE b == forward[x]
           w == IF running_gc THEN forward_if_possible(v) ELSE v
           old == field[b][j]
           S == IF phase = "Mark" /\ old # NULL_POINTER THEN {old} ELSE {}
<1> USE DEF memory, partitions
<1>1. /\ UNCHANGED <<phase, running_gc, tag, slice, forward, id, born, partitions,
                     iterator, root, regs>>
      /\ field' = [field EXCEPT ![b] = [field[b] EXCEPT ![j] = w]]
      /\ phase # "Mark" => UNCHANGED marking
      /\ tag[b] = "Array"
  BY DEF WriteField, pre_write_barrier
<1>2. phase = "Mark" => mark_objects(S)
  BY DEF WriteField, pre_write_barrier, mark_objects, marking, IInv, RunningFlagCurrent
<1>3. v \in regs \/ v = NULL_POINTER
  BY DEF Held
<1>4. x \in Addresses /\ b \in Addresses /\ old \in Pointers /\ regs \subseteq Addresses
  BY DEF IInv, TypeOK
<1>5. /\ w \in Pointers
      /\ v \in regs => w = IF phase = "Pause" THEN v ELSE forward[v]
      /\ v \notin regs => w = NULL_POINTER
  BY <1>3, NullIsNoAddress
     DEF forward_if_possible, IInv, TypeOK, Pointers, RunningFlagCurrent
<1>6. phase \in {"Pause", "Mark"} => (w \in regs \/ w = NULL_POINTER) /\ b = x
  BY <1>4, <1>5, Unforwarded
<1>7. phase = "Mark" => S \in SUBSET Objects
  BY <1>6, HeldAreObjects
<1> HIDE DEF w, S, b, old
<1>8. \A a \in Addresses, i \in Fields :
         field'[a][i] = IF a = b /\ i = j THEN w ELSE field[a][i]
  BY <1>1, <1>4 DEF IInv, TypeOK
<1>9. field' \in [Addresses -> [Fields -> Pointers]]
  BY <1>1, <1>4, <1>5 DEF IInv, TypeOK
<1>10. /\ marked' \in SUBSET Objects
       /\ mark_stack' \subseteq marked' /\ mark_stack \subseteq mark_stack'
       /\ weak_ref_registry' \subseteq marked'
       /\ \A a \in weak_ref_registry' : tag[a] = "WeakRef"
       /\ phase # "Mark" => UNCHANGED <<marked, mark_stack, weak_ref_registry>>
  <2>1. CASE phase = "Mark"
    BY <2>1, <1>2, <1>7, MarkingKeepsStructure
  <2>2. CASE phase # "Mark"
    BY <2>2, <1>1 DEF marking, IInv, TypeOK, Structure
  <2> QED BY <2>1, <2>2
<1>11. RootTargets' = RootTargets /\ Objects' = Objects /\ Objects \subseteq Addresses
  BY <1>1 DEF RootTargets, Objects
<1>12. TypeOK'
  BY <1>1, <1>9, <1>10 DEF IInv, TypeOK, Objects
<1>13. Structure'
  <2>1. \A a \in Addresses : tag[a] = "WeakRef" =>
           \A i \in Fields \ {1} : field'[a][i] = NULL_POINTER
    BY <1>1, <1>8 DEF IInv, Structure
  <2>2. \A a \in Addresses \ Objects : field'[a] = NoFields
    BY <1>1, <1>4 DEF IInv, Structure, Objects, TypeOK
  <2> QED BY <2>1, <2>2, <1>1, <1>10, <1>11 DEF IInv, Structure
<1>14. SlicesCurrent' /\ RunningFlagCurrent'
  BY <1>1, <1>10 DEF IInv, SlicesCurrent, RunningFlagCurrent, In, updates_needed
<1>15. Forwarding' /\ Evacuated'
  <2>1. CASE phase = "Mark"
    BY <2>1, <1>1, <1>10, Unforwarded DEF Forwarding, Evacuated, Kept, Objects
  <2>2. CASE phase # "Mark"
    BY <2>2, <1>1, <1>10 DEF IInv, Forwarding, Evacuated, Kept
  <2> QED BY <2>1, <2>2
<1>16. LiveWhileMarking'
  <2> SUFFICES ASSUME phase \in {"Pause", "Mark"} PROVE LiveWhileMarking'
    BY <1>1 DEF LiveWhileMarking
  <2>1. PICK L \in SUBSET Objects :
           RootTargets \cup regs \cup marked \subseteq L /\ Closed(L)
    BY DEF IInv, LiveWhileMarking
  <2>2. ASSUME NEW a \in L
        PROVE  /\ forward'[a] \in L
               /\ \A i \in Fields : field'[forward'[a]][i] \in L \cup {NULL_POINTER}
    <3>1. forward[a] \in Addresses /\ forward'[a] = forward[a] /\ forward[a] \in L
      BY <2>1, <1>1, <1>11 DEF Closed
    <3>2. \A i \in Fields : field[forward[a]][i] \in L \cup {NULL_POINTER}
      BY <2>1 DEF Closed
    <3>3. w \in L \cup {NULL_POINTER}
      BY <2>1, <1>6
    <3> QED BY <3>1, <3>2, <3>3, <1>8
  <2>3. Closed(L)'
    BY <2>2 DEF Closed
  <2>4. marked' \subseteq L
    <3>1. S \subseteq L
      BY <2>1, <1>6 DEF S, old, b, Closed
    <3> QED BY <3>1, <2>1, <1>2, <1>10 DEF mark_objects
  <2> QED BY <2>1, <2>3, <2>4, <1>1, <1>11 DEF LiveWhileMarking
<1>17. SnapshotAtTheBeginning'
  <2> SUFFICES ASSUME phase = "Mark", NEW C \in SUBSET Addresses, GrayClosed(C)'
               PROVE  /\ (RootTargets \cup regs)' \subseteq C \cup marked'
                      /\ \A a \in marked' \ weak_ref_registry' : \A i \in Fields :
                            field'[a][i] \in C \cup marked' \cup {NULL_POINTER}
    BY <1>1 DEF SnapshotAtTheBeginning
  <2>1. S \in SUBSET Addresses /\ UNCHANGED <<tag, slice>>
    BY <1>1, <1>7, <1>11
  <2>2. \A a \in Addresses, i \in Fields :
            field'[a][i] = field[a][i] \/ field[a][i] \in S \cup {NULL_POINTER}
    BY <1>8 DEF S, old
  <2>3. /\ GrayClosed(C)
        /\ \A a \in marked' \ weak_ref_registry' :
              \/ a \in marked \ weak_ref_registry
              \/ \A i \in Fields : field'[a][i] \in C \cup marked' \cup {NULL_POINTER}
    BY <2>1, <2>2, <1>2, MarkingKeepsSnapshot
  <2>4. marked \subseteq marked' /\ marked \subseteq Addresses
    BY <1>2 DEF mark_objects, IInv, TypeOK
  <2>5. /\ RootTargets \cup regs \subseteq C \cup marked
        /\ \A a \in marked \ weak_ref_registry : \A i \in Fields :
              field[a][i] \in C \cup marked \cup {NULL_POINTER}
    BY <2>3 DEF IInv, SnapshotAtTheBeginning
  <2>6. w \in C \cup marked \cup {NULL_POINTER}
    BY <2>5, <1>6
  <2> QED BY <2>3, <2>4, <2>5, <2>6, <1>1, <1>8, <1>11
<1>18. MarkedAfterMarking'
  <2> SUFFICES ASSUME phase = "Evacuate" PROVE MarkedAfterMarking'
    BY <1>1 DEF MarkedAfterMarking
  <2>1. w \in marked \cup {NULL_POINTER}
    BY <1>5, ResolvedMarked DEF IInv, MarkedAfterMarking
  <2>2. marked \subseteq Addresses
    BY DEF IInv, TypeOK
  <2> QED BY <2>1, <2>2, <1>1, <1>8, <1>10, <1>11 DEF IInv, MarkedAfterMarking
<1>19. Updating'
  <2> SUFFICES ASSUME phase = "Update" PROVE Updating'
    BY <1>1 DEF Updating
  <2>1. PICK N \in SUBSET (Objects \ marked) : UpdatedUpTo(N)
    BY DEF IInv, Updating
  <2>2. w # NULL_POINTER => w \in marked \cup N /\ Kept(w)
    BY <2>1, <1>5, ResolvedKept DEF UpdatedUpTo
  <2>3. marked \cup N \subseteq Addresses
    BY <1>11 DEF IInv, TypeOK
  <2>4. ASSUME NEW a \in marked \cup N, NEW i \in Fields, field'[a][i] # NULL_POINTER
        PROVE  /\ field'[a][i] \in marked \cup N
               /\ (a \in N \/ (Kept(a) /\ (a < iterator \/ (a = iterator /\ i <= slice[a]))))
                     => Kept(field'[a][i])
    <3>1. CASE a = b /\ i = j
      BY <3>1, <2>2, <2>3, <2>4, <1>8
    <3>2. CASE ~(a = b /\ i = j)
      BY <3>2, <2>1, <2>3, <2>4, <1>8 DEF UpdatedUpTo
    <3> QED BY <3>1, <3>2
  <2>5. UpdatedUpTo(N)'
    BY <2>1, <2>4, <1>1, <1>10, <1>11 DEF UpdatedUpTo, Kept
  <2> QED BY <2>1, <2>5, <1>1, <1>10, <1>11 DEF IInv, Updating, Kept
<1> QED
  BY <1>12, <1>13, <1>14, <1>15, <1>16, <1>17, <1>18, <1>19 DEF IInv

(***************************************************************************)
(* Allocation.                                                             *)
(***************************************************************************)
LEMMA AllocFacts ==
    ASSUME IInv, NEW a, NEW reserve, alloc_words(a, reserve)
    PROVE  /\ a \in Addresses \ Objects
           /\ partition_of(a) = allocation_index'
           /\ allocation_index' \in Partitions
           /\ allocation_index' \notin free' \cup evacuate
           /\ free' \subseteq free
<1> USE DEF IInv, TypeOK, Structure, Lowest, Unused
<1>1. CASE a \in Lowest(Unused(allocation_index)) /\ UNCHANGED <<free, allocation_index>>
  BY <1>1
<1>2. CASE \E p \in Lowest(free) : /\ a \in Lowest(Unused(p))
                                   /\ free' = free \ {p}
                                   /\ allocation_index' = p
  BY <1>2
<1> QED BY <1>1, <1>2 DEF alloc_words

\* An allocation of either kind, in every phase.
LEMMA AllocStep ==
    ASSUME IInv, NEW a, NEW t \in {"Array", "WeakRef"}, NEW f \in [Fields -> Pointers],
           alloc_words(a, EvacuationReserve), mark_new_allocation(a), new_object(a, t, f),
           UNCHANGED <<phase, running_gc, slice, forward, evacuate, update, iterator, root>>,
           t = "WeakRef" => \A i \in Fields \ {1} : f[i] = NULL_POINTER,
           phase \in {"Pause", "Mark"} => \A i \in Fields : f[i] \in Held,
           phase = "Evacuate" => \A i \in Fields : f[i] \in marked \cup {NULL_POINTER},
           phase = "Update" => \A N \in SUBSET (Objects \ marked) : UpdatedUpTo(N) =>
               \A i \in Fields : f[i] # NULL_POINTER => f[i] \in marked \cup N /\ Kept(f[i])
    PROVE  IInv'
<1>1. /\ a \in Addresses \ Objects
      /\ partition_of(a) = allocation_index'
      /\ allocation_index' \in Partitions
      /\ allocation_index' \notin free' \cup evacuate
      /\ free' \subseteq free
  BY AllocFacts
<1>2. /\ tag' = [tag EXCEPT ![a] = t]
      /\ field' = [field EXCEPT ![a] = f]
      /\ regs' = regs \cup {a}
      /\ mark_stack' = mark_stack /\ weak_ref_registry' = weak_ref_registry
      /\ marked' = IF phase \in {"Mark", "Evacuate"} THEN marked \cup {a} ELSE marked
  BY DEF new_object, mark_new_allocation
<1>3. id' \in [Addresses -> Nat] /\ born' \in Nat
  BY <1>1 DEF new_object, IInv, TypeOK
<1>4. Objects' = Objects \cup {a} /\ Objects \subseteq Addresses /\ RootTargets' = RootTargets
  BY <1>1, <1>2 DEF Objects, RootTargets, IInv, TypeOK
<1>5. \A b \in Addresses : /\ field'[b] = IF b = a THEN f ELSE field[b]
                           /\ tag'[b] = IF b = a THEN t ELSE tag[b]
  BY <1>1, <1>2 DEF IInv, TypeOK
<1>6. a \notin marked /\ forward[a] = a /\ slice[a] = 0 /\ field[a] = NoFields /\ tag[a] = "Free"
  BY <1>1 DEF IInv, Structure, Objects
<1>7. TypeOK'
  <2>1. tag' \in [Addresses -> {"Free", "Array", "WeakRef"}]
    BY <1>1, <1>2 DEF IInv, TypeOK
  <2>2. field' \in [Addresses -> [Fields -> Pointers]]
    BY <1>1, <1>2 DEF IInv, TypeOK
  <2> QED BY <2>1, <2>2, <1>1, <1>2, <1>3, ZenonT(40) DEF IInv, TypeOK
<1>8. Structure'
  <2>1. \A b \in (Addresses \ Objects)' : forward[b] = b /\ slice[b] = 0 /\ field'[b] = NoFields
    BY <1>4, <1>5 DEF IInv, Structure, Addresses
  <2>2. \A b \in Objects' : partition_of(b) \in Partitions \ free'
    BY <1>1, <1>4 DEF IInv, Structure
  <2>3. \A b \in Addresses : tag'[b] = "WeakRef" =>
           slice[b] = 0 /\ \A i \in Fields \ {1} : field'[b][i] = NULL_POINTER
    BY <1>5, <1>6 DEF IInv, Structure
  <2>4. \A b \in weak_ref_registry : tag'[b] = "WeakRef"
    BY <1>5, <1>6 DEF IInv, Structure, TypeOK
  <2> QED BY <2>1, <2>2, <2>3, <2>4, <1>1, <1>2, <1>4 DEF IInv, Structure
<1>9. SlicesCurrent' /\ RunningFlagCurrent' /\ Forwarding' /\ Evacuated'
  BY <1>1, <1>2, <1>6
     DEF IInv, SlicesCurrent, RunningFlagCurrent, Forwarding, Evacuated, Kept, In,
         updates_needed
<1>10. LiveWhileMarking'
  <2> SUFFICES ASSUME phase \in {"Pause", "Mark"} PROVE LiveWhileMarking'
    BY DEF LiveWhileMarking
  <2>1. PICK L \in SUBSET Objects :
           RootTargets \cup regs \cup marked \subseteq L /\ Closed(L)
    BY DEF IInv, LiveWhileMarking
  <2>2. ASSUME NEW b \in L \cup {a}
        PROVE  /\ forward[b] \in L \cup {a}
               /\ \A i \in Fields : field'[forward[b]][i] \in L \cup {a, NULL_POINTER}
    <3>1. CASE b = a
      BY <3>1, <2>1, <1>1, <1>5, <1>6 DEF Held
    <3>2. CASE b \in L
      <4>1. forward[b] \in L /\ forward[b] \in Addresses /\ forward[b] # a
        BY <3>2, <2>1, <1>1 DEF Closed, Objects
      <4> QED BY <4>1, <3>2, <2>1, <1>5 DEF Closed
    <3> QED BY <3>1, <3>2
  <2>3. Closed(L \cup {a})'
    BY <2>2 DEF Closed
  <2> QED BY <2>1, <2>3, <1>2, <1>4 DEF LiveWhileMarking
<1>11. SnapshotAtTheBeginning'
  <2> SUFFICES ASSUME phase = "Mark", NEW C \in SUBSET Addresses, GrayClosed(C)'
               PROVE  /\ (RootTargets \cup regs)' \subseteq C \cup marked'
                      /\ \A b \in marked' \ weak_ref_registry' : \A i \in Fields :
                            field'[b][i] \in C \cup marked' \cup {NULL_POINTER}
    BY DEF SnapshotAtTheBeginning
  <2> DEFINE D == C \cup {a}
  <2>0. marked' = marked \cup {a} /\ mark_stack \subseteq marked /\ marked \subseteq Addresses
    BY <1>2 DEF IInv, TypeOK
  <2>1. ASSUME NEW b \in D, b \notin marked \/ b \in mark_stack, tag[b] # "WeakRef",
               NEW i \in Unvisited(b)
        PROVE  field[b][i] \in D \cup marked \cup {NULL_POINTER}
    <3>1. i \in Fields
      BY <2>1, <1>1, GCConstants DEF Unvisited, Fields, IInv, TypeOK
    <3>2. CASE b = a
      BY <3>1, <3>2, <1>6 DEF NoFields
    <3>3. CASE b # a
      <4>1. b \in C /\ b \in Addresses /\ (b \notin marked' \/ b \in mark_stack')
        BY <3>3, <2>0, <2>1, <1>2
      <4>2. i \in Unvisited(b)' /\ tag'[b] # "WeakRef" /\ field'[b] = field[b]
        BY <4>1, <3>3, <2>0, <2>1, <1>5 DEF Unvisited
      <4> QED BY <4>1, <4>2, <2>0 DEF GrayClosed
    <3> QED BY <3>2, <3>3
  <2>2. GrayClosed(D) /\ D \in SUBSET Addresses
    BY <2>1, <1>1, <1>2 DEF GrayClosed
  <2>3. /\ RootTargets \cup regs \subseteq D \cup marked
        /\ \A b \in marked \ weak_ref_registry : \A i \in Fields :
              field[b][i] \in D \cup marked \cup {NULL_POINTER}
    BY <2>2 DEF IInv, SnapshotAtTheBeginning
  <2>4. \A i \in Fields : f[i] \in D \cup marked \cup {NULL_POINTER}
    BY <2>3 DEF Held
  <2>5. ASSUME NEW b \in marked' \ weak_ref_registry', NEW i \in Fields
        PROVE  field'[b][i] \in C \cup marked' \cup {NULL_POINTER}
    <3>1. CASE b = a
      BY <3>1, <2>0, <2>4, <1>1, <1>5
    <3>2. CASE b # a
      BY <3>2, <2>0, <2>3, <1>2, <1>5
    <3> QED BY <3>1, <3>2
  <2> QED BY <2>0, <2>3, <2>5, <1>2, <1>4
<1>12. MarkedAfterMarking'
  <2> SUFFICES ASSUME phase = "Evacuate" PROVE MarkedAfterMarking'
    BY DEF MarkedAfterMarking
  <2>1. ASSUME NEW b \in marked', NEW i \in Fields
        PROVE  field'[b][i] \in marked' \cup {NULL_POINTER}
    <3>0. b \in Addresses
      BY <1>1, <1>2 DEF IInv, TypeOK
    <3>1. CASE b = a
      BY <3>0, <3>1, <1>2, <1>5
    <3>2. CASE b # a
      BY <3>0, <3>2, <1>2, <1>5 DEF IInv, MarkedAfterMarking
    <3> QED BY <3>1, <3>2
  <2> QED BY <2>1, <1>2, <1>4 DEF IInv, MarkedAfterMarking
<1>13. Updating'
  <2> SUFFICES ASSUME phase = "Update" PROVE Updating'
    BY DEF Updating
  <2>1. PICK N \in SUBSET (Objects \ marked) : UpdatedUpTo(N)
    BY DEF IInv, Updating
  <2> DEFINE M == N \cup {a}
  <2>2. marked' = marked /\ M \in SUBSET (Objects \ marked)' /\ marked \cup M \subseteq Addresses
    BY <2>1, <1>1, <1>2, <1>4, <1>6 DEF IInv, TypeOK
  <2>3. ASSUME NEW b \in marked \cup M, NEW i \in Fields, field'[b][i] # NULL_POINTER
        PROVE  /\ field'[b][i] \in marked \cup M
               /\ (b \in M \/ (Kept(b) /\ (b < iterator \/ (b = iterator /\ i <= slice[b]))))
                     => Kept(field'[b][i])
    <3>1. CASE b = a
      BY <3>1, <2>1, <2>2, <2>3, <1>5
    <3>2. CASE b # a
      BY <3>2, <2>1, <2>2, <2>3, <1>5 DEF UpdatedUpTo
    <3> QED BY <3>1, <3>2
  <2>4. \A b \in M : Kept(b)
    BY <2>1, <1>1 DEF UpdatedUpTo, Kept
  <2>5. UpdatedUpTo(M)'
    BY <2>1, <2>2, <2>3, <2>4, <1>2, <1>4 DEF UpdatedUpTo, Kept
  <2> QED BY <2>2, <2>5, <1>4 DEF IInv, Updating, Kept
<1> QED
  BY <1>7, <1>8, <1>9, <1>10, <1>11, <1>12, <1>13 DEF IInv

\* A new object with its fields (the allocation barrier).
LEMMA AllocateIInv ==
    ASSUME IInv, NEW a, NEW fields \in [Fields -> Held], Allocate(a, fields)
    PROVE  IInv'
<1> DEFINE f == update_new_allocation(fields)
<1>1. Held \subseteq Pointers /\ regs \subseteq Addresses
  BY DEF Held, IInv, TypeOK, Pointers
<1>2. \A v \in Held : forward_if_possible(v) \in Pointers
  BY <1>1 DEF forward_if_possible, IInv, TypeOK, Pointers
<1>3. f \in [Fields -> Pointers]
  BY <1>1, <1>2 DEF update_new_allocation
<1>4. phase # "Update" => f = fields
  BY DEF update_new_allocation
<1>5. phase = "Evacuate" => \A i \in Fields : f[i] \in marked \cup {NULL_POINTER}
  BY <1>4 DEF IInv, MarkedAfterMarking, Held
<1>6. ASSUME phase = "Update", NEW N \in SUBSET (Objects \ marked), UpdatedUpTo(N),
             NEW i \in Fields, f[i] # NULL_POINTER
      PROVE  f[i] \in marked \cup N /\ Kept(f[i])
  <2>1. fields[i] = NULL_POINTER \/ fields[i] \in regs
    BY DEF Held
  <2>2. fields[i] \in regs => fields[i] \in marked \cup N /\ fields[i] # NULL_POINTER
    BY <1>1, <1>6, NullIsNoAddress DEF UpdatedUpTo
  <2>3. CASE updates_needed
    <3>1. f[i] = forward_if_possible(fields[i])
      BY <2>3, <1>6 DEF update_new_allocation
    <3> QED BY <3>1, <2>1, <2>2, <1>6, ResolvedKept DEF forward_if_possible
  <2>4. CASE ~updates_needed
    BY <2>1, <2>2, <2>4, <1>6 DEF update_new_allocation, updates_needed, Kept
  <2> QED BY <2>3, <2>4
<1>7. /\ alloc_words(a, EvacuationReserve)
      /\ UNCHANGED <<phase, running_gc, slice, forward, evacuate, update, iterator, root>>
      /\ mark_new_allocation(a)
      /\ new_object(a, "Array", f)
  <2>1. CASE running_gc
    BY <2>1 DEF Allocate
  <2>2. CASE ~running_gc
    <3>1. phase = "Pause"
      BY <2>2 DEF IInv, RunningFlagCurrent
    <3> QED BY <3>1, <2>2, <1>4 DEF Allocate, mark_new_allocation, marking
  <2> QED BY <2>1, <2>2
<1> HIDE DEF f
<1> QED
  BY <1>3, <1>4, <1>5, <1>6, <1>7, AllocStep

\* A new weak reference.
LEMMA AllocateWeakRefIInv ==
    ASSUME IInv, NEW a, NEW target \in regs, AllocateWeakRef(a, target)
    PROVE  IInv'
<1> DEFINE t == forward_if_possible(target)
           g == [NoFields EXCEPT ![1] = t]
           f == update_new_allocation(g)
<1>0. 1 \in Fields
  BY GCConstants DEF Fields
<1>1. target \in Addresses /\ target # NULL_POINTER /\ t = forward[target] /\ t \in Addresses
  BY NullIsNoAddress DEF forward_if_possible, IInv, TypeOK
<1> HIDE DEF t
<1>2. /\ g \in [Fields -> Pointers]
      /\ \A i \in Fields : g[i] = IF i = 1 THEN t ELSE NULL_POINTER
  BY <1>0, <1>1 DEF NoFields, Pointers
<1> HIDE DEF g
<1>3. /\ f \in [Fields -> Pointers]
      /\ phase # "Update" => f = g
      /\ \A i \in Fields \ {1} : f[i] = NULL_POINTER
      /\ f[1] \in {t, forward[t]}
      /\ phase = "Update" => f[1] = forward[t] \/ evacuate = {}
  BY <1>0, <1>1, <1>2, NullIsNoAddress
     DEF update_new_allocation, forward_if_possible, updates_needed, IInv, TypeOK, Pointers
<1> HIDE DEF f
<1>4. phase \in {"Pause", "Mark"} => \A i \in Fields : f[i] \in Held
  BY <1>1, <1>2, <1>3, Unforwarded DEF Held
<1>5. phase = "Evacuate" => \A i \in Fields : f[i] \in marked \cup {NULL_POINTER}
  BY <1>1, <1>2, <1>3, ResolvedMarked DEF IInv, MarkedAfterMarking
<1>6. ASSUME phase = "Update", NEW N \in SUBSET (Objects \ marked), UpdatedUpTo(N),
             NEW i \in Fields, f[i] # NULL_POINTER
      PROVE  f[i] \in marked \cup N /\ Kept(f[i])
  <2>1. i = 1 /\ target \in marked \cup N
    BY <1>3, <1>6 DEF UpdatedUpTo
  <2>2. t \in marked \cup N
    BY <2>1, <1>1, <1>6, ResolvedKept
  <2>3. forward[t] \in marked \cup N /\ Kept(forward[t])
    BY <2>2, <1>6, ResolvedKept
  <2> QED BY <2>1, <2>2, <2>3, <1>3, <1>6 DEF Kept
<1>7. /\ alloc_words(a, EvacuationReserve)
      /\ UNCHANGED <<phase, running_gc, slice, forward, evacuate, update, iterator, root>>
      /\ mark_new_allocation(a)
      /\ new_object(a, "WeakRef", f)
  BY DEF AllocateWeakRef, f, g, t
<1> QED
  BY <1>3, <1>4, <1>5, <1>6, <1>7, AllocStep

(***************************************************************************)
(* The mark phase.                                                         *)
(***************************************************************************)
LEMMA start_markingIInv == ASSUME IInv, start_marking PROVE IInv'
<1> USE DEF start_marking, memory, partitions
<1>1. phase = "Pause" /\ phase' = "Mark" /\ marked = {} /\ mark_stack = {} /\ regs' = {}
  BY DEF set_phase, IInv, Structure
<1>2. running_gc' \in BOOLEAN /\ RunningFlagCurrent'
  BY <1>1, Zenon DEF set_phase, RunningFlagCurrent
<1>3. RootTargets' = RootTargets /\ Objects' = Objects /\ RootTargets \subseteq Objects
  BY <1>1, HeldAreObjects DEF RootTargets, Objects
<1>4. /\ marked' = RootTargets
      /\ mark_stack' = RootTargets
      /\ weak_ref_registry' = {w \in RootTargets : tag[w] = "WeakRef"}
  BY <1>1 DEF mark_objects, RootTargets, IInv, Structure
<1>5. \A a \in Addresses : slice[a] = 0
  BY <1>1 DEF IInv, SlicesCurrent
<1>6. TypeOK'
  BY <1>1, <1>2, <1>3, <1>4 DEF IInv, TypeOK, Phases, Objects
<1>7. Structure' /\ SlicesCurrent'
  BY <1>1, <1>3, <1>4, <1>5 DEF IInv, Structure, SlicesCurrent
<1>8. Forwarding' /\ Evacuated'
  BY <1>1, <1>3, <1>4, Unforwarded DEF Forwarding, Evacuated, Kept, Objects
<1>9. LiveWhileMarking'
  <2>1. PICK L \in SUBSET Objects : RootTargets \cup regs \cup marked \subseteq L /\ Closed(L)
    BY <1>1 DEF IInv, LiveWhileMarking
  <2>2. Closed(L)'
    BY <2>1 DEF Closed
  <2> QED BY <2>1, <2>2, <1>1, <1>3, <1>4 DEF LiveWhileMarking
<1>10. SnapshotAtTheBeginning'
  <2> SUFFICES ASSUME NEW C \in SUBSET Addresses, GrayClosed(C)'
               PROVE  /\ (RootTargets \cup regs)' \subseteq C \cup marked'
                      /\ \A a \in marked' \ weak_ref_registry' : \A i \in Fields :
                            field'[a][i] \in C \cup marked' \cup {NULL_POINTER}
    BY DEF SnapshotAtTheBeginning
  <2>1. \A a \in Addresses : Unvisited(a)' = Fields
    BY <1>5 DEF Unvisited, Fields
  <2>2. mark_stack' \subseteq C
    BY DEF GrayClosed
  <2> QED BY <2>1, <2>2, <1>1, <1>3, <1>4 DEF GrayClosed, Objects
<1>11. MarkedAfterMarking' /\ Updating'
  BY <1>1 DEF MarkedAfterMarking, Updating
<1> QED
  BY <1>2, <1>6, <1>7, <1>8, <1>9, <1>10, <1>11 DEF IInv

\* The slice arithmetic.
LEMMA SliceFacts ==
    ASSUME IInv, NEW a \in Addresses
    PROVE  /\ slice[a] \in 0 .. NumFields
           /\ slice_stop(a) \in 0 .. NumFields
           /\ slice[a] <= slice_stop(a)
           /\ SliceFields(a) \subseteq Fields
           /\ \A i \in Fields : i > slice[a] => i \in SliceFields(a) \/ i > slice_stop(a)
           /\ \A i \in Fields : i <= slice_stop(a) => i <= slice[a] \/ i \in SliceFields(a)
  BY GCConstants DEF IInv, TypeOK, slice_stop, SliceFields, Fields

\* A slice of an object is marked.
LEMMA mark_incrementIInv ==
    ASSUME IInv, NEW a \in mark_stack, mark_increment(a) PROVE IInv'
<1> USE DEF partitions
<1> DEFINE weak == tag[a] = "WeakRef"
           R == IF weak THEN {} ELSE Targets({field[a][i] : i \in SliceFields(a)})
           stays == ~weak /\ slice_stop(a) < NumFields
<1>1. /\ phase = "Mark" /\ regs = {}
      /\ UNCHANGED <<phase, running_gc, tag, forward, field, id, born, partitions,
                     iterator, root, regs>>
  BY DEF mark_increment
<1>2. /\ marked' = marked \cup R
      /\ mark_stack' = (mark_stack \ {a}) \cup (R \ marked) \cup (IF stays THEN {a} ELSE {})
      /\ weak_ref_registry' = weak_ref_registry \cup {w \in R \ marked : tag[w] = "WeakRef"}
  BY DEF mark_increment, mark_fields
<1>3. slice' = IF weak THEN slice
               ELSE [slice EXCEPT ![a] = IF stays THEN slice_stop(a) ELSE 0]
  BY DEF mark_increment, mark_fields, next_slice
<1>4. a \in marked /\ a \in Addresses /\ mark_stack \subseteq marked /\ marked \subseteq Addresses
  BY DEF IInv, TypeOK
<1>5. /\ slice[a] \in 0 .. NumFields
      /\ slice_stop(a) \in 0 .. NumFields
      /\ SliceFields(a) \subseteq Fields
      /\ \A i \in Fields : i > slice[a] => i \in SliceFields(a) \/ i > slice_stop(a)
  BY <1>4, SliceFacts
<1>6. PICK L \in SUBSET Objects : RootTargets \cup regs \cup marked \subseteq L /\ Closed(L)
  BY <1>1 DEF IInv, LiveWhileMarking
<1>7. R \subseteq L
  <2>1. \A i \in Fields : field[a][i] \in L \cup {NULL_POINTER}
    BY <1>1, <1>4, <1>6, Unforwarded DEF Closed
  <2> QED BY <2>1, <1>5 DEF Targets
<1>8. RootTargets' = RootTargets /\ Objects' = Objects /\ Objects \subseteq Addresses
  BY <1>1 DEF RootTargets, Objects
<1>9. weak => slice[a] = 0
  BY <1>4 DEF IInv, Structure
<1>10. \A i \in SliceFields(a) : ~weak => field[a][i] \in R \cup {NULL_POINTER}
  BY DEF Targets
<1>11. \A b \in Addresses \ {a} : slice'[b] = slice[b]
  BY <1>3, <1>4 DEF IInv, TypeOK
<1>12. ~weak => slice'[a] = IF stays THEN slice_stop(a) ELSE 0
  BY <1>3, <1>4 DEF IInv, TypeOK
<1> HIDE DEF R, stays
<1>13. TypeOK'
  <2>1. slice' \in [Addresses -> 0 .. NumFields]
    BY <1>3, <1>5, GCConstants DEF IInv, TypeOK
  <2> QED BY <2>1, <1>1, <1>2, <1>4, <1>6, <1>7, <1>8 DEF IInv, TypeOK
<1>14. Structure'
  <2>1. \A b \in Addresses \ Objects : slice'[b] = slice[b]
    BY <1>4, <1>11 DEF IInv, Structure
  <2>2. marked' \subseteq Objects
    BY <1>2, <1>6, <1>7
  <2>3. \A b \in Addresses : tag[b] = "WeakRef" => slice'[b] = 0
    BY <1>3, <1>11 DEF IInv, Structure
  <2> QED BY <2>1, <2>2, <2>3, <1>1, <1>2, <1>8 DEF IInv, Structure
<1>15. Forwarding' /\ Evacuated' /\ RunningFlagCurrent'
  <2>1. \A b \in Addresses : forward'[b] = b /\ Kept(b)'
    BY <1>1, Unforwarded DEF Kept
  <2>2. marked' \subseteq Addresses
    BY <1>2, <1>4, <1>7, <1>8
  <2> QED BY <2>1, <2>2, <1>1 DEF IInv, Forwarding, Evacuated, RunningFlagCurrent
<1>16. LiveWhileMarking'
  <2>1. Closed(L)'
    BY <1>1, <1>6 DEF Closed
  <2> QED BY <2>1, <1>1, <1>2, <1>6, <1>7, <1>8 DEF LiveWhileMarking
<1>17. MarkedAfterMarking' /\ Updating'
  BY <1>1 DEF MarkedAfterMarking, Updating
<1>18. \A b \in Addresses \ marked : slice[b] = 0
  BY <1>1, <1>4 DEF IInv, SlicesCurrent
<1>19. SnapshotAtTheBeginning'
  <2> SUFFICES ASSUME NEW C \in SUBSET Addresses, GrayClosed(C)'
               PROVE  /\ RootTargets \cup regs \subseteq C \cup marked'
                      /\ \A b \in marked' \ weak_ref_registry' : \A i \in Fields :
                            field[b][i] \in C \cup marked' \cup {NULL_POINTER}
    BY <1>1, <1>8 DEF SnapshotAtTheBeginning
  <2> DEFINE D == C \cup {a}
  <2>1. mark_stack' \subseteq C /\ R \ marked \subseteq C
    BY <1>2 DEF GrayClosed
  <2>2. \A b \in C : (b \notin marked' \/ b \in mark_stack') /\ tag[b] # "WeakRef" =>
           \A i \in Unvisited(b)' : field[b][i] \in C \cup marked \cup {NULL_POINTER}
    BY <2>1, <1>1, <1>2 DEF GrayClosed
  <2>3. ASSUME NEW b \in D, b \notin marked \/ b \in mark_stack, tag[b] # "WeakRef",
               NEW i \in Unvisited(b)
        PROVE  field[b][i] \in D \cup marked \cup {NULL_POINTER}
    <3>0. i \in Fields /\ b \in Addresses
      BY <2>3, <1>4, GCConstants DEF Unvisited, Fields, IInv, TypeOK
    <3>1. CASE b = a
      <4>1. i > slice[a]
        BY <3>0, <3>1, <2>3, <1>4, <1>5, GCConstants DEF Unvisited, Fields
      <4>2. CASE i \in SliceFields(a)
        BY <4>2, <3>1, <2>1, <2>3, <1>10
      <4>3. CASE i > slice_stop(a)
        <5>1. stays
          BY <4>3, <3>0, <3>1, <2>3, <1>5, GCConstants DEF stays, Fields
        <5>2. a \in C /\ a \in mark_stack' /\ a \in marked'
          BY <5>1, <2>1, <1>2, <1>4
        <5>3. i \in Unvisited(a)'
          BY <5>1, <5>2, <4>3, <3>0, <3>1, <2>3, <1>5, <1>12, GCConstants DEF Unvisited, Fields
        <5> QED BY <5>2, <5>3, <3>1, <2>2, <2>3
      <4> QED BY <4>1, <4>2, <4>3, <3>0, <1>5
    <3>2. CASE b # a
      <4>1. b \in C /\ (b \notin marked' \/ b \in mark_stack')
        BY <3>2, <2>3, <1>2
      <4>2. i \in Unvisited(b)'
        BY <4>1, <3>0, <3>2, <2>3, <1>2, <1>11, <1>18 DEF Unvisited, Fields
      <4> QED BY <4>1, <4>2, <2>2, <2>3
    <3> QED BY <3>1, <3>2
  <2>4. GrayClosed(D) /\ D \in SUBSET Addresses
    BY <2>1, <2>3, <1>2, <1>4 DEF GrayClosed
  <2>5. /\ RootTargets \cup regs \subseteq D \cup marked
        /\ \A b \in marked \ weak_ref_registry : \A i \in Fields :
              field[b][i] \in D \cup marked \cup {NULL_POINTER}
    BY <2>4, <1>1 DEF IInv, SnapshotAtTheBeginning
  <2>6. ASSUME NEW b \in marked' \ weak_ref_registry', NEW i \in Fields
        PROVE  field[b][i] \in C \cup marked' \cup {NULL_POINTER}
    <3>1. CASE b \in marked \ weak_ref_registry
      BY <3>1, <2>5, <1>2, <1>4
    <3>2. CASE b \notin marked \ weak_ref_registry
      <4>1. b \in R \ marked /\ tag[b] # "WeakRef" /\ b \in mark_stack' /\ b # a /\ b \in Addresses
        BY <3>2, <2>6, <1>2, <1>4, <1>7, <1>8
      <4>2. i \in Unvisited(b)'
        BY <4>1, <1>2, <1>11, <1>18 DEF Unvisited, Fields
      <4> QED BY <4>1, <4>2, <2>1, <2>2, <1>2
    <3> QED BY <3>1, <3>2
  <2> QED BY <2>5, <2>6, <1>2, <1>4
<1>20. SlicesCurrent'
  <2>1. \A b \in Addresses : slice[b] # 0 => b \in mark_stack
    BY <1>1 DEF IInv, SlicesCurrent
  <2> QED BY <2>1, <1>1, <1>2, <1>3, <1>4, <1>9, <1>11, <1>12 DEF SlicesCurrent
<1> QED
  BY <1>13, <1>14, <1>15, <1>16, <1>17, <1>19, <1>20 DEF IInv

(***************************************************************************)
(* The evacuation phase.                                                   *)
(***************************************************************************)
LEMMA start_evacuatingIInv == ASSUME IInv, start_evacuating PROVE IInv'
<1>1. /\ phase = "Mark" /\ phase' = "Evacuate" /\ mark_stack = {} /\ regs = {}
      /\ iterator' = 0 /\ weak_ref_registry' = {}
      /\ evacuate' \in plan_evacuations
      /\ UNCHANGED <<tag, slice, forward, id, born, marked, mark_stack, free, update,
                     allocation_index, root, regs>>
  BY DEF start_evacuating, set_phase
<1>2. running_gc' \in BOOLEAN /\ RunningFlagCurrent'
  <2>1. running_gc' = running_gc
    BY <1>1 DEF start_evacuating, set_phase
  <2> QED BY <2>1, <1>1 DEF IInv, TypeOK, RunningFlagCurrent
<1>3. evacuate' \subseteq Partitions \ {allocation_index} /\ evacuate' \cap free = {}
  BY <1>1 DEF plan_evacuations, is_evacuation_candidate
<1>4. \A a \in Addresses : field'[a] = IF a \in weak_ref_registry /\ field[a][1] \notin marked
                                       THEN NoFields ELSE field[a]
  BY DEF start_evacuating, complete_marking
<1>5. field' \in [Addresses -> [Fields -> Pointers]]
  <2>1. NoFields \in [Fields -> Pointers]
    BY DEF NoFields, Pointers
  <2> QED BY <2>1 DEF start_evacuating, complete_marking, IInv, TypeOK
<1>6. GrayClosed({})
  BY <1>1 DEF GrayClosed
<1>7. /\ RootTargets \subseteq marked
      /\ \A a \in marked \ weak_ref_registry : \A i \in Fields :
            field[a][i] \in marked \cup {NULL_POINTER}
  <2>1. {} \in SUBSET Addresses
    OBVIOUS
  <2> QED BY <2>1, <1>1, <1>6 DEF IInv, SnapshotAtTheBeginning
<1>8. RootTargets' = RootTargets /\ Objects' = Objects
  BY <1>1 DEF RootTargets, Objects
<1>9. TypeOK'
  <2>1. 0 \in 0 .. NumPartitions * PARTITION_SIZE
    BY HeapSize
  <2> QED BY <2>1, <1>1, <1>2, <1>3, <1>5 DEF IInv, TypeOK, Phases
<1>10. Structure'
  <2>1. \A a \in Addresses \ Objects : field'[a] = NoFields
    BY <1>4 DEF IInv, Structure
  <2>2. \A a \in Addresses : tag[a] = "WeakRef" =>
           \A i \in Fields \ {1} : field'[a][i] = NULL_POINTER
    BY <1>4 DEF IInv, Structure, NoFields
  <2> QED BY <2>1, <2>2, <1>1, <1>3, <1>8 DEF IInv, Structure
<1>11. SlicesCurrent'
  BY <1>1 DEF IInv, SlicesCurrent
<1>12. Forwarding' /\ Evacuated'
  <2>1. \A a \in Addresses : forward'[a] = a
    BY <1>1, Unforwarded
  <2>2. \A a \in marked : ~(a < 0)
    BY HeapSize DEF IInv, TypeOK, Addresses
  <2> QED BY <2>1, <2>2, <1>1 DEF Forwarding, Evacuated
<1>13. MarkedAfterMarking'
  <2>1. ASSUME NEW a \in marked, NEW i \in Fields
        PROVE  field'[a][i] \in marked \cup {NULL_POINTER}
    <3>1. CASE a \in weak_ref_registry
      <4>1. a \in Addresses /\ tag[a] = "WeakRef"
        BY <3>1 DEF IInv, TypeOK, Structure
      <4>2. i # 1 => field[a][i] = NULL_POINTER
        BY <4>1 DEF IInv, Structure
      <4> QED BY <4>1, <4>2, <3>1, <1>4 DEF NoFields
    <3>2. CASE a \notin weak_ref_registry
      BY <3>2, <1>4, <1>7 DEF IInv, TypeOK
    <3> QED BY <3>1, <3>2
  <2> QED BY <2>1, <1>1, <1>7, <1>8 DEF MarkedAfterMarking
<1>14. LiveWhileMarking' /\ SnapshotAtTheBeginning' /\ Updating'
  BY <1>1 DEF LiveWhileMarking, SnapshotAtTheBeginning, Updating
<1> QED
  BY <1>2, <1>9, <1>10, <1>11, <1>12, <1>13, <1>14 DEF IInv

\* An object is copied out of its partition.
LEMMA evacuation_incrementIInv ==
    ASSUME IInv, NEW original, NEW copy, evacuation_increment(original, copy)
    PROVE  IInv'
<1>1. /\ phase = "Evacuate" /\ regs = {} /\ iterator' = original + 1
      /\ original \in CurrentObject(evacuate) /\ alloc_words(copy, 0)
      /\ UNCHANGED <<phase, running_gc, born, evacuate, update, root, regs,
                     mark_stack, weak_ref_registry>>
  BY DEF evacuation_increment, evacuate_object
<1>2. /\ original \in marked /\ ~Kept(original) /\ original >= iterator
      /\ \A b \in marked : ~Kept(b) /\ b >= iterator => original <= b
  BY <1>1 DEF CurrentObject, Remaining, Lowest, In, Kept
<1>3. /\ copy \in Addresses \ Objects
      /\ partition_of(copy) = allocation_index'
      /\ allocation_index' \in Partitions
      /\ allocation_index' \notin free' \cup evacuate
      /\ free' \subseteq free
  BY <1>1, AllocFacts
<1>4. original \in Objects /\ original \in Addresses /\ copy # original /\ copy \notin marked
  BY <1>2, <1>3 DEF IInv, Structure, Objects
<1>5. /\ tag' = [tag EXCEPT ![copy] = tag[original]]
      /\ slice' = [slice EXCEPT ![copy] = slice[original]]
      /\ field' = [field EXCEPT ![copy] = field[original]]
      /\ id' = [id EXCEPT ![copy] = id[original]]
      /\ forward' = [forward EXCEPT ![copy] = copy, ![original] = copy]
      /\ marked' = marked \cup {copy}
  BY DEF evacuation_increment, evacuate_object
<1>6. \A b \in Addresses :
         /\ tag'[b] = IF b = copy THEN tag[original] ELSE tag[b]
         /\ field'[b] = IF b = copy THEN field[original] ELSE field[b]
         /\ forward'[b] = IF b \in {copy, original} THEN copy ELSE forward[b]
         /\ slice'[b] = 0
         /\ slice[b] = 0
  BY <1>1, <1>3, <1>4, <1>5 DEF IInv, TypeOK, SlicesCurrent
<1>7. Objects' = Objects \cup {copy} /\ RootTargets' = RootTargets
  BY <1>1, <1>3, <1>4, <1>6 DEF Objects, RootTargets
<1>8. TypeOK'
  <2>1. /\ tag' \in [Addresses -> {"Free", "Array", "WeakRef"}]
        /\ slice' \in [Addresses -> 0 .. NumFields]
        /\ field' \in [Addresses -> [Fields -> Pointers]]
        /\ id' \in [Addresses -> Nat]
    BY <1>4, <1>5 DEF IInv, TypeOK
  <2>2. forward' \in [Addresses -> Addresses]
    BY <1>3, <1>4, <1>5 DEF IInv, TypeOK
  <2>3. iterator' \in 0 .. NumPartitions * PARTITION_SIZE
    BY <1>1, <1>4, HeapSize DEF Addresses
  <2>4. free' \subseteq Partitions /\ marked' \subseteq Addresses
    BY <1>3, <1>5 DEF IInv, TypeOK
  <2> QED BY <2>1, <2>2, <2>3, <2>4, <1>1, <1>3, <1>5 DEF IInv, TypeOK
<1>9. Structure'
  <2>1. \A b \in (Addresses \ Objects)' :
           forward'[b] = b /\ slice'[b] = 0 /\ field'[b] = NoFields
    BY <1>4, <1>6, <1>7 DEF IInv, Structure, Addresses
  <2>2. \A b \in Objects' : partition_of(b) \in Partitions \ free'
    BY <1>3, <1>7 DEF IInv, Structure
  <2>3. \A b \in Addresses : tag'[b] = "WeakRef" =>
           slice'[b] = 0 /\ \A i \in Fields \ {1} : field'[b][i] = NULL_POINTER
    BY <1>4, <1>6 DEF IInv, Structure
  <2> QED BY <2>1, <2>2, <2>3, <1>1, <1>3, <1>5, <1>7 DEF IInv, Structure
<1>10. SlicesCurrent' /\ RunningFlagCurrent'
  BY <1>1, <1>6 DEF IInv, SlicesCurrent, RunningFlagCurrent
<1>11. Kept(copy) /\ \A b : Kept(b)' <=> Kept(b)
  BY <1>1, <1>3 DEF Kept
<1>12. Forwarding'
  <2> SUFFICES ASSUME NEW b \in Addresses, forward'[b] # b
               PROVE  /\ b \in marked' /\ ~Kept(b)
                      /\ forward'[b] \in marked' /\ Kept(forward'[b])
    BY <1>11 DEF Forwarding
  <2>0. marked' = marked \cup {copy}
    BY <1>5
  <2>1. CASE b = original
    <3>1. forward'[b] = copy
      BY <2>1, <1>6
    <3> QED BY <3>1, <2>0, <2>1, <1>2, <1>11
  <2>2. CASE b # original
    <3>1. b # copy
      BY <1>6
    <3>2. forward'[b] = forward[b]
      BY <3>1, <2>2, <1>6
    <3>3. /\ b \in marked /\ ~Kept(b)
          /\ forward[b] \in marked /\ Kept(forward[b])
      BY <3>2 DEF IInv, Forwarding
    <3> QED BY <3>2, <3>3, <2>0
  <2> QED BY <2>1, <2>2
<1>13. Evacuated'
  <2> SUFFICES ASSUME NEW b \in marked', ~Kept(b), b < original + 1
               PROVE  forward'[b] # b
    BY <1>1, <1>11 DEF Evacuated
  <2>1. b \in marked /\ b \in Addresses /\ b # copy
    BY <1>5, <1>11 DEF IInv, TypeOK
  <2>2. CASE b = original
    BY <2>2, <2>1, <1>6
  <2>3. CASE b # original
    <3>1. b < iterator
      BY <2>1, <2>3, <1>2, <1>4, HeapSize DEF IInv, TypeOK, Addresses
    <3> QED BY <3>1, <2>1, <2>3, <1>1, <1>6 DEF IInv, Evacuated
  <2> QED BY <2>2, <2>3
<1>14. MarkedAfterMarking'
  <2>1. \A b \in marked' : b \in Addresses
    BY <1>8 DEF TypeOK
  <2> QED BY <2>1, <1>1, <1>2, <1>5, <1>6, <1>7 DEF IInv, MarkedAfterMarking
<1>15. LiveWhileMarking' /\ SnapshotAtTheBeginning' /\ Updating'
  BY <1>1 DEF LiveWhileMarking, SnapshotAtTheBeginning, Updating
<1> QED
  BY <1>8, <1>9, <1>10, <1>12, <1>13, <1>14, <1>15 DEF IInv

(***************************************************************************)
(* The update phase.                                                       *)
(***************************************************************************)
LEMMA start_updatingIInv == ASSUME IInv, start_updating PROVE IInv'
<1>1. /\ phase = "Evacuate" /\ phase' = "Update" /\ regs = {} /\ Remaining(evacuate) = {}
      /\ iterator' = 0
      /\ update' = Partitions \ (free \cup evacuate)
      /\ root' = [r \in Roots |-> forward_if_possible(root[r])]
      /\ UNCHANGED <<tag, slice, forward, field, id, born, marked, mark_stack,
                     weak_ref_registry, free, evacuate, allocation_index, regs>>
  BY DEF start_updating, set_phase, memory, marking
<1>2. running_gc' \in BOOLEAN /\ RunningFlagCurrent'
  <2>1. running_gc' = running_gc
    BY <1>1 DEF start_updating, set_phase
  <2> QED BY <2>1, <1>1 DEF IInv, TypeOK, RunningFlagCurrent
<1>3. \A a \in Addresses : slice[a] = 0
  BY <1>1 DEF IInv, SlicesCurrent
<1>4. \A a \in marked : ~Kept(a) => forward[a] # a
  <2>1. \A a \in marked : ~Kept(a) => a < iterator
    BY <1>1, HeapSize DEF Remaining, In, Kept, IInv, TypeOK, Addresses
  <2> QED BY <2>1, <1>1 DEF IInv, Evacuated
<1>5. \A a \in marked : forward[a] \in marked /\ Kept(forward[a])
  BY <1>4 DEF IInv, Forwarding, TypeOK
<1>6. \A p \in RootTargets' : p \in marked /\ Kept(p)
  <2>1. \A r \in Roots : root[r] # NULL_POINTER => root[r] \in marked
    BY <1>1 DEF IInv, MarkedAfterMarking, RootTargets, Targets
  <2> QED BY <2>1, <1>1, <1>5 DEF RootTargets, Targets, forward_if_possible
<1>7. Objects' = Objects
  BY <1>1 DEF Objects
<1>8. TypeOK'
  <2>1. 0 \in 0 .. NumPartitions * PARTITION_SIZE
    BY HeapSize
  <2>2. root' \in [Roots -> Pointers]
    BY <1>1 DEF IInv, TypeOK, forward_if_possible, Pointers
  <2> QED BY <2>1, <2>2, <1>1, <1>2 DEF IInv, TypeOK, Phases
<1>9. Structure' /\ SlicesCurrent'
  BY <1>1, <1>3, <1>7 DEF IInv, Structure, SlicesCurrent
<1>10. Forwarding' /\ Evacuated'
  BY <1>1, <1>4 DEF IInv, Forwarding, Evacuated, Kept
<1>11. Updating'
  <2>1. \A a \in marked : Kept(a) => partition_of(a) \in update'
    BY <1>1 DEF IInv, Structure, Kept
  <2>2. \A a \in marked, i \in Fields :
           /\ ~(a < 0) /\ ~(i <= slice[a])
           /\ field[a][i] # NULL_POINTER => field[a][i] \in marked
    <3>1. \A a \in marked : a \in Addresses /\ ~(a < 0)
      BY HeapSize DEF IInv, TypeOK, Addresses
    <3>2. \A i \in Fields : ~(i <= 0)
      BY GCConstants DEF Fields
    <3> QED BY <3>1, <3>2, <1>1, <1>3 DEF IInv, MarkedAfterMarking
  <2>3. UpdatedUpTo({})'
    BY <2>2, <1>1, <1>6 DEF UpdatedUpTo, Kept
  <2> QED BY <2>1, <2>3, <1>1 DEF Updating, Kept
<1>12. LiveWhileMarking' /\ SnapshotAtTheBeginning' /\ MarkedAfterMarking'
  BY <1>1 DEF LiveWhileMarking, SnapshotAtTheBeginning, MarkedAfterMarking
<1> QED
  BY <1>2, <1>8, <1>9, <1>10, <1>11, <1>12 DEF IInv

\* The fields of an object are updated to the copies.
LEMMA update_incrementIInv ==
    ASSUME IInv, NEW a, update_increment(a) PROVE IInv'
<1>1. /\ phase = "Update" /\ regs = {} /\ a \in CurrentObject(update)
      /\ UNCHANGED <<phase, running_gc, tag, forward, id, born, marked, mark_stack,
                     weak_ref_registry, free, evacuate, update, allocation_index, root, regs>>
  BY DEF update_increment, marking, partitions
<1>2. /\ a \in In(marked, update) /\ a >= iterator
      /\ \A b \in In(marked, update) : b >= iterator => a <= b
  BY <1>1 DEF CurrentObject, Remaining, Lowest, In
<1>3. a \in marked /\ a \in Addresses /\ a \in Int /\ iterator \in Int /\ a \in Objects
  BY <1>2, HeapSize DEF In, IInv, TypeOK, Addresses, Structure
<1>4. \A b \in Addresses : slice[b] # 0 => b = a /\ a = iterator /\ updates_needed
  <2> SUFFICES ASSUME NEW b \in Addresses, slice[b] # 0
               PROVE  b = a /\ a = iterator /\ updates_needed
    OBVIOUS
  <2>1. b = iterator /\ b \in In(marked, update) /\ updates_needed
    BY <1>1 DEF IInv, SlicesCurrent
  <2> QED BY <2>1, <1>2, <1>3
<1>5. /\ slice[a] \in 0 .. NumFields
      /\ slice_stop(a) \in 0 .. NumFields
      /\ SliceFields(a) \subseteq Fields
      /\ \A i \in Fields : i <= slice_stop(a) => i <= slice[a] \/ i \in SliceFields(a)
  BY <1>3, SliceFacts
<1> DEFINE more == updates_needed /\ slice_stop(a) < NumFields
           done == IF more THEN slice_stop(a) ELSE 0
<1>6. /\ iterator' = IF more THEN a ELSE a + 1
      /\ slice' = [slice EXCEPT ![a] = done]
      /\ field' = IF updates_needed
                  THEN [field EXCEPT ![a] = [i \in Fields |->
                                                IF i \in SliceFields(a)
                                                THEN forward_if_possible(field[a][i])
                                                ELSE field[a][i]]]
                  ELSE field
  <2>1. CASE updates_needed
    BY <2>1 DEF update_increment, update_fields, next_slice
  <2>2. CASE ~updates_needed
    <3>1. slice[a] = 0 /\ done = 0
      BY <2>2, <1>3, <1>4
    <3>2. [slice EXCEPT ![a] = slice[a]] = slice
      BY <1>3 DEF IInv, TypeOK
    <3> QED BY <3>1, <3>2, <2>2 DEF update_increment
  <2> QED BY <2>1, <2>2
<1>7. /\ \A b \in Addresses \ {a} : slice'[b] = 0 /\ field'[b] = field[b]
      /\ slice'[a] = done /\ done \in 0 .. NumFields
  BY <1>3, <1>4, <1>5, <1>6, GCConstants DEF IInv, TypeOK
<1>8. \A i \in Fields : /\ field[a][i] \in Pointers
                        /\ field'[a][i] \in {field[a][i], forward_if_possible(field[a][i])}
                        /\ updates_needed /\ i \in SliceFields(a) =>
                              field'[a][i] = forward_if_possible(field[a][i])
  BY <1>3, <1>6 DEF IInv, TypeOK
<1>9. Objects' = Objects /\ RootTargets' = RootTargets
  BY <1>1 DEF Objects, RootTargets
<1>10. TypeOK'
  <2>1. slice' \in [Addresses -> 0 .. NumFields]
    BY <1>3, <1>6, <1>7 DEF IInv, TypeOK
  <2>2. \A v \in Pointers : forward_if_possible(v) \in Pointers
    BY DEF forward_if_possible, Pointers, IInv, TypeOK
  <2>3. field' \in [Addresses -> [Fields -> Pointers]]
    BY <2>2, <1>3, <1>6 DEF IInv, TypeOK
  <2>4. iterator' \in 0 .. NumPartitions * PARTITION_SIZE
    BY <1>3, <1>6, HeapSize DEF Addresses
  <2> QED BY <2>1, <2>3, <2>4, <1>1 DEF IInv, TypeOK
<1>11. Structure'
  <2>1. \A b \in Addresses \ Objects : slice'[b] = 0 /\ field'[b] = NoFields
    BY <1>3, <1>7 DEF IInv, Structure
  <2>2. tag[a] = "WeakRef" =>
           slice'[a] = 0 /\ \A i \in Fields \ {1} : field'[a][i] = NULL_POINTER
    <3>1. tag[a] = "WeakRef" => done = 0
      BY GCConstants DEF slice_stop
    <3> QED BY <3>1, <1>3, <1>7, <1>8 DEF IInv, Structure, forward_if_possible
  <2> QED BY <2>1, <2>2, <1>1, <1>7, <1>9 DEF IInv, Structure
<1>12. SlicesCurrent'
  <2>1. slice'[a] # 0 => more
    BY <1>7
  <2>2. more => (updates_needed /\ a \in In(marked, update))' /\ iterator' = a
    BY <1>1, <1>2, <1>6 DEF updates_needed, In
  <2> QED BY <2>1, <2>2, <1>1, <1>7 DEF SlicesCurrent
<1>13. Forwarding' /\ Evacuated' /\ RunningFlagCurrent'
  BY <1>1 DEF IInv, Forwarding, Evacuated, RunningFlagCurrent, Kept
<1>14. PICK N \in SUBSET (Objects \ marked) : UpdatedUpTo(N)
  BY <1>1 DEF IInv, Updating
<1> HIDE DEF done, more
<1>15. ASSUME NEW b \in marked \cup N, NEW i \in Fields, field'[b][i] # NULL_POINTER
       PROVE  /\ field'[b][i] \in marked \cup N
              /\ (b \in N \/ (Kept(b) /\ (b < iterator' \/ (b = iterator' /\ i <= slice'[b]))))
                    => Kept(field'[b][i])
  <2>0. b \in Addresses /\ b \in Int /\ (b = a => b \notin N)
    BY <1>3, <1>14, HeapSize DEF IInv, TypeOK, Objects, Addresses
  <2>1. CASE b # a
    <3>1. field'[b] = field[b]
      BY <2>0, <2>1, <1>7
    <3>2. ASSUME b \notin N, Kept(b), b < iterator' \/ (b = iterator' /\ i <= slice'[b])
          PROVE  b < iterator
      <4>1. b < a
        BY <3>2, <2>0, <2>1, <1>3, <1>5, <1>6, <1>7, GCConstants DEF Fields
      <4>2. b \in In(marked, update)
        BY <3>2, <1>1 DEF IInv, Updating, In
      <4> QED BY <4>1, <4>2, <2>0, <1>2, <1>3
    <3>3. /\ field[b][i] \in marked \cup N
          /\ b \in N \/ (Kept(b) /\ b < iterator) => Kept(field[b][i])
      BY <3>1, <1>14, <1>15 DEF UpdatedUpTo
    <3> QED BY <3>1, <3>2, <3>3
  <2>2. CASE b = a
    <3>1. field[a][i] # NULL_POINTER
      BY <2>2, <1>8, <1>15 DEF forward_if_possible
    <3>2. field[a][i] \in marked \cup N
      BY <3>1, <1>3, <1>14 DEF UpdatedUpTo
    <3>3. /\ forward[field[a][i]] \in marked \cup N
          /\ Kept(forward[field[a][i]])
      BY <3>2, <1>1, <1>14, ResolvedKept
    <3>4. forward_if_possible(field[a][i]) = forward[field[a][i]]
      BY <3>1 DEF forward_if_possible
    <3>5. CASE ~updates_needed
      BY <3>2, <3>3, <3>4, <3>5, <2>2, <1>8 DEF updates_needed, Kept
    <3>6. CASE updates_needed /\ i \in SliceFields(a)
      BY <3>3, <3>4, <3>6, <2>2, <1>8
    <3>7. CASE updates_needed /\ i \notin SliceFields(a)
      <4>1. field'[a][i] = field[a][i] \/ Kept(field'[a][i])
        BY <3>3, <3>4, <1>8
      <4>2. ASSUME Kept(a), a < iterator' \/ (a = iterator' /\ i <= slice'[a])
            PROVE  i <= slice_stop(a)
        BY <4>2, <3>7, <1>3, <1>5, <1>6, <1>7, GCConstants DEF more, done, Fields
      <4>3. i <= slice_stop(a) => a = iterator /\ i <= slice[a]
        <5>1. i <= slice_stop(a) => i <= slice[a]
          BY <3>7, <1>5
        <5>2. i <= slice[a] => slice[a] # 0
          BY <1>5, GCConstants DEF Fields
        <5> QED BY <5>1, <5>2, <1>3, <1>4
      <4>4. Kept(a) /\ a = iterator /\ i <= slice[a] => Kept(field[a][i])
        BY <3>1, <1>3, <1>14 DEF UpdatedUpTo
      <4> QED BY <4>1, <4>2, <4>3, <4>4, <3>2, <3>3, <3>4, <2>0, <2>2, <1>8
    <3> QED BY <3>5, <3>6, <3>7
  <2> QED BY <2>1, <2>2
<1>16. UpdatedUpTo(N)'
  BY <1>1, <1>9, <1>14, <1>15 DEF UpdatedUpTo, Kept
<1>17. Updating'
  BY <1>1, <1>9, <1>16 DEF IInv, Updating, Kept
<1>18. LiveWhileMarking' /\ SnapshotAtTheBeginning' /\ MarkedAfterMarking'
  BY <1>1 DEF LiveWhileMarking, SnapshotAtTheBeginning, MarkedAfterMarking
<1> QED
  BY <1>10, <1>11, <1>12, <1>13, <1>17, <1>18 DEF IInv

\* The run ends and the evacuated partitions are freed.
LEMMA complete_runIInv == ASSUME IInv, complete_run PROVE IInv'
<1> DEFINE freed == In(Addresses, evacuate)
<1>1. /\ phase = "Update" /\ phase' = "Pause" /\ regs = {} /\ Remaining(update) = {}
      /\ marked' = {} /\ free' = free \cup evacuate /\ evacuate' = {} /\ update' = {}
      /\ iterator' = 0
      /\ UNCHANGED <<born, mark_stack, weak_ref_registry, allocation_index, root, regs>>
  BY DEF complete_run, set_phase
<1>2. running_gc' \in BOOLEAN /\ RunningFlagCurrent'
  BY <1>1, Zenon DEF complete_run, set_phase, RunningFlagCurrent
<1>3. /\ tag' = [a \in Addresses |-> IF a \in freed THEN "Free" ELSE tag[a]]
      /\ slice' = [a \in Addresses |-> IF a \in freed THEN 0 ELSE slice[a]]
      /\ forward' = [a \in Addresses |-> IF a \in freed THEN a ELSE forward[a]]
      /\ field' = [a \in Addresses |-> IF a \in freed THEN NoFields ELSE field[a]]
      /\ id' = [a \in Addresses |-> IF a \in freed THEN 0 ELSE id[a]]
  BY DEF complete_run
<1>4. \A a \in Addresses : a \in freed <=> ~Kept(a)
  BY DEF In, Kept
<1> HIDE DEF freed
<1>5. Objects' = Objects \ freed /\ RootTargets' = RootTargets
  BY <1>1, <1>3 DEF Objects, RootTargets
<1>6. \A a \in marked : Kept(a) => a < iterator
  BY <1>1, HeapSize DEF IInv, Updating, Remaining, In, TypeOK, Addresses
<1>7. \A a \in Addresses : slice[a] = 0
  <2>1. \A a \in In(marked, update) : a # iterator
    BY <1>1, HeapSize DEF Remaining, In, IInv, TypeOK, Addresses
  <2> QED BY <2>1, <1>1 DEF IInv, SlicesCurrent
<1>8. \A a \in Addresses : forward'[a] = a
  BY <1>3, <1>4 DEF IInv, Forwarding
<1>9. TypeOK'
  <2>1. 0 \in 0 .. NumPartitions * PARTITION_SIZE
    BY HeapSize
  <2>2. NoFields \in [Fields -> Pointers]
    BY DEF NoFields, Pointers
  <2>3. field' \in [Addresses -> [Fields -> Pointers]]
    BY <2>2, <1>3 DEF IInv, TypeOK
  <2>4. /\ tag' \in [Addresses -> {"Free", "Array", "WeakRef"}]
        /\ slice' \in [Addresses -> 0 .. NumFields]
        /\ id' \in [Addresses -> Nat]
    BY <1>3, GCConstants DEF IInv, TypeOK
  <2>5. forward' \in [Addresses -> Addresses]
    BY <1>3 DEF IInv, TypeOK
  <2>6. mark_stack = {} /\ weak_ref_registry = {}
    BY <1>1 DEF IInv, Structure
  <2> QED BY <2>1, <2>3, <2>4, <2>5, <2>6, <1>1, <1>2 DEF IInv, TypeOK, Phases
<1>10. Structure'
  <2>1. \A a \in (Addresses \ Objects)' :
           forward'[a] = a /\ slice'[a] = 0 /\ field'[a] = NoFields
    BY <1>3, <1>5, <1>8 DEF IInv, Structure, Addresses
  <2>2. \A a \in Objects' : partition_of(a) \in Partitions \ free'
    BY <1>1, <1>4, <1>5 DEF IInv, Structure, Kept, Objects
  <2>3. \A a \in Addresses : tag'[a] = "WeakRef" =>
           slice'[a] = 0 /\ \A i \in Fields \ {1} : field'[a][i] = NULL_POINTER
    BY <1>3 DEF IInv, Structure
  <2> QED BY <2>1, <2>2, <2>3, <1>1 DEF IInv, Structure
<1>11. SlicesCurrent' /\ Forwarding' /\ Evacuated'
  BY <1>1, <1>3, <1>7, <1>8 DEF SlicesCurrent, Forwarding, Evacuated
<1>12. PICK N \in SUBSET (Objects \ marked) : UpdatedUpTo(N)
  BY <1>1 DEF IInv, Updating
<1>13. LiveWhileMarking'
  <2>0. PICK L : L = {a \in marked \cup N : Kept(a)}
    OBVIOUS
  <2>1. L \subseteq Addresses /\ L \in SUBSET Objects'
    BY <2>0, <1>4, <1>5, <1>12 DEF IInv, Structure, Objects
  <2>2. RootTargets' \cup regs' \cup marked' \subseteq L
    BY <2>0, <1>1, <1>5, <1>12 DEF UpdatedUpTo
  <2>3. ASSUME NEW a \in L
        PROVE  /\ forward'[a] \in L
               /\ \A i \in Fields : field'[forward'[a]][i] \in L \cup {NULL_POINTER}
    <3>1. forward'[a] = a /\ field'[a] = field[a]
      BY <2>0, <2>1, <1>3, <1>4, <1>8
    <3>2. \A i \in Fields : field[a][i] \in L \cup {NULL_POINTER}
      BY <2>0, <1>6, <1>12 DEF UpdatedUpTo
    <3> QED BY <3>1, <3>2
  <2>4. Closed(L)'
    BY <2>3 DEF Closed
  <2> QED BY <2>1, <2>2, <2>4 DEF LiveWhileMarking
<1>14. SnapshotAtTheBeginning' /\ MarkedAfterMarking' /\ Updating'
  BY <1>1 DEF SnapshotAtTheBeginning, MarkedAfterMarking, Updating
<1> QED
  BY <1>2, <1>9, <1>10, <1>11, <1>13, <1>14 DEF IInv

(***************************************************************************)
(* The invariant is inductive, and what follows from it.                   *)
(***************************************************************************)
LEMMA StutterIInv == ASSUME IInv, UNCHANGED vars PROVE IInv'
  BY RegsStep DEF vars, AllButRegs, IInv, TypeOK, SnapshotAtTheBeginning,
     MarkedAfterMarking, UpdatedUpTo

\* No step breaks the invariant.
LEMMA NextIInv == IInv /\ [Next]_vars => IInv'
<1> SUFFICES ASSUME IInv, [Next]_vars PROVE IInv'
  OBVIOUS
<1>1. CASE Reads
  BY <1>1, LoadRootIInv, LoadFieldIInv, WeakGetIInv DEF Reads
<1>2. CASE Writes
  BY <1>2, WriteFieldIInv, WriteRootIInv, AllocateIInv, AllocateWeakRefIInv DEF Writes
<1>3. CASE EndMessage \/ Upgrade \/ start_marking
  BY <1>3, EndMessageIInv, UpgradeIInv, start_markingIInv
<1>4. CASE Increment
  BY <1>4, mark_incrementIInv, start_evacuatingIInv, evacuation_incrementIInv,
     start_updatingIInv, update_incrementIInv, complete_runIInv DEF Increment
<1>5. CASE UNCHANGED vars
  BY <1>5, StutterIInv
<1> QED BY <1>1, <1>2, <1>3, <1>4, <1>5 DEF Next

\* The invariant excludes dangling references.
LEMMA IInvNoDangling == IInv => NoDangling
<1> SUFFICES ASSUME IInv PROVE NoDangling
  OBVIOUS
<1>1. CASE phase \in {"Pause", "Mark"}
  BY <1>1 DEF IInv, LiveWhileMarking, NoDangling
<1>2. CASE phase = "Evacuate"
  <2>1. RootTargets \cup regs \subseteq marked /\ marked \in SUBSET Objects
    BY <1>2 DEF IInv, MarkedAfterMarking, Structure
  <2>2. \A a \in marked : forward[a] \in marked
    BY ResolvedMarked
  <2>3. Closed(marked)
    BY <2>2, <1>2 DEF Closed, IInv, MarkedAfterMarking
  <2> QED BY <2>1, <2>3 DEF NoDangling
<1>3. CASE phase = "Update"
  <2>1. PICK N \in SUBSET (Objects \ marked) : UpdatedUpTo(N)
    BY <1>3 DEF IInv, Updating
  <2> DEFINE L == marked \cup N
  <2>2. RootTargets \cup regs \subseteq L /\ L \in SUBSET Objects
    BY <2>1 DEF UpdatedUpTo, IInv, Structure
  <2>3. \A a \in L : forward[a] \in L
    BY <2>1, <1>3, ResolvedKept
  <2>4. \A a \in L, i \in Fields : field[a][i] \in L \cup {NULL_POINTER}
    BY <2>1 DEF UpdatedUpTo
  <2> HIDE DEF L
  <2>5. Closed(L)
    BY <2>3, <2>4 DEF Closed
  <2> QED BY <2>2, <2>5 DEF NoDangling
<1> QED BY <1>1, <1>2, <1>3 DEF IInv, TypeOK, Phases

\* For every heap, object, slice and root set size: the state keeps its types;
\* nothing that the mutator can get at (roots, fields, weak references, through
\* forwarding) is ever in freed memory, in every phase of the collector and
\* whatever the mutator does between two increments.
THEOREM HeapSafe == Spec => [](TypeOK /\ NoDangling)
<1>1. Init => IInv
  BY InitIInv
<1>2. IInv /\ [Next]_vars => IInv'
  BY NextIInv
<1>3. IInv => TypeOK /\ NoDangling
  BY IInvNoDangling DEF IInv
<1> QED BY <1>1, <1>2, <1>3, PTL DEF Spec

\* Snapshot-at-the-beginning: during marking no unmarked object is out of the
\* reach of the gray ones; the write, read and allocation barriers see to it.
THEOREM SnapshotHolds == Spec => []SnapshotAtTheBeginning
<1>1. Init => IInv
  BY InitIInv
<1>2. IInv /\ [Next]_vars => IInv'
  BY NextIInv
<1>3. IInv => SnapshotAtTheBeginning
  BY DEF IInv
<1> QED BY <1>1, <1>2, <1>3, PTL DEF Spec

\* The marking is complete: when it has ended (complete_marking) all that the
\* mutator can get at is marked, and stays so until the evacuation has ended.
THEOREM MarkingComplete == Spec => []MarkedAfterMarking
<1>1. Init => IInv
  BY InitIInv
<1>2. IInv /\ [Next]_vars => IInv'
  BY NextIInv
<1>3. IInv => MarkedAfterMarking
  BY DEF IInv
<1> QED BY <1>1, <1>2, <1>3, PTL DEF Spec

\* The flag that compiled code tests before it calls a barrier agrees with the
\* collector's phase, over upgrades too.
THEOREM FlagCurrent == Spec => []RunningFlagCurrent
<1>1. Init => IInv
  BY InitIInv
<1>2. IInv /\ [Next]_vars => IInv'
  BY NextIInv
<1>3. IInv => RunningFlagCurrent
  BY DEF IInv
<1> QED BY <1>1, <1>2, <1>3, PTL DEF Spec
(***************************************************************************)
(* An object and its copy.                                                 *)
(***************************************************************************)
\* A copy is of the same kind, and a weak reference is cleared in both or none.
CopiesAgree ==
    \A a \in Addresses : forward[a] # a =>
        /\ tag[forward[a]] = tag[a]
        /\ tag[a] = "WeakRef" =>
              (field[a][1] = NULL_POINTER <=> field[forward[a]][1] = NULL_POINTER)

\* Neither an object that is forwarded nor its copy is at a free address.
LEMMA ForwardedAreObjects ==
    ASSUME IInv, NEW a \in Addresses, forward[a] # a
    PROVE  /\ a \in Objects /\ forward[a] \in Objects /\ forward[a] \in Addresses
           /\ partition_of(a) \in evacuate /\ phase \in {"Evacuate", "Update"}
  BY DEF IInv, Forwarding, Structure, Kept, TypeOK, Phases

\* The target of a weak reference is in a field.
LEMMA FirstField == 1 \in Fields
  BY GCConstants DEF Fields

\* A new object, or a copy, is at an address where there was none.
LEMMA NewObjectAgrees ==
    ASSUME IInv, CopiesAgree, NEW a \in Addresses \ Objects, NEW t, NEW fields,
           tag' = [tag EXCEPT ![a] = t], field' = [field EXCEPT ![a] = fields],
           forward' = forward
    PROVE  CopiesAgree'
<1> SUFFICES ASSUME NEW b \in Addresses, forward[b] # b
             PROVE  /\ tag'[forward[b]] = tag'[b]
                    /\ tag'[b] = "WeakRef" =>
                          (field'[b][1] = NULL_POINTER <=> field'[forward[b]][1] = NULL_POINTER)
  BY DEF CopiesAgree
<1>1. b # a /\ forward[b] # a /\ forward[b] \in Addresses
  BY ForwardedAreObjects
<1>2. tag'[b] = tag[b] /\ tag'[forward[b]] = tag[forward[b]]
      /\ field'[b] = field[b] /\ field'[forward[b]] = field[forward[b]]
  BY <1>1 DEF IInv, TypeOK
<1> QED BY <1>2 DEF CopiesAgree

\* The copy has the tag and the fields of its original.
LEMMA EvacuationAgrees ==
    ASSUME IInv, CopiesAgree, NEW original \in marked, NEW copy \in Addresses \ Objects,
           evacuate_object(original, copy)
    PROVE  CopiesAgree'
<1> SUFFICES ASSUME NEW b \in Addresses, forward'[b] # b
             PROVE  /\ tag'[forward'[b]] = tag'[b]
                    /\ tag'[b] = "WeakRef" =>
                          (field'[b][1] = NULL_POINTER <=> field'[forward'[b]][1] = NULL_POINTER)
  BY DEF CopiesAgree
<1>1. original \in Objects /\ original \in Addresses /\ original # copy
  BY DEF IInv, Structure, TypeOK
<1>2. /\ tag' = [tag EXCEPT ![copy] = tag[original]]
      /\ field' = [field EXCEPT ![copy] = field[original]]
      /\ forward' = [forward EXCEPT ![copy] = copy, ![original] = copy]
      /\ tag \in [Addresses -> {"Free", "Array", "WeakRef"}]
      /\ field \in [Addresses -> [Fields -> Pointers]] /\ forward \in [Addresses -> Addresses]
  BY DEF evacuate_object, IInv, TypeOK
<1>3. b # copy
  BY <1>1, <1>2
<1>4. CASE b = original
  BY <1>1, <1>2, <1>4
<1>5. CASE b # original
  <2>1. forward'[b] = forward[b] /\ forward[b] # b
    BY <1>2, <1>3, <1>5
  <2>2. forward[b] # copy /\ forward[b] \in Addresses
    BY <2>1, ForwardedAreObjects
  <2>3. tag'[b] = tag[b] /\ tag'[forward[b]] = tag[forward[b]]
        /\ field'[b] = field[b] /\ field'[forward[b]] = field[forward[b]]
    BY <1>2, <1>3, <2>2
  <2> QED BY <2>1, <2>3 DEF CopiesAgree
<1> QED BY <1>4, <1>5

\* Pointers are written only to arrays, and updated to pointers.
LEMMA FieldsAgree ==
    ASSUME IInv, CopiesAgree, UNCHANGED <<tag, forward>>,
           \A a \in Addresses : tag[a] = "WeakRef" =>
               (field'[a][1] = NULL_POINTER <=> field[a][1] = NULL_POINTER)
    PROVE  CopiesAgree'
<1> SUFFICES ASSUME NEW b \in Addresses, forward[b] # b
             PROVE  /\ tag[forward[b]] = tag[b]
                    /\ tag[b] = "WeakRef" =>
                          (field'[b][1] = NULL_POINTER <=> field'[forward[b]][1] = NULL_POINTER)
  BY DEF CopiesAgree
<1>1. forward[b] \in Addresses
  BY ForwardedAreObjects
<1> QED BY <1>1 DEF CopiesAgree

\* A write goes to an array, which no weak reference is.
LEMMA WriteFieldAgrees ==
    ASSUME IInv, CopiesAgree, NEW x \in regs, NEW i \in Fields, NEW v, WriteField(x, i, v)
    PROVE  CopiesAgree'
<1>1. /\ tag[forward[x]] = "Array" /\ UNCHANGED <<tag, forward>>
      /\ \E w : field' = [field EXCEPT ![forward[x]] = [field[forward[x]] EXCEPT ![i] = w]]
  BY DEF WriteField
<1>2. \A a \in Addresses : tag[a] = "WeakRef" => field'[a] = field[a]
  BY <1>1 DEF IInv, TypeOK
<1> QED BY <1>1, <1>2, FieldsAgree

\* An update to the copies makes no pointer null, and leaves null pointers as they are.
LEMMA UpdateAgrees ==
    ASSUME IInv, CopiesAgree, NEW a \in marked, update_increment(a)
    PROVE  CopiesAgree'
<1>1. UNCHANGED <<tag, forward>>
  BY DEF update_increment
<1>2. CASE UNCHANGED field
  BY <1>1, <1>2, FieldsAgree
<1>3. CASE update_fields(a)
  <2>1. /\ field \in [Addresses -> [Fields -> Pointers]] /\ forward \in [Addresses -> Addresses]
        /\ a \in Addresses
    BY DEF IInv, TypeOK
  <2>2. \A b \in Addresses : field[b][1] \in Pointers
    BY <2>1, FirstField
  <2>3. \A v \in Pointers : forward_if_possible(v) = NULL_POINTER <=> v = NULL_POINTER
    BY <2>1, NullIsNoAddress DEF forward_if_possible, Pointers
  <2>4. field'[a][1] \in {field[a][1], forward_if_possible(field[a][1])}
    BY <1>3, <2>1, FirstField DEF update_fields
  <2>5. \A b \in Addresses \ {a} : field'[b] = field[b]
    BY <1>3, <2>1 DEF update_fields
  <2>6. \A b \in Addresses : field'[b][1] = NULL_POINTER <=> field[b][1] = NULL_POINTER
    BY <2>1, <2>2, <2>3, <2>4, <2>5
  <2> QED BY <1>1, <2>6, FieldsAgree
<1> QED BY <1>2, <1>3 DEF update_increment

\* Nothing is forwarded before the evacuation, and nothing after the update.
LEMMA EndsAgree ==
    ASSUME IInv, start_evacuating \/ complete_run
    PROVE  CopiesAgree'
<1> SUFFICES ASSUME NEW b \in Addresses PROVE forward'[b] = b
  BY DEF CopiesAgree
<1>1. CASE start_evacuating
  BY <1>1, ForwardedAreObjects DEF start_evacuating
<1>2. CASE complete_run
  BY <1>2, ForwardedAreObjects DEF complete_run, In
<1> QED BY <1>1, <1>2

\* No step breaks the agreement of copies.
LEMMA StepAgrees == IInv /\ CopiesAgree /\ [Next]_vars => CopiesAgree'
<1> SUFFICES ASSUME IInv, CopiesAgree, [Next]_vars PROVE CopiesAgree'
  OBVIOUS
<1>1. CASE UNCHANGED <<tag, forward, field>>
  BY <1>1 DEF CopiesAgree
<1>2. CASE Reads \/ EndMessage \/ Upgrade \/ start_marking \/ UNCHANGED vars
  BY <1>1, <1>2 DEF Reads, LoadRoot, LoadField, WeakGet, EndMessage, Upgrade, start_marking,
                    vars, memory
<1>3. CASE Writes
  <2>1. ASSUME NEW x \in regs, NEW i \in Fields, NEW v \in Held, WriteField(x, i, v)
        PROVE  CopiesAgree'
    BY <2>1, WriteFieldAgrees
  <2>2. ASSUME NEW r \in Roots, NEW v \in Held, WriteRoot(r, v)
        PROVE  CopiesAgree'
    BY <1>1, <2>2 DEF WriteRoot, memory
  <2>3. ASSUME NEW a \in Addresses \ Objects, NEW fields \in [Fields -> Held], Allocate(a, fields)
        PROVE  CopiesAgree'
    BY <2>3, NewObjectAgrees DEF Allocate, new_object
  <2>4. ASSUME NEW a \in Addresses \ Objects, NEW target \in regs, AllocateWeakRef(a, target)
        PROVE  CopiesAgree'
    BY <2>4, NewObjectAgrees DEF AllocateWeakRef, new_object
  <2> QED BY <1>3, <2>1, <2>2, <2>3, <2>4 DEF Writes
<1>4. CASE Increment
  <2>1. ASSUME NEW a \in mark_stack, mark_increment(a) PROVE CopiesAgree'
    BY <1>1, <2>1 DEF mark_increment
  <2>2. ASSUME NEW original \in marked, NEW copy \in Addresses \ Objects,
               evacuation_increment(original, copy)
        PROVE  CopiesAgree'
    BY <2>2, EvacuationAgrees DEF evacuation_increment
  <2>3. CASE start_updating
    BY <1>1, <2>3 DEF start_updating, memory
  <2>4. ASSUME NEW a \in marked, update_increment(a) PROVE CopiesAgree'
    BY <2>4, UpdateAgrees
  <2> QED BY <1>4, <2>1, <2>2, <2>3, <2>4, EndsAgree DEF Increment
<1> QED BY <1>2, <1>3, <1>4 DEF Next

\* weak_ref_is_live looks at a weak reference that may have been evacuated, and
\* answers like weak_get, which looks at its copy.
THEOREM IsLiveAgrees == Spec => []WeakRefIsLiveAgrees
<1>1. Init => IInv /\ CopiesAgree
  BY InitIInv DEF Init, CopiesAgree
<1>2. IInv /\ CopiesAgree /\ [Next]_vars => IInv' /\ CopiesAgree'
  BY NextIInv, StepAgrees
<1>3. IInv /\ CopiesAgree => WeakRefIsLiveAgrees
  BY DEF IInv, TypeOK, CopiesAgree, WeakRefIsLiveAgrees
<1> QED BY <1>1, <1>2, <1>3, PTL DEF Spec
=============================================================================
