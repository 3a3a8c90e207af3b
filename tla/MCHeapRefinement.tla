--------------------------- MODULE MCHeapRefinement ---------------------------
(***************************************************************************)
(* The collector and the compiled code implement the heap of MutatorHeap:  *)
(* objects are named by the history variable id, pointers are resolved     *)
(* through forwarding, and what the mutator cannot get at is left out.     *)
(***************************************************************************)
EXTENDS MCIncrementalGC

Ids == 1 .. MaxOperations

\* The mapped graph is kept in a variable, so that TLC computes it once.
VARIABLE graph

Heap == INSTANCE MutatorHeap

\* The objects, where they are now, that the mutator can get at.
VisibleObjects ==
    Heap!Reachable({forward[p] : p \in RootTargets \cup regs},
                   [a \in Addresses |-> {forward[p] : p \in Targets({field[a][i] : i \in Fields})}])

Name(p) == IF p = NULL_POINTER THEN p ELSE id[p]

GraphOf(objects) ==
    LET ids == {id[a] : a \in objects}
        at(x) == CHOOSE a \in objects : id[a] = x
    IN [root  |-> [r \in Roots |-> Name(root[r])],
        regs  |-> {id[p] : p \in regs},
        tag   |-> [x \in Ids |-> IF x \in ids THEN tag[at(x)] ELSE "Free"],
        field |-> [x \in Ids |-> IF x \in ids
                                  THEN [i \in Fields |-> Name(field[at(x)][i])]
                                  ELSE NoFields],
        born  |-> born]

\* History: the objects that were inaccessible when the collection started.
VARIABLE garbage

RefinementInit == MCInit /\ graph = GraphOf(VisibleObjects) /\ garbage = {}

RefinementNext ==
    /\ MCNext
    /\ \E objects \in {VisibleObjects'} :
          /\ graph' = GraphOf(objects)'
          /\ garbage' = CASE phase = "Pause" /\ phase' = "Mark" ->
                              {id[a] : a \in Objects} \ {id[a] : a \in objects}
                         [] phase' = "Pause" -> {}
                         [] OTHER -> garbage

RefinementSpec == RefinementInit /\ [][RefinementNext]_<<vars, operations, graph, garbage>>

\* The program sees an ordinary heap whatever the collector is doing: no write
\* is lost in a copy, no pointer reaches another object, and weak references
\* are cleared together and only when their target is dead.
ImplementsHeap == Heap!Spec

\* A collection finds all the garbage there was when it started: nothing that
\* was inaccessible then is marked, copied or kept alive by it.
GarbageNotMarked == {id[a] : a \in marked} \cap garbage = {}
===============================================================================
