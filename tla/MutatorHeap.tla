----------------------------- MODULE MutatorHeap -----------------------------
(***************************************************************************)
(* What the heap promises to a Motoko program: a graph of objects, without *)
(* addresses, marks, copies or forwarding.  A read gives what was written  *)
(* last.  The one thing that garbage collection may do to the graph is to  *)
(* clear weak references, all those to a target at once, and only when no  *)
(* chain of ordinary fields leads from the roots to the target.            *)
(*                                                                         *)
(* The graph holds only objects that the program can get at; the others    *)
(* are forgotten as soon as the last path to them is gone.                 *)
(***************************************************************************)
EXTENDS Integers, FiniteSets

CONSTANTS Ids, Fields, Roots, TransientRoots, NULL_POINTER

VARIABLE graph \* [root, regs, tag, field, born]: born objects were allocated so far

NoFields == [i \in Fields |-> NULL_POINTER]

EmptyGraph == [root  |-> [r \in Roots |-> NULL_POINTER],
               regs  |-> {},
               tag   |-> [x \in Ids |-> "Free"],
               field |-> [x \in Ids |-> NoFields],
               born  |-> 0]

Targets(S) == S \ {NULL_POINTER}

\* All that is reached from the members of start by the steps of succ.
Reachable(start, succ) ==
    LET R[n \in 0 .. Cardinality(DOMAIN succ)] ==
          IF n = 0 THEN start ELSE UNION {{x} \cup succ[x] : x \in R[n - 1]}
    IN R[Cardinality(DOMAIN succ)]

FieldsOf(g, x) == Targets({g.field[x][i] : i \in Fields})

RootsOf(g) == g.regs \cup Targets({g.root[r] : r \in Roots})

Visible(g) == Reachable(RootsOf(g), [x \in Ids |-> FieldsOf(g, x)])

StronglyReachable(g) ==
    Reachable(RootsOf(g), [x \in Ids |-> IF g.tag[x] = "WeakRef" THEN {} ELSE FieldsOf(g, x)])

\* A graph less what is inaccessible in it.
Forget(g) ==
    LET visible == Visible(g) IN
    [g EXCEPT !.tag = [x \in Ids |-> IF x \in visible THEN g.tag[x] ELSE "Free"],
              !.field = [x \in Ids |-> IF x \in visible THEN g.field[x] ELSE NoFields]]

(***************************************************************************)
(* The operations: g is the graph before, h the graph after.               *)
(***************************************************************************)
Load(g, h) ==
    \E x \in Visible(g) :
        /\ \/ x \in {g.root[r] : r \in Roots}
           \/ x \in UNION {FieldsOf(g, y) : y \in g.regs}
        /\ h = [g EXCEPT !.regs = @ \cup {x}]

Held(g) == g.regs \cup {NULL_POINTER}

Write(g, h) ==
    \/ \E x \in g.regs, i \in Fields, v \in Held(g) :
          g.tag[x] = "Array" /\ h = Forget([g EXCEPT !.field[x][i] = v])
    \/ \E r \in Roots, v \in Held(g) : h = Forget([g EXCEPT !.root[r] = v])

Allocate(g, h) ==
    LET x == g.born + 1 IN
    /\ x \in h.regs
    /\ \/ h.tag[x] = "Array" /\ h.field[x] \in [Fields -> Held(g)]
       \/ h.tag[x] = "WeakRef" /\ \E v \in g.regs : h.field[x] = [NoFields EXCEPT ![1] = v]
    /\ h = [g EXCEPT !.regs = @ \cup {x},
                     !.tag[x] = h.tag[x],
                     !.field[x] = h.field[x],
                     !.born = x]

EndMessage(g, h) == h = Forget([g EXCEPT !.regs = {}])

Upgrade(g, h) ==
    h = Forget([g EXCEPT !.root =
            [r \in Roots |-> IF r \in TransientRoots THEN NULL_POINTER ELSE g.root[r]]])

\* Garbage collection clears the weak references to a set of dead objects.
Collect(g, h) ==
    LET weak == {x \in Ids : g.tag[x] = "WeakRef"} IN
    \E dead \in SUBSET ({g.field[x][1] : x \in weak} \ StronglyReachable(g)) :
        h = Forget([g EXCEPT !.field =
                [x \in Ids |-> IF x \in weak /\ g.field[x][1] \in dead
                               THEN NoFields ELSE g.field[x]]])

Step(g, h) ==
    \/ Load(g, h)
    \/ Allocate(g, h)
    \/ Write(g, h)
    \/ EndMessage(g, h)
    \/ Upgrade(g, h)
    \/ Collect(g, h)

Init == graph = EmptyGraph

Next == \E g \in {graph}, h \in {graph'} : Step(g, h)

Spec == Init /\ [][Next]_graph
==============================================================================
