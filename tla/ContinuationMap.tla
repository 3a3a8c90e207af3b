--------------------------- MODULE ContinuationMap ---------------------------
(***************************************************************************)
(* What the continuation table of the runtime promises its callers: a      *)
(* finite map from indices to continuations.  Remembering a continuation   *)
(* yields an index that no outstanding continuation holds; recalling the   *)
(* index returns that continuation and forgets it; peeking leaves it in    *)
(* place; every other index traps.  ContinuationTable implements this with *)
(* an array and a free list threaded through its unused slots.             *)
(***************************************************************************)
EXTENDS Naturals, FiniteSets

CONSTANTS
  Continuation,   \* heap pointers to continuation tuples
  Index,          \* indices a caller may pass or receive
  TRAP            \* the outcome of a trapping call

VARIABLES
  map,            \* the outstanding continuations, by index
  count,          \* what continuation_count() answers
  result          \* the last call and what it returned

vars == <<map, count, result>>

Returned(op, arg, value) == [op |-> op, arg |-> arg, value |-> value]

Empty ==
  /\ map = [i \in {} |-> TRAP]
  /\ count = 0
  /\ result = Returned("none", TRAP, TRAP)

Init == Empty

\* An index that is not in use, or a trap for lack of memory.
Remember(k) ==
  \/ \E i \in Index \ DOMAIN map :
       /\ k \in Continuation
       /\ map' = [j \in DOMAIN map \cup {i} |-> IF j = i THEN k ELSE map[j]]
       /\ count' = count + 1
       /\ result' = Returned("remember", k, i)
  \/ /\ result' = Returned("remember", k, TRAP)
     /\ UNCHANGED <<map, count>>

Peek(i) ==
  /\ result' = Returned("peek", i, IF i \in DOMAIN map THEN map[i] ELSE TRAP)
  /\ UNCHANGED <<map, count>>

Recall(i) ==
  \/ /\ i \in DOMAIN map
     /\ map' = [j \in DOMAIN map \ {i} |-> map[j]]
     /\ count' = count - 1
     /\ result' = Returned("recall", i, map[i])
  \/ /\ i \notin DOMAIN map
     /\ result' = Returned("recall", i, TRAP)
     /\ UNCHANGED <<map, count>>

\* An upgrade starts the new program version with no continuations.
Reset == Empty'

Next ==
  \/ \E k \in Continuation \cup {0} : Remember(k)
  \/ \E i \in Index : Peek(i) \/ Recall(i)
  \/ Reset

Spec == Init /\ [][Next]_vars

=============================================================================
