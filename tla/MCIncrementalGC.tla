--------------------------- MODULE MCIncrementalGC ---------------------------
(***************************************************************************)
(* The collector on a small heap.  MaxOperations bounds the allocations,   *)
(* writes and collections of a behaviour; reads, the ends of messages and  *)
(* the collector's increments are free.                                    *)
(***************************************************************************)
EXTENDS IncrementalGC

CONSTANT MaxOperations

ASSUME MaxOperationsIsBound == MaxOperations \in Nat

VARIABLE operations

MCInit == Init /\ operations = 0

MCNext ==
    \/ /\ Writes \/ start_marking \/ Upgrade
       /\ operations < MaxOperations
       /\ operations' = operations + 1
    \/ /\ Reads \/ EndMessage \/ Increment
       /\ UNCHANGED operations

MCSpec == MCInit /\ [][MCNext]_<<vars, operations>>

MCFairSpec == MCSpec /\ Fairness
==============================================================================
