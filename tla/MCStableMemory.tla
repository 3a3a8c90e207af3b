--------------------------- MODULE MCStableMemory ---------------------------
(* Regions, and the upgrade by graph copy, beside each other: a behaviour is *)
(* of the one that the initial state picks.                                  *)
EXTENDS MCRegions, MCGraphs, GraphCopy

VARIABLE part

\* The other part is idle, and in one state.
MCInit ==
  /\ part \in {"regions", "graph copy"} /\ Init /\ CopyInit
  /\ part = "regions" => /\ heap = CHOOSE h \in Heaps : TRUE
                         /\ roots = CHOOSE r \in RootSets : TRUE
                         /\ memory = <<>> /\ Len(descriptor) = 1
  /\ part = "graph copy" => stable = <<>>

MCNext == /\ UNCHANGED part
          /\ \/ part = "regions" /\ Next /\ UNCHANGED copyVars
             \/ part = "graph copy" /\ CopyNext /\ UNCHANGED vars

MCFairSpec == /\ MCInit /\ [][MCNext]_<<part, vars, copyVars>>
              /\ WF_<<part, vars, copyVars>>(part = "graph copy" /\ MCNext)
-----------------------------------------------------------------------------
\* An upgrade that has started completes (graph_copy.rs copy_increment).
UpgradeCompletes == part = "graph copy" => CopyCompletes
=============================================================================
