----------------------------- MODULE RegionPages -----------------------------
(***************************************************************************)
(* What the Region library promises (Region.mo, design/StableRegions.md):  *)
(* every region is an array of pages of its own, created empty, that only  *)
(* grows, by zero pages at its end, and only changes where its owner       *)
(* stores.  Creating, growing or writing one region never touches another, *)
(* and neither does an upgrade or the migration of the raw stable memory   *)
(* of an older canister, which becomes region 0.                           *)
(***************************************************************************)
EXTENDS Integers, Sequences

CONSTANTS RegionIds,    \* identifiers a program can obtain
          Srcs,         \* the sequences of cells a store writes
          Zero          \* the cell of a page never written

VARIABLES created,      \* regions handed out
          content       \* cells of every region, region 0 included

vars == <<created, content>>

Init ==
  /\ created = {}
  /\ \A r \in RegionIds : content[r] = <<>>

Create(r) ==
  /\ r \notin created
  /\ created' = created \cup {r}
  /\ UNCHANGED content

Grow(r) ==
  /\ r \in created
  /\ Len(content'[r]) > Len(content[r])
  /\ \A p \in 1 .. Len(content'[r]) :
        content'[r][p] = IF p <= Len(content[r]) THEN content[r][p] ELSE Zero
  /\ content' = [content EXCEPT ![r] = content'[r]]
  /\ UNCHANGED created

Store(r, offset, src) ==
  /\ r \in created
  /\ offset + Len(src) <= Len(content[r])
  /\ content' = [content EXCEPT ![r] =
        [p \in DOMAIN @ |-> IF p - offset \in DOMAIN src THEN src[p - offset] ELSE @[p]]]
  /\ UNCHANGED created

Next ==
  \E r \in RegionIds :
    \/ Create(r)
    \/ Grow(r)
    \/ \E src \in Srcs : \E offset \in 0 .. Len(content[r]) : Store(r, offset, src)

Spec == Init /\ [][Next]_vars
=============================================================================
