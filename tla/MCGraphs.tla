------------------------------ MODULE MCGraphs ------------------------------
(* Graphs with sharing, cycles, closures, blobs whose content looks like a  *)
(* pointer, objects that share a hash blob, and arrays longer than a slice. *)
EXTENDS Integers, Sequences

LOCAL Cell(k, v) == [k |-> k, v |-> v]
LOCAL P(o) == Cell("ptr", o)
LOCAL D == Cell("data", 7)
LOCAL Obj(kind, body) == [kind |-> kind, body |-> body]

\* Any array of three elements and any layout with one pointer that the array
\* and the fields point to.
LOCAL Small ==
  {<<Obj("array", a), Obj(k, b), Obj("blob", <<P(1)>>), Obj("closure", <<P(4)>>)>> :
     a \in [1 .. 3 -> {P(1), P(2), P(4), D}],
     <<k, b>> \in {<<"mutbox", <<P(1)>>>>, <<"variant", <<P(1), P(3)>>>>,
                   <<"some", <<P(4)>>>>}}

\* An actor object whose fields are an object with the same hash blob, a region,
\* a rope and a weak reference.
LOCAL Actor ==
  {<<Obj("object", <<P(2), P(h), P(c)>>), Obj("blob", <<D, D>>),
     Obj("object", <<P(2), P(5), P(6)>>),
     Obj("region", <<D, P(1), P(2)>>), Obj("concat", <<D, P(2), P(6)>>),
     Obj("blob", <<D>>), Obj("weakref", <<P(3)>>), Obj("bits64", <<P(2)>>)>> :
     h \in {3, 2, 4}, c \in {4, 5, 7, 8}}

MCHeaps == Small \cup Actor
MCRootSets == {<<1, 0, 0>>, <<1, 3, 2>>}
=============================================================================
