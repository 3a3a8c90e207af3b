--------------------------- MODULE PartitionSort ---------------------------
(***************************************************************************)
(* The in-place quicksort (gc/incremental/sort.rs) that orders the         *)
(* partitions by their amount of garbage before an evacuation.  The        *)
(* recursive calls are a worklist, in the order in which they are made;    *)
(* one step is one comparison of a loop or one exchange.                   *)
(***************************************************************************)
EXTENDS Integers, Sequences, FiniteSets, SequencesExt

CONSTANTS MaxLength, Keys

ASSUME SortConstants == MaxLength \in Nat /\ Keys \subseteq Int

VARIABLES array,     \* the keys of the partitions, index 0 first
          calls,     \* pending calls of quicksort: start and end
          running,   \* NoCall, or the local variables of quicksort
          unsorted   \* history: what there was before

sortVars == <<array, calls, running, unsorted>>

Call(start, end) == [start |-> start, end |-> end]
NoCall == Call(0, -1)

At(a, index) == a[index + 1]
Swap(a, i, j) == [a EXCEPT ![i + 1] = At(a, j), ![j + 1] = At(a, i)]

SortInit == array = <<>> /\ calls = <<>> /\ running = NoCall /\ unsorted = <<>>

sort == /\ array = <<>>
        /\ \E a \in BoundedSeq(Keys, MaxLength) :
             /\ array' = a /\ unsorted' = a
             /\ calls' = IF Len(a) > 1 THEN <<Call(0, Len(a) - 1)>> ELSE <<>>
        /\ UNCHANGED running

\* The middle element is the pivot.
quicksort ==
  /\ running = NoCall /\ calls # <<>>
  /\ \E c \in {Head(calls)} :
       running' = [start |-> c.start, end |-> c.end, forward |-> c.start, backward |-> c.end,
                   pivot |-> At(array, (c.start + c.end + 1) \div 2)]
  /\ calls' = Tail(calls)
  /\ UNCHANGED <<array, unsorted>>

forward_less == At(array, running.forward) < running.pivot
backward_greater == At(array, running.backward) > running.pivot

\* The two inner loops.
advance_forward ==
  /\ running # NoCall /\ forward_less
  /\ running' = [running EXCEPT !.forward = @ + 1]
  /\ UNCHANGED <<array, calls, unsorted>>

advance_backward ==
  /\ running # NoCall /\ ~forward_less /\ backward_greater
  /\ running' = [running EXCEPT !.backward = @ - 1]
  /\ UNCHANGED <<array, calls, unsorted>>

\* mutant: the right part needs three elements
Parts_short(r) ==
  (IF r.backward > r.start THEN <<Call(r.start, r.backward)>> ELSE <<>>)
  \o (IF r.forward + 1 < r.end THEN <<Call(r.forward, r.end)>> ELSE <<>>)

\* What the two parts have still to be sorted for.
Parts(r) ==
  (IF r.backward > r.start THEN <<Call(r.start, r.backward)>> ELSE <<>>)
  \o (IF r.forward < r.end THEN <<Call(r.forward, r.end)>> ELSE <<>>)

\* Behind the inner loops two elements are exchanged, or the partition is complete.
exchange ==
  LET r == running
      inOrder == r.forward > r.backward
      next == IF inOrder THEN r
              ELSE [r EXCEPT !.forward = @ + 1, !.backward = @ - 1]
  IN  /\ running # NoCall /\ ~forward_less /\ ~backward_greater
      /\ array' = IF inOrder THEN array ELSE Swap(array, r.forward, r.backward)
      /\ IF next.forward > next.backward
         THEN running' = NoCall /\ calls' = Parts(next) \o calls
         ELSE running' = next /\ UNCHANGED calls
      /\ UNCHANGED unsorted

\* The next evacuation has other partitions to sort.
Finish == /\ calls = <<>> /\ running = NoCall /\ array # <<>>
          /\ array' = <<>> /\ unsorted' = <<>> /\ UNCHANGED <<calls, running>>

SortNext == sort \/ quicksort \/ advance_forward \/ advance_backward \/ exchange \/ Finish

SortSpec == SortInit /\ [][SortNext]_sortVars
-----------------------------------------------------------------------------
Occurrences(a, key) == Cardinality({i \in DOMAIN a : a[i] = key})

\* No call has less than two elements, the loops end within the range, so that
\* the unsigned backward cannot underflow, and pending calls have disjoint ranges.
CallsAreRanges ==
  /\ \A i \in DOMAIN calls : 0 <= calls[i].start /\ calls[i].start < calls[i].end
  /\ \A i \in 1 .. Len(calls) - 1 : calls[i].end < calls[i + 1].start
  /\ running # NoCall => /\ running.start <= running.forward /\ running.forward <= running.end
                         /\ running.start <= running.backward /\ running.backward <= running.end
                         /\ calls # <<>> => running.end < calls[1].start

\* At any time the partitions are those there were, and in the end they are in
\* their order.
Sorted ==
  /\ CallsAreRanges
  /\ \A key \in Keys : Occurrences(array, key) = Occurrences(unsorted, key)
  /\ calls = <<>> /\ running = NoCall => \A i \in 1 .. Len(array) - 1 : array[i] <= array[i + 1]
=============================================================================
