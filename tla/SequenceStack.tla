--------------------------- MODULE SequenceStack ---------------------------
(* What a stack promises.                                                   *)
EXTENDS Integers, Sequences

CONSTANTS StackValues, STACK_EMPTY
VARIABLES items, popped

Init == items = <<>> /\ popped = STACK_EMPTY

Push(value) == items' = Append(items, value) /\ UNCHANGED popped

Pop == IF items = <<>> THEN popped' = STACK_EMPTY /\ UNCHANGED items
       ELSE /\ popped' = items[Len(items)]
            /\ items' = SubSeq(items, 1, Len(items) - 1)

Next == Pop \/ \E value \in StackValues : Push(value)

Spec == Init /\ [][Next]_<<items, popped>>
=============================================================================
