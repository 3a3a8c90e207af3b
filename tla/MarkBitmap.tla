---------------------------- MODULE MarkBitmap ----------------------------
(***************************************************************************)
(* The mark bitmap of a partition and its iterator                         *)
(* (gc/incremental/mark_bitmap.rs).  The iterator loads the bitmap word by *)
(* word and shifts the bits of the current word out.  A word is the set of *)
(* the positions of its ones, the least significant bit being 0; a round   *)
(* of the loop of next is a step.                                          *)
(***************************************************************************)
EXTENDS Integers, Sequences, FiniteSets, SequencesExt

CONSTANTS WordBits, BitmapWords

ASSUME BitmapConstants == WordBits \in Nat \ {0} /\ BitmapWords \in Nat

VARIABLES marks,       \* the marked offsets, in words
          iterator,    \* NotIterating or the fields of BitmapIterator
          advancing,   \* next is in its loop
          visited      \* history: the offsets that the iteration has returned

bitmapVars == <<marks, iterator, advancing, visited>>

BIT_INDEX_END == WordBits * BitmapWords
BITMAP_ITERATION_END == -1

BitmapIterator(next_bit_index, current_word, leading_zeros) ==
  [next_bit_index |-> next_bit_index, current_word |-> current_word, leading_zeros |-> leading_zeros]
NotIterating == BitmapIterator(-2, {}, 0)

\* The word of the bitmap that starts at a bit index.
Word(index) == {i \in 0 .. WordBits - 1 : index + i \in marks}

trailing_zeros(word) == Min(word)
leading_zeros_of(word) == IF word = {} THEN WordBits ELSE WordBits - 1 - Max(word)
shifted(word, n) == {i - n : i \in {j \in word : j >= n}}

current_marked_offset_next ==   \* mutant: the index behind the bit
  IF iterator.next_bit_index = BITMAP_ITERATION_END THEN BITMAP_ITERATION_END
  ELSE iterator.next_bit_index % BIT_INDEX_END

current_marked_offset ==
  IF iterator.next_bit_index = BITMAP_ITERATION_END THEN BITMAP_ITERATION_END
  ELSE iterator.next_bit_index - 1
-----------------------------------------------------------------------------
BitmapInit == marks = {} /\ iterator = NotIterating /\ advancing = FALSE /\ visited = <<>>

\* Objects are marked before the iteration, and when they are allocated during
\* it they are in other partitions.
mark == /\ iterator = NotIterating
        /\ \E offset \in 0 .. BIT_INDEX_END - 1 : marks' = marks \cup {offset}
        /\ UNCHANGED <<iterator, advancing, visited>>

\* The new iterator moves to the first marked bit.
iterate == /\ iterator = NotIterating
           /\ iterator' = BitmapIterator(0, {}, 0) /\ advancing' = TRUE
           /\ UNCHANGED <<marks, visited>>

next == /\ iterator # NotIterating /\ ~advancing /\ current_marked_offset # BITMAP_ITERATION_END
        /\ visited' = Append(visited, current_marked_offset)
        /\ advancing' = TRUE
        /\ UNCHANGED <<marks, iterator>>

\* The next set bit of the current word is found.
next_bit ==
  LET shift == trailing_zeros(iterator.current_word)
  IN  /\ advancing /\ iterator.next_bit_index < BIT_INDEX_END /\ iterator.current_word # {}
      /\ iterator' = [iterator EXCEPT !.current_word = shifted(shifted(@, shift), 1),
                                      !.next_bit_index = @ + shift + 1]
      /\ advancing' = FALSE
      /\ UNCHANGED <<marks, visited>>

\* The current word has no more bits: the next one is loaded, if there is one.
next_word ==
  LET index == iterator.next_bit_index + iterator.leading_zeros
  IN  /\ advancing /\ iterator.next_bit_index < BIT_INDEX_END /\ iterator.current_word = {}
      /\ iterator' = IF index < BIT_INDEX_END
                     THEN BitmapIterator(index, Word(index), leading_zeros_of(Word(index)))
                     ELSE [iterator EXCEPT !.next_bit_index = index]
      /\ UNCHANGED <<marks, advancing, visited>>

next_end == /\ advancing /\ iterator.next_bit_index >= BIT_INDEX_END
            /\ iterator' = [iterator EXCEPT !.next_bit_index = BITMAP_ITERATION_END]
            /\ advancing' = FALSE
            /\ UNCHANGED <<marks, visited>>

\* The bitmap is assigned to a partition again for the next run.
assign == /\ iterator # NotIterating /\ ~advancing /\ current_marked_offset = BITMAP_ITERATION_END
          /\ marks' = {} /\ iterator' = NotIterating /\ visited' = <<>>
          /\ UNCHANGED advancing

BitmapNext == mark \/ iterate \/ next \/ next_bit \/ next_word \/ next_end \/ assign

BitmapSpec == BitmapInit /\ [][BitmapNext]_bitmapVars
-----------------------------------------------------------------------------
\* An iteration returns the marked offsets from the lowest to the highest, with
\* none left out and none twice, be they in the first or the last bit of a word.
VisitsMarks ==
  iterator # NotIterating /\ ~advancing =>
    LET rest == IF current_marked_offset = BITMAP_ITERATION_END THEN {}
                ELSE {o \in marks : o >= current_marked_offset}
    IN  /\ ToSet(visited) = marks \ rest
        /\ \A i \in 1 .. Len(visited) - 1 : visited[i] < visited[i + 1]
        /\ current_marked_offset # BITMAP_ITERATION_END => current_marked_offset \in marks
=============================================================================
