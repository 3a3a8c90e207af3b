------------------------------ MODULE TextRope ------------------------------
(***************************************************************************)
(* Texts (text.rs) and their iterators (text_iter.rs): a text is a blob or *)
(* a concatenation node over two texts, so that texts grow without copies. *)
(* What reads a text has to follow the tree: text_to_buf, which leaves its *)
(* worklist as breadcrumbs in the part of the destination that it has not  *)
(* written yet, the comparison, and the iterator over code points.         *)
(***************************************************************************)
EXTENDS Integers, Sequences, SequencesExt

CONSTANTS Literals,          \* texts of the program, as sequences of code points
          MIN_CONCAT_SIZE,   \* shorter texts are blobs
          CRUMB_SIZE,        \* bytes of a breadcrumb
          MaxTexts

VARIABLES texts,     \* the texts so far
          iter,      \* the iterator, of no text at first
          produced   \* history: what the iterator has returned

textVars == <<texts, iter, produced>>

\* char::encode_utf8 and text_singleton.
encode_utf8(c) ==
  CASE c < 128 -> <<c>>
    [] c >= 128 /\ c < 2048 -> <<192 + (c \div 64), 128 + (c % 64)>>
    [] c >= 2048 /\ c < 65536 -> <<224 + (c \div 4096), 128 + ((c \div 64) % 64), 128 + (c % 64)>>
    [] OTHER -> <<240 + (c \div 262144), 128 + ((c \div 4096) % 64),
                   128 + ((c \div 64) % 64), 128 + (c % 64)>>

leading_ones(b) == CHOOSE n \in 0 .. 8 : b >= 256 - 2 ^ (8 - n) /\ (n = 8 \/ b < 256 - 2 ^ (7 - n))

\* The code point at a position of a blob, and its size.
decode_code_point(bytes, pos) ==
  LET b    == bytes[pos + 1]
      size == leading_ones(b)
  IN  IF size = 0 THEN [size |-> 1, value |-> b]
      ELSE [size |-> size,
            value |-> FoldLeft(LAMBDA v, i : v * 64 + (bytes[pos + 1 + i] % 64),
                               b % (2 ^ (8 - size)), [i \in 1 .. size - 1 |-> i])]

Blob(bytes) == [tag |-> "blob", n_bytes |-> Len(bytes), bytes |-> bytes]
IsBlob(s) == s.tag = "blob"
text_size(s) == s.n_bytes

text_concat(s1, s2) ==
  LET new_len == text_size(s1) + text_size(s2)
  IN  IF text_size(s1) = 0 THEN s2
      ELSE IF text_size(s2) = 0 THEN s1
      ELSE IF new_len < MIN_CONCAT_SIZE THEN Blob(s1.bytes \o s2.bytes)
      ELSE [tag |-> "concat", n_bytes |-> new_len, text1 |-> s1, text2 |-> s2]
-----------------------------------------------------------------------------
\* The destination with bytes (or a crumb) written at an offset.
Written(buf, offset, bytes) ==
  SubSeq(buf, 1, offset) \o bytes \o SubSeq(buf, offset + Len(bytes) + 1, Len(buf))

Crumb(t, next) == [k \in 1 .. CRUMB_SIZE |-> [t |-> t, next |-> next]]

HasRoomForCrumb_short(len) == len >= CRUMB_SIZE - 1   \* mutant: off by one
HasRoomForCrumb(len) == len >= CRUMB_SIZE

NoCrumb == -1

RECURSIVE Serialize(_, _, _, _)
Serialize(buf, s, offset, next_crumb) ==
  IF IsBlob(s) THEN
    LET done == Written(buf, offset, s.bytes)
        crumb == done[next_crumb + 1]
    IN  IF next_crumb = NoCrumb THEN done
        ELSE Serialize(done, crumb.t, next_crumb, crumb.next)
  ELSE LET second == offset + text_size(s.text1)
       IN  IF HasRoomForCrumb(text_size(s.text2))
           THEN Serialize(Written(buf, second, Crumb(s.text2, next_crumb)), s.text1, offset, second)
           ELSE Serialize(Serialize(buf, s.text2, second, NoCrumb), s.text1, offset, next_crumb)

\* blob_of_text with text_to_buf.
blob_of_text(s) == IF IsBlob(s) THEN s.bytes
                   ELSE Serialize([k \in 1 .. text_size(s) |-> 0], s, 0, NoCrumb)
-----------------------------------------------------------------------------
RECURSIVE memcmp(_, _)
memcmp(a, b) == IF a = <<>> THEN 0
                ELSE IF Head(a) # Head(b) THEN (IF Head(a) < Head(b) THEN -1 ELSE 1)
                ELSE memcmp(Tail(a), Tail(b))

\* The smallest node that has the range.
RECURSIVE text_get_range(_, _, _)
text_get_range(s, offset, n) ==
  IF IsBlob(s) THEN <<s, offset>>
  ELSE IF text_size(s.text1) >= offset + n THEN text_get_range(s.text1, offset, n)
  ELSE IF offset >= text_size(s.text1) THEN text_get_range(s.text2, offset - text_size(s.text1), n)
  ELSE <<s, offset>>

\* Where the comparison with the other text goes on after n bytes.
After(offset, n) == offset + n

RECURSIVE text_compare_range(_, _, _, _, _)
text_compare_range(t1, from1, t2, from2, n) ==
  LET s1 == text_get_range(t1, from1, n)[1]
      o1 == text_get_range(t1, from1, n)[2]
      s2 == text_get_range(t2, from2, n)[1]
      o2 == text_get_range(t2, from2, n)[2]
      left1 == text_size(s1.text1) - o1
      left2 == text_size(s2.text1) - o2
      Then(cmp, rest) == IF cmp # 0 THEN cmp ELSE rest
  IN  IF ~IsBlob(s1)
      THEN Then(text_compare_range(s1.text1, o1, s2, o2, left1),
                text_compare_range(s1.text2, 0, s2, After(o2, left1), n - left1))
      ELSE IF ~IsBlob(s2)
      THEN Then(text_compare_range(s1, o1, s2.text1, o2, left2),
                text_compare_range(s1, After(o1, left2), s2.text2, 0, n - left2))
      ELSE memcmp(SubSeq(s1.bytes, o1 + 1, o1 + n), SubSeq(s2.bytes, o2 + 1, o2 + n))

ByLength(cmp, n1, n2) == IF cmp # 0 THEN cmp ELSE IF n1 > n2 THEN 1 ELSE IF n1 < n2 THEN -1 ELSE 0

Shorter(s1, s2) == IF text_size(s1) < text_size(s2) THEN text_size(s1) ELSE text_size(s2)

text_compare(s1, s2) ==
  ByLength(text_compare_range(s1, 0, s2, 0, Shorter(s1, s2)), text_size(s1), text_size(s2))

blob_compare(b1, b2) ==
  LET n == Shorter(b1, b2)
  IN  ByLength(memcmp(SubSeq(b1.bytes, 1, n), SubSeq(b2.bytes, 1, n)), b1.n_bytes, b2.n_bytes)
-----------------------------------------------------------------------------
RECURSIVE text_len(_)
text_len(s) == IF IsBlob(s) THEN Len(SelectSeq(s.bytes, LAMBDA b : b \div 64 # 2))
               ELSE text_len(s.text1) + text_len(s.text2)

\* The leftmost blob; the other texts are added to the list of those to do.
RECURSIVE find_leaf(_, _)
find_leaf(text, todo) == IF IsBlob(text) THEN [blob |-> text, pos |-> 0, todo |-> todo]
                         ELSE find_leaf(text.text1, <<text.text2>> \o todo)

NoIterator == [blob |-> Blob(<<>>), pos |-> 0, todo |-> <<>>]

text_iter_done == iter.pos >= iter.blob.n_bytes /\ iter.todo = <<>>

NextLeaf == find_leaf(Head(iter.todo), Tail(iter.todo))

Init == texts = <<>> /\ iter = NoIterator /\ produced = <<>>

Concat == /\ Len(texts) < MaxTexts /\ iter = NoIterator
          /\ \E s1, s2 \in ToSet(texts) \cup {Blob(FlattenSeq([k \in DOMAIN l |-> encode_utf8(l[k])])) : l \in Literals} :
               texts' = Append(texts, text_concat(s1, s2))
          /\ UNCHANGED <<iter, produced>>

text_iter == /\ texts # <<>> /\ iter = NoIterator
             /\ iter' = find_leaf(Last(texts), <<>>)
             /\ UNCHANGED <<texts, produced>>

\* It moves on to the next blob and reads its first code point.
text_iter_next ==
  /\ ~text_iter_done
  /\ LET at == IF iter.pos < iter.blob.n_bytes THEN iter ELSE NextLeaf
         c  == decode_code_point(at.blob.bytes, at.pos)
     IN  /\ iter' = [at EXCEPT !.pos = @ + c.size]
         /\ produced' = Append(produced, c.value)
  /\ UNCHANGED texts

\* The program has no use for the texts any more.
Drop == texts # <<>> /\ text_iter_done /\ texts' = <<>> /\ iter' = NoIterator /\ produced' = <<>>

Next == Concat \/ text_iter \/ text_iter_next \/ Drop

Spec == Init /\ [][Next]_textVars
-----------------------------------------------------------------------------
RECURSIVE Flat(_)
Flat(s) == IF IsBlob(s) THEN s.bytes ELSE Flat(s.text1) \o Flat(s.text2)

\* A rope is its bytes, however it was put together: the breadcrumbs of
\* text_to_buf overwrite neither what is written nor each other, texts are
\* compared by their bytes, and the iterator returns the code points in order,
\* the last one just before it is done, as many as text_len counts.
RopeIsItsBytes ==
  /\ \A s \in ToSet(texts) : blob_of_text(s) = Flat(s)
  /\ \A s1, s2 \in ToSet(texts) :
       text_compare(s1, s2) = blob_compare(Blob(Flat(s1)), Blob(Flat(s2)))
  /\ iter # NoIterator =>
       LET rest == SubSeq(iter.blob.bytes, iter.pos + 1, iter.blob.n_bytes)
                   \o FlattenSeq([k \in DOMAIN iter.todo |-> Flat(iter.todo[k])])
           seen == FlattenSeq([k \in DOMAIN produced |-> encode_utf8(produced[k])])
       IN  /\ seen \o rest = Flat(Last(texts))
           /\ text_iter_done <=> Len(produced) = text_len(Last(texts))
=============================================================================
