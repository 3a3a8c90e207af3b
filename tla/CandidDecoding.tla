--------------------------- MODULE CandidDecoding ---------------------------
(***************************************************************************)
(* What the runtime system does for the decoding of a Candid message       *)
(* (idl.rs): the type table is parsed and checked, values that are not     *)
(* expected are skipped, and the fields of a record are found.             *)
(*                                                                         *)
(* The data is a sequence of numbers: a number of any size, a length or a  *)
(* tag is one, as is each byte of a text or blob.                          *)
(***************************************************************************)
EXTENDS CandidTypes, Sequences, FiniteSets, SequencesExt

CONSTANTS RawEntries,    \* entries that may be in a message, checked or not
          MainTypes, Bytes, MaxBytes, TableLength,
          MaxDepth,      \* 100 in the source
          Quota          \* the value limit of a message

VARIABLES extended,      \* Candidish stabilization or pure Candid
          typtbl, parsed, main, data,
          skipped        \* what skip_any has returned

decodeVars == <<extended, typtbl, parsed, main, data, skipped>>

is_primitive_type(t) == t < 0 /\ \/ t >= IDL_PRIM_lowest
                                 \/ t = IDL_REF_principal
                                 \/ extended /\ t = IDL_EXT_region

\* mutant: accepts the index behind the table
check_typearg_length(t, n_types) == is_primitive_type(t) \/ (t >= 0 /\ t <= n_types)
check_typearg(t, n_types) == is_primitive_type(t) \/ (t >= 0 /\ t < n_types)

Args(e) == {a.type : a \in ToSet(e.args)} \cup ToSet(e.in)
Ascending(args) == \A i \in 1 .. Len(args) - 1 : args[i].tag < args[i + 1].tag

\* The first pass of parse_idl_header over an entry.
EntryAccepted(e, n_types) ==
  /\ \/ e.con < 0 /\ ~is_primitive_type(e.con)
     \/ e.con = IDL_CON_alias /\ extended
  /\ \A t \in Args(e) : check_typearg(t, n_types)
  /\ e.con \in {IDL_CON_record, IDL_CON_variant, IDL_CON_service} => Ascending(e.args)
  /\ e.con = IDL_CON_func => e.ann \subseteq 1 .. 3

\* The second pass, which forward references make necessary.
ServiceAccepted(e) ==
  e.con = IDL_CON_service =>
    \A t \in Args(e) : t >= 0 /\ t < Len(typtbl) /\ typtbl[t + 1].con = IDL_CON_func
-----------------------------------------------------------------------------
(* Reading: the position of the next byte, or 0 after a trap, and the quota. *)
Trap == [pos |-> 0, quota |-> 0]

idl_limit_check(s, decrement, count) ==
  IF s.pos = 0 \/ s.quota < count THEN Trap
  ELSE IF decrement THEN [s EXCEPT !.quota = @ - count] ELSE s

advance(s, n) == IF s.pos = 0 \/ s.pos + n > Len(data) + 1 THEN Trap ELSE [s EXCEPT !.pos = @ + n]
Next1(s) == IF s.pos = 0 \/ s.pos > Len(data) THEN Quota + MaxBytes + 1 ELSE data[s.pos]
skip_blob(s) == advance(advance(s, 1), Next1(s))
read_byte_tag(s) == IF Next1(s) > 1 THEN Trap ELSE advance(s, 1)

IsTag(s, tag) == Next1(s) = tag

RECURSIVE skip_any(_, _, _), Repeat(_, _, _)
Repeat(s, t, count) == IF count = 0 \/ s.pos = 0 THEN s ELSE Repeat(skip_any(s, t, 0), t, count - 1)

\* mutant: the elements are not skipped behind the first one
skip_any_vec_once(s, t, count) == IF count = 0 THEN s ELSE skip_any(s, t, 0)

skip_any_vec(s, t, count) ==
  LET checked == idl_limit_check(s, FALSE, count)
      first   == skip_any(checked, t, 0)
  IN  IF count = 0 THEN s
      ELSE IF first.pos = checked.pos THEN idl_limit_check(first, TRUE, count - 1)
      ELSE Repeat(first, t, count - 1)

\* A record that contains itself directly is refused, others by their depth.
skip_record(s, t, depth) ==
  FoldLeft(LAMBDA r, a : IF a.type = t THEN Trap ELSE skip_any(r, a.type, depth + 1),
           s, typtbl[t + 1].args)

skip_reference(s, con) ==
  LET actor == IF con = IDL_CON_func /\ ~IsTag(advance(s, 1), 1) THEN Trap
               ELSE skip_blob(IF con = IDL_CON_func THEN advance(s, 2) ELSE advance(s, 1))
  IN  IF ~IsTag(s, 1) THEN Trap ELSE IF con = IDL_CON_func THEN skip_blob(actor) ELSE actor

skip_prim(s, t) ==
  CASE t \in {IDL_PRIM_null, IDL_PRIM_reserved} -> s
    [] t = IDL_PRIM_nat -> advance(s, 1)
    [] t = IDL_PRIM_text -> skip_blob(s)
    [] t = IDL_REF_principal -> IF IsTag(s, 1) THEN skip_blob(advance(s, 1)) ELSE read_byte_tag(s)
    [] t = IDL_EXT_region -> skip_blob(advance(s, 2))
    [] OTHER -> Trap

skip_con(s, t, depth) ==
  LET e == typtbl[t + 1]
      inner == e.args[1].type
  IN  CASE e.con = IDL_CON_opt -> IF IsTag(s, 1) THEN skip_any(advance(s, 1), inner, 0)
                                  ELSE read_byte_tag(s)
        [] e.con = IDL_CON_vec -> skip_any_vec(advance(s, 1), inner, Next1(s))
        [] e.con = IDL_CON_record -> skip_record(s, t, depth)
        [] e.con = IDL_CON_variant ->
             IF Next1(s) >= Len(e.args) THEN Trap
             ELSE skip_any(advance(s, 1), e.args[Next1(s) + 1].type, 0)
        [] e.con \in {IDL_CON_func, IDL_CON_service} -> skip_reference(s, e.con)
        [] e.con = IDL_CON_alias -> IF IsTag(s, 0) THEN skip_any(advance(s, 2), inner, 0)
                                    ELSE advance(read_byte_tag(s), 1)
        [] OTHER -> IF IsTag(advance(s, 1), 0) THEN advance(s, 2 + Next1(s)) ELSE Trap

skip_any(s, t, depth) ==
  LET counted == idl_limit_check(s, TRUE, 1)
  IN  IF depth > MaxDepth \/ counted.pos = 0 THEN Trap
      ELSE IF t < 0 THEN skip_prim(counted, t)
      ELSE skip_con(counted, t, depth)

\* find_field from field k of the record, when n fields are left.
RECURSIVE find_field(_, _, _, _)
find_field(args, k, s, tag) ==
  IF k > Len(args) \/ args[k].tag > tag THEN [found |-> FALSE, field |-> k, s |-> s]
  ELSE IF args[k].tag = tag THEN [found |-> TRUE, field |-> k, s |-> s]
  ELSE find_field(args, k + 1, skip_any(s, args[k].type, 0), tag)

skip_fields(args, k, s) ==
  FoldLeft(LAMBDA r, a : skip_any(r, a.type, 0), s, SubSeq(args, k, Len(args)))
-----------------------------------------------------------------------------
Start == [pos |-> 1, quota |-> Quota]
NotSkipped == [pos |-> -1, quota |-> 0]

Init == /\ extended \in BOOLEAN
        /\ typtbl = <<>> /\ parsed = FALSE /\ main = IDL_PRIM_null /\ data = <<>>
        /\ skipped = NotSkipped

ParseEntry == /\ ~parsed /\ Len(typtbl) < TableLength
              /\ \E e \in RawEntries : EntryAccepted(e, TableLength) /\ typtbl' = Append(typtbl, e)
              /\ UNCHANGED <<extended, parsed, main, data, skipped>>

\* The rest of parse_idl_header, with the type of an argument; behind it are
\* the values of the message, whatever they are.
ParseEnd == /\ ~parsed /\ Len(typtbl) = TableLength
            /\ \A e \in ToSet(typtbl) : ServiceAccepted(e)
            /\ \E t \in MainTypes : check_typearg(t, TableLength) /\ main' = t
            /\ parsed' = TRUE
            /\ data' \in BoundedSeq(Bytes, MaxBytes)
            /\ UNCHANGED <<extended, typtbl, skipped>>

\* An argument that is not expected is skipped.
SkipArgument == /\ parsed /\ skipped = NotSkipped
                /\ skipped' = skip_any(Start, main, 0)
                /\ UNCHANGED <<extended, typtbl, parsed, main, data>>

\* The message has been decoded, or rejected for its service types.
Finish == /\ skipped # NotSkipped \/ (Len(typtbl) = TableLength /\ ~parsed
                                      /\ \E e \in ToSet(typtbl) : ~ServiceAccepted(e))
          /\ typtbl' = <<>> /\ parsed' = FALSE /\ main' = IDL_PRIM_null /\ data' = <<>>
          /\ skipped' = NotSkipped
          /\ UNCHANGED extended

Next == ParseEntry \/ ParseEnd \/ SkipArgument \/ Finish

Spec == Init /\ [][Next]_decodeVars
-----------------------------------------------------------------------------
\* The positions behind a value of type t at position i, by Candid's grammar of
\* values; fuel bounds the nesting.
At(i, values) == IF i <= Len(data) /\ data[i] \in values THEN {i + 1} ELSE {}
Blob(i) == {j \in 1 .. Len(data) + 1 : i <= Len(data) /\ j = i + 1 + data[i]}

RECURSIVE Ends(_, _, _), EndsAll(_, _, _)
EndsAll(types, positions, fuel) ==
  IF types = <<>> THEN positions
  ELSE EndsAll(Tail(types), UNION {Ends(Head(types), i, fuel) : i \in positions}, fuel)
Ends(t, i, fuel) ==
  LET e == typtbl[t + 1]
      All(types, positions) == EndsAll(types, positions, fuel - 1)
  IN  CASE fuel = 0 -> {}
        [] t \in {IDL_PRIM_null, IDL_PRIM_reserved} -> {i}
        [] t = IDL_PRIM_nat -> At(i, Nat)
        [] t = IDL_PRIM_text -> Blob(i)
        [] t = IDL_REF_principal -> At(i, {0}) \cup UNION {Blob(j) : j \in At(i, {1})}
        [] t = IDL_EXT_region -> UNION {Blob(k) : k \in UNION {At(j, Nat) : j \in At(i, Nat)}}
        [] t < 0 -> {}
        [] e.con = IDL_CON_opt -> At(i, {0}) \cup All(<<e.args[1].type>>, At(i, {1}))
        [] e.con = IDL_CON_vec ->
             UNION {All([k \in 1 .. n |-> e.args[1].type], At(i, {n})) : n \in Bytes}
        [] e.con = IDL_CON_record -> All([k \in DOMAIN e.args |-> e.args[k].type], {i})
        [] e.con = IDL_CON_variant ->
             UNION {All(<<e.args[k].type>>, At(i, {k - 1})) : k \in DOMAIN e.args}
        [] e.con = IDL_CON_func ->
             UNION {Blob(k) : k \in UNION {Blob(j) : j \in UNION {At(h, {1}) : h \in At(i, {1})}}}
        [] e.con = IDL_CON_service -> UNION {Blob(j) : j \in At(i, {1})}
        [] e.con = IDL_CON_alias ->
             All(<<e.args[1].type>>, UNION {At(j, Nat) : j \in At(i, {0})})
             \cup UNION {At(j, Nat) : j \in At(i, {1})}
        [] OTHER -> {j \in 1 .. Len(data) + 1 : \E h \in At(i, Nat) :
                       At(h, {0}) # {} /\ j = h + 1 + data[i]}

Fuel == MaxBytes + 2 * TableLength

\* What parse_idl_header has accepted can be trusted: indices are in the table,
\* also those of forward references, and methods are functions.
ParsedIsWellFormed ==
  parsed => \A e \in ToSet(typtbl) :
    /\ \A t \in Args(e) : t >= 0 => t + 1 \in DOMAIN typtbl
    /\ e.con = IDL_CON_service => \A a \in ToSet(e.args) : typtbl[a.type + 1].con = IDL_CON_func

\* With a sufficient quota, skip_any ends exactly behind the value, and traps iff
\* there is none; the shortcut for vectors of empty elements makes no difference.
\* Within a record, find_field ends at the field with the tag or at the first one
\* with a higher tag, as its comment says, and at the value of that field, from
\* where skip_fields gets to the end.
SkipsTheValue ==
  /\ skipped # NotSkipped => Ends(main, 1, Fuel) = {skipped.pos} \ {0}
  /\ skipped.pos > 0 /\ main >= 0 /\ typtbl[main + 1].con = IDL_CON_record =>
       LET args == typtbl[main + 1].args
       IN  \A tag \in 0 .. 3 : \E f \in {find_field(args, 1, Start, tag)} :
             /\ f.found <=> \E a \in ToSet(args) : a.tag = tag
             /\ \A k \in DOMAIN args : k < f.field <=> args[k].tag < tag
             /\ {f.s.pos} = EndsAll([k \in 1 .. f.field - 1 |-> args[k].type], {1}, Fuel)
             /\ skip_fields(args, f.field, f.s).pos = skipped.pos
=============================================================================
