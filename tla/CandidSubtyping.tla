-------------------------- MODULE CandidSubtyping --------------------------
(***************************************************************************)
(* The type relations of the runtime system (idl.rs) with their memo table *)
(* (bitrel.rs): the Candid subtype test for references in messages, whose  *)
(* memo table all values of a message share, and the memory compatibility  *)
(* of the stable types of two program versions.                            *)
(*                                                                         *)
(* A rule gives the sequence of the pairs that have to be related for a    *)
(* pair of types.                                                          *)
(***************************************************************************)
EXTENDS CandidTypes, Sequences, FiniteSets, SequencesExt

CONSTANTS Tables,      \* pairs of type tables of messages and expected types
          Versions,    \* pairs of type tables of program versions
          MaxCalls

VARIABLES typtbl1, typtbl2,
          rel,         \* the bits of the memo table that are set
          results      \* history: the tests made with this memo table, and
                       \* their outcome, a set that is empty before it is known

subVars == <<typtbl1, typtbl2, rel, results>>

\* The side of a test: in the order of the tables, or with the tables swapped.
Tbl1(p) == IF p THEN typtbl1 ELSE typtbl2
Unfold(tbl, t) == IF t < 0 THEN Entry(t, <<>>) ELSE tbl[t + 1]

\* A pair to relate next, and pairs that are always and never related.
Pair(co, t1, t2) == [co |-> co, inv |-> FALSE, t1 |-> t1, t2 |-> t2]
Invariant(t1, t2) == [Pair(TRUE, t1, t2) EXCEPT !.inv = TRUE]
Related == Pair(TRUE, IDL_PRIM_null, IDL_PRIM_null)
Refuted == Pair(TRUE, IDL_PRIM_null, IDL_PRIM_text)

SamePrimitive(t1, t2) == t1 < 0 /\ t1 = t2
RefutedUnless(b) == IF b THEN <<>> ELSE <<Refuted>>
-----------------------------------------------------------------------------
(* bitrel.rs *)
BITS == 2

locate_ptr_bit(p, i_j, j_i, bit) ==
  LET base == IF p THEN 0 ELSE Len(typtbl1)
      i    == IF p THEN i_j ELSE j_i
      j    == IF p THEN j_i ELSE i_j
  IN  ((base + i) * Len(typtbl2) + j) * BITS + bit

visited(r, p, i, j) == locate_ptr_bit(p, i, j, 0) \in r
visit(r, p, i, j) == r \cup {locate_ptr_bit(p, i, j, 0)}
related(r, p, i, j) == locate_ptr_bit(p, i, j, 1) \notin r

disprove_not(r, p, i, j) == r   \* mutant: the negative result is not remembered
disprove(r, p, i, j) == r \cup {locate_ptr_bit(p, i, j, 1)}
-----------------------------------------------------------------------------
\* The next argument of args from index next on whose tag is not lower, or the
\* last one.
Seek(args, next, tag) ==
  CHOOSE k \in next .. Len(args) :
    /\ k = Len(args) \/ args[k].tag >= tag
    /\ \A j \in next .. k - 1 : args[j].tag < tag

\* For variants and services: each of fs has its counterpart in gs, of which
\* the others are skipped unless exact.
Match(fs, gs, exact, P(_, _)) ==
  FoldLeft(LAMBDA s, f :
             LET k == IF exact THEN s.next ELSE Seek(gs, s.next, f.tag)
             IN  IF s.next > Len(gs) THEN [s EXCEPT !.pairs = Append(@, Refuted)]
                 ELSE [next |-> k + 1,
                       pairs |-> Append(s.pairs, IF gs[k].tag = f.tag THEN P(f.type, gs[k].type)
                                                 ELSE Refuted)],
           [next |-> 1, pairs |-> <<>>], fs)

is_null_opt_reserved(tbl, t) ==
  Unfold(tbl, t).con \in {IDL_CON_opt} \cup IF t < 0 THEN {IDL_PRIM_null, IDL_PRIM_reserved} ELSE {}

Optional(tbl, t) == IF is_null_opt_reserved(tbl, t) THEN Related ELSE Refuted

\* The fields of a record; the argument that is current when tag1 > tag2 is
\* considered again, except that nothing is when all have been read (n1 = 0).
RecordPairs(p, args1, args2) ==
  FoldLeft(LAMBDA s, f :
             LET current == IF s.advance THEN Seek(args1, s.next, f.tag) ELSE s.current
                 next    == IF s.advance THEN current + 1 ELSE s.next
                 pair    == IF args1[current].tag > f.tag THEN Optional(Tbl1(~p), f.type)
                            ELSE Pair(TRUE, args1[current].type, f.type)
             IN  IF s.next > Len(args1)
                 THEN [s EXCEPT !.pairs = Append(@, Optional(Tbl1(~p), f.type))]
                 ELSE [next |-> next, current |-> current,
                       advance |-> args1[current].tag <= f.tag, pairs |-> Append(s.pairs, pair)],
           [next |-> 1, current |-> 1, advance |-> TRUE, pairs |-> <<>>], args2).pairs

FuncPairs(p, e1, e2) ==
  [i \in DOMAIN e1.in |-> IF i > Len(e2.in) THEN Optional(Tbl1(p), e1.in[i])
                          ELSE Pair(FALSE, e2.in[i], e1.in[i])]
  \o [i \in DOMAIN e2.args |-> IF i > Len(e1.args) THEN Optional(Tbl1(~p), e2.args[i].type)
                               ELSE Pair(TRUE, e1.args[i].type, e2.args[i].type)]
  \o RefutedUnless(e1.ann = e2.ann)

\* The match of sub.
SubRule(p, t1, t2) ==
  LET e1 == Unfold(Tbl1(p), t1)
      e2 == Unfold(Tbl1(~p), t2)
      cons == <<e1.con, e2.con>>
  IN  CASE \/ e2.con \in {IDL_PRIM_reserved, IDL_CON_opt} \/ e1.con = IDL_PRIM_empty
           \/ cons \in {<<IDL_PRIM_nat, IDL_PRIM_int>>, <<IDL_CON_service, IDL_REF_principal>>} -> <<>>
        [] cons = <<IDL_CON_vec, IDL_CON_vec>> -> <<Pair(TRUE, e1.args[1].type, e2.args[1].type)>>
        [] cons = <<IDL_CON_func, IDL_CON_func>> -> FuncPairs(p, e1, e2)
        [] cons = <<IDL_CON_record, IDL_CON_record>> -> RecordPairs(p, e1.args, e2.args)
        [] cons = <<IDL_CON_variant, IDL_CON_variant>> ->
             Match(e1.args, e2.args, FALSE, LAMBDA a, b : Pair(TRUE, a, b)).pairs
        [] cons = <<IDL_CON_service, IDL_CON_service>> ->
             Match(e2.args, e1.args, FALSE, LAMBDA b, a : Pair(TRUE, a, b)).pairs
        [] OTHER -> RefutedUnless(SamePrimitive(t1, t2))

RECURSIVE sub(_, _, _, _)
sub(r, p, t1, t2) ==
  LET memo == t1 >= 0 /\ t2 >= 0
      start == [ok |-> TRUE, rel |-> IF memo THEN visit(r, p, t1, t2) ELSE r]
      all == FoldLeft(LAMBDA s, q : IF ~s.ok \/ q = Refuted THEN [s EXCEPT !.ok = FALSE]
                                    ELSE sub(s.rel, q.co = p, q.t1, q.t2),
                      start, SubRule(p, t1, t2))
  IN  IF memo /\ visited(r, p, t1, t2) THEN [ok |-> related(r, p, t1, t2), rel |-> r]
      ELSE IF all.ok \/ ~memo THEN all
      ELSE [all EXCEPT !.rel = disprove(@, p, t1, t2)]
-----------------------------------------------------------------------------
(* Memory compatibility.  The variance is "co", "contra" or "inv"; order is *)
(* whether t1 belongs to the old table.                                     *)
invert(v) == CASE v = "co" -> "contra" [] v = "contra" -> "co" [] OTHER -> v

old_new_by_variance(v, order, t1, t2) ==   \* mutant: invariance does not swap
  IF v = "contra" THEN <<t2, t1>> ELSE <<t1, t2>>
old_new(v, order, t1, t2) == IF order THEN <<t1, t2>> ELSE <<t2, t1>>

recurring_memory_check(r, v, order, t1, t2) ==
  LET p == old_new(v, order, t1, t2)
  IN  /\ v # "contra" => visited(r, TRUE, p[1], p[2])
      /\ v # "co" => visited(r, FALSE, p[2], p[1])

remember_memory_check(r, v, order, t1, t2) ==
  LET p == old_new(v, order, t1, t2)
  IN  (IF v # "contra" THEN visit(r, TRUE, p[1], p[2]) ELSE r)
      \cup (IF v # "co" THEN visit(r, FALSE, p[2], p[1]) ELSE r)

\* The vector that a mutable variable of an older compiler's descriptor has.
VarVecPairs(tbl, t11, t21) ==
  LET e == Unfold(tbl, t11)
  IN  IF e.con = IDL_CON_vec THEN <<Invariant(e.args[1].type, t21)>> ELSE <<Refuted>>

MemFuncPairs(e1, e2) ==
  IF Len(e1.in) # Len(e2.in) THEN <<Refuted>>
  ELSE [i \in DOMAIN e1.in |-> Pair(FALSE, e2.in[i], e1.in[i])]
       \o (IF Len(e1.args) # Len(e2.args) THEN <<Refuted>>
           ELSE [i \in DOMAIN e1.args |-> Pair(TRUE, e1.args[i].type, e2.args[i].type)])
       \o RefutedUnless(e1.ann = e2.ann)

\* The match of memory_compatible: constructors with fields, by their tags.
MemFieldRule(v, e1, e2, main_actor) ==
  LET Co(a, b) == Pair(TRUE, a, b)
      CoRev(b, a) == Pair(TRUE, a, b)
      exact == v = "inv"
      forward == Match(e1.args, e2.args, exact, Co)
      reverse == Match(e2.args, e1.args, exact, CoRev)
      fields == Match(e2.args, e1.args, TRUE, CoRev)
  IN  CASE e1.con = IDL_EXT_tuple -> IF Len(e1.args) = Len(e2.args) THEN fields.pairs ELSE <<Refuted>>
        [] e1.con = IDL_CON_record /\ main_actor -> Match(e1.args, e2.args, FALSE, Co).pairs
        [] e1.con = IDL_CON_record /\ ~main_actor ->
             fields.pairs \o RefutedUnless(fields.next > Len(e1.args))
        [] e1.con = IDL_CON_variant ->
             forward.pairs \o RefutedUnless(~exact \/ forward.next > Len(e2.args))
        [] e1.con = IDL_CON_service ->
             reverse.pairs \o RefutedUnless(~exact \/ reverse.next > Len(e1.args))

\* ... and the others.
MemRule(legacy, v, order, t1, t2, main_actor) ==
  LET e1 == Unfold(Tbl1(order), t1)
      e2 == Unfold(Tbl1(~order), t2)
      cons == <<e1.con, e2.con>>
      Both(set) == e1.con = e2.con /\ e1.con \in set
      Args(P(_, _)) == <<P(e1.args[1].type, e2.args[1].type)>>
      Co(a, b) == Pair(TRUE, a, b)
  IN  CASE SamePrimitive(t1, t2) -> <<>>
        [] Both({IDL_CON_alias, IDL_EXT_var_vec}) -> Args(Invariant)
        [] legacy /\ cons = <<IDL_CON_alias, IDL_EXT_var_vec>> ->
             VarVecPairs(Tbl1(order), e1.args[1].type, e2.args[1].type)
        [] legacy /\ cons \in {<<IDL_PRIM_nat32, IDL_EXT_char>>, <<IDL_EXT_char, IDL_PRIM_nat32>>} -> <<>>
        [] legacy /\ cons = <<IDL_PRIM_null, IDL_EXT_tuple>> -> RefutedUnless(e2.args = <<>>)
        [] legacy /\ cons = <<IDL_EXT_tuple, IDL_PRIM_null>> -> RefutedUnless(e1.args = <<>>)
        [] \/ e1.con = IDL_PRIM_empty /\ e2.con # IDL_PRIM_reserved
           \/ cons = <<IDL_PRIM_nat, IDL_PRIM_int>> -> RefutedUnless(v # "inv")
        [] Both({IDL_EXT_weak, IDL_CON_opt, IDL_CON_vec}) -> Args(Co)
        [] cons = <<IDL_PRIM_null, IDL_CON_opt>> -> <<>>
        [] Both({IDL_CON_func}) -> MemFuncPairs(e1, e2)
        [] Both({IDL_EXT_tuple, IDL_CON_record, IDL_CON_variant, IDL_CON_service}) ->
             MemFieldRule(v, e1, e2, main_actor)
        [] OTHER -> <<Refuted>>

RECURSIVE memory_compatible(_, _, _, _, _, _, _)
memory_compatible(r, legacy, v, order, t1, t2, main_actor) ==
  LET memo == ~main_actor /\ t1 >= 0 /\ t2 >= 0
      start == [ok |-> TRUE, rel |-> IF memo THEN remember_memory_check(r, v, order, t1, t2) ELSE r]
  IN  IF memo /\ recurring_memory_check(r, v, order, t1, t2) THEN [ok |-> TRUE, rel |-> r]
      ELSE FoldLeft(LAMBDA s, q :
                      IF ~s.ok \/ q = Refuted THEN [s EXCEPT !.ok = FALSE]
                      ELSE memory_compatible(s.rel, legacy,
                             IF q.inv THEN "inv" ELSE IF q.co THEN v ELSE invert(v),
                             q.co = order, q.t1, q.t2, FALSE),
                    start, MemRule(legacy, v, order, t1, t2, main_actor))
-----------------------------------------------------------------------------
Init == typtbl1 = <<>> /\ typtbl2 = <<>> /\ rel = {} /\ results = <<>>

\* A message is decoded with a new memo table (idl_sub_buf_init).
idl_sub_buf_init ==
  /\ typtbl1 = <<>>
  /\ \E t \in Tables : typtbl1' = t[1] /\ typtbl2' = t[2]
  /\ UNCHANGED <<rel, results>>

\* A reference of type t1 is decoded where t2 is expected.
idl_sub ==
  /\ typtbl1 # <<>> /\ Len(results) < MaxCalls /\ \A i \in DOMAIN results : results[i].test = "sub"
  /\ \E t1 \in 0 .. Len(typtbl1) - 1, t2 \in 0 .. Len(typtbl2) - 1 :
       /\ typtbl2[t2 + 1].con \in {IDL_CON_func, IDL_CON_service}
       /\ \E s \in {sub(rel, TRUE, t1, t2)} :
            /\ rel' = s.rel
            /\ results' = Append(results, [test |-> "sub", t1 |-> t1, t2 |-> t2, ok |-> {s.ok}])
  /\ UNCHANGED <<typtbl1, typtbl2>>

\* The check of an upgrade, for the main actors of the versions.
check_memory_compatibility ==
  /\ typtbl1 = <<>>
  /\ \E t \in Versions : typtbl1' = t[1] /\ typtbl2' = t[2]
  /\ UNCHANGED rel
  /\ \E legacy \in BOOLEAN :
       results' = <<[test |-> "memory", legacy |-> legacy, ok |-> {}]>>

CompareVersions ==
  /\ \E i \in DOMAIN results : results[i].ok = {}
  /\ \E s \in {memory_compatible({}, results[1].legacy, "co", TRUE, 0, 0, TRUE)} :
       results' = <<[results[1] EXCEPT !.ok = {s.ok}]>> /\ rel' = s.rel
  /\ UNCHANGED <<typtbl1, typtbl2>>

Finish == typtbl1 # <<>> /\ typtbl1' = <<>> /\ typtbl2' = <<>> /\ rel' = {} /\ results' = <<>>

Next == \/ idl_sub_buf_init \/ idl_sub \/ check_memory_compatibility \/ CompareVersions \/ Finish

Spec == Init /\ [][Next]_subVars
-----------------------------------------------------------------------------
(* The relations that the rules define are the greatest ones that are closed *)
(* under them.                                                               *)
\* Candid's rule: every field that is expected is there or is optional.
CandidRecordPairs(p, args1, args2) ==
  [i \in DOMAIN args2 |->
     IF \E k \in DOMAIN args1 : args1[k].tag = args2[i].tag
     THEN Pair(TRUE, (CHOOSE a \in ToSet(args1) : a.tag = args2[i].tag).type, args2[i].type)
     ELSE Optional(Tbl1(~p), args2[i].type)]

RuleOf(n) ==
  LET e1 == Unfold(Tbl1(n.order), n.t1)
      e2 == Unfold(Tbl1(~n.order), n.t2)
  IN  CASE n.test = "memory" -> MemRule(n.legacy, n.v, n.order, n.t1, n.t2, FALSE)
        [] n.test = "candid" /\ e1.con = IDL_CON_record /\ e2.con = IDL_CON_record ->
             CandidRecordPairs(n.order, e1.args, e2.args)
        [] OTHER -> SubRule(n.order, n.t1, n.t2)

Successor(n, q) ==
  [n EXCEPT !.v = IF q.inv THEN "inv" ELSE IF q.co THEN @ ELSE invert(@),
            !.order = (q.co = @), !.t1 = q.t1, !.t2 = q.t2]

\* A pair of types one of which is primitive is related by its rule alone.
Closed(relation, n) ==
  \A q \in ToSet(RuleOf(n)) : IF q.t1 >= 0 /\ q.t2 >= 0 THEN Successor(n, q) \in relation
                              ELSE RuleOf(Successor(n, q)) = <<>>

RECURSIVE Greatest(_)
Greatest(relation) == LET closed == {n \in relation : Closed(relation, n)}
                      IN  IF closed = relation THEN relation ELSE Greatest(closed)

Pairs(test, legacy) ==
  UNION {{[test |-> test, legacy |-> legacy, v |-> v, order |-> order, t1 |-> t1, t2 |-> t2] :
            v \in {"inv", IF order THEN "co" ELSE "contra"},
            t1 \in 0 .. Len(Tbl1(order)) - 1, t2 \in 0 .. Len(Tbl1(~order)) - 1} : order \in BOOLEAN}

Relates(test, legacy, t1, t2) ==
  [test |-> test, legacy |-> legacy, v |-> "co", order |-> TRUE, t1 |-> t1, t2 |-> t2]
    \in Greatest(Pairs(test, legacy))

Tests == {i \in DOMAIN results : results[i].test = "sub"}

\* The first test with a memo table decides the relation of the rules, whatever
\* cycles the types have: assuming what is being tested is sound.
FirstTestIsExact ==
  1 \in Tests => results[1].ok = {Relates("sub", FALSE, results[1].t1, results[1].t2)}

\* A negative result is right, also when the tests before have left assumptions
\* in the memo table, and the same test gives it again.
RefusalsAreRight ==
  \A i \in Tests : results[i].ok = {FALSE} =>
    /\ ~ Relates("sub", FALSE, results[i].t1, results[i].t2)
    /\ \A j \in Tests : results[j].t1 = results[i].t1 /\ results[j].t2 = results[i].t2
                          => results[j].ok = {FALSE}

\* The two together: what a test finds out in one message.
TestsAreRight == FirstTestIsExact /\ RefusalsAreRight

\* A main actor can be upgraded iff each field has a compatible one.
Upgradable(legacy) ==
  \A q \in ToSet(MemRule(legacy, "co", TRUE, 0, 0, TRUE)) :
    IF q.t1 >= 0 /\ q.t2 >= 0 THEN Relates("memory", legacy, q.t1, q.t2)
    ELSE \E n \in Pairs("memory", legacy) : /\ n.v = "co"
                                            /\ RuleOf([n EXCEPT !.t1 = q.t1, !.t2 = q.t2]) = <<>>

\* The memory compatibility is the relation of the rules for three variances
\* and two orders of the tables, although they share the cells of the memo table;
\* and a program can be upgraded to one with the same stable types.
CompatibilityIsExact ==
  \A i \in DOMAIN results : results[i].test = "memory" /\ results[i].ok # {} =>
    /\ results[i].ok = {Upgradable(results[i].legacy)}
    /\ typtbl1 = typtbl2 => results[i].ok = {TRUE}

\* compile.ml Note [Candid subtype checks]: the memo table memoizes the result of
\* the tests, so that every test of a message has the result it has on its own.
MemoIsTransparent ==
  \A i \in Tests : results[i].ok = {Relates("sub", FALSE, results[i].t1, results[i].t2)}

\* idl.rs, comments of the record case: a missing field has to be optional, and
\* a field that is not reached yet is reconsidered in the next round.
RecordRuleIsCandid ==
  1 \in Tests => results[1].ok = {Relates("candid", FALSE, results[1].t1, results[1].t2)}
=============================================================================
