---------------------------- MODULE MCCandidTypes ----------------------------
(* Type tables for the checks of Candid and of memory compatibility.         *)
EXTENDS CandidTypes, Sequences

LOCAL Nt == IDL_PRIM_nat
LOCAL Tx == IDL_PRIM_text
LOCAL One(con, t) == Entry(con, <<Arg(0, t)>>)
LOCAL Two(con, t) == Entry(con, <<Arg(0, t), Arg(1, Nt)>>)

\* Functions that refer to each other, and functions with a parameter of another
\* kind.
LOCAL Cyclic == {Func(i, o, {}) : i \in {<<>>, <<0>>, <<1>>}, o \in {<<>>, <<Arg(0, 1)>>}}
LOCAL Other == {Entry(IDL_CON_record, <<>>), One(IDL_CON_record, Nt), Two(IDL_CON_record, Nt),
                Entry(IDL_CON_record, <<Arg(1, Nt)>>), Entry(IDL_CON_record, <<Arg(0, 2), Arg(1, Tx)>>),
                Two(IDL_CON_record, 0), One(IDL_CON_variant, 0), Two(IDL_CON_variant, 0),
                One(IDL_CON_service, 0), Entry(IDL_CON_service, <<Arg(0, 0), Arg(1, 0)>>),
                One(IDL_CON_vec, 0), One(IDL_CON_vec, IDL_PRIM_int), One(IDL_CON_vec, Nt)}
LOCAL Param == Func(<<1>>, <<>>, {})
MCTables ==
  {<<<<a, b>>, <<c, d>>>> : a \in Cyclic, b \in Cyclic, c \in Cyclic, d \in Cyclic}
  \cup {<<<<Param, b, One(IDL_CON_opt, Nt)>>, <<Param, d, One(IDL_CON_opt, Nt)>>>> :
          b \in Other, d \in Other}
  \cup {<<<<Func(<<>>, <<>>, a)>>, <<Func(<<>>, <<>>, {1})>>>> : a \in SUBSET (1 .. 3)}

\* The types of a mutable variable of main actors, and types of all kinds.
LOCAL Cyclic2 == {Func(<<t>>, <<>>, {}) : t \in {1, 2, Nt}}
                 \cup {One(IDL_CON_variant, 2), Two(IDL_CON_variant, 2), One(IDL_CON_opt, 1)}
LOCAL Main == Entry(IDL_CON_record, <<Arg(0, 3), Arg(1, IDL_EXT_char)>>)
LOCAL Kinds == {One(c, Nt) : c \in {IDL_CON_opt, IDL_CON_vec, IDL_EXT_weak, IDL_EXT_tuple, IDL_CON_record}}
               \cup {Entry(IDL_EXT_tuple, <<>>), One(IDL_CON_opt, IDL_PRIM_int), Func(<<Nt>>, <<Arg(0, Nt)>>, {}),
                     Func(<<IDL_PRIM_int>>, <<>>, {}), One(IDL_CON_alias, 2), One(IDL_EXT_var_vec, Nt),
                     Two(IDL_CON_record, Nt), Entry(IDL_CON_service, <<Arg(0, 3), Arg(1, 3)>>),
                     One(IDL_CON_service, 3)}
MCVersions ==
  {<<<<Main, a, b, One(IDL_CON_alias, i)>>, <<Main, c, d, One(IDL_CON_alias, j)>>>> :
     a \in Cyclic2, b \in Cyclic2, c \in Cyclic2, d \in Cyclic2, i \in {1, 2}, j \in {1, 2}}
  \cup {<<<<m, a, One(IDL_CON_vec, Nt), Func(<<>>, <<>>, {})>>,
          <<n, c, One(IDL_CON_vec, Nt), Func(<<>>, <<>>, {})>>>> :
          a \in Kinds, c \in Kinds, m \in {One(IDL_CON_record, 1), Two(IDL_CON_record, 1)},
          n \in {One(IDL_CON_record, 1), Two(IDL_CON_record, 1)}}
  \cup {<<<<One(IDL_CON_record, p)>>, <<One(IDL_CON_record, q), Entry(IDL_EXT_tuple, <<>>)>>>> :
          p \in {IDL_PRIM_null, IDL_PRIM_nat32, Nt}, q \in {1, IDL_EXT_char, IDL_PRIM_int, IDL_PRIM_nat32}}

\* What may be in the header of a message, right or wrong.
MCRawEntries ==
  {One(c, t) : c \in {IDL_CON_opt, IDL_CON_vec, IDL_CON_alias}, t \in {0, 2, IDL_PRIM_null}}
  \cup {Entry(IDL_CON_record, a) : a \in {<<>>, <<Arg(0, 1)>>, <<Arg(0, Nt), Arg(2, 1)>>, <<Arg(1, 0), Arg(0, 0)>>}}
  \cup {Entry(IDL_CON_variant, <<Arg(0, Tx), Arg(1, 0)>>), Func(<<0>>, <<>>, {1}), Entry(-40, <<>>),
        One(IDL_CON_service, 1), One(IDL_CON_service, 0)}
MCMainTypes == {0, Nt, IDL_REF_principal, IDL_EXT_region}
=============================================================================
