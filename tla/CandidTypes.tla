----------------------------- MODULE CandidTypes -----------------------------
(***************************************************************************)
(* The types of Candid and of stable memory as the runtime system has them *)
(* (idl.rs): a type is primitive, a negative number, or an index of a type *)
(* table.                                                                  *)
(***************************************************************************)
EXTENDS Integers

IDL_PRIM_null == -1
IDL_PRIM_nat == -3
IDL_PRIM_int == -4
IDL_PRIM_nat32 == -7
IDL_PRIM_text == -15
IDL_PRIM_reserved == -16
IDL_PRIM_empty == -17
IDL_PRIM_lowest == -17
IDL_CON_opt == -18
IDL_CON_vec == -19
IDL_CON_record == -20
IDL_CON_variant == -21
IDL_CON_func == -22
IDL_CON_service == -23
IDL_REF_principal == -24
IDL_CON_alias == 1
IDL_EXT_region == -128
IDL_EXT_tuple == -130
IDL_EXT_weak == -131
IDL_EXT_char == -132
IDL_EXT_var_vec == -133

\* An entry of a type table: its constructor, its arguments with their tags (the
\* results for a function, method names as tags for a service), parameters and
\* annotations.
Entry(con, args) == [con |-> con, args |-> args, in |-> <<>>, ann |-> {}]
Func(in, out, ann) == [con |-> IDL_CON_func, args |-> out, in |-> in, ann |-> ann]
Arg(tag, type) == [tag |-> tag, type |-> type]
=============================================================================
