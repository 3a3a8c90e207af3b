-------------------------- MODULE ContinuationTable --------------------------
(***************************************************************************)
(* The table of outstanding continuations (rts continuation_table.rs): an  *)
(* array whose unused slots form an implicit free list.  Each unused slot  *)
(* holds the scalar index of the next unused one, FREE_SLOT is the head,   *)
(* and the last one points just behind the array, which is how a full      *)
(* table is noticed at the next insertion and doubled.                     *)
(*                                                                         *)
(* A Value in a slot is a continuation or a scalar.  A call that traps     *)
(* leaves the state alone, since the platform undoes the message's writes. *)
(***************************************************************************)
EXTENDS Naturals, FiniteSets

CONSTANTS
  Continuation,   \* heap pointers to continuation tuples
  INITIAL_SIZE,   \* length of the array when it is created
  MaxSize,        \* longest array the memory can hold
  TRAP            \* the outcome of a trapping call

ASSUME SizeAssumption ==
  /\ INITIAL_SIZE \in Nat \ {0}
  /\ MaxSize \in Nat

ASSUME ContinuationAssumption ==
  /\ \A k \in Continuation : k \notin Nat
  /\ TRAP \notin Continuation \cup Nat

VARIABLES
  TABLE,            \* the array object, of length 0 before its creation
  FREE_SLOT,        \* next free slot
  N_CONTINUATIONS,  \* number of live continuations
  result            \* the last call and what it returned

tableVars == <<TABLE, FREE_SLOT, N_CONTINUATIONS>>
vars == <<TABLE, FREE_SLOT, N_CONTINUATIONS, result>>

Returned(op, arg, value) == [op |-> op, arg |-> arg, value |-> value]

is_scalar(v) == v \notin Continuation

\* The array t after t.set(i, v).
set(t, i, v) == [len |-> t.len, slot |-> [t.slot EXCEPT ![i] = v]]

NoTable == [len |-> 0, slot |-> [i \in {} |-> 0]]

table_initialized(t) == t.len # 0

(***************************************************************************)
(* A table as create_continuation_table and double_continuation_table      *)
(* leave it: the new slots are linked in ascending order.                  *)
(***************************************************************************)
create_continuation_table ==
  [len  |-> INITIAL_SIZE,
   slot |-> [i \in 0 .. INITIAL_SIZE - 1 |-> i + 1]]

\* Mutant: the last new slot ends the list at the old length.
DoubleKeepsOldEnd(t) ==
  [len  |-> 2 * t.len,
   slot |-> [i \in 0 .. 2 * t.len - 1 |->
               IF i < t.len THEN t.slot[i]
               ELSE IF i = 2 * t.len - 1 THEN t.len ELSE i + 1]]

double_continuation_table(t) ==
  [len  |-> 2 * t.len,
   slot |-> [i \in 0 .. 2 * t.len - 1 |->
               IF i < t.len THEN t.slot[i] ELSE i + 1]]

Init ==
  /\ TABLE = NoTable
  /\ FREE_SLOT = 0
  /\ N_CONTINUATIONS = 0
  /\ result = Returned("none", TRAP, TRAP)

\* The table in which remember_continuation looks for a slot.
TableToInsert ==
  LET table == IF table_initialized(TABLE) THEN TABLE
                                           ELSE create_continuation_table
  IN IF FREE_SLOT = table.len THEN double_continuation_table(table)
                              ELSE table

remember_continuation(ptr) ==
  LET table == TableToInsert
  IN \/ /\ ~ is_scalar(ptr)
        /\ table.len <= MaxSize
        /\ TABLE' = set(table, FREE_SLOT, ptr)
        /\ FREE_SLOT' = table.slot[FREE_SLOT]
        /\ N_CONTINUATIONS' = N_CONTINUATIONS + 1
        /\ result' = Returned("remember", ptr, FREE_SLOT)
     \/ /\ is_scalar(ptr) \/ table.len > MaxSize
        /\ result' = Returned("remember", ptr, TRAP)
        /\ UNCHANGED tableVars

\* Uninitialized table, index out of range, or no continuation at the index.
Present(idx) ==
  /\ table_initialized(TABLE)
  /\ idx < TABLE.len
  /\ ~ is_scalar(TABLE.slot[idx])

peek_future_continuation(idx) ==
  /\ result' = Returned("peek", idx, IF Present(idx) THEN TABLE.slot[idx] ELSE TRAP)
  /\ UNCHANGED tableVars

\* Mutant: the slot is freed although it holds no continuation.

\* Mutant: the continuation is handed out but not counted off.

\* Mutant: the continuation is handed out but stays in the table.
RecallKeeps(idx) ==
  /\ Present(idx)
  /\ result' = Returned("recall", idx, TABLE.slot[idx])
  /\ UNCHANGED tableVars

recall_continuation(idx) ==
  \/ /\ Present(idx)
     /\ result' = Returned("recall", idx, TABLE.slot[idx])
     /\ TABLE' = set(TABLE, idx, FREE_SLOT)
     /\ FREE_SLOT' = idx
     /\ N_CONTINUATIONS' = N_CONTINUATIONS - 1
  \/ /\ ~ Present(idx)
     /\ result' = Returned("recall", idx, TRAP)
     /\ UNCHANGED tableVars

(***************************************************************************)
(* The variables of the table are not part of the persistent metadata: an  *)
(* upgrade initializes them anew.                                          *)
(***************************************************************************)
Reinitialize ==
  /\ TABLE' = NoTable
  /\ FREE_SLOT' = 0
  /\ N_CONTINUATIONS' = 0
  /\ result' = Returned("none", TRAP, TRAP)

Next ==
  \/ \E ptr \in Continuation \cup {0} : remember_continuation(ptr)
  \/ \E idx \in 0 .. MaxSize : peek_future_continuation(idx)
  \/ \E idx \in 0 .. MaxSize : recall_continuation(idx)
  \/ Reinitialize

Spec == Init /\ [][Next]_vars

-----------------------------------------------------------------------------
Slots(t) == 0 .. t.len - 1
Live(t) == {i \in Slots(t) : ~ is_scalar(t.slot[i])}

\* A well-formed array of values.
IsTable(t) ==
  /\ t.len \in Nat
  /\ t = [len |-> t.len, slot |-> t.slot]
  /\ t.slot \in [Slots(t) -> Continuation \cup Nat]

\* The table, its free slot and the number of continuations are well-formed.
TypeOK ==
  /\ IsTable(TABLE)
  /\ FREE_SLOT \in Nat
  /\ N_CONTINUATIONS \in Nat
  /\ result.value \in Continuation \cup Nat \cup {TRAP}

(***************************************************************************)
(* The n slots fl[1] .. fl[n] are the unused slots of t, each once, in the *)
(* order in which the links visit them from head to the end of the array.  *)
(***************************************************************************)
FreeList(t, head, fl, n) ==
  /\ fl \in [1 .. n -> Slots(t)]
  /\ \A a, b \in 1 .. n : fl[a] = fl[b] => a = b
  /\ \A a \in 1 .. n : t.slot[fl[a]] = IF a = n THEN t.len ELSE fl[a + 1]
  /\ head = IF n = 0 THEN t.len ELSE fl[1]
  /\ \A i \in Slots(t) : is_scalar(t.slot[i]) <=> \E a \in 1 .. n : fl[a] = i

\* Every unused slot is on the free list exactly once: no interleaving of
\* remember_continuation, recall_continuation and the doubling of the table
\* leaks a slot, closes the list to a cycle or puts a live slot at its head.
FreeListComplete ==
  \E n \in 0 .. TABLE.len : \E fl \in [1 .. n -> Slots(TABLE)] :
    FreeList(TABLE, FREE_SLOT, fl, n)

\* continuation_count(), on which an upgrade decides whether callbacks are
\* outstanding, is the number of continuations in the table.
CountIsLive == N_CONTINUATIONS = Cardinality(Live(TABLE))

\* The continuations by index.
MapOf(t) == [i \in Live(t) |-> t.slot[i]]

\* The table behaves as a map from indices to continuations: no call can
\* overwrite, lose or swap a continuation that is still outstanding.
Map == INSTANCE ContinuationMap WITH
         Index <- 0 .. MaxSize,
         map   <- MapOf(TABLE),
         count <- N_CONTINUATIONS

ImplementsMap == Map!Spec

=============================================================================
