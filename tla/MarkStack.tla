----------------------------- MODULE MarkStack -----------------------------
(***************************************************************************)
(* The mark stack of the collector (gc/incremental/mark_stack.rs), and the *)
(* scan stack of the destabilization, which has the same code: a list of   *)
(* tables of fixed capacity, linked in both directions.  A table that gets *)
(* empty stays in the list, to be used again.                              *)
(***************************************************************************)
EXTENDS Integers, Sequences

CONSTANTS StackValues, STACK_TABLE_CAPACITY, MaxItems, STACK_EMPTY

VARIABLES stackTables,  \* the tables by their order of allocation
          last,         \* the table in use
          top,          \* index of the next free entry in it
          popped        \* the last value pop returned

stackVars == <<stackTables, last, top, popped>>

NullTable == 0

StackConstants == STACK_TABLE_CAPACITY \in Nat \ {0}

new_table(tables, previous) ==
  LET linked == IF previous = NullTable THEN tables
                ELSE [tables EXCEPT ![previous].next = Len(tables) + 1]
  IN  Append(linked, [previous |-> previous, next |-> NullTable,
                      entries |-> [i \in 0 .. STACK_TABLE_CAPACITY - 1 |-> STACK_EMPTY]])

StackInit == /\ stackTables = new_table(<<>>, NullTable)
             /\ last = 1 /\ top = 0 /\ popped = STACK_EMPTY

Store(tables, table, index, value) ==
  /\ stackTables' = [tables EXCEPT ![table].entries[index] = value]
  /\ last' = table
  /\ top' = index + 1

is_empty_top == top = 0   \* mutant: not in the first table
is_empty == top = 0 /\ stackTables[last].previous = NullTable

\* What the stack holds, from the bottom; the tables before the last are full.
Below[table \in 0 .. Len(stackTables)] ==
  IF table = NullTable THEN <<>>
  ELSE Below[stackTables[table].previous]
       \o [i \in 1 .. STACK_TABLE_CAPACITY |-> stackTables[table].entries[i - 1]]

Items == Below[stackTables[last].previous]
         \o [i \in 1 .. top |-> stackTables[last].entries[i - 1]]

push(value) ==
  /\ Len(Items) < MaxItems
  /\ IF top < STACK_TABLE_CAPACITY THEN Store(stackTables, last, top, value)
     ELSE IF stackTables[last].next = NullTable
     THEN Store(new_table(stackTables, last), Len(stackTables) + 1, 0, value)
     ELSE Store(stackTables, stackTables[last].next, 0, value)
  /\ UNCHANGED popped

pop ==
  /\ IF is_empty THEN popped' = STACK_EMPTY /\ UNCHANGED <<last, top>>
     ELSE LET table == IF top = 0 THEN stackTables[last].previous ELSE last
              index == IF top = 0 THEN STACK_TABLE_CAPACITY - 1 ELSE top - 1
          IN  /\ popped' = stackTables[table].entries[index]
              /\ last' = table /\ top' = index
  /\ UNCHANGED stackTables

StackNext == pop \/ \E value \in StackValues : push(value)

StackSpec == StackInit /\ [][StackNext]_stackVars
-----------------------------------------------------------------------------
\* The stack is a sequence: what is popped is what was pushed last, across the
\* boundaries of tables and when tables are used again.
Stack == INSTANCE SequenceStack WITH items <- Items
RefinesStack == Stack!Spec
=============================================================================
