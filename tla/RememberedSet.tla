--------------------------- MODULE RememberedSet ---------------------------
(***************************************************************************)
(* The hash set of the runtime system (gc/remembered_set.rs), with linked  *)
(* lists of collisions and growth by factor 2, and its iterator, which     *)
(* moves the entries to the larger table.  The sanity check of the heap    *)
(* uses it for the objects it has visited.                                 *)
(*                                                                         *)
(* An entry of the table and its collision nodes are a sequence; values    *)
(* are addresses in words.  A round of the loop of grow is a step; as it   *)
(* calls insert, which may call grow, growths are a stack.                 *)
(***************************************************************************)
EXTENDS Integers, Sequences, FiniteSets, SequencesExt

CONSTANTS SetValues, INITIAL_TABLE_LENGTH, OCCUPATION_THRESHOLD_PERCENT

ASSUME SetConstants == /\ SetValues \subseteq Nat \ {0} /\ INITIAL_TABLE_LENGTH \in Nat \ {0}
                       /\ OCCUPATION_THRESHOLD_PERCENT \in Nat

VARIABLES hash_table,   \* sequence of entries, index 0 first
          count,
          growths,      \* the calls of grow: old table, iterator, old_count; innermost first
          inserted      \* history: the values inserted

setVars == <<hash_table, count, growths, inserted>>

GROWTH_FACTOR == 2

new_hash_table(size) == [i \in 1 .. size |-> <<>>]
hash_index(table, value) == (value % Len(table)) + 1

\* The iterator: the index in the table and the position in the list, which is
\* 0 for a null current_entry.
Iterator(table, index, entry, old_count) ==
  [hash_table |-> table, hash_index |-> index, entry |-> entry, old_count |-> old_count]

skip_free(it) ==
  LET length == Len(it.hash_table)
      index == Min({i \in it.hash_index + 1 .. length : it.hash_table[i] # <<>>} \cup {length + 1})
  IN  IF it.hash_index > length \/ it.entry # 0 THEN it
      ELSE Iterator(it.hash_table, index, IF index > length THEN 0 ELSE 1, it.old_count)

\* mutant: starts behind the first entry of the table
init_second(table, old_count) == skip_free(Iterator(table, 1, 0, old_count))

init(table, old_count) ==
  skip_free(Iterator(table, 1, IF table[1] = <<>> THEN 0 ELSE 1, old_count))

has_next(it) == it.entry # 0
current(it) == it.hash_table[it.hash_index][it.entry]
next_entry(it) ==
  skip_free([it EXCEPT !.entry = IF it.entry = Len(it.hash_table[it.hash_index]) THEN 0
                                 ELSE it.entry + 1])

\* The value, or the end of the list, where the search of insert stops.
contains(table, value) ==
  \E i \in DOMAIN table[hash_index(table, value)] : table[hash_index(table, value)][i] = value

added(table, value) == [table EXCEPT ![hash_index(table, value)] = Append(@, value)]
Threshold(table) == (Len(table) * OCCUPATION_THRESHOLD_PERCENT) \div 100

\* The call of insert, within some growths.
Insert(value, within) ==
  IF contains(hash_table, value)
  THEN growths' = within /\ UNCHANGED <<hash_table, count>>
  ELSE IF count + 1 > Threshold(hash_table)
  THEN /\ hash_table' = new_hash_table(Len(hash_table) * GROWTH_FACTOR) /\ count' = 0
       /\ growths' = <<init(added(hash_table, value), count + 1)>> \o within
  ELSE hash_table' = added(hash_table, value) /\ count' = count + 1 /\ growths' = within
-----------------------------------------------------------------------------
SetInit == /\ hash_table = new_hash_table(INITIAL_TABLE_LENGTH) /\ count = 0
           /\ growths = <<>> /\ inserted = {}

insert(value) == /\ growths = <<>>
                 /\ Insert(value, <<>>) /\ inserted' = inserted \cup {value}

\* A round of the loop of grow, and the return from it.
grow == /\ growths # <<>> /\ has_next(Head(growths))
        /\ Insert(current(Head(growths)), <<next_entry(Head(growths))>> \o Tail(growths))
        /\ UNCHANGED inserted

return_from_grow == /\ growths # <<>> /\ ~has_next(Head(growths))
                    /\ growths' = Tail(growths)
                    /\ UNCHANGED <<hash_table, count, inserted>>

SetNext == (\E value \in SetValues : insert(value)) \/ grow \/ return_from_grow

SetSpec == SetInit /\ [][SetNext]_setVars
-----------------------------------------------------------------------------
\* Whatever was inserted in whatever order, and however often the table grew:
\* the set finds its values and no others, and a growth has kept their number,
\* as it asserts.
IsTheSet ==
  /\ growths = <<>> => /\ \A value \in SetValues : contains(hash_table, value) <=> value \in inserted
                       /\ count = Cardinality(inserted)
  /\ growths # <<>> /\ ~has_next(Head(growths)) => count = Head(growths).old_count
=============================================================================
