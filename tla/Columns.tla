------------------------------- MODULE Columns -------------------------------
(***************************************************************************)
(* The columns of an encoded table and the oblivious operator that works   *)
(* on them: what BitonicSort, OddEvenAggregation and SessionWindows share. *)
(*                                                                         *)
(* Columns hold plaintexts here; that operations on shares compute what    *)
(* the same operations on plaintexts do is the subject of the protocols.   *)
(***************************************************************************)
EXTENDS Views, Sequences

VARIABLES
  table,     \* column name -> column, rows numbered from 0
  call,      \* the operator that is running and its arguments
  i, j       \* its loop variables

NoCall == [op |-> "none"]

Rows == DOMAIN table[CHOOSE name \in DOMAIN table : TRUE]
rows_num == Cardinality(Rows)

\* log2 of the number of rows, a power of two.
log2_rows == CHOOSE k \in 0 .. rows_num : 2 ^ k = rows_num

All == [r \in Rows |-> TRUE]

\* multiplex of boolean shares.
multiplex_b(sel, a, b) == [n \in DOMAIN a |-> IF sel[n] THEN b[n] ELSE a[n]]

SameGroup(keys, r, s) == \A k \in DOMAIN keys : table[keys[k]][r] = table[keys[k]][s]
==============================================================================
