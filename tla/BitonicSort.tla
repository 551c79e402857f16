----------------------------- MODULE BitonicSort -----------------------------
(***************************************************************************)
(* bitonic_sort (core/operators/sorting.h): sorts the rows of an array on  *)
(* its columns and moves data columns of both encodings along.  The loops  *)
(* over rounds and the columns of a round compare and exchange all pairs   *)
(* of rows of two views at once, obliviously: which rows meet depends on   *)
(* their number only.                                                      *)
(***************************************************************************)
EXTENDS Columns

\* bitonic_sort(keys, data_a, data_b, desc): the data are sets of columns.
bitonic_sort(keys, data_a, data_b, desc) ==
  /\ call' = [op |-> "sort", keys |-> keys, data_a |-> data_a, data_b |-> data_b,
              desc |-> desc]
  /\ i' = 0
  /\ j' = 0
  /\ UNCHANGED table

half_box_size == 2 ^ (i - j)

\* The left and the right rows to compare: a box of the first column of a
\* round is folded in its middle, later ones are laid over each other.
View_x == alternating_subset_reference(Whole(rows_num), half_box_size, half_box_size)

\* Fault: the y rows are never folded.
Fault_View_y ==
  alternating_subset_reference(subset_from(Whole(rows_num), half_box_size),
                               half_box_size, half_box_size)

View_y ==
  LET upper == subset_from(Whole(rows_num), half_box_size)
  IN  IF j = 0
      THEN reversed_alternating_subset_reference(upper, half_box_size, half_box_size)
      ELSE alternating_subset_reference(upper, half_box_size, half_box_size)

\* The gt bit of a row of one column, the other way round if inverse.
Greater(x, y, inverse) == IF inverse THEN y > x ELSE x > y

\* The bits of the comparison on all columns from the first one on: gt =
\* gt ^ (new_gt & eq), eq = eq & new_eq.
compare_rows(x, y, inverse) ==
  [n \in DOMAIN x[1] |->
     LET eq(k) == \A column \in 1 .. k : x[column][n] = y[column][n]
         new_gt(k) == Greater(x[k][n], y[k][n], inverse[k])
         gt[k \in DOMAIN x] ==
           IF k = 1 THEN new_gt(1) ELSE gt[k - 1] # (new_gt(k) /\ eq(k - 1))
     IN  gt[Len(x)]]

b2a_bit(bits) == [n \in DOMAIN bits |-> IF bits[n] THEN 1 ELSE 0]

\* multiplex of arithmetic shares.
multiplex_a(sel, a, b) == [n \in DOMAIN a |-> a[n] - sel[n] * a[n] + sel[n] * b[n]]

\* The column after its rows x and y were swapped where bits say so: y is
\* written first, x from what was computed before that.
swap_b(column, bits) ==
  LET x == Read(column, View_x)
      y == Read(column, View_y)
      tmp == multiplex_b(bits, x, y)
  IN  Write(Write(column, View_y, multiplex_b(bits, y, x)), View_x, tmp)

\* Fault: x is written with what y holds by then.
Fault_swap_a(column, bits) ==
  LET x == Read(column, View_x)
      y == Read(column, View_y)
      after_y == Write(column, View_y, multiplex_a(bits, y, x))
  IN  Write(after_y, View_x, multiplex_a(bits, x, Read(after_y, View_y)))

swap_a(column, bits) ==
  LET x == Read(column, View_x)
      y == Read(column, View_y)
      tmp == multiplex_a(bits, x, y)
  IN  Write(Write(column, View_y, multiplex_a(bits, y, x)), View_x, tmp)

\* One column of a round: compare all pairs of rows, swap them in the key
\* columns and the data, and go on to the next column or round.
SortIterate ==
  /\ call.op = "sort"
  /\ i < log2_rows
  /\ LET rows(view) == [k \in DOMAIN call.keys |-> Read(table[call.keys[k]], view)]
         bits == compare_rows(rows(View_x), rows(View_y), call.desc)
     IN  table' = [name \in DOMAIN table |->
           IF name \in call.data_a THEN swap_a(table[name], b2a_bit(bits))
           ELSE IF name \in call.data_b \cup {call.keys[k] : k \in DOMAIN call.keys}
                THEN swap_b(table[name], bits)
           ELSE table[name]]
  /\ i' = IF j = i THEN i + 1 ELSE i
  /\ j' = IF j = i THEN 0 ELSE j + 1
  /\ UNCHANGED call

SortFinished == call.op = "sort" /\ i = log2_rows

-----------------------------------------------------------------------------
\* Row r may stay before row s: it is not greater, on the first column they
\* differ in, or smaller where the direction is DESC.
InOrder(r, s) ==
  \A k \in DOMAIN call.keys :
    (\A earlier \in 1 .. k - 1 : table[call.keys[earlier]][r] = table[call.keys[earlier]][s])
      => ~Greater(table[call.keys[k]][r], table[call.keys[k]][s], call.desc[k])

\* Before each round the boxes of the last round are sorted, and within a
\* round every box is split into blocks, half as large each time, with no row
\* of an earlier block after one of a later block; when the last round is
\* done the array is one sorted box.  The loops of bitonic_sort depend on
\* folding the boxes in the first column of a round and nowhere else.
BlocksInOrder ==
  call.op = "sort" =>
    \A r, s \in Rows :
      LET box == IF j = 0 THEN 2 ^ i ELSE 2 ^ (i + 1)
          block == IF j = 0 THEN 1 ELSE 2 ^ (i + 1 - j)
      IN  /\ r \div box = s \div box
          /\ r \div block < s \div block
          => InOrder(r, s)

\* The columns a sort moves, row by row, and how often a row is among them.
Moved == {call.keys[k] : k \in DOMAIN call.keys} \cup call.data_a \cup call.data_b
Row(columns, r) == [name \in Moved |-> columns[name][r]]
Copies(columns, row) == Cardinality({r \in Rows : Row(columns, r) = row})

\* No step of the sort loses, doubles or tears apart a row: the columns of
\* both encodings hold the same rows before and after, each as often.  swap
\* writes two views that share the memory of what it still reads.
RowsStayTogether ==
  [][SortIterate =>
       \A r \in Rows : Copies(table', Row(table, r)) = Copies(table, Row(table, r))]_table
==============================================================================
