-------------------------- MODULE OddEvenAggregation --------------------------
(***************************************************************************)
(* odd_even_aggregation (core/operators/aggregation.h): every row gets the *)
(* SUM, MAX or MIN of the rows of its group from itself to the group's end *)
(* (or, in reverse, from the group's beginning), in log2 of the number of  *)
(* rows steps that combine all rows d apart at once.  A row reaches        *)
(* another one only along rows of its own group, so these have to be       *)
(* adjacent.                                                               *)
(*                                                                         *)
(* Of the vectors of values and of results one column is kept each: all    *)
(* are treated alike.                                                      *)
(***************************************************************************)
EXTENDS Columns, FiniteSetsExt, Words

\* What extend_lsb makes of group bits: all bits of a one.  Without keys the
\* group bits are shares of a one that nothing has masked to a bit, and the
\* upper bits of the result are as these shares happen to be.
extend_lsb(keys) ==
  IF keys # <<>> THEN {Modulus - 1} ELSE {word \in WordSet : Bit(word, 0) = 1}

\* odd_even_aggregation(keys, values, results, func, reverse, sel_b) on the
\* table with the given columns, sel_b all TRUE when it is NULL.
odd_even_aggregation(columns, keys, values, results, func, reverse, sel_b) ==
  /\ \E extended \in extend_lsb(keys) :
       call' = [op |-> "aggregation", keys |-> keys, values |-> columns[values],
                results |-> results, func |-> func, reverse |-> reverse, sel_b |-> sel_b,
                extended |-> extended]
  /\ table' = [columns EXCEPT ![results] = columns[values]]
  /\ i' = 1
  /\ j' = 0

\* Fault: the distances in the opposite order.
Fault_d == IF call.reverse THEN rows_num \div 2 ^ i
                           ELSE rows_num \div 2 ^ (log2_rows - i + 1)

\* How far apart rows meet: half of the rows first, or last in reverse.
d == IF call.reverse THEN rows_num \div 2 ^ (log2_rows - i + 1)
                     ELSE rows_num \div 2 ^ i

first_vector == simple_subset_reference(Whole(rows_num), 0, 1, rows_num - d - 1)
second_vector == subset_from(Whole(rows_num), d)

\* Which pairs are of one group and selected.
group_bits ==
  [n \in DOMAIN first_vector |->
     /\ SameGroup(call.keys, first_vector[n], second_vector[n])
     /\ call.sel_b[first_vector[n]]
     /\ call.sel_b[second_vector[n]]]

\* What the pair becomes, for the row that keeps it: y + bit * x.
sum_aggregation(kept, other) ==
  [n \in DOMAIN kept |-> kept[n] + (IF group_bits[n] THEN 1 ELSE 0) * other[n]]

\* multiplex by a group bit that is one: b in the bits it is extended to.
Selected(a, b) ==
  Signed(FromBits([k \in 0 .. Width - 1 |-> Bit(IF Bit(call.extended, k) = 1 THEN b ELSE a, k)]))

\* second_greater, negated for MIN, selects the second row.
max_aggregation(kept, first, second, min_aggr) ==
  LET second_greater == [n \in DOMAIN first |-> (second[n] > first[n]) # min_aggr]
      greatest == multiplex_b(second_greater, first, second)
  IN  multiplex_b(group_bits, kept, [n \in DOMAIN kept |-> Selected(kept[n], greatest[n])])

\* One step: all pairs are combined from what the rows held before it, for
\* the second row of a pair in reverse, for the first one otherwise.
AggregationIterate ==
  /\ call.op = "aggregation"
  /\ i <= log2_rows
  /\ LET results == table[call.results]
         first == Read(results, first_vector)
         second == Read(results, second_vector)
         kept == IF call.reverse THEN second ELSE first
         other == IF call.reverse THEN first ELSE second
         aggregated == IF call.func = "SUM" THEN sum_aggregation(kept, other)
                       ELSE max_aggregation(kept, first, second, call.func = "MIN")
     IN  table' = [table EXCEPT ![call.results] =
           Write(@, IF call.reverse THEN second_vector ELSE first_vector, aggregated)]
  /\ i' = i + 1
  /\ UNCHANGED <<call, j>>

AggregationFinished == call.op = "aggregation" /\ i > log2_rows

-----------------------------------------------------------------------------
\* The rows whose values have reached row r before step i, when all are
\* selected: those of its group ahead of it (behind it in reverse) at a sum
\* of distinct distances of the steps done.
Reached(r) ==
  {s \in Rows :
     /\ SameGroup(call.keys, r, s)
     /\ IF call.reverse THEN r - s \in 0 .. 2 ^ (i - 1) - 1
        ELSE s >= r /\ (s - r) % (rows_num \div 2 ^ (i - 1)) = 0}

Aggregate(rows) ==
  CASE call.func = "SUM" -> MapThenSumSet(LAMBDA s : call.values[s], rows)
    [] call.func = "MAX" -> Max({call.values[s] : s \in rows})
    [] call.func = "MIN" -> Min({call.values[s] : s \in rows})

\* The rows of each group are adjacent, and all are selected.
Grouped ==
  /\ call.sel_b = All
  /\ \A r, s \in Rows : SameGroup(call.keys, r, s) =>
       \A q \in Rows : (r < q /\ q < s) => SameGroup(call.keys, r, q)

OnlyBits == \A r \in Rows : call.values[r] \in {0, 1}

\* Every row holds the aggregate of exactly the rows that have reached it:
\* none twice, none of another group, and after the last step all rows of its
\* group on its side.  The order of the distances decides this: in another
\* one a row would pass on what it has not collected yet, or twice.  Without
\* keys only the lowest bit of MAX and MIN is chosen for certain, so their
\* values have to be bits.
AggregatesGroup ==
  call.op = "aggregation" =>
    ((Grouped /\ (call.keys # <<>> \/ call.func = "SUM" \/ OnlyBits)) => \A r \in Rows : table[call.results][r] = Aggregate(Reached(r)))
==============================================================================
