----------------------------- MODULE EncodedTable -----------------------------
(***************************************************************************)
(* EncodedTable (relational/encoded_table.h): a table of named columns in  *)
(* two encodings and the operations a query calls on it one after the      *)
(* other.  Each looks up its columns and runs an operator: sort runs       *)
(* bitonic_sort, the others sort the table first if told to and then run   *)
(* the operator of their name.                                             *)
(***************************************************************************)
EXTENDS BitonicSort, SessionWindows

CONSTANTS
  Inputs,    \* programs of operations, the tables to run each on: [program, tables]
  BShared    \* the names of the columns that hold boolean shares

ASSUME InputsAssumption ==
  \A in \in Inputs :
    /\ \A columns \in in.tables : \E k \in 1 .. 10 :
         \A name \in DOMAIN columns : DOMAIN columns[name] = 0 .. 2 ^ k - 1
    /\ \A c \in DOMAIN in.program :
         LET o == in.program[c]
         IN  "keys" \in DOMAIN o =>
               /\ \A k \in DOMAIN o.keys : o.keys[k] \in BShared
               /\ o.keys = <<>> => o.op = "odd_even_aggregation" /\ ~o.do_sorting

VARIABLES
  input,     \* the table as it came, and its program
  program    \* the operations still to be called

vars == <<table, call, i, j, input, program>>

Init ==
  /\ \E in \in Inputs : table \in in.tables /\ program = in.program
  /\ input = [table |-> table, program |-> program]
  /\ call = NoCall
  /\ i = 0
  /\ j = 0

\* The operator that was called last has returned.
Returned == call = NoCall \/ SortFinished \/ AggregationFinished

\* sort, of the columns to_be_sorted_columns besides the keys.
sort(keys, desc, to_be_sorted_columns) ==
  LET data == to_be_sorted_columns \ {keys[k] : k \in DOMAIN keys}
  IN  bitonic_sort(keys, data \ BShared, data \cap BShared, desc)

\* _do_sorting: the operation sorts all columns before it runs its operator.
Ascending(keys) == [k \in DOMAIN keys |-> FALSE]

SortFirst(o, keys) ==
  /\ o.do_sorting
  /\ sort(keys, Ascending(keys), DOMAIN table)
  /\ program' = <<[o EXCEPT !.do_sorting = FALSE]>> \o Tail(program)

\* The windows sort by the time first and by the other keys after it.
TimeFirst(o) == <<o.time_b>> \o SelectSeq(o.keys, LAMBDA key : key # o.time_b)

Sort(o) ==
  /\ o.op = "sort"
  /\ sort(o.keys, o.desc, o.columns)
  /\ program' = Tail(program)

OddEvenAggregation(o) ==
  /\ o.op = "odd_even_aggregation"
  /\ \/ SortFirst(o, o.keys)
     \/ /\ ~o.do_sorting
        /\ odd_even_aggregation(table, o.keys, o.data, o.res, o.type, o.reverse, All)
        /\ program' = Tail(program)

GapSessionWindow(o) ==
  /\ o.op = "gap_session_window"
  /\ \/ SortFirst(o, TimeFirst(o))
     \/ /\ ~o.do_sorting
        /\ gap_session_window(o.keys, o.time_a, o.time_b, o.window_id, o.gap)
        /\ program' = Tail(program)

ThresholdSessionWindow(o) ==
  /\ o.op = "threshold_session_window"
  /\ \/ SortFirst(o, TimeFirst(o))
     \/ /\ ~o.do_sorting
        /\ threshold_session_window(o.keys, o.function_res, o.time_b, o.window_id, o.threshold)
        /\ program' = Tail(program)

-----------------------------------------------------------------------------
(* Operations without a loop over the rows, done when they return.         *)

Put(name, column) ==
  /\ table' = [table EXCEPT ![name] = column]
  /\ call' = NoCall
  /\ program' = Tail(program)
  /\ UNCHANGED <<i, j>>

\* Fault: the row is compared with the one after it.
Fault_marks(keys) ==
  [r \in Rows |-> Truth(\A k \in DOMAIN keys :
     r < rows_num - 1 => table[keys[k]][r] # table[keys[k]][r + 1])]

\* operators::distinct: row 0, and the rows that differ from the row before
\* them in every one of the keys.
marks(keys) ==
  [r \in Rows |-> Truth(r = 0 \/ \A k \in DOMAIN keys :
                                table[keys[k]][r] # table[keys[k]][r - 1])]

Distinct(o) ==
  /\ o.op = "distinct"
  /\ Put(o.res, marks(o.keys))

\* div, of times that are not negative.
TumblingWindow(o) ==
  /\ o.op = "tumbling_window"
  /\ Put(o.res, [r \in Rows |-> Quotient(table[o.time_a][r], o.window_size)])

\* The same secrets in the other encoding; of a boolean share, one bit.
ConvertA2B(o) ==
  /\ o.op = "convert_a2b"
  /\ Put(o.output_b, table[o.input_a])

ConvertB2ABit(o) ==
  /\ o.op = "convert_b2a_bit"
  /\ Put(o.output_a, [r \in Rows |-> table[o.input_b][r] % 2])

\* The contents of a column are assigned through a reference to EncodedVector,
\* whose assignment copies the encoding and leaves the shares as they are.
AssignContents(o) ==
  /\ o.op = "assign_contents"
  /\ Put(o.res, table[o.res])

-----------------------------------------------------------------------------

CallOperation ==
  /\ Returned
  /\ program # <<>>
  /\ LET o == Head(program)
     IN  \/ Sort(o)
         \/ OddEvenAggregation(o)
         \/ GapSessionWindow(o)
         \/ ThresholdSessionWindow(o)
         \/ Distinct(o)
         \/ TumblingWindow(o)
         \/ ConvertA2B(o)
         \/ ConvertB2ABit(o)
         \/ AssignContents(o)
  /\ UNCHANGED input

RunOperator == (SortIterate \/ AggregationIterate) /\ UNCHANGED <<input, program>>

Finished == Returned /\ program = <<>>

Done == Finished /\ UNCHANGED vars

Next == CallOperation \/ RunOperator \/ Done

Spec == Init /\ [][Next]_vars /\ WF_vars(Next)
==============================================================================
