---------------------------- MODULE SessionQueries ----------------------------
(***************************************************************************)
(* What windows and the queries built of them compute: the programs of     *)
(* queries/cloud.cpp, medical.cpp and energy.cpp on an EncodedTable, a     *)
(* count of distinct keys, and the properties of their results.            *)
(***************************************************************************)
EXTENDS EncodedTable

\* SUM by keys, into a column of its own.
TotalBy(keys) ==
  [op |-> "odd_even_aggregation", keys |-> keys, data |-> "DATA", res |-> "TOTAL",
   type |-> "SUM", reverse |-> FALSE, do_sorting |-> FALSE]

GapWindow(key, gap, do_sorting) ==
  [op |-> "gap_session_window", keys |-> <<key>>, time_a |-> "TIME", time_b |-> "[TIME]",
   window_id |-> "[WINDOW]", gap |-> gap, do_sorting |-> do_sorting]

ThresholdWindow(key, function_res, threshold, do_sorting) ==
  [op |-> "threshold_session_window", keys |-> <<key>>, function_res |-> function_res,
   time_b |-> "[TIME]", window_id |-> "[WINDOW]", threshold |-> threshold,
   do_sorting |-> do_sorting]

SortBy(keys, columns) ==
  [op |-> "sort", keys |-> keys, desc |-> Ascending(keys), columns |-> columns]

\* queries/cloud.cpp, once the selected events are marked.
cloud(gap) ==
  <<SortBy(<<"[KEY]", "[TIME]">>, {"TIME", "DATA"}), GapWindow("[KEY]", gap, FALSE),
    TotalBy(<<"[KEY]", "[WINDOW]">>)>>

\* Fault: the function is left behind when the rows are sorted.
Fault_medical(threshold) ==
  <<SortBy(<<"[KEY]", "[TIME]">>, {"DATA"}),
    ThresholdWindow("[KEY]", "[FUNCTION]", threshold, FALSE),
    TotalBy(<<"[KEY]", "[WINDOW]">>)>>

\* queries/medical.cpp.
medical(threshold) ==
  <<SortBy(<<"[KEY]", "[TIME]">>, {"[FUNCTION]", "DATA"}),
    ThresholdWindow("[KEY]", "[FUNCTION]", threshold, FALSE),
    TotalBy(<<"[KEY]", "[WINDOW]">>)>>

HourWindow(size) ==
  [op |-> "tumbling_window", time_a |-> "TIME", window_size |-> size, res |-> "HOUR"]

\* How queries/energy.cpp groups by the hour and sums, from its line 39 on.
\* Fault: the consumption is left behind when the rows are sorted.
Fault_TotalOfHour ==
  <<[op |-> "convert_a2b", input_a |-> "HOUR", output_b |-> "[HOUR]"],
    SortBy(<<"[HOUR]">>, {}),
    TotalBy(<<"[HOUR]">>)>>

TotalOfHour ==
  <<[op |-> "convert_a2b", input_a |-> "HOUR", output_b |-> "[HOUR]"],
    SortBy(<<"[HOUR]">>, {"DATA"}),
    TotalBy(<<"[HOUR]">>)>>

\* queries/energy.cpp with the call its line 36 leaves in a comment, and with
\* what the lines after it do instead.
energy_called(size) == <<HourWindow(size)>> \o TotalOfHour
energy(size) == <<[op |-> "assign_contents", res |-> "HOUR", window_size |-> size]>> \o TotalOfHour

\* COUNT(DISTINCT keys): rows of equal keys brought together, the first ones
\* marked and the marks summed up, over all rows as there are no keys.
CountDistinct(keys) ==
  <<SortBy(keys, {}),
    [op |-> "distinct", keys |-> keys, res |-> "[DISTINCT]"],
    [op |-> "convert_b2a_bit", input_b |-> "[DISTINCT]", output_a |-> "DATA"],
    TotalBy(<<>>)>>

-----------------------------------------------------------------------------
(* The windows of a table whose rows are sorted by key and time.           *)

Windows(op) == program = <<>> /\ AggregationFinished /\ Len(input.program) > 0
               /\ input.program[Len(input.program)].op = op

LastCall == input.program[Len(input.program)]

\* Two rows of a group get the same window id if and only if no two rows
\* between them are further apart than the gap: the id is what the queries
\* group by after the keys.  The marks do not heed the keys, so a group may
\* begin without one; its first session then keeps -1 and no other has it.
GapWindowsAreSessions ==
  Windows("gap_session_window") =>
    LET time == table["TIME"]
        window_id == table["[WINDOW]"]
    IN  \A r, s \in Rows :
          (r < s /\ SameGroup(LastCall.keys, r, s))
            => (window_id[r] = window_id[s]
                  <=> \A q \in r + 1 .. s : time[q] - time[q - 1] <= LastCall.gap)

\* Every row above the threshold gets the timestamp of the row that starts
\* its session, across the rows between that are not selected and earlier
\* sessions of the group, and every other row gets -1.  The marks do not heed
\* the keys: a session that begins a group, behind a row of another group that
\* is above the threshold too, is not marked and keeps -1, and no more than
\* it.  The unwritten id of a row 0 above the threshold may run through its
\* group, but not beyond.
ThresholdWindowsAreSessions ==
  Windows("threshold_session_window") =>
    LET window_id == table["[WINDOW]"]
        above(r) == table["[FUNCTION]"][r] > LastCall.threshold
        Run(s, r) == \A q \in s .. r : above(q) /\ SameGroup(LastCall.keys, q, r)
    IN  \A r \in Rows \ {0} :
          /\ ~above(r) => window_id[r] = -1
          /\ ~(above(0) /\ SameGroup(LastCall.keys, 0, r)) =>
               \A s \in 1 .. r :
                 (Run(s, r) /\ ~Run(s - 1, r))
                   => window_id[r] = IF above(s - 1) THEN -1 ELSE table["[TIME]"][s]

-----------------------------------------------------------------------------
(* The queries, from the table as it came to the totals.                   *)

\* The rows of r's key at times from lo up to hi, in the table as it came.
Between(r, lo, hi) ==
  {s \in Rows : /\ input.table["[KEY]"][s] = input.table["[KEY]"][r]
                /\ input.table["TIME"][s] \in lo .. hi}

\* Rows r and s are of one session: no gap between them, or all rows above
\* the threshold.
SameSession(r, s) ==
  LET window == input.program[2]
      time == input.table["TIME"]
      lo == Min({time[r], time[s]})
      hi == Max({time[r], time[s]})
  IN  /\ s \in Between(r, lo, hi)
      /\ IF window.op = "gap_session_window"
         THEN \A t \in lo .. hi - window.gap - 1 :
                Between(r, t, t) # {} => Between(r, t + 1, t + window.gap) # {}
         ELSE \A q \in Between(r, lo, hi) : input.table["[FUNCTION]"][q] > window.threshold

\* What threshold windows need to mark the session that begins at row first:
\* a row before it that is below the threshold, even if it is of another key,
\* and no row 0 of the same key above it, whose id is left to chance.
Above(r) == table["[FUNCTION]"][r] > input.program[2].threshold
Marks(first) ==
  input.program[2].op = "threshold_session_window"
    => /\ first > 0 /\ ~Above(first - 1)
       /\ Above(0) => table["[KEY]"][0] # table["[KEY]"][first]

\* When a query has finished, the first row of every session, wherever its
\* rows were in the table that came, holds the total of the session: sorting,
\* marking, carrying the ids and summing by key and id leave no row out and
\* take in none of another session or key.
SessionTotals ==
  (Finished /\ Len(input.program) = 3) =>
    \A r \in Rows : SameSession(r, r) =>
      LET session == {s \in Rows : SameSession(r, s)}
          first == Min({q \in Rows : \E s \in session : \A name \in {"[KEY]", "[TIME]"} :
                          table[name][q] = input.table[name][s]})
      IN  Marks(first) =>
            table["TOTAL"][first] = MapThenSumSet(LAMBDA s : input.table["DATA"][s], session)

\* Every hour of the table that came is an hour of the result, and its first
\* row there holds what the rows of that hour, wherever they were, consumed.
WindowTotals ==
  (Finished /\ "HOUR" \in DOMAIN input.table) =>
    LET hour(r) == input.table["TIME"][r] \div input.program[1].window_size
    IN  \A r \in Rows :
          LET rows == {q \in Rows : table["[HOUR]"][q] = hour(r)}
          IN  /\ rows # {}
              /\ table["TOTAL"][Min(rows)]
                   = MapThenSumSet(LAMBDA s : input.table["DATA"][s],
                                   {s \in Rows : hour(s) = hour(r)})

\* Rows are marked as distinct at most once for equal keys, and the first one
\* of them, and the total says how many are.  With one key it is how many
\* keys there are; with several, rows that differ from the row before them in
\* some of the keys only are not counted.
DistinctCounted ==
  (Finished /\ "[DISTINCT]" \in DOMAIN input.table) =>
    LET keys == input.program[1].keys
        distinct == {r \in Rows : table["[DISTINCT]"][r] = 1}
        different == {[k \in DOMAIN keys |-> input.table[keys[k]][r]] : r \in Rows}
    IN  /\ \A r \in distinct : \A q \in 0 .. r - 1 : ~SameGroup(keys, q, r)
        /\ table["TOTAL"][0] = Cardinality(distinct)
        /\ Len(keys) = 1 => Cardinality(distinct) = Cardinality(different)
==============================================================================
