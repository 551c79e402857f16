---------------------------- MODULE SessionWindows ----------------------------
(***************************************************************************)
(* gap_session_window and threshold_session_window                         *)
(* (core/operators/streaming.h): the rows that start a session get their   *)
(* timestamp as window id, all others -1, and a MAX aggregation in reverse *)
(* carries the ids through the rows of the session.                        *)
(***************************************************************************)
EXTENDS OddEvenAggregation

first_row == simple_subset_reference(Whole(rows_num), 0, 1, 1)
later_rows == subset_from(Whole(rows_num), 1)

\* pair_wise_gap_b->ltz(), of each two rows that follow each other.
\* Fault: a gap as long as allowed starts a session.
Fault_gap_exceeded(timestamp, gap) ==
  [n \in DOMAIN later_rows |-> Signed(Wrap(timestamp[n] + gap - timestamp[n + 1])) <= 0]

gap_exceeded(timestamp, gap) ==
  [n \in DOMAIN later_rows |-> Signed(Wrap(timestamp[n] + gap - timestamp[n + 1])) < 0]

\* A session starts at row 0 and after every gap, whatever the keys say.  The
\* view of row 0 shows row 1 too, and is assigned a vector of one element and
\* what lies behind it, until the later rows are assigned.
mark_gap_session(timestamp, gap, session_start, behind) ==
  LET marked == Write(session_start, first_row, [n \in 0 .. 1 |-> n = 0 \/ behind])
  IN  Write(marked, later_rows, gap_exceeded(timestamp, gap))

\* The rows above the threshold, and those of them after a row that is not.
potential_window(function_res, threshold) ==
  [r \in Rows |-> function_res[r] > threshold]

\* Fault: every row above the threshold starts a session.
Fault_mark_threshold_session(potential) == [r \in Rows \ {0} |-> potential[r]]

mark_threshold_session(potential) ==
  [r \in Rows \ {0} |-> potential[r] /\ potential[r] # potential[r - 1]]

\* multiplex(*window_id, -1, *timestamp_b)
Marked(session_start, timestamp, r) == IF session_start[r] THEN timestamp[r] ELSE -1

\* Row 0 is never written before multiplex extends its lowest bit, so all
\* bits of its shares count: each bit of the result is that of -1 or of the
\* timestamp as the shares happen to be, but the lowest, of a shared 0, is 1.
Unmarked(timestamp) ==
  {word \in -(2 ^ (Width - 1)) .. 2 ^ (Width - 1) - 1 :
     /\ Bit(word, 0) = 1
     /\ \A k \in 0 .. Width - 1 : Bit(timestamp, k) = 1 => Bit(word, k) = 1}

\* odd_even_aggregation(keys, r_vec, r_vec, &max_aggregation, true, sel)
gap_session_window(keys, timestamp_a, timestamp_b, window_id, gap) ==
  \E behind \in BOOLEAN :
    LET session_start ==
          mark_gap_session(table[timestamp_a], gap, [r \in Rows |-> FALSE], behind)
        marked == [r \in Rows |-> Marked(session_start, table[timestamp_b], r)]
    IN  odd_even_aggregation([table EXCEPT ![window_id] = marked],
                             keys, window_id, window_id, "MAX", TRUE, All)

threshold_session_window(keys, function_res, timestamp_b, window_id, threshold) ==
  LET potential == potential_window(table[function_res], threshold)
      session_start == mark_threshold_session(potential)
  IN  \E unmarked \in Unmarked(table[timestamp_b][0]) :
        LET marked == [r \in Rows |-> IF r = 0 THEN unmarked
                                      ELSE Marked(session_start, table[timestamp_b], r)]
        IN  odd_even_aggregation([table EXCEPT ![window_id] = marked],
                                 keys, window_id, window_id, "MAX", TRUE, potential)
==============================================================================
