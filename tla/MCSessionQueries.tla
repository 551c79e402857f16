--------------------------- MODULE MCSessionQueries ---------------------------
(* Small tables: to sort, to aggregate, to find windows in, and to query.  *)
EXTENDS SessionQueries

BSharedNames == {"[KEY]", "[SECOND]", "[TIME]", "[FUNCTION]", "[VALUE]", "[ROW]", "[WINDOW]",
                 "[HOUR]", "[DISTINCT]"}

Numbers(size) == [r \in 0 .. size - 1 |-> r]
Zeros(size) == [r \in 0 .. size - 1 |-> 0]
Powers(size) == [r \in 0 .. size - 1 |-> 2 ^ r]
Orders(size) ==
  {o \in [0 .. size - 1 -> 0 .. size - 1] : \A r, s \in 0 .. size - 1 : r # s => o[r] # o[s]}

\* Columns of 0 .. 3 that never decrease, by where they reach 1, 2 and 3.
NonDecreasing(size) ==
  {[r \in 0 .. size - 1 |-> Cardinality({n \in DOMAIN rise : rise[n] <= r})] :
     rise \in [1 .. 3 -> 0 .. size]}

\* Four rows on two columns, in mixes of directions, and eight rows on one
\* column of zeros and ones: a network that sorts these sorts all rows of
\* that number (the 0-1 principle).
Sorts ==
  {[program |-> <<[op |-> "sort", keys |-> <<"[KEY]", "[SECOND]">>, desc |-> desc,
                   columns |-> {"ROW", "[ROW]"}]>>,
    tables |-> {[name \in {"[KEY]", "[SECOND]", "ROW", "[ROW]"} |->
                   IF name = "[KEY]" THEN first ELSE IF name = "[SECOND]" THEN second
                   ELSE Numbers(4)] :
                  first \in [0 .. 3 -> 0 .. 2], second \in [0 .. 3 -> 0 .. 1]}] :
     desc \in {<<FALSE, FALSE>>, <<FALSE, TRUE>>, <<TRUE, FALSE>>}}
  \cup
  {[program |-> <<[op |-> "sort", keys |-> <<"[KEY]">>, desc |-> <<desc>>,
                   columns |-> {"ROW", "[ROW]"}]>>,
    tables |-> {[name \in {"[KEY]", "ROW", "[ROW]"} |->
                   IF name = "[KEY]" THEN column ELSE Numbers(8)] : column \in [0 .. 7 -> 0 .. 1]}] :
     desc \in BOOLEAN}

\* Groups on one or two keys.  The values of sums are powers of two, so that
\* a sum tells which rows are in it and how often.
Aggregation(keys, type, reverse, do_sorting) ==
  <<[op |-> "odd_even_aggregation", keys |-> keys, data |-> "[VALUE]", res |-> "TOTAL",
     type |-> type, reverse |-> reverse, do_sorting |-> do_sorting]>>

Groups(size, ks, values) ==
  {[name \in {"[KEY]", "[SECOND]", "[VALUE]", "TOTAL"} |->
      CASE name = "[KEY]" -> [r \in 0 .. size - 1 |-> k[r] \div 2]
        [] name = "[SECOND]" -> [r \in 0 .. size - 1 |-> k[r] % 2]
        [] name = "[VALUE]" -> column
        [] name = "TOTAL" -> Zeros(size)] :
     k \in ks, column \in values}

Aggregations ==
  LET extremes == {[r \in 0 .. 7 |-> ((a * r + b) % 9) - 4] : a \in {2, 5}, b \in {0, 4}}
  IN  {[program |-> Aggregation(<<>>, type, reverse, FALSE),
        tables |-> Groups(4, {Zeros(4)}, [0 .. 3 -> {0, 1}])
                   \cup Groups(8, {Zeros(8)}, extremes)] :
         type \in {"SUM", "MAX", "MIN"}, reverse \in BOOLEAN}
      \cup
      {[program |-> Aggregation(keys, type, reverse, FALSE),
        tables |-> IF type = "SUM"
                   THEN Groups(4, NonDecreasing(4), {Powers(4)})
                        \cup Groups(8, NonDecreasing(8), {Powers(8)})
                   ELSE Groups(4, NonDecreasing(4), [0 .. 3 -> -1 .. 0])
                        \cup Groups(8, NonDecreasing(8), extremes)] :
         keys \in {<<"[KEY]">>, <<"[KEY]", "[SECOND]">>}, type \in {"SUM", "MAX", "MIN"},
         reverse \in BOOLEAN}
      \cup
      {[program |-> Aggregation(<<"[KEY]">>, "SUM", FALSE, TRUE),
        tables |-> Groups(4, [0 .. 3 -> {0, 2, 4}], {Powers(4)})]}

\* Tables of two groups, the second from row split on, sorted by time in each.
First(split, r) == IF r < split THEN 0 ELSE split

Sorted(size, split, steps, function_res) ==
  LET time == [r \in 0 .. size - 1 |-> MapThenSumSet(LAMBDA q : steps[q], First(split, r) .. r)]
  IN  [name \in {"[KEY]", "TIME", "[TIME]", "[FUNCTION]", "[WINDOW]"} |->
         CASE name = "[KEY]" -> [r \in 0 .. size - 1 |-> IF r < split THEN 0 ELSE 1]
           [] name \in {"TIME", "[TIME]"} -> time
           [] name = "[FUNCTION]" -> function_res
           [] name = "[WINDOW]" -> Zeros(size)]

\* One group in any order of times, sorted by the operation itself.
Unsorted ==
  {[Sorted(4, 4, Zeros(4), f) EXCEPT !["TIME"] = t, !["[TIME]"] = t] :
     t \in Orders(4), f \in {Zeros(4), [Zeros(4) EXCEPT ![2] = 1]}}

SessionTables(size, times, functions) ==
  {Sorted(size, split, s, f) : split \in 1 .. size, s \in times, f \in functions}

Sessions ==
  {[program |-> <<GapWindow("[KEY]", 1, FALSE)>>,
    tables |-> SessionTables(4, [0 .. 3 -> 0 .. 2], {Zeros(4)})
               \cup SessionTables(8, [0 .. 7 -> {1, 2}], {Zeros(8)})],
   [program |-> <<ThresholdWindow("[KEY]", "[FUNCTION]", 0, FALSE)>>,
    tables |-> SessionTables(4, [0 .. 3 -> 1 .. 2], [0 .. 3 -> 0 .. 1])
               \cup SessionTables(8, {[r \in 0 .. 7 |-> 1]}, [0 .. 7 -> 0 .. 1])],
   [program |-> <<GapWindow("[KEY]", 1, TRUE)>>, tables |-> Unsorted],
   [program |-> <<ThresholdWindow("[KEY]", "[FUNCTION]", 0, TRUE)>>, tables |-> Unsorted]}

\* Queries on rows in any order: times may be equal in the gap query.
Queried(times, functions) ==
  {[name \in {"[KEY]", "TIME", "[TIME]", "[FUNCTION]", "DATA", "TOTAL", "[WINDOW]"} |->
      CASE name = "[KEY]" -> key
        [] name \in {"TIME", "[TIME]"} -> time
        [] name = "[FUNCTION]" -> f
        [] name = "DATA" -> Powers(4)
        [] name \in {"TOTAL", "[WINDOW]"} -> Zeros(4)] :
     key \in [0 .. 3 -> 0 .. 1], time \in times, f \in functions}

Queries ==
  {[program |-> cloud(1), tables |-> Queried([0 .. 3 -> 0 .. 3], {Zeros(4)})],
   [program |-> medical(0), tables |-> Queried(Orders(4), [0 .. 3 -> 0 .. 1])]}

\* Times of four hours, in any order.
Consumed ==
  {[name \in {"TIME", "HOUR", "[HOUR]", "DATA", "TOTAL"} |->
      IF name = "TIME" THEN time ELSE IF name = "DATA" THEN Powers(4) ELSE Zeros(4)] :
     time \in [0 .. 3 -> 0 .. 7]}

\* The query as it is, on the zeros it comes with and on other times.
Energy ==
  {[program |-> energy_called(2), tables |-> Consumed],
   [program |-> energy(2), tables |-> {t \in Consumed : t["TIME"] = Zeros(4)}]}
EnergyInputs == {[program |-> energy(2), tables |-> Consumed]}

Repetitions(size, values) ==
  {[name \in {"[KEY]", "[SECOND]", "[DISTINCT]", "DATA", "TOTAL"} |->
      IF name = "[KEY]" THEN first ELSE IF name = "[SECOND]" THEN second ELSE Zeros(size)] :
     first \in [0 .. size - 1 -> values], second \in {Zeros(size)} \cup [0 .. size - 1 -> 0 .. 1]}

Counts ==
  {[program |-> CountDistinct(<<"[KEY]">>), tables |-> Repetitions(4, 0 .. 3)],
   [program |-> CountDistinct(<<"[KEY]", "[SECOND]">>), tables |-> Repetitions(4, 0 .. 2)]}

MCInputs == Energy \cup Counts \cup Sorts \cup Aggregations \cup Sessions \cup Queries
==============================================================================
