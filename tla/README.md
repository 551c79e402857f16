# TVA in TLA+

This directory specifies TVA, a C++ library for time-series analytics under
secure multi-party computation (MPC). Three or four *parties*, one MPI process
each, hold secret shares of the data, run the same program of vector operations
and exchange messages. The specifications are translated from the code under
`src/`; TLC checks them on small instances and TLAPS proves the central facts
for every size.

## 1. The system

| Component | Source | State | Operations | Hard behaviour | What makes it correct |
|---|---|---|---|---|---|
| Thread pool | `include/service/common/runtime.h`, `task.h` | workers, one task and three mutexes per worker, a start-up counter, `keep_running` | `setup_threads`; `execute_`, `modify_`, `communicate_`, `generate_parallel` and the macro-generated protocol calls; the destructor | every mutex is locked by one thread and unlocked by another; the next call starts while workers still finish the last | a call applies its function exactly once to every element, and has stopped writing when it returns; nobody waits for ever |
| Batch division | `runtime.h` `getThreadBatchBoundary`, `task.h` loops | none | bounds of a thread's part, bounds of a batch | remainders, fewer batches than threads | the parts are a partition |
| Communicator | `core/communication/*.h` | MPI requests, receive buffers | `sendShares`, `receiveShares`, `exchangeShares` | blocking calls in rings; chunks; all threads on one `MPI_COMM_WORLD` | every chunk gets where it belongs; a ring of exchanges cannot block |
| Setup | `service/mpi/setup.h`, `mpc.h` | tags, thread count, batch size, the objects per thread | `tva_init` | tags 10 apart | threads' messages stay apart |
| Random generators | `core/random/*.h` | seeds | `getMultipleNext`, `getMultipleRandom` | shares of zero must cancel | the sum of a zero sharing is zero |
| Protocol interface | `core/protocols/protocol.h` | none | the arithmetic and boolean primitives | | the plaintext each primitive promises |
| Replicated_3PC | `core/protocols/replicated_3pc.h` | two shares of every value per party | sum, product, `div_const_a`, `b2a_bit`, `redistribute_shares_b`, open, share | parties run ahead of each other; nothing checks a message | shares stay replicated and reconstruct to the promised plaintext |
| Fantastic_4PC | `core/protocols/fantastic_4pc.h` | three shares of every value per party | the same | every value arrives twice and is compared; mixed sends and receives | as above, and honest parties never accuse each other |
| Plaintext vectors | `core/containers/vector*.h`, `e_vector.h`, `encoded_vector.h` | elements, views (index mappings) | elementwise operators, slices, bit level | wrap-around; views of views | elementwise semantics of fixed-width integers |
| Shared vectors | `a_shared_vector.h`, `b_shared_vector.h`, `shared_vector.h` | an encoded vector | division, comparison, adders, conversions | bit tricks, signs, wrap-around | equal to the plaintext operation |
| Operators | `core/operators/*.h` | none | bitonic sort, odd-even aggregation, windows, distinct | sizes that are no power of two; first and last rows | equal to the plaintext operator |
| Tables | `include/relational/*.h` | columns in two encodings | forwards to the above | encodings going stale | encodings agree |
| Queries, micro-benchmarks, tests, scripts | `src/src`, `src/tests`, `src/scripts` | | straight-line clients | | |

How they interact: a query calls operators on tables or shared vectors; those
call protocol primitives through `runTime`, whose thread pool splits the
vectors into a part per worker and a batch at a time, and calls the protocol
object of that worker. The protocol draws from the worker's random generator
and makes blocking calls on the worker's communicator. Worker *i* of one party
only talks to worker *i* of the others. The parties share nothing but these
messages.

## 2. Modules

| Module | Models | Correspondence |
|---|---|---|
| `BatchBoundary` | `getThreadBatchBoundary`, loops of `Task*::execute` | operators with the code's names: `StartInd`, `EndInd`, `BatchEnd` |
| `RunTimePool` | the thread pool | `mainPc` and `workerPc` are the next statement of the main thread and of the worker's lambda; every `lock`, `unlock`, task reset, task assignment, batch, counter and `keep_running` access is an action |
| `ParallelCall` | what a parallel call promises | `Begin`, `Apply` to any set of elements, `Return` |
| `Communicator` | `MPICommunicator` for all parties and threads | `PostChunk` is an `MPI_Irecv`/`MPI_Isend` pair, `WaitMatched` and `WaitBuffered` the `MPI_Wait` loop, `Match` is MPI |
| `PartyNet` | the same calls for one thread, one message per vector | extended by the protocols |
| `Words` | elementwise operators of `Vector` on words of `Width` bits, and of shares | two's complement, C's division |
| `ConstantDivision` | `div_const_a` of both protocols and the correction of `ASharedVector::div` | operators on the two addends a secret is shared as |
| `Protocol` | `protocol.h`: instructions, their plaintexts, program control | `LocalPlain` and the `values` argument of `Return` |
| `Replicated3PC`, `Fantastic4PC` | the two protocols | operators and actions named after the methods, a `Send` and a `Return` action per method that communicates |
| `Views` | `vector_data.h`, subset references of `Vector` | a view is the function from its indices to those of the storage; a view of a view applies the operator to it; `Write` is `operator=` |
| `BitCompression` | `simple_bit_compress`, `simple_bit_decompress` | `Origin` is where a packed bit comes from, by the loop's arithmetic |
| `Vectors` | a `Vector`, views taken of it, an assignment to one by all threads | an action per subset reference; `ModifyParallel` hands the view out, `AssignBatch` is one `set_batch` and `operator=` of one thread |
| `Columns` | the columns the operators work on, `multiplex` | `table` maps a name to a column; `call` is the operator that runs, `i` and `j` its loop variables |
| `BitonicSort` | `bitonic_sort`, `compare_rows`, `swap` | `SortIterate` is one pass of the inner loop: compare, swap columns, swap both kinds of data |
| `OddEvenAggregation` | `odd_even_aggregation`, `sum_`, `max_`, `min_aggregation` | `AggregationIterate` is one pass of the loop over distances |
| `SessionWindows` | `gap_session_window`, `threshold_session_window` | one step marks the session starts and calls the aggregation, whose steps follow |
| `EncodedTable` | `encoded_table.h`: `sort`, `odd_even_aggregation`, the three windows, `distinct`, `convert_a2b`, `convert_b2a_bit`, and the assignment to a column's contents | an action per operation a query calls, with the sorting it does first; `program` holds the calls still to come |
| `SessionQueries` | `queries/cloud.cpp`, `medical.cpp`, `energy.cpp`, a count of distinct keys | `cloud`, `medical`, `energy` are their calls; `energy_called` has the call the source keeps in a comment |
| `BooleanWords` | bit operations of `Vector` on boolean shares | operators with the code's names |
| `BooleanOperations` | `bit_same`, all comparison operators, `compare`, `parallel_prefix_adder`, `ripple_carry_adder` | `BitSameRound`, `PrefixRound` and `RippleBit` are passes of the loops; `Compare` is what the operators do with the prefix |
| `SharedVectors` | these operations and `ASharedVector::div` | `DivideConst` is `div_const_a` and the redistribution of `a2b`, the rounds of an adder follow, `Correct` adds the negated sign |
| `RunTimePool_proofs`, `Vectors_proofs`, `SharedVectors_proofs`, `Replicated3PC_proofs`, `Fantastic4PC_proofs`, `Communicator_proofs` | theorems about these modules | section 5 |
| `Division_proofs` | quotients, remainders and `BatchBoundary` | used by the others |
| `Shares_proofs` | `ConstantDivision` and the algebra of words | used by the protocols' |
| `MC*` | small instances for TLC | |

`BatchBoundary` is extended by `RunTimePool`, `Communicator` and `Vectors`, the
last composing it with `Views` and `BitCompression`; `PartyNet` and `Words` by
`Protocol`, that by the two protocols; `RunTimePool` instantiates `ParallelCall`
under a refinement mapping. `Views` is extended by `Columns`, that by
`BitonicSort` and `OddEvenAggregation`, the last by `SessionWindows`;
`EncodedTable` composes them, and `SessionQueries` is what a query does with the
table. `BooleanWords` is extended by `BooleanOperations`, that by `SharedVectors`,
which instantiates `ConstantDivision` and feeds its errors to the adders.

Abstractions worth knowing:

* **Copies of one piece of code.** `runtime.h` holds the hand-over of tasks
  about ten times, in macros and in templates for each number of arguments. The
  copies make the same steps in the same order; they are one set of actions.
  `PROJECT.json` maps each action to its lines in `execute_parallel`, and `Main`,
  which puts them together, to the macros; the copies in `modify_parallel`,
  `communicate_parallel` and `generate_parallel` differ in the types of the tasks
  only. `RunBatch` stands for the loops of all task classes.
* **Mutexes.** A mutex is its locked bit. The C++ standard leaves unlocking
  another thread's mutex undefined; the model takes the pthread behaviour the
  code was written for.
* **Elementwise operations.** Protocol operations act on each element alone, so
  a vector is one word in the protocol modules, and only its elements' indices
  matter in `RunTimePool` and `Communicator`.
* **Words.** Arithmetic is modulo 2^`Width`; the runs take three bits, the
  smallest width with a sign bit, a middle bit and wrap-around of both sums and
  products.
* **Randomness.** The shares a dealer or a masker draws are one of the tuples in
  `Randoms`, chosen by `\E`. `getMultipleNext` yields zero: the two seeds a share of
  zero is computed from are equal and advance together in this version, and
  `fantastic_4pc.h` passes channel and size in the other order.
* **Unspecified order.** Both orders in which a compiler may evaluate
  `inp_a(...) + inp_a(...)` are in the runs (last parameter of `DivConst`).
* **Composite methods.** `div_const_a` and `redistribute_shares_b` of the
  four-party protocol are sequences of calls of `inp_a`/`inp_b`; `DivConst` and
  `RedistributeShares` expand to these instructions, `inp_b`'s inputs included.
* **Plaintexts.** The operators on columns and the bit algorithms are modelled on
  plaintexts: that an operation on shares computes what it promises of their
  plaintexts is what the protocol modules check. Where an operation acts on the
  shares in a way the plaintext does not determine, the model says so:
  `set_bits` depends on the number of `Shares`, an unwritten window id may
  become any word of `Unmarked`, and a group bit that is not masked to a bit
  selects any word of `extend_lsb`. Both sets are what the algebra of the shares
  leaves open in general; fewer words may be met with a given number of shares.
* **Addends.** For a division a secret is two numbers, each the sum of the
  shares that two or three parties hold in common. Any two words that add up to
  the secret are possible.
* **Faults.** An operator `Fault_X` is definition `X` with a bug seeded, noted
  in its comment. Substituted for `X` it makes a run fail; nothing else uses it.

## 3. Runs

| Run | Instance | Properties | Shows |
|---|---|---|---|
| `vectors` | sizes 1, 4, 6, 7, batches and threads 1..3, two views of each other, words of 5 bits | `Partition`, `Balanced`, `ViewsShow`, `AssignedThroughView`, `CompressedReturns` | every view in every position, chunks cut short included; threads assign batches in any order; every choice of bits, step and repetition |
| `pool` | 3 workers, batch 2, sizes 0, 1, 4, 7, two calls | `IInv`, `ReturnIsComplete`, `TaskNotInUse`, `RunsCurrentTask`, `NoLostUnlock`, `KeepRunningNotRaced`, `AppliedAtMostOnce`, `CallReturns`, `DestructorReturns`, `ImplementsCall` | all interleavings of setup, two calls and the destructor; the second call meets workers still unlocking after the first; calls and the destructor return; the pool refines one synchronous call |
| `replicated_operations` | 3 parties, no buffering relied on, 3-bit words | `TypeOK`, `Replicated`, `ResultsMatchPlain`, `Terminates` | all operations, chained in six programs, parties at different speeds |
| `fantastic_operations` | 4 parties, MPI buffers, at most one message altered in the programs of `MCCompared` | `TypeOK`, `Replicated`, `NoMessageLeft`, `ResultsMatchPlain`, `NobodyAccused`, `TerminatesUnaltered` | all operations of the four-party protocol, and two secrets shared in a row, the dealer several operations ahead of the others. A message of a product, a division or a redistribution altered at any time is noticed: the accusing branches are reached and no party returns a wrong or inconsistent result |
| `communicator` | 3 parties, 2 threads, batches of 3 in 2 chunks; a ring over vectors of 5 and 1, and four one-way calls over vectors of 2 and 1 | `ArrivesInPlace`, `ReceivedWhole`, `NothingLeft`, `AllCallsReturn` | tags keep threads and chunks apart; remainders of chunks and batches; a ring without buffers does not block; a sender far ahead leaves nothing behind |
| `shared_vectors` | words of 8 bits around each power of two, three shares; 26 addends, divisors 1, 3, 8, 100, 127, both protocols and both adders | `ComparesRight`, `AddsRight`, `DividesRight` | the six comparisons and the prefix after every round; sums modulo 2^8 of both adders and the carries after every round; quotients of all signs and remainders |
| `session_queries` | below | `BlocksInOrder`, `AggregatesGroup`, `GapWindowsAreSessions`, `ThresholdWindowsAreSessions`, `SessionTotals`, `WindowTotals`, `DistinctCounted`, `RowsStayTogether` | every step of sorting and aggregation, the windows of sorted tables, and the totals of whole queries on rows in any order |
| `fantastic_unbuffered` | one product, no buffering | `Terminates` **violated** | finding 1 |
| `fantastic_other_dealer` | a secret of party 1 | `Terminates` **violated** | finding 2 |
| `boolean_four_shares` | words of 4 bits, four shares | `EqBitsAreEquality` **violated** | finding 3 |
| `division_wraps` | all addends of 4 bits, divisor 2 | `DividesTheSecret` **violated** | finding 4 |
| `energy_query` | four rows at any of the times 0..7, windows of 2 | `WindowTotals` **violated** | finding 5 |

`session_queries` runs tables of six kinds. To sort: four rows on two columns of
values 0..2 and 0..1 in three mixes of directions, and eight rows of zeros and
ones, which by the 0-1 principle stand for all. To aggregate: four and eight
sorted rows on one or two keys or none, their values powers of two so that a sum
shows each row's part, and unsorted ones the operation sorts itself. To find
windows in: four and eight sorted rows in two groups, and four unsorted ones. To
query: all tables of four rows with two keys, in any order of times. To sum by the
hour: four rows at any times of four hours. To count: four rows of all keys of
four values, and of all pairs of keys.

Bounds. Two calls are what it takes for a call to meet the leftovers of another;
three workers for a first, a middle and a last one. Two threads, two chunks and
two rounds each give the smallest instance in which a message could be taken for
one of another thread, chunk or call. Eight rows have three rounds of sorting and
three distances of aggregation, a first, a middle and a last; eight-bit words
likewise have three rounds. Vectors of 6 and 7 elements leave a chunk of one, two
or three included elements cut short, and leave parts of unequal length to three
threads; two views of each other are what sorting and aggregation take. Five-bit
words are divided by no number of selected bits but one and five, so bits straddle
words. Table words of six bits hold the largest time and the largest gap. The
programs of the protocol runs chain operations because the shares an operation
leaves are the operands the next one gets, and because messages of neighbouring
operations can only be confused then.

`CHECK_DEADLOCK FALSE` is said where programs end (a party that has finished its
program, or a pool that has been destroyed, has no further step). That nobody
waits for ever is then said by `CallReturns`, `DestructorReturns`, `Terminates`,
`TerminatesUnaltered` and `AllCallsReturn`, which a deadlock violates.

Fairness. Weak fairness of each thread's next step: the operating system runs
threads that can run, and no two threads compete for the same mutex, so strong
fairness is not needed. Weak fairness of MPI's matching: the progress MPI
guarantees to matching requests. That MPI buffers a send is *not* assumed, except
in the runs with `Buffered = TRUE`, which need it (finding 1).

## 4. Findings

1. **Two parties send before they receive** (`fantastic_4pc.h:119-130`, and the
   same in `and_b`). In every product of the four-party protocol parties 2 and 3
   send to each other and then receive. A batch above MPI's eager limit blocks
   both for ever; the comment at 96-104 plans a send and a receive, and
   `exchangeShares` exists for it.
2. **Sharing by another party** (`fantastic_4pc.h:625-663`). The recipients are
   `partyID + k` where `communicator.h:52` wants an index relative to the
   current party. Right for party 0, the only data party used; otherwise the
   shares go astray and a receiver blocks.
3. **`set_bits` with four shares** (`e_vector.h:276-279`, used at `sorting.h:32`).
   The bit is set in every share; four ones cancel. In the four-party protocol
   `compare` then takes words for equal that differ first in the bit below the
   sign, and sorting on several columns goes by the wrong one. `operator>` also
   calls `set_bits` but does not use the result.

4. **Quotients of addends that wrap** (`a_shared_vector.h:175`). The two addends a
   secret is shared as are divided on their own. Where their sum wraps around to
   the secret, what is divided is a sum 2^`Width` away from it, for large secrets in
   up to half of all sharings, in both protocols; in the three-party one lowering
   the first addend by the divisor may wrap as well. (The run divides 0, shared as
   -8 and -8 of four bits, by 2: 3 - 5, corrected by 1, is -1.)
   `test_primitives.cpp:61-71` asserts that dividing numbers up to `INT_MAX` gives
   C's quotients, and its TODO at line 58 suspects the four-party protocol. The
   model says nothing of the numbers a fixed seed draws.
5. **Hours that are not assigned** (`energy.cpp:38`). The result of the division is
   assigned to a column through `EncodedVector&`, whose assignment copies only the
   member `encoding`. The table keeps the column it had and the query groups by it.
   The call in the comment of line 36, which line 38 stands for, would assign the
   hours: `session_queries` checks that query. The benchmark's table is all zeros,
   for which the two agree (`session_queries` includes that case), so it measures
   what it should and would return wrong totals on data.

Observed without a statement in the repository to hold them against, and hazards in
`PROJECT.json`: the row 0 of `threshold_session_window`, whose window id is left to
chance (`ThresholdWindowsAreSessions` says that this stays within its group), and
its marks, which do not heed the keys, so that a session that begins a group may get
no id: it keeps -1, says the same property, and `test_operators.cpp:151` asserts the
outcome of both; `SessionTotals` says nothing of the totals of such sessions;
`not_b_1` of words of several bits, whose shares it negates one by one; `distinct`
on several keys, which leaves out rows that differ from the row before in some keys
only; MAX and MIN without keys, right only for values of one bit (`AggregatesGroup`
requires it), and any aggregation of a table whose size is no power of two; a secret
that is negative is divided rounding down, not to zero as C does, and one less if
both addends are negative multiples of the divisor (`DividesRight` says so);
`simple_bit_compress` with a step above one may leave out the bit at `end`, which
`vector.h:483` calls the last one to be included (`Selected`); and the default
sorting of the window operations, by timestamp before the keys. No property covers
`distinct` on several keys, MAX and MIN without keys of wider values, the other
sizes and that default sorting: the properties leave these cases out, and the
hazards say so.

`test_primitives.cpp:163` notes of the test of `ripple_carry_adder` that it 'does not
currently pass'. As the code reads the adder is right modulo 2^`Width` for every
operand: `AddsRight` is checked and proved for it. The note is either out of date or
about something the model leaves out (how the code spreads the carries of an element
over compressed words).

## 5. Proofs

`Division_proofs`: for every total, batch size and number of threads the
parts of the threads are in order, disjoint and cover the vector
(`PartBounds`, `PartsOrdered`, `PartitionTheorem`). The argument is about
`PreviousBatches`, which is monotone and grows by `ThisThreadBatches`
(`PreviousStep`), and finds the thread of a given batch by division
(`BatchHasThread`). The module also has what the others need to know of quotients
and remainders.

`BalanceTheorem` says that no part has two batches more than another (`PartLength`).

`Vectors_proofs`: the same division, of any view of views of a vector of any size,
and what its threads assign. `Invariance` is about `IInv`, which adds to
`AssignedThroughView` that the view's indices start from zero (`SizesInv`: each kind
of view keeps it, `TakeIndexed`) and that a thread's position lies between the
ends of its part (`PosInv`). The step of one thread (`StepAssignBatch`) extends
what is done by one batch, and `Written` says what an assignment to a part of a
view leaves in every element, the last of several prevailing. `AssignmentTheorem`
is `AssignedThroughView`, `DivisionOfViews` is `Partition`, `BalanceOfViews` is
`Balanced`.

`ViewsTheorem` is `ViewsShow`, for vectors of every size and any number of views of
each other. It is inductive with `IInv`. A view is right if its indices can be put
one to one, in the order it is documented to have, on the indices it is meant to show
of the view it is taken of (`Rearranges`; `Rearranged` draws the conclusions). For
every kind of view there is one such lemma (`SimpleRearranges` and so on); the two
alternating ones share the arithmetic of chunks (`InChunks`, `ChunkDigits`), where
the last chunk is cut short.

`CompressionTheorem` is `BitsReturn` for vectors and words of every size, and
`CompressedTheorem` from it `CompressedReturns`. `Origins` says that the places
packed bits come from are the selected ones, each at least once, and `PackedWords` that
index and remainder find a packed bit in its word again (`HoldsPacked`); a place
gets back the last of the bits packed for it, all of which are the bit that was there
(`ReturnedBit`). As in the run, bits are selected with a step and a repetition of
up to three.

`Shares_proofs`: `DivisionTheorem` is `DivisionRight` for words of every width. Each addend is
rounded down with an error in a known range (`RoundedDownRounds`,
`LoweredFirstRounds`), and the sum of two such errors has the sign that says
whether the quotients lost one together (`CorrectionRounds`). The second part is the
algebra of words the protocols rest on: sums modulo 2^`Width` (`WrapTerms`), and
xor, and and not of numbers as what they do to each bit (`XorBits`, `AndBits`,
`NotBits`, `SameBits`), from which xor associates and cancels, and distributes
over it, and the sign and the low bit of an xor are those of its parts.

`SharedVectors_proofs`: the comparisons, the adders and the division are right
after every round, for words of 2, 4, .. 64 bits, all operands and both adders.

* `Invariance`: `IInv` says, for the doubling loops, that the variable `part` of a
  round is a power of two that divides the width and that a bit of the result
  knows about the `part` bits around it: those of its own part for `bit_same`
  (`SameParts`), those from the start of its part up to itself for the carries
  (`AddedParts`), which is less than what the properties say of it but inductive.
  A round joins two neighbouring parts. For the ripple adder it says the carry.
  What a carry or a first different bit has to do with numbers is proved by
  taking the least bit for which it would fail (`Least`, `Greatest`), since the
  prover has no induction.
* `ComparisonTheorem` is `ComparesRight`, for an odd number of shares (finding 3 is
  what happens for an even one), `AdditionTheorem` is `AddsRight`,
  `ConstantDivisionTheorem` is `DividesRight`.

`Replicated3PC_proofs`: the three-party protocol, for words of any width and any
programs that only use what they have computed (`ProgramsAssumption`).

* `Invariance`: what makes shares consistent is spread over three parties at
  different instructions and the messages between them. `IInv` says that there
  is *mail*: a word for every message ever sent on a link, under the number of a
  slot that is the instruction and the place in it. A party's own state says
  which slots it has filled (`SentInv`) and what it took from them (`GotInv`); a
  link holds the slots filled and not taken, in order (`Carries`); a register
  holds what was exchanged for it (`ResultInv`). A message is thus identified by
  the instruction it belongs to, which the code never writes into it.
* `ReplicationTheorem` is `Replicated`: two parties that have both computed a value
  agree on the share they have in common. `InstructionsAgree` goes through the
  operations: the least instruction at which they could differ is not a local
  one, since its operands are earlier, and not one with messages, since both
  have the share from the same slot.
* `Promises` is about `PromiseInv`: the plaintext of every instruction, which the
  party that is ahead adds, is what the operation promises for those before
  (`Promised`), and stays so. TLC has checked it on the programs of run
  `replicated_operations`.
* `ResultsTheorem` is `ResultsMatchPlain`, from both invariants. `RecordInv` and
  `DealtInv`, parts of `IInv`, say what the words in the mail *are*: what their
  sender computes from its operands and what it has heard (`Record`), or shares
  that add up to the secret. `Whole(p, k)` says that the two shares of party p and
  the third of its neighbour add up to the plaintext of instruction k. It holds of
  all instructions both are past (`WholeAlways`), since the first one it fails for
  would have operands of which it holds, and each operation hands it on: by the
  algebra of words for the local ones (`WholeLocal`), by the nine cross terms for
  the products (`WholeProduct`), because all parties open the same bit
  (`WholeBits`), or because it was dealt (`WholeDealt`). The neighbours need not
  have got there at the same time, nor the third party at all. `!` is right of
  operands whose shares are all single bits, and `SingleBitShares` says which are.
* `MessagesTheorem` is `NoMessageLeft`, `TypeCorrectness` is `TypeOK`.

`Fantastic4PC_proofs`: the four-party protocol, for words of any width and any
programs in which party 0 deals all secrets after the first. Finding 2 is what
happens otherwise, which is why it is a hypothesis of the theorems
(`DealsItself`) and no assumption on programs.

* `FirstInvariance`, with whatever altered: here too there is *mail*, for every
  party and by the order in which it *hears*. Position `16 * instruction + call` of
  the mail is what the party hears in that call. A link between two parties holds
  the positions that have been sent on it and not been heard, in order (`Carries`),
  for every call of every operation (`To`, `From`, `SentAs`, `HeardAs`; a party may
  hear from three others in one operation, and send to two). What it has heard of
  the current operation is what `got` has (`GotInv`).
* `TypeCorrectness` is `TypeOK`, `NothingLeft` is `NoMessageLeft`.
* `Invariance` says in `IInv` what the words in the mail are. Of every result there are
  four words (`truth`), which no party has all of: those of a secret were dealt, all
  others are a function of those before (`Value`). Every register has three of them
  (`HeldInv`), and every message ever sent is the word `Said` says, but for one
  position `bad` (`SaidInv`). The step of each operation keeps this because what a
  party computes from its three words and what it has heard is the next three
  (`OutcomeIsRegister`). For a comparison there are two positions that should hold
  the same word (`Said` does not depend on the call), and one of them is not bad; a
  party that does return has thus compared the right word with an equal one.
* `NobodyIsAccused` is `NobodyAccused`: nothing is bad unless altered.
* `WordsAreReplicated` is `Replicated`: for any programs if nothing is altered, and
  with one message altered in programs of operations that compare what they
  receive (`Compares`). Openings, `b2a_bit` and the sharing of a secret use a word
  they receive once as it is.
* `Promising` is about `PromiseInv`: the plaintext of every instruction is what the
  operation promises for those before (`Promised`).
* `ResultsAddUp` is `ResultsMatchPlain`, under the hypotheses of `WordsAreReplicated`.
  `truth` makes it a statement about words and no longer about parties: if all
  instructions before keep their promise, the next one does (`PromiseAddsUp`; the
  first that would not is taken in `TruthAddsUp`). The words of a shared secret
  add up to it (`SharedInv`, a part of `IInv`). For a local operation this is
  `LocalAddsUp`; for a product `ProductAddsUp`, in which each of the sixteen products
  of two words is counted in exactly one word of the result, of arithmetic shares
  as numbers and of boolean ones bit by bit (`Counted`). Every word parties i and
  j share with `inp_a` or `inp_b` is a single word of a secret (`SumOfOne`), which
  gives `DivisionAddsUp` and `RedistributionAddsUp`. They need the whole division
  or redistribution (`CompositesAssumption`).

`Communicator_proofs`: no message is taken for another, for any number of parties,
threads, chunks (up to 10) and parallel calls, vectors of any size, and
communicator calls in any order in which two parties send and hear equally often.

* `Invariance`: `IInv` cuts the messages into *streams*, one for each pair of
  parties, thread and chunk, which is a tag of a link and no other's (`TagsApart`).
  In a stream there is a message for every batch and every call that goes that
  way. The position of the sender's thread says which of them it has sent
  (`Sent`), that of the receiver's which it has taken (`Taken`), and the queue of
  MPI holds those sent and not taken, in order (`Stream`). The receiver has at most
  one receive posted in it (`ReceiveInv`). When a thread goes from the last call of
  a batch to the next batch, or to the next parallel call, the messages sent and
  taken stay the same ones (`Advance`, `LeaveSends`, `RoundStreams`). TLC has checked
  `IInv` on the instance of run `communicator`.
* `InPlaceTheorem` is `ArrivesInPlace`; `WholeTheorem` is `ReceivedWhole`, with
  `OneChunk`: every element is in one chunk; `NothingLeftTheorem` is `NothingLeft`.

`RunTimePool_proofs`: from `PoolAssumption` alone (at least one worker, a
positive batch size, sizes and the number of calls natural numbers) the
properties hold for any number of workers and any sizes:

* `Invariance`: `IInv`, the inductive invariant. None of the properties is
  inductive alone: that a task is not in use when it is replaced depends on which
  mutexes are locked, and those on what both threads did before. `IInv` says
  what situation each worker is in (`Resting`, `Waking`, `Working`, `Finished`,
  `Ending`) for every statement of the main thread, which locks are held in it,
  and which elements it has reached. It has a lemma per conjunct (`StepType`,
  `StepHandOver`, `StepControl`, `StepSetup`, `StepTask`, `StepApplied`), each
  with one step per action. `StepHandOver` has two lemmas of its own: a worker no
  step of the others touches keeps its situation (`WorkerSituation`), because they
  change nothing it depends on (`WorkerKeeps`). `StepApplied` uses that parts are
  disjoint.
* `TypeCorrectness`, `ReturnsComplete`, `NeverAppliedTwice`, `TasksNotInUse`,
  `RunsCurrent`, `UnlocksFindLocks`, `KeepRunningExclusive` follow from it.
* `Refinement`: `Spec => Call!Spec`; every step of the pool is one of the
  abstract call or a stutter (`CallStep`).

Assumed: that sizes and numbers of threads, parties and calls are natural numbers
(`PoolAssumption`, `VectorsAssumption`, `WidthAssumption`, `NetAssumption`, and the
ranges of `DivisionAssumption` and `OperandsAssumption`); that 2^n doubles, which the
provers do not know of exponentiation (`PowerAssumption`, `PowersAssumption`); that
words have 2, 4, .. 64 bits (`WordsAssumption`); that there are three parties in the
three-party protocol (`ThreePartiesAssumption`); what a program is
(`ProgramsAssumption`), that there are four parties in the four-party one
(`FourPartiesAssumption`) and that the calls of two parties correspond
(`CommunicatorAssumption`); and, of programs, what the types of the shared vectors
enforce and their operations respect (`OperandTypesAssumption`): arithmetic
operations have arithmetic operands and boolean ones boolean operands, and `!` is
used on what comparisons return and on xor, and, and `!` of such; the two sharings
of the three-party `redistribute_shares_b` are of the same vector and follow each
other, and the four-party `inp_a` and `inp_b` are only called as `div_const_a` and
`redistribute_shares_b` call them (`CompositesAssumption`). TLC evaluates all of
them in the runs.

Only model-checked:

* liveness (`CallReturns`, `DestructorReturns`, `Terminates`, `TerminatesUnaltered`,
  `AllCallsReturn`, the fairness part of `ImplementsCall`), which is out of the
  prover's reach;
* the operators on tables. Sorting and aggregation are right after a number of
  rounds that grows with the table, which takes an induction over networks.

## 6. Not modelled, and why

* The scalar calls of the communicator: no protocol uses them.
* Secrecy: the models say what honest parties compute, not what a party learns.
  The quality of the random numbers does not matter for that.
* Integer overflow of sizes and indices (`task.h:39`): sizes are natural numbers.
* Command-line parsing, printing, timing, benchmarks and scripts.
* Sorting and aggregation of other sizes than powers of two (sorting asserts them;
  the aggregation leaves rows out for others).
* The memory cache of vectors (`vector_cache.h`): `RECYCLE_THREAD_MEMORY`, which
  compiles it in, is commented out in `debug.h`.
* The alternating bit compression (`vector.h`), which nothing calls.
* Opening a view, which sends from the start of the view's storage
  (`b_shared_vector.h:468`, marked as a TODO).
* The elementwise operators of vectors and columns that hand each element to one
  primitive: they are the primitives. The two `waldo_table_*` queries consist of
  such comparisons, and `waldo_energy_query.cpp` is `energy.cpp` without its sort.
* The read past the end of a one-element vector in `mark_gap_session` is modelled as
  any bit (`behind`); that it is undefined behaviour in C++ is not.

## 7. Plan

What is left to prove: that rows stay together in the sort, for every number of rows.
