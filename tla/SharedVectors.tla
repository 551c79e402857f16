---------------------------- MODULE SharedVectors ----------------------------
(***************************************************************************)
(* Operations of shared vectors that take several steps: those of boolean  *)
(* shares, and the division of arithmetic shares by a public constant      *)
(* (core/containers/a_shared_vector.h), which takes the parts of quotient  *)
(* and error from div_const_a, converts the error to boolean shares with   *)
(* an adder (a2b), and corrects the quotient by its sign.                  *)
(***************************************************************************)
EXTENDS BooleanOperations

D == INSTANCE ConstantDivision

CONSTANTS
  Addends,    \* numbers whose sums are divided
  Divisors    \* public constants to divide by

ASSUME DivisionAssumption ==
  /\ Addends \subseteq -(2 ^ (Width - 1)) .. 2 ^ (Width - 1) - 1
  /\ Divisors \subseteq 1 .. 2 ^ (Width - 1) - 1

VARIABLES
  division,    \* the division that is running: protocol, addends and divisor
  quotients,   \* out[0], the parts of the quotient the parties have shared
  quotient     \* what div has returned

divisionVars == <<division, quotients, quotient>>
vars == <<booleanVars, divisionVars>>

NoDivision == [parties |-> 0, a |-> 0, b |-> 0, c |-> 1]

\* One of the operations is called.  The addends of a secret can be any two
\* numbers: one is random.
Init ==
  /\ \/ /\ operation \in Adders \cup {"comparison"}
        /\ x_vec \in Operands
        /\ y_vec \in Operands
        /\ division = NoDivision
     \/ /\ operation = "division"
        /\ division \in [parties : {3, 4}, a : Addends, b : Addends, c : Divisors]
        /\ x_vec = 0
        /\ y_vec = 0
  /\ BooleanInit
  /\ quotients = <<>>
  /\ quotient = <<>>

Narrow(n) == D!Signed(D!Wrap(n))

\* div_const_a, and redistribute_shares_b and + of out_err.a2b(): the two
\* vectors added are the parts of the error.
DivideConst ==
  /\ operation = "division"
  /\ LET parts == D!DivisionParts(division.parties, division.a, division.b, division.c)
     IN  /\ quotients' = <<Narrow(parts[1].quotient), Narrow(parts[2].quotient)>>
         /\ x_vec' = Narrow(parts[1].error)
         /\ y_vec' = Narrow(parts[2].error)
  /\ operation' \in Adders
  /\ p' = Propagate(x_vec', y_vec')
  /\ g' = Generate(x_vec', y_vec')
  /\ i' = FirstLoop(operation')
  /\ UNCHANGED <<sameBit, carry_i, sum, results, division, quotient>>

\* The sign bit, a word of one bit.
ltz(w) == bit_right_shift(w, digits)
b2a_bit(w) == D!Truth(w[0])

Fault_Correction == b2a_bit(ltz(sum))   \* fault: ! is forgotten
Correction == b2a_bit(not_b_1(ltz(sum)))

\* out_res + correction
Correct ==
  /\ division # NoDivision
  /\ quotient = <<>>
  /\ BooleanReturned
  /\ quotient' = <<Narrow(quotients[1] + quotients[2] + Correction)>>
  /\ UNCHANGED <<booleanVars, division, quotients>>

Returned == BooleanReturned /\ (division # NoDivision => quotient # <<>>)
Done == Returned /\ UNCHANGED vars

Next ==
  \/ BooleanNext /\ UNCHANGED divisionVars
  \/ DivideConst
  \/ Correct
  \/ Done

Spec == Init /\ [][Next]_vars

-----------------------------------------------------------------------------

Secret == Narrow(division.a + division.b)

\* The secret is divided and rounded down, if its addends fit, whatever their
\* signs and remainders are, but for two negative multiples of the divisor, of
\* which the quotient is one less.  Neither party knows more than its addend,
\* so that what one loses or gains by rounding has to show in the sign of the
\* sum of the errors, which is never far from zero.
DividesRight ==
  quotient # <<>> =>
    LET a == division.a
        b == division.b
        c == division.c
    IN  D!Fit(division.parties, a, b, c) =>
          quotient[1] = Narrow(((a + b) \div c) - D!Truth(D!BothExact(a, b, c)))

\* test_primitives.cpp:61-71: dividing numbers that are not negative, the
\* largest one among them, gives what C's division of them gives.
DividesTheSecret ==
  (quotient # <<>> /\ Secret >= 0) => quotient[1] = Secret \div division.c
==============================================================================
