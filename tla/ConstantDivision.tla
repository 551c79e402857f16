--------------------------- MODULE ConstantDivision ---------------------------
(***************************************************************************)
(* Division of a secret by a public constant c (div_const_a of both        *)
(* protocols, ASharedVector::div).                                         *)
(*                                                                         *)
(* The secret is the sum of two numbers, its addends, each of which some   *)
(* party knows.  Each is divided on its own into a quotient and an error,  *)
(* c is taken from the error of one of them, and div adds one to the sum   *)
(* of the quotients when the sum of the errors is not negative.            *)
(***************************************************************************)
EXTENDS Words

Negative(n) == Truth(n < 0)

\* C rounds to zero, and the parties take one more from what is negative.
RoundedDown(n, c, less) ==
  [quotient |-> Quotient(n, c) - Negative(n),
   error    |-> Remainder(n, c) + Negative(n) * c - less]

\* Party 0 of the three-party protocol lowers the number before it divides.
LoweredFirst(n, c) ==
  LET dividend == Signed(Wrap(n - Negative(n) * c))
  IN  [quotient |-> Quotient(dividend, c),
       error    |-> Remainder(dividend, c) + Negative(n) * c]

\* What is shared for the addends a and b: by party 0 and party 1 of three,
\* by parties 0 and 3 and parties 2 and 1 of four.
DivisionParts(parties, a, b, c) ==
  IF parties = 3 THEN <<LoweredFirst(a, c), RoundedDown(b, c, c)>>
                 ELSE <<RoundedDown(a, c, c), RoundedDown(b, c, 0)>>

\* div, from the quotients and the errors: !ltz of the sum of the errors.
Corrected(parts) ==
  parts[1].quotient + parts[2].quotient + Truth(parts[1].error + parts[2].error >= 0)

-----------------------------------------------------------------------------

\* The addends fit: they add up to the secret without wrapping around, and
\* lowering the first does not wrap around either.
Fit(parties, a, b, c) ==
  /\ a + b \in -(2 ^ (Width - 1)) .. 2 ^ (Width - 1) - 1
  /\ parties = 3 /\ a < 0 => a - c >= -(2 ^ (Width - 1))

\* Both addends are rounded down once more than they should be.
BothExact(a, b, c) == a < 0 /\ b < 0 /\ a % c = 0 /\ b % c = 0

\* If the addends fit the quotient is rounded down, whatever their signs, but
\* for two negative multiples of c, of which it is one less.
DivisionRight(parties, a, b, c) ==
  Fit(parties, a, b, c) =>
    Corrected(DivisionParts(parties, a, b, c))
      = ((a + b) \div c) - Truth(BothExact(a, b, c))
===============================================================================
