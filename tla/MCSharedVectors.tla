--------------------------- MODULE MCSharedVectors ---------------------------
(* All words of four bits are few enough to take all pairs of them; of     *)
(* eight bits, those around every power of two and of either sign.         *)
EXTENDS SharedVectors

MCOperands ==
  IF Width = 4 THEN -8 .. 7
  ELSE UNION {{2 ^ k - 1, 2 ^ k, -(2 ^ k), -(2 ^ k) - 1, 2 ^ k + 2 ^ (k \div 2)} : k \in 0 .. 6}
       \cup {-128}

\* The ends of the range, and numbers on both sides of multiples of divisors.
MCAddends ==
  {-128, -127, -121, -120, -119, -65, -64, -9, -8, -7, -4, -3, -1, 0, 1, 2, 3, 7, 8, 9, 63, 64,
   119, 120, 126, 127}

MCDivisors == {1, 3, 8, 100, 127}
==============================================================================
