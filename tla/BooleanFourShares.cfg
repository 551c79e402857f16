SPECIFICATION Spec
CONSTANTS
  Width = 4
  Shares = 4
  Operands <- MCOperands
  Addends = {}
  Divisors = {}
INVARIANT EqBitsAreEquality
