SPECIFICATION Spec
CONSTANTS
  Width = 4
  Shares = 3
  Operands = {}
  Addends <- MCOperands
  Divisors = {2}
INVARIANT DividesTheSecret
