SPECIFICATION Spec
CONSTANTS
  Width = 8
  Shares = 3
  Operands <- MCOperands
  Addends <- MCAddends
  Divisors <- MCDivisors
INVARIANTS
  ComparesRight
  AddsRight
  DividesRight
