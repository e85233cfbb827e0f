SPECIFICATION RefSpec
CONSTANTS
  LimbBits = 2
  InputLimbs = {0, 1, 2, 3}
  Radices = {0, 1, 2, 3, 17}
  Lengths = {0, 1, 4, 5, 7, 8}
INVARIANTS
  AddMinusModular
  OrderNumeric
  ShiftNumeric
  Mul128Modular
  Mul256UnlessCarry
  DivModCorrect
  NumeralsExact
CHECK_DEADLOCK FALSE
