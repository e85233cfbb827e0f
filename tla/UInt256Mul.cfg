SPECIFICATION RefSpec
CONSTANTS
  LimbBits = 2
  InputLimbs = {0, 1, 2, 3}
  Radices = {2}
  Lengths = {1}
INVARIANT
  Mul256Modular
CHECK_DEADLOCK FALSE
