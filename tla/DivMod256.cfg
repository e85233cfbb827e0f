SPECIFICATION Spec
CONSTANTS
  LimbBits = 2
  InputLimbs = {0, 1, 2, 3}
INVARIANTS
  TypeOK
  LoopKeepsInvariant
  InStep
PROPERTIES
  LoopDivides
  Returns
