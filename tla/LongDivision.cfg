SPECIFICATION Spec
CONSTANT Number <- Numbers64
INVARIANTS
  LoopInvariant
  DivisionCorrect
  WeightLasts
CHECK_DEADLOCK FALSE
