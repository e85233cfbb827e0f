SPECIFICATION Spec
CONSTANT Messages <- MCMessages
INVARIANTS
  StepsOfStandard
  DigestsKnown
CHECK_DEADLOCK FALSE
