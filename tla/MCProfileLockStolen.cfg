\* Three runners, one of which may crash; tickets appear in any order.
CONSTANTS
  Runners = {r1, r2, r3}
  None = None
  MaxCrashes = 1
  PublishInOrder = FALSE
SYMMETRY RunnerSymmetry
SPECIFICATION Spec
PROPERTIES
  NeverStolen
CHECK_DEADLOCK FALSE
