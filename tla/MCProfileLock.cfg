\* Three runners, two of which may crash; their tickets appear in the order
\* of their admission times.
CONSTANTS
  Runners = {r1, r2, r3}
  None = None
  MaxCrashes = 2
  PublishInOrder = TRUE
SPECIFICATION FairSpec
INVARIANTS
  TypeOK
  MutualExclusion
  GrantIsKeptOrReturned
PROPERTIES
  NeverStolen
  FirstComeFirstServed
  Served
CHECK_DEADLOCK FALSE
