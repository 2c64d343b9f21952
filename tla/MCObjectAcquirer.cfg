\* Three requests for two objects, with two priorities.
CONSTANTS
  Requests = {q1, q2, q3}
  Objects = {o1, o2}
  Priorities = {0, 2}
  Concurrency = 1
  Nobody = Nobody
SPECIFICATION FairAcquirerSpec
INVARIANTS
  AcquirerTypeOK
  TransfersAccounted
PROPERTIES
  EveryoneIsSettled
CHECK_DEADLOCK FALSE
