\* Three pending requests over four ids that wrap, a mailbox of three, one
\* model lease; both event loops are fair.
CONSTANTS
  MaxPending = 3
  Capacity = 3
  s1 = s1
  LeaseSlots <- MCLeaseSlots
  LastId = 4
SPECIFICATION FairSpec
INVARIANTS
  TypeOK
  RepliesInOrder
  LeasesRespected
PROPERTIES
  EverythingIsAnswered
CHECK_DEADLOCK FALSE
