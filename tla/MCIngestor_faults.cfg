SPECIFICATION FairSpec
CONSTANTS
  Sigs = {s1}
  Window = 1
  Lead = 2
  PageLimit = 1
  MaxSlot = 4
  MaxDisturb = 3
PROPERTIES
  BlobIsNeverHollowed
  PendingLeavesByVerdict
  PendingIsResolved
CHECK_DEADLOCK FALSE
