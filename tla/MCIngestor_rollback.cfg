SPECIFICATION Spec
CONSTANTS
  Sigs = {s1}
  Window = 1
  Lead = 2
  PageLimit = 1
  MaxSlot = 4
  MaxDisturb = 1
INVARIANT
  RolledBackIsUnconfirmed
CHECK_DEADLOCK FALSE
