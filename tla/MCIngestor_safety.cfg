SPECIFICATION Spec
CONSTANTS
  Sigs = {s1, s2}
  Window = 1
  Lead = 1
  PageLimit = 1
  MaxSlot = 4
  MaxDisturb = 1
SYMMETRY Interchangeable
INVARIANTS
  VerdictsWereAnnounced
  PromotedIsConfirmed
  RollbackIsSound
  TracesAreGrounded
  IInv
PROPERTY
  ImplementsFeed
CHECK_DEADLOCK FALSE
