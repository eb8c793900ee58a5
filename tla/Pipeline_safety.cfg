SPECIFICATION Spec
CONSTANTS
  Sigs = {a}
  Failed = {}
  Sdk = {a}
  MaxInstrs = 1
  Instrs <- Uniform
  MaxDisturb = 2
  SampleCap = 1
  MaxRaw = 2
INVARIANTS
  EffectsAreBounded
  AckedIsAccountedFor
  VerdictsTakeEffect
PROPERTIES
  ImplementsView
CHECK_DEADLOCK FALSE
