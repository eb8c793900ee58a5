SPECIFICATION Spec
CONSTANTS
  Sigs = {a}
  Failed = {a}
  Sdk = {}
  MaxInstrs = 3
  Instrs <- Uniform
  MaxDisturb = 1
  SampleCap = 2
  MaxRaw = 1
INVARIANTS
  IssueIsAccurate
CHECK_DEADLOCK FALSE
