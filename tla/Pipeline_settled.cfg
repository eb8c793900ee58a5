SPECIFICATION FairSpec
CONSTANTS
  Sigs = {a}
  Failed = {a}
  Sdk = {}
  MaxInstrs = 1
  Instrs <- Uniform
  MaxDisturb = 1
  SampleCap = 1
  MaxRaw = 2
PROPERTIES
  EverythingIsSettled
CHECK_DEADLOCK FALSE
