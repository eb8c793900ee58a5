SPECIFICATION Spec
CONSTANTS
  NumRules = 2
  Broken = {2}
  Channels = {hook}
  OnCall = {pager}
  EscChannels = {slack}
  Unreadable = {}
  Incomplete = {hook}
  MaxAttempts = 2
  MaxWindow = 2
  MaxDisturb = 1
INVARIANTS
  BrokenIsQuiet
