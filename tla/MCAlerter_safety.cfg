SPECIFICATION Spec
CONSTANTS
  NumRules = 1
  Broken = {}
  Channels = {hook}
  OnCall = {pager}
  EscChannels = {slack}
  Unreadable = {}
  Incomplete = {hook}
  MaxAttempts = 2
  MaxWindow = 1
  MaxDisturb = 1
INVARIANTS
  AlerterInv
PROPERTIES
  SettledIsFinal
  ImplementsOutbox
