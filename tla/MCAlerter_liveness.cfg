SPECIFICATION FairSpec
CONSTANTS
  NumRules = 1
  Broken = {1}
  Channels = {slack}
  OnCall = {}
  EscChannels = {}
  Unreadable = {}
  Incomplete = {}
  MaxAttempts = 2
  MaxWindow = 1
  MaxDisturb = 1
PROPERTIES
  ConditionIsRaised
