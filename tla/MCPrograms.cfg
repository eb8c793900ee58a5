SPECIFICATION ProgramsSpec
CONSTANTS
  IssueTabs = {a, b}
  IssueSet = {i, j}
  NoIssue = none
  MuteTime = 1
  MaxTime = 3
  MaxChanges = 2
  MaxSelects = 2
  MaxLost = 1
  Accounts = {x, y}
  NoAccount = none
  Fields = {f}
  MaxSlot = 3
  HistoryTake = 2
  MaxWritten = 3
  MaxMoves = 2
  WorkTabs = {a, b}
  Queries = {q}
  NoQuery = none
  MaxMade = 2
  MaxActs = 2
  MaxSlugs = 2
  MaxThrows = 1
  MaxAll = 4
  Texts = {"a", "b", "c"}
  Broken = {"b", "c"}
  Unbalanced = {"c"}
  MaxRuns = 2
  MaxTypings = 3
  MaxDrills = 2
  MaxLosses = 1
  ReplayTabs = {a, b}
  Sigs = {s}
  NoSig = none
  MaxResults = 2
  MaxAsks = 3
  MaxHarm = 1
  MaxSockets = 1
  MaxFeed = 4
  RingSize = 2
  RowsKept = 2
  MaxOrders = 2
  MaxCrashes = 1
  Now = 3630
  Moments = {30, 3540, 3571, 3600, 3630}
  Drawn = 2
  FigTimes = {0, 59, 60, 7600, 7620}
  FigValues = {0, 1, 19, 41}
  Repeats = {0, 22}
  MaxPins = 3
  MaxStrokes = 1
  MaxPresses = 6
  MaxSessions = 2
  MaxReplaced = 1
SYMMETRY Clients
INVARIANTS
  DataInv
  IssuesInv
  ScrubInv
  
  PanelInv
  ReplayInv
  StreamInv
CHECK_DEADLOCK FALSE
