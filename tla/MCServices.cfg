SPECIFICATION ServicesSpec
CONSTANTS
  Tabs = {a, b}
  Editors = {a}
  MaxVersion = 2
  MaxCalls = 2
  MaxFails = 1
  Texts = {"a", "b"}
  Broken = {"b"}
  Unbalanced = {}
  MaxRuns = 2
  MaxTypings = 2
  MaxDrills = 1
  MaxLosses = 1
  ReplayTabs = {a, b}
  Sigs = {s}
  NoSig = none
  MaxResults = 2
  MaxAsks = 2
  MaxHarm = 1
  MaxSockets = 2
  MaxFeed = 2
  RingSize = 1
  RowsKept = 1
  MaxOrders = 0
  MaxCrashes = 1
  MaxVersions = 3
  MaxSeconds = 2
  MaxGaps = 1
  Trackers = {p, q}
  MaxFinal = 2
  MaxWrites = 1
  MaxSnaps = 2
  MaxUpsets = 1
  Signers = {p, q}
  Sites = {p}
  SlotRange = 1
  WindowSize = 3
  MaxSeen = 4
  MaxSlots = 3
INVARIANTS
  ServicesInv
PROPERTIES
  PagesSettle
  BackendSettles
CHECK_DEADLOCK FALSE
