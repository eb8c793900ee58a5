SPECIFICATION PlatformSpec
CONSTANTS
  Browsers = {a, b}
  MaxUsers = 2
  MaxCodes = 1
  People = {a, b}
  Nobody = nobody
  MaxOrgs = 1
  MaxProjects = 2
  MaxErrors = 1
  Tabs = {a, b}
  Editors = {a, b}
  MaxVersion = 3
  MaxCalls = 3
  MaxFails = 1
  Jobs = {a, b}
  Commits = {c, d}
  Ixs = {ix}
  Units = {0, 100, 110}
  Limits = {20}
  MaxFaults = 1
  PageTabs = {a, b}
  Names = {"n"}
  MaxRows = 2
  MaxClicks = 2
  MaxBreaks = 1
  MaxGos = 2
  Budget = 3
  MaxPosts = 2
  EditSessions = {1, 2}
  MaxSkips = 1
  Callees = {a, b, n}
  Builtins = {n}
  MaxLog = 6
  MaxDepth = 3
  Slots = {1, 2}
  Again = {1}
  Forked = {1}
  Opened = {2}
SYMMETRY Clients
INVARIANTS
  AccountsInv
  OrgsInv
  CPInv
  CuInv
  PagesInv
  LiveInv
  VariantFileInv
  ReadInv
PROPERTIES
  VerifiedUserStays
CHECK_DEADLOCK FALSE
