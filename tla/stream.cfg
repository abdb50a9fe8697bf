CONSTANTS
  Clients = {c1, c2}
  MaxLive = 2
  MaxEvents = 2
  MaxAudits = 1
  Statuses = {RUNNING, BLOCKED}
  ReadsFail = TRUE
  Tabs = {tab}
  MaxRows = 3
SPECIFICATION StreamSpec
INVARIANTS
  StreamTypeOK
  NothingTwice
  LatestTabUpToDate
  FeedEndsWithHistory
  RowsRepeatedOnlyByReconnect
  OneSocketPerTab
SYMMETRY StreamSymmetry
CHECK_DEADLOCK FALSE
