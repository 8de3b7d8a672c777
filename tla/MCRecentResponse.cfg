SPECIFICATION StoreSpec
CONSTANTS
  Keys <- MCKeys
  Locs = {"a", "b", "c"}
  FirstAutoID = 101
  MaxRecents = 3
  Clients = {"c1"}
  PresetRequests <- NoRequests
  RecentRequests <- MCRecentRequests
  SourcesXML <- MCSources
  InitialPresets <- NoLists
  InitialRecents <- MCRecents
  Faults = FALSE
  SameMillisecond = {}
  MaxClock = 11
INVARIANTS
  RecentResponseIsPosted
CHECK_DEADLOCK FALSE
