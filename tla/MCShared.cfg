SPECIFICATION FairSharedSpec
CONSTANTS
  Keys <- MCKeys
  Locs = {"a", "b", "c"}
  FirstAutoID = 101
  MaxRecents = 3
  Clients = {"go1", "go2", "py"}
  PyClients = {"py"}
  Anonymous = {"tunein"}
  PresetRequests <- MCPresetRequests
  RecentRequests <- MCRecentRequests
  SourcesXML <- MCSources
  InitialPresets <- MCPresets
  InitialRecents <- MCRecents
  Faults = TRUE
  SameMillisecond = {}
  MaxClock = 7
INVARIANTS
  TypeOK
  ButtonsInPlace
  PromisedPresets
  RecentsBounded
  ParsedAlike
  SharedIDsIdentifyContent
PROPERTIES
  KeepsPromise
  TornHeals
CHECK_DEADLOCK FALSE
