SPECIFICATION ViewsSpec
CONSTANTS
  Keys <- MCKeys
  Locs = {"a", "b"}
  FirstAutoID = 101
  MaxRecents = 2
  Clients = {"c1"}
  PresetRequests <- MCPresetRequests
  RecentRequests <- MCRecentRequests
  SourcesXML <- MCSources
  InitialPresets <- OnePreset
  InitialRecents <- OneRecent
  Faults = TRUE
  SameMillisecond = {}
  MaxClock = 5
  Readers = {"r1"}
  Devices = {1, 2}
INVARIANTS
  FullViewHasTheDevices
CHECK_DEADLOCK FALSE
