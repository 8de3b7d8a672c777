SPECIFICATION SharedSpec
CONSTANTS
  Keys <- MCKeys
  Locs = {"a", "b", "c"}
  FirstAutoID = 101
  MaxRecents = 3
  Clients = {"go1", "py"}
  PyClients = {"py"}
  Anonymous = {"tunein"}
  PresetRequests <- MCPresetRequests
  RecentRequests <- NoRequests
  SourcesXML <- MCSources
  InitialPresets <- MCPresets
  InitialRecents <- NoLists
  Faults = FALSE
  SameMillisecond = {}
  MaxClock = 7
INVARIANTS
  PythonReadsPresets
CHECK_DEADLOCK FALSE
