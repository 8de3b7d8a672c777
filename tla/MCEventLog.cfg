SPECIFICATION Spec
CONSTANTS
  Handlers <- MCHandlers
  Devices <- MCDevices
  MaxEvents = 2
  MaxReports = 5
INVARIANTS
  TypeOK
  LogIsTheLastEvents
  LoggedStatsAreStored
