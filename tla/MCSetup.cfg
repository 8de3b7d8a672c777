SPECIFICATION SetupSpec
CONSTANTS
  Jobs = {j1, j2}
  Services = {"marge", "bmx"}
  Choices <- MCChoices
  Unreliable = {"cat", "cp", "upload", "reboot", "crash", "touch", "probe"}
  MaxJobs = 2
  Locations <- MCLocations
  Volatile = {"/tmp"}
  Before = {{}, {"/tmp"}}
  Button = button
  MaxAsks = 1
INVARIANTS
  TypeOK
  SetupTypeOK
  TornConfigNeverSilent
  BootsWhatWasAsked
  GoodBackupKept
  PersistentSurvives
  
  OriginalIsFactory
PROPERTIES
  PreviewHonoured
SYMMETRY JobSymmetry
CHECK_DEADLOCK FALSE
