SPECIFICATION Spec
CONSTANTS
  Jobs = {"j1"}
  Services <- MCServices
  Choices <- MCChoices
  Unreliable = {"test"}
  MaxJobs = 3
INVARIANTS
  GoodBackupKept
CHECK_DEADLOCK FALSE
