SPECIFICATION Spec
CONSTANTS
  Jobs = {"j1"}
  Services <- MCServices
  Choices <- MCChoices
  Unreliable = {}
  MaxJobs = 3
INVARIANTS
  ChoiceHonoured
CHECK_DEADLOCK FALSE
