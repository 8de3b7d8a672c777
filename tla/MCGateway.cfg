SPECIFICATION FairSpec
CONSTANTS
  Requests = {"r1"}
  Admins = {"a1", "a2"}
  Bodies <- MCBodies
  Stations = {"a", "b"}
  StreamLists <- MCStreamLists
  Silent = {}
INVARIANTS
  TypeOK
  ClearOnlyWhileOff
  ForgedOnlyWhileLogging
  PlaysAStream
PROPERTIES
  RequestsAnswered
CHECK_DEADLOCK FALSE
