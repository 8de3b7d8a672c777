SPECIFICATION FairSpec
CONSTANTS
  Scans <- MCScans
  Speakers <- MCSpeakers
  SerialOf <- MCSerialOf
  Addresses = {1, 2}
  Copied <- NoCopies
  InDefault <- InDefaultAccount
  Silent = {}
  Faults = TRUE
  MaxScans = 3
INVARIANTS
  TypeOK
  RecordedSpeakerKept
PROPERTIES
  ScanIndicatorClears
CHECK_DEADLOCK FALSE
