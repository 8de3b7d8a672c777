SPECIFICATION Spec
CONSTANTS
  Scans <- MCScans
  Speakers <- MCSpeakers
  SerialOf <- MCSerialOf
  Addresses = {1, 2}
  Copied <- InOtherAccount
  InDefault <- Nowhere
  Silent = {}
  Faults = FALSE
  MaxScans = 3
INVARIANT NoAddressEntryBesideSerial
CHECK_DEADLOCK FALSE
