SPECIFICATION Spec
CONSTANTS
  Channels = {0, 3}
  SignalChannel = 3
  Reads = 3
  Timeout = 1
  MsMod = 4
INVARIANTS
  TypeOK
  EverythingOff
PROPERTIES
  SamplesAreFresh
  ResistanceIsMeasured
  GivesUpLate
  SentIsWhole
  Ends
