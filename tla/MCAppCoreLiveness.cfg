SPECIFICATION FairSpec
CONSTANTS
  Requests <- MCLivenessRequests
  NChannels = 2
  LedPeriod = 2
  WdgPeriod = 3
  MaxSends = 2
PROPERTIES
  BackToIdle
  SignalServed
