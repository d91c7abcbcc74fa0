SPECIFICATION Spec
CONSTANTS
  Requests <- MCAllRequests
  NChannels = 2
  LedPeriod = 2
  WdgPeriod = 3
  MaxSends = 1
INVARIANT
  ChannelExists
