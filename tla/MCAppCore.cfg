SPECIFICATION Spec
CONSTANTS
  Requests <- MCRequests
  NChannels = 2
  LedPeriod = 2
  WdgPeriod = 3
  MaxSends = 2
INVARIANTS
  TypeOK
  AnswerMatchesRequest
  PausedOnlyWhileMeasuring
PROPERTIES
  ErrorUntilReset
  WatchdogSparesTheSound
