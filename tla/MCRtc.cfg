SPECIFICATION Spec
CONSTANTS
  Sub = 3
  SecPerMin = 2
  MinPerHour = 2
  HoursPerDay = 2
  Ms = 10
  Wrap32 = 64
  Wrap16 = 32
  Starts <- MCStarts
  Timeouts = {4, 26}
  Utcs = {2, 639}
  MaxTicks = 6
  MaxCalls = 2
  MaxStarts = 1
INVARIANTS
  TypeOK
PROPERTIES
  ReadIsNow
  AlarmIsContextPlusTimeout
  TimeKept
CHECK_DEADLOCK FALSE
