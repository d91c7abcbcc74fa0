SPECIFICATION Spec
CONSTANTS
  Marker = Marker
  Own = Own
  All = All
  Noise = Noise
  clear = clear
  measure = measure
  Symbols <- MCSymbols
  Frames <- MCFrames
  Id <- MCId
  Cmd <- MCCmd
  Data <- MCData
  SizeOf <- MCSizeOf
  MaxData = 1
  RxSize = 5
  ClearMax = 2
  TornSize = TRUE
  MsMod = 3
  ReadTimeMs = 1
  MaxSends = 1
INVARIANT
  NoReplay
