SPECIFICATION FairSpec
CONSTANTS
  Noise = Noise
  Symbols = {a, Noise}
  RxSize = 3
  Messages = {m1, m2}
  MaxSent = 4
INVARIANTS
  TypeOK
  ReceptionKept
  NoSilentLoss
  WritingIsReal
PROPERTIES
  TxBufKept
  ImplementsRs485
  Reopens
