SPECIFICATION FairSpec
CONSTANTS
  Messages = {a, b}
  BuffersCount = 3
  MaxSize = 2
INVARIANT
  TypeOK
PROPERTIES
  SendingKept
  WaitEndsDrained
  WaitEnds
  ImplementsFifo
