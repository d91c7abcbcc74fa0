SPECIFICATION Spec
CONSTANTS
  MaxSize = 4
  SizeMod = 16
  Values = {a, b}
  Needs <- MCNeeds
INVARIANTS
  TypeOK
  NoOverRead
  ShortReadOnlyAtWrap
PROPERTY
  ImplementsFifo
