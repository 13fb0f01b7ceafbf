SPECIFICATION Spec
CONSTANTS
  CAPACITY = 32
  MaxBytes = 72
  WriteLens <- MCWriteLens
  ReadLens <- MCReadLens
INVARIANTS
  TypeOK
  FramesAligned
  UnreadIntact
  CopiesDisjoint
  ReadsNextBytes
  ResetKeepsNewPackets
PROPERTY
  ImplementsFifo
