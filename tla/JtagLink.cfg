CONSTANTS
  BufferSize = 3
  CountMod = 8
  ByteBits = 2
  RequestBits = 2
  HeaderBytes = 1
  BlockSize = 2
  MaxBytes = 3
  MaxFails = 2
  MaxResets = 1
SPECIFICATION Spec
INVARIANTS
  TypeOK
  RingContract
  HeaderStillTrue
  WholeBlocksCommitted
  DeliveredInOrder
  LossBounded
PROPERTY RingDrains
