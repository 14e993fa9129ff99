CONSTANTS
  BufferSize = 3
  CountMod = 8
  ByteBits = 2
  RequestBits = 2
  HeaderBytes = 1
  BlockSize = 2
  MaxBytes = 2
  MaxFails = 1
  MaxResets = 0
SPECIFICATION Spec
INVARIANT CommittedIsDelivered
