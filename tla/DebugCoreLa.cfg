CONSTANTS
  Depth = 4
  CountMod = 2
  HeaderBytes = 1
  PayloadBytes = 0
  Legacy = {}
  TraceInputs = {"mark"}
  Holders = {"la"}
  MaxAtOnce = 1
  MaxPackets = 2
  MaxDrops = 2
SPECIFICATION Spec
PROPERTY LaServed
