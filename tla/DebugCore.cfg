CONSTANTS
  Depth = 4
  CountMod = 16
  HeaderBytes = 1
  PayloadBytes = 0
  Legacy = {"heartbeat", "status"}
  TraceInputs = {"mark", "value"}
  Holders = {"monitor", "la"}
  MaxAtOnce = 2
  MaxPackets = 6
  MaxDrops = 1
SPECIFICATION Spec
INVARIANTS
  TypeOK
  HeadroomKept
  StatusTellsPosition
  FramesWhole
  LossesCounted
