CONSTANTS
  SampleDepth = 3
  SamplesPerChunk = 2
  Configs <- MCConfigs
  Commands <- MCCommands
  Rewritten = {"enable", "capture_depth"}
  MaxWrites = 4
  MaxLost = 1
SPECIFICATION Spec
INVARIANTS
  TypeOK
  CaptureIsWindow
  ReadoutExact
  CompleteIsExact
