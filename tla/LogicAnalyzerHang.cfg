CONSTANTS
  SampleDepth = 3
  SamplesPerChunk = 2
  Configs <- HangConfigs
  Commands <- HangCommands
  Rewritten = {}
  MaxWrites = 2
  MaxLost = 0
SPECIFICATION Spec
PROPERTY ReadoutEnds
