SPECIFICATION Spec
CONSTANTS
  MaxSeq = 3
  MaxErrors = 1
  SampleDepth = 4
  Depths = {1, 4}
  ReadAddrs = {"capture_depth"}
  Timeout = 2
  MaxRequests = 4
  MaxClears = 1
  MaxApplies = 2
  MaxFaults = 1
INVARIANTS
  TypeOK
  AnswerIsOwn
  ConfigAppliedOrReported
