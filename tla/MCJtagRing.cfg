CONSTANTS
  Depth = 4
  PtrWidth = 3
  CountMod = 16
  MaxDrop = 1
  WaitAfterAbort = TRUE
  Gray <- MCGray
SPECIFICATION Spec
INVARIANTS
  TypeOK
  PointersInOrder
  CountersAgree
  UncommittedKept
  NextByteReady
PROPERTIES
  DropsReportedInOrder
  ImplementsMailbox
