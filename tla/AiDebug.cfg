SPECIFICATION Spec
CONSTANTS
  Catalog = {"log", "latency", "torn_capture"}
  Modulus = 4
  Near = 1
  Budget = 2
  MaxData = 2
  MaxBuilds = 2
INVARIANTS
  TypeOK
  ReportBelongsTogether
  StatusTold
