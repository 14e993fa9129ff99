SPECIFICATION Spec
CONSTANTS
  MaxSeq = 3
  MaxErrors = 2
  Catalog = {"heartbeat", "print", "event", "watch", "status", "span_begin", "span_end", "mark", "value", "drop", "read_resp", "write_resp", "monitor_reserved", "snapshot", "alert", "profiler_reserved", "la_header", "la_status", "la_trigger", "la_reserved"}
  Usual = {"span_begin", "span_end"}
  Keys = {1}
  Args = {0, 37}
  Chunks = {6}
  MaxFrames = 4
  MaxLong = 8
  MaxOdd = 1
  MaxSkipped = 2
  MaxClears = 1
  MaxLogs = 2
  MaxSpans = 1
  MaxMarks = 1
  MaxValues = 1
  MaxDrops = 1
  MaxHistory = 1
  MaxAlerts = 1
INVARIANTS
  TypeOK
  ChunkingInvisible
  LossBounded
  SpansJoinNeighbours
  ScreenFresh
