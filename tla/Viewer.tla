------------------------------- MODULE Viewer -------------------------------
(***************************************************************************)
(* The web viewer from the byte stream to the screen (app.js): the parser  *)
(* that finds frames in what the transports append to state.rx, the        *)
(* decoders and the lists they fill, and the rendering that is asked for   *)
(* and done later.                                                         *)
(*                                                                         *)
(* The FPGA sends frames; on the way a byte may be lost or changed, and a  *)
(* trace record may be dropped before it becomes a frame.  The bytes reach *)
(* the viewer in chunks of any length.                                     *)
(*                                                                         *)
(* A byte is a number below 64 and a field of a payload is one byte: the   *)
(* payloads the FPGA sends have up to three, a length byte that was        *)
(* damaged claims up to MAX_PAYLOAD, as in the code.  The type codes and   *)
(* the byte that starts a frame are the model's own; which types exist,    *)
(* which lengths they need and what they do is the code's.                 *)
(***************************************************************************)
EXTENDS Naturals, Sequences, FiniteSets, Functions, MonitorClient

CONSTANTS
  Catalog,      \* the kinds of frame the FPGA sends
  Usual,        \* those of them it sends again and again
  Keys,         \* the operations whose spans the FPGA traces
  Args,         \* what the last field of a usual frame holds
  Chunks,       \* the lengths of the chunks in which the bytes arrive
  MaxFrames, MaxSkipped, MaxClears,  \* bounds
  MaxOdd,       \* bound of clears and frames that are hurt or of an unusual kind; each
                \* takes the room of one more of the MaxFrames
  MaxLong,      \* bound on the frames of a line of which nothing is read before it is sent
  MaxLogs, MaxSpans, MaxMarks, MaxValues, MaxDrops, MaxHistory, MaxAlerts
                \* the viewer's caps (300, 20000, ..., 200)

ASSUME ViewerAssumption ==
  {MaxFrames, MaxLong, MaxSkipped, MaxClears, MaxOdd, MaxLogs, MaxSpans, MaxMarks, MaxValues, MaxDrops,
   MaxHistory, MaxAlerts} \cup Chunks \subseteq Nat

SOF == 37
VERSION == 1
MAX_PAYLOAD == 32
ByteRange == 0 .. 63

(* The types of frame, by the name of their kind.                          *)
Type ==
  [heartbeat |-> 2, print |-> 3, event |-> 4, watch |-> 5, status |-> 6,
   span_begin |-> 7, span_end |-> 8, mark |-> 9, value |-> 10, drop |-> 11,
   read_resp |-> 12, write_resp |-> 13, monitor_reserved |-> 14,
   snapshot |-> 15, alert |-> 16, profiler_reserved |-> 17,
   la_header |-> 18, la_status |-> 19, la_trigger |-> 20, la_reserved |-> 22]

ASSUME FramesAssumption ==
  Catalog \subseteq DOMAIN Type /\ Keys \subseteq ByteRange /\ Args \subseteq {0, SOF}

(* The records of a span have no short form.                               *)
ASSUME SpansAssumption == {"span_begin", "span_end"} \cap Catalog \subseteq Usual

Kind(type) == CHOOSE k \in DOMAIN Type : Type[k] = type
Known(type) == \E k \in DOMAIN Type : Type[k] = type

(* What a kind's decoder asks of the length: debug, trace and monitor      *)
(* frames may be longer than they need, the others must fit exactly.       *)
AtLeast == {"print", "event", "watch", "status", "span_begin", "span_end",
            "mark", "value", "drop", "read_resp", "write_resp"}
Fits(kind, n) == IF kind = "heartbeat" THEN n >= 1
                 ELSE IF kind \in AtLeast THEN n >= 3 ELSE n = 3

(* The exclusive or of all bytes: a bit is set if an odd number have it.   *)
checksum(bytes) ==
  LET odd(bit) == Cardinality({i \in DOMAIN bytes : (bytes[i] \div bit) % 2 = 1}) % 2
  IN odd(1) + 2 * odd(2) + 4 * odd(4) + 8 * odd(8) + 16 * odd(16) + 32 * odd(32)

frame(type, payload) ==
  LET body == <<VERSION, type, Len(payload)>> \o payload
  IN <<SOF>> \o body \o <<checksum(body)>>

Panels == {"counters", "log", "watch", "events", "status", "trace", "monitor",
           "profiler", "logic_analyzer"}

-----------------------------------------------------------------------------
(* The collected data d, and the decoders.  d.ask holds the panels whose   *)
(* redrawing the decoders requested; d.seen, a history field, the frames   *)
(* decoded.                                                                *)

createProfilerState ==
  [latest |-> NoEntries, history |-> NoEntries, alerts |-> <<>>,
   snapshots |-> 0, alertCount |-> 0, malformed |-> 0]
createLogicAnalyzerState ==
  [captures |-> NoEntries, latest |-> 0,
   headers |-> 0, statuses |-> 0, triggerEvents |-> 0, malformed |-> 0]

EmptyStore ==
  [frames |-> 0, checksumErrors |-> 0, syncDrops |-> 0, unknownFrames |-> 0,
   logs |-> <<>>, watches |-> NoEntries, events |-> NoEntries, status |-> <<>>,
   spans |-> <<>>, openSpans |-> NoEntries, marks |-> <<>>, values |-> <<>>,
   latestValues |-> NoEntries, drops |-> <<>>,
   monitor |-> createMonitorState,
   profiler |-> createProfilerState, la |-> createLogicAnalyzerState,
   ask |-> {}, seen |-> <<>>]

LaKinds == {"la_header", "la_status", "la_trigger", "la_reserved"}

requestRender(d, panel) == [d EXCEPT !.ask = @ \cup {panel}]
Set(f, key, x) == [k \in DOMAIN f \cup {key} |-> IF k = key THEN x ELSE f[k]]
Get(f, key, default) == IF key \in DOMAIN f THEN f[key] ELSE default
Newest(s, max) == IF Len(s) > max THEN SubSeq(s, Len(s) - max + 1, Len(s)) ELSE s

addLog(d, kind, p) ==
  requestRender([d EXCEPT !.logs = Unshift(@, <<kind, p>>, MaxLogs)], "log")

updateWatch(d, id, value, ts) ==
  requestRender([d EXCEPT !.watches = Set(@, id,
    [value |-> value, timestamp |-> ts, updates |-> Get(@, id, [updates |-> 0]).updates + 1])], "watch")

updateEvent(d, id, arg) ==
  requestRender([d EXCEPT !.events = Set(@, id,
    [arg |-> arg, count |-> Get(@, id, [count |-> 0]).count + 1])], "events")

pruneTraceHistory(d) ==
  [d EXCEPT !.spans = Newest(@, MaxSpans), !.marks = Newest(@, MaxMarks),
            !.values = Newest(@, MaxValues), !.drops = Newest(@, MaxDrops)]

(* Mutant of beginTraceSpan: a span that is open stays as it is.           *)
beginTraceSpanOnce(d, ts, key) ==
  [d EXCEPT !.openSpans = Set(@, key, Get(@, key, ts))]

beginTraceSpan(d, ts, key) == [d EXCEPT !.openSpans = Set(@, key, ts)]

(* A span record: when it began and ended, and how long it took (unsigned  *)
(* ticks that may have started again from 0 in between).                   *)
Orphan(ts, key) == [key |-> key, orphan |-> TRUE, end |-> ts]
endTraceSpan(d, ts, key) ==
  IF key \in DOMAIN d.openSpans
  THEN LET start == d.openSpans[key]
       IN pruneTraceHistory(
            [d EXCEPT !.openSpans = Restrict(@, DOMAIN @ \ {key}),
                      !.spans = Append(@, [key |-> key, orphan |-> FALSE, start |-> start,
                                           end |-> ts, duration |-> (ts + 64 - start) % 64])])
  ELSE pruneTraceHistory([d EXCEPT !.spans = Append(@, Orphan(ts, key))])

(* type 0x01 .. 0x05                                                       *)
decodeDebug(d, k, p) ==
  CASE k = "heartbeat" -> requestRender([addLog(d, k, p) EXCEPT !.status = <<p[1]>>], "status")
    [] k = "print" -> addLog(d, k, p)
    [] k = "event" -> addLog(updateEvent(d, p[2], p[3]), k, p)
    [] k = "watch" -> addLog(updateWatch(d, p[2], p[3], p[1]), k, p)
    [] k = "status" -> requestRender([addLog(d, k, p) EXCEPT !.status = p], "status")

(* type 0x10 .. 0x14                                                       *)
decodeTrace(d, k, p) ==
  LET stored ==
        CASE k = "span_begin" -> beginTraceSpan(d, p[1], p[2])
          [] k = "span_end" -> endTraceSpan(d, p[1], p[2])
          [] k = "mark" -> pruneTraceHistory([d EXCEPT !.marks = Append(@, p)])
          [] k = "value" -> pruneTraceHistory([d EXCEPT !.values = Append(@, p),
                                                        !.latestValues = Set(@, p[2], p)])
          [] k = "drop" -> pruneTraceHistory([d EXCEPT !.drops = Append(@, p)])
  IN requestRender(addLog(stored, k, p), "trace")

(* type 0x21, 0x23: number, status, value of the only register             *)
decodeMonitor(d, k, p) ==
  LET r == [kind |-> k, seq |-> p[1], addr |-> 0, status |-> p[2], value |-> p[3]]
  IN requestRender(addLog([d EXCEPT !.monitor = decodeMonitorResponse(@, r)], k, p), "monitor")

recordProfilerMalformed(d, k, p) ==
  requestRender(addLog([d EXCEPT !.profiler.malformed = @ + 1], k, <<Len(p)>>), "profiler")

(* type 0x30: time, metric, value                                          *)
decodeProfilerSnapshot(d, p) ==
  IF Len(p) # 3 THEN recordProfilerMalformed(d, "snapshot", p)
  ELSE requestRender(addLog(
         [d EXCEPT !.profiler.snapshots = @ + 1,
                   !.profiler.latest = Set(@, p[2], p),
                   !.profiler.history = Set(@, p[2], Newest(Append(Get(@, p[2], <<>>), p), MaxHistory))],
         "snapshot", p), "profiler")

(* type 0x31                                                               *)
decodeProfilerAlert(d, p) ==
  IF Len(p) # 3 THEN recordProfilerMalformed(d, "alert", p)
  ELSE requestRender(addLog([d EXCEPT !.profiler.alertCount = @ + 1,
                                      !.profiler.alerts = Unshift(@, p, MaxAlerts)],
                            "alert", p), "profiler")

(* type 0x40 .. 0x4F but 0x41, which is in module LogicAnalyzer: number of *)
(* the capture, two fields.  A header's decoder does not ask for the       *)
(* logic analyzer's panel.                                                 *)
laCapture(d, id, kind, p) ==
  [d EXCEPT !.la.captures = Set(@, id, Set(Get(@, id, NoEntries), kind, p)), !.la.latest = id]
decodeLogicAnalyzerHeader(d, p) ==
  requestRender(addLog([laCapture(d, p[1], "header", p) EXCEPT !.la.headers = @ + 1],
                       "la_header", p), "counters")
askBoth(d) == requestRender(requestRender(d, "logic_analyzer"), "counters")
decodeLogicAnalyzerStatus(d, p) ==
  askBoth(addLog([laCapture(d, p[1], "status", p) EXCEPT !.la.statuses = @ + 1], "la_status", p))
decodeLogicAnalyzerTriggerEvent(d, p) ==
  askBoth(addLog([laCapture(d, p[1], "triggerEvent", p) EXCEPT !.la.triggerEvents = @ + 1],
                 "la_trigger", p))
recordLogicAnalyzerMalformed(d, k, p) ==
  askBoth(addLog([d EXCEPT !.la.malformed = @ + 1], k, <<Len(p)>>))
decodeLogicAnalyzerFrame(d, k, p) ==
  CASE k = "la_header" /\ Len(p) = 3 -> decodeLogicAnalyzerHeader(d, p)
    [] k = "la_status" /\ Len(p) = 3 -> decodeLogicAnalyzerStatus(d, p)
    [] k = "la_trigger" /\ Len(p) = 3 -> decodeLogicAnalyzerTriggerEvent(d, p)
    [] OTHER -> recordLogicAnalyzerMalformed(d, k, p)

(* decodeFrame: what becomes of a frame with a good checksum.              *)
Responds(k, p) == k \in {"read_resp", "write_resp"} /\ Fits(k, Len(p))
unknown(d) == [d EXCEPT !.unknownFrames = @ + 1]
decodeFrame(d, raw) ==
  LET version == raw[2]
      type == raw[3]
      p == SubSeq(raw, 5, Len(raw) - 1)
      k == Kind(type)
      counted == [d EXCEPT !.frames = @ + 1, !.seen = Append(@, raw)]
  IN IF version # VERSION \/ ~Known(type) THEN addLog(unknown(counted), "UNKNOWN", raw)
     ELSE
     CASE k = "snapshot" -> decodeProfilerSnapshot(counted, p)
       [] k = "alert" -> decodeProfilerAlert(counted, p)
       [] k \in LaKinds ->
            decodeLogicAnalyzerFrame(counted, k, p)
       [] k \in {"heartbeat", "print", "event", "watch", "status"} /\ Fits(k, Len(p)) ->
            decodeDebug(counted, k, p)
       [] k \in {"span_begin", "span_end", "mark", "value", "drop"} /\ Fits(k, Len(p)) ->
            decodeTrace(counted, k, p)
       [] Responds(k, p) -> decodeMonitor(counted, k, p)
       [] k \in {"read_resp", "write_resp", "monitor_reserved"} /\ ~Responds(k, p) ->
            requestRender([unknown(counted) EXCEPT !.monitor = addMonitorError(@, k)], "monitor")
       [] k = "profiler_reserved" -> recordProfilerMalformed(unknown(counted), k, p)
       [] OTHER -> unknown(counted)

-----------------------------------------------------------------------------
(* parseAvailableFrames: one round of its loop, and the loop.              *)
skipByte(s) == [rx |-> Tail(s.rx), d |-> [s.d EXCEPT !.syncDrops = @ + 1]]

ParseFrame(s) ==
  LET rx == s.rx
      total == 5 + rx[4]
      raw == SubSeq(rx, 1, total)
      rest == SubSeq(rx, total + 1, Len(rx))
  IN CASE Len(rx) < 5 -> s
       [] Len(rx) >= 5 /\ (rx[1] # SOF \/ rx[4] > MAX_PAYLOAD) -> skipByte(s)
       [] Len(rx) >= 5 /\ rx[1] = SOF /\ rx[4] <= MAX_PAYLOAD ->
            IF Len(rx) < total THEN s
            ELSE IF checksum(SubSeq(raw, 2, total - 1)) # raw[total]
            THEN [rx |-> rest, d |-> [s.d EXCEPT !.checksumErrors = @ + 1]]
            ELSE [rx |-> rest, d |-> decodeFrame(s.d, raw)]

(* Mutant of ParseStep: a frame whose end has not come yet is none.        *)
ParseStepImpatient(s) ==
  IF /\ Len(s.rx) >= 5 /\ s.rx[1] = SOF /\ s.rx[4] <= MAX_PAYLOAD
     /\ Len(s.rx) < 5 + s.rx[4]
  THEN skipByte(s) ELSE ParseFrame(s)

(* Mutant of ParseStep: after a bad checksum everything read is given up.  *)
ParseStepGivesUp(s) ==
  IF /\ Len(s.rx) >= 5 /\ s.rx[1] = SOF /\ s.rx[4] <= MAX_PAYLOAD
     /\ Len(s.rx) >= 5 + s.rx[4]
     /\ checksum(SubSeq(s.rx, 2, 4 + s.rx[4])) # s.rx[5 + s.rx[4]]
  THEN [rx |-> <<>>, d |-> [s.d EXCEPT !.checksumErrors = @ + 1]] ELSE ParseFrame(s)

ParseStep(s) == ParseFrame(s)

parseAvailableFrames(bytes, d) ==
  LET loop[n \in 0 .. Len(bytes)] ==
        IF n = 0 THEN [rx |-> bytes, d |-> d] ELSE ParseStep(loop[n - 1])
      done == loop[Len(bytes)]
  IN [done EXCEPT !.d = requestRender(@, "counters")]

-----------------------------------------------------------------------------
VARIABLES
  frames,     \* what the FPGA had to say: each with its bytes, their place in
              \* the stream, and whether it set out whole, hurt or not at all
  stream,     \* the bytes it sent
  taken,      \* how many of them the viewer has read
  base,       \* how many it had read when it was last cleared
  rx,         \* state.rx
  store,      \* the collected data (its field ask is empty between events)
  behind,     \* the panels whose data changed since they were last drawn
  paused, pending, scheduled,   \* state.paused, state.render
  callbacks,  \* flushRender calls the browser still owes
  clears

vars == <<frames, stream, taken, base, rx, store, behind, paused, pending, scheduled,
          callbacks, clears>>

(* What a panel is drawn from.                                             *)
Content(d, panel) ==
  CASE panel = "counters" -> <<d.frames, d.checksumErrors, d.syncDrops, d.unknownFrames>>
    [] panel = "log" -> d.logs
    [] panel = "watch" -> d.watches
    [] panel = "events" -> d.events
    [] panel = "status" -> d.status
    [] panel = "trace" -> <<d.spans, d.openSpans, d.marks, d.latestValues, d.drops>>
    [] panel = "monitor" -> d.monitor
    [] panel = "profiler" -> d.profiler
    [] panel = "logic_analyzer" -> d.la

Changed(d) == {p \in Panels : Content(d, p) # Content(store, p)}

Init ==
  /\ frames = <<>> /\ stream = <<>> /\ taken = 0 /\ base = 0 /\ rx = <<>>
  /\ store = EmptyStore
  /\ behind = {}
  /\ paused = FALSE /\ pending = {} /\ scheduled = FALSE /\ callbacks = 0 /\ clears = 0

viewerVars == <<taken, base, rx, store, behind, paused, pending, scheduled, callbacks, clears>>

(* The FPGA's clock starts near its end, so that time starts again.        *)
Now == (61 + Len(frames)) % 64
Entry(kind, key, raw, fate) ==
  [kind |-> kind, key |-> key, ts |-> Now, raw |-> raw, start |-> Len(stream), fate |-> fate]

(* The spans of one operation begin and end in turn.                       *)
InSpan(key) ==
  LET marks == {i \in 1 .. Len(frames) :
                  frames[i].key = key /\ frames[i].kind \in {"span_begin", "span_end"}}
  IN marks # {} /\ LET last == CHOOSE i \in marks : \A j \in marks : j <= i
                    IN frames[last].kind = "span_begin"
InTurn(kind, key) ==
  /\ kind = "span_begin" => ~InSpan(key)
  /\ kind = "span_end" => InSpan(key)

(* The bytes of a frame after the line lost one of them, or changed one.   *)
Hurt(raw) ==
  UNION {{SubSeq(raw, 1, i - 1) \o SubSeq(raw, i + 1, Len(raw)),
          [raw EXCEPT ![i] = SOF], [raw EXCEPT ![i] = MAX_PAYLOAD]} : i \in 1 .. Len(raw)}

Count(P(_)) == Cardinality({i \in 1 .. Len(frames) : P(frames[i])})
HurtCount == Count(LAMBDA f : f.fate = "hurt")
SkippedCount == Count(LAMBDA f : f.fate = "skipped")
OddCount == clears + Count(LAMBDA f : f.fate = "hurt" \/ f.kind \notin Usual)

(* A frame as the FPGA makes it: after a time and a key an argument that   *)
(* may look like the start of a frame; or no payload at all.               *)
RawFrames(kind, key) ==
  IF kind \in Usual THEN {frame(Type[kind], <<Now, key, arg>>) : arg \in Args}
  ELSE {frame(Type[kind], <<Now, key, SOF>>), frame(Type[kind], <<>>)}

(* There is room for another frame: a long line holds usual frames only,   *)
(* none of which looks like a start.                                       *)
LooksLikeStart(raw) == \E i \in 2 .. Len(raw) : raw[i] = SOF
LongLine ==
  /\ taken = 0 /\ clears = 0
  /\ \A i \in 1 .. Len(frames) :
       /\ frames[i].kind \in Usual /\ frames[i].fate # "skipped"
       /\ ~LooksLikeStart(frames[i].raw)
Room == Len(frames) + OddCount < IF LongLine THEN MaxLong ELSE MaxFrames

Send ==
  /\ Room
  /\ \E kind \in Catalog, key \in Keys :
       /\ InTurn(kind, key)
       /\ kind \notin Usual => OddCount < MaxOdd
       /\ \E raw \in RawFrames(kind, key) :
            \/ /\ stream' = stream \o raw
               /\ frames' = Append(frames, Entry(kind, key, raw, "whole"))
            \/ /\ kind \in Usual /\ OddCount < MaxOdd
               /\ \E bytes \in Hurt(raw) \ {raw} : stream' = stream \o bytes
               /\ frames' = Append(frames, Entry(kind, key, raw, "hurt"))
  /\ UNCHANGED viewerVars

(* The record queue was full: the event happened, no frame tells of it.    *)
Skip ==
  /\ Len(frames) + OddCount < MaxFrames /\ SkippedCount < MaxSkipped
  /\ \E kind \in Usual, key \in Keys :
       /\ InTurn(kind, key)
       /\ frames' = Append(frames, Entry(kind, key, <<>>, "skipped"))
  /\ UNCHANGED <<stream, viewerVars>>

(* Mutant of Requested: a call is owed for every request.                  *)
RequestedEach(panels) ==
  IF paused \/ panels = {} THEN UNCHANGED <<pending, scheduled, callbacks>>
  ELSE /\ pending' = pending \cup panels
       /\ scheduled' = TRUE
       /\ callbacks' = callbacks + 1

(* Requests of redrawing, all made within one event.                       *)
Requested(panels) ==
  IF paused \/ panels = {} THEN UNCHANGED <<pending, scheduled, callbacks>>
  ELSE /\ pending' = pending \cup panels
       /\ scheduled' = TRUE
       /\ callbacks' = IF scheduled THEN callbacks ELSE callbacks + 1

(* A chunk arrives: appendRxBytes, parseAvailableFrames.                   *)
appendRxBytes(bytes) == rx \o bytes
Receive(n) ==
  /\ LET bytes == SubSeq(stream, taken + 1, taken + n)
         parsed == parseAvailableFrames(appendRxBytes(bytes), store)
     IN /\ rx' = parsed.rx
        /\ store' = [parsed.d EXCEPT !.ask = {}]
        /\ Requested(parsed.d.ask)
        /\ behind' = behind \cup Changed(parsed.d)
  /\ taken' = taken + n
  /\ UNCHANGED <<frames, stream, base, paused, clears>>

(* The browser calls flushRender back.                                     *)
flushRender ==
  /\ callbacks > 0
  /\ callbacks' = callbacks - 1
  /\ pending' = {} /\ scheduled' = FALSE
  /\ behind' = behind \ pending
  /\ UNCHANGED <<frames, stream, taken, base, rx, store, paused, clears>>

(* Mutant of setPaused: nothing is drawn when the viewer goes on.          *)
setPausedLazy(p) ==
  /\ paused' = p
  /\ UNCHANGED <<frames, stream, taken, base, rx, store, behind, pending, scheduled,
                 callbacks, clears>>

setPaused(p) ==
  /\ paused' = p
  /\ behind' = IF p THEN behind ELSE {}           \* renderAll
  /\ UNCHANGED <<frames, stream, taken, base, rx, store, pending, scheduled, callbacks, clears>>

clearAll ==
  /\ clears < MaxClears /\ OddCount < MaxOdd /\ clears' = clears + 1
  /\ rx' = <<>> /\ store' = EmptyStore
  /\ pending' = {} /\ scheduled' = FALSE
  /\ behind' = {}                                \* renderAll
  /\ base' = taken
  /\ UNCHANGED <<frames, stream, taken, paused, callbacks>>

Next ==
  \/ Send
  \/ Skip
  \/ \E n \in Chunks : taken + n < Len(stream) /\ Receive(n)
  \/ taken < Len(stream) /\ Receive(Len(stream) - taken)
  \/ flushRender
  \/ setPaused(~paused)
  \/ clearAll

Spec == Init /\ [][Next]_vars

-----------------------------------------------------------------------------
(* Every variable holds a value of its kind, and what is drawn later is    *)
(* remembered: panels to draw exist only while a call is owed.             *)
TypeOK ==
  /\ rx \in Seq(ByteRange) /\ stream \in Seq(ByteRange)
  /\ base \in 0 .. taken /\ taken \in 0 .. Len(stream)
  /\ DOMAIN store = DOMAIN EmptyStore /\ store.ask = {}
  /\ behind \subseteq Panels /\ pending \subseteq Panels
  /\ paused \in BOOLEAN /\ scheduled \in BOOLEAN
  /\ callbacks \in 0 .. MaxClears + 1 /\ clears \in 0 .. MaxClears

(* However the bytes were cut into chunks, the viewer has collected what   *)
(* it would have collected had they come at once, and has kept the same    *)
(* bytes for later (appendRxBytes, parseAvailableFrames).                  *)
ChunkingInvisible ==
  LET once == parseAvailableFrames(SubSeq(stream, base + 1, taken), EmptyStore)
  IN rx = once.rx /\ store = [once.d EXCEPT !.ask = {}]

(* Once the line is silent for as long as the longest frame, of the frames *)
(* that went out whole none is missing unless some were hurt: not even if  *)
(* a payload holds the mark that starts a frame.  As long as no payload    *)
(* looks like a start, what a hurt frame takes with it is near: whatever   *)
(* is missing began before the longest frame that can begin with the last  *)
(* byte of a hurt one ends (parseAvailableFrames drops the byte that is no *)
(* start, but the whole length that a frame with a bad checksum claims).   *)
Decoded ==
  LET silence == [i \in 1 .. 5 + MAX_PAYLOAD |-> 0]
      d == parseAvailableFrames(rx \o silence, store).d
  IN {d.seen[i] : i \in 1 .. Len(d.seen)}
Due(f) == f.fate = "whole" /\ f.start >= base /\ f.start + Len(f.raw) <= taken
LossBounded ==
  LET ours == {frames[i] : i \in 1 .. Len(frames)}
      lost == {f \in ours : Due(f) /\ f.raw \notin Decoded}
  IN /\ (HurtCount = 0 /\ clears = 0) => lost = {}
     /\ (\A f \in ours : ~LooksLikeStart(f.raw))
          => \A f \in lost : \E h \in ours :
               /\ h.fate = "hurt" /\ h.start < f.start
               /\ f.start < h.start + Len(h.raw) + 4 + MAX_PAYLOAD

(* A span that the viewer shows with a duration runs from the last begin   *)
(* that reached it to the next end, and took as long as it shows, even     *)
(* over the end of the clock.  If it joins the begin of one execution with *)
(* the end of another, then everything of that operation in between was    *)
(* lost on the way (beginTraceSpan, endTraceSpan).                         *)
At(ts) == CHOOSE i \in 1 .. Len(frames) : frames[i].ts = ts
SpansJoinNeighbours ==
  \A n \in 1 .. Len(store.spans) :
    LET s == store.spans[n]
        b == At(s.start)
        e == At(s.end)
    IN ~s.orphan =>
         /\ b < e /\ frames[b].key = s.key /\ frames[e].key = s.key
         /\ s.duration = e - b
         /\ \A i \in b + 1 .. e - 1 :
              frames[i].key = s.key /\ frames[i].kind \in {"span_begin", "span_end"}
                => ~\E m \in 1 .. Len(store.seen) : store.seen[m] = frames[i].raw

(* A panel shows the data as they are, or it is about to be drawn, or the  *)
(* viewer is paused; but the logic analyzer's panel misses a header until  *)
(* the next of its frames (requestRender, flushRender, renderAll,          *)
(* clearAll, setPaused).                                                   *)
HeaderNotDrawn(d) ==
  LET ofLa == {m \in 1 .. Len(d.seen) :
                 d.seen[m][2] = VERSION /\ d.seen[m][3] \in {Type[k] : k \in LaKinds}}
  IN \E m \in ofLa : /\ \A n \in ofLa : n <= m
                    /\ d.seen[m][3] = Type.la_header /\ Fits("la_header", d.seen[m][4])
ScreenFresh ==
  \A p \in behind :
    \/ paused
    \/ p \in pending /\ callbacks > 0
    \/ p = "logic_analyzer" /\ HeaderNotDrawn(store)
=============================================================================
