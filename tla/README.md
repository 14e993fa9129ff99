# A TLA+ model of YiFPGA Studio

YiFPGA Studio puts a debug core into an FPGA design and shows what it reports in
a web page.  The core merges logs, events, traces, profiler metrics, logic-analyzer
captures and register responses into one stream of framed bytes.  The stream
leaves by a UART or by a JTAG mailbox that a host program (the bridge) drains over
USB; commands come back by UART.  This directory models the parts of it in which
concurrency, failure and arithmetic at the edges matter, checks them with TLC, and
proves the safety of all of them with TLAPS, for any values of their parameters: of the
byte ring between two clocks and the link that drains it, of the debug core, the logic
analyzer and the register path, and of the viewer from its connections and its parser to
the screen, its requests and its AI reports.  All 36 invariants that the passing runs
check are proved, two of them only while the line hurts no frame, and two while a counter
has not wrapped (section 5).

Paths: `RTL/` is `src/rtl/yifpga_debug/`, `board` is
`src/rtl/board/yifpga_debug_board_demo.v`, `JTAG/` is `src/tools/jtag/`, `app.js`
is `src/tools/viewer/web/app.js`.

## 1. The system

```
 probes, inputs --> adapters --> DEBUG CORE --+--> UART TX ----------------> VIEWER
 registers     <-- COMMAND PATH <-------------|--- UART RX <---------------- (app.js)
                                              +--> BYTE RING (debug clk | TCK)
                                                     |  mailbox header, commit
                                                   COMMAND ENGINE on USER2
                                                     |  TAP, FTDI, USB
                                                   BRIDGE pump --> client queues --> VIEWER
```

| Component | State | Operations | What is hard | What makes it correct |
|---|---|---|---|---|
| JTAG byte ring, `RTL/yifpga_jtag_ring_buffer.sv` | two memories' pointers, Gray synchronizers, u32 counters, drop counter, prefetched byte | write or drop; read, commit, abort; reset | two unrelated clocks; a commit moves the Gray pointer by a whole block | nothing unread is overwritten, an abort gives everything back, counters and content agree |
| Mailbox contract, `JTAG/mailbox_model.py` | the reference model of the ring | write, begin_read, commit, reset | | the ring implements it |
| Command engine, header and transport, `RTL/yifpga_jtag_user_dr.sv`, `_mailbox.sv`, `_transport.sv` | shift counters, pending response, snapshot | capture, shift, update of request and response | a scan may stop at any bit; the strobes act one TCK late | commits are whole blocks; the header is a true snapshot |
| FTDI scanner and backend, `JTAG/ftdi_mpsse.py`, `ftdi_backend.py` | expected counter, pending block | open, read_header, read_block, commit, close | USB fails between any two edges | blocks belong to the header they were read for |
| Bridge pump, `JTAG/yifpga_jtag_bridge.py` | connection, back-off | start, pump_once, pump, reconnect_once | retry after a failure in mid-transaction, a kill and a new start | in order, at most once, bounded loss, stuck only where an operator is needed |
| Bridge clients and records, same file and `bridge_protocol.py` | one bounded queue per client | broadcast, disconnect, hello, status | slow clients, close during a broadcast | a client sees a gap-free prefix or is disconnected |
| Debug core, `RTL/yifpga_debug_core.v`, `_ring_buffer.v`, `_packetizer.v`, `yifpga_trace_adapter.v` | queue, trace register, packetizer, counters | admit one of ten sources per cycle, send a byte | everything at once, with a full queue | frames whole, order kept, losses counted, head-room for urgent messages |
| Logic analyzer, `RTL/yifpga_la_core.v`, `_trigger.v`, `_adapter.v` | circular memory, trigger, readout | arm, trigger, force, stop, clear, readout | commands in any cycle, back-pressure, wrap | the capture is the right window, read out unchanged, to the end |
| Command path and monitor, `RTL/yifpga_debug_command_parser.v`, `yifpga_monitor_*.v` | parser, request, register bank, response, message | parse, read, write, respond | lost bytes, four registers under back-pressure | one response per request, no command that was not sent, no flag lost |
| Profiler and trace probes, `RTL/yifpga_profiler_*.v`, `yifpga_trace_*_probe.v` | window counters, snapshot, alerts | add, snapshot, clear | a clear one cycle after the snapshot | every metric belongs to one window |
| Viewer: parser and data, `app.js` | receive buffer, lists and maps of collected data, rendering requests | receive, resynchronise, decode, draw, pause, clear | lost and damaged bytes, chunks cut anywhere, drawing done later | shows what was sent, loses little, no panel stays behind |
| Viewer: connection, `app.js` | port, reader, read loop, socket, what is shown | connect, read, disconnect, records of the bridge | four asynchronous procedures and two buttons | what is shown is so, sessions are kept apart by their labels |
| Viewer: requests, `app.js` | pending table, queue of writes, settings | read, write, apply, expire, poll, clear | late, lost and refused answers, numbers used again | an answer settles its own request, no setting fails silently |
| Viewer: AI Debug, `ai_debug_model.js`, `ai_provider.js`, `diagnostic_*.js`, `diagnosis_validator.js` | snapshot, findings, diagnosis, status, the run of a provider | run local, ask, cancel, change scope, clear | results that arrive when what they are about is gone | one report is about one snapshot |
| Presentation, exports, scripts, router, test source | | | | not modelled, see section 7 |

Components meet in four places: `valid`/`ready` handshakes on one clock (adapters,
core, packetizer, mailbox), the two-clock ring, the TAP (the host's TMS sequence is
the engine's schedule), and the bridge's queues.  The models follow these seams:
`DebugCore` ends at the byte handshake, `JtagRing` begins there, `JtagLink` uses the
`Mailbox` that `JtagRing` implements, `LogicAnalyzer` ends at the message handshake
of `DebugCore` (and takes up again in the viewer, with messages lost in between).
`Viewer` begins where frames enter the line and ends at the screen, `Transports` is
how its bytes get in, `Requests` is its way back to the registers, `Monitor` is that
way in the FPGA, from the bytes to the message it hands to `DebugCore`, and `AiDebug`
works on what the viewer has collected.

## 2. Modules

| Module | Models | A step is |
|---|---|---|
| `Mailbox` | the abstract promise: a bounded FIFO with transactions, drop-newest and counters | a byte, a commit, an abort |
| `JtagRing` | every register of the ring in both clock domains | an edge of either clock, or of both |
| `GrayCode` | `bin_to_gray`, `gray_to_bin` | (functions) |
| `MCJtagRing` | a ring of four bytes with the real Gray table | |
| `JtagLink` | engine, TAP, scanner, backend and pump over the `Mailbox` | a TCK edge, a host call, a write, a failure, a reset |
| `DebugCore` | admission, queue, packetizer, trace register, counters | an edge of the debug clock |
| `LogicAnalyzer`, `MCLogicAnalyzer` | capture core, trigger, readout adapter, registers, the viewer's captures | an edge of the debug clock |
| `RegisterFile` | the abstract promise of the register path: one request at a time, at once, answered in order | a clock edge |
| `Monitor`, `MCMonitor` | command parser, request, register bank, monitor core, adapter | an edge of the debug clock, or a frame sent |
| `MonitorClient` | the viewer's record of monitor requests, used by `Viewer` and `Requests` | (operators) |
| `Viewer` | framing, parser, decoders, collected data, rendering | an event of the page: a chunk, a callback, a button; or a frame sent |
| `Transports` | serial port, read loop, WebSocket, bridge records, Connect and Disconnect | what runs between two awaits |
| `Requests` | numbers, queue, register bank, answers, timer, the analyzer's settings | what runs between two awaits, or a message |
| `AiDebug` | snapshot, rules, context, controller, validator, panel | what runs between two awaits |
| `JtagRingProofs`, `JtagLinkProofs`, `DebugCoreProofs`, `LogicAnalyzerProofs`, `MonitorProofs`, `ViewerProofs`, `RequestsProofs`, `AiDebugProofs` | the theorems about the module each is named after (section 5); `ViewerProofs` is also about `Transports` | |

How state and actions correspond to the code:

* **JtagRing.**  Variables carry the names of the registers.  A Gray register is
  represented by the pointer its code stands for, and `Sampled(old, new)` is the
  set of pointers whose code takes each bit from the old or the new one: the
  possible outcomes of capturing a bus while it changes.  `WriteDomain` is the
  writer's `always` block (`Accept`, `Drop`, `NoWrite`), `ReadDomain` the reader's
  (`ReadByte`, `Commit`, `Abort`, `NoRead`), and both contain the synchronizers
  and the memory port, which run at every edge.  A byte is the value of
  `write_count` when it was accepted, so order and identity can be checked.
  `block` (what the transaction took), `seen1`, `seen2` (what each synchronizer
  stage was captured from) and `aborted` are history variables.
* **JtagLink.**  `dr` holds the engine's registers; its shift register is
  represented by the scan the host is making, and a request counts only when all
  its bits arrived.  The host's half is a small program (`host.pc`) with one action
  per call of the pump; `ScanEdge` is one TCK edge of the scan in progress.
  `UsbFails` may strike between any two edges, and so may `Kill`: TCK rests, the TAP
  stays where it is, and what the host had not read is lost.  A failure of the running
  pump leads to `Reconnect`; one in `start()` (`host.starting`), which is called outside
  any try (`yifpga_jtag_bridge.py`:58, 270), ends the process, and somebody has to
  `Restart` it.  A scanner's constructor that fails after `ftdi_usb_open` may leave the
  device claimed (`ftdi_mpsse.py`:63): then only `ReopenFails` is possible until the
  process is gone or the operator pulls the cable (`Replug`).  `FpgaReset` resets the
  FPGA and nothing on the host.  The board ties `session_id` to a constant
  (`board`:797), so the host cannot use the label that the model puts on a header.
  When the header read of `reconnect_once` itself fails, the code polls the open device
  once more before it reconnects; the model goes on to the reconnect at once.
* **DebugCore.**  `fifo_wr_ready`, `stream_wr_ready`, `trace_msg_ready`,
  `msg_ready`, `fifo_wr_type` and `packet_accepted` are the combinational signals
  of these names; `Cycle` applies one edge to queue, trace register, packetizer
  and counters together, as the non-blocking assignments do.  Messages are kinds;
  a status message also carries the `packet_count` it was built with.
* **LogicAnalyzer.**  `CoreEdge` has one action per branch of the core's state
  machine (`Clear`, `Arm`, `Stop`, `ForceTrigger`, `ArmedSample`,
  `CapturingSample`, `Readout`, `CoreRests`), `AdapterEdge` one per state of the
  adapter; both read the registers as they are before the edge.  `RegBank` is one
  register write of the host, with the checks the bank makes.  A sample is the bit
  of the trigger channel.  `truth` records, when a capture finishes, the samples
  that were taken; `unsettled` the captures whose header left too early.
* **Monitor.**  `Edge` applies one clock edge to parser, request, bank, core and
  adapter together (`ParserEdge`, `BankEdge`, `CoreEdge`, `AdapterEdge`), each from
  the registers as they are before it, with a byte that arrives or not, a debug core
  that is ready or not and a flag that the hardware raises or not.  Bytes and words
  are sets of bits, so checksum, lengths, masks and addresses are the real ones.
  `Send` puts a frame on the line, whole or hurt.  A byte may arrive at every edge;
  the UART is slower, which only leaves behaviours out.  `sent`, `accepted` and
  `blocked` are history variables.
* **Viewer.**  `store` is the collected part of `state`, `rx` is `state.rx`, and
  the decoders are operators from a store to a store with the names of the code's
  functions.  A byte is below 64 and a field of a payload is one byte, so that the
  frames the FPGA sends have 5 to 8 bytes; `MAX_PAYLOAD` is the code's 32, and a hurt
  length byte can claim all of it.  The type codes and the byte that starts a frame are
  the model's own, the checks on version, type, length and checksum are the code's.
  `Args` is what the last field of a usual frame holds: 0, or the byte that looks like
  a start.  `Send` puts a frame on the line, whole or hurt (a byte lost, or
  changed into a start byte or a length); `Skip` is a record the FPGA's queue had
  no room for.  `Receive` is one chunk with the whole of `parseAvailableFrames`.
  Rendering is a request (`requestRender`), a callback that the browser owes, and
  the panels in `behind`, whose data changed since they were drawn.
* **Transports.**  Init, Next, Spec and the type invariant carry the module's name, since
  `ViewerProofs` extends `Transports` and `Viewer` together.  `connect`, `readLoop` and `disconnect` are cut at their awaits;
  `connecting`, `loop` and `closing` say where each is.  The `SerialPort` and the
  `WebSocket` are external and modelled from how the code uses them: a port that
  is not closed cannot be opened, one whose stream is locked by a write cannot be
  closed, a socket says that it is closed some time after it was.  `FpgaReset` starts a
  session of bytes and tells nobody; `label` is the `session_id` in the headers of each
  session, and `Relabels` says whether a reset may bring a new one, as the mailbox model
  does and the board does not.  `BridgeSends` is `pump_once`: SESSION only if the label
  is another than the one `known`, then a block or none.  `BridgeStarts` is a new
  bridge, which has read no header.  `trouble` records uses that the properties except.
* **Requests.**  `client` is the pending table with the queue of writes, `Send` the
  write at its head; the code that awaited it goes on in the same microtask, so
  `Continue` is part of `Send`.  `Respond` is the register bank with the checks it
  makes of capture and pretrigger depth.  `configs` holds the settings objects:
  Clear makes a new one while a call may still write the old.
* **AiDebug.**  The fields of `AIDebugModel.state` are variables.  A local analysis
  is in `builds` while its snapshot is hashed, with whether the state it began with
  is still the panel's; `run` is the controller's run.  A provider answers anything
  the context holds, something it does not hold, or nothing readable.  `BuildFails` is a
  snapshot that cannot be hashed: without `crypto.subtle`, or with a number that is not
  finite (`diagnostic_snapshot.js`:52, 36).  `muddled` and `disturbed` record what the
  properties except.

## 3. Runs

| Run | Config | Question | Result |
|---|---|---|---|
| `ring` | `MCJtagRing.cfg` | Is the ring safe under every interleaving of its clocks, and does it keep the mailbox's promise? | holds |
| `link` | `JtagLink.cfg` | Do bytes reach the clients in order, once, with bounded loss, whatever fails, and is the ring drained unless an operator is needed? | holds |
| `link_short_read` | `JtagLinkShort.cfg` | Has a committed block reached the host? | no (finding 1) |
| `core` | `DebugCore.cfg` | Are frames whole, losses counted, urgent messages let in? | holds |
| `core_la_starves` | `DebugCoreLa.cfg` | Is a logic-analyzer readout safe from starvation by trace? | no (finding 2) |
| `la` | `LogicAnalyzer.cfg` | Is a capture the right window and does the viewer show it as it was? | holds |
| `la_hang` | `LogicAnalyzerHang.cfg` | Does a readout end? | no (finding 3) |
| `monitor` | `MCMonitor.cfg` | Is every command that arrived carried out once and in order, and answered as a register file would? | holds, with an exception |
| `viewer` | `Viewer.cfg` | Does the viewer collect what was sent, however it is cut, hurt or thinned out, and show it? | holds |
| `transports` | `Transports.cfg` | Is what is shown of the connection so, and are sessions kept apart? | holds, with exceptions |
| `requests` | `Requests.cfg` | Does an answer settle its own request, is a setting applied or reported? | holds, with exceptions |
| `ai` | `AiDebug.cfg` | Do snapshot, findings and diagnosis of a report belong together, and is the status true? | holds, with exceptions |

The properties are stated beside the specification they belong to, each with a
comment.  The ones worth arguing about:

* `PointersInOrder` (ring): seen from the oldest read pointer still in the writer's
  synchronizer, all pointers stand in order within one lap, though a synchronizer
  may show a pointer that never existed.
* `ImplementsMailbox`: the ring refines `Mailbox`, with `unread` read out of the
  memory and `visible` the reader's `available_bytes`.
* `WholeBlocksCommitted`, `DeliveredInOrder`, `LossBounded` (link): a scan cut off
  at any bit, and the TAP reset of the reconnect that follows, never commit half a
  block; a failure loses at most the block in flight, and nothing comes twice.  A reset
  inside a payload scan lets the host pass on garbage, zeros where TDO fell silent: one
  block for a reset at most, because the next header shows that the counters went back.
* `RingDrains` (link): in the end the ring is empty and the host connected, or it is left
  to an operator for ever, because the process ended or the device is claimed.  There is
  no third way to get stuck.
* `HeaderStillTrue`: header and block are two commands, and what the header said still
  holds at the block; the host's consistency checks fire only after an FPGA reset.
* `StatusTellsPosition` (core): the count in a status frame is its position in the
  stream although it was computed at admission.
* `LossesCounted`: the balance of messages handed in and queued is
  exactly `drop_count`, unless two trace pulses shared a cycle; then the count is
  too low but not zero.
* `CaptureIsWindow`, `ReadoutExact`, `CompleteIsExact` (logic analyzer): from the
  circular memory to the viewer's `complete`, under stop, clear, re-arm, rewritten
  depth, lost messages and repeated readout.
* `CommandsCarriedOut` (monitor): what the bank takes is what the host sent, each at
  most once and in order.  Missing are frames that were hurt, frames of which a byte
  came while a request waited for the bank (it is dropped without a mark), and at most
  three more for each hurt frame: a length of 32 swallows 27 bytes of what follows,
  which ends in the third frame of ten.  The run reaches all three.
* `ImplementsRegisterFile`: under any back-pressure the pipeline refines
  `RegisterFile`: every answer has its own request's header, and a flag that is raised
  in the cycle in which it is cleared stays.
* `ChunkingInvisible` (viewer): store and buffer are a function of the bytes that
  came, not of the chunks they came in.
* `LossBounded` (viewer): without hurt frames nothing is missing, even if payloads
  hold the start byte; where no payload does, whatever else is missing is near a hurt
  frame: it began within the 37 bytes that the longest frame has, counted from the last
  byte of the hurt one.  A length changed to 32 takes the whole of it: in the long lines
  of the run, seven frames of 8 bytes that are all sent before any is read, it takes up
  to four whole frames along, and those after them must arrive.
* `SpansJoinNeighbours`: a span that is shown with a duration joins the last begin
  and the first end that arrived, over the wrap of the clock.
* `ScreenFresh`: a panel is up to date, about to be drawn, or paused; over Clear,
  pause and callbacks left behind.
* `ShownIsSo`, `SessionsNotJoined` (transports): one source of bytes while Connected
  is shown and none, with a port that can be opened again, while it is not; half a
  frame of one session is never completed by the next, if their labels differ.
* `AnswerIsOwn`, `ConfigAppliedOrReported` (requests): also with late answers after a
  timeout, lost answers, refused settings and two mixed calls of Apply.
* `ReportBelongsTogether`, `StatusTold` (AI Debug): at every await, with every button, and
  with local analyses that fail.

The viewer's modules and `Monitor` state their properties with the cases in which the code does
not keep them named in the property.  Each exception is needed: without it the run
shows the case.

| Property | Except | What happens then |
|---|---|---|
| `CommandsCarriedOut` | a byte within a frame looks like a start, and frames were hurt or came too early | the parser, set down in the middle of that frame, takes its data for a frame and whole frames after it along (`command_parser.v`:79) |
| `ScreenFresh` | a capture's header was the analyzer's last frame | `decodeLogicAnalyzerHeader` asks for the counters only (`app.js`:852) |
| `ShownIsSo`, `SessionsNotJoined` | Connect while an earlier connection is not over | the old socket's close event drops the new one (`app.js`:2411); two sources feed one buffer |
| `ShownIsSo` | an error on the line | the loop ends and Disconnect is disabled, the port stays open (`app.js`:2426) |
| `ShownIsSo` | Disconnect during a monitor write | `close()` is refused, the port stays open (`app.js`:2446) |
| `SessionsNotJoined` | both sessions have the same label | nothing tells of the reset, the half frame is continued (`yifpga_jtag_bridge.py`:174) |
| `AnswerIsOwn` | Clear, or all numbers used in between | the number of an old request is taken again (`app.js`:2746, 1091) |
| `ConfigAppliedOrReported` | Clear, or a number taken while it is pending | the entry that would have expired is gone |
| `ReportBelongsTogether` | scope changed during the hash; local analysis during a provider's run; a snapshot with two equal records | an old part is shown beside a new one (`ai_debug_model.js`:30, 43, `diagnostic_rules.js`:84) |
| `StatusTold` | another analysis asked for during a run | the aborted run's `stale` disables Cancel while the new run goes on (`ai_debug_model.js`:42) |
| `StatusTold` | the last local analysis under way has failed | nobody catches it, the status stays at building the snapshot (`diagnostic_snapshot.js`:36, 52) |

### Bounds

| Run | Bounds | Why they are enough |
|---|---|---|
| ring | 4 bytes, 3-bit pointers, counters modulo 16, drop counter saturating at 1 | `ADDR_WIDTH` 2 is the smallest the code allows; pointers and counters wrap many times, a commit can move several Gray bits; the proofs cover every depth |
| link | 3-byte mailbox, 2-byte blocks, 2-bit bytes and requests, 1-byte header, 3 bytes, 2 failures or kills, 1 reset | a block that is full, one that is not, a second transaction after each failure, a failure or a kill during the recovery from a failure, at every TCK edge; a claimed device, and a process that ended, with and without help |
| core | 4 entries, frames of 2 bytes (a header byte and the checksum), heartbeat and status pulses, two trace inputs, monitor and logic analyzer; 2 new inputs at once, 6 frames, 1 drop before inputs stop | the queue fills, both reserved entries are used, every pair of classes competes; the frame is the shortest that has a first and a last byte |
| la | 3 samples of memory, 2 per message, edge triggers with divisors 1 and 2, pretrigger, auto_readout; 4 register writes, 1 lost message | the memory wraps before the trigger, the last chunk is short, four writes make arm, readout, clear and arm again |
| monitor | 6 frames, a read usually; 2 of them writes or refused, or 1 of the reads hurt (any byte lost, or changed into the start byte or the length 32); 1 edge with a raised flag | four answers fill message, response, bank and request, the fifth frame is dropped in any of its bytes and the sixth must find the parser again; every kind of register, then a read or write after it |
| viewer | 4 frames of 20 kinds (spans are usual; one frame that is hurt or of another kind, or a Clear, which costs one frame), 2 records lost before they are frames, chunks of 6 bytes or all that is there, lists of 1 or 2, payloads of 3 bytes below 64, time of 64 ticks wrapping after three frames | frames of 5 to 8 bytes: a chunk of 6 ends at every position of a frame; a hurt frame has frames before and after it that the parser must not lose; every kind meets an open span, a full list and a pending drawing |
| viewer, long lines | 7 frames of 8 bytes, 1 of them hurt, all sent before the viewer reads, no Clear and nothing skipped (`MaxLong`, `LongLine`) | a hurt frame can claim 37 bytes: the four frames after it, and the seventh must arrive |
| transports | 3 clicks on Connect, 1 reset of the FPGA with or without a new label, any number of new bridges, 2 records on the way | a connection, its successor and a third that meets the remains of both; the new label is told by SESSION, by HELLO or not at all |
| requests | 4 requests, 3 numbers, 2 calls of Apply with two registers each, 1 Clear, 1 fault, expiry after 2 rounds | the numbers wrap; two calls mix at every await; a late answer meets the next request; a refused depth makes the next one refused or accepted |
| ai | 2 records of 3 kinds (one is equal to another, one is severe, one is about the quality of the data), 2 local analyses at once, each of which may fail, budget of 2, time modulo 4 | every pair of buttons at every await; the budget lets one finding in and keeps another out; the clock wraps between two records |

In the violation runs the bounds are only as large as the counterexample needs.
Deadlock is checked in all of them: a clock always has a next edge, and a page a
button.

### Fairness

* `JtagLink`: weak fairness of `HostStep` (the pump is a loop that never returns
  while the bridge runs, `yifpga_jtag_bridge.py`:203) and strong fairness of an
  edge at which the ring's synchronizers have settled (`SettledEdge`): TCK edges
  keep coming as long as the host scans, and a pointer that no longer moves is
  seen after two of them.  Nothing is assumed of writes, failures, kills or resets,
  which are bounded, nor of `Restart` and `Replug`: an operator may never come, which is
  what the second disjunct of `RingDrains` says.  `ReopenFails` is a step of the host, so
  that fairness of `HostStep` does not make a claimed device free.
* `DebugCore`: the clock runs, and a byte that waits is taken in the end (the UART
  sends at its rate; the mailbox never holds a byte, it drops).
* `LogicAnalyzer`: the clock runs, and a message that waits is taken in the end.
  Finding 2 says that the core does not even guarantee this much; finding 3 needs
  nothing more than that it is taken late.
* The modules of the viewer state no fairness: nothing in the page makes the user
  click, the line speak or a provider answer, and their properties are safety.

## 4. Findings

1. `yifpga_jtag_user_dr.sv`:99.  The hardware commits at UPDATE-DR; a USB read that
   fails after it loses the block, silently, where the design note promises that a
   short read is not committed.
2. `yifpga_debug_core.v`:144.  Trace is ahead of the logic analyzer in the priority
   chain; one trace pulse per frame starves a readout, where the manual promises the
   opposite.
3. `yifpga_la_adapter.v`:159.  The last sample of a chunk is used only if the message
   register is free in the single cycle in which the sample is there.  Otherwise the
   adapter waits for ever.  The board's queue of 64 entries hides this while it can
   take a whole readout.

Met on the way and listed as hazards: `rd_gray` is loaded with the code of the
committed pointer (`yifpga_jtag_ring_buffer.sv`:161), several bits change at once, and
the writer may see a pointer that never existed, so that a byte is dropped although
the ring has room; the error is always on this side, that the writer never overwrites
is proved (`PointersInOrder`); a header that waits while the host clears and
arms again describes the capture under way, and the viewer then calls a part of it
complete (`CompleteIsExact` excepts these by `unsettled`; without the exception run
`la` shows the case); `auto_readout` reads the same capture over and over, because
the end of a readout is a rising edge of `done`; chunks lost at the end of a capture
are not counted as missing; two trace pulses in a cycle count as one loss; in the
cycle after an abort the ring offers the byte of the abandoned position, where the
engine never looks (`RingContract`, `WaitAfterAbort`); and, besides the other exceptions of
the table in section 3:

* `ftdi_mpsse.py`:63.  The scanner's constructor claims the device and then configures it;
  if that fails, nothing closes the device, and every reconnect of the bridge fails until
  the process or the cable is restarted (`doc/V1_RELEASE_CHECKLIST.md`:94 expects the data
  flow to recover).  `RingDrains` leaves this to the operator.
* `yifpga_jtag_bridge.py`:165.  An FPGA reset in the middle of a payload scan makes TDO
  zero, and the block of zeros is delivered before the next header shows the reset, where
  the design note (:81) has the host discard what is in flight.  `LossBounded` bounds it.
* `yifpga_jtag_bridge.py`:174.  The bridge tells of a reset only if `session_id` changed,
  and the board ties it to 1: after a reset the viewer completes half a frame of before
  with bytes of after, where the design note (:37, :80) promises a new `session_id` and a
  discarded half frame.  `SessionsNotJoined` speaks of labels for this reason.
* `app.js`:2446.  Disconnect during a monitor write is refused by the port and stops there;
  the port stays open, where the manual (`YiFPGA_Web_Viewer_使用说明.md`:130) has it closed.
* `ai_debug_model.js`:61.  A local analysis, a request without consent or the end of an
  aborted run overwrites the status, and Cancel is disabled during a run, where the manual
  (`YiFPGA_AI_Debug_使用说明.md`:12) says that a running request can be cancelled.
* `ai_debug_model.js`:50.  A report names the snapshot that is there; its findings or its
  diagnosis may be about the one before (the same manual, :30, has them refer to it).
* `diagnostic_snapshot.js`:36, 52.  A snapshot that cannot be hashed leaves the AI panel's
  status at building it, with nothing under way.

## 5. Proofs

The theorems hold for every value of the constants that meets the assumption of the
module: any depth, width, block length, number of writes, failures, resets or lost
messages.  Each assumption gives the ranges of the constants and no more, except
`GrayAssumption` (below) and `SpansAssumption` of `Viewer`: the record of a span is always
sent in full, since the FPGA's trace record has no short form.  Six theorems have a
hypothesis, which the statement names.

| Theorem | Says |
|---|---|
| **`JtagRingProofs`** | |
| `TypeCorrect` | registers stay in their ranges |
| `OrderKept`, `CountersCorrect`, `NothingOverwritten`, `OfferedByteCorrect` | `PointersInOrder`, `CountersAgree`, `UncommittedKept`, `NextByteReady` |
| `DropsInOrder` | the action property `DropsReportedInOrder` |
| `RingIsMailbox` | `ImplementsMailbox`, if `WaitAfterAbort` |
| **`JtagLinkProofs`** | |
| `TypeCorrect`, `EngineKeepsContract` | `TypeOK`, `RingContract` |
| `HeadersStayTrue`, `CommitsAreWhole`, `LossIsBounded` | `HeaderStillTrue`, `WholeBlocksCommitted`, `LossBounded` |
| `DeliveriesInOrder` | `DeliveredInOrder`, if `NoWrap` |
| **`DebugCoreProofs`** | |
| `TypeCorrect`, `FramesAreWhole`, `HeadroomAlwaysKept`, `StatusIsExact` | `TypeOK`, `FramesWhole`, `HeadroomKept`, `StatusTellsPosition` |
| `LossesAreExact` | `LossesExact`: without two trace pulses in a cycle the count is exact modulo its width |
| `LossesAreCounted` | `LossesCounted`, if `NoWrap` |
| **`LogicAnalyzerProofs`** | |
| `TypeCorrect`, `CapturesAreWindows`, `ReadoutsAreExact`, `CompleteCapturesAreExact` | `TypeOK`, `CaptureIsWindow`, `ReadoutExact`, `CompleteIsExact` |
| **`MonitorProofs`** | |
| `TypeCorrect`, `RegisterFileImplemented` | `TypeOK`, `ImplementsRegisterFile` |
| `WholeFramesCarriedOut` | `CommandsCarriedOut`, while no frame was hurt |
| **`ViewerProofs`** | |
| `TransportsTypeCorrect`, `SessionsKeptApart`, `ShownAsItIs` | of `Transports`: `TransportsTypeOK`, `SessionsNotJoined`, `ShownIsSo` |
| `RelabelledKeptApart` | of `Transports`: `ResetDiscardsHalf`, if every reset brings a new label |
| `ViewerTypeCorrect`, `ScreenIsFresh` | of `Viewer`: `TypeOK`, `ScreenFresh` |
| `ChunksLeaveNoTrace`, `LossIsSmall` | `ChunkingInvisible`, `LossBounded` |
| `SpansAreNeighbours` | `SpansJoinNeighbours`, while no frame was hurt and at most 64 were sent |
| **`RequestsProofs`** | |
| `TypeCorrect`, `AnswersSettleTheirOwn`, `SettingsArrive` | `TypeOK`, `AnswerIsOwn`, `ConfigAppliedOrReported` |
| **`AiDebugProofs`** | |
| `TypeCorrect`, `ReportsBelongTogether`, `StatusIsTold` | `TypeOK`, `ReportBelongsTogether`, `StatusTold` |

### The hypotheses

* `WaitAfterAbort` (`RingIsMailbox`) is a constant of `JtagRing`: the reader leaves the
  cycle after an abort idle.  Without it the ring does not keep the mailbox's promise.
  It is what the command engine does, which `EngineKeepsContract` proves of the link.
* `NoWrap` of `JtagLinkProofs`: a session writes fewer bytes than its counters can tell
  apart (`MaxBytes < CountMod`; in the code 2^32).  `DeliveredInOrder` compares the
  places of bytes in the stream, and they are counter values.
* `NoWrap` of `DebugCoreProofs`: `drop_count` (16 bits, `yifpga_debug_core.v`:81) has not
  wrapped.  A balance that is a multiple of its modulus shows a count of zero;
  `LossesAreExact` is what remains without the hypothesis.
* `HurtCount = 0`, `Orderly` and `Len(sent) < Numbers` (`WholeFramesCarriedOut`): the line
  lost and changed no byte, no byte within a frame looks like a start if a frame was
  dropped at the parser, and the 16 bits of a number tell the frames apart.  Requests may
  still come too early and be dropped.  What a hurt frame takes along is only
  model-checked.
* `Relabels \subseteq {TRUE}` (`RelabelledKeptApart`): the FPGA keeps the promise that a
  reset changes `session_id`.  The board does not, the mailbox model does.
  `SessionsKeptApart` needs no hypothesis and says what remains with either.
* `HurtCount = 0` and `Len(frames) <= 64` (`SpansAreNeighbours`): the clock of the model has
  64 ticks, one for each frame, and as long as it has not gone round a time names one
  event.  Frames may be skipped and the viewer cleared at any time, also within a frame.

The runs satisfy the first three; in `monitor` and `viewer` the line also hurts frames,
and in `transports` a reset may keep the label.

### The inductive invariants

**Ring.**  `RingAssumption` gives the ranges of the constants (the counters must hold
more than two laps).  `GrayAssumption` is all that is used of the Gray code: codes are
distinct, neighbours differ in one bit, half a turn inverts the top two bits.
TLC evaluates both for the table that `GrayCode` computes for the checked ring.
The assumption is about a table, not about the recursive definition of the code:
that `bin_to_gray` yields such a table for every width is arithmetic on bits, which
is checked for the table used and not proved.

The invariant is `RingInv == OrderInv /\ CountersAgree /\ UncommittedKept
/\ NextByteReady` with `OrderInv == TypeOK /\ PointersInOrder /\ SamplesExplained`.
`SamplesExplained` is the strengthening: the writer's two synchronizer stages hold
some bitwise mix of the codes of two read pointers, `seen.old` and `seen.new`, that
the register really had before and after one edge.  `full` can then be false only
if the writer is less than a lap ahead of the *older* of the two: a mix of two codes
within a lap that differs from the full code in no bit would force both to do so in
the top two bits (`FullMeansHalfTurn`, `SampledAdvance`).  The order of the pointers
follows action by action (`WriterStaysInLap`, `ReaderStaysInOrder`), and the content
of the memory from the order (`WriterStores`, `ReaderCounts`, `ReaderFetches`).
For the refinement `BlockMeasured` adds that the working pointer is ahead of the
committed one by the length of the block; every edge of one clock is then a step of
`Mailbox` or leaves it alone, and an edge of both is its `Exchange` or `Transfer`.

**Link.**  The proof has three layers.  `Base` is about the FPGA and the host's place
in its program: which strobes go with which TAP state, how many bits of a scan the
engine has counted, what a failure and a reset leave behind.  `Trust`, on top of it,
follows one answer from the mailbox to the host: the response in the engine, the part
of it shifted out (`ScanInv`, `PayloadInv`), the snapshot, and what the host expects
next (`ExpectedInv`, `BlockInv`); as long as no reset came between, each agrees with the ring's
counters.  A cut-off scan commits nothing since a request counts with its last bit,
and the block in flight is the one between the committed and the working pointer.
`LossInv` then pairs each byte that is missing with the failure or the reset that
cost it, and `OrderInv` says that the delivered bytes, then the block in flight, then
the ring's content are the session's bytes in order.  `ClaimInv` says that a claimed
device keeps a pump that runs between two attempts to reconnect.  `JunkInv`, for the
garbage: each session is the first from which the next header can come, so that the block
before it is the only one that can hold garbage.

**Debug core.**  `CoreInv` relates the pointers to the count, the entry in the
packetizer to the bytes sent of it (`FrameInv`), and says that only real messages are
queued.  `StatusTellsPosition` needs `PacketsPlaced`, the place of every queued
message in the stream, modulo the counter's width.  The losses are a balance kept by
each case of the priority chain; where several trace pulses share a cycle, the count
is bounded from both sides (`LossesBounded`).

**Logic analyzer.**  `LaInv` has a part for each stage of a sample's way.  While a
capture runs, the places before the write pointer hold the last samples of the bus
(`Holds`, with the pointer arithmetic done once in `PtrsMove` and `PtrsRead`).
`TriggerInv` keeps the place of the trigger from the hit to the end, `KeptInv` says
that a finished capture shows its truth until another takes its number.  Core and
adapter are then reduced to what each sees of the other (`CoreGoes`, `AdapterGoes`).
`ReadInv` is the strengthening for the readout: the adapter asks one cycle and gets
the answer in the next, and between the two the host may clear or arm; what is asked
concerns the chunk's own capture or is not answered, and an answer is a sample of it
even where the core has meanwhile been armed again.  `MsgInv` and `ViewerInv` carry
that over the message register and into the holes of the viewer's capture.

**Monitor.**  Little is needed for the refinement beyond the kinds of values
(`KindsInv`): the abstract queue of answers is read out of response, core and message
message register in this order, and each edge is one of the five steps of `RegisterFile`.
`WholeFramesCarriedOut` needs `PathInv`.  `LineInv` says where the parser is: after `k`
bytes of a frame it is in the state `At(Raw, k)`, which every byte carries on (`AtGoes`)
and in which only the last one makes a request, the one that was sent (`AtEnds`); of a
frame that lost its first byte to a waiting request it takes nothing.  A request can wait
only while the parser is between frames.  `TakenInv` counts: each frame that is through
either made the next request or was dropped.

**Transports.**  `PhaseInv` says that, without one of the three kinds of trouble, the
page is in one of two worlds, serial or bridge, in each of which loop, reader, port,
sockets and what is shown are tied together at every await.  `SessionInv` is about
labels: the records on their way to a socket name, in this order, the labels that the
bridge has read since the one the viewer knows, and the half frame in the buffer has a
label that is still the viewer's.  `Relabelled` adds that no two sessions have the same.

**Viewer.**  The decoders are reduced to what they leave alone: `Does` says that a decoder
counts the frame, asks only for panels it may ask for and changes only what these are
drawn from, and it is proved for each of the twenty kinds.  The loop of
`parseAvailableFrames` is a recursive function; everything else speaks of `Iter`, its
rounds one by one, and an induction over the rounds is made with a set of numbers
(`NatSetInduction`, from the well-foundedness of `<`), which needs no operator parameter.
A round either takes bytes from the front or rests, and once it rests it does so for ever,
so the bound on the rounds does not matter.

* `ScreenIsFresh` needs `ScreenInv`: a call of `flushRender` is owed while a drawing is
  scheduled, panels are pending only then, and each Clear leaves one call behind at most
  (`Owed`).  What changes without being asked for can only be the logic analyzer's panel
  after a header (`Shows`).
* `ChunksLeaveNoTrace` needs `ChunkInv`: buffer and store are, up to `ask`, those of one
  parse of all the bytes since the last Clear.  The step is that two parses of stores that
  differ in `ask` only go the same way (`Twins`), and that a parse of `a \o b` is the parse
  of what the parse of `a` left, followed by `b` (`ResultConcat`).
* `LossIsSmall` needs `StreamInv`: the frames fill the stream in order, without gaps, and
  each whole one stands there with a length and a checksum that agree.  The proof follows
  the parser over the bytes (`Walk`).  Without hurt frames it stops at the start of every
  frame (`Clean`).  With them, `Near` says of any place of the parser that every
  frame it passed without decoding it lies in the shadow of a hurt one (`Shadowed`): it
  began before the longest frame that starts with that one's last byte would end.  Within
  a frame that arrived whole the parser finds no start and goes on byte by byte
  (`NoMarkWithin`), so a jump beyond the start of a frame that is then lost began within
  a hurt one, and is no longer than a frame can be (`NearJump`).
* `SpansAreNeighbours` needs `MadeInv`, what the FPGA wrote into each frame, and `Recorded`,
  for any place of the parser: every frame it decoded went out whole before that place or
  is of a foreign version or type, an open span is the last begin that was decoded, and
  each closed one joins neighbours among what was decoded.  It is carried from round to
  round over the bytes (`RoundRecords`).  After a Clear the parser may start within a
  frame: from there it finds at most something foreign before it is back in step
  (`RoundFinds`), since what stands in a record of the FPGA is no beginning of another
  (`NoFalseStart`).

**AI Debug.**  `AiInv` adds to the two properties what holds at each await: `RunInv`, that
a provider works on the snapshot that is shown unless the page was muddled as the table in
section 3 says, and `ScopeInv`, that a local analysis which may still be shown is about the
scope the panel has.  The status can be left at building the snapshot only by the failure
of the last analysis under way, and the next one that begins takes the mark away.

### Only model-checked

* Liveness: `RingDrains`, the end of a readout (finding 3) and the starvation of one
  (finding 2).  Fairness and ENABLED are out of the prover's reach.
* `CommandsCarriedOut` when frames were hurt: that three requests are missing for each at
  most rests on how far a parser that lost its place reads on, from any place in any
  frame.  It is also not true of all data: in a write that is dropped at its first byte, an
  address byte changed to a5 and data that go on like a request make one that nobody
  sent.  `Orderly` looks at the bytes before they are changed, and no request of
  `MCMonitor` goes on like that.
* `SpansJoinNeighbours` when frames were hurt: true within the bounds of the run and not
  beyond, as with a Clear enough hurt bytes can make up a record that nobody sent.

## 6. Plan

1. `Monitor` composed with `Requests`, whose register bank it refines, and with the
   analyzer's depths, which the bank checks against each other at the write of one only.
2. `Profiler`: probes, pending slots, window counters and snapshots; run: each metric
   in exactly one window.
3. `Bridge`: broadcast, client queues, disconnect, close (`Transports` has only the records
   HELLO, SESSION and DATA of it); run: a client receives a gap-free prefix; the end
   marker always fits.
4. `LogicAnalyzer`: the viewer's chunk accounting compared with the status message,
   and a divisor that is rewritten while the core runs.
5. Proofs: of the mailbox alone that bytes leave it in order, so that the ring's theorem
   carries it over; what a hurt frame takes along in `CommandsCarriedOut`.

## 7. Not modelled

The transport router is not instantiated by the board; the performance source is a
pattern generator.  The mock backend is the reference model itself and the Vivado
backend a pipe to an external program.  Of the viewer, drawing (waveforms, timelines,
tables, filters), exports and the verification of imported reports, redaction,
feedback, and the bridge's STATUS and ERROR records, which only change what is shown
of the bridge, are left out.  The rule `la.trigger_missing` asks for a field that no
snapshot has, and never fires.  A provider is assumed to end when it is aborted, as
the code's own do.  The scripts under `src/tools` and `src/prj` run once against
hardware and keep no state.  Inside the modelled parts of the hardware, payload
bytes, timestamps, probe packing, the bit timing of the UART and the contents of
`LA_STATUS` are left out.
