----------------------------- MODULE DebugCore -----------------------------
(***************************************************************************)
(* The debug core (yifpga_debug_core.v): messages of five classes compete  *)
(* for one queue, and a packetizer turns the queue into the byte stream    *)
(* that goes to the UART or to the JTAG mailbox.                           *)
(*                                                                         *)
(*   - the monitor adapter holds its response until it is taken;           *)
(*   - the legacy inputs (event, watch, print, heartbeat, status) are      *)
(*     pulses: what is not taken in its cycle is lost, and counted;        *)
(*   - trace pulses go through the one-entry register of the trace adapter *)
(*     (yifpga_trace_adapter.v), which loses and counts them;              *)
(*   - the logic analyzer and the profiler hold their messages.            *)
(*                                                                         *)
(* A step is one edge of the core's clock.  The byte taken by the UART or  *)
(* by the mailbox is the input `ready'.                                    *)
(***************************************************************************)
EXTENDS Integers, Sequences, FiniteSets

CONSTANTS
  Depth,         \* entries of the queue (2^BUFFER_ADDR_WIDTH)
  CountMod,      \* the counters are modulo this (2^16)
  HeaderBytes,   \* bytes of a frame before its payload (4)
  PayloadBytes,  \* bytes of a payload
  Legacy,        \* the legacy inputs in use
  TraceInputs,   \* the trace inputs in use
  Holders,       \* those of "monitor", "la", "profiler" in use
  MaxAtOnce,     \* bound on the inputs that come in one cycle
  MaxPackets,    \* no new input once packet_count is here
  MaxDrops       \* no new pulse once drop_count is here

LegacyOrder == <<"event", "watch", "print", "heartbeat", "status">>
StreamOrder == <<"trace", "la", "profiler">>

Elements(order) == {order[i] : i \in DOMAIN order}

ASSUME CoreAssumption ==
  /\ Depth \in Nat /\ Depth > 2
  /\ CountMod \in Nat /\ CountMod > 0
  /\ {HeaderBytes, PayloadBytes, MaxAtOnce, MaxPackets, MaxDrops} \subseteq Nat
  /\ Legacy \subseteq Elements(LegacyOrder)
  /\ TraceInputs \subseteq {"span_begin", "span_end", "mark", "value", "drop"}
  /\ Holders \subseteq {"monitor", "la", "profiler"}

VARIABLES
  offered,                      \* the Holders whose msg_valid is high
  trace_msg_valid,              \* the register of the trace adapter
  mem, wr_ptr, rd_ptr, count,   \* the queue
  packetizer,                   \* its state, the latched message, byte_index
  out,                          \* the output register: a byte or NoByte
  packet_count, drop_count
VARIABLES                       \* history variables
  receiver,   \* what the far end is in the middle of, and frames it has
  balance,    \* messages handed to the core minus messages queued
  doubled     \* two trace pulses once came in one cycle

queue == <<mem, wr_ptr, rd_ptr, count>>
counters == <<packet_count, drop_count>>
history == <<receiver, balance, doubled>>
vars == <<offered, trace_msg_valid, queue, packetizer, out, counters, history>>

(* A message as far as it matters here: its kind, and the packet_count     *)
(* that a status message reports.                                          *)
Kinds == Elements(LegacyOrder) \union Elements(StreamOrder) \union {"monitor"}
Message == [kind : Kinds, packets : 0 .. CountMod - 1]
NoMessage == [kind |-> "none", packets |-> 0]
NoByte == [message |-> NoMessage, index |-> -1]

First(order, candidates) ==
  order[CHOOSE i \in DOMAIN order :
          /\ order[i] \in candidates
          /\ \A j \in 1 .. i - 1 : order[j] \notin candidates]

Plus(n, d) == (n + d) % CountMod

One(condition) == IF condition THEN 1 ELSE 0

-----------------------------------------------------------------------------
(***************************************************************************)
(* The combinational logic of one cycle.                                   *)
(***************************************************************************)
fifo_rd_valid == count > 0

packetizer_ready == packetizer.state = "IDLE" /\ out = NoByte

do_read == fifo_rd_valid /\ packetizer_ready

(* Mutant of fifo_wr_ready: the queue takes one entry too many.            *)
fifo_wr_ready_full == count <= Depth \/ do_read

fifo_wr_ready == count < Depth \/ do_read

(* Mutant of stream_wr_ready: one entry of headroom.                       *)
stream_wr_ready_one == fifo_wr_ready /\ count < Depth - 1

stream_wr_ready == fifo_wr_ready /\ count < Depth - 2

monitor_msg_valid == "monitor" \in offered

streams_waiting ==
  (offered \ {"monitor"}) \union IF trace_msg_valid THEN {"trace"} ELSE {}

(* What the priority chain presents to the queue.                          *)
fifo_wr_type(legacy) ==
  CASE monitor_msg_valid -> "monitor"
    [] ~monitor_msg_valid /\ legacy # {} -> First(LegacyOrder, legacy)
    [] ~monitor_msg_valid /\ legacy = {} /\ stream_wr_ready /\ streams_waiting # {} ->
         First(StreamOrder, streams_waiting)
    [] OTHER -> "none"

packet_accepted(legacy) == fifo_wr_type(legacy) # "none" /\ fifo_wr_ready

legacy_packet_accepted(legacy) ==
  packet_accepted(legacy) /\ ~monitor_msg_valid /\ legacy # {}

trace_msg_ready(legacy) == stream_wr_ready /\ ~monitor_msg_valid /\ legacy = {}

(* Mutant of msg_ready: a holder is let go though trace goes first.        *)
msg_ready_ahead(holder, legacy) ==
  IF holder = "monitor" THEN fifo_wr_ready ELSE trace_msg_ready(legacy)

(* The ready of each holder, which the core computes apart from the        *)
(* priority chain.                                                         *)
msg_ready(holder, legacy) ==
  CASE holder = "monitor" -> fifo_wr_ready
    [] holder = "la" -> trace_msg_ready(legacy) /\ ~trace_msg_valid
    [] holder = "profiler" ->
         trace_msg_ready(legacy) /\ ~trace_msg_valid /\ "la" \notin offered

core_drop_increment(legacy) ==
  Cardinality(legacy) - One(legacy_packet_accepted(legacy))

trace_dropped(legacy, trace) ==
  \/ Cardinality(trace) > 1
  \/ trace # {} /\ trace_msg_valid /\ ~trace_msg_ready(legacy)

-----------------------------------------------------------------------------
(***************************************************************************)
(* The registers.                                                          *)
(***************************************************************************)
message_of(kind) ==
  [kind |-> kind, packets |-> IF kind = "status" THEN packet_count ELSE 0]

Enqueue(legacy) ==
  LET do_write == packet_accepted(legacy) IN
  /\ mem' = IF do_write
            THEN [mem EXCEPT ![wr_ptr] = message_of(fifo_wr_type(legacy))] ELSE mem
  /\ wr_ptr' = (wr_ptr + One(do_write)) % Depth
  /\ rd_ptr' = (rd_ptr + One(do_read)) % Depth
  /\ count' = count + One(do_write) - One(do_read)

(* Mutant of Count: the packets of the streams are not counted.            *)
CountWithoutStreams(legacy, trace) ==
  /\ packet_count' = Plus(packet_count,
       One(packet_accepted(legacy) /\ (monitor_msg_valid \/ legacy # {})))
  /\ drop_count' = Plus(drop_count,
                     core_drop_increment(legacy) + One(trace_dropped(legacy, trace)))

Count(legacy, trace) ==
  /\ packet_count' = Plus(packet_count, One(packet_accepted(legacy)))
  /\ drop_count' = Plus(drop_count,
                     core_drop_increment(legacy) + One(trace_dropped(legacy, trace)))

TraceAdapter(legacy, trace) ==
  trace_msg_valid' =
    (trace # {} \/ (trace_msg_valid /\ ~trace_msg_ready(legacy)))

LastIndex == HeaderBytes + PayloadBytes

(* Mutant of Packetize: a byte that is not taken is overwritten.           *)
PacketizeAnyway(ready) ==
  \/ /\ do_read
     /\ packetizer' = [state |-> "SEND", latched |-> mem[rd_ptr], byte_index |-> 0]
     /\ UNCHANGED out
  \/ /\ packetizer.state = "IDLE" /\ ~do_read
     /\ out' = IF ready THEN NoByte ELSE out
     /\ UNCHANGED packetizer
  \/ /\ packetizer.state = "SEND"
     /\ out' = [message |-> packetizer.latched, index |-> packetizer.byte_index]
     /\ packetizer' =
          IF packetizer.byte_index = LastIndex
          THEN [packetizer EXCEPT !.state = "IDLE", !.byte_index = 0]
          ELSE [packetizer EXCEPT !.byte_index = @ + 1]

Packetize(ready) ==
  \/ /\ do_read
     /\ packetizer' = [state |-> "SEND", latched |-> mem[rd_ptr], byte_index |-> 0]
     /\ UNCHANGED out
  \/ /\ packetizer.state = "IDLE" /\ ~do_read
     /\ out' = IF ready THEN NoByte ELSE out
     /\ UNCHANGED packetizer
  \/ /\ packetizer.state = "SEND" /\ (out = NoByte \/ ready)
     /\ out' = [message |-> packetizer.latched, index |-> packetizer.byte_index]
     /\ packetizer' =
          IF packetizer.byte_index = LastIndex
          THEN [packetizer EXCEPT !.state = "IDLE", !.byte_index = 0]
          ELSE [packetizer EXCEPT !.byte_index = @ + 1]
  \/ /\ packetizer.state = "SEND" /\ out # NoByte /\ ~ready
     /\ UNCHANGED <<packetizer, out>>

(* The adapters: a message that is taken is gone, and new ones may come.   *)
HoldersNext(legacy, new) ==
  offered' = {h \in offered : ~msg_ready(h, legacy)} \union new

-----------------------------------------------------------------------------
(***************************************************************************)
(* History: the far end follows the byte stream; the balance counts what   *)
(* was handed over, by a pulse or by a handshake, and what was queued.     *)
(***************************************************************************)
Observe(legacy, trace, ready) ==
  /\ receiver' =
       IF out # NoByte /\ ready
       THEN IF out.index = LastIndex
            THEN [message |-> NoMessage, next |-> 0, frames |-> Plus(receiver.frames, 1)]
            ELSE [receiver EXCEPT !.message = out.message, !.next = out.index + 1]
       ELSE receiver
  /\ balance' = Plus(balance, Cardinality(legacy) + Cardinality(trace)
                  + Cardinality({h \in offered : msg_ready(h, legacy)})
                  - (count' - count + One(do_read)))
  /\ doubled' = (doubled \/ Cardinality(trace) > 1)

Cycle(legacy, trace, ready, new) ==
  /\ Enqueue(legacy)
  /\ Count(legacy, trace)
  /\ TraceAdapter(legacy, trace)
  /\ Packetize(ready)
  /\ HoldersNext(legacy, new)
  /\ Observe(legacy, trace, ready)

Tick(ready) ==
  \E legacy \in SUBSET Legacy, trace \in SUBSET TraceInputs, new \in SUBSET Holders :
    /\ Cardinality(legacy) + Cardinality(trace) + Cardinality(new) <= MaxAtOnce
    /\ packet_count >= MaxPackets => legacy = {} /\ trace = {} /\ new = {}
    /\ drop_count >= MaxDrops => legacy = {} /\ trace = {}
    /\ Cycle(legacy, trace, ready, new)

Init ==
  /\ offered = {}
  /\ trace_msg_valid = FALSE
  /\ mem = [slot \in 0 .. Depth - 1 |-> NoMessage]
  /\ wr_ptr = 0 /\ rd_ptr = 0 /\ count = 0
  /\ packetizer = [state |-> "IDLE", latched |-> NoMessage, byte_index |-> 0]
  /\ out = NoByte
  /\ packet_count = 0 /\ drop_count = 0
  /\ receiver = [message |-> NoMessage, next |-> 0, frames |-> 0]
  /\ balance = 0
  /\ doubled = FALSE

NoByteTaken == Tick(FALSE)

ByteTaken == out # NoByte /\ Tick(TRUE)

(* rst: the core and the adapters start again; a frame may be cut short.   *)
(* The memory keeps its contents, which no one reads any more: the model   *)
(* forgets them.                                                           *)
Reset ==
  /\ mem' = [slot \in 0 .. Depth - 1 |-> NoMessage]
  /\ offered' = {}
  /\ trace_msg_valid' = FALSE
  /\ wr_ptr' = 0 /\ rd_ptr' = 0 /\ count' = 0
  /\ packetizer' = [state |-> "IDLE", latched |-> NoMessage, byte_index |-> 0]
  /\ out' = NoByte
  /\ packet_count' = 0 /\ drop_count' = 0
  /\ receiver' = [message |-> NoMessage, next |-> 0, frames |-> 0]
  /\ balance' = 0
  /\ doubled' = FALSE

Next == NoByteTaken \/ ByteTaken \/ Reset

(* The clock runs, and the byte that waits is taken in the end.            *)
Fairness == WF_vars(NoByteTaken \/ ByteTaken) /\ WF_vars(ByteTaken)

Spec == Init /\ [][Next]_vars /\ Fairness

-----------------------------------------------------------------------------
Queued(k) == mem[(rd_ptr + k - 1) % Depth]

sending == packetizer.state = "SEND" \/ out # NoByte

TypeOK ==
  /\ offered \subseteq Holders
  /\ trace_msg_valid \in BOOLEAN
  /\ mem \in [0 .. Depth - 1 -> Message \union {NoMessage}]
  /\ {wr_ptr, rd_ptr} \subseteq 0 .. Depth - 1
  /\ count \in 0 .. Depth
  /\ wr_ptr = (rd_ptr + count) % Depth
  /\ packetizer \in [state : {"IDLE", "SEND"}, latched : Message \union {NoMessage},
                     byte_index : 0 .. LastIndex]
  /\ out \in [message : Message, index : 0 .. LastIndex] \union {NoByte}
  /\ {packet_count, drop_count, receiver.frames, balance} \subseteq 0 .. CountMod - 1
  /\ receiver.next \in 0 .. LastIndex
  /\ doubled \in BOOLEAN

(* "Handshake-aware streams stop two entries before full": however the     *)
(* queue filled up, its last two entries are never held by a stream, so a  *)
(* monitor response and a legacy pulse find room after any burst of them.  *)
HeadroomKept ==
  \A k \in Depth - 1 .. count : Queued(k).kind \notin Elements(StreamOrder)

(* The packet_count in a status frame is the number of frames that come    *)
(* before it in the stream, so the host can tell whether it lost any.      *)
StatusTellsPosition ==
  /\ sending /\ packetizer.latched.kind = "status" =>
       packetizer.latched.packets = receiver.frames
  /\ \A k \in 1 .. count :
       Queued(k).kind = "status" =>
         Queued(k).packets = Plus(receiver.frames, One(sending) + k - 1)

(* The far end always sees the next byte of the frame it is in: frames are *)
(* whole, unmixed and without a repeated byte, whatever back-pressure.     *)
FramesWhole ==
  out # NoByte =>
    /\ out.index = receiver.next
    /\ receiver.next > 0 => out.message = receiver.message

(* Every message is either queued, waiting in the trace adapter or counted *)
(* in drop_count.  Where two trace pulses once came in the same cycle the  *)
(* count may be too small, but the loss is never silent nor overstated.    *)
lost == Plus(balance, -One(trace_msg_valid))

LossesCounted ==
  IF doubled THEN 0 < drop_count /\ drop_count <= lost ELSE drop_count = lost

-----------------------------------------------------------------------------
(* "LA readout ... is prioritized ahead of continuous Trace/Profiler       *)
(* traffic so a user-requested capture cannot starve."                     *)
LaServed == "la" \in offered ~> "la" \notin offered
=============================================================================
