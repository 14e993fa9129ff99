--------------------------- MODULE LogicAnalyzer ---------------------------
(***************************************************************************)
(* The logic analyzer: the capture core (yifpga_la_core.v) with its        *)
(* trigger (yifpga_la_trigger.v), the adapter that reads a capture out     *)
(* (yifpga_la_adapter.v), the registers through which the host steers them *)
(* (yifpga_monitor_reg_bank.v), and the viewer that puts the capture       *)
(* together again (app.js).                                                *)
(*                                                                         *)
(* A step is one clock edge of the FPGA.  In a cycle the bus has a value,  *)
(* the host may write one register, and the debug core may take a message: *)
(* it reaches the viewer, or it is lost on the way.                        *)
(*                                                                         *)
(* A sample is the bit of the trigger channel.                             *)
(***************************************************************************)
EXTENDS Integers, Sequences, FiniteSets

CONSTANTS
  SampleDepth,      \* samples of the capture memory (128)
  SamplesPerChunk,  \* samples of a data message (5)
  Configs,          \* the configurations in use, of the set Config
  Commands,         \* the values written to LA_COMMAND: sets of its bits
  Rewritten,        \* the registers rewritten later on, of "enable", ...
  MaxWrites,        \* bound on the register writes of the host
  MaxLost           \* bound on the messages lost on their way to the viewer

Bit == 0 .. 1
Modes == {"disabled", "level", "rising", "falling", "mask_match"}

(* LA_CONTROL and the registers behind it.                                 *)
Config ==
  [enable : BOOLEAN, auto_readout : BOOLEAN, trigger_mode : Modes,
   sample_divisor : Nat \ {0}, capture_depth : 1 .. SampleDepth,
   pretrigger_depth : 0 .. SampleDepth - 1]

ASSUME LaAssumption ==
  /\ SampleDepth \in Nat \ {0}
  /\ SamplesPerChunk \in Nat \ {0}
  /\ \A c \in Configs : c \in Config
  /\ Commands \subseteq SUBSET {"arm", "stop", "clear", "force_trigger", "start_readout"}
  /\ Rewritten \subseteq {"enable", "capture_depth", "pretrigger_depth"}
  /\ {MaxWrites, MaxLost} \subseteq Nat

VARIABLES
  config, pulses,   \* the registers and the command pulses of this cycle
  core, buffer,     \* the capture core
  adapter, msg,     \* the readout adapter and its message register
  done_d,           \* la_done, one cycle ago
  viewer            \* what the viewer has of each capture
VARIABLES           \* history variables
  taken,            \* the last samples, from the bus at arming onwards
  truth,            \* the samples of each finished capture
  cause, before,    \* what ended the wait for the trigger; the sample before it
  unsettled,        \* captures whose header left before they were finished
  writes, lost      \* register writes and lost messages so far

fpga == <<config, pulses, core, buffer, adapter, msg, done_d>>
vars == <<fpga, viewer, taken, truth, cause, before, unsettled, writes, lost>>

NoMessage == [type |-> "none"]
Null == -1

-----------------------------------------------------------------------------
(***************************************************************************)
(* The capture core.                                                       *)
(***************************************************************************)
CoreReset ==
  [state |-> "IDLE", samples_written |-> 0, trigger_index |-> 0, capture_id |-> 0,
   overflow |-> FALSE, flags |-> {}, trigger_sample_value |-> 0, write_ptr |-> 0,
   div_count |-> 0, post_remaining |-> 0, read_start_ptr |-> 0,
   last_sample_value |-> 0, prev_sample |-> 0, read_sample |-> 0,
   read_valid |-> FALSE]

(* Mutant of inc_ptr: one place too many.                                  *)
inc_ptr_late(ptr) == IF ptr = SampleDepth THEN 0 ELSE ptr + 1

inc_ptr(ptr) == IF ptr = SampleDepth - 1 THEN 0 ELSE ptr + 1

add_ptr(base, offset) ==
  IF base + offset >= SampleDepth THEN base + offset - SampleDepth ELSE base + offset

(* Mutant of calc_start_ptr: no wrap below the start of the memory.        *)
calc_start_ptr_floor(ptr, count) == IF ptr >= count THEN ptr - count ELSE 0

calc_start_ptr(ptr, count) ==
  IF ptr >= count THEN ptr - count ELSE ptr + SampleDepth - count

config_bad ==
  \/ config.capture_depth = 0 \/ config.capture_depth > SampleDepth
  \/ config.pretrigger_depth >= config.capture_depth

sample_due == core.div_count = 0

active_capture == core.state \in {"ARMED", "CAPTURING"}

trigger_hit(sample) ==
  CASE config.trigger_mode \in {"level", "mask_match"} -> sample = 1
    [] config.trigger_mode = "rising" -> core.prev_sample = 0 /\ sample = 1
    [] config.trigger_mode = "falling" -> core.prev_sample = 1 /\ sample = 0
    [] OTHER -> FALSE

(* Mutant of reading: the state of the core is not looked at.              *)
reading_always ==
  adapter.core_read_req /\ adapter.core_read_index < core.samples_written

(* The read port answers.                                                  *)
reading ==
  /\ adapter.core_read_req
  /\ core.state \in {"DONE", "READOUT"}
  /\ adapter.core_read_index < core.samples_written

(* The sample divider, the trigger's memory and the read port run in every *)
(* state: this is the core with only these changed.                        *)
Running(sample) ==
  LET trigger_enabled == config.enable /\ core.state = "ARMED" IN
  [core EXCEPT
     !.div_count = IF active_capture /\ @ # config.sample_divisor - 1 THEN @ + 1 ELSE 0,
     !.prev_sample = IF ~trigger_enabled \/ sample_due THEN sample ELSE @,
     !.read_valid = reading,
     !.read_sample = IF reading
       THEN buffer[add_ptr(core.read_start_ptr, adapter.core_read_index)] ELSE @]

CoreCleared(sample) ==
  [CoreReset EXCEPT
     !.capture_id = core.capture_id,
     !.read_sample = core.read_sample,
     !.prev_sample = Running(sample).prev_sample]

Flags(forced, partial) ==
  {"VALID", "TRIGGERED"}
    \union (IF forced THEN {"FORCED"} ELSE {})
    \union (IF core.overflow THEN {"OVERFLOW"} ELSE {})
    \union (IF partial THEN {"PARTIAL"} ELSE {})

(* Clear, or LA_CONTROL.enable is low.                                     *)
Clear(sample) ==
  /\ "clear" \in pulses \/ ~config.enable
  /\ core' = CoreCleared(sample)
  /\ UNCHANGED <<buffer, taken, truth, cause, before>>

live == "clear" \notin pulses /\ config.enable

(* arm_pulse in a state that heeds it.                                     *)
Arm(sample) ==
  /\ live /\ "arm" \in pulses
  /\ \/ core.state = "IDLE"
     \/ core.state = "DONE" /\ ~adapter.core_start_readout_pulse
     \/ core.state = "ERROR" /\ ~config_bad
  /\ core' = IF config_bad
             THEN [Running(sample) EXCEPT !.state = "ERROR"]
             ELSE [Running(sample) EXCEPT
                     !.state = "ARMED", !.capture_id = @ + 1,
                     !.samples_written = 0, !.trigger_index = 0, !.overflow = FALSE,
                     !.flags = {}, !.write_ptr = 0, !.post_remaining = 0]
  /\ taken' = <<sample>>
  /\ cause' = "none"
  /\ UNCHANGED <<buffer, truth, before>>

(* A sample goes into the memory.                                          *)
Write(sample) ==
  /\ buffer' = [buffer EXCEPT ![core.write_ptr] = sample]
  /\ taken' = LET all == Append(taken, sample) IN
              IF Len(all) > SampleDepth THEN Tail(all) ELSE all

Window(samples, count) == SubSeq(samples, Len(samples) - count + 1, Len(samples))

(* The capture is finished: in the next cycle the core is DONE.            *)
Finished ==
  truth' = IF core'.state # "DONE" THEN truth
           ELSE [id \in DOMAIN truth \union {core.capture_id} |->
                   IF id = core.capture_id THEN Window(taken', core'.samples_written)
                   ELSE truth[id]]

(* stop_pulse, and the forced trigger that finds the capture full.         *)
finish_capture(sample, forced) ==
  [Running(sample) EXCEPT
     !.state = "DONE",
     !.read_start_ptr = calc_start_ptr(core.write_ptr, core.samples_written),
     !.flags = Flags(forced, core.samples_written < config.capture_depth)]

Stop(sample) ==
  /\ live /\ active_capture /\ "stop" \in pulses
  /\ core' = finish_capture(sample, core.state = "CAPTURING" /\ "FORCED" \in core.flags)
  /\ cause' = IF core.state = "ARMED" THEN "stop" ELSE cause
  /\ UNCHANGED <<buffer, taken, before>>
  /\ Finished

ForceTrigger(sample) ==
  /\ live /\ core.state = "ARMED" /\ "stop" \notin pulses /\ "force_trigger" \in pulses
  /\ LET written == core.samples_written
         full == written >= config.capture_depth
         next == IF full THEN finish_capture(sample, TRUE)
                 ELSE [Running(sample) EXCEPT
                         !.state = "CAPTURING",
                         !.post_remaining = config.capture_depth - written,
                         !.flags = {"FORCED"}]
     IN core' = [next EXCEPT
                   !.trigger_index = IF written = 0 THEN 0 ELSE written - 1,
                   !.trigger_sample_value =
                      IF written = 0 THEN sample ELSE core.last_sample_value]
  /\ cause' = "force"
  /\ UNCHANGED <<buffer, taken, before>>
  /\ Finished

(* A due sample while the core waits for its trigger.                      *)
ArmedSample(sample) ==
  /\ live /\ core.state = "ARMED" /\ pulses \intersect {"stop", "force_trigger"} = {}
  /\ sample_due
  /\ Write(sample)
  /\ LET written == core.samples_written
         running == [Running(sample) EXCEPT !.last_sample_value = sample,
                                            !.write_ptr = inc_ptr(@)]
         hit == [running EXCEPT !.trigger_index = written,
                                !.trigger_sample_value = sample,
                                !.samples_written = written + 1]
     IN
     \/ /\ trigger_hit(sample)
        /\ cause' = "hit"
        /\ before' = taken[Len(taken)]
        /\ core' =
             IF written + 1 >= config.capture_depth
             THEN [hit EXCEPT
                     !.state = "DONE",
                     !.read_start_ptr = calc_start_ptr(inc_ptr(core.write_ptr), written + 1),
                     !.flags = Flags(FALSE, FALSE)]
             ELSE [hit EXCEPT
                     !.state = "CAPTURING",
                     !.post_remaining = config.capture_depth - (written + 1)]
     \/ /\ ~trigger_hit(sample)
        /\ UNCHANGED <<cause, before>>
        /\ core' =
             IF written < config.pretrigger_depth
             THEN [running EXCEPT !.samples_written = written + 1]
             ELSE [running EXCEPT !.overflow = (@ \/ config.pretrigger_depth # 0)]
  /\ Finished

(* A due sample after the trigger.                                         *)
CapturingSample(sample) ==
  /\ live /\ core.state = "CAPTURING" /\ "stop" \notin pulses
  /\ sample_due /\ core.post_remaining # 0
  /\ Write(sample)
  /\ LET next == [Running(sample) EXCEPT !.last_sample_value = sample,
                                         !.write_ptr = inc_ptr(@),
                                         !.samples_written = @ + 1,
                                         !.post_remaining = @ - 1]
     IN core' =
          IF core.post_remaining # 1 THEN next
          ELSE [next EXCEPT
                  !.state = "DONE",
                  !.read_start_ptr =
                     calc_start_ptr(inc_ptr(core.write_ptr), core.samples_written + 1),
                  !.flags = Flags("FORCED" \in core.flags, FALSE)]
  /\ UNCHANGED <<cause, before>>
  /\ Finished

(* The adapter's pulses: DONE -> READOUT -> DONE.                          *)
Readout(sample) ==
  /\ live
  /\ \/ /\ core.state = "DONE" /\ adapter.core_start_readout_pulse
        /\ core' = [Running(sample) EXCEPT !.state = "READOUT"]
     \/ /\ core.state = "READOUT" /\ adapter.core_readout_done_pulse
        /\ core' = [Running(sample) EXCEPT !.state = "DONE"]
  /\ UNCHANGED <<buffer, taken, truth, cause, before>>

(* Any other cycle.                                                        *)
CoreRests(sample) ==
  /\ live
  /\ CASE core.state = "IDLE" -> "arm" \notin pulses
       [] core.state = "ERROR" -> "arm" \notin pulses \/ config_bad
       [] core.state = "DONE" -> "arm" \notin pulses /\ ~adapter.core_start_readout_pulse
       [] core.state = "READOUT" -> ~adapter.core_readout_done_pulse
       [] core.state = "ARMED" ->
            pulses \intersect {"stop", "force_trigger"} = {} /\ ~sample_due
       [] core.state = "CAPTURING" ->
            "stop" \notin pulses /\ ~(sample_due /\ core.post_remaining # 0)
  /\ core' = Running(sample)
  /\ UNCHANGED <<buffer, taken, truth, cause, before>>

CoreEdge(sample) ==
  \/ Clear(sample) \/ Arm(sample) \/ Stop(sample) \/ ForceTrigger(sample)
  \/ ArmedSample(sample) \/ CapturingSample(sample) \/ Readout(sample)
  \/ CoreRests(sample)

-----------------------------------------------------------------------------
(***************************************************************************)
(* The readout adapter.                                                    *)
(***************************************************************************)
AdapterReset ==
  [state |-> "IDLE", chunk_index |-> 0, sample_index |-> 0, chunks_total |-> 0,
   chunks_sent |-> 0, samples_in_chunk |-> 0, capture_id |-> 0, data_payload |-> <<>>,
   core_start_readout_pulse |-> FALSE, core_readout_done_pulse |-> FALSE,
   core_read_req |-> FALSE, core_read_index |-> 0]

(* LA_COMMAND.start_readout, or LA_CONTROL.auto_readout when the core      *)
(* becomes DONE.                                                           *)
start_readout_pulse ==
  \/ "start_readout" \in pulses
  \/ config.auto_readout /\ core.state = "DONE" /\ ~done_d

can_load_msg(ready) == msg = NoMessage \/ ready

(* The adapter with its pulses back at their defaults.                     *)
Calm == [adapter EXCEPT !.core_start_readout_pulse = FALSE,
                        !.core_readout_done_pulse = FALSE, !.core_read_req = FALSE]

(* The message register when nothing is loaded into it.                    *)
Drained(ready) == IF ready THEN NoMessage ELSE msg

StartReadout(ready) ==
  /\ adapter.state = "IDLE" /\ start_readout_pulse /\ core.state = "DONE"
  /\ adapter' = [Calm EXCEPT
       !.state = "HEADER", !.core_start_readout_pulse = TRUE,
       !.chunks_total = (core.samples_written + SamplesPerChunk - 1) \div SamplesPerChunk,
       !.chunk_index = 0, !.sample_index = 0, !.chunks_sent = 0]
  /\ msg' = Drained(ready)

(* The header tells what the core holds now, be it a finished capture or   *)
(* one the host has armed since the readout began.                         *)
SendHeader(ready) ==
  /\ adapter.state = "HEADER" /\ can_load_msg(ready)
  /\ msg' = [type |-> "header", capture_id |-> core.capture_id,
             sample_count |-> core.samples_written]
  /\ adapter' = [Calm EXCEPT !.state = IF "TRIGGERED" \in core.flags
                                       THEN "TRIGGER" ELSE "READ"]

SendTrigger(ready) ==
  /\ adapter.state = "TRIGGER" /\ can_load_msg(ready)
  /\ msg' = [type |-> "trigger", capture_id |-> core.capture_id]
  /\ adapter' = [Calm EXCEPT !.state = "READ"]

ReadChunk(ready) ==
  /\ adapter.state = "READ"
  /\ LET remaining == core.samples_written - adapter.sample_index IN
     adapter' = IF remaining <= 0 THEN [Calm EXCEPT !.state = "STATUS"]
                ELSE [Calm EXCEPT
                        !.state = "DATA",
                        !.samples_in_chunk =
                           IF remaining > SamplesPerChunk THEN SamplesPerChunk ELSE remaining,
                        !.capture_id = core.capture_id, !.data_payload = <<>>,
                        !.core_read_index = adapter.sample_index,
                        !.core_read_req = TRUE]
  /\ msg' = Drained(ready)

(* A sample arrives for one cycle; the last one of a chunk is sent with    *)
(* the chunk if the message register is free in just this cycle.           *)
ReadSample(ready) ==
  /\ adapter.state = "DATA" /\ core.read_valid
  /\ LET at == adapter.core_read_index - adapter.sample_index
         data == Append(SubSeq(adapter.data_payload, 1, at), core.read_sample)
         last == at + 1 >= adapter.samples_in_chunk
     IN
     \/ /\ ~last
        /\ adapter' = [Calm EXCEPT !.data_payload = data, !.core_read_index = @ + 1,
                                   !.core_read_req = TRUE]
        /\ msg' = Drained(ready)
     \/ /\ last /\ can_load_msg(ready)
        /\ msg' = [type |-> "data", capture_id |-> adapter.capture_id,
                   chunk_index |-> adapter.chunk_index,
                   first_sample_index |-> adapter.sample_index, samples |-> data]
        /\ adapter' = [Calm EXCEPT !.state = "READ", !.data_payload = data,
                                   !.sample_index = @ + adapter.samples_in_chunk,
                                   !.chunk_index = @ + 1, !.chunks_sent = @ + 1]
     \/ /\ last /\ ~can_load_msg(ready)
        /\ adapter' = [Calm EXCEPT !.data_payload = data]
        /\ UNCHANGED msg

SendStatus(ready) ==
  /\ adapter.state = "STATUS" /\ can_load_msg(ready)
  /\ msg' = [type |-> "status", capture_id |-> core.capture_id,
             chunks_sent |-> adapter.chunks_sent, chunks_total |-> adapter.chunks_total]
  /\ adapter' = [Calm EXCEPT !.state = "DONE"]

EndReadout(ready) ==
  /\ adapter.state = "DONE"
  /\ adapter' = [Calm EXCEPT !.state = "IDLE", !.core_readout_done_pulse = TRUE]
  /\ msg' = Drained(ready)

AdapterWaits(ready) ==
  /\ CASE adapter.state = "IDLE" -> ~(start_readout_pulse /\ core.state = "DONE")
       [] adapter.state \in {"HEADER", "TRIGGER", "STATUS"} -> ~can_load_msg(ready)
       [] adapter.state = "DATA" -> ~core.read_valid
       [] OTHER -> FALSE
  /\ adapter' = Calm
  /\ msg' = Drained(ready)

AdapterEdge(ready) ==
  \/ StartReadout(ready) \/ SendHeader(ready) \/ SendTrigger(ready)
  \/ ReadChunk(ready) \/ ReadSample(ready) \/ SendStatus(ready)
  \/ EndReadout(ready) \/ AdapterWaits(ready)

-----------------------------------------------------------------------------
(***************************************************************************)
(* The viewer: app.js keeps, per capture, the header, the samples with     *)
(* holes, the chunks it has seen and whether the capture is complete.      *)
(***************************************************************************)
laCapture == [header |-> Null, samples |-> <<>>, chunks |-> {}, complete |-> FALSE,
              missingChunks |-> 0]

CaptureOf(id) == IF id \in DOMAIN viewer THEN viewer[id] ELSE laCapture

Keep(id, capture) ==
  viewer' = [i \in DOMAIN viewer \union {id} |-> IF i = id THEN capture ELSE viewer[i]]

decodeHeader(m) ==
  Keep(m.capture_id,
    [CaptureOf(m.capture_id) EXCEPT
       !.header = m.sample_count,
       !.samples = [i \in 1 .. m.sample_count |-> Null],
       !.complete = FALSE])

(* Chunks that are skipped, or missing before the first one, are counted.  *)
Gap(chunks, chunk_index) ==
  LET previous == IF chunks = {} THEN -1 ELSE CHOOSE c \in chunks : \A d \in chunks : d <= c
  IN IF chunk_index > previous + 1 THEN chunk_index - previous - 1 ELSE 0

Filled(samples, first, values) ==
  [i \in 1 .. IF Len(samples) > first + Len(values)
              THEN Len(samples) ELSE first + Len(values) |->
     LET old == IF i <= Len(samples) THEN samples[i] ELSE Null IN
     IF i \in first + 1 .. first + Len(values) /\ old = Null
     THEN values[i - first] ELSE old]

(* Mutant of complete: a capture is complete with its last sample.         *)
complete_last(header, samples) ==
  header # Null /\ (header > 0 => samples[header] # Null)

complete(header, samples) ==
  header # Null /\ \A i \in 1 .. header : samples[i] # Null

decodeSampleData(m) ==
  LET c == CaptureOf(m.capture_id)
      samples == Filled(c.samples, m.first_sample_index, m.samples)
  IN IF m.chunk_index \in c.chunks THEN Keep(m.capture_id, c)
     ELSE Keep(m.capture_id,
            [c EXCEPT !.samples = samples,
                      !.chunks = @ \union {m.chunk_index},
                      !.missingChunks = @ + Gap(c.chunks, m.chunk_index),
                      !.complete = @ \/ complete(c.header, samples)])

Receive(m) ==
  CASE m.type = "header" -> decodeHeader(m)
    [] m.type = "data" -> decodeSampleData(m)
    [] m.type \in {"trigger", "status"} -> Keep(m.capture_id, CaptureOf(m.capture_id))

(* The debug core takes the message; the way to the viewer may lose it.    *)
Deliver(ready) ==
  \/ ready /\ Receive(msg) /\ UNCHANGED lost
  \/ ready /\ lost < MaxLost /\ lost' = lost + 1 /\ UNCHANGED viewer
  \/ ~ready /\ UNCHANGED <<viewer, lost>>

-----------------------------------------------------------------------------
(***************************************************************************)
(* The host writes one register, as far as the register bank lets it.      *)
(***************************************************************************)
Rewrites ==
  {[config EXCEPT !.enable = v] : v \in IF "enable" \in Rewritten THEN BOOLEAN ELSE {}}
  \union
  {[config EXCEPT !.capture_depth = v] :
     v \in IF "capture_depth" \in Rewritten THEN 1 .. SampleDepth ELSE {}}
  \union
  {[config EXCEPT !.pretrigger_depth = v] :
     v \in IF "pretrigger_depth" \in Rewritten THEN 0 .. config.capture_depth - 1 ELSE {}}

RegBank ==
  \/ /\ pulses' = {}
     /\ UNCHANGED <<config, writes>>
  \/ /\ writes < MaxWrites
     /\ writes' = writes + 1
     /\ \/ pulses' \in Commands /\ UNCHANGED config
        \/ pulses' = {} /\ config' \in Rewrites

(* The value of the bus matters while the core captures, and when it is    *)
(* armed, for the trigger's memory.                                        *)
BusValues == IF active_capture \/ "arm" \in pulses THEN Bit ELSE {0}

Edge(ready) ==
  /\ \E sample \in BusValues : CoreEdge(sample)
  /\ AdapterEdge(ready)
  /\ done_d' = (core.state = "DONE")
  /\ unsettled' = IF msg' = NoMessage \/ msg'.type # "header"
                     \/ core.state \in {"DONE", "READOUT"}
                  THEN unsettled ELSE unsettled \union {core.capture_id}
  /\ RegBank
  /\ Deliver(ready)

MessageTaken == msg # NoMessage /\ Edge(TRUE)

NoMessageTaken == Edge(FALSE)

Init ==
  /\ config \in Configs
  /\ pulses = {}
  /\ core = CoreReset
  /\ buffer = [i \in 0 .. SampleDepth - 1 |-> 0]
  /\ adapter = AdapterReset
  /\ msg = NoMessage
  /\ done_d = FALSE
  /\ viewer = <<>>
  /\ taken = <<>>
  /\ truth = <<>>
  /\ cause = "none"
  /\ before = 0
  /\ unsettled = {}
  /\ writes = 0
  /\ lost = 0

Next == MessageTaken \/ NoMessageTaken

(* The clock runs, and the debug core takes the message in the end.        *)
Fairness == WF_vars(Next) /\ WF_vars(MessageTaken)

Spec == Init /\ [][Next]_vars /\ Fairness

-----------------------------------------------------------------------------
TypeOK ==
  /\ config \in Config
  /\ core.samples_written \in 0 .. SampleDepth
  /\ core.trigger_index \in 0 .. SampleDepth - 1
  /\ core.post_remaining \in 0 .. SampleDepth
  /\ {core.write_ptr, core.read_start_ptr} \subseteq 0 .. SampleDepth - 1
  /\ core.div_count \in 0 .. config.sample_divisor - 1
  /\ buffer \in [0 .. SampleDepth - 1 -> Bit]
  /\ Len(adapter.data_payload) <= SamplesPerChunk
  /\ core.state = "READOUT" => adapter.state # "IDLE" \/ adapter.core_readout_done_pulse

(* The capture in the memory, oldest sample first, as the read port shows  *)
(* it.                                                                     *)
Captured ==
  [i \in 1 .. core.samples_written |-> buffer[add_ptr(core.read_start_ptr, i - 1)]]

(* A finished capture is exactly the last samples_written samples of the   *)
(* bus, in order, wherever the circular memory stood when the trigger came *)
(* and whatever the host rewrote meanwhile.  trigger_index points at the   *)
(* sample that met the condition, and with an edge the sample before it,   *)
(* which may be older than the capture or that of the cycle in which the   *)
(* core was armed, had the other value.                                    *)
TriggerInWindow ==
  LET found == Captured[core.trigger_index + 1] IN
  /\ core.trigger_index < core.samples_written
  /\ found = core.trigger_sample_value
  /\ found = IF config.trigger_mode = "falling" THEN 0 ELSE 1
  /\ config.trigger_mode \in {"rising", "falling"} => before # found
CaptureIsWindow ==
  core.state \in {"DONE", "READOUT"} =>
    /\ Captured = truth[core.capture_id]
    /\ cause = "hit" => TriggerInWindow

(* Every data message carries the samples of the capture it names, at the  *)
(* place it names.                                                         *)
ReadoutExact ==
  msg.type = "data" =>
    /\ msg.capture_id \in DOMAIN truth
    /\ msg.first_sample_index + Len(msg.samples) <= Len(truth[msg.capture_id])
    /\ msg.samples = SubSeq(truth[msg.capture_id], msg.first_sample_index + 1,
                            msg.first_sample_index + Len(msg.samples))

(* What the viewer shows as complete is what the FPGA captured, although   *)
(* messages may be lost, a capture may be read out again and the host may  *)
(* clear or arm at any time.  The exception is a header that left while    *)
(* the core was capturing: the adapter does not look at the core's state   *)
(* again once the readout has started.                                     *)
CompleteIsExact ==
  \A id \in DOMAIN viewer \ unsettled :
    viewer[id].complete => SubSeq(viewer[id].samples, 1, viewer[id].header) = truth[id]

(* "LA readout is finite": a readout comes to its end.                     *)
ReadoutEnds == adapter.state # "IDLE" ~> adapter.state = "IDLE"
=============================================================================
