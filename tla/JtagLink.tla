----------------------------- MODULE JtagLink -----------------------------
(***************************************************************************)
(* The path of a byte from the mailbox to the clients of the host bridge:  *)
(* the USER data-register command engine (yifpga_jtag_user_dr.sv), the     *)
(* header snapshot (yifpga_jtag_mailbox.sv), the TAP controller that the   *)
(* host drives over USB (ftdi_mpsse.py), the backend that turns scans into *)
(* headers and blocks (ftdi_backend.py) and the pump that delivers them    *)
(* (yifpga_jtag_bridge.py).                                                *)
(*                                                                         *)
(* A step is one TCK edge, one call of the host that needs no edge, or a   *)
(* write into the ring.  The USB link may fail, and the bridge's process   *)
(* be killed, between any two edges: TCK then rests, the TAP stays where   *)
(* it is, and the host has lost what it had not read yet.                  *)
(*                                                                         *)
(* The ring is the abstract Mailbox, which module JtagRing implements.     *)
(***************************************************************************)
EXTENDS Integers, Sequences, FiniteSets

CONSTANTS
  BufferSize, CountMod,  \* as in Mailbox
  ByteBits,              \* bits of a byte on the wire (8)
  RequestBits,           \* bits of a request scan (32)
  HeaderBytes,           \* bytes of a header response (40)
  BlockSize,             \* the bridge's block_size
  MaxBytes,              \* bound on the bytes written in a session
  MaxFails,              \* bound on the USB failures and kills
  MaxResets              \* bound on the FPGA resets

ASSUME LinkAssumption ==
  /\ BufferSize \in Nat \ {0} /\ CountMod \in Nat /\ BufferSize < CountMod
  /\ ByteBits \in Nat \ {0}
  /\ RequestBits \in Nat \ {0}
  /\ HeaderBytes \in Nat \ {0}
  /\ BlockSize \in Nat \ {0}
  /\ {MaxBytes, MaxFails, MaxResets} \subseteq Nat

VARIABLES
  unread, visible, block, write_count, read_count, dropped,  \* the mailbox
  tap,              \* state of the TAP controller
  sel,              \* the instruction register holds USER2
  dr,               \* registers of the command engine
  header_snapshot,
  cmd,              \* the user_command the scanner is shifting
  host              \* state of the backend and of the bridge's pump
VARIABLES           \* history variables
  delivered,        \* the bytes broadcast to the clients
  fails, resets,    \* USB failures or kills, and FPGA resets so far
  aborted           \* the ring aborted at the last TCK edge

mailbox == <<unread, visible, block, write_count, read_count, dropped>>
fpga == <<mailbox, tap, sel, dr, header_snapshot, aborted>>
vars == <<fpga, cmd, host, delivered, fails, resets>>

M == INSTANCE Mailbox

(* A byte as the host receives it: its session and its number, or Garbage  *)
(* when TDO was forced to zero for some of its bits.                       *)
Garbage == [session |-> -1, number |-> -1]

(* A header is labelled with the session it was taken in.  The board ties  *)
(* session_id to a constant, so the host cannot read this label.           *)
HeaderOf(read, write, available, session) ==
  [read_count |-> read, write_count |-> write, available_bytes |-> available,
   session |-> session]
NoHeader == HeaderOf(-1, -1, -1, -1)

-----------------------------------------------------------------------------
(***************************************************************************)
(* The TAP controller (IEEE 1149.1), as far as the host's TMS sequences    *)
(* reach it.  The instruction scan of select_user2 passes no data-register *)
(* state that the command engine reacts to: it is one step.                *)
(***************************************************************************)
TapNext(tms) ==
  CASE tap \in {"Reset", "Idle"} /\ tms = 0 -> "Idle"
    [] tap = "Reset" /\ tms = 1 -> "Reset"
    [] tap \in {"Idle", "UpdateDR"} /\ tms = 1 -> "SelectDR"
    [] tap = "UpdateDR" /\ tms = 0 -> "Idle"
    [] tap = "SelectDR" -> IF tms = 0 THEN "CaptureDR" ELSE "SelectIR"
    [] tap = "SelectIR" /\ tms = 1 -> "Reset"
    [] tap \in {"CaptureDR", "ShiftDR"} -> IF tms = 0 THEN "ShiftDR" ELSE "Exit1DR"
    [] tap = "Exit1DR" /\ tms = 1 -> "UpdateDR"

-----------------------------------------------------------------------------
(***************************************************************************)
(* The command engine.  Its request register is represented by the scan    *)
(* the host is shifting, which counts only when RequestBits bits arrived.  *)
(***************************************************************************)
EngineReset ==
  [bit_count |-> 0, response_length |-> 0, response_opcode |-> "none",
   pending_response |-> FALSE, response_active |-> FALSE,
   payload_commit |-> FALSE, payload_abort |-> FALSE]

responding(opcode) ==
  sel /\ dr.response_active /\ dr.response_opcode = opcode

ring_valid == Len(block) < visible

payload_valid == responding("payload") /\ ring_valid

last_bit == dr.bit_count % ByteBits = ByteBits - 1

in_response == dr.bit_count < dr.response_length * ByteBits

(* Mutant of payload_ready: the ring advances at every bit.                *)
payload_ready_every_bit == tap = "ShiftDR" /\ payload_valid /\ in_response

payload_ready == tap = "ShiftDR" /\ payload_valid /\ last_bit /\ in_response

(* Mutant of quiet: the strobes have no default.                           *)
quiet_missing == dr

(* The strobes last for one cycle.                                         *)
quiet == [dr EXCEPT !.payload_commit = FALSE, !.payload_abort = FALSE]

captured ==
  [quiet EXCEPT !.bit_count = 0, !.response_active = dr.pending_response]

(* Mutants of exact: any scan will do; and a whole scan looks too short.   *)
exact_ignored == TRUE

exact_off_by_one == dr.bit_count = dr.response_length * ByteBits + 1

exact == dr.bit_count = dr.response_length * ByteBits

response_done ==
  LET done == [quiet EXCEPT !.pending_response = FALSE, !.response_active = FALSE] IN
  CASE dr.response_opcode # "payload" -> done
    [] dr.response_opcode = "payload" /\ exact -> [done EXCEPT !.payload_commit = TRUE]
    [] OTHER -> [done EXCEPT !.payload_abort = TRUE]

(* Mutant of request_done: an unknown opcode is answered, too.             *)
request_done_unknown(opcode, length) ==
  [quiet EXCEPT !.response_opcode = opcode,
                !.response_length = length,
                !.pending_response = dr.bit_count = RequestBits]

request_done(opcode, length) ==
  IF dr.bit_count = RequestBits /\ opcode # "none"
  THEN [quiet EXCEPT !.response_opcode = opcode,
                     !.response_length = length,
                     !.pending_response = TRUE]
  ELSE [quiet EXCEPT !.pending_response = FALSE]

(* The command engine after an edge at which a request scan for opcode and *)
(* length, or a response scan ("none"), was on TDI.                        *)
EngineNext(opcode, length) ==
  CASE sel /\ tap = "CaptureDR" -> captured
    [] sel /\ tap = "ShiftDR" -> [quiet EXCEPT !.bit_count = dr.bit_count + 1]
    [] sel /\ tap = "UpdateDR" /\ dr.response_active -> response_done
    [] sel /\ tap = "UpdateDR" /\ ~dr.response_active ->
         request_done(opcode, length)
    [] OTHER -> quiet

(* The ring's half of a TCK edge: user_dr's strobes pass through the       *)
(* mailbox unchanged.                                                      *)
RingEdge ==
  \E removed \in 0 .. Len(block) :
    /\ \/ dr.payload_commit /\ M!Commit(removed)
       \/ dr.payload_abort /\ M!Abort(removed)
       \/ payload_ready /\ ~dr.payload_commit /\ ~dr.payload_abort
            /\ M!Take(removed)
       \/ ~payload_ready /\ ~dr.payload_commit /\ ~dr.payload_abort
            /\ M!NoRead(removed)
    /\ M!Exchange(<<>>, removed)
    /\ UNCHANGED <<write_count, dropped>>

header_live ==
  HeaderOf(read_count, M!u32Plus(read_count, visible), visible, resets)

(* Mutant of SnapshotEdge: the header is not frozen while it is read.      *)
SnapshotEdgeLive == header_snapshot' = header_live

SnapshotEdge ==
  header_snapshot' = IF responding("header") THEN header_snapshot ELSE header_live

(* One TCK edge.  Entering Test-Logic-Reset cancels the command engine.    *)
Edge(tms) ==
  /\ tap' = TapNext(tms)
  /\ sel' = (sel /\ tap' # "Reset")
  /\ dr' = IF tap' = "Reset" THEN EngineReset
           ELSE EngineNext(cmd.tdi, cmd.length)
  /\ aborted' = dr.payload_abort
  /\ RingEdge
  /\ SnapshotEdge

-----------------------------------------------------------------------------
(***************************************************************************)
(* The scanner: user_command shifts a request scan and then a response     *)
(* scan.  The host keeps what TDO showed; a header's counters come early   *)
(* in the scan and available_bytes comes late.                             *)
(***************************************************************************)
NoCommand ==
  [opcode |-> "none", length |-> 0, tdi |-> "none", sent |-> 0, clean |-> TRUE,
   header |-> NoHeader, payload |-> <<>>, done |-> FALSE]

user_command(opcode, length) ==
  [NoCommand EXCEPT !.opcode = opcode, !.length = length, !.tdi = opcode]

requesting == cmd.tdi # "none"

scan_bits == IF requesting THEN RequestBits ELSE cmd.length * ByteBits

(* TDO carries a bit of the response.                                      *)
tdo_valid ==
  /\ in_response
  /\ responding("header") \/ payload_valid

Received ==
  LET first == cmd.sent = 0
      ends == (cmd.sent + 1) % ByteBits = 0
      starts == cmd.sent % ByteBits = 0 /\ cmd.opcode = "payload"
      clean == tdo_valid /\ (cmd.clean \/ first \/ starts)
      early == IF first THEN header_snapshot ELSE cmd.header
      byte == IF clean THEN [session |-> resets, number |-> unread[Len(block) + 1]]
              ELSE Garbage
      got == [cmd EXCEPT !.sent = @ + 1, !.clean = clean]
  IN
  CASE requesting -> [cmd EXCEPT !.sent = @ + 1]
    [] ~requesting /\ cmd.opcode = "header" ->
         [got EXCEPT !.header =
            IF clean
            THEN [early EXCEPT !.available_bytes = header_snapshot.available_bytes]
            ELSE NoHeader]
    [] ~requesting /\ cmd.opcode = "payload" ->
         IF ends THEN [got EXCEPT !.payload = Append(@, byte)] ELSE got

ScanEdge ==
  /\ cmd.opcode # "none"
  /\ ~cmd.done
  /\ \/ /\ tap \in {"Idle", "Exit1DR"}
        /\ Edge(1)
        /\ UNCHANGED cmd
     \/ /\ tap \in {"SelectDR", "CaptureDR"}
        /\ Edge(0)
        /\ UNCHANGED cmd
     \/ /\ tap = "ShiftDR"
        /\ Edge(IF cmd.sent + 1 = scan_bits THEN 1 ELSE 0)
        /\ cmd' = Received
     \/ /\ tap = "UpdateDR"
        /\ Edge(0)
        /\ cmd' = IF requesting THEN [cmd EXCEPT !.tdi = "none", !.sent = 0]
                  ELSE [cmd EXCEPT !.done = TRUE]
  /\ UNCHANGED <<host, delivered, fails, resets>>

-----------------------------------------------------------------------------
(***************************************************************************)
(* The backend and the pump.                                               *)
(***************************************************************************)

(* start() of a new process.  error is what the pump or start() failed     *)
(* with, until somebody tries again.                                       *)
NewHost ==
  [pc |-> "tap_reset", edges |-> 6, header |-> NoHeader, expected |-> -1,
   starting |-> TRUE, claimed |-> FALSE, error |-> "none"]

(* open(): a new scanner resets the TAP and selects USER2, then the header *)
(* is read.                                                                *)
TapResetEdge ==
  /\ host.pc = "tap_reset"
  /\ host.edges > 0
  /\ Edge(IF host.edges = 1 THEN 0 ELSE 1)
  /\ host' = [host EXCEPT !.edges = @ - 1]
  /\ UNCHANGED <<cmd, delivered, fails, resets>>

SelectUser2 ==
  /\ host.pc = "tap_reset"
  /\ host.edges = 0
  /\ sel' = TRUE
  /\ dr' = EngineNext("none", 0)
  /\ aborted' = dr.payload_abort
  /\ RingEdge
  /\ SnapshotEdge
  /\ host' = [host EXCEPT !.pc = "open"]
  /\ cmd' = user_command("header", HeaderBytes)
  /\ UNCHANGED <<tap, delivered, fails, resets>>

(* The process is gone, and the kernel took the device back.               *)
Ended(error) == [NewHost EXCEPT !.pc = "ended", !.error = error]

(* The host stops in the middle of what it did.  What was being shifted is *)
(* still in the command engine's request register.                         *)
Break(left) ==
  /\ host' = left
  /\ cmd' = [NoCommand EXCEPT !.tdi = cmd.tdi, !.length = cmd.length]

(* An exception.  The pump waits and then reconnects; in start(), which    *)
(* run() calls outside any try, it ends the process.  (After a failure of  *)
(* reconnect_once's own header read the pump first polls the open device   *)
(* once more; the model goes on to the next reconnect at once.)            *)
Raise(error, claimed) ==
  Break(IF host.starting THEN Ended(error)
        ELSE [host EXCEPT !.pc = "failed", !.error = error, !.claimed = claimed])

(* MailboxHeader.validate: the magic, and the relation of the counters.    *)
valid(header) ==
  /\ header # NoHeader
  /\ header.available_bytes <= BufferSize
  /\ M!counter_delta(header.write_count, header.read_count)
       = header.available_bytes

HeaderRead == cmd.done /\ cmd.opcode = "header"

BadHeader ==
  /\ HeaderRead
  /\ ~valid(cmd.header)
  /\ Raise("header", FALSE)
  /\ UNCHANGED <<fpga, delivered, fails, resets>>

(* open() took the header; reconnect_once takes another one before the     *)
(* pump goes on.                                                           *)
Opened ==
  /\ HeaderRead
  /\ valid(cmd.header)
  /\ host.pc \in {"open", "check"}
  /\ host' = [host EXCEPT !.header = cmd.header,
                          !.starting = FALSE,
                          !.pc = IF host.pc = "open" /\ ~host.starting
                                 THEN "check" ELSE "header"]
  /\ cmd' = user_command("header", HeaderBytes)
  /\ UNCHANGED <<fpga, delivered, fails, resets>>

(* read_header in the pump: the commit of the previous block must show in  *)
(* the counter.  Then the next block, or another poll.                     *)
CommitMismatch ==
  /\ HeaderRead
  /\ valid(cmd.header)
  /\ host.pc = "header"
  /\ host.expected # -1
  /\ host.expected # cmd.header.read_count
  /\ Raise("mismatch", FALSE)
  /\ UNCHANGED <<fpga, delivered, fails, resets>>

read_header ==
  /\ HeaderRead
  /\ valid(cmd.header)
  /\ host.pc = "header"
  /\ host.expected \in {-1, cmd.header.read_count}

Idle ==
  /\ read_header
  /\ cmd.header.available_bytes = 0
  /\ host' = [host EXCEPT !.header = cmd.header, !.expected = -1]
  /\ cmd' = user_command("header", HeaderBytes)
  /\ UNCHANGED <<fpga, delivered, fails, resets>>

(* Mutant of StartBlock: it waits for a whole block.                       *)
StartBlockWhole ==
  /\ read_header
  /\ cmd.header.available_bytes >= BlockSize
  /\ host' = [host EXCEPT !.header = cmd.header, !.expected = -1, !.pc = "payload"]
  /\ cmd' = user_command("payload", BlockSize)
  /\ UNCHANGED <<fpga, delivered, fails, resets>>

StartBlock ==
  /\ read_header
  /\ cmd.header.available_bytes > 0
  /\ host' = [host EXCEPT !.header = cmd.header, !.expected = -1, !.pc = "payload"]
  /\ cmd' = user_command("payload",
              IF cmd.header.available_bytes < BlockSize
              THEN cmd.header.available_bytes ELSE BlockSize)
  /\ UNCHANGED <<fpga, delivered, fails, resets>>

(* read_block, commit and the broadcast: the hardware committed when the   *)
(* scan was updated, so commit only notes the counter to expect.           *)
Deliver ==
  /\ host.pc = "payload"
  /\ cmd.done
  /\ delivered' = delivered \o cmd.payload
  /\ host' = [host EXCEPT
                !.expected = M!u32Plus(host.header.read_count, Len(cmd.payload)),
                !.pc = "header"]
  /\ cmd' = user_command("header", HeaderBytes)
  /\ UNCHANGED <<fpga, fails, resets>>

(* reconnect_once: close() forgets the header and the expected counter.    *)
(* While an earlier scanner that nobody holds has the device claimed,      *)
(* ftdi_usb_open fails: the pump notes the error and tries again.          *)
ReopenFails ==
  /\ host.pc = "failed"
  /\ host.claimed
  /\ host' = [host EXCEPT !.error = "open"]
  /\ UNCHANGED <<fpga, cmd, delivered, fails, resets>>

Reconnect ==
  /\ host.pc = "failed"
  /\ ~host.claimed
  /\ host' = [host EXCEPT !.pc = "tap_reset", !.edges = 6, !.header = NoHeader,
                          !.expected = -1, !.error = "none"]
  /\ UNCHANGED <<fpga, cmd, delivered, fails, resets>>

-----------------------------------------------------------------------------
(***************************************************************************)
(* The environment.                                                        *)
(***************************************************************************)

(* The USB link fails: in the middle of a scan, or after the scan while    *)
(* the host waits for its data.  A scanner's constructor that fails after  *)
(* ftdi_usb_open does not close the device, and open() has no scanner yet  *)
(* that its close() could close: the device stays claimed, unless the      *)
(* cable was pulled or ftdi_usb_open itself failed.                        *)
UsbFails ==
  /\ fails < MaxFails
  /\ host.pc \notin {"failed", "ended"}
  /\ fails' = fails + 1
  /\ \E claimed \in BOOLEAN :
       /\ claimed => host.pc = "tap_reset"
       /\ Raise("usb", claimed)
  /\ UNCHANGED <<fpga, delivered, resets>>

(* The process is killed, at any moment, and started again, perhaps after  *)
(* a long time.                                                            *)
Kill ==
  /\ fails < MaxFails
  /\ host.pc # "ended"
  /\ fails' = fails + 1
  /\ Break(Ended("none"))
  /\ UNCHANGED <<fpga, delivered, resets>>

Restart ==
  /\ host.pc = "ended"
  /\ host' = NewHost
  /\ UNCHANGED <<fpga, cmd, delivered, fails, resets>>

(* The operator pulls the cable and plugs it in again, and the claim on    *)
(* the device is gone.                                                     *)
Replug ==
  /\ host.claimed
  /\ host' = [host EXCEPT !.claimed = FALSE]
  /\ UNCHANGED <<fpga, cmd, delivered, fails, resets>>

(* The debug core writes a byte that the ring accepts.                     *)
FpgaWrite ==
  /\ write_count < MaxBytes
  /\ M!Accept(<<write_count>>)
  /\ M!Exchange(<<write_count>>, 0)
  /\ visible' = visible
  /\ UNCHANGED <<block, read_count, tap, sel, dr, header_snapshot, aborted>>
  /\ UNCHANGED <<cmd, host, delivered, fails, resets>>

(* debug_rst_n resets the ring, the mailbox and the command engine; the    *)
(* TAP is hard logic and stays where it is.                                *)
FpgaReset ==
  /\ resets < MaxResets
  /\ resets' = resets + 1
  /\ M!Reset
  /\ dr' = EngineReset
  /\ header_snapshot' = HeaderOf(0, 0, 0, resets')
  /\ aborted' = FALSE
  /\ UNCHANGED <<tap, sel, cmd, host, delivered, fails>>

-----------------------------------------------------------------------------
Init ==
  /\ M!Init
  /\ tap = "Reset"
  /\ sel = FALSE
  /\ dr = EngineReset
  /\ header_snapshot = HeaderOf(0, 0, 0, 0)
  /\ cmd = NoCommand
  /\ host = NewHost
  /\ delivered = <<>>
  /\ fails = 0
  /\ resets = 0
  /\ aborted = FALSE

HostStep ==
  \/ TapResetEdge \/ SelectUser2 \/ ScanEdge
  \/ BadHeader \/ Opened \/ CommitMismatch \/ Idle \/ StartBlock \/ Deliver
  \/ ReopenFails \/ Reconnect

Next ==
  \/ HostStep
  \/ UsbFails \/ Kill \/ Restart \/ Replug
  \/ FpgaWrite \/ FpgaReset

(* The pump and its worker thread keep running, and there are always TCK   *)
(* edges again that find the ring's synchronizers settled: they need two   *)
(* edges after a write, and a poll has dozens.  Nothing says that anybody  *)
(* restarts the process or pulls the cable.                                *)
SettledEdge == ScanEdge /\ visible' = Len(unread')

Fairness == WF_vars(HostStep) /\ SF_vars(SettledEdge)

Spec == Init /\ [][Next]_vars /\ Fairness

-----------------------------------------------------------------------------
MaxScan == ByteBits * (BlockSize + HeaderBytes) + RequestBits

Header == [read_count : -1 .. CountMod - 1, write_count : -1 .. CountMod - 1,
           available_bytes : -1 .. BufferSize, session : -1 .. MaxResets]

TypeOK ==
  /\ unread \in Seq(0 .. CountMod - 1)
  /\ visible \in 0 .. BufferSize
  /\ Len(block) <= visible
  /\ dr.bit_count \in 0 .. MaxScan
  /\ dr.response_opcode \in {"none", "header", "payload"}
  /\ dr.pending_response => dr.response_opcode # "none"
  /\ {header_snapshot, host.header, cmd.header} \subseteq Header
  /\ cmd.opcode # "none" => host.pc \in {"open", "check", "header", "payload"}
  /\ host.claimed => host.pc = "failed" /\ ~host.starting

(* The command engine never advances, commits and aborts at once, and      *)
(* leaves the ring idle in the cycle after an abort, when the ring's       *)
(* prefetched byte is stale.                                               *)
RingContract ==
  payload_ready => ~dr.payload_commit /\ ~dr.payload_abort /\ ~aborted

(* While a block is being read, the header it is based on still tells the  *)
(* truth: nothing was committed since, and the bytes it announced are      *)
(* there, though header and block are two commands; and the host's own     *)
(* consistency checks of headers only fire when the FPGA was reset.        *)
HeaderStillTrue ==
  /\ host.pc = "payload" /\ host.header.session = resets =>
       /\ read_count = host.header.read_count
       /\ cmd.length <= visible
  /\ host.error \in {"header", "mismatch"} => resets > 0

(* A commit removes exactly the block that was asked for, however the scan *)
(* ended.                                                                  *)
WholeBlocksCommitted ==
  dr.payload_commit /\ resets = 0 => Len(block) = dr.response_length

(* Clients get the bytes of a session in order and at most once, across    *)
(* failures, reconnects and resets.                                        *)
Later(b, a) ==
  \/ b.session > a.session
  \/ b.session = a.session /\ b.number > a.number

DeliveredInOrder ==
  \A i, j \in 1 .. Len(delivered) :
    i < j /\ delivered[i] # Garbage /\ delivered[j] # Garbage =>
      Later(delivered[j], delivered[i])

(* A failure loses at most the one block that was in flight; without       *)
(* failures nothing is lost.  And the host passes on garbage only where a  *)
(* reset met a block that it was reading, or was about to read, by an      *)
(* earlier header: one block for a reset at most, since the next header    *)
(* shows that the counters went back.                                      *)
InSession == {i \in 1 .. Len(delivered) : delivered[i].session = resets}
Strange == {i \in 1 .. Len(delivered) : delivered[i] = Garbage}

LossBounded ==
  /\ read_count <= Cardinality(InSession) + BlockSize * (fails + resets)
  /\ Cardinality(Strange) <= BlockSize * resets

(* Only the operator can help: the process ended, by a kill or a failure   *)
(* at its start, or the device is claimed by a scanner nobody holds.       *)
NeedsOperator == host.pc = "ended" \/ host.claimed

(* Once the writer is quiet and the link holds, the host is connected and  *)
(* drains the ring to the last byte: no failure, no kill and restart, and  *)
(* no reset, in any position of a scan, leaves it stuck, unless it is left *)
(* to an operator for ever.                                                *)
RingDrains ==
  \/ <>[](unread = <<>> /\ host.pc # "failed")
  \/ <>[]NeedsOperator

-----------------------------------------------------------------------------
(* "A short read counts as a failure and is not committed": what was       *)
(* committed has reached the host.                                         *)
CommittedIsDelivered ==
  resets = 0 => read_count <= Len(delivered)
=============================================================================
