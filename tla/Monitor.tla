------------------------------ MODULE Monitor ------------------------------
(***************************************************************************)
(* The register path of the FPGA (yifpga_debug_command_parser.v,           *)
(* yifpga_monitor_core.v, _reg_bank.v, _adapter.v): bytes from the host    *)
(* become requests, requests are carried out on the registers, answers     *)
(* wait in three registers until the debug core takes them.  A step is an  *)
(* edge of the debug clock, at which all registers change together.        *)
(*                                                                         *)
(* A byte, or a word of several, is the set of its one bits, so that the   *)
(* exclusive or is the symmetric difference.  On the line a byte may be    *)
(* lost (the receiver drops it for a bad stop bit) or changed.  Of the     *)
(* register bank there is one register of every kind.                      *)
(***************************************************************************)
EXTENDS Naturals, Sequences, FiniteSets, Functions

CONSTANTS
  Catalog,     \* requests the host makes, without their numbers
  Usual,       \* the one of them it makes again and again
  Changes,     \* what a byte may be changed into
  Raises,      \* what the hardware may raise of the profiler's status at an edge
  MaxFrames, MaxOdd, MaxRaised   \* bounds: frames; of those an unusual one counts one and one
                                 \* that is hurt two; edges at which the hardware raises flags

Byte == SUBSET (0 .. 7)
WordType == SUBSET (0 .. 31)

ASSUME MonitorAssumption ==
  /\ Changes \subseteq Byte /\ Raises \subseteq WordType
  /\ \A r \in Catalog : r.write \in BOOLEAN

(* What the host asks for fits the fields of its frames, and its width is  *)
(* one that the parser takes.                                              *)
ASSUME RequestsAssumption ==
  \A r \in Catalog :
    /\ r.addr \subseteq 0 .. 15 /\ r.width \in {{0}, {1}, {2}}
    /\ r.write => r.wdata \in WordType /\ r.wmask \in WordType

VARIABLES
  sent,        \* history: the request of each frame, whether it set out whole, whether a
               \* byte in it looks like the start of a frame
  line,        \* the bytes of the last frame that are on the way
  parser,      \* state, frame_type, frame_len, checksum, payload
  request,     \* monitor_req: a request, or none
  bank,        \* the response of the register bank, or none
  pending,     \* whose it is: the header of the last request that was taken
  resp,        \* the response of the monitor core, or none
  msg,         \* the message of the adapter, or none
  registers,
  raised,      \* edges at which the hardware raised something
  accepted,    \* history: the requests the bank took
  blocked      \* history: the frames of which a byte was dropped at the parser

vars == <<sent, line, parser, request, bank, pending, resp, msg, registers, raised, accepted,
          blocked>>

none == [none |-> TRUE]

Word(n) == {i \in 0 .. 30 : (n \div 2 ^ i) % 2 = 1}
ByteOf(n) == {i \in 0 .. 7 : (n \div 2 ^ i) % 2 = 1}
Xor(a, b) == (a \ b) \cup (b \ a)

(* The number that byte b tells.                                           *)
Number(b) ==
  LET bit(i) == IF i \in b THEN 1 ELSE 0
  IN bit(0) + 2 * bit(1) + 4 * bit(2) + 8 * bit(3) + 16 * bit(4) + 32 * bit(5) + 64 * bit(6)
       + 128 * bit(7)

-----------------------------------------------------------------------------
(* The frames of the host: a 16-bit number and address, the width and, if  *)
(* it writes, two words of 32 bits, the lowest byte first.                 *)
SOF == {0, 2, 5, 7}     \* a5
VERSION == {0}          \* 01
READ_REQ == {5}         \* 20
WRITE_REQ == {1, 5}     \* 22
ReadLength == 5
WriteLength == 13

(* Mutant of MAX_PAYLOAD_BYTES: any length a byte can tell.                *)
MAX_PAYLOAD_BYTES_any == 255

MAX_PAYLOAD_BYTES == 32
PayloadRegister == 32     \* its bytes: payload is 256 bits wide

Bytes(w, n) == [i \in 1 .. n |-> {b \in 0 .. 7 : 8 * (i - 1) + b \in w}]
Joined(bytes) == UNION {{8 * (i - 1) + b : b \in bytes[i]} : i \in 1 .. Len(bytes)}

(* The exclusive or of all: the bits that an odd number of them have.      *)
checksum(bytes) ==
  {b \in 0 .. 7 : Cardinality({i \in 1 .. Len(bytes) : b \in bytes[i]}) % 2 = 1}

Frame(r) ==
  LET head == Bytes(r.seq, 2) \o Bytes(r.addr, 2) \o Bytes(r.width, 1)
      body == IF r.write
              THEN <<VERSION, WRITE_REQ, ByteOf(WriteLength)>> \o head
                     \o Bytes(r.wdata, 4) \o Bytes(r.wmask, 4)
              ELSE <<VERSION, READ_REQ, ByteOf(ReadLength)>> \o head
  IN <<SOF>> \o body \o <<checksum(body)>>

Shortened(raw) == {SubSeq(raw, 1, i - 1) \o SubSeq(raw, i + 1, Len(raw)) : i \in 1 .. Len(raw)}
Altered(raw) == {[raw EXCEPT ![i] = b] : i \in 1 .. Len(raw), b \in Changes}
Hurt(raw) == Shortened(raw) \cup Altered(raw)

-----------------------------------------------------------------------------
(* The command parser.                                                     *)
Waiting == [state |-> "SOF", type |-> {}, len |-> 0, checksum |-> {}, payload |-> <<>>]
Enter(p, state, b) == [p EXCEPT !.state = state, !.checksum = Xor(@, b)]

(* One byte b; in each state what comes next.                              *)
Parsed(p, b) ==
  CASE p.state = "SOF" -> IF b = SOF THEN [Waiting EXCEPT !.state = "VERSION"] ELSE Waiting
    [] p.state = "VERSION" ->
         IF b = VERSION THEN Enter(p, "TYPE", b) ELSE IF b = SOF THEN p ELSE Waiting
    [] p.state = "TYPE" -> [Enter(p, "LEN", b) EXCEPT !.type = b]
    [] p.state = "LEN" ->
         IF Number(b) > MAX_PAYLOAD_BYTES THEN Waiting
         ELSE [Enter(p, IF b = {} THEN "CHECKSUM" ELSE "PAYLOAD", b) EXCEPT !.len = Number(b)]
    [] p.state = "PAYLOAD" ->
         [Enter(p, IF Len(p.payload) + 1 = p.len THEN "CHECKSUM" ELSE "PAYLOAD", b)
            EXCEPT !.payload = Append(@, b)]
    [] p.state = "CHECKSUM" -> Waiting

Field(p, first, last) == Joined(SubSeq(p.payload, first, last))
len_ok(p) == p.len = (IF p.type = READ_REQ THEN ReadLength ELSE WriteLength)
width_ok(p) == Field(p, 5, 5) \in {Word(1), Word(2), Word(4)}
Complete(p, b) ==
  /\ p.state = "CHECKSUM" /\ b = p.checksum
  /\ p.type \in {READ_REQ, WRITE_REQ} /\ len_ok(p) /\ width_ok(p)
RequestOf(p) ==
  LET write == p.type = WRITE_REQ
  IN [seq |-> Field(p, 1, 2), addr |-> Field(p, 3, 4), width |-> Field(p, 5, 5), write |-> write,
      wdata |-> IF write THEN Field(p, 6, 9) ELSE {},
      wmask |-> IF write THEN Field(p, 10, 13) ELSE {}]

-----------------------------------------------------------------------------
(* The register bank: what a request r finds and leaves while the hardware *)
(* raises set, and whether it is refused.                                  *)
ID == {}                        \* 0
CONTROL == {3}                  \* 8
DEMO_PERIOD == {4}              \* 16
CLEAR_COUNTERS == {3, 4}        \* 24
PROFILER_STATUS == {2, 4, 6}    \* 84
ID_VALUE == Word(1330007344)
DEFAULT_DEMO_PERIOD == Word(1000000)
FullWidth == Word(4)

old_value(set, r) ==
  CASE r.addr = ID -> ID_VALUE
    [] r.addr = CONTROL -> registers.control
    [] r.addr = DEMO_PERIOD -> registers.demo_period
    [] r.addr = PROFILER_STATUS -> registers.profiler_status \cup set
    [] OTHER -> {}
is_known(r) == r.addr \in {ID, CONTROL, DEMO_PERIOD, CLEAR_COUNTERS, PROFILER_STATUS}
is_writable(r) == is_known(r) /\ r.addr # ID

masked(set, r) == (old_value(set, r) \ r.wmask) \cup (r.wdata \cap r.wmask)
status(set, r) ==
  IF ~is_known(r) THEN "BAD_ADDR"
  ELSE IF r.width # FullWidth THEN "BAD_LEN"
  ELSE IF r.write /\ ~is_writable(r) THEN "DENIED"
  ELSE IF r.write /\ r.addr = DEMO_PERIOD /\ masked(set, r) = {} THEN "BAD_VALUE"
  ELSE "OK"

new_value(set, r) ==
  IF status(set, r) # "OK" \/ ~r.write THEN old_value(set, r)
  ELSE IF r.addr = PROFILER_STATUS THEN old_value(set, r) \ r.wdata
  ELSE IF r.addr = CLEAR_COUNTERS THEN {}
  ELSE masked(set, r)

(* The registers after an edge at which no request is carried out, and     *)
(* after one at which r is.                                                *)
Rested(set) ==
  [registers EXCEPT !.profiler_status = @ \cup set, !.clear_counters_pulse = FALSE]

(* Mutant of Carried: clearing wins over raising.                          *)
CarriedClearWins(set, r) ==
  IF ~r.write \/ status(set, r) # "OK" THEN Rested(set)
  ELSE CASE r.addr = CONTROL -> [Rested(set) EXCEPT !.control = new_value(set, r)]
         [] r.addr = DEMO_PERIOD -> [Rested(set) EXCEPT !.demo_period = new_value(set, r)]
         [] r.addr = CLEAR_COUNTERS -> [Rested(set) EXCEPT !.clear_counters_pulse = r.wdata # {}]
         [] r.addr = PROFILER_STATUS -> [Rested(set) EXCEPT !.profiler_status = new_value(set, r)]

Carried(set, r) ==
  IF ~r.write \/ status(set, r) # "OK" THEN Rested(set)
  ELSE CASE r.addr = CONTROL -> [Rested(set) EXCEPT !.control = new_value(set, r)]
         [] r.addr = DEMO_PERIOD -> [Rested(set) EXCEPT !.demo_period = new_value(set, r)]
         [] r.addr = CLEAR_COUNTERS -> [Rested(set) EXCEPT !.clear_counters_pulse = r.wdata # {}]
         [] r.addr = PROFILER_STATUS ->
              [Rested(set) EXCEPT !.profiler_status = new_value(set, r) \cup set]

-----------------------------------------------------------------------------
(* Who may go on at this edge, when the debug core is ready or not.        *)
resp_ready(ready) == msg = none \/ ready
bank_resp_ready(ready) == resp = none \/ resp_ready(ready)
req_ready(ready) == bank = none \/ bank_resp_ready(ready)
taken(ready) == request # none /\ req_ready(ready)

(* Mutant of pending_block: bytes are read whether the request is taken or *)
(* not, and the next one replaces it.                                      *)
pending_block_never(ready) == FALSE

pending_block(ready) == request # none /\ ~req_ready(ready)

ParserEdge(arrives, ready) ==
  LET b == IF arrives THEN Head(line) ELSE {}
      reads == arrives /\ ~pending_block(ready)
  IN /\ line' = IF arrives THEN Tail(line) ELSE line
     /\ parser' = IF reads THEN Parsed(parser, b) ELSE parser
     /\ request' = IF reads /\ Complete(parser, b) THEN RequestOf(parser)
                   ELSE IF taken(ready) THEN none ELSE request
     /\ blocked' = IF arrives /\ ~reads THEN blocked \cup {Len(sent)} ELSE blocked

BankEdge(ready, set) ==
  IF taken(ready)
  THEN /\ bank' = [status |-> status(set, request), old |-> old_value(set, request),
                   new |-> new_value(set, request)]
       /\ registers' = Carried(set, request)
       /\ accepted' = Append(accepted, request)
  ELSE /\ bank' = IF bank_resp_ready(ready) THEN none ELSE bank
       /\ registers' = Rested(set)
       /\ UNCHANGED accepted

(* The answer is the response of the bank with the header of its request.  *)
Answer(of, response) ==
  [seq |-> of.seq, addr |-> of.addr, write |-> of.write,
   status |-> response.status, old |-> response.old, new |-> response.new]
Header(r) == [seq |-> r.seq, addr |-> r.addr, write |-> r.write]

CoreEdge(ready) ==
  /\ pending' = IF taken(ready) THEN Header(request) ELSE pending
  /\ resp' = IF bank # none /\ bank_resp_ready(ready) THEN Answer(pending, bank)
             ELSE IF resp_ready(ready) THEN none ELSE resp

AdapterEdge(ready) ==
  msg' = IF resp # none /\ resp_ready(ready) THEN resp ELSE IF ready THEN none ELSE msg

Edge ==
  \E arrives \in {a \in BOOLEAN : a => line # <<>>}, ready \in BOOLEAN, set \in Raises :
    /\ set # {} => raised < MaxRaised
    /\ raised' = IF set = {} THEN raised ELSE raised + 1
    /\ ParserEdge(arrives, ready) /\ BankEdge(ready, set) /\ CoreEdge(ready) /\ AdapterEdge(ready)
    /\ UNCHANGED sent

-----------------------------------------------------------------------------
Numbered(r, n) ==
  [seq |-> Word(n), addr |-> r.addr, width |-> r.width, write |-> r.write,
   wdata |-> IF r.write THEN r.wdata ELSE {}, wmask |-> IF r.write THEN r.wmask ELSE {}]

Oddity(usual, whole) == (IF usual THEN 0 ELSE 1) + (IF whole THEN 0 ELSE 2)
OddCount ==
  Cardinality({n \in 1 .. Len(sent) : ~sent[n].usual})
    + 2 * Cardinality({n \in 1 .. Len(sent) : ~sent[n].whole})

(* The host sends a frame once the bytes of the last are through: nothing  *)
(* depends on how long they wait behind others.                            *)
Send ==
  /\ line = <<>> /\ Len(sent) < MaxFrames
  /\ \E kind \in Catalog, whole \in BOOLEAN :
       /\ OddCount + Oddity(kind = Usual, whole) <= MaxOdd
       /\ LET r == Numbered(kind, Len(sent) + 1)
              raw == Frame(r)
          IN /\ line' \in (IF whole THEN {raw} ELSE Hurt(raw) \ {raw})
             /\ sent' = Append(sent, [request |-> r, whole |-> whole, usual |-> kind = Usual,
                                      inner |-> SOF \in {raw[i] : i \in 2 .. Len(raw)}])
  /\ UNCHANGED <<parser, request, bank, pending, resp, msg, registers, raised, accepted, blocked>>

Init ==
  /\ sent = <<>> /\ line = <<>> /\ parser = Waiting /\ request = none
  /\ bank = none /\ pending = [seq |-> {}, addr |-> {}, write |-> FALSE] /\ resp = none /\ msg = none
  /\ registers = [control |-> {}, demo_period |-> DEFAULT_DEMO_PERIOD, profiler_status |-> {},
                  clear_counters_pulse |-> FALSE]
  /\ raised = 0 /\ accepted = <<>> /\ blocked = {}

Next == Send \/ Edge

Spec == Init /\ [][Next]_vars

-----------------------------------------------------------------------------
(* Every register holds a value of its kind, the payload fits its register *)
(* and is never longer than the length announced.                          *)
TypeOK ==
  /\ parser.state \in {"SOF", "VERSION", "TYPE", "LEN", "PAYLOAD", "CHECKSUM"}
  /\ parser.type \in Byte /\ parser.checksum \in Byte
  /\ parser.len <= PayloadRegister
  /\ parser.state = "PAYLOAD" => Len(parser.payload) < parser.len
  /\ parser.state = "CHECKSUM" => Len(parser.payload) = parser.len
  /\ registers \in [control : WordType, demo_period : WordType, profiler_status : WordType,
                    clear_counters_pulse : BOOLEAN]

(* No frame is both carried out and lost, and none makes two requests: the *)
(* bank carries out what the host asked for, each request at most once     *)
(* and in order; and when the line is quiet, of the frames that set out    *)
(* whole none is missing but those that came while a request waited for    *)
(* the bank, and at most three for each frame that was hurt: a length of   *)
(* 32 swallows 27 bytes of what follows.  If frames were hurt or came too  *)
(* early, this holds as long as no byte within a frame looks like the      *)
(* start of one, or is changed into one in a frame whose own start was     *)
(* missed and whose data go on like a whole request                        *)
(* (STATE_SOF .. STATE_CHECKSUM, pending_block).                           *)
HurtCount == Cardinality({n \in 1 .. Len(sent) : ~sent[n].whole})
Orderly == (HurtCount = 0 /\ blocked = {}) \/ \A n \in 1 .. Len(sent) : ~sent[n].inner
Requests == [n \in 1 .. Len(sent) |-> sent[n].request]
InOrder ==
  \A j \in 1 .. Len(accepted) : \E n \in 1 .. Len(sent) :
    /\ accepted[j] = Requests[n]
    /\ \A i \in 1 .. j - 1 : \E m \in 1 .. n - 1 : accepted[i] = Requests[m]
Missing == {n \in 1 .. Len(sent) : sent[n].whole /\ Requests[n] \notin Range(accepted)}
CommandsCarriedOut ==
  /\ Len(accepted) + Cardinality(blocked) <= Len(sent)
  /\ Orderly =>
       /\ InOrder
       /\ line = <<>> /\ request = none => Cardinality(Missing \ blocked) <= 3 * HurtCount

(* Through three registers, any back-pressure and flags that are raised at *)
(* any edge, the path answers like a register file that does one request   *)
(* at a time: every answer has the number of its own request and what that *)
(* request found and left, and no flag is cleared that was not reported    *)
(* (monitor_core.v, reg_bank.v, adapter.v).                                *)
InFlight ==
  (IF msg # none THEN <<msg>> ELSE <<>>) \o (IF resp # none THEN <<resp>> ELSE <<>>)
    \o (IF bank # none THEN <<Answer(pending, bank)>> ELSE <<>>)
Promise == INSTANCE RegisterFile WITH
  Fixed <- [a \in {ID} |-> ID_VALUE],
  Plain <- [a \in {CONTROL, DEMO_PERIOD} |-> IF a = CONTROL THEN {} ELSE DEFAULT_DEMO_PERIOD],
  Nonzero <- {DEMO_PERIOD}, Sticky <- PROFILER_STATUS, Pulse <- CLEAR_COUNTERS, Capacity <- 3,
  value <- [a \in {CONTROL, DEMO_PERIOD} |->
              IF a = CONTROL THEN registers.control ELSE registers.demo_period],
  flags <- registers.profiler_status, pulse <- registers.clear_counters_pulse,
  answers <- InFlight
ImplementsRegisterFile == Promise!Spec
=============================================================================
