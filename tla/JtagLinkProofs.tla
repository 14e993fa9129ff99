---------------------------- MODULE JtagLinkProofs ----------------------------
(***************************************************************************)
(* Proofs about the path of a byte from the mailbox to the clients (module *)
(* JtagLink), for scans and blocks of any length, any number of failures   *)
(* of the USB link at any edge, and FPGA resets at any time.               *)
(***************************************************************************)
EXTENDS JtagLink, FiniteSetTheorems, TLAPS

-----------------------------------------------------------------------------
(* Remainders: a number that starts again is kept modulo a constant.       *)
LEMMA ModRange ==
  ASSUME NEW m \in Nat \ {0}, NEW a \in Int
  PROVE  a % m \in 0 .. m - 1
OBVIOUS

LEMMA ModSmall ==
  ASSUME NEW m \in Nat \ {0}, NEW a \in 0 .. m - 1
  PROVE  a % m = a
OBVIOUS

LEMMA ModQuotient ==
  ASSUME NEW m \in Nat \ {0}, NEW a \in Int
  PROVE  \E q \in Int : a = (m * q) + (a % m)
<1>1. a = (m * (a \div m)) + (a % m)
  OBVIOUS
<1>2. a \div m \in Int
  OBVIOUS
<1> QED BY <1>1, <1>2

LEMMA ModUnique ==
  ASSUME NEW m \in Nat \ {0}, NEW a \in Int, NEW q \in Int, NEW r \in 0 .. m - 1,
         a = m * q + r
  PROVE  a % m = r
OBVIOUS

(* A remainder may be taken once or at every step.                         *)
LEMMA ModAdds ==
  ASSUME NEW m \in Nat \ {0}, NEW a \in Int, NEW b \in Int
  PROVE  ((a % m) + b) % m = (a + b) % m
<1>1. PICK q \in Int : a = (m * q) + (a % m)
  BY ModQuotient
<1>2. PICK p \in Int : (a % m) + b = (m * p) + (((a % m) + b) % m)
  <2>1. (a % m) + b \in Int
    BY ModRange
  <2> QED BY <2>1, ModQuotient
<1>3. ((a % m) + b) % m \in 0 .. m - 1 /\ a % m \in Int
  BY ModRange
<1>4. a + b = (m * (p + q)) + (((a % m) + b) % m)
  <2>1. m * (p + q) = m * p + m * q
    OBVIOUS
  <2>2. m * p \in Int /\ m * q \in Int
    OBVIOUS
  <2> DEFINE x == m * p
             y == m * q
             z == a % m
             w == (z + b) % m
  <2>3. w \in Int /\ z \in Int /\ x \in Int /\ y \in Int
    BY <1>3, <2>2
  <2>4. a = y + z /\ z + b = x + w
    BY <1>1, <1>2
  <2> HIDE DEF x, y, z, w
  <2>5. a + b = (x + y) + w
    BY <2>3, <2>4
  <2>6. m * (p + q) = x + y
    BY <2>1 DEF x, y
  <2> QED BY <2>3, <2>5, <2>6 DEF w, z
<1>5. p + q \in Int /\ a + b \in Int
  OBVIOUS
<1> QED BY <1>3, <1>4, <1>5, ModUnique

(* Counting on by one.                                                     *)
LEMMA ModNext ==
  ASSUME NEW m \in Nat \ {0}, NEW a \in Int
  PROVE  (a + 1) % m = IF a % m = m - 1 THEN 0 ELSE (a % m) + 1
<1> DEFINE r == a % m
<1>1. r \in 0 .. m - 1
  BY ModRange
<1>2. (a + 1) % m = (r + 1) % m
  <2>1. 1 \in Int
    OBVIOUS
  <2> QED BY <2>1, ModAdds, Zenon
<1>3. CASE r = m - 1
  <2>1. r + 1 = m * 1 + 0 /\ 0 \in 0 .. m - 1 /\ r + 1 \in Int
    BY <1>1, <1>3
  <2>2. (r + 1) % m = 0
    <3> DEFINE t == r + 1
    <3>1. t \in Int /\ t = m * 1 + 0 /\ 0 \in 0 .. m - 1
      BY <2>1
    <3> HIDE DEF t
    <3>2. t % m = 0
      BY <3>1, ModUnique
    <3> QED BY <3>2 DEF t
  <2> QED BY <1>2, <1>3, <2>2
<1>4. CASE r # m - 1
  <2>1. r + 1 \in 0 .. m - 1
    BY <1>1, <1>4
  <2>2. (r + 1) % m = r + 1
    BY <2>1, ModSmall
  <2> QED BY <1>2, <1>4, <2>2
<1> QED BY <1>3, <1>4

-----------------------------------------------------------------------------
(* The kinds of values.                                                    *)
TapStates ==
  {"Reset", "Idle", "SelectDR", "SelectIR", "CaptureDR", "ShiftDR", "Exit1DR", "UpdateDR"}
Data == {"ShiftDR", "Exit1DR", "UpdateDR"}
Opcodes == {"none", "header", "payload"}
Engines ==
  [bit_count : Nat, response_length : Nat, response_opcode : Opcodes,
   pending_response : BOOLEAN, response_active : BOOLEAN, payload_commit : BOOLEAN,
   payload_abort : BOOLEAN]
Headers ==
  [read_count : -1 .. CountMod - 1, write_count : -1 .. CountMod - 1,
   available_bytes : -1 .. BufferSize, session : -1 .. MaxResets]
Number == 0 .. CountMod - 1
Arrivals == [session : -1 .. MaxResets, number : -1 .. CountMod - 1]
Commands ==
  [opcode : Opcodes, length : 0 .. BlockSize + HeaderBytes, tdi : Opcodes, sent : Nat, clean : BOOLEAN, header : Headers,
   payload : Seq(Arrivals), done : BOOLEAN]
Hosts ==
  [pc : {"tap_reset", "open", "check", "header", "payload", "failed", "ended"}, edges : 0 .. 6,
   header : Headers, expected : Int, starting : BOOLEAN, claimed : BOOLEAN,
   error : {"none", "usb", "header", "mismatch", "open"}]

MailboxInv ==
  /\ unread \in Seq(Number) /\ block \in Seq(Number) /\ visible \in Nat
  /\ read_count \in Number /\ write_count \in Number
  /\ visible <= Len(unread) /\ Len(unread) <= BufferSize /\ Len(block) <= visible

TypesInv ==
  /\ MailboxInv
  /\ tap \in TapStates /\ sel \in BOOLEAN /\ aborted \in BOOLEAN
  /\ dr \in Engines /\ header_snapshot \in Headers
  /\ cmd \in Commands /\ host \in Hosts
  /\ delivered \in Seq(Arrivals) /\ fails \in Nat /\ resets \in 0 .. MaxResets

-----------------------------------------------------------------------------
(* The TAP controller and the command engine at one edge.                  *)
LEMMA TapMoves ==
  /\ tap = "Reset" => TapNext(0) = "Idle" /\ TapNext(1) = "Reset"
  /\ tap = "Idle" => TapNext(0) = "Idle" /\ TapNext(1) = "SelectDR"
  /\ tap = "SelectDR" => TapNext(0) = "CaptureDR" /\ TapNext(1) = "SelectIR"
  /\ tap = "SelectIR" => TapNext(1) = "Reset"
  /\ tap = "CaptureDR" => TapNext(0) = "ShiftDR" /\ TapNext(1) = "Exit1DR"
  /\ tap = "ShiftDR" => TapNext(0) = "ShiftDR" /\ TapNext(1) = "Exit1DR"
  /\ tap = "Exit1DR" => TapNext(1) = "UpdateDR"
  /\ tap = "UpdateDR" => TapNext(0) = "Idle" /\ TapNext(1) = "SelectDR"
BY DEF TapNext

LEMMA EngineTypes ==
  ASSUME dr \in Engines, NEW opcode \in Opcodes, NEW length \in Nat
  PROVE  /\ quiet \in Engines /\ captured \in Engines /\ response_done \in Engines
         /\ request_done(opcode, length) \in Engines /\ EngineNext(opcode, length) \in Engines
<1>1. /\ quiet \in Engines
      /\ captured = [quiet EXCEPT !.bit_count = 0, !.response_active = dr.pending_response]
      /\ captured \in Engines
  BY DEF quiet, captured, Engines
<1>2. response_done \in Engines /\ request_done(opcode, length) \in Engines
  BY <1>1 DEF response_done, request_done, Engines
<1>3. [quiet EXCEPT !.bit_count = dr.bit_count + 1] \in Engines
  BY <1>1 DEF Engines
<1> QED BY <1>1, <1>2, <1>3 DEF EngineNext

(* What the engine becomes at an edge, by the state of the TAP.            *)
Silent(e) == ~e.payload_commit /\ ~e.payload_abort
Keeps(e) ==
  e.response_opcode = dr.response_opcode /\ e.response_length = dr.response_length

Captures(e) ==
  /\ Silent(e) /\ Keeps(e) /\ e.bit_count = 0
  /\ e.pending_response = dr.pending_response /\ e.response_active = dr.pending_response
Shifts(e) ==
  /\ Silent(e) /\ Keeps(e) /\ e.bit_count = dr.bit_count + 1
  /\ e.pending_response = dr.pending_response /\ e.response_active = dr.response_active
Ends(e) ==
  /\ Keeps(e) /\ e.bit_count = dr.bit_count
  /\ ~e.pending_response /\ ~e.response_active
  /\ e.payload_commit <=> (dr.response_opcode = "payload" /\ exact)
  /\ e.payload_abort <=> (dr.response_opcode = "payload" /\ ~exact)
Asks(e, opcode, length) ==
  /\ Silent(e) /\ e.bit_count = dr.bit_count /\ ~e.response_active
  /\ e.pending_response <=> (dr.bit_count = RequestBits /\ opcode # "none")
  /\ e.pending_response => e.response_opcode = opcode /\ e.response_length = length
Quiets(e) ==
  /\ Silent(e) /\ Keeps(e) /\ e.bit_count = dr.bit_count
  /\ e.pending_response = dr.pending_response /\ e.response_active = dr.response_active

LEMMA EngineMoves ==
  ASSUME dr \in Engines, NEW opcode \in Opcodes, NEW length \in Nat
  PROVE  /\ sel /\ tap = "CaptureDR" => Captures(EngineNext(opcode, length))
         /\ sel /\ tap = "ShiftDR" => Shifts(EngineNext(opcode, length))
         /\ sel /\ tap = "UpdateDR" /\ dr.response_active => Ends(EngineNext(opcode, length))
         /\ sel /\ tap = "UpdateDR" /\ ~dr.response_active =>
              Asks(EngineNext(opcode, length), opcode, length)
         /\ ~sel \/ tap \notin {"CaptureDR", "ShiftDR", "UpdateDR"} =>
              Quiets(EngineNext(opcode, length))
<1>1. Quiets(quiet) /\ quiet \in Engines
  BY EngineTypes DEF quiet, Quiets, Silent, Keeps, Engines
<1> DEFINE shifted == [quiet EXCEPT !.bit_count = dr.bit_count + 1]
<1>2. Captures(captured) /\ Shifts(shifted)
  BY <1>1 DEF captured, Captures, Shifts, Quiets, Silent, Keeps, Engines
<1>3. dr.response_active \in BOOLEAN /\ exact \in BOOLEAN
  BY DEF Engines, exact
<1>4. Ends(response_done)
  <2> DEFINE done == [quiet EXCEPT !.pending_response = FALSE, !.response_active = FALSE]
  <2>1. /\ done \in Engines /\ Silent(done) /\ Keeps(done) /\ done.bit_count = dr.bit_count
        /\ ~done.pending_response /\ ~done.response_active
    BY <1>1 DEF Engines, Quiets, Silent, Keeps
  <2>2. response_done = CASE dr.response_opcode # "payload" -> done
                          [] dr.response_opcode = "payload" /\ exact ->
                               [done EXCEPT !.payload_commit = TRUE]
                          [] OTHER -> [done EXCEPT !.payload_abort = TRUE]
    BY DEF response_done
  <2> HIDE DEF done
  <2>3. CASE dr.response_opcode # "payload"
    BY <2>1, <2>2, <2>3 DEF Ends, Silent
  <2>4. CASE dr.response_opcode = "payload" /\ exact
    BY <2>1, <2>2, <2>4 DEF Ends, Silent, Keeps, Engines
  <2>5. CASE dr.response_opcode = "payload" /\ ~exact
    BY <2>1, <2>2, <2>5 DEF Ends, Silent, Keeps, Engines
  <2> QED BY <1>3, <2>3, <2>4, <2>5
<1>5. ~dr.response_active => Asks(request_done(opcode, length), opcode, length)
  <2>1. CASE dr.bit_count = RequestBits /\ opcode # "none"
    BY <1>1, <2>1 DEF request_done, Asks, Quiets, Silent, Engines
  <2>2. CASE ~(dr.bit_count = RequestBits /\ opcode # "none")
    BY <1>1, <2>2 DEF request_done, Asks, Quiets, Silent, Engines
  <2> QED BY <2>1, <2>2
<1> HIDE DEF shifted
<1>6. /\ sel /\ tap = "CaptureDR" => EngineNext(opcode, length) = captured
      /\ sel /\ tap = "ShiftDR" => EngineNext(opcode, length) = shifted
      /\ sel /\ tap = "UpdateDR" /\ dr.response_active => EngineNext(opcode, length) = response_done
      /\ sel /\ tap = "UpdateDR" /\ ~dr.response_active =>
           EngineNext(opcode, length) = request_done(opcode, length)
      /\ ~sel \/ tap \notin {"CaptureDR", "ShiftDR", "UpdateDR"} =>
           EngineNext(opcode, length) = quiet
  BY DEF EngineNext, shifted
<1> QED BY <1>1, <1>2, <1>4, <1>5, <1>6

LEMMA ResetEngine ==
  /\ EngineReset \in Engines /\ Silent(EngineReset) /\ EngineReset.bit_count = 0
  /\ ~EngineReset.pending_response /\ ~EngineReset.response_active
BY DEF EngineReset, Engines, Opcodes, Silent

-----------------------------------------------------------------------------
(* The ring at one edge.                                                   *)
Counts(n) == M!u32Plus(read_count, n)
Committing ==
  /\ block' = <<>> /\ read_count' = Counts(Len(block))
  /\ unread' = SubSeq(unread, Len(block) + 1, Len(unread)) /\ Len(unread') = Len(unread) - Len(block)
  /\ visible' \in (visible - Len(block)) .. Len(unread')
Grows == unread' = unread /\ visible' \in visible .. Len(unread) /\ read_count' = read_count
Aborting == Grows /\ block' = <<>>
Taking ==
  /\ Grows /\ Len(block) < visible /\ block' = Append(block, unread[Len(block) + 1])
Resting == Grows /\ block' = block

LEMMA RingMoves ==
  ASSUME MailboxInv, dr \in Engines, ~(dr.payload_commit /\ dr.payload_abort), RingEdge
  PROVE  /\ dr.payload_commit => Committing
         /\ dr.payload_abort => Aborting
         /\ payload_ready /\ Silent(dr) => Taking
         /\ ~payload_ready /\ Silent(dr) => Resting
         /\ MailboxInv' /\ write_count' = write_count
<1>1. PICK removed \in 0 .. Len(block) :
        /\ \/ dr.payload_commit /\ M!Commit(removed)
           \/ dr.payload_abort /\ M!Abort(removed)
           \/ payload_ready /\ ~dr.payload_commit /\ ~dr.payload_abort /\ M!Take(removed)
           \/ ~payload_ready /\ ~dr.payload_commit /\ ~dr.payload_abort /\ M!NoRead(removed)
        /\ M!Exchange(<<>>, removed)
        /\ UNCHANGED <<write_count, dropped>>
  BY DEF RingEdge
<1>2. /\ unread \in Seq(Number) /\ block \in Seq(Number) /\ visible \in Nat
      /\ Len(unread) \in Nat /\ Len(block) \in Nat
      /\ visible <= Len(unread) /\ Len(unread) <= BufferSize /\ Len(block) <= visible
      /\ read_count \in Number /\ write_count \in Number
  BY DEF MailboxInv
<1>3. /\ dr.payload_commit \in BOOLEAN /\ dr.payload_abort \in BOOLEAN
      /\ payload_ready \in BOOLEAN
  BY DEF Engines, payload_ready
<1>4. /\ visible' \in (visible - removed) .. (Len(unread) - removed)
      /\ unread' = SubSeq(unread, removed + 1, Len(unread))
  <2>1. SubSeq(unread, removed + 1, Len(unread)) \in Seq(Number)
    BY <1>2
  <2>2. SubSeq(unread, removed + 1, Len(unread)) \o <<>> = SubSeq(unread, removed + 1, Len(unread))
    BY <2>1
  <2> QED BY <1>1, <2>2 DEF M!Exchange
<1>5. CASE dr.payload_commit
  <2>1. removed = Len(block) /\ block' = <<>> /\ read_count' = Counts(Len(block))
    BY <1>1, <1>5 DEF M!Commit, Counts
  <2>2. Len(unread') = Len(unread) - Len(block) /\ unread' \in Seq(Number)
    BY <1>2, <1>4, <2>1
  <2>3. Committing
    BY <1>2, <1>4, <2>1, <2>2 DEF Committing
  <2>4. read_count' \in Number
    BY <1>2, <2>1, LinkAssumption DEF Counts, M!u32Plus, Number
  <2>5. MailboxInv'
    <3>1. visible' \in Nat /\ visible' <= Len(unread') /\ Len(unread') <= BufferSize
      <4> DEFINE n == Len(block)
                 all == Len(unread)
      <4>1. n \in Nat /\ all \in Nat /\ n <= visible /\ all <= BufferSize /\ BufferSize \in Nat
        BY <1>2, LinkAssumption
      <4>2. visible' \in (visible - n) .. (all - n) /\ Len(unread') = all - n
        BY <1>4, <2>1, <2>2
      <4> HIDE DEF n, all
      <4> QED BY <1>2, <4>1, <4>2
    <3>2. Len(block') = 0 /\ block' \in Seq(Number) /\ write_count' = write_count
      BY <1>1, <2>1
    <3> QED BY <1>2, <2>2, <2>4, <3>1, <3>2 DEF MailboxInv
  <2> QED BY <1>1, <1>5, <2>3, <2>5 DEF Silent
<1>6. ASSUME ~dr.payload_commit, removed = 0
      PROVE  unread' = unread /\ visible' \in visible .. Len(unread)
  BY <1>2, <1>4, <1>6
<1>7. CASE dr.payload_abort
  <2>1. removed = 0 /\ block' = <<>> /\ read_count' = read_count
    BY <1>1, <1>7 DEF M!Abort
  <2>2. Aborting
    BY <1>6, <1>7, <2>1 DEF Aborting, Grows
  <2>3. MailboxInv'
    BY <1>1, <1>2, <2>2 DEF MailboxInv, Aborting, Grows
  <2> QED BY <1>1, <1>7, <2>2, <2>3 DEF Silent
<1>8. CASE Silent(dr) /\ payload_ready
  <2>1. removed = 0 /\ Len(block) < visible /\ block' = Append(block, unread[Len(block) + 1])
        /\ read_count' = read_count
    BY <1>1, <1>8 DEF M!Take, Silent
  <2>2. Taking
    BY <1>6, <1>8, <2>1 DEF Taking, Grows, Silent
  <2>3. unread[Len(block) + 1] \in Number
    BY <1>2, <2>1
  <2>4. block' \in Seq(Number) /\ Len(block') = Len(block) + 1
    BY <1>2, <2>1, <2>3
  <2>5. MailboxInv'
    BY <1>1, <1>2, <2>1, <2>2, <2>4 DEF MailboxInv, Taking, Grows
  <2> QED BY <1>1, <1>8, <2>2, <2>5 DEF Silent
<1>9. CASE Silent(dr) /\ ~payload_ready
  <2>1. removed = 0 /\ block' = block /\ read_count' = read_count
    BY <1>1, <1>9 DEF M!NoRead, Silent
  <2>2. Resting
    BY <1>6, <1>9, <2>1 DEF Resting, Grows, Silent
  <2>3. MailboxInv'
    BY <1>1, <1>2, <2>2 DEF MailboxInv, Resting, Grows
  <2> QED BY <1>1, <1>9, <2>2, <2>3 DEF Silent
<1> QED BY <1>3, <1>5, <1>7, <1>8, <1>9 DEF Silent

-----------------------------------------------------------------------------
(* The command engine: a response is active only while a data-register     *)
(* scan shows it; the strobes come with the TAP between two scans, and     *)
(* what the ring has lent is given back or taken by one of them.           *)
Paying == dr.response_active /\ dr.response_opcode = "payload"
Strobes == dr.payload_commit \/ dr.payload_abort
Between == {"Reset", "Idle", "SelectDR", "SelectIR"}

EngineInv ==
  /\ ~sel => ~dr.pending_response /\ Silent(dr) /\ tap \in Between
  /\ tap = "Reset" => ~sel
  /\ dr.response_active <=> (dr.pending_response /\ tap \in Data)
  /\ dr.pending_response => dr.response_opcode # "none" /\ Silent(dr)
  /\ Strobes => tap \in {"Idle", "SelectDR"}
  /\ ~(dr.payload_commit /\ dr.payload_abort)
  /\ aborted => tap \in {"Idle", "SelectDR", "CaptureDR", "SelectIR"}
  /\ block # <<>> => Paying \/ Strobes

PathTypes ==
  /\ MailboxInv /\ dr \in Engines /\ tap \in TapStates /\ sel \in BOOLEAN
  /\ aborted \in BOOLEAN /\ cmd \in Commands

Allowed(tms) ==
  /\ tms \in {0, 1}
  /\ \/ tms = 1 \/ tap = "Reset"
     \/ sel /\ tap \in {"SelectDR", "CaptureDR", "ShiftDR", "UpdateDR"}

LEMMA TapGoes ==
  ASSUME tap \in TapStates, NEW tms, Allowed(tms)
  PROVE  TapNext(tms) \in TapStates
BY TapMoves DEF TapStates, Allowed

(* The block after an edge.                                                *)
LEMMA BlockMoves ==
  ASSUME PathTypes, EngineInv, RingEdge
  PROVE  /\ Strobes => block' = <<>>
         /\ ~Strobes /\ ~payload_ready => block' = block
         /\ payload_ready => Paying /\ tap = "ShiftDR" /\ ~Strobes
<1>1. dr \in Engines /\ MailboxInv
  BY DEF PathTypes
<1>2. payload_ready => Paying /\ tap = "ShiftDR"
  BY DEF payload_ready, payload_valid, responding, Paying
<1>3. ~(dr.payload_commit /\ dr.payload_abort)
  BY DEF EngineInv
<1>4. tap = "ShiftDR" => ~Strobes
  BY DEF EngineInv
<1>5. /\ dr.payload_commit => block' = <<>>
      /\ dr.payload_abort => block' = <<>>
      /\ ~payload_ready /\ Silent(dr) => block' = block
  BY <1>1, <1>3, RingMoves DEF Committing, Aborting, Resting
<1> QED BY <1>2, <1>4, <1>5 DEF Strobes, Silent

LEMMA EngineEdge ==
  ASSUME PathTypes, EngineInv, NEW tms, Allowed(tms), Edge(tms)
  PROVE  EngineInv' /\ dr' \in Engines /\ tap' \in TapStates /\ sel' \in BOOLEAN
         /\ aborted' \in BOOLEAN
<1>1. /\ dr \in Engines /\ MailboxInv /\ tap \in TapStates /\ sel \in BOOLEAN
      /\ cmd.tdi \in Opcodes /\ cmd.length \in Nat /\ aborted \in BOOLEAN
  BY LinkAssumption DEF PathTypes, Commands
<1>2. /\ tap' = TapNext(tms) /\ sel' = (sel /\ tap' # "Reset")
      /\ dr' = IF tap' = "Reset" THEN EngineReset ELSE EngineNext(cmd.tdi, cmd.length)
      /\ aborted' = dr.payload_abort /\ RingEdge
  BY DEF Edge
<1>3. dr' \in Engines /\ tap' \in TapStates /\ sel' \in BOOLEAN /\ aborted' \in BOOLEAN
  <2>1. EngineNext(cmd.tdi, cmd.length) \in Engines
    BY <1>1, EngineTypes
  <2>2. dr.payload_abort \in BOOLEAN
    BY <1>1 DEF Engines
  <2> QED BY <1>1, <1>2, <2>1, <2>2, ResetEngine, TapGoes
<1>4. CASE tap' = "Reset"
  <2>1. tap \in {"Reset", "SelectIR"}
    BY <1>1, <1>2, <1>4, TapMoves DEF TapStates, Allowed
  <2>2. ~Strobes /\ ~Paying /\ block = <<>>
    BY <2>1 DEF EngineInv, Paying, Data
  <2>3. block' = <<>> /\ ~aborted'
    BY <1>1, <1>2, <2>2, BlockMoves DEF Strobes
  <2>4. dr' = EngineReset /\ ~sel'
    BY <1>2, <1>4
  <2> QED BY <1>3, <1>4, <2>3, <2>4, ResetEngine DEF EngineInv, Silent, Strobes, Between
<1> DEFINE e == EngineNext(cmd.tdi, cmd.length)
<1>5. ASSUME tap' # "Reset" PROVE EngineInv'
  <2>1. dr' = e /\ sel' = sel
    BY <1>1, <1>2, <1>5
  <2>2. /\ sel /\ tap = "CaptureDR" => Captures(e)
        /\ sel /\ tap = "ShiftDR" => Shifts(e)
        /\ sel /\ tap = "UpdateDR" /\ dr.response_active => Ends(e)
        /\ sel /\ tap = "UpdateDR" /\ ~dr.response_active => Asks(e, cmd.tdi, cmd.length)
        /\ ~sel \/ tap \notin {"CaptureDR", "ShiftDR", "UpdateDR"} => Quiets(e)
    BY <1>1, EngineMoves
  <2>3. /\ Strobes => block' = <<>>
        /\ ~Strobes /\ ~payload_ready => block' = block
        /\ payload_ready => Paying /\ tap = "ShiftDR" /\ ~Strobes
    BY <1>2, BlockMoves
  <2>4. aborted' => tap \in {"Idle", "SelectDR"}
    BY <1>2 DEF EngineInv, Strobes
  <2>5. block' # <<>> => block # <<>> \/ payload_ready
    BY <2>3
  <2> HIDE DEF e
  <2>6. CASE ~sel
    <3>1. tap' \in Between /\ tap \in Between
      BY <1>1, <1>2, <2>6, TapMoves DEF EngineInv, Allowed, Between
    <3>2. Quiets(dr') /\ ~dr'.pending_response /\ ~dr'.response_active /\ ~sel'
      BY <2>1, <2>2, <2>6 DEF Quiets, EngineInv
    <3>3. block' = <<>>
      BY <2>3, <2>6 DEF EngineInv, Paying, Strobes, Silent
    <3>4. ~aborted'
      BY <1>2, <2>6 DEF EngineInv, Silent
    <3> QED BY <1>5, <3>1, <3>2, <3>3, <3>4 DEF EngineInv, Quiets, Silent, Strobes, Between
  <2>7. CASE sel /\ tap = "CaptureDR"
    <3>1. Captures(dr') /\ tap' \in {"ShiftDR", "Exit1DR"}
      BY <1>1, <1>2, <2>1, <2>2, <2>7, TapMoves DEF Allowed
    <3>2. block' = <<>>
      BY <2>3, <2>7 DEF EngineInv, Paying, Strobes, Data
    <3>3. ~aborted' /\ (dr.pending_response => dr.response_opcode # "none")
      BY <2>4, <2>7 DEF EngineInv
    <3> QED BY <1>5, <2>1, <2>7, <3>1, <3>2, <3>3
            DEF EngineInv, Captures, Keeps, Silent, Strobes, Data
  <2>8. CASE sel /\ tap = "ShiftDR"
    <3>1. Shifts(dr') /\ tap' \in {"ShiftDR", "Exit1DR"}
      BY <1>1, <1>2, <2>1, <2>2, <2>8, TapMoves DEF Allowed
    <3>2. block' # <<>> => Paying
      BY <2>3, <2>5, <2>8 DEF EngineInv, Strobes
    <3>3. ~aborted'
      BY <2>4, <2>8
    <3>4. /\ dr.pending_response => dr.response_opcode # "none"
          /\ dr.response_active <=> dr.pending_response
      BY <2>8 DEF EngineInv, Data
    <3> QED BY <1>5, <2>1, <2>8, <3>1, <3>2, <3>3, <3>4
            DEF EngineInv, Shifts, Keeps, Silent, Strobes, Data, Paying
  <2>9. CASE sel /\ tap = "UpdateDR"
    <3>1. tap' \in {"Idle", "SelectDR"} /\ ~aborted'
      BY <1>1, <1>2, <2>4, <2>9, TapMoves DEF Allowed
    <3>2. block' # <<>> => Paying
      BY <2>3, <2>5, <2>9 DEF EngineInv, Strobes
    <3>3. CASE dr.response_active
      <4>1. Ends(dr')
        BY <2>1, <2>2, <2>9, <3>3
      <4>2. Paying => Strobes'
        BY <4>1 DEF Ends, Paying, Strobes
      <4> QED BY <1>5, <2>1, <2>9, <3>1, <3>2, <4>1, <4>2
              DEF EngineInv, Ends, Silent, Strobes, Data
    <3>4. CASE ~dr.response_active
      <4>1. Asks(dr', cmd.tdi, cmd.length)
        BY <2>1, <2>2, <2>9, <3>4
      <4> QED BY <1>5, <2>1, <2>9, <3>1, <3>2, <3>4, <4>1
              DEF EngineInv, Asks, Silent, Strobes, Data, Paying
    <3> QED BY <3>3, <3>4
  <2>10. CASE sel /\ tap \notin {"CaptureDR", "ShiftDR", "UpdateDR"}
    <3>1. Quiets(dr') /\ tap \in {"Idle", "SelectDR", "SelectIR", "Exit1DR"}
      BY <1>1, <2>1, <2>2, <2>10 DEF EngineInv, TapStates
    <3>2. /\ tap = "Idle" => tap' = "SelectDR"
          /\ tap = "SelectDR" => tap' \in {"CaptureDR", "SelectIR"}
          /\ tap = "Exit1DR" => tap' = "UpdateDR"
          /\ tap # "SelectIR"
      BY <1>1, <1>2, <1>5, <3>1, TapMoves DEF Allowed
    <3>3. aborted' => tap' \in {"Idle", "SelectDR", "CaptureDR", "SelectIR"}
      BY <2>4, <3>2
    <3>4. block' # <<>> => Paying /\ tap = "Exit1DR"
      <4>1. ~payload_ready
        BY <2>3, <3>1
      <4>2. Paying => tap \in Data
        BY DEF EngineInv, Paying
      <4> QED BY <2>3, <3>1, <4>1, <4>2 DEF EngineInv, Data
    <3>5. dr.response_active <=> (dr.pending_response /\ tap = "Exit1DR")
      BY <3>1 DEF EngineInv, Data
    <3>6. dr.pending_response => dr.response_opcode # "none"
      BY DEF EngineInv
    <3>7. (dr'.response_active <=> (dr'.pending_response /\ tap' \in Data))
          /\ (block' # <<>> => Paying' \/ Strobes')
      BY <3>1, <3>2, <3>4, <3>5 DEF Quiets, Keeps, Paying, Data
    <3> QED BY <1>5, <2>1, <2>10, <3>1, <3>2, <3>3, <3>6, <3>7
            DEF EngineInv, Quiets, Keeps, Silent, Strobes
  <2> QED BY <1>1, <2>6, <2>7, <2>8, <2>9, <2>10
<1> QED BY <1>3, <1>4, <1>5

-----------------------------------------------------------------------------
(* The scanner and the host.  While a command runs, what the TAP does and  *)
(* what the engine holds follow the bits the host has sent; after a        *)
(* failure the TAP is led to Test-Logic-Reset from wherever it stands.     *)
Running == host.pc \in {"open", "check", "header", "payload"}

Togo ==
  CASE tap = "Reset" -> 0 [] tap = "SelectIR" -> 1 [] tap = "SelectDR" -> 2
    [] tap \in {"UpdateDR", "Idle"} -> 3 [] tap = "Exit1DR" -> 4
    [] tap \in {"CaptureDR", "ShiftDR"} -> 5

ResetInv ==
  host.pc = "tap_reset" =>
    /\ host.edges > 0 => Togo < host.edges
    /\ host.edges = 0 => tap = "Idle" /\ ~sel

CommandInv ==
  /\ dr.pending_response =>
       /\ dr.response_length = cmd.length
       /\ cmd.tdi = "none" \/ (tap \in {"SelectDR", "SelectIR"} /\ ~Running)
  /\ tap = "CaptureDR" \/ tap \in Data => cmd.length > 0
  /\ tap = "ShiftDR" => dr.bit_count < scan_bits
  /\ dr.bit_count <= MaxScan
  /\ cmd.tdi = "payload" => cmd.length <= BlockSize /\ ~dr.payload_commit
  /\ dr.pending_response /\ dr.response_opcode = "payload" => cmd.length <= BlockSize
  /\ ~Running => cmd.opcode = "none" /\ cmd.payload = <<>> /\ ~cmd.done

Wanted == IF host.pc = "payload" THEN "payload" ELSE "header"
Longest == IF host.pc = "payload" THEN BlockSize ELSE HeaderBytes

ScanInv ==
  Running =>
    /\ sel /\ ~dr.payload_abort /\ tap \in {"Idle", "SelectDR", "CaptureDR"} \cup Data
    /\ cmd.opcode = Wanted /\ 1 <= cmd.length /\ cmd.length <= Longest
    /\ requesting => cmd.tdi = Wanted /\ ~dr.pending_response /\ ~cmd.done
    /\ cmd.done => tap = "Idle" /\ ~dr.pending_response
    /\ cmd.done \/ tap \in {"Exit1DR", "UpdateDR"} => cmd.sent = scan_bits
    /\ tap = "ShiftDR" => cmd.sent < scan_bits
    /\ ~cmd.done /\ tap \in {"Idle", "SelectDR", "CaptureDR"} => cmd.sent = 0
    /\ tap \in Data => dr.bit_count <= cmd.sent
    /\ dr.pending_response => dr.response_opcode = Wanted
    /\ dr.response_active => dr.bit_count = cmd.sent
    /\ dr.payload_commit => \/ host.pc = "payload" /\ cmd.done
                            \/ host.pc = "header" /\ requesting /\ tap = "Idle"

Base == TypesInv /\ EngineInv /\ ResetInv /\ CommandInv /\ ScanInv

LEMMA PathIsTyped == TypesInv => PathTypes
BY DEF TypesInv, PathTypes

(* What an edge of a running command does.                                 *)
ScanTap ==
  \/ tap = "Idle" /\ tap' = "SelectDR" /\ cmd' = cmd
  \/ tap = "SelectDR" /\ tap' = "CaptureDR" /\ cmd' = cmd
  \/ tap = "CaptureDR" /\ tap' = "ShiftDR" /\ cmd' = cmd
  \/ /\ tap = "ShiftDR" /\ cmd' = Received
     /\ tap' = IF cmd.sent + 1 = scan_bits THEN "Exit1DR" ELSE "ShiftDR"
  \/ tap = "Exit1DR" /\ tap' = "UpdateDR" /\ cmd' = cmd
  \/ /\ tap = "UpdateDR" /\ tap' = "Idle"
     /\ cmd' = IF requesting THEN [cmd EXCEPT !.tdi = "none", !.sent = 0]
               ELSE [cmd EXCEPT !.done = TRUE]

LEMMA ScanSteps ==
  ASSUME Base, ScanEdge
  PROVE  /\ Running /\ ~cmd.done /\ sel /\ sel'
         /\ dr' = EngineNext(cmd.tdi, cmd.length) /\ RingEdge /\ SnapshotEdge
         /\ EngineInv' /\ dr' \in Engines /\ tap' \in TapStates /\ aborted' \in BOOLEAN
         /\ UNCHANGED <<host, delivered, fails, resets>>
         /\ ScanTap
<1>1. cmd.opcode # "none" /\ ~cmd.done /\ UNCHANGED <<host, delivered, fails, resets>>
  BY DEF ScanEdge
<1>2. Running /\ sel
  BY <1>1 DEF Base, CommandInv, ScanInv
<1>3. \E tms \in {0, 1} :
        /\ Allowed(tms) /\ Edge(tms)
        /\ \/ tap \in {"Idle", "Exit1DR"} /\ tms = 1 /\ cmd' = cmd
           \/ tap \in {"SelectDR", "CaptureDR"} /\ tms = 0 /\ cmd' = cmd
           \/ /\ tap = "ShiftDR" /\ tms = (IF cmd.sent + 1 = scan_bits THEN 1 ELSE 0)
              /\ cmd' = Received
           \/ /\ tap = "UpdateDR" /\ tms = 0
              /\ cmd' = IF requesting THEN [cmd EXCEPT !.tdi = "none", !.sent = 0]
                        ELSE [cmd EXCEPT !.done = TRUE]
  BY <1>2 DEF ScanEdge, Allowed
<1>4. PICK tms \in {0, 1} :
        /\ Allowed(tms) /\ Edge(tms)
        /\ \/ tap \in {"Idle", "Exit1DR"} /\ tms = 1 /\ cmd' = cmd
           \/ tap \in {"SelectDR", "CaptureDR"} /\ tms = 0 /\ cmd' = cmd
           \/ /\ tap = "ShiftDR" /\ tms = (IF cmd.sent + 1 = scan_bits THEN 1 ELSE 0)
              /\ cmd' = Received
           \/ /\ tap = "UpdateDR" /\ tms = 0
              /\ cmd' = IF requesting THEN [cmd EXCEPT !.tdi = "none", !.sent = 0]
                        ELSE [cmd EXCEPT !.done = TRUE]
  BY <1>3
<1>5. /\ tap' = TapNext(tms) /\ sel' = (sel /\ tap' # "Reset")
      /\ dr' = IF tap' = "Reset" THEN EngineReset ELSE EngineNext(cmd.tdi, cmd.length)
      /\ RingEdge /\ SnapshotEdge
  BY <1>4 DEF Edge
<1>6. ScanTap /\ tap' # "Reset"
  BY <1>4, <1>5, TapMoves DEF ScanTap
<1>7. EngineInv' /\ dr' \in Engines /\ tap' \in TapStates /\ aborted' \in BOOLEAN
  BY <1>4, EngineEdge, PathIsTyped DEF Base
<1> QED BY <1>1, <1>2, <1>5, <1>6, <1>7

(* What the host makes of a bit.                                           *)
Clean ==
  tdo_valid /\ (cmd.clean \/ cmd.sent = 0 \/ (cmd.sent % ByteBits = 0 /\ cmd.opcode = "payload"))
Arrived == IF Clean THEN [session |-> resets, number |-> unread[Len(block) + 1]] ELSE Garbage
Heard ==
  IF Clean
  THEN [(IF cmd.sent = 0 THEN header_snapshot ELSE cmd.header) EXCEPT
          !.available_bytes = header_snapshot.available_bytes]
  ELSE NoHeader

LEMMA NoHeaderIs == NoHeader \in Headers /\ NoCommand \in Commands
<1>1. NoHeader \in Headers
  BY LinkAssumption DEF NoHeader, HeaderOf, Headers
<1>2. 0 \in 0 .. BlockSize + HeaderBytes
  BY LinkAssumption
<1> QED BY <1>1, <1>2 DEF NoCommand, Commands, Opcodes

LEMMA ReceivedIs ==
  ASSUME Base, Running
  PROVE  /\ requesting => Received = [cmd EXCEPT !.sent = cmd.sent + 1]
         /\ ~requesting /\ cmd.opcode = "header" =>
              Received = [cmd EXCEPT !.sent = cmd.sent + 1, !.clean = Clean, !.header = Heard]
         /\ ~requesting /\ cmd.opcode = "payload" =>
              Received = IF (cmd.sent + 1) % ByteBits = 0
                         THEN [cmd EXCEPT !.sent = cmd.sent + 1, !.clean = Clean,
                                          !.payload = Append(cmd.payload, Arrived)]
                         ELSE [cmd EXCEPT !.sent = cmd.sent + 1, !.clean = Clean]
         /\ Received \in Commands
         /\ Clean => in_response /\ (cmd.opcode = "payload" => payload_valid)
<1>1. cmd \in Commands /\ cmd.opcode \in {"header", "payload"}
  BY DEF Base, TypesInv, ScanInv, Wanted
<1>2. requesting => Received = [cmd EXCEPT !.sent = cmd.sent + 1]
  BY <1>1 DEF Received, Commands
<1>3. ~requesting /\ cmd.opcode = "header" =>
        Received = [cmd EXCEPT !.sent = cmd.sent + 1, !.clean = Clean, !.header = Heard]
  BY <1>1 DEF Received, Commands, Clean, Heard
<1>4. ~requesting /\ cmd.opcode = "payload" =>
        Received = IF (cmd.sent + 1) % ByteBits = 0
                   THEN [cmd EXCEPT !.sent = cmd.sent + 1, !.clean = Clean,
                                    !.payload = Append(cmd.payload, Arrived)]
                   ELSE [cmd EXCEPT !.sent = cmd.sent + 1, !.clean = Clean]
  BY <1>1 DEF Received, Commands, Clean, Arrived
<1>5. Clean => in_response /\ (cmd.opcode = "payload" => payload_valid)
  <2>1. Clean => in_response /\ (responding("header") \/ payload_valid)
    BY DEF Clean, tdo_valid
  <2>2. responding("header") => cmd.opcode = "header"
    BY DEF responding, Base, EngineInv, ScanInv
  <2> QED BY <2>1, <2>2
<1>6. Clean \in BOOLEAN
  BY DEF Clean, tdo_valid, in_response
<1>7. Heard \in Headers
  <2>1. header_snapshot \in Headers /\ cmd.header \in Headers
    BY <1>1 DEF Base, TypesInv, Commands
  <2> QED BY <2>1, NoHeaderIs DEF Heard, Headers
<1>8. cmd.opcode = "payload" => Arrived \in Arrivals
  <2>1. CASE ~Clean
    BY <2>1, LinkAssumption DEF Arrived, Garbage, Arrivals
  <2>2. CASE Clean /\ cmd.opcode = "payload"
    <3>1. Len(block) < visible
      BY <1>5, <2>2 DEF payload_valid, ring_valid
    <3>2. unread[Len(block) + 1] \in Number
      BY <3>1 DEF Base, TypesInv, MailboxInv
    <3>3. resets \in 0 .. MaxResets
      BY DEF Base, TypesInv
    <3> QED BY <2>2, <3>2, <3>3, LinkAssumption DEF Arrived, Arrivals, Number
  <2> QED BY <1>6, <2>1, <2>2
<1>9. Received \in Commands
  <2>1. requesting \in BOOLEAN /\ cmd.sent + 1 \in Nat
    BY <1>1 DEF requesting, Commands
  <2>2. CASE requesting
    BY <1>1, <1>2, <2>1, <2>2 DEF Commands
  <2>3. CASE ~requesting /\ cmd.opcode = "header"
    BY <1>1, <1>3, <1>6, <1>7, <2>1, <2>3 DEF Commands
  <2>4. CASE ~requesting /\ cmd.opcode = "payload"
    <3>1. Append(cmd.payload, Arrived) \in Seq(Arrivals)
      BY <1>1, <1>8, <2>4 DEF Commands
    <3> QED BY <1>1, <1>4, <1>6, <2>1, <2>4, <3>1 DEF Commands
  <2> QED BY <1>1, <2>1, <2>2, <2>3, <2>4
<1> QED BY <1>2, <1>3, <1>4, <1>5, <1>9

LEMMA ReceivedKeeps ==
  ASSUME Base, Running
  PROVE  /\ Received.opcode = cmd.opcode /\ Received.length = cmd.length
         /\ Received.tdi = cmd.tdi /\ Received.done = cmd.done /\ Received.sent = cmd.sent + 1
<1>1. cmd \in Commands /\ cmd.opcode \in {"header", "payload"}
  BY DEF Base, TypesInv, ScanInv, Wanted
<1>2. CASE requesting
  BY <1>1, <1>2, ReceivedIs DEF Commands
<1>3. CASE ~requesting /\ cmd.opcode = "header"
  BY <1>1, <1>3, ReceivedIs DEF Commands
<1>4. CASE ~requesting /\ cmd.opcode = "payload"
  BY <1>1, <1>4, ReceivedIs DEF Commands
<1> QED BY <1>1, <1>2, <1>3, <1>4 DEF requesting

LEMMA SnapshotTyped ==
  ASSUME TypesInv, SnapshotEdge
  PROVE  header_snapshot' \in Headers
<1>1. header_live \in Headers
  <2>1. /\ read_count \in Number /\ visible \in Nat /\ visible <= BufferSize
        /\ resets \in 0 .. MaxResets
    BY LinkAssumption DEF TypesInv, MailboxInv
  <2>2. M!u32Plus(read_count, visible) \in Number
    BY <2>1, LinkAssumption DEF M!u32Plus, Number
  <2> QED BY <2>1, <2>2, LinkAssumption DEF header_live, HeaderOf, Headers, Number
<1> QED BY <1>1 DEF SnapshotEdge, TypesInv

LEMMA RingEdgeTyped ==
  ASSUME TypesInv, EngineInv, RingEdge
  PROVE  MailboxInv'
<1>1. MailboxInv /\ dr \in Engines /\ ~(dr.payload_commit /\ dr.payload_abort)
  BY DEF TypesInv, EngineInv
<1> QED BY <1>1, RingMoves

LEMMA ScanBitsAre ==
  ASSUME cmd \in Commands
  PROVE  /\ scan_bits \in Nat /\ scan_bits <= MaxScan /\ MaxScan \in Nat
         /\ cmd.length > 0 => scan_bits > 0
<1> DEFINE n == cmd.length
           most == BlockSize + HeaderBytes
<1>1. /\ n \in Nat /\ most \in Nat /\ n <= most /\ ByteBits \in Nat /\ ByteBits > 0
      /\ RequestBits \in Nat /\ RequestBits > 0
  BY LinkAssumption DEF Commands
<1>2. scan_bits = IF requesting THEN RequestBits ELSE n * ByteBits
  BY DEF scan_bits
<1>3. MaxScan = ByteBits * most + RequestBits
  BY DEF MaxScan
<1> HIDE DEF n, most
<1>4. n * ByteBits \in Nat /\ ByteBits * most \in Nat /\ n * ByteBits <= ByteBits * most
  BY <1>1
<1>5. n > 0 => n * ByteBits > 0
  BY <1>1
<1>6. requesting \in BOOLEAN
  BY DEF requesting
<1>7. (n > 0 => scan_bits > 0) /\ scan_bits \in Nat /\ scan_bits <= MaxScan /\ MaxScan \in Nat
  BY <1>1, <1>2, <1>3, <1>4, <1>5, <1>6
<1> QED BY <1>7 DEF n

LEMMA ScanTypes ==
  ASSUME Base, ScanEdge
  PROVE  TypesInv'
<1>1. /\ EngineInv' /\ dr' \in Engines /\ tap' \in TapStates /\ aborted' \in BOOLEAN
      /\ RingEdge /\ SnapshotEdge /\ ScanTap /\ Running /\ sel'
      /\ UNCHANGED <<host, delivered, fails, resets>>
  BY ScanSteps
<1>2. MailboxInv' /\ header_snapshot' \in Headers
  BY <1>1, RingEdgeTyped, SnapshotTyped DEF Base
<1>3. cmd' \in Commands
  <2>1. cmd \in Commands /\ "none" \in Opcodes
    BY DEF Base, TypesInv, Opcodes
  <2>2. [cmd EXCEPT !.tdi = "none", !.sent = 0] \in Commands /\ [cmd EXCEPT !.done = TRUE] \in Commands
    BY <2>1 DEF Commands
  <2> QED BY <1>1, <2>1, <2>2, ReceivedIs DEF ScanTap
<1> QED BY <1>1, <1>2, <1>3 DEF TypesInv, Base

(* One state of the TAP after the other.                                   *)
LEMMA ScanKeeps ==
  ASSUME Base, ScanEdge
  PROVE  CommandInv' /\ ScanInv'
<1>1. /\ Running /\ ~cmd.done /\ sel /\ sel'
      /\ dr' = EngineNext(cmd.tdi, cmd.length) /\ EngineInv' /\ dr' \in Engines
      /\ UNCHANGED <<host, delivered, fails, resets>> /\ ScanTap
  BY ScanSteps
<1>2. cmd \in Commands /\ dr \in Engines /\ cmd.tdi \in Opcodes /\ cmd.length \in Nat
      /\ cmd.sent \in Nat /\ dr.bit_count \in Nat
  BY LinkAssumption DEF Base, TypesInv, Commands, Engines
<1>3. /\ sel /\ tap = "CaptureDR" => Captures(dr')
      /\ sel /\ tap = "ShiftDR" => Shifts(dr')
      /\ sel /\ tap = "UpdateDR" /\ dr.response_active => Ends(dr')
      /\ sel /\ tap = "UpdateDR" /\ ~dr.response_active => Asks(dr', cmd.tdi, cmd.length)
      /\ ~sel \/ tap \notin {"CaptureDR", "ShiftDR", "UpdateDR"} => Quiets(dr')
  BY <1>1, <1>2, EngineMoves
<1>4. /\ cmd.opcode = Wanted /\ 1 <= cmd.length /\ cmd.length <= Longest
      /\ requesting => cmd.tdi = Wanted /\ ~dr.pending_response
      /\ Wanted # "none" /\ (Wanted = "payload" => Longest = BlockSize)
  BY <1>1 DEF Base, ScanInv, Wanted, Longest
<1>5. scan_bits \in Nat /\ scan_bits <= MaxScan /\ scan_bits > 0 /\ MaxScan \in Nat
  BY <1>2, <1>4, ScanBitsAre
<1>6. Running' /\ Wanted' = Wanted /\ Longest' = Longest
  BY <1>1 DEF Running, Wanted, Longest
<1>7. cmd' = cmd => scan_bits' = scan_bits /\ (requesting' <=> requesting)
  BY DEF scan_bits, requesting
<1>8. CASE tap = "Idle" \/ tap = "SelectDR" \/ tap = "Exit1DR"
  <2>1. /\ Quiets(dr') /\ cmd' = cmd /\ ~dr'.payload_commit
        /\ \/ tap = "Idle" /\ tap' = "SelectDR"
           \/ tap = "SelectDR" /\ tap' = "CaptureDR"
           \/ tap = "Exit1DR" /\ tap' = "UpdateDR"
    BY <1>1, <1>3, <1>8 DEF ScanTap, Quiets, Silent
  <2>2. CommandInv'
    <3>1. /\ dr'.pending_response => dr.pending_response
          /\ dr'.response_opcode = dr.response_opcode /\ dr'.response_length = dr.response_length
          /\ dr'.bit_count = dr.bit_count /\ tap' # "ShiftDR"
      BY <1>8, <2>1 DEF Quiets, Keeps
    <3>2. /\ dr.pending_response => dr.response_length = cmd.length /\ cmd.tdi = "none"
          /\ dr.bit_count <= MaxScan
          /\ cmd.tdi = "payload" => cmd.length <= BlockSize
          /\ dr.pending_response /\ dr.response_opcode = "payload" => cmd.length <= BlockSize
      BY <1>1 DEF Base, CommandInv
    <3>3. cmd.length > 0
      BY <1>2, <1>4
    <3> QED BY <1>6, <2>1, <3>1, <3>2, <3>3 DEF CommandInv
  <2>3. ScanInv'
    BY <1>1, <1>4, <1>6, <1>7, <2>1
       DEF Base, ScanInv, EngineInv, Quiets, Keeps, Silent, Data
  <2> QED BY <2>2, <2>3
<1>9. CASE tap = "CaptureDR"
  <2>1. Captures(dr') /\ cmd' = cmd /\ tap' = "ShiftDR"
    BY <1>1, <1>3, <1>9 DEF ScanTap
  <2>2. CommandInv'
    BY <1>1, <1>4, <1>5, <1>6, <1>7, <1>9, <2>1
       DEF Base, CommandInv, ScanInv, Captures, Keeps, Silent, Data
  <2>3. ScanInv'
    BY <1>1, <1>4, <1>5, <1>6, <1>7, <1>9, <2>1
       DEF Base, ScanInv, Captures, Keeps, Silent, Data
  <2> QED BY <2>2, <2>3
<1>10. CASE tap = "ShiftDR"
  <2>1. /\ Shifts(dr') /\ cmd' = Received
        /\ tap' = IF cmd.sent + 1 = scan_bits THEN "Exit1DR" ELSE "ShiftDR"
    BY <1>1, <1>3, <1>10 DEF ScanTap
  <2>2. /\ cmd'.opcode = cmd.opcode /\ cmd'.length = cmd.length /\ cmd'.tdi = cmd.tdi
        /\ cmd'.done = cmd.done /\ cmd'.sent = cmd.sent + 1
    BY <1>1, <2>1, ReceivedKeeps
  <2>3. scan_bits' = scan_bits /\ (requesting' <=> requesting)
    BY <2>2 DEF scan_bits, requesting
  <2>4. dr.bit_count <= cmd.sent /\ cmd.sent < scan_bits /\ dr'.bit_count = dr.bit_count + 1
    BY <1>1, <1>10, <2>1 DEF Base, ScanInv, Data, Shifts
  <2>5. /\ tap' = "ShiftDR" => cmd'.sent < scan_bits /\ dr'.bit_count < scan_bits
        /\ tap' = "Exit1DR" => cmd'.sent = scan_bits
        /\ dr'.bit_count <= cmd'.sent /\ dr'.bit_count <= MaxScan
    BY <1>2, <1>5, <2>1, <2>2, <2>4
  <2>6. CommandInv'
    BY <1>1, <1>4, <1>6, <1>10, <2>1, <2>2, <2>3, <2>5
       DEF Base, CommandInv, Shifts, Keeps, Silent, Data
  <2>7. dr'.response_active => dr'.bit_count = cmd'.sent
    BY <1>1, <2>1, <2>2, <2>4 DEF Base, ScanInv, Shifts
  <2>8. ScanInv'
    BY <1>1, <1>4, <1>6, <1>10, <2>1, <2>2, <2>3, <2>5, <2>7
       DEF Base, ScanInv, Shifts, Keeps, Silent, Data
  <2> QED BY <2>6, <2>8
<1>11. CASE tap = "UpdateDR"
  <2>1. tap' = "Idle" /\ cmd' = IF requesting THEN [cmd EXCEPT !.tdi = "none", !.sent = 0]
                               ELSE [cmd EXCEPT !.done = TRUE]
    BY <1>1, <1>11 DEF ScanTap
  <2>2. CASE requesting
    <3>1. /\ cmd'.opcode = cmd.opcode /\ cmd'.length = cmd.length /\ cmd'.tdi = "none"
          /\ cmd'.done = cmd.done /\ cmd'.sent = 0 /\ ~requesting'
      BY <1>2, <2>1, <2>2 DEF Commands, requesting
    <3>2. ~dr.response_active /\ cmd.tdi = Wanted
      BY <1>4, <2>2 DEF Base, EngineInv
    <3>3. Asks(dr', cmd.tdi, cmd.length)
      BY <1>1, <1>3, <1>11, <3>2
    <3>4. CommandInv'
      BY <1>1, <1>4, <1>6, <2>1, <3>1, <3>2, <3>3
         DEF Base, CommandInv, Asks, Silent, Data
    <3>5. ScanInv'
      BY <1>1, <1>4, <1>6, <2>1, <3>1, <3>2, <3>3 DEF Base, ScanInv, Asks, Silent, Data
    <3> QED BY <3>4, <3>5
  <2>3. CASE ~requesting
    <3>1. /\ cmd'.opcode = cmd.opcode /\ cmd'.length = cmd.length /\ cmd'.tdi = "none"
          /\ cmd'.done /\ cmd'.sent = cmd.sent /\ ~requesting' /\ scan_bits' = scan_bits
      BY <1>2, <2>1, <2>3 DEF Commands, requesting, scan_bits
    <3>2. /\ ~dr'.pending_response /\ ~dr'.response_active /\ ~dr'.payload_abort
          /\ dr'.bit_count = dr.bit_count
          /\ dr'.payload_commit => dr.response_active /\ dr.response_opcode = "payload"
      <4>1. CASE dr.response_active
        <5>1. Ends(dr')
          BY <1>1, <1>3, <1>11, <4>1
        <5>2. scan_bits = cmd.length * ByteBits /\ cmd.sent = scan_bits
          BY <1>1, <1>11, <2>3 DEF scan_bits, Base, ScanInv
        <5>3. dr.bit_count = cmd.sent /\ dr.response_length = cmd.length
          BY <1>1, <4>1 DEF Base, ScanInv, CommandInv, EngineInv
        <5>4. exact
          BY <5>2, <5>3 DEF exact
        <5> QED BY <4>1, <5>1, <5>4 DEF Ends
      <4>2. CASE ~dr.response_active
        <5>1. Asks(dr', cmd.tdi, cmd.length)
          BY <1>1, <1>3, <1>11, <4>2
        <5> QED BY <2>3, <5>1 DEF Asks, Silent, requesting
      <4> QED BY <4>1, <4>2
    <3>3. dr'.payload_commit => host'.pc = "payload"
      BY <1>1, <1>4, <3>2 DEF Base, EngineInv, ScanInv, Wanted
    <3>4. CommandInv'
      BY <1>1, <1>4, <1>6, <2>1, <3>1, <3>2 DEF Base, CommandInv, Data
    <3>5. cmd.sent = scan_bits
      BY <1>1, <1>11 DEF Base, ScanInv
    <3>6. ScanInv'
      BY <1>1, <1>4, <1>6, <2>1, <3>1, <3>2, <3>3, <3>5 DEF Base, ScanInv, Data
    <3> QED BY <3>4, <3>6
  <2> QED BY <2>2, <2>3 DEF requesting
<1> QED BY <1>1, <1>8, <1>9, <1>10, <1>11 DEF ScanTap

(* The host's calls at which TCK rests.                                    *)
LEMMA NewCommand ==
  ASSUME Base, Running, cmd.done, UNCHANGED fpga, UNCHANGED <<fails, resets>>,
         delivered' \in Seq(Arrivals), host' \in Hosts,
         NEW opcode, NEW length \in 1 .. BlockSize + HeaderBytes,
         cmd' = user_command(opcode, length),
         host'.pc \in {"check", "header", "payload"},
         opcode = Wanted', length <= Longest', dr.payload_commit => host'.pc = "header"
  PROVE  Base'
<1>1. /\ cmd'.opcode = opcode /\ cmd'.length = length /\ cmd'.tdi = opcode /\ cmd'.sent = 0
      /\ ~cmd'.done
      /\ opcode \in {"header", "payload"} /\ cmd' \in Commands
  <2>1. opcode \in {"header", "payload"} /\ length \in 0 .. BlockSize + HeaderBytes
    BY LinkAssumption DEF Wanted
  <2>2. NoCommand \in Commands
    BY NoHeaderIs
  <2> QED BY <2>1, <2>2 DEF user_command, Commands, NoCommand, Opcodes
<1>2. /\ tap = "Idle" /\ sel /\ ~dr.pending_response /\ ~dr.payload_abort
      /\ ~dr.response_active
  BY DEF Base, ScanInv, EngineInv
<1>3. UNCHANGED <<mailbox, tap, sel, dr, header_snapshot, aborted>>
  BY DEF fpga
<1>4. TypesInv'
  BY <1>1, <1>3 DEF Base, TypesInv, MailboxInv, mailbox
<1>5. EngineInv'
  BY <1>3 DEF Base, EngineInv, mailbox, Strobes, Paying, Silent
<1>6. Running' /\ requesting'
  BY <1>1 DEF Running, requesting
<1>7. ResetInv'
  BY DEF ResetInv
<1>8. dr.bit_count <= MaxScan
  BY DEF Base, CommandInv
<1>9. opcode = "payload" => length <= BlockSize /\ ~dr.payload_commit
  BY DEF Wanted, Longest
<1>10. CommandInv'
  BY <1>1, <1>2, <1>3, <1>6, <1>8, <1>9 DEF CommandInv, Data
<1>11. ScanInv'
  BY <1>1, <1>2, <1>3, <1>6, <1>9 DEF ScanInv, Data
<1> QED BY <1>4, <1>5, <1>7, <1>10, <1>11 DEF Base

(* The steps of the host that need no edge, by what they do to it: it      *)
(* breaks off, it starts a new scanner, or it waits for an operator.       *)
Breaks == BadHeader \/ CommitMismatch \/ UsbFails \/ Kill
Starts == Reconnect \/ Restart
Waits == ReopenFails \/ Replug

LEMMA NewHostIs ==
  /\ NewHost \in Hosts /\ NewHost.pc = "tap_reset" /\ NewHost.edges = 6
  /\ NewHost.expected = -1 /\ NewHost.error = "none" /\ ~NewHost.claimed
<1> DEFINE none == NoHeader
           lost == -1
<1>1. none \in Headers /\ lost \in Int /\ 6 \in 0 .. 6
  BY NoHeaderIs
<1>2. NewHost = [pc |-> "tap_reset", edges |-> 6, header |-> none, expected |-> lost,
                 starting |-> TRUE, claimed |-> FALSE, error |-> "none"]
  BY DEF NewHost
<1>3. lost = -1
  OBVIOUS
<1> HIDE DEF none, lost
<1>4. NewHost \in Hosts
  BY <1>1, <1>2 DEF Hosts
<1> QED BY <1>2, <1>3, <1>4

LEMMA BreakingOff ==
  ASSUME Base, Breaks
  PROVE  /\ UNCHANGED <<fpga, delivered, resets>>
         /\ host' \in Hosts /\ host'.pc \in {"failed", "ended"}
         /\ cmd' \in Commands /\ cmd'.opcode = "none" /\ cmd'.payload = <<>> /\ ~cmd'.done
         /\ cmd'.tdi = cmd.tdi /\ cmd'.length = cmd.length
         /\ host'.error \in {"header", "mismatch"} => BadHeader \/ CommitMismatch
         /\ fails' = IF UsbFails \/ Kill THEN fails + 1 ELSE fails
<1>1. cmd \in Commands /\ host \in Hosts /\ fails \in Nat
  BY DEF Base, TypesInv
<1>2. ASSUME NEW error \in {"none", "usb", "header", "mismatch"}
      PROVE  /\ Ended(error) \in Hosts /\ Ended(error).pc = "ended"
             /\ Ended(error).error = error
  <2>1. Ended(error) = [NewHost EXCEPT !.pc = "ended", !.error = error]
    BY DEF Ended
  <2> QED BY <1>2, <2>1, NewHostIs DEF Hosts
<1>3. ASSUME NEW left \in Hosts, left.pc \in {"failed", "ended"}, Break(left)
      PROVE  /\ host' = left
             /\ cmd' \in Commands /\ cmd'.opcode = "none" /\ cmd'.payload = <<>> /\ ~cmd'.done
             /\ cmd'.tdi = cmd.tdi /\ cmd'.length = cmd.length
  BY <1>1, <1>3, NoHeaderIs DEF Break, Commands, NoCommand
<1>4. ASSUME NEW error \in {"none", "usb", "header", "mismatch"}, NEW claimed \in BOOLEAN,
             Raise(error, claimed)
      PROVE  \E left \in Hosts : /\ left.pc \in {"failed", "ended"} /\ Break(left)
                                /\ left.error = error
  <2> DEFINE failed == [host EXCEPT !.pc = "failed", !.error = error, !.claimed = claimed]
  <2>1. failed \in Hosts /\ failed.pc = "failed" /\ failed.error = error
    BY <1>1 DEF Hosts
  <2>2. Break(IF host.starting THEN Ended(error) ELSE failed)
    BY <1>4 DEF Raise
  <2> HIDE DEF failed
  <2>3. CASE host.starting
    BY <1>2, <2>2, <2>3
  <2>4. CASE ~host.starting
    BY <2>1, <2>2, <2>4
  <2> QED BY <2>3, <2>4
<1>5. CASE BadHeader \/ CommitMismatch
  <2>1. /\ UNCHANGED <<fpga, delivered, fails, resets>> /\ cmd.done
        /\ Raise("header", FALSE) \/ Raise("mismatch", FALSE)
    BY <1>5 DEF BadHeader, CommitMismatch, HeaderRead
  <2>2. PICK left \in Hosts : left.pc \in {"failed", "ended"} /\ Break(left)
    BY <1>4, <2>1
  <2>3. fails' = IF UsbFails \/ Kill THEN fails + 1 ELSE fails
    BY <1>1, <2>1 DEF UsbFails, Kill
  <2> QED BY <1>3, <1>5, <2>1, <2>2, <2>3
<1>6. CASE UsbFails
  <2>1. PICK claimed \in BOOLEAN : Raise("usb", claimed)
    BY <1>6 DEF UsbFails
  <2>2. PICK left \in Hosts : left.pc \in {"failed", "ended"} /\ Break(left)
                             /\ left.error = "usb"
    BY <1>4, <2>1
  <2>3. UNCHANGED <<fpga, delivered, resets>> /\ fails' = fails + 1
    BY <1>6 DEF UsbFails
  <2> QED BY <1>3, <1>6, <2>2, <2>3
<1>7. CASE Kill
  <2>1. UNCHANGED <<fpga, delivered, resets>> /\ fails' = fails + 1 /\ Break(Ended("none"))
    BY <1>7 DEF Kill
  <2>2. Ended("none") \in Hosts /\ Ended("none").pc = "ended" /\ Ended("none").error = "none"
    BY <1>2
  <2> QED BY <1>3, <1>7, <2>1, <2>2
<1> QED BY <1>5, <1>6, <1>7 DEF Breaks

LEMMA StartingOver ==
  ASSUME Base, Starts
  PROVE  /\ UNCHANGED <<fpga, cmd, delivered, fails, resets>>
         /\ host.pc \in {"failed", "ended"}
         /\ host' \in Hosts /\ host'.pc = "tap_reset" /\ host'.edges = 6 /\ host'.expected = -1
         /\ host'.error \in {host.error, "none"}
<1>1. host \in Hosts
  BY DEF Base, TypesInv
<1>2. CASE Reconnect
  <2> DEFINE none == NoHeader
             lost == -1
  <2>1. none \in Headers /\ lost \in Int /\ 6 \in 0 .. 6 /\ lost = -1
    BY NoHeaderIs
  <2>2. /\ UNCHANGED <<fpga, cmd, delivered, fails, resets>> /\ host.pc = "failed"
        /\ host' = [host EXCEPT !.pc = "tap_reset", !.edges = 6, !.header = none, !.expected = lost,
                             !.error = "none"]
    BY <1>2 DEF Reconnect
  <2> HIDE DEF none, lost
  <2>3. host' \in Hosts /\ host'.pc = "tap_reset" /\ host'.edges = 6 /\ host'.expected = lost
        /\ host'.error = "none"
    BY <1>1, <2>1, <2>2 DEF Hosts
  <2> QED BY <2>1, <2>2, <2>3
<1>3. CASE Restart
  BY <1>3, NewHostIs DEF Restart
<1> QED BY <1>2, <1>3 DEF Starts

LEMMA Waiting ==
  ASSUME Base, Waits
  PROVE  /\ UNCHANGED <<fpga, cmd, delivered, fails, resets>>
         /\ host' \in Hosts /\ host'.pc = host.pc /\ host'.edges = host.edges
         /\ host'.header = host.header /\ host'.expected = host.expected
         /\ host'.error \in {host.error, "open"}
<1>1. host \in Hosts
  BY DEF Base, TypesInv
<1>2. CASE ReopenFails
  BY <1>1, <1>2 DEF ReopenFails, Hosts
<1>3. CASE Replug
  BY <1>1, <1>3 DEF Replug, Hosts
<1> QED BY <1>2, <1>3 DEF Waits

LEMMA BreakingKeeps ==
  ASSUME Base, Breaks
  PROVE  Base'
<1>1. /\ UNCHANGED <<fpga, delivered, resets>>
      /\ host' \in Hosts /\ host'.pc \in {"failed", "ended"}
      /\ cmd' \in Commands /\ cmd'.opcode = "none" /\ cmd'.payload = <<>> /\ ~cmd'.done
      /\ cmd'.tdi = cmd.tdi /\ cmd'.length = cmd.length /\ fails \in Nat /\ fails' \in Nat
  BY BreakingOff DEF Base, TypesInv
<1>2. UNCHANGED <<mailbox, tap, sel, dr, header_snapshot, aborted>>
  BY <1>1 DEF fpga
<1>3. TypesInv'
  BY <1>1, <1>2 DEF Base, TypesInv, MailboxInv, mailbox
<1>4. EngineInv'
  BY <1>2 DEF Base, EngineInv, mailbox, Strobes, Paying, Silent
<1>5. ~Running' /\ scan_bits' = scan_bits
  BY <1>1 DEF Running, scan_bits, requesting
<1>6. ResetInv' /\ ScanInv'
  BY <1>1, <1>5 DEF ResetInv, ScanInv
<1>7. CommandInv'
  BY <1>1, <1>2, <1>5 DEF Base, CommandInv
<1> QED BY <1>3, <1>4, <1>6, <1>7 DEF Base

LEMMA StartingKeeps ==
  ASSUME Base, Starts
  PROVE  Base'
<1>1. /\ UNCHANGED <<fpga, cmd, delivered, fails, resets>>
      /\ host.pc \in {"failed", "ended"}
      /\ host' \in Hosts /\ host'.pc = "tap_reset" /\ host'.edges = 6
  BY StartingOver
<1>2. UNCHANGED <<mailbox, tap, sel, dr, header_snapshot, aborted>>
  BY <1>1 DEF fpga
<1>3. TypesInv'
  BY <1>1, <1>2 DEF Base, TypesInv, MailboxInv, mailbox
<1>4. EngineInv'
  BY <1>2 DEF Base, EngineInv, mailbox, Strobes, Paying, Silent
<1>5. ~Running /\ ~Running' /\ scan_bits' = scan_bits
  BY <1>1 DEF Running, scan_bits, requesting
<1>6. CommandInv' /\ ScanInv'
  BY <1>1, <1>2, <1>5 DEF Base, CommandInv, ScanInv
<1>7. ResetInv'
  BY <1>1, <1>2 DEF ResetInv, Togo, Base, TypesInv, TapStates
<1> QED BY <1>3, <1>4, <1>6, <1>7 DEF Base

LEMMA WaitingKeeps ==
  ASSUME Base, Waits
  PROVE  Base'
<1>1. /\ UNCHANGED <<fpga, cmd, delivered, fails, resets>>
      /\ host' \in Hosts /\ host'.pc = host.pc /\ host'.edges = host.edges
  BY Waiting
<1>2. UNCHANGED <<mailbox, tap, sel, dr, header_snapshot, aborted>>
  BY <1>1 DEF fpga
<1>3. TypesInv'
  BY <1>1, <1>2 DEF Base, TypesInv, MailboxInv, mailbox
<1>4. EngineInv'
  BY <1>2 DEF Base, EngineInv, mailbox, Strobes, Paying, Silent
<1>5. scan_bits' = scan_bits /\ (requesting' <=> requesting) /\ (Running' <=> Running)
      /\ Wanted' = Wanted /\ Longest' = Longest /\ Togo' = Togo
  BY <1>1, <1>2 DEF scan_bits, requesting, Running, Wanted, Longest, Togo
<1>6. ResetInv' /\ CommandInv' /\ ScanInv'
  BY <1>1, <1>2, <1>5 DEF Base, ResetInv, CommandInv, ScanInv
<1> QED BY <1>3, <1>4, <1>6 DEF Base

LEMMA CallsKeep ==
  ASSUME Base, Opened \/ Idle \/ StartBlock \/ Deliver \/ Breaks \/ Starts \/ Waits
  PROVE  Base'
<1>1. /\ cmd \in Commands /\ host \in Hosts /\ fails \in Nat /\ delivered \in Seq(Arrivals)
      /\ HeaderBytes \in 1 .. BlockSize + HeaderBytes /\ -1 \in Int
  BY LinkAssumption DEF Base, TypesInv
<1>2. CASE Breaks
  BY <1>2, BreakingKeeps
<1>3. CASE Starts \/ Waits
  BY <1>3, StartingKeeps, WaitingKeeps
<1>4. HeaderRead => /\ cmd.done /\ Running /\ host.pc # "payload" /\ ~dr.payload_commit
                    /\ cmd.header \in Headers
  <2> SUFFICES ASSUME HeaderRead
               PROVE  /\ cmd.done /\ Running /\ host.pc # "payload" /\ ~dr.payload_commit
                      /\ cmd.header \in Headers
    OBVIOUS
  <2>1. cmd.done /\ cmd.opcode = "header"
    BY DEF HeaderRead
  <2>2. Running
    BY <2>1 DEF Base, CommandInv
  <2> QED BY <1>1, <2>1, <2>2 DEF Base, ScanInv, Wanted, Commands
<1>5. CASE Opened
  <2>1. host' \in Hosts /\ host'.pc \in {"check", "header"}
    BY <1>1, <1>4, <1>5 DEF Opened, Hosts
  <2>2. Wanted' = "header" /\ Longest' = HeaderBytes
    BY <2>1 DEF Wanted, Longest
  <2> QED BY <1>1, <1>4, <1>5, <2>1, <2>2, NewCommand DEF Opened
<1>6. CASE Idle
  <2>1. host' \in Hosts /\ host'.pc = "header"
    BY <1>1, <1>4, <1>6 DEF Idle, read_header, Hosts
  <2>2. Wanted' = "header" /\ Longest' = HeaderBytes
    BY <2>1 DEF Wanted, Longest
  <2> QED BY <1>1, <1>4, <1>6, <2>1, <2>2, NewCommand DEF Idle, read_header
<1>7. CASE StartBlock
  <2> DEFINE length == IF cmd.header.available_bytes < BlockSize
                       THEN cmd.header.available_bytes ELSE BlockSize
  <2>1. host' \in Hosts /\ host'.pc = "payload"
    BY <1>1, <1>4, <1>7 DEF StartBlock, read_header, Hosts
  <2>2. Wanted' = "payload" /\ Longest' = BlockSize
    BY <2>1 DEF Wanted, Longest
  <2>3. length \in 1 .. BlockSize + HeaderBytes /\ length <= BlockSize
    BY <1>4, <1>7, LinkAssumption DEF StartBlock, read_header, Headers
  <2>4. cmd' = user_command("payload", length)
    BY <1>7 DEF StartBlock
  <2> HIDE DEF length
  <2> QED BY <1>1, <1>4, <1>7, <2>1, <2>2, <2>3, <2>4, NewCommand DEF StartBlock, read_header
<1>8. CASE Deliver
  <2>1. cmd.done /\ Running
    BY <1>8 DEF Deliver, Running
  <2>2. cmd.payload \in Seq(Arrivals) /\ delivered' \in Seq(Arrivals)
    BY <1>1, <1>8 DEF Deliver, Commands
  <2>3. M!u32Plus(host.header.read_count, Len(cmd.payload)) \in Int
    <3>1. host.header.read_count \in Int /\ Len(cmd.payload) \in Nat
      BY <1>1, <2>2, LinkAssumption DEF Hosts, Headers
    <3> QED BY <3>1, LinkAssumption DEF M!u32Plus
  <2>4. host' \in Hosts /\ host'.pc = "header"
    BY <1>1, <1>8, <2>3 DEF Deliver, Hosts
  <2>5. Wanted' = "header" /\ Longest' = HeaderBytes
    BY <2>4 DEF Wanted, Longest
  <2> QED BY <1>1, <1>8, <2>1, <2>2, <2>4, <2>5, NewCommand DEF Deliver
<1> QED BY <1>2, <1>3, <1>5, <1>6, <1>7, <1>8

(* open() of a new scanner: Test-Logic-Reset, and USER2.                   *)
LEMMA ResetStep ==
  ASSUME Base, TapResetEdge
  PROVE  Base'
<1> DEFINE tms == IF host.edges = 1 THEN 0 ELSE 1
<1>1. /\ host.pc = "tap_reset" /\ host.edges > 0 /\ host.edges \in 0 .. 6
      /\ Edge(tms) /\ host' = [host EXCEPT !.edges = host.edges - 1]
      /\ UNCHANGED <<cmd, delivered, fails, resets>> /\ ~Running
  BY DEF TapResetEdge, Base, TypesInv, Hosts, Running
<1>2. Togo < host.edges /\ tap \in TapStates /\ sel \in BOOLEAN
  BY <1>1 DEF Base, ResetInv, TypesInv
<1>3. tms \in {0, 1} /\ (tms = 0 => host.edges = 1) /\ (tms = 1 => host.edges # 1)
  OBVIOUS
<1>4. tms = 0 => tap = "Reset"
  BY <1>1, <1>2, <1>3 DEF Togo, TapStates
<1>5. Allowed(tms)
  BY <1>3, <1>4 DEF Allowed
<1>6. EngineInv' /\ dr' \in Engines /\ tap' \in TapStates /\ sel' \in BOOLEAN /\ aborted' \in BOOLEAN
  BY <1>1, <1>5, EngineEdge, PathIsTyped DEF Base
<1> HIDE DEF tms
<1>7. /\ tap' = TapNext(tms) /\ sel' = (sel /\ tap' # "Reset")
      /\ dr' = IF tap' = "Reset" THEN EngineReset ELSE EngineNext(cmd.tdi, cmd.length)
      /\ RingEdge /\ SnapshotEdge
  BY <1>1 DEF Edge
<1>8. host' \in Hosts /\ host'.pc = "tap_reset" /\ host'.edges = host.edges - 1 /\ ~Running'
  BY <1>1 DEF Base, TypesInv, Hosts, Running
<1>9. TypesInv'
  <2>1. MailboxInv' /\ header_snapshot' \in Headers
    BY <1>7, RingEdgeTyped, SnapshotTyped DEF Base
  <2> QED BY <1>1, <1>6, <1>8, <2>1 DEF TypesInv, Base
<1>10. ResetInv'
  <2>1. CASE host.edges = 1
    <3>1. tap = "Reset" /\ tms = 0 /\ ~sel
      BY <1>3, <1>4, <2>1 DEF Base, EngineInv
    <3>2. tap' = "Idle" /\ ~sel'
      BY <1>7, <3>1, TapMoves
    <3>3. host'.edges = 0
      BY <1>8, <2>1
    <3> QED BY <3>2, <3>3 DEF ResetInv
  <2>2. CASE host.edges # 1
    <3>1. tms = 1
      BY <1>3, <2>2
    <3>2. Togo' = 0 \/ Togo' = Togo - 1
      BY <1>2, <1>7, <3>1, TapMoves DEF Togo, TapStates
    <3>3. Togo \in Nat
      BY <1>2 DEF Togo, TapStates
    <3>4. Togo' < host'.edges /\ host'.edges > 0
      BY <1>1, <1>2, <1>8, <2>2, <3>2, <3>3
    <3> QED BY <3>4 DEF ResetInv
  <2> QED BY <2>1, <2>2
<1>11. CommandInv'
  <2>1. /\ dr \in Engines /\ cmd.tdi \in Opcodes /\ cmd.length \in Nat /\ cmd \in Commands
        /\ dr.bit_count \in Nat /\ scan_bits \in Nat /\ scan_bits <= MaxScan /\ MaxScan \in Nat
    BY ScanBitsAre, LinkAssumption DEF Base, TypesInv, Commands, Engines
  <2>2. cmd.opcode = "none" /\ cmd.payload = <<>> /\ ~cmd.done
    BY <1>1 DEF Base, CommandInv
  <2>3. CASE tap' = "Reset"
    BY <1>1, <1>7, <1>8, <2>1, <2>2, <2>3, ResetEngine DEF Base, CommandInv, Data, Silent
  <2>4. CASE tap' # "Reset"
    <3>1. /\ sel /\ tap = "CaptureDR" => Captures(dr')
          /\ sel /\ tap = "ShiftDR" => Shifts(dr')
          /\ sel /\ tap = "UpdateDR" /\ dr.response_active => Ends(dr')
          /\ sel /\ tap = "UpdateDR" /\ ~dr.response_active => Asks(dr', cmd.tdi, cmd.length)
          /\ ~sel \/ tap \notin {"CaptureDR", "ShiftDR", "UpdateDR"} => Quiets(dr')
      BY <1>7, <2>1, <2>4, EngineMoves
    <3>2. /\ tap' # "ShiftDR" /\ tap' # "CaptureDR"
          /\ tap' \in Data => tap = "CaptureDR" \/ tap \in Data
          /\ tap = "UpdateDR" => tap' = "SelectDR"
          /\ tap \in {"SelectDR", "SelectIR"} => tap' = "SelectIR"
      BY <1>2, <1>3, <1>4, <1>7, <2>4, TapMoves DEF TapStates, Data
    <3>3. tap' \in Data => cmd.length > 0
      BY <3>2 DEF Base, CommandInv
    <3>4. CASE ~sel \/ tap \notin {"CaptureDR", "ShiftDR", "UpdateDR"}
      <4>1. Quiets(dr')
        BY <3>1, <3>4
      <4>2. /\ dr'.pending_response => dr.pending_response
            /\ dr'.response_opcode = dr.response_opcode /\ dr'.response_length = dr.response_length
            /\ dr'.bit_count = dr.bit_count /\ ~dr'.payload_commit
        BY <4>1 DEF Quiets, Keeps, Silent
      <4>3. /\ dr.pending_response => /\ dr.response_length = cmd.length
                                      /\ cmd.tdi = "none" \/ tap \in {"SelectDR", "SelectIR"}
            /\ dr.bit_count <= MaxScan
            /\ cmd.tdi = "payload" => cmd.length <= BlockSize
            /\ dr.pending_response /\ dr.response_opcode = "payload" => cmd.length <= BlockSize
        BY DEF Base, CommandInv
      <4> QED BY <1>1, <1>8, <2>2, <3>2, <3>3, <4>2, <4>3 DEF CommandInv
    <3>5. CASE sel /\ tap = "CaptureDR"
      <4>1. Captures(dr')
        BY <3>1, <3>5
      <4> QED BY <1>1, <1>8, <2>1, <2>2, <3>2, <3>3, <3>5, <4>1
              DEF Base, CommandInv, Captures, Keeps, Silent
    <3>6. CASE sel /\ tap = "ShiftDR"
      <4>1. Shifts(dr')
        BY <3>1, <3>6
      <4>2. dr'.bit_count <= MaxScan
        BY <2>1, <3>6, <4>1 DEF Base, CommandInv, Shifts
      <4> QED BY <1>1, <1>8, <2>2, <3>2, <3>3, <3>6, <4>1, <4>2
              DEF Base, CommandInv, Shifts, Keeps, Silent
    <3>7. CASE sel /\ tap = "UpdateDR"
      <4>1. CASE dr.response_active
        <5>1. Ends(dr')
          BY <3>1, <3>7, <4>1
        <5>2. cmd.tdi = "none"
          BY <3>7, <4>1 DEF Base, EngineInv, CommandInv
        <5> QED BY <1>1, <1>8, <2>2, <3>2, <3>3, <5>1, <5>2 DEF Base, CommandInv, Ends
      <4>2. CASE ~dr.response_active
        <5>1. Asks(dr', cmd.tdi, cmd.length)
          BY <3>1, <3>7, <4>2
        <5> QED BY <1>1, <1>8, <2>2, <3>2, <3>3, <3>7, <5>1
                DEF Base, CommandInv, Asks, Silent
      <4> QED BY <2>1, <4>1, <4>2 DEF Engines
    <3> QED BY <1>2, <3>4, <3>5, <3>6, <3>7
  <2> QED BY <2>3, <2>4
<1>12. ScanInv'
  BY <1>8 DEF ScanInv
<1> QED BY <1>6, <1>9, <1>10, <1>11, <1>12 DEF Base

LEMMA SelectStep ==
  ASSUME Base, SelectUser2
  PROVE  Base'
<1>1. /\ host.pc = "tap_reset" /\ host.edges = 0 /\ host \in Hosts
      /\ sel' = TRUE /\ dr' = EngineNext("none", 0) /\ aborted' = dr.payload_abort
      /\ RingEdge /\ SnapshotEdge /\ host' = [host EXCEPT !.pc = "open"]
      /\ cmd' = user_command("header", HeaderBytes)
      /\ UNCHANGED <<tap, delivered, fails, resets>>
  BY DEF SelectUser2, Base, TypesInv
<1>2. /\ tap = "Idle" /\ ~sel /\ ~dr.pending_response /\ ~dr.response_active /\ Silent(dr)
      /\ dr \in Engines /\ dr.bit_count <= MaxScan /\ block = <<>>
  BY <1>1 DEF Base, ResetInv, EngineInv, CommandInv, TypesInv, Data, Paying, Strobes, Silent
<1>3. Quiets(dr') /\ dr' \in Engines
  <2>1. "none" \in Opcodes /\ 0 \in Nat
    BY DEF Opcodes
  <2>2. EngineNext("none", 0) \in Engines
    BY <1>2, <2>1, EngineTypes
  <2>3. Quiets(EngineNext("none", 0))
    BY <1>2, <2>1, EngineMoves
  <2> QED BY <1>1, <2>2, <2>3
<1>4. host' \in Hosts /\ host'.pc = "open"
  BY <1>1 DEF Hosts
<1>5. /\ cmd'.opcode = "header" /\ cmd'.length = HeaderBytes /\ cmd'.tdi = "header"
      /\ cmd'.sent = 0 /\ ~cmd'.done /\ cmd' \in Commands
  <2>1. HeaderBytes \in 0 .. BlockSize + HeaderBytes
    BY LinkAssumption
  <2> QED BY <1>1, <2>1, NoHeaderIs DEF user_command, Commands, NoCommand, Opcodes
<1>6. MailboxInv' /\ header_snapshot' \in Headers
  BY <1>1, RingEdgeTyped, SnapshotTyped DEF Base
<1>7. TypesInv'
  <2>1. aborted' \in BOOLEAN /\ tap' \in TapStates /\ sel' \in BOOLEAN
    BY <1>1, <1>2 DEF Engines, Base, TypesInv
  <2>2. delivered' \in Seq(Arrivals) /\ fails' \in Nat /\ resets' \in 0 .. MaxResets
    BY <1>1 DEF Base, TypesInv
  <2> QED BY <1>3, <1>4, <1>5, <1>6, <2>1, <2>2 DEF TypesInv
<1>8. block' = <<>>
  <2>1. PathTypes
    BY PathIsTyped DEF Base
  <2>2. ~Strobes /\ ~payload_ready
    BY <1>2 DEF Strobes, Silent, payload_ready
  <2> QED BY <1>1, <1>2, <2>1, <2>2, BlockMoves DEF Base
<1>9. EngineInv'
  BY <1>1, <1>2, <1>3, <1>8 DEF EngineInv, Quiets, Silent, Strobes, Data
<1>10. CommandInv' /\ ResetInv' /\ ScanInv'
  <2>1. Running' /\ requesting' /\ Wanted' = "header" /\ Longest' = HeaderBytes
    BY <1>4, <1>5 DEF Running, requesting, Wanted, Longest
  <2> QED BY <1>1, <1>2, <1>3, <1>4, <1>5, <2>1, LinkAssumption
          DEF CommandInv, ResetInv, ScanInv, Quiets, Silent, Data
<1> QED BY <1>7, <1>9, <1>10 DEF Base

(* The FPGA's steps.                                                       *)
LEMMA WriteStep ==
  ASSUME Base, FpgaWrite
  PROVE  Base' /\ write_count' = M!u32Plus(write_count, 1)
         /\ unread' = Append(unread, write_count) /\ Len(unread) < BufferSize
<1>1. /\ Len(unread) < BufferSize /\ write_count' = M!u32Plus(write_count, 1)
      /\ unread' = SubSeq(unread, 1, Len(unread)) \o <<write_count>>
      /\ visible' = visible
      /\ UNCHANGED <<block, read_count, tap, sel, dr, header_snapshot, aborted>>
      /\ UNCHANGED <<cmd, host, delivered, fails, resets>>
  BY DEF FpgaWrite, M!Accept, M!Exchange
<1>2. /\ unread \in Seq(Number) /\ block \in Seq(Number) /\ write_count \in Number
      /\ visible <= Len(unread) /\ visible \in Nat
  BY DEF Base, TypesInv, MailboxInv
<1>3. unread' = Append(unread, write_count)
  <2>1. SubSeq(unread, 1, Len(unread)) = unread
    BY <1>2
  <2>2. unread \o <<write_count>> = Append(unread, write_count)
    BY <1>2
  <2> QED BY <1>1, <2>1, <2>2
<1>4. unread' \in Seq(Number) /\ Len(unread') = Len(unread) + 1
  BY <1>2, <1>3
<1>5. write_count' \in Number
  BY <1>1, <1>2, LinkAssumption DEF M!u32Plus, Number
<1>6. MailboxInv'
  <2>1. Len(unread) \in Nat /\ BufferSize \in Nat
    BY <1>2, LinkAssumption
  <2> QED BY <1>1, <1>2, <1>4, <1>5, <2>1 DEF MailboxInv, Base, TypesInv
<1>7. TypesInv'
  BY <1>1, <1>6 DEF TypesInv, Base
<1>8. EngineInv'
  BY <1>1 DEF EngineInv, Base, Silent, Strobes, Paying
<1>9. ResetInv' /\ CommandInv' /\ ScanInv'
  <2>1. scan_bits' = scan_bits /\ (requesting' <=> requesting) /\ (Running' <=> Running)
        /\ Wanted' = Wanted /\ Longest' = Longest /\ Togo' = Togo
    BY <1>1 DEF scan_bits, requesting, Running, Wanted, Longest, Togo
  <2> QED BY <1>1, <2>1 DEF Base, ResetInv, CommandInv, ScanInv
<1> QED BY <1>1, <1>3, <1>7, <1>8, <1>9 DEF Base

LEMMA FpgaResetStep ==
  ASSUME Base, FpgaReset
  PROVE  Base'
<1>1. /\ resets < MaxResets /\ resets' = resets + 1
      /\ unread' = <<>> /\ visible' = 0 /\ block' = <<>> /\ write_count' = 0 /\ read_count' = 0
      /\ dr' = EngineReset /\ header_snapshot' = HeaderOf(0, 0, 0, resets') /\ aborted' = FALSE
      /\ UNCHANGED <<tap, sel, cmd, host, delivered, fails>>
  BY DEF FpgaReset, M!Reset
<1>2. resets' \in 0 .. MaxResets /\ 0 \in Number /\ -1 \in Int
  BY <1>1, LinkAssumption DEF Base, TypesInv, Number
<1>3. MailboxInv'
  BY <1>1, <1>2, LinkAssumption DEF MailboxInv
<1>4. header_snapshot' \in Headers
  BY <1>1, <1>2, LinkAssumption DEF HeaderOf, Headers
<1>5. TypesInv'
  BY <1>1, <1>2, <1>3, <1>4, ResetEngine DEF TypesInv, Base
<1>6. EngineInv'
  BY <1>1, ResetEngine DEF EngineInv, Base, Silent, Strobes, Paying
<1>7. ResetInv' /\ CommandInv' /\ ScanInv'
  <2>1. scan_bits' = scan_bits /\ (requesting' <=> requesting) /\ (Running' <=> Running)
        /\ Wanted' = Wanted /\ Longest' = Longest /\ Togo' = Togo
    BY <1>1 DEF scan_bits, requesting, Running, Wanted, Longest, Togo
  <2>2. dr'.bit_count = 0 /\ ~dr'.pending_response /\ ~dr'.response_active
        /\ ~dr'.payload_commit /\ ~dr'.payload_abort
    BY <1>1, ResetEngine DEF Silent
  <2>3. scan_bits \in Nat /\ MaxScan \in Nat /\ (cmd.length > 0 => scan_bits > 0)
        /\ cmd.sent \in Nat
    BY ScanBitsAre DEF Base, TypesInv, Commands
  <2>4. ResetInv' /\ CommandInv'
    BY <1>1, <2>1, <2>2, <2>3 DEF Base, ResetInv, CommandInv, Data
  <2>5. ScanInv'
    BY <1>1, <2>1, <2>2, <2>3 DEF Base, ScanInv, Data
  <2> QED BY <2>4, <2>5
<1> QED BY <1>5, <1>6, <1>7 DEF Base

LEMMA ScanStep ==
  ASSUME Base, ScanEdge
  PROVE  Base'
<1>1. TypesInv' /\ CommandInv' /\ ScanInv'
  BY ScanTypes, ScanKeeps
<1>2. EngineInv' /\ UNCHANGED host /\ Running
  BY ScanSteps
<1>3. ResetInv'
  BY <1>2 DEF ResetInv, Running
<1> QED BY <1>1, <1>2, <1>3 DEF Base

LEMMA BaseInit == Init => Base
<1> SUFFICES ASSUME Init PROVE Base
  OBVIOUS
<1>1. /\ unread = <<>> /\ visible = 0 /\ block = <<>> /\ write_count = 0 /\ read_count = 0
      /\ tap = "Reset" /\ sel = FALSE /\ dr = EngineReset
      /\ header_snapshot = HeaderOf(0, 0, 0, 0) /\ cmd = NoCommand
      /\ host = NewHost
      /\ delivered = <<>> /\ fails = 0 /\ resets = 0 /\ aborted = FALSE
  BY DEF Init, M!Init
<1>2. 0 \in Number /\ 0 \in 0 .. MaxResets /\ -1 \in Int /\ 6 \in 0 .. 6
  BY LinkAssumption DEF Number
<1>3. MailboxInv
  BY <1>1, <1>2, LinkAssumption DEF MailboxInv
<1>4. header_snapshot \in Headers
  BY <1>1, <1>2, LinkAssumption DEF HeaderOf, Headers
<1>5. host \in Hosts
  BY <1>1, NewHostIs
<1>6. TypesInv
  <2>1. delivered \in Seq(Arrivals) /\ fails \in Nat /\ resets \in 0 .. MaxResets
    BY <1>1, <1>2
  <2>2. dr \in Engines /\ cmd \in Commands /\ tap \in TapStates /\ sel \in BOOLEAN
        /\ aborted \in BOOLEAN
    BY <1>1, NoHeaderIs, ResetEngine DEF TapStates
  <2> QED BY <1>3, <1>4, <1>5, <2>1, <2>2 DEF TypesInv
<1>7. EngineInv
  BY <1>1, ResetEngine DEF EngineInv, Silent, Strobes, Between, Data
<1>8. ~Running /\ Togo = 0 /\ host.pc = "tap_reset" /\ host.edges = 6
  BY <1>1, NewHostIs DEF Running, Togo
<1>9. MaxScan \in Nat
  BY <1>6, ScanBitsAre DEF TypesInv
<1>10. cmd.tdi = "none" /\ cmd.opcode = "none" /\ cmd.payload = <<>> /\ ~cmd.done
  BY <1>1 DEF NoCommand
<1>11. CommandInv /\ ResetInv /\ ScanInv
  BY <1>1, <1>8, <1>9, <1>10, ResetEngine DEF CommandInv, ResetInv, ScanInv, Data
<1> QED BY <1>6, <1>7, <1>11 DEF Base

LEMMA BaseStutters ==
  ASSUME Base, UNCHANGED vars
  PROVE  Base'
<1>1. UNCHANGED <<mailbox, tap, sel, dr, header_snapshot, aborted, cmd, host, delivered, fails, resets>>
  BY DEF vars, fpga
<1>2. TypesInv'
  BY <1>1 DEF Base, TypesInv, MailboxInv, mailbox
<1>3. EngineInv'
  BY <1>1 DEF Base, EngineInv, mailbox, Strobes, Paying, Silent
<1>4. scan_bits' = scan_bits /\ (requesting' <=> requesting) /\ (Running' <=> Running)
      /\ Wanted' = Wanted /\ Longest' = Longest /\ Togo' = Togo
  BY <1>1 DEF scan_bits, requesting, Running, Wanted, Longest, Togo
<1>5. ResetInv' /\ CommandInv' /\ ScanInv'
  BY <1>1, <1>4 DEF Base, ResetInv, CommandInv, ScanInv
<1> QED BY <1>2, <1>3, <1>5 DEF Base

Calls == Opened \/ Idle \/ StartBlock \/ Deliver \/ Breaks \/ Starts \/ Waits

LEMMA NextIs ==
  Next <=> \/ TapResetEdge \/ SelectUser2 \/ ScanEdge \/ Calls \/ FpgaWrite \/ FpgaReset
BY DEF Next, HostStep, Calls, Breaks, Starts, Waits

LEMMA BaseSteps == Base /\ [Next]_vars => Base'
<1> SUFFICES ASSUME Base, [Next]_vars PROVE Base'
  OBVIOUS
<1>1. ASSUME Calls PROVE Base'
  BY <1>1, CallsKeep DEF Calls
<1> QED BY <1>1, NextIs, ResetStep, SelectStep, ScanStep, WriteStep, FpgaResetStep, BaseStutters

LEMMA BaseAlways == Spec => []Base
BY BaseInit, BaseSteps, PTL DEF Spec

(* While nobody holds the scanner that claimed the device, the pump is     *)
(* between two attempts to reconnect.                                      *)
ClaimInv == host.claimed => host.pc = "failed" /\ ~host.starting

LEMMA ClaimSteps == Base /\ ClaimInv /\ [Next]_vars => ClaimInv'
<1> SUFFICES ASSUME Base, ClaimInv, [Next]_vars PROVE ClaimInv'
  OBVIOUS
<1>1. host \in Hosts
  BY DEF Base, TypesInv
<1>2. CASE ScanEdge \/ FpgaWrite \/ FpgaReset \/ UNCHANGED vars
  BY <1>2 DEF ScanEdge, FpgaWrite, FpgaReset, vars, ClaimInv
<1>3. CASE TapResetEdge \/ SelectUser2
  BY <1>1, <1>3 DEF TapResetEdge, SelectUser2, ClaimInv, Hosts
<1>4. ASSUME NEW error, NEW claimed \in BOOLEAN, Raise(error, claimed)
      PROVE  ClaimInv'
  <2>1. CASE host.starting
    <3>1. host' = [NewHost EXCEPT !.pc = "ended", !.error = error]
      BY <1>4, <2>1 DEF Raise, Break, Ended
    <3>2. ~host'.claimed
      BY <3>1 DEF NewHost
    <3> QED BY <3>2 DEF ClaimInv
  <2>2. CASE ~host.starting
    BY <1>1, <1>4, <2>2 DEF Raise, Break, ClaimInv, Hosts
  <2> QED BY <2>1, <2>2
<1>5. CASE BadHeader \/ CommitMismatch
  BY <1>4, <1>5 DEF BadHeader, CommitMismatch
<1>6. CASE UsbFails
  BY <1>4, <1>6 DEF UsbFails
<1>7. CASE Kill
  BY <1>7 DEF Kill, Break, Ended, NewHost, ClaimInv
<1>8. CASE Opened
  BY <1>1, <1>8 DEF Opened, ClaimInv, Hosts
<1>9. CASE Idle \/ StartBlock
  BY <1>1, <1>9 DEF Idle, StartBlock, read_header, ClaimInv, Hosts
<1>10. CASE Deliver
  BY <1>1, <1>10 DEF Deliver, ClaimInv, Hosts
<1>11. CASE Reconnect \/ ReopenFails \/ Replug
  BY <1>1, <1>11 DEF Reconnect, ReopenFails, Replug, ClaimInv, Hosts
<1>12. CASE Restart
  BY <1>12, NewHostIs DEF Restart, ClaimInv
<1> QED BY <1>2, <1>3, <1>5, <1>6, <1>7, <1>8, <1>9, <1>10, <1>11, <1>12 DEF Next, HostStep

LEMMA ClaimAlways == Spec => [](Base /\ ClaimInv)
<1>1. Init => Base /\ ClaimInv
  BY BaseInit, NewHostIs DEF Init, ClaimInv
<1>2. Base /\ ClaimInv /\ [Next]_vars => (Base /\ ClaimInv)'
  BY BaseSteps, ClaimSteps
<1> QED BY <1>1, <1>2, PTL DEF Spec

(* What the mailbox, the engine, the headers and the running command may   *)
(* hold at any time.                                                       *)
THEOREM TypeCorrect == Spec => []TypeOK
<1>1. Base /\ ClaimInv => TypeOK
  <2> SUFFICES ASSUME Base, ClaimInv PROVE TypeOK
    OBVIOUS
  <2>1. TypesInv
    BY DEF Base
  <2>2. unread \in Seq(0 .. CountMod - 1) /\ visible \in 0 .. BufferSize /\ Len(block) <= visible
    BY <2>1, LinkAssumption DEF TypesInv, MailboxInv, Number
  <2>3. dr.bit_count \in 0 .. MaxScan
    BY ScanBitsAre DEF Base, TypesInv, CommandInv, Engines
  <2>4. dr.response_opcode \in {"none", "header", "payload"}
        /\ (dr.pending_response => dr.response_opcode # "none")
    BY DEF Base, TypesInv, EngineInv, Engines, Opcodes
  <2>5. {header_snapshot, host.header, cmd.header} \subseteq Header
    BY <2>1 DEF TypesInv, Hosts, Commands, Header, Headers
  <2>6. cmd.opcode # "none" => host.pc \in {"open", "check", "header", "payload"}
    BY DEF Base, CommandInv, Running
  <2> QED BY <2>2, <2>3, <2>4, <2>5, <2>6 DEF TypeOK, ClaimInv
<1> QED BY <1>1, ClaimAlways, PTL

(* The command engine keeps the contract of the ring: it never advances,   *)
(* commits and aborts at once, and it leaves the ring alone in the cycle   *)
(* after an abort, at any scan and after any failure or reset.             *)
THEOREM EngineKeepsContract == Spec => []RingContract
<1>1. Base => RingContract
  <2>1. payload_ready => tap = "ShiftDR"
    BY DEF payload_ready
  <2>2. Base => (tap = "ShiftDR" => ~dr.payload_commit /\ ~dr.payload_abort /\ ~aborted)
    BY DEF Base, EngineInv, Strobes
  <2> QED BY <2>1, <2>2 DEF RingContract
<1> QED BY <1>1, BaseAlways, PTL

-----------------------------------------------------------------------------
(* What an edge of TCK does to the ring and to the engine, whoever asks    *)
(* for it.                                                                 *)
TapEdge == ScanEdge \/ TapResetEdge \/ SelectUser2

RingGoes ==
  /\ UNCHANGED <<delivered, fails, resets, write_count>>
  /\ dr.payload_commit => Committing
  /\ ~dr.payload_commit => Grows
  /\ Strobes => block' = <<>>
  /\ payload_ready => Taking /\ Paying /\ tap = "ShiftDR" /\ ~Strobes
  /\ ~Strobes /\ ~payload_ready => block' = block

ResponseGoes ==
  \/ tap = "CaptureDR" /\ dr.pending_response /\ Captures(dr') /\ block = <<>>
     /\ ~dr.response_active
  \/ tap = "ShiftDR" /\ dr.response_active /\ Shifts(dr')
  \/ tap = "Exit1DR" /\ dr.response_active /\ Quiets(dr')

RequestGoes ==
  \/ dr.pending_response /\ Keeps(dr')
  \/ /\ cmd.tdi # "none" /\ ~dr.pending_response /\ ~Strobes
     /\ dr'.response_opcode = cmd.tdi /\ dr'.response_length = cmd.length

EngineGoes ==
  /\ Strobes => ~dr.pending_response /\ ~dr'.pending_response /\ ~Strobes'
  /\ dr'.response_active => ResponseGoes
  /\ dr'.pending_response => RequestGoes
  /\ dr'.payload_commit => Paying /\ exact /\ tap = "UpdateDR" /\ Ends(dr')

CommandGoes ==
  /\ cmd'.tdi = "payload" => cmd.tdi = "payload" /\ cmd'.length = cmd.length
  /\ host'.header = host.header /\ host'.expected = host.expected
  /\ host'.error = host.error
  /\ host'.pc = host.pc \/ (host.pc = "tap_reset" /\ host'.pc = "open")

LEMMA EdgeGoes ==
  ASSUME Base, TapEdge
  PROVE  RingGoes /\ EngineGoes /\ CommandGoes /\ SnapshotEdge
<1>1. /\ PathTypes /\ EngineInv /\ dr \in Engines /\ MailboxInv /\ cmd \in Commands /\ host \in Hosts
      /\ cmd.tdi \in Opcodes /\ cmd.length \in Nat /\ tap \in TapStates /\ sel \in BOOLEAN
  BY PathIsTyped, LinkAssumption DEF Base, TypesInv, Commands
<1>2. /\ RingEdge /\ SnapshotEdge /\ UNCHANGED <<delivered, fails, resets>>
      /\ \/ /\ dr' = EngineReset
         \/ /\ dr' = EngineNext(cmd.tdi, cmd.length)
         \/ /\ dr' = EngineNext("none", 0) /\ ~sel
      /\ CommandGoes
  <2>1. CASE ScanEdge
    <3>1. /\ dr' = EngineNext(cmd.tdi, cmd.length) /\ RingEdge /\ SnapshotEdge
          /\ UNCHANGED <<host, delivered, fails, resets>> /\ ScanTap /\ Running
      BY <2>1, ScanSteps
    <3>2. cmd'.tdi = "payload" => cmd.tdi = "payload" /\ cmd'.length = cmd.length
      <4>1. Received.tdi = cmd.tdi /\ Received.length = cmd.length
        BY <3>1, ReceivedKeeps
      <4> QED BY <1>1, <3>1, <4>1 DEF ScanTap, Commands
    <3> QED BY <3>1, <3>2 DEF CommandGoes
  <2>2. CASE TapResetEdge
    <3>1. PICK tms \in {0, 1} : Edge(tms)
      BY <2>2 DEF TapResetEdge
    <3>2. /\ RingEdge /\ SnapshotEdge
          /\ dr' = EngineReset \/ dr' = EngineNext(cmd.tdi, cmd.length)
      BY <3>1 DEF Edge
    <3>3. /\ host' = [host EXCEPT !.edges = host.edges - 1]
          /\ UNCHANGED <<cmd, delivered, fails, resets>>
      BY <2>2 DEF TapResetEdge
    <3> QED BY <1>1, <3>2, <3>3 DEF CommandGoes, Hosts
  <2>3. CASE SelectUser2
    <3>1. /\ host.pc = "tap_reset" /\ ~sel /\ dr' = EngineNext("none", 0)
          /\ RingEdge /\ SnapshotEdge /\ host' = [host EXCEPT !.pc = "open"]
          /\ cmd' = user_command("header", HeaderBytes)
          /\ UNCHANGED <<tap, delivered, fails, resets>>
      BY <2>3 DEF SelectUser2, Base, ResetInv
    <3>2. cmd'.tdi = "header"
      BY <3>1 DEF user_command, NoCommand
    <3> QED BY <1>1, <3>1, <3>2 DEF CommandGoes, Hosts
  <2> QED BY <2>1, <2>2, <2>3 DEF TapEdge
<1>3. /\ Strobes => block' = <<>>
      /\ ~Strobes /\ ~payload_ready => block' = block
      /\ payload_ready => Paying /\ tap = "ShiftDR" /\ ~Strobes
  BY <1>1, <1>2, BlockMoves
<1>4. RingGoes
  <2>1. /\ dr.payload_commit => Committing
        /\ dr.payload_abort => Aborting
        /\ payload_ready /\ Silent(dr) => Taking
        /\ ~payload_ready /\ Silent(dr) => Resting
        /\ write_count' = write_count
    BY <1>1, <1>2, RingMoves DEF EngineInv
  <2>2. ~dr.payload_commit => Grows
    BY <1>1, <2>1 DEF Aborting, Taking, Resting, Silent, Engines
  <2>3. payload_ready => Taking
    BY <1>3, <2>1 DEF Strobes, Silent
  <2> QED BY <1>2, <1>3, <2>1, <2>2, <2>3 DEF RingGoes
<1>5. \/ dr' = EngineReset
      \/ tap = "CaptureDR" /\ Captures(dr')
      \/ tap = "ShiftDR" /\ Shifts(dr')
      \/ tap = "UpdateDR" /\ dr.response_active /\ Ends(dr')
      \/ tap = "UpdateDR" /\ ~dr.response_active /\ Asks(dr', cmd.tdi, cmd.length)
      \/ (~sel \/ tap \notin {"CaptureDR", "ShiftDR", "UpdateDR"}) /\ Quiets(dr')
  <2>1. CASE dr' = EngineReset
    BY <2>1
  <2>2. CASE dr' = EngineNext(cmd.tdi, cmd.length)
    BY <1>1, <2>2, EngineMoves
  <2>3. CASE dr' = EngineNext("none", 0) /\ ~sel
    <3>1. "none" \in Opcodes /\ 0 \in Nat
      BY DEF Opcodes
    <3> QED BY <1>1, <2>3, <3>1, EngineMoves
  <2> QED BY <1>2, <2>1, <2>2, <2>3
<1>6. /\ Strobes => ~dr.pending_response /\ tap \in {"Idle", "SelectDR"}
      /\ dr.response_active <=> (dr.pending_response /\ tap \in Data)
      /\ block # <<>> => Paying \/ Strobes
      /\ ~sel => ~dr.pending_response
  BY <1>1 DEF EngineInv, Strobes, Silent
<1>7. Strobes => ~dr'.pending_response /\ ~Strobes'
  <2> SUFFICES ASSUME Strobes PROVE ~dr'.pending_response /\ ~Strobes'
    OBVIOUS
  <2>1. dr' = EngineReset \/ Quiets(dr')
    BY <1>5, <1>6
  <2> QED BY <1>6, <2>1, ResetEngine DEF Quiets, Strobes, Silent
<1>8. dr'.response_active => ResponseGoes
  <2> SUFFICES ASSUME dr'.response_active PROVE ResponseGoes
    OBVIOUS
  <2>1. \/ tap = "CaptureDR" /\ Captures(dr')
        \/ tap = "ShiftDR" /\ Shifts(dr')
        \/ (~sel \/ tap \notin {"CaptureDR", "ShiftDR", "UpdateDR"}) /\ Quiets(dr')
    BY <1>5, ResetEngine DEF Ends, Asks
  <2>2. CASE tap = "CaptureDR" /\ Captures(dr')
    BY <1>6, <2>2 DEF ResponseGoes, Captures, Paying, Data
  <2>3. CASE tap = "ShiftDR" /\ Shifts(dr')
    BY <2>3 DEF ResponseGoes, Shifts
  <2>4. CASE (~sel \/ tap \notin {"CaptureDR", "ShiftDR", "UpdateDR"}) /\ Quiets(dr')
    <3>1. dr.response_active
      BY <2>4 DEF Quiets
    <3>2. tap = "Exit1DR"
      BY <1>6, <2>4, <3>1 DEF Data
    <3> QED BY <2>4, <3>1, <3>2 DEF ResponseGoes
  <2> QED BY <2>1, <2>2, <2>3, <2>4
<1>9. dr'.pending_response => RequestGoes
  <2> SUFFICES ASSUME dr'.pending_response PROVE RequestGoes
    OBVIOUS
  <2>1. \/ Captures(dr') \/ Shifts(dr') \/ Quiets(dr')
        \/ tap = "UpdateDR" /\ ~dr.response_active /\ Asks(dr', cmd.tdi, cmd.length)
    BY <1>5, ResetEngine DEF Ends
  <2>2. CASE Captures(dr') \/ Shifts(dr') \/ Quiets(dr')
    BY <2>2 DEF RequestGoes, Captures, Shifts, Quiets
  <2>3. CASE tap = "UpdateDR" /\ ~dr.response_active /\ Asks(dr', cmd.tdi, cmd.length)
    BY <1>6, <2>3 DEF RequestGoes, Asks, Data
  <2> QED BY <2>1, <2>2, <2>3
<1>10. dr'.payload_commit => Paying /\ exact /\ tap = "UpdateDR" /\ Ends(dr')
  <2> SUFFICES ASSUME dr'.payload_commit PROVE Paying /\ exact /\ tap = "UpdateDR" /\ Ends(dr')
    OBVIOUS
  <2>1. tap = "UpdateDR" /\ dr.response_active /\ Ends(dr')
    BY <1>5, ResetEngine DEF Captures, Shifts, Asks, Quiets, Silent
  <2> QED BY <2>1 DEF Ends, Paying
<1> QED BY <1>2, <1>4, <1>6, <1>7, <1>8, <1>9, <1>10 DEF EngineGoes

-----------------------------------------------------------------------------
(* Bits and bytes.                                                         *)
LEMMA Products ==
  ASSUME NEW b \in Nat \ {0}, NEW m \in Int, NEW n \in Int
  PROVE  /\ b * m \in Int /\ b * (m + 1) = b * m + b /\ m * b = b * m
         /\ b * m <= b * n <=> m <= n
         /\ b * m < b * n <=> m < n
<1>1. b * m \in Int /\ b * (m + 1) = b * m + b /\ m * b = b * m /\ b * n \in Int
  OBVIOUS
<1>2. m <= n => b * m <= b * n
  OBVIOUS
<1>3. m < n => b * m < b * n
  OBVIOUS
<1>4. n <= m => b * n <= b * m
  OBVIOUS
<1>5. n < m => b * n < b * m
  OBVIOUS
<1> QED BY <1>1, <1>2, <1>3, <1>4, <1>5

(* The same for a product that leaves room for one more.                   *)
LEMMA OneMore ==
  ASSUME NEW b \in Nat \ {0}, NEW m \in Int, NEW n \in Int, m + 1 <= n
  PROVE  b * m \in Int /\ b * n \in Int /\ b * m + b <= b * n
<1> DEFINE up == m + 1
<1>1. up \in Int /\ up <= n
  OBVIOUS
<1>2. b * up = b * m + b
  BY Products
<1> HIDE DEF up
<1>3. b * up <= b * n
  BY <1>1, Products
<1>4. b * m \in Int /\ b * n \in Int
  BY Products
<1> QED BY <1>2, <1>3, <1>4

(* c bits have arrived, and with them n whole bytes; now comes a bit.      *)
LEMMA BitComes ==
  ASSUME NEW b \in Nat \ {0}, NEW n \in Nat, NEW c \in Nat, b * n <= c
  PROVE  /\ (c + 1) % b = 0 <=> c % b = b - 1
         /\ c % b = b - 1 => b * (n + 1) <= c + 1
         /\ c < b * (n + 1) /\ c % b = b - 1 => c + 1 < b * ((n + 1) + 1)
         /\ c < b * (n + 1) /\ c % b # b - 1 => c + 1 < b * (n + 1)
         /\ c < b * (n + 1) => c % b = c - b * n
<1> c \in Int
  OBVIOUS
<1>1. c % b \in 0 .. b - 1 /\ (c + 1) % b = IF c % b = b - 1 THEN 0 ELSE (c % b) + 1
  <2>1. c % b \in 0 .. b - 1
    BY ModRange
  <2>2. (c + 1) % b = IF c % b = b - 1 THEN 0 ELSE (c % b) + 1
    BY ModNext
  <2> QED BY <2>1, <2>2
<1>2. c % b = b - 1 => b * (n + 1) <= c + 1
  <2> SUFFICES ASSUME c % b = b - 1 PROVE b * (n + 1) <= c + 1
    OBVIOUS
  <2>1. PICK q \in Int : c = (b * q) + (c % b)
    BY ModQuotient
  <2>2. b * q \in Int /\ b * (q + 1) = b * q + b
    BY Products
  <2>3. c + 1 = b * (q + 1)
    BY <2>1, <2>2
  <2>4. b * n < b * (q + 1)
    <3>1. b * n \in Int
      OBVIOUS
    <3> QED BY <2>3, <3>1
  <2>5. n < q + 1 /\ q + 1 \in Int
    BY <2>4, Products
  <2>6. n + 1 <= q + 1 /\ n + 1 \in Int
    BY <2>5
  <2> QED BY <2>3, <2>5, <2>6, Products
<1>3. ASSUME c < b * (n + 1) PROVE c % b = c - b * n
  <2>1. b * n \in Int /\ b * (n + 1) = b * n + b
    BY Products
  <2> DEFINE r == c - b * n
  <2>2. r \in 0 .. b - 1 /\ c = b * n + r /\ n \in Int
    BY <1>3, <2>1
  <2> HIDE DEF r
  <2>3. c % b = r
    BY <2>2, ModUnique
  <2> QED BY <2>3 DEF r
<1>4. ASSUME c < b * (n + 1) PROVE c % b = b - 1 => c + 1 < b * ((n + 1) + 1)
  <2>1. n + 1 \in Int /\ b * (n + 1) \in Int
    OBVIOUS
  <2>2. b * ((n + 1) + 1) = b * (n + 1) + b
    BY <2>1, Products
  <2> QED BY <1>4, <2>1, <2>2
<1>5. ASSUME c < b * (n + 1) PROVE c % b # b - 1 => c + 1 < b * (n + 1)
  <2>1. b * n \in Int /\ b * (n + 1) = b * n + b
    BY Products
  <2> QED BY <1>1, <1>3, <1>5, <2>1
<1> QED BY <1>1, <1>2, <1>3, <1>4, <1>5

-----------------------------------------------------------------------------
(* A command is sound when no reset has come between.  What a header tells *)
(* stays true until the session ends, and what is asked for by it is there *)
(* when the block is read.                                                 *)
Sound == resets = 0 \/ (host.pc = "payload" /\ host.header.session = resets)

Told(h) ==
  /\ h.read_count \in Number /\ h.available_bytes \in 0 .. BufferSize
  /\ h.write_count = M!u32Plus(h.read_count, h.available_bytes)
  /\ h.session \in 0 .. resets
  /\ h.session = resets => h.read_count = read_count /\ h.available_bytes <= visible
  /\ h.session # resets => read_count = 0

AnsweredInv ==
  Running /\ Sound =>
    /\ requesting /\ tap \in Data => dr.bit_count = cmd.sent
    /\ ~requesting /\ ~cmd.done => dr.pending_response

SnapshotInv ==
  dr.response_active /\ dr.response_opcode = "header" =>
    Told(header_snapshot) /\ header_snapshot.session = resets

ReadInv ==
  Running /\ cmd.opcode = "header" /\ ~requesting /\ cmd.sent > 0 =>
    /\ (cmd.header = NoHeader /\ resets > 0) \/ Told(cmd.header)
    /\ dr.response_active => cmd.clean /\ cmd.header = header_snapshot

BasisInv ==
  host.pc = "payload" => Told(host.header) /\ cmd.length <= host.header.available_bytes

ExpectedInv ==
  /\ resets = 0 /\ host.pc = "header" /\ host.expected # -1 =>
       host.expected = IF dr.payload_commit THEN Counts(Len(block)) ELSE read_count
  /\ host.error \in {"header", "mismatch"} => resets > 0
  /\ host.pc \in {"tap_reset", "open", "check"} => host.expected = -1

PayingFor == dr.pending_response /\ dr.response_opcode = "payload"

BlockInv ==
  /\ Sound /\ PayingFor => dr.response_length <= visible
  /\ Sound /\ cmd.tdi = "payload" => cmd.length <= visible
  /\ Paying => Len(block) <= dr.response_length /\ ByteBits * Len(block) <= dr.bit_count
  /\ Sound /\ Paying => dr.bit_count < ByteBits * (Len(block) + 1)
  /\ Sound /\ dr.payload_commit => Len(block) = dr.response_length
  /\ dr.payload_commit => Len(block) <= BlockSize

(* The host has the bytes that the ring has lent.                          *)
InStep ==
  /\ Len(cmd.payload) = Len(block)
  /\ \A i \in 1 .. Len(cmd.payload) : cmd.payload[i].session = resets
  /\ cmd.done => dr.payload_commit
  /\ Paying /\ cmd.sent % ByteBits # 0 => cmd.clean

PayloadInv ==
  /\ host.pc # "payload" \/ requesting => cmd.payload = <<>>
  /\ host.pc = "payload" /\ ~requesting =>
       /\ ByteBits * Len(cmd.payload) <= cmd.sent
       /\ cmd.sent < ByteBits * (Len(cmd.payload) + 1)
  /\ host.pc = "payload" /\ Sound /\ (Paying \/ cmd.done) => InStep

Trust ==
  /\ Base /\ AnsweredInv /\ SnapshotInv /\ ReadInv /\ BasisInv /\ ExpectedInv
  /\ BlockInv /\ PayloadInv

LEMMA ToldStays ==
  ASSUME Base, NEW h \in Headers, Told(h), resets' = resets,
         read_count' = read_count, visible' \in Nat, visible <= visible'
  PROVE  Told(h)'
<1>1. visible \in Nat /\ h.available_bytes \in Int
  BY LinkAssumption DEF Base, TypesInv, MailboxInv, Headers
<1>2. h.session = resets' => h.available_bytes <= visible'
  BY <1>1 DEF Told
<1> QED BY <1>2 DEF Told, M!u32Plus

LEMMA ToldAcrossReset ==
  ASSUME Base, NEW h \in Headers, Told(h), FpgaReset
  PROVE  Told(h)'
<1>1. resets' = resets + 1 /\ read_count' = 0 /\ resets \in Nat
  BY DEF FpgaReset, M!Reset, Base, TypesInv
<1>2. h.session \in 0 .. resets' /\ h.session # resets'
  BY <1>1 DEF Told
<1> QED BY <1>1, <1>2 DEF Told, M!u32Plus

(* The snapshot taken when a scan begins.                                  *)
LEMMA LiveIsTold ==
  ASSUME Base
  PROVE  header_live \in Headers /\ header_live.session = resets /\ Told(header_live)
<1>1. /\ read_count \in Number /\ visible \in Nat /\ visible <= BufferSize
      /\ resets \in 0 .. MaxResets
  BY LinkAssumption DEF Base, TypesInv, MailboxInv
<1>2. M!u32Plus(read_count, visible) \in Number
  BY <1>1, LinkAssumption DEF M!u32Plus, Number
<1>3. /\ header_live.read_count = read_count /\ header_live.available_bytes = visible
      /\ header_live.session = resets
      /\ header_live.write_count = M!u32Plus(read_count, visible)
  BY DEF header_live, HeaderOf
<1>4. header_live \in Headers
  BY <1>1, <1>2, LinkAssumption DEF header_live, HeaderOf, Headers, Number
<1>5. Told(header_live)
  BY <1>1, <1>3, LinkAssumption DEF Told
<1> QED BY <1>3, <1>4, <1>5

(* A step that is not a reset and starts no block makes nothing sound.     *)
LEMMA SoundBefore ==
  ASSUME Base, \/ TapEdge \/ FpgaWrite \/ UNCHANGED vars
               \/ Opened \/ Idle \/ Deliver \/ Breaks \/ Starts \/ Waits
  PROVE  (Sound' => Sound) /\ resets' = resets
<1>1. CASE TapEdge
  BY <1>1, EdgeGoes DEF RingGoes, CommandGoes, Sound
<1>2. CASE FpgaWrite \/ UNCHANGED vars
  BY <1>2 DEF FpgaWrite, vars, Sound
<1>3. host \in Hosts
  BY DEF Base, TypesInv
<1>4. CASE Breaks
  BY <1>4, BreakingOff DEF Sound
<1>5. CASE Opened
  <2>1. host'.pc # "payload" /\ resets' = resets
    BY <1>3, <1>5 DEF Opened, Hosts
  <2> QED BY <2>1 DEF Sound
<1>6. CASE Idle
  <2>1. host'.pc # "payload" /\ resets' = resets
    BY <1>3, <1>6 DEF Idle, read_header, Hosts
  <2> QED BY <2>1 DEF Sound
<1>7. CASE Deliver
  <2>1. host'.pc # "payload" /\ resets' = resets
    BY <1>3, <1>7 DEF Deliver, Hosts
  <2> QED BY <2>1 DEF Sound
<1>8. CASE Starts
  BY <1>8, StartingOver DEF Sound
<1>9. CASE Waits
  BY <1>9, Waiting DEF Sound
<1> QED BY <1>1, <1>2, <1>4, <1>5, <1>6, <1>7, <1>8, <1>9

(* An edge of the running command, by the state of the TAP.                *)
LEMMA ScanEngine ==
  ASSUME Base, ScanEdge
  PROVE  /\ tap = "CaptureDR" => Captures(dr')
         /\ tap = "ShiftDR" => Shifts(dr')
         /\ tap = "UpdateDR" /\ dr.response_active => Ends(dr')
         /\ tap = "UpdateDR" /\ ~dr.response_active => Asks(dr', cmd.tdi, cmd.length)
         /\ tap \notin {"CaptureDR", "ShiftDR", "UpdateDR"} => Quiets(dr')
<1>1. cmd.tdi \in Opcodes /\ cmd.length \in Nat /\ dr \in Engines
  BY LinkAssumption DEF Base, TypesInv, Commands
<1>2. sel /\ dr' = EngineNext(cmd.tdi, cmd.length)
  BY ScanSteps
<1> QED BY <1>1, <1>2, EngineMoves

LEMMA EdgeAnswered ==
  ASSUME Base, AnsweredInv, TapEdge
  PROVE  AnsweredInv'
<1>1. (Sound' => Sound) /\ cmd \in Commands
  BY SoundBefore DEF Base, TypesInv
<1>2. CASE TapResetEdge
  <2>1. ~Running'
    BY <1>2 DEF TapResetEdge, Running, Base, TypesInv, Hosts
  <2> QED BY <2>1 DEF AnsweredInv
<1>3. CASE SelectUser2
  <2>1. cmd' = user_command("header", HeaderBytes) /\ tap' = tap /\ tap = "Idle"
    BY <1>3 DEF SelectUser2, Base, ResetInv
  <2>2. requesting'
    BY <2>1 DEF requesting, user_command, NoCommand
  <2> QED BY <2>1, <2>2 DEF AnsweredInv, Data
<1>4. CASE ScanEdge
  <2> SUFFICES ASSUME Running', Sound'
               PROVE  /\ requesting' /\ tap' \in Data => dr'.bit_count = cmd'.sent
                      /\ ~requesting' /\ ~cmd'.done => dr'.pending_response
    BY DEF AnsweredInv
  <2>1. /\ Running /\ ~cmd.done /\ ScanTap /\ Sound
        /\ (requesting /\ tap \in Data => dr.bit_count = cmd.sent)
        /\ (~requesting => dr.pending_response)
    BY <1>1, <1>4, ScanSteps DEF AnsweredInv
  <2>2. CASE tap \in {"Idle", "SelectDR", "Exit1DR"}
    <3>1. Quiets(dr') /\ cmd' = cmd /\ (tap' \in Data => tap = "Exit1DR")
      BY <1>4, <2>1, <2>2, ScanEngine DEF ScanTap, Data
    <3>2. requesting' <=> requesting
      BY <3>1 DEF requesting
    <3> QED BY <2>1, <3>1, <3>2 DEF Quiets, Data
  <2>3. CASE tap = "CaptureDR"
    <3>1. Captures(dr') /\ cmd' = cmd /\ cmd.sent = 0
      BY <1>4, <2>1, <2>3, ScanEngine DEF ScanTap, Base, ScanInv
    <3>2. requesting' <=> requesting
      BY <3>1 DEF requesting
    <3> QED BY <2>1, <3>1, <3>2 DEF Captures
  <2>4. CASE tap = "ShiftDR"
    <3>1. Shifts(dr') /\ cmd' = Received
      BY <1>4, <2>1, <2>4, ScanEngine DEF ScanTap
    <3>2. cmd'.sent = cmd.sent + 1 /\ cmd'.tdi = cmd.tdi
      BY <2>1, <3>1, ReceivedKeeps
    <3>3. requesting' <=> requesting
      BY <3>2 DEF requesting
    <3> QED BY <2>1, <2>4, <3>1, <3>2, <3>3 DEF Shifts, Data
  <2>5. CASE tap = "UpdateDR"
    <3>1. tap' = "Idle" /\ cmd' = IF requesting THEN [cmd EXCEPT !.tdi = "none", !.sent = 0]
                                 ELSE [cmd EXCEPT !.done = TRUE]
      BY <2>1, <2>5 DEF ScanTap
    <3>2. CASE requesting
      <4>1. ~dr.response_active /\ cmd.sent = scan_bits /\ scan_bits = RequestBits
        BY <2>1, <2>5, <3>2 DEF Base, ScanInv, EngineInv, scan_bits
      <4>2. dr.bit_count = RequestBits /\ cmd.tdi # "none"
        BY <2>1, <2>5, <3>2, <4>1 DEF Data, requesting
      <4>3. Asks(dr', cmd.tdi, cmd.length)
        BY <1>4, <2>5, <4>1, ScanEngine
      <4> QED BY <3>1, <4>2, <4>3 DEF Asks, Data
    <3>3. CASE ~requesting
      <4>1. cmd'.done
        BY <1>1, <3>1, <3>3 DEF Commands
      <4> QED BY <3>1, <4>1 DEF Data
    <3> QED BY <3>2, <3>3 DEF requesting
  <2> QED BY <2>1, <2>2, <2>3, <2>4, <2>5 DEF ScanTap
<1> QED BY <1>2, <1>3, <1>4 DEF TapEdge

LEMMA EdgeSnapshot ==
  ASSUME Base, SnapshotInv, TapEdge
  PROVE  SnapshotInv'
<1> SUFFICES ASSUME dr'.response_active, dr'.response_opcode = "header"
             PROVE  Told(header_snapshot)' /\ header_snapshot'.session = resets'
  BY DEF SnapshotInv
<1>1. RingGoes /\ SnapshotEdge /\ ResponseGoes /\ (Strobes => ~dr.pending_response)
  BY EdgeGoes DEF EngineGoes
<1>2. dr.pending_response /\ ~dr.payload_commit
  BY <1>1 DEF ResponseGoes, Base, EngineInv, Strobes
<1>3. read_count' = read_count /\ visible' \in Nat /\ visible <= visible' /\ resets' = resets
  <2>1. Len(unread) \in Nat /\ visible \in Nat
    BY DEF Base, TypesInv, MailboxInv
  <2> QED BY <1>1, <1>2, <2>1 DEF RingGoes, Grows
<1>4. \E h \in Headers : h = header_snapshot' /\ Told(h) /\ h.session = resets
  <2>1. CASE tap = "CaptureDR" /\ ~dr.response_active
    <3>1. header_snapshot' = header_live
      BY <1>1, <2>1 DEF SnapshotEdge, responding
    <3> QED BY <3>1, LiveIsTold
  <2>2. CASE dr.response_active /\ Keeps(dr')
    <3>1. responding("header") /\ dr.response_opcode = "header"
      BY <1>2, <2>2 DEF responding, Keeps, Base, EngineInv
    <3>2. header_snapshot' = header_snapshot /\ header_snapshot \in Headers
      BY <1>1, <3>1 DEF SnapshotEdge, Base, TypesInv
    <3> QED BY <2>2, <3>1, <3>2 DEF SnapshotInv
  <2> QED BY <1>1, <2>1, <2>2 DEF ResponseGoes, Shifts, Quiets
<1>5. PICK h \in Headers : h = header_snapshot' /\ Told(h) /\ h.session = resets
  BY <1>4
<1>6. Told(h)'
  BY <1>3, <1>5, ToldStays
<1> QED BY <1>3, <1>5, <1>6 DEF Told

LEMMA EdgeRead ==
  ASSUME Base, SnapshotInv, ReadInv, AnsweredInv, TapEdge
  PROVE  ReadInv'
<1>1. SnapshotInv' /\ RingGoes /\ EngineGoes /\ SnapshotEdge /\ cmd \in Commands
  BY EdgeSnapshot, EdgeGoes DEF Base, TypesInv
<1> SUFFICES ASSUME Running', cmd'.opcode = "header", ~requesting', cmd'.sent > 0
             PROVE  /\ (cmd'.header = NoHeader /\ resets' > 0) \/ Told(cmd.header)'
                    /\ dr'.response_active => cmd'.clean /\ cmd'.header = header_snapshot'
  BY DEF ReadInv
<1>2. ~TapResetEdge
  BY DEF TapResetEdge, Running, Base, TypesInv, Hosts
<1>3. ~SelectUser2
  BY DEF SelectUser2, requesting, user_command, NoCommand
<1>4. ScanEdge
  BY <1>2, <1>3 DEF TapEdge
<1>5. Running /\ ~cmd.done /\ sel /\ ScanTap /\ UNCHANGED <<host, resets>>
  BY <1>4, ScanSteps
<1>6. ~requesting /\ cmd.opcode = "header"
  <2>1. Received.opcode = cmd.opcode /\ Received.tdi = cmd.tdi
    BY <1>5, ReceivedKeeps
  <2>2. CASE tap = "UpdateDR" /\ requesting
    <3>1. cmd'.sent = 0
      BY <1>1, <1>5, <2>2 DEF ScanTap, Commands
    <3> QED BY <3>1
  <2>3. CASE ~(tap = "UpdateDR" /\ requesting)
    <3>1. cmd'.opcode = cmd.opcode /\ cmd'.tdi = cmd.tdi
      BY <1>1, <1>5, <2>1, <2>3 DEF ScanTap, Commands
    <3> QED BY <3>1 DEF requesting
  <2> QED BY <2>2, <2>3
<1>7. Wanted = "header"
  BY <1>5, <1>6 DEF Base, ScanInv
<1>8. ~dr.payload_commit
  BY <1>5, <1>6, <1>7 DEF Base, ScanInv, Wanted
<1>9. read_count' = read_count /\ visible' \in Nat /\ visible <= visible'
  <2>1. Len(unread) \in Nat /\ visible \in Nat
    BY DEF Base, TypesInv, MailboxInv
  <2> QED BY <1>1, <1>8, <2>1 DEF RingGoes, Grows
<1>10. dr.response_active => responding("header") /\ header_snapshot' = header_snapshot
  BY <1>1, <1>5, <1>7 DEF responding, SnapshotEdge, Base, ScanInv, EngineInv
<1>11. ASSUME cmd'.header = cmd.header, cmd'.clean = cmd.clean, cmd.sent > 0,
              dr'.response_active => dr.response_active
       PROVE  /\ (cmd'.header = NoHeader /\ resets' > 0) \/ Told(cmd.header)'
              /\ dr'.response_active => cmd'.clean /\ cmd'.header = header_snapshot'
  <2>1. PICK h \in Headers : h = cmd.header
    BY <1>1 DEF Commands
  <2>2. /\ (h = NoHeader /\ resets > 0) \/ Told(h)
        /\ dr.response_active => cmd.clean /\ h = header_snapshot
    BY <1>5, <1>6, <1>11, <2>1 DEF ReadInv
  <2>3. Told(h) => Told(h)'
    BY <1>5, <1>9, ToldStays
  <2>4. Told(h)' => Told(cmd.header)'
    BY <1>11, <2>1 DEF Told
  <2> QED BY <1>5, <1>10, <1>11, <2>1, <2>2, <2>3, <2>4
<1>12. CASE tap \in {"Idle", "SelectDR", "CaptureDR"}
  <2>1. cmd' = cmd /\ cmd.sent = 0
    BY <1>5, <1>12 DEF ScanTap, Base, ScanInv
  <2> QED BY <2>1
<1>13. CASE tap = "Exit1DR"
  <2>1. cmd' = cmd /\ Quiets(dr')
    BY <1>4, <1>5, <1>13, ScanEngine DEF ScanTap
  <2> QED BY <1>11, <2>1 DEF Quiets
<1>14. CASE tap = "UpdateDR"
  <2>1. cmd' = [cmd EXCEPT !.done = TRUE] /\ tap' = "Idle"
    BY <1>5, <1>6, <1>14 DEF ScanTap
  <2>2. cmd'.header = cmd.header /\ cmd'.clean = cmd.clean /\ cmd'.sent = cmd.sent
    BY <1>1, <2>1 DEF Commands
  <2>3. ~dr'.response_active
    BY <1>4, <1>14, ScanEngine DEF Ends, Asks
  <2> QED BY <1>11, <2>2, <2>3
<1>15. CASE tap = "ShiftDR"
  <2>1. Shifts(dr') /\ cmd' = Received
    BY <1>4, <1>5, <1>15, ScanEngine DEF ScanTap
  <2>2. cmd' = [cmd EXCEPT !.sent = cmd.sent + 1, !.clean = Clean, !.header = Heard]
    BY <1>5, <1>6, <2>1, ReceivedIs
  <2>3. cmd'.header = Heard /\ cmd'.clean = Clean
    BY <1>1, <2>2 DEF Commands
  <2>4. CASE dr.response_active
    <3>1. /\ dr.pending_response /\ dr.bit_count = cmd.sent /\ dr.response_length = cmd.length
          /\ cmd.sent < scan_bits /\ scan_bits = cmd.length * ByteBits
      BY <1>5, <1>6, <1>15, <2>4 DEF Base, EngineInv, ScanInv, CommandInv, scan_bits
    <3>2. tdo_valid
      BY <1>10, <2>4, <3>1 DEF tdo_valid, in_response
    <3>3. cmd.sent = 0 \/ (cmd.clean /\ cmd.header = header_snapshot)
      BY <1>1, <1>5, <1>6, <2>4 DEF ReadInv, Commands
    <3>4. Clean
      BY <3>2, <3>3 DEF Clean
    <3>5. Heard = header_snapshot
      <4>1. header_snapshot \in Headers
        BY DEF Base, TypesInv
      <4>2. Heard = [header_snapshot EXCEPT !.available_bytes = header_snapshot.available_bytes]
        BY <3>3, <3>4 DEF Heard
      <4> QED BY <4>1, <4>2 DEF Headers
    <3>6. Told(header_snapshot)'
      <4>1. dr'.response_active /\ dr'.response_opcode = "header"
        BY <1>5, <1>7, <2>1, <2>4, <3>1 DEF Shifts, Keeps, Base, ScanInv
      <4> QED BY <1>1, <4>1 DEF SnapshotInv
    <3>7. cmd'.header = header_snapshot'
      BY <1>10, <2>3, <2>4, <3>5
    <3>8. Told(cmd.header)'
      BY <3>6, <3>7 DEF Told
    <3> QED BY <2>3, <3>4, <3>7, <3>8
  <2>5. CASE ~dr.response_active
    <3>1. ~Clean
      BY <2>5 DEF Clean, tdo_valid, responding, payload_valid
    <3>2. cmd'.header = NoHeader
      BY <2>3, <3>1 DEF Heard
    <3>3. ~dr.pending_response
      BY <1>15, <2>5 DEF Base, EngineInv, Data
    <3>4. resets # 0
      BY <1>5, <1>6, <3>3 DEF AnsweredInv, Sound
    <3>5. resets' > 0
      BY <1>5, <3>4 DEF Base, TypesInv
    <3> QED BY <2>1, <2>5, <3>2, <3>5 DEF Shifts
  <2> QED BY <2>4, <2>5
<1> QED BY <1>5, <1>12, <1>13, <1>14, <1>15 DEF ScanTap

LEMMA EdgeBasis ==
  ASSUME Base, BasisInv, ExpectedInv, TapEdge
  PROVE  BasisInv' /\ ExpectedInv'
<1>1. RingGoes /\ EngineGoes /\ CommandGoes /\ cmd \in Commands /\ host \in Hosts
  BY EdgeGoes DEF Base, TypesInv
<1>2. ASSUME host'.pc = "payload"
      PROVE  Told(host.header)' /\ cmd'.length <= host'.header.available_bytes
  <2>1. host.pc = "payload" /\ host'.header = host.header
    BY <1>1, <1>2 DEF CommandGoes
  <2>2. ScanEdge
    BY <2>1 DEF TapEdge, TapResetEdge, SelectUser2
  <2>3. Running /\ ~cmd.done /\ resets' = resets /\ ScanTap
    BY <2>2, ScanSteps
  <2>4. ~dr.payload_commit
    BY <2>1, <2>3 DEF Base, ScanInv
  <2>5. read_count' = read_count /\ visible' \in Nat /\ visible <= visible'
    <3>1. Len(unread) \in Nat /\ visible \in Nat
      BY DEF Base, TypesInv, MailboxInv
    <3> QED BY <1>1, <2>4, <3>1 DEF RingGoes, Grows
  <2>6. PICK h \in Headers : h = host.header
    BY <1>1 DEF Hosts
  <2>7. Told(h)'
    BY <2>1, <2>3, <2>5, <2>6, ToldStays DEF BasisInv
  <2>8. Told(host.header)'
    BY <2>1, <2>6, <2>7 DEF Told
  <2>9. cmd'.length = cmd.length
    <3>1. Received.length = cmd.length
      BY <2>3, ReceivedKeeps
    <3> QED BY <1>1, <2>3, <3>1 DEF ScanTap, Commands
  <2> QED BY <2>1, <2>8, <2>9 DEF BasisInv
<1>3. ASSUME resets' = 0, host'.pc = "header", host'.expected # -1
      PROVE  ~dr'.payload_commit /\ host'.expected = read_count'
  <2>1. host.pc = "header" /\ host'.expected = host.expected /\ resets = 0
    BY <1>1, <1>3 DEF CommandGoes, RingGoes
  <2>2. host.expected = IF dr.payload_commit THEN Counts(Len(block)) ELSE read_count
    BY <1>3, <2>1 DEF ExpectedInv
  <2>3. ~dr'.payload_commit
    <3>1. Paying => dr.response_opcode = "payload" /\ dr.pending_response
      BY DEF Paying, Base, EngineInv
    <3>2. Running /\ Wanted = "header"
      BY <2>1 DEF Running, Wanted
    <3>3. ~Paying
      BY <3>1, <3>2 DEF Base, ScanInv
    <3> QED BY <1>1, <3>3 DEF EngineGoes
  <2>4. CASE dr.payload_commit
    BY <1>1, <2>1, <2>2, <2>3, <2>4 DEF RingGoes, Committing
  <2>5. CASE ~dr.payload_commit
    BY <1>1, <2>1, <2>2, <2>3, <2>5 DEF RingGoes, Grows
  <2> QED BY <2>4, <2>5
<1>4. host'.error \in {"header", "mismatch"} => resets' > 0
  BY <1>1 DEF CommandGoes, RingGoes, ExpectedInv
<1>5. host'.pc \in {"tap_reset", "open", "check"} => host'.expected = -1
  BY <1>1 DEF CommandGoes, ExpectedInv
<1>6. BasisInv'
  BY <1>2 DEF BasisInv
<1>7. ExpectedInv'
  BY <1>3, <1>4, <1>5 DEF ExpectedInv
<1> QED BY <1>6, <1>7

(* While a sound scan reads a block, every last bit of a byte takes it.    *)
LEMMA SoundReady ==
  ASSUME Base, BlockInv, Sound, Paying, tap = "ShiftDR"
  PROVE  payload_valid /\ in_response /\ tdo_valid /\ (payload_ready <=> last_bit)
<1> DEFINE n == Len(block)
           r == dr.response_length
           c == dr.bit_count
<1>1. n \in Nat /\ r \in Nat /\ c \in Nat /\ visible \in Nat
  BY DEF Base, TypesInv, MailboxInv, Engines
<1>2. ByteBits * n <= c /\ r <= visible
  BY DEF BlockInv, PayingFor, Paying, Base, EngineInv
<1>3. c < r * ByteBits
  BY DEF Base, CommandInv, EngineInv, Paying, scan_bits, requesting
<1>4. in_response
  BY <1>3 DEF in_response
<1>5. sel
  BY DEF Base, EngineInv, Paying
<1> HIDE DEF n, r, c
<1>6. n < r
  <2>1. ByteBits \in Nat \ {0} /\ n \in Int /\ r \in Int
    BY <1>1, LinkAssumption
  <2>2. r * ByteBits = ByteBits * r /\ ByteBits * n \in Int /\ ByteBits * r \in Int
    BY <2>1
  <2>3. ByteBits * n < ByteBits * r
    BY <1>1, <1>2, <1>3, <2>2
  <2> QED BY <2>1, <2>3, Products
<1>7. payload_valid
  <2>1. n < visible
    BY <1>1, <1>2, <1>6
  <2> QED BY <1>5, <2>1 DEF payload_valid, responding, ring_valid, Paying, n
<1> QED BY <1>4, <1>7 DEF tdo_valid, payload_ready

LEMMA EdgeBlock ==
  ASSUME Base, BlockInv, TapEdge
  PROVE  BlockInv'
<1>1. RingGoes /\ EngineGoes /\ CommandGoes /\ (Sound' => Sound) /\ resets' = resets
  BY EdgeGoes, SoundBefore
<1>2. Base'
  BY ResetStep, SelectStep, ScanStep DEF TapEdge
<1>3. /\ visible \in Nat /\ visible' \in Nat /\ Len(block) \in Nat /\ block \in Seq(Number)
      /\ cmd.length \in Nat /\ dr \in Engines /\ dr' \in Engines
  BY <1>2, LinkAssumption DEF Base, TypesInv, MailboxInv, Commands
<1>4. ~dr.payload_commit => visible <= visible'
  <2>1. Len(unread) \in Nat
    BY DEF Base, TypesInv, MailboxInv
  <2> QED BY <1>1, <1>3, <2>1 DEF RingGoes, Grows
<1>5. ASSUME Sound', PayingFor' PROVE dr'.response_length <= visible'
  <2>1. RequestGoes
    BY <1>1, <1>5 DEF EngineGoes, PayingFor
  <2>2. CASE dr.pending_response /\ Keeps(dr')
    <3>1. ~dr.payload_commit
      BY <1>1, <2>2 DEF EngineGoes, Strobes
    <3>2. dr.response_length <= visible
      BY <1>1, <1>5, <2>2 DEF BlockInv, PayingFor, Keeps
    <3> QED BY <1>3, <1>4, <2>2, <3>1, <3>2 DEF Keeps, Engines
  <2>3. CASE dr'.response_opcode = cmd.tdi /\ dr'.response_length = cmd.length /\ ~Strobes
    <3>1. cmd.tdi = "payload" /\ ~dr.payload_commit
      BY <1>5, <2>3 DEF PayingFor, Strobes
    <3>2. cmd.length <= visible
      BY <1>1, <1>5, <3>1 DEF BlockInv
    <3> QED BY <1>3, <1>4, <2>3, <3>1, <3>2
  <2> QED BY <2>1, <2>2, <2>3 DEF RequestGoes
<1>6. ASSUME Sound', cmd'.tdi = "payload" PROVE cmd'.length <= visible'
  <2>1. cmd.tdi = "payload" /\ cmd'.length = cmd.length
    BY <1>1, <1>6 DEF CommandGoes
  <2>2. ~dr.payload_commit
    BY <2>1 DEF Base, CommandInv
  <2>3. cmd.length <= visible
    BY <1>1, <1>6, <2>1 DEF BlockInv
  <2> QED BY <1>3, <1>4, <2>1, <2>2, <2>3
<1>7. ASSUME Paying'
      PROVE  /\ Len(block') <= dr'.response_length /\ ByteBits * Len(block') <= dr'.bit_count
             /\ Sound' => dr'.bit_count < ByteBits * (Len(block') + 1)
  <2>1. ResponseGoes /\ (Strobes => ~dr.pending_response)
    BY <1>1, <1>7 DEF EngineGoes, Paying
  <2>2. CASE tap = "CaptureDR" /\ dr.pending_response /\ Captures(dr') /\ block = <<>>
    <3>1. block' = <<>>
      BY <1>1, <2>1, <2>2 DEF RingGoes
    <3>2. Len(block') = 0 /\ dr'.bit_count = 0 /\ dr'.response_length \in Nat
      BY <1>3, <2>2, <3>1 DEF Captures, Engines
    <3> DEFINE n == Len(block')
               c == dr'.bit_count
               r == dr'.response_length
    <3>3. n = 0 /\ c = 0 /\ r \in Nat /\ ByteBits \in Nat \ {0}
      BY <3>2, LinkAssumption
    <3> HIDE DEF n, c, r
    <3>4. n <= r /\ ByteBits * n <= c /\ c < ByteBits * (n + 1)
      BY <3>3
    <3> QED BY <3>4 DEF n, c, r
  <2>3. CASE tap = "ShiftDR" /\ dr.response_active /\ Shifts(dr')
    <3>1. Paying /\ ~Strobes
      BY <1>7, <2>1, <2>3 DEF Paying, Shifts, Keeps, Base, EngineInv
    <3> DEFINE n == Len(block)
               c == dr.bit_count
               r == dr.response_length
               n1 == Len(block')
               c1 == dr'.bit_count
    <3>2. /\ n \in Nat /\ c \in Nat /\ r \in Nat /\ c1 = c + 1 /\ dr'.response_length = r
          /\ n <= r /\ ByteBits * n <= c /\ (Sound => c < ByteBits * (n + 1))
          /\ ByteBits \in Nat \ {0}
      BY <1>3, <2>3, <3>1, LinkAssumption DEF Engines, Shifts, Keeps, BlockInv
    <3>3. payload_ready => n1 = n + 1 /\ c % ByteBits = ByteBits - 1 /\ c < r * ByteBits
      <4>1. payload_ready => Len(block') = Len(block) + 1
        BY <1>1, <1>3 DEF RingGoes, Taking
      <4> QED BY <4>1 DEF payload_ready, last_bit, in_response
    <3>4. ~payload_ready => n1 = n
      BY <1>1, <3>1 DEF RingGoes
    <3>5. Sound => (payload_ready <=> c % ByteBits = ByteBits - 1)
      BY <2>3, <3>1, SoundReady DEF last_bit
    <3> HIDE DEF n, c, r, n1, c1
    <3>6. /\ c % ByteBits = ByteBits - 1 => ByteBits * (n + 1) <= c + 1
          /\ c < ByteBits * (n + 1) /\ c % ByteBits = ByteBits - 1 =>
               c + 1 < ByteBits * ((n + 1) + 1)
          /\ c < ByteBits * (n + 1) /\ c % ByteBits # ByteBits - 1 => c + 1 < ByteBits * (n + 1)
      BY <3>2, BitComes
    <3>7. CASE payload_ready
      <4>1. n1 = n + 1 /\ c % ByteBits = ByteBits - 1 /\ c < r * ByteBits
        BY <3>3, <3>7
      <4>2. n < r
        <5>1. r * ByteBits = ByteBits * r /\ ByteBits * n \in Int /\ ByteBits * r \in Int
              /\ n \in Int /\ r \in Int
          BY <3>2
        <5>2. ByteBits * n < ByteBits * r
          BY <3>2, <4>1, <5>1
        <5> QED BY <3>2, <5>1, <5>2, Products
      <4>3. n1 <= r
        BY <3>2, <4>1, <4>2
      <4>4. ByteBits * n1 <= c1 /\ (Sound => c1 < ByteBits * (n1 + 1))
        BY <3>2, <3>6, <4>1
      <4> QED BY <1>1, <3>2, <4>3, <4>4 DEF n1, c1
    <3>8. CASE ~payload_ready
      <4>1. ByteBits * n1 <= c1
        <5>1. ByteBits * n \in Int
          BY <3>2
        <5> QED BY <3>2, <3>4, <3>8, <5>1
      <4>2. Sound => c1 < ByteBits * (n1 + 1)
        BY <3>2, <3>4, <3>5, <3>6, <3>8
      <4>3. n1 <= r
        BY <3>2, <3>4, <3>8
      <4> QED BY <1>1, <3>2, <4>1, <4>2, <4>3 DEF n1, c1
    <3> QED BY <3>7, <3>8
  <2>4. CASE tap = "Exit1DR" /\ dr.response_active /\ Quiets(dr')
    <3>1. Paying /\ ~Strobes /\ ~payload_ready
      BY <1>7, <2>1, <2>4 DEF Paying, Quiets, Keeps, Base, EngineInv, payload_ready
    <3>2. block' = block /\ dr'.bit_count = dr.bit_count /\ dr'.response_length = dr.response_length
      BY <1>1, <2>4, <3>1 DEF RingGoes, Quiets, Keeps
    <3> QED BY <1>1, <3>1, <3>2 DEF BlockInv
  <2> QED BY <2>1, <2>2, <2>3, <2>4 DEF ResponseGoes
<1>8. ASSUME dr'.payload_commit
      PROVE  Len(block') <= BlockSize /\ (Sound' => Len(block') = dr'.response_length)
  <2>1. Paying /\ exact /\ tap = "UpdateDR" /\ Ends(dr')
    BY <1>1, <1>8 DEF EngineGoes
  <2>2. ~Strobes /\ ~payload_ready
    BY <2>1 DEF Base, EngineInv, payload_ready
  <2>3. block' = block /\ dr'.response_length = dr.response_length
    BY <1>1, <2>1, <2>2 DEF RingGoes, Ends, Keeps
  <2>4. dr.pending_response /\ dr.response_opcode = "payload"
    BY <2>1 DEF Paying, Base, EngineInv
  <2>5. dr.response_length <= BlockSize /\ Len(block) <= dr.response_length
    BY <2>1, <2>4 DEF Base, CommandInv, BlockInv
  <2>6. Len(block) <= BlockSize
    BY <1>3, <2>5, LinkAssumption DEF Engines
  <2>7. ASSUME Sound PROVE Len(block) = dr.response_length
    <3> DEFINE n == Len(block)
               c == dr.bit_count
               r == dr.response_length
    <3>1. n \in Nat /\ r \in Nat /\ c = r * ByteBits /\ ByteBits \in Nat \ {0}
          /\ n <= r /\ c < ByteBits * (n + 1)
      BY <1>3, <2>1, <2>5, <2>7, LinkAssumption DEF exact, BlockInv, Engines
    <3> HIDE DEF n, c, r
    <3>2. ByteBits * r < ByteBits * (n + 1) /\ r \in Int /\ n + 1 \in Int
      BY <3>1
    <3>3. r < n + 1
      BY <3>1, <3>2, Products
    <3>4. n = r
      BY <3>1, <3>3
    <3> QED BY <3>4 DEF n, r
  <2> QED BY <1>1, <2>3, <2>6, <2>7
<1> QED BY <1>5, <1>6, <1>7, <1>8 DEF BlockInv

(* An edge of a scan that reads a block.                                   *)
LEMMA ScanPayload ==
  ASSUME Base, BlockInv, AnsweredInv, PayloadInv, ScanEdge, host.pc = "payload"
  PROVE  PayloadInv'
<1>1. RingGoes /\ EngineGoes /\ Base' /\ (Sound' => Sound) /\ resets' = resets
  BY EdgeGoes, SoundBefore, ScanStep DEF TapEdge
<1>2. Running /\ ~cmd.done /\ ScanTap /\ UNCHANGED host /\ sel
  BY ScanSteps
<1>3. /\ cmd \in Commands /\ cmd' \in Commands /\ cmd.sent \in Nat /\ Len(cmd.payload) \in Nat
      /\ block \in Seq(Number) /\ Len(block) \in Nat /\ cmd.payload \in Seq(Arrivals)
      /\ ByteBits \in Nat \ {0}
  <2>1. cmd \in Commands /\ block \in Seq(Number)
    BY DEF Base, TypesInv, MailboxInv
  <2>2. cmd' \in Commands
    BY <1>1 DEF Base, TypesInv
  <2>3. cmd.sent \in Nat /\ cmd.payload \in Seq(Arrivals)
    BY <2>1 DEF Commands
  <2> QED BY <2>1, <2>2, <2>3, LinkAssumption
<1>4. /\ cmd.opcode = "payload" /\ Wanted = "payload"
      /\ requesting => cmd.payload = <<>> /\ ~dr.pending_response
      /\ dr.response_active => dr.pending_response /\ dr.response_opcode = "payload"
                               /\ dr.bit_count = cmd.sent
  BY <1>2 DEF Base, ScanInv, EngineInv, Wanted, PayloadInv
<1> DEFINE Bits(c) == /\ ByteBits * Len(c.payload) <= c.sent
                      /\ c.sent < ByteBits * (Len(c.payload) + 1)
<1>5. ~requesting => Bits(cmd)
  BY DEF PayloadInv
<1>6. Sound /\ dr.response_active => InStep
  BY <1>4 DEF PayloadInv, Paying
<1> HIDE DEF Bits
<1>7. /\ requesting' => cmd'.payload = <<>>
      /\ ~requesting' => Bits(cmd')
      /\ Sound' /\ (Paying' \/ cmd'.done) => InStep'
  <2>1. CASE tap \in {"Idle", "SelectDR"}
    <3>1. cmd' = cmd /\ ~Paying'
      BY <1>1, <1>2, <2>1 DEF ScanTap, EngineGoes, ResponseGoes, Paying
    <3>2. requesting' <=> requesting
      BY <3>1 DEF requesting
    <3> QED BY <1>2, <1>4, <1>5, <3>1, <3>2
  <2>2. CASE tap = "CaptureDR"
    <3>1. cmd' = cmd /\ cmd.sent = 0 /\ (requesting' <=> requesting)
      BY <1>2, <2>2 DEF ScanTap, requesting, Base, ScanInv
    <3>2. ASSUME Paying' PROVE InStep'
      <4>1. block = <<>> /\ dr.pending_response /\ ~dr.response_active
        BY <1>1, <2>2, <3>2 DEF EngineGoes, ResponseGoes, Paying
      <4>2. ~Strobes /\ ~payload_ready
        BY <1>1, <4>1 DEF EngineGoes, RingGoes, Paying
      <4>3. block' = <<>> /\ Len(block') = 0
        BY <1>1, <4>1, <4>2 DEF RingGoes
      <4>4. Len(cmd.payload) = 0
        <5> DEFINE n == Len(cmd.payload)
        <5>1. ByteBits * n <= 0 /\ n \in Nat
          BY <1>3, <1>4, <1>5, <3>1, <4>1 DEF Bits
        <5> HIDE DEF n
        <5>2. n = 0
          BY <1>3, <5>1
        <5> QED BY <5>2 DEF n
      <4>5. cmd.sent % ByteBits = 0
        BY <1>3, <3>1, ModSmall
      <4> QED BY <1>2, <3>1, <4>3, <4>4, <4>5 DEF InStep
    <3> QED BY <1>2, <1>4, <1>5, <3>1, <3>2
  <2>3. CASE tap = "ShiftDR" /\ requesting
    <3>1. cmd' = Received /\ Received = [cmd EXCEPT !.sent = cmd.sent + 1]
      BY <1>2, <2>3, ReceivedIs DEF ScanTap
    <3>2. requesting' /\ cmd'.payload = cmd.payload /\ cmd'.done = cmd.done
      BY <1>3, <2>3, <3>1 DEF Commands, requesting
    <3>3. ~Paying'
      BY <1>1, <1>4, <2>3 DEF EngineGoes, ResponseGoes, Paying
    <3> QED BY <1>2, <1>4, <2>3, <3>2, <3>3
  <2>4. CASE tap = "ShiftDR" /\ ~requesting
    <3>1. cmd' = Received /\ Shifts(dr')
      BY <1>2, <2>4, ScanEngine DEF ScanTap
    <3> DEFINE whole == (cmd.sent + 1) % ByteBits = 0
    <3>2. cmd' = IF whole THEN [cmd EXCEPT !.sent = cmd.sent + 1, !.clean = Clean,
                                           !.payload = Append(cmd.payload, Arrived)]
                 ELSE [cmd EXCEPT !.sent = cmd.sent + 1, !.clean = Clean]
      BY <1>2, <1>4, <2>4, <3>1, ReceivedIs
    <3>3. /\ cmd'.sent = cmd.sent + 1 /\ cmd'.clean = Clean /\ cmd'.tdi = cmd.tdi
          /\ cmd'.done = cmd.done
          /\ cmd'.payload = IF whole THEN Append(cmd.payload, Arrived) ELSE cmd.payload
      BY <1>3, <3>2 DEF Commands
    <3>4. Len(cmd'.payload) = IF whole THEN Len(cmd.payload) + 1 ELSE Len(cmd.payload)
      BY <1>3, <3>3
    <3>5. ~requesting' /\ ~cmd'.done
      BY <1>2, <2>4, <3>3 DEF requesting
    <3> DEFINE n == Len(cmd.payload)
               c == cmd.sent
               n1 == Len(cmd'.payload)
               c1 == cmd'.sent
               lastbit == c % ByteBits = ByteBits - 1
    <3>6. /\ n \in Nat /\ c \in Nat /\ c1 = c + 1 /\ n1 = (IF whole THEN n + 1 ELSE n)
          /\ ByteBits * n <= c /\ c < ByteBits * (n + 1)
      BY <1>3, <1>5, <2>4, <3>3, <3>4 DEF Bits
    <3>7. (whole <=> lastbit) /\ c % ByteBits = c - ByteBits * n
      <4> HIDE DEF n
      <4> QED BY <1>3, <3>6, BitComes
    <3>8. Bits(cmd')
      <4> HIDE DEF n, c, n1, c1, whole
      <4>1. /\ c % ByteBits = ByteBits - 1 => ByteBits * (n + 1) <= c + 1
            /\ c < ByteBits * (n + 1) /\ c % ByteBits = ByteBits - 1 =>
                 c + 1 < ByteBits * ((n + 1) + 1)
            /\ c < ByteBits * (n + 1) /\ c % ByteBits # ByteBits - 1 => c + 1 < ByteBits * (n + 1)
        BY <1>3, <3>6, BitComes
      <4>2. ByteBits * n \in Int
        BY <1>3, <3>6
      <4>3. ByteBits * n1 <= c1 /\ c1 < ByteBits * (n1 + 1)
        <5>1. CASE whole
          BY <3>6, <3>7, <4>1, <5>1
        <5>2. CASE ~whole
          BY <3>6, <3>7, <4>1, <4>2, <5>2
        <5> QED BY <5>1, <5>2 DEF whole
      <4> QED BY <4>3 DEF Bits, n1, c1
    <3>9. ASSUME Sound', Paying' PROVE InStep'
      <4>1. Sound /\ Paying /\ dr.bit_count = cmd.sent
        BY <1>1, <1>4, <2>4, <3>9 DEF EngineGoes, ResponseGoes, Paying
      <4>2. InStep
        BY <1>6, <4>1 DEF Paying
      <4>3. payload_valid /\ in_response /\ tdo_valid /\ (payload_ready <=> whole)
        <5>1. whole <=> last_bit
          BY <3>7, <4>1 DEF last_bit
        <5> HIDE DEF whole
        <5> QED BY <2>4, <4>1, <5>1, SoundReady
      <4>4. Clean
        BY <1>4, <4>1, <4>2, <4>3 DEF Clean, InStep
      <4>5. Len(block') = IF whole THEN Len(block) + 1 ELSE Len(block)
        <5> HIDE DEF whole
        <5>1. ~Strobes
          BY <2>4 DEF Base, EngineInv
        <5>2. payload_ready => block' = Append(block, unread[Len(block) + 1])
          BY <1>1 DEF RingGoes, Taking
        <5>3. ~payload_ready => block' = block
          BY <1>1, <5>1 DEF RingGoes
        <5> QED BY <1>3, <4>3, <5>2, <5>3
      <4>6. Len(cmd'.payload) = Len(block')
        <5> HIDE DEF whole
        <5> QED BY <3>4, <4>2, <4>5 DEF InStep
      <4>7. \A i \in 1 .. Len(cmd'.payload) : cmd'.payload[i].session = resets'
        <5>1. Arrived.session = resets
          BY <4>4 DEF Arrived
        <5>2. \A i \in 1 .. Len(cmd.payload) : cmd.payload[i].session = resets
          BY <4>2 DEF InStep
        <5> HIDE DEF whole
        <5>3. CASE whole
          <6>1. cmd'.payload = Append(cmd.payload, Arrived) /\ Len(cmd'.payload) = Len(cmd.payload) + 1
            BY <3>3, <3>4, <5>3
          <6>2. \A i \in 1 .. Len(cmd.payload) + 1 :
                  cmd'.payload[i] = IF i = Len(cmd.payload) + 1 THEN Arrived ELSE cmd.payload[i]
            BY <1>3, <6>1
          <6> QED BY <1>1, <1>3, <5>1, <5>2, <6>1, <6>2
        <5>4. CASE ~whole
          BY <1>1, <3>3, <5>2, <5>4
        <5> QED BY <5>3, <5>4 DEF whole
      <4> QED BY <3>3, <3>5, <4>4, <4>6, <4>7 DEF InStep
    <3> QED BY <3>5, <3>8, <3>9
  <2>5. CASE tap = "Exit1DR"
    <3>1. cmd' = cmd /\ (requesting' <=> requesting) /\ Quiets(dr')
      BY <1>2, <2>5, ScanEngine DEF ScanTap, requesting
    <3>2. ASSUME Sound', Paying' PROVE InStep'
      <4>1. Sound /\ Paying /\ InStep
        BY <1>1, <1>4, <1>6, <3>1, <3>2 DEF Quiets, Paying
      <4>2. block' = block
        BY <1>1, <2>5 DEF RingGoes, Base, EngineInv
      <4>3. InStep'
        BY <1>1, <1>2, <3>1, <4>1, <4>2 DEF InStep
      <4> QED BY <4>3
    <3> QED BY <1>2, <1>4, <1>5, <3>1, <3>2
  <2>6. CASE tap = "UpdateDR" /\ requesting
    <3>1. cmd' = [cmd EXCEPT !.tdi = "none", !.sent = 0]
      BY <1>2, <2>6 DEF ScanTap
    <3>2. ~requesting' /\ cmd'.payload = <<>> /\ cmd'.sent = 0 /\ ~cmd'.done
      BY <1>2, <1>3, <1>4, <2>6, <3>1 DEF Commands, requesting
    <3>3. ~Paying'
      BY <1>1, <2>6 DEF EngineGoes, ResponseGoes, Paying
    <3>4. Bits(cmd')
      <4>1. Len(cmd'.payload) = 0
        BY <3>2
      <4> QED BY <1>3, <3>2, <4>1 DEF Bits
    <3> QED BY <3>2, <3>3, <3>4
  <2>7. CASE tap = "UpdateDR" /\ ~requesting
    <3>1. cmd' = [cmd EXCEPT !.done = TRUE]
      BY <1>2, <2>7 DEF ScanTap
    <3>2. ~requesting' /\ cmd'.payload = cmd.payload /\ cmd'.sent = cmd.sent /\ cmd'.done
      BY <1>3, <2>7, <3>1 DEF Commands, requesting
    <3>3. Bits(cmd')
      BY <1>5, <2>7, <3>2 DEF Bits
    <3>4. ASSUME Sound' PROVE InStep'
      <4>1. Sound /\ dr.pending_response
        BY <1>1, <1>2, <2>7, <3>4 DEF AnsweredInv
      <4>2. dr.response_active
        BY <2>7, <4>1 DEF Base, EngineInv, Data
      <4>3. InStep /\ Ends(dr')
        BY <1>6, <2>7, <4>1, <4>2, ScanEngine
      <4>4. exact
        <5>1. scan_bits = cmd.length * ByteBits /\ cmd.sent = scan_bits
          BY <1>2, <2>7 DEF scan_bits, Base, ScanInv
        <5>2. dr.bit_count = cmd.sent /\ dr.response_length = cmd.length
          BY <1>4, <4>1, <4>2 DEF Base, CommandInv
        <5> QED BY <5>1, <5>2 DEF exact
      <4>5. dr'.payload_commit
        BY <1>4, <4>2, <4>3, <4>4 DEF Ends
      <4>6. block' = block
        BY <1>1, <2>7 DEF RingGoes, Base, EngineInv
      <4>7. ~Paying'
        BY <4>3 DEF Ends, Paying
      <4> QED BY <1>1, <3>2, <4>3, <4>5, <4>6, <4>7 DEF InStep
    <3> QED BY <3>2, <3>3, <3>4
  <2> QED BY <1>2, <2>1, <2>2, <2>3, <2>4, <2>5, <2>6, <2>7 DEF ScanTap
<1> QED BY <1>2, <1>7 DEF PayloadInv, Bits

LEMMA EdgePayload ==
  ASSUME Base, BlockInv, AnsweredInv, PayloadInv, TapEdge
  PROVE  PayloadInv'
<1>1. CASE ScanEdge /\ host.pc = "payload"
  BY <1>1, ScanPayload
<1>2. CASE ScanEdge /\ host.pc # "payload"
  <2>1. Running /\ ScanTap /\ UNCHANGED host /\ cmd \in Commands
    BY <1>2, ScanSteps DEF Base, TypesInv
  <2>2. cmd.opcode = "header" /\ cmd.payload = <<>>
    BY <1>2, <2>1 DEF Base, ScanInv, Wanted, PayloadInv
  <2>3. Received.payload = <<>>
    <3>1. CASE requesting
      BY <2>1, <2>2, <3>1, ReceivedIs DEF Commands
    <3>2. CASE ~requesting
      BY <2>1, <2>2, <3>2, ReceivedIs DEF Commands
    <3> QED BY <3>1, <3>2
  <2>4. cmd'.payload = <<>>
    BY <2>1, <2>2, <2>3 DEF ScanTap, Commands
  <2> QED BY <1>2, <2>1, <2>4 DEF PayloadInv
<1>3. CASE TapResetEdge
  <2>1. host.pc = "tap_reset" /\ host'.pc = "tap_reset" /\ cmd' = cmd
    BY <1>3 DEF TapResetEdge, Base, TypesInv, Hosts
  <2> QED BY <2>1 DEF PayloadInv
<1>4. CASE SelectUser2
  <2>1. host'.pc = "open" /\ cmd' = user_command("header", HeaderBytes)
    BY <1>4 DEF SelectUser2, Base, TypesInv, Hosts
  <2>2. cmd'.payload = <<>>
    BY <2>1 DEF user_command, NoCommand
  <2> QED BY <2>1, <2>2 DEF PayloadInv
<1> QED BY <1>1, <1>2, <1>3, <1>4 DEF TapEdge

(* What the host makes of a header.                                        *)
LEMMA ToldIsValid ==
  ASSUME NEW h \in Headers, Told(h)
  PROVE  valid(h)
<1> DEFINE r == h.read_count
           a == h.available_bytes
<1>1. r \in 0 .. CountMod - 1 /\ a \in 0 .. BufferSize /\ BufferSize < CountMod
      /\ BufferSize \in Nat /\ CountMod \in Nat
  BY LinkAssumption DEF Told, Number
<1>2. h.write_count = M!u32Plus(r, a)
  BY DEF Told
<1>3. h # NoHeader
  <2>1. NoHeader.read_count = -1 /\ -1 \notin 0 .. CountMod - 1
    BY <1>1 DEF NoHeader, HeaderOf
  <2> QED BY <1>1, <2>1 DEF r
<1> HIDE DEF r, a
<1>4. M!counter_delta(M!u32Plus(r, a), r) = a
  BY <1>1 DEF M!counter_delta, M!u32Plus
<1>5. a <= BufferSize
  BY <1>1
<1> QED BY <1>2, <1>3, <1>4, <1>5 DEF valid, r, a

LEMMA HeaderIsRead ==
  ASSUME Trust, HeaderRead
  PROVE  /\ Running /\ cmd.done /\ ~requesting /\ host.pc # "payload" /\ cmd.header \in Headers
         /\ ~Strobes /\ ~dr.pending_response /\ tap = "Idle"
         /\ valid(cmd.header) => Told(cmd.header)
         /\ resets = 0 => valid(cmd.header) /\ cmd.header.read_count = read_count
<1>1. Base /\ ReadInv
  BY DEF Trust
<1>2. cmd.done /\ cmd.opcode = "header" /\ Running
  BY <1>1 DEF HeaderRead, Base, CommandInv
<1>3. /\ host.pc # "payload" /\ ~requesting /\ tap = "Idle" /\ ~dr.pending_response
      /\ ~dr.payload_abort /\ ~dr.payload_commit /\ cmd.sent = scan_bits /\ cmd.length > 0
  <2>1. cmd \in Commands
    BY <1>1 DEF Base, TypesInv
  <2>2. cmd.length > 0
    BY <1>1, <1>2, <2>1 DEF Base, ScanInv, Commands
  <2> QED BY <1>1, <1>2, <2>2 DEF Base, ScanInv, Wanted
<1>4. cmd.sent > 0 /\ cmd.header \in Headers
  BY <1>1, <1>3, ScanBitsAre DEF Base, TypesInv, Commands
<1>5. (cmd.header = NoHeader /\ resets > 0) \/ Told(cmd.header)
  BY <1>1, <1>2, <1>3, <1>4 DEF ReadInv
<1>6. valid(cmd.header) => Told(cmd.header)
  BY <1>5 DEF valid
<1>7. resets = 0 => valid(cmd.header) /\ cmd.header.read_count = read_count
  <2> SUFFICES ASSUME resets = 0 PROVE valid(cmd.header) /\ cmd.header.read_count = read_count
    OBVIOUS
  <2>1. Told(cmd.header)
    BY <1>5
  <2>2. cmd.header.session = resets
    BY <2>1 DEF Told
  <2> QED BY <1>4, <2>1, <2>2, ToldIsValid DEF Told
<1> QED BY <1>2, <1>3, <1>4, <1>6, <1>7 DEF Strobes

(* The host's calls that ask for another header.                           *)
LEMMA HeaderCommand ==
  ASSUME Trust, Base', ExpectedInv', UNCHANGED fpga, resets' = resets, Sound' => Sound,
         cmd' = user_command("header", HeaderBytes), host'.pc # "payload", tap = "Idle"
  PROVE  Trust'
<1>1. UNCHANGED <<mailbox, tap, sel, dr, header_snapshot, aborted>>
  BY DEF fpga
<1>2. cmd'.tdi = "header" /\ cmd'.payload = <<>>
  BY DEF user_command, NoCommand
<1>3. requesting'
  BY <1>2 DEF requesting
<1>4. AnsweredInv' /\ ReadInv' /\ BasisInv' /\ PayloadInv'
  BY <1>1, <1>2, <1>3 DEF AnsweredInv, ReadInv, BasisInv, PayloadInv, Data
<1>5. SnapshotInv'
  BY <1>1 DEF Trust, SnapshotInv, Told, mailbox, M!u32Plus
<1>6. BlockInv'
  BY <1>1, <1>2 DEF Trust, BlockInv, PayingFor, Paying, mailbox
<1> QED BY <1>4, <1>5, <1>6 DEF Trust

LEMMA BreakingTrusts ==
  ASSUME Trust, Breaks, BadHeader \/ CommitMismatch => resets > 0
  PROVE  Trust'
<1>1. Base /\ Base' /\ (Sound' => Sound) /\ resets' = resets
  BY BreakingKeeps, SoundBefore DEF Trust
<1>2. /\ UNCHANGED fpga /\ host'.pc \in {"failed", "ended"}
      /\ (host'.error \in {"header", "mismatch"} => resets > 0)
      /\ cmd'.tdi = cmd.tdi /\ cmd'.length = cmd.length /\ cmd'.payload = <<>>
  BY <1>1, BreakingOff
<1>3. UNCHANGED <<mailbox, tap, sel, dr, header_snapshot, aborted>>
  BY <1>2 DEF fpga
<1>4. ~Running'
  BY <1>2 DEF Running
<1>5. AnsweredInv' /\ ReadInv' /\ BasisInv' /\ PayloadInv' /\ ExpectedInv'
  BY <1>1, <1>2, <1>3, <1>4 DEF AnsweredInv, ReadInv, BasisInv, PayloadInv, ExpectedInv
<1>6. SnapshotInv'
  BY <1>1, <1>3 DEF Trust, SnapshotInv, Told, mailbox, M!u32Plus
<1>7. BlockInv'
  BY <1>1, <1>2, <1>3 DEF Trust, BlockInv, PayingFor, Paying, mailbox
<1> QED BY <1>1, <1>5, <1>6, <1>7 DEF Trust

LEMMA CallsTrust ==
  ASSUME Trust, Calls
  PROVE  Trust'
<1>1. Base /\ Base' /\ host \in Hosts
  BY CallsKeep DEF Trust, Calls, Base, TypesInv
<1>2. CASE Breaks
  <2>1. ASSUME BadHeader PROVE resets # 0
    BY <2>1, HeaderIsRead DEF BadHeader
  <2>2. ASSUME CommitMismatch PROVE resets # 0
    <3>1. /\ HeaderRead /\ host.pc = "header" /\ host.expected # -1
          /\ host.expected # cmd.header.read_count
      BY <2>2 DEF CommitMismatch
    <3> SUFFICES ASSUME resets = 0 PROVE FALSE
      OBVIOUS
    <3>2. ~dr.payload_commit /\ cmd.header.read_count = read_count
      BY <3>1, HeaderIsRead DEF Strobes
    <3>3. host.expected = read_count
      BY <3>1, <3>2 DEF Trust, ExpectedInv
    <3> QED BY <3>1, <3>2, <3>3
  <2>3. resets \in Nat
    BY <1>1 DEF Base, TypesInv
  <2>4. BadHeader \/ CommitMismatch => resets > 0
    BY <2>1, <2>2, <2>3
  <2> QED BY <1>2, <2>4, BreakingTrusts
<1>5. CASE Opened
  <2>1. UNCHANGED fpga /\ resets' = resets /\ (Sound' => Sound) /\ tap = "Idle"
        /\ cmd' = user_command("header", HeaderBytes)
    BY <1>1, <1>5, SoundBefore, HeaderIsRead DEF Opened
  <2>2. host'.pc \in {"check", "header"} /\ host'.expected = host.expected
        /\ host'.error = host.error /\ host.pc \in {"open", "check"}
    BY <1>1, <1>5 DEF Opened, Hosts
  <2>3. host.expected = -1 /\ (host.error \in {"header", "mismatch"} => resets > 0)
    BY <2>2 DEF Trust, ExpectedInv
  <2>4. ExpectedInv'
    BY <2>1, <2>2, <2>3 DEF ExpectedInv
  <2>5. host'.pc # "payload"
    BY <2>2
  <2> QED BY <1>1, <2>1, <2>4, <2>5, HeaderCommand
<1>6. CASE Idle
  <2>1. UNCHANGED fpga /\ resets' = resets /\ (Sound' => Sound) /\ tap = "Idle"
        /\ cmd' = user_command("header", HeaderBytes)
    BY <1>1, <1>6, SoundBefore, HeaderIsRead DEF Idle, read_header
  <2>2. host'.pc = "header" /\ host'.expected = -1 /\ host'.error = host.error
    BY <1>1, <1>6 DEF Idle, read_header, Hosts
  <2>3. ExpectedInv'
    BY <2>1, <2>2 DEF Trust, ExpectedInv
  <2>4. host'.pc # "payload"
    BY <2>2
  <2> QED BY <1>1, <2>1, <2>3, <2>4, HeaderCommand
<1>7. CASE Deliver
  <2>1. /\ UNCHANGED fpga /\ resets' = resets /\ (Sound' => Sound)
        /\ cmd' = user_command("header", HeaderBytes) /\ host.pc = "payload" /\ cmd.done
        /\ host' = [host EXCEPT
                      !.expected = M!u32Plus(host.header.read_count, Len(cmd.payload)),
                      !.pc = "header"]
    BY <1>1, <1>7, SoundBefore DEF Deliver
  <2>2. Running /\ tap = "Idle"
    BY <1>1, <2>1 DEF Base, ScanInv, Running
  <2>3. host'.pc = "header" /\ host'.error = host.error
        /\ host'.expected = M!u32Plus(host.header.read_count, Len(cmd.payload))
    BY <1>1, <2>1 DEF Hosts
  <2>4. UNCHANGED <<mailbox, dr>>
    BY <2>1 DEF fpga
  <2>5. resets = 0 => dr.payload_commit /\ host'.expected = Counts(Len(block))
    <3> SUFFICES ASSUME resets = 0 PROVE dr.payload_commit /\ host'.expected = Counts(Len(block))
      OBVIOUS
    <3>1. InStep
      BY <2>1 DEF Trust, PayloadInv, Sound
    <3>2. host.header.session = resets /\ host.header.read_count = read_count
      BY <2>1 DEF Trust, BasisInv, Told
    <3> QED BY <2>1, <2>3, <3>1, <3>2 DEF InStep, Counts
  <2>6. ExpectedInv'
    BY <2>1, <2>3, <2>4, <2>5 DEF Trust, ExpectedInv, Counts, M!u32Plus, mailbox
  <2>7. host'.pc # "payload"
    BY <2>3
  <2> QED BY <1>1, <2>1, <2>2, <2>6, <2>7, HeaderCommand
<1>8. CASE StartBlock
  <2> DEFINE length == IF cmd.header.available_bytes < BlockSize
                       THEN cmd.header.available_bytes ELSE BlockSize
  <2>1. /\ UNCHANGED <<fpga, delivered, fails, resets>> /\ HeaderRead /\ valid(cmd.header)
        /\ host' = [host EXCEPT !.header = cmd.header, !.expected = -1, !.pc = "payload"]
        /\ cmd' = user_command("payload", length)
    BY <1>8 DEF StartBlock, read_header
  <2>2. UNCHANGED <<mailbox, tap, sel, dr, header_snapshot, aborted>>
    BY <2>1 DEF fpga
  <2>3. /\ Told(cmd.header) /\ ~Strobes /\ ~dr.pending_response /\ tap = "Idle"
        /\ cmd.header \in Headers
    BY <2>1, HeaderIsRead
  <2>4. length <= cmd.header.available_bytes
    BY <2>3, LinkAssumption DEF Headers
  <2> HIDE DEF length
  <2>5. cmd'.tdi = "payload" /\ cmd'.length = length /\ cmd'.payload = <<>> /\ ~cmd'.done
    BY <2>1 DEF user_command, NoCommand
  <2>6. host'.pc = "payload" /\ host'.header = cmd.header /\ host'.expected = -1
        /\ host'.error = host.error
    BY <1>1, <2>1 DEF Hosts
  <2>7. requesting' /\ ~dr.response_active
    BY <1>1, <2>3, <2>5 DEF requesting, Base, EngineInv
  <2>8. Told(host.header)'
    BY <2>1, <2>2, <2>3, <2>6 DEF Told, mailbox, M!u32Plus
  <2>9. AnsweredInv' /\ ReadInv' /\ BasisInv'
    BY <2>2, <2>3, <2>4, <2>5, <2>6, <2>7, <2>8 DEF AnsweredInv, ReadInv, BasisInv, Data
  <2>10. PayloadInv'
    BY <2>2, <2>5, <2>7 DEF PayloadInv, Paying
  <2>11. ExpectedInv'
    BY <2>1, <2>6 DEF Trust, ExpectedInv
  <2>12. SnapshotInv'
    BY <2>2, <2>7 DEF SnapshotInv
  <2>13. Sound' => length <= visible'
    <3> SUFFICES ASSUME Sound' PROVE length <= visible'
      OBVIOUS
    <3>1. cmd.header.session = resets
      BY <2>1, <2>3, <2>6 DEF Sound, Told
    <3>2. cmd.header.available_bytes <= visible
      BY <2>3, <3>1 DEF Told
    <3>3. visible \in Nat /\ visible' = visible /\ length \in Int
      <4>1. visible \in Nat /\ visible' = visible
        BY <1>1, <2>2 DEF Base, TypesInv, MailboxInv, mailbox
      <4>2. cmd.header.available_bytes \in Int
        BY <2>3, LinkAssumption DEF Headers
      <4>3. length \in Int
        BY <4>2, LinkAssumption DEF length
      <4> QED BY <4>1, <4>3
    <3>4. cmd.header.available_bytes \in Int
      BY <2>3, LinkAssumption DEF Headers
    <3> QED BY <2>4, <3>2, <3>3, <3>4
  <2>14. BlockInv'
    BY <2>2, <2>3, <2>5, <2>7, <2>13 DEF BlockInv, PayingFor, Paying, Strobes
  <2> QED BY <1>1, <2>9, <2>10, <2>11, <2>12, <2>14 DEF Trust
<1>9. CASE Starts
  <2>1. /\ UNCHANGED <<fpga, cmd, delivered, fails, resets>> /\ (Sound' => Sound)
        /\ host.pc \in {"failed", "ended"} /\ host'.pc = "tap_reset" /\ host'.expected = -1
        /\ host'.error \in {host.error, "none"}
    BY <1>1, <1>9, SoundBefore, StartingOver
  <2>2. UNCHANGED <<mailbox, tap, sel, dr, header_snapshot, aborted>>
    BY <2>1 DEF fpga
  <2>3. ~Running'
    BY <2>1 DEF Running
  <2>4. AnsweredInv' /\ ReadInv' /\ BasisInv' /\ ExpectedInv'
    BY <2>1, <2>3 DEF Trust, AnsweredInv, ReadInv, BasisInv, ExpectedInv
  <2>5. SnapshotInv' /\ PayloadInv'
    BY <2>1, <2>2 DEF Trust, SnapshotInv, PayloadInv, Told, mailbox, M!u32Plus
  <2>6. BlockInv'
    BY <2>1, <2>2 DEF Trust, BlockInv, PayingFor, Paying, mailbox
  <2> QED BY <1>1, <2>4, <2>5, <2>6 DEF Trust
<1>10. CASE Waits
  <2>1. /\ UNCHANGED <<fpga, cmd, delivered, fails, resets>>
        /\ host'.pc = host.pc /\ host'.header = host.header /\ host'.expected = host.expected
        /\ host'.error \in {host.error, "open"}
    BY <1>1, <1>10, Waiting
  <2>2. UNCHANGED <<mailbox, tap, sel, dr, header_snapshot, aborted>>
    BY <2>1 DEF fpga
  <2>3. /\ (Sound' <=> Sound) /\ (Running' <=> Running) /\ (requesting' <=> requesting)
        /\ (PayingFor' <=> PayingFor) /\ (Paying' <=> Paying)
    BY <2>1, <2>2 DEF Sound, Running, requesting, PayingFor, Paying
  <2>4. AnsweredInv' /\ ReadInv' /\ BasisInv' /\ SnapshotInv'
    BY <2>1, <2>2, <2>3
       DEF Trust, AnsweredInv, ReadInv, BasisInv, SnapshotInv, Told, mailbox, M!u32Plus
  <2>5. ExpectedInv'
    BY <2>1, <2>2, <2>3 DEF Trust, ExpectedInv, Counts, mailbox, M!u32Plus
  <2>6. BlockInv' /\ PayloadInv'
    BY <2>1, <2>2, <2>3 DEF Trust, BlockInv, PayloadInv, InStep, mailbox
  <2> QED BY <1>1, <2>4, <2>5, <2>6 DEF Trust
<1> QED BY <1>2, <1>5, <1>6, <1>7, <1>8, <1>9, <1>10 DEF Calls

LEMMA EdgeTrusts ==
  ASSUME Trust, TapEdge
  PROVE  Trust'
<1>1. Base'
  BY ResetStep, SelectStep, ScanStep DEF TapEdge, Trust
<1> QED BY <1>1, EdgeAnswered, EdgeSnapshot, EdgeRead, EdgeBasis, EdgeBlock, EdgePayload DEF Trust

LEMMA FpgaTrusts ==
  ASSUME Trust, FpgaWrite \/ FpgaReset \/ UNCHANGED vars
  PROVE  Trust'
<1>1. Base /\ Base'
  BY WriteStep, FpgaResetStep, BaseStutters DEF Trust
<1>2. CASE FpgaWrite \/ UNCHANGED vars
  <2>1. /\ UNCHANGED <<block, read_count, visible, tap, sel, dr, header_snapshot, aborted>>
        /\ UNCHANGED <<cmd, host, delivered, fails, resets>>
    BY <1>2 DEF FpgaWrite, vars, fpga, mailbox
  <2>2. (Running' <=> Running) /\ (requesting' <=> requesting) /\ (Sound' <=> Sound)
        /\ (Paying' <=> Paying) /\ (PayingFor' <=> PayingFor)
    BY <2>1 DEF Running, requesting, Sound, Paying, PayingFor
  <2>3. Told(header_snapshot)' <=> Told(header_snapshot)
    BY <2>1 DEF Told, M!u32Plus
  <2>4. Told(cmd.header)' <=> Told(cmd.header)
    BY <2>1 DEF Told, M!u32Plus
  <2>5. Told(host.header)' <=> Told(host.header)
    BY <2>1 DEF Told, M!u32Plus
  <2>6. AnsweredInv' /\ SnapshotInv' /\ ReadInv' /\ BasisInv'
    BY <2>1, <2>2, <2>3, <2>4, <2>5 DEF Trust, AnsweredInv, SnapshotInv, ReadInv, BasisInv
  <2>7. ExpectedInv'
    BY <2>1 DEF Trust, ExpectedInv, Counts, M!u32Plus
  <2>8. BlockInv'
    BY <2>1, <2>2 DEF Trust, BlockInv
  <2>9. PayloadInv'
    BY <2>1, <2>2 DEF Trust, PayloadInv, InStep
  <2> QED BY <1>1, <2>6, <2>7, <2>8, <2>9 DEF Trust
<1>3. CASE FpgaReset
  <2>1. /\ resets' = resets + 1 /\ block' = <<>> /\ visible' = 0 /\ read_count' = 0
        /\ dr' = EngineReset
        /\ UNCHANGED <<tap, sel, cmd, host, delivered, fails>>
    BY <1>3 DEF FpgaReset, M!Reset
  <2>2. ~dr'.pending_response /\ ~dr'.response_active /\ ~dr'.payload_commit
    BY <2>1, ResetEngine DEF Silent
  <2>3. resets \in Nat /\ resets' > 0 /\ host \in Hosts /\ cmd \in Commands
    BY <1>1, <2>1 DEF Base, TypesInv
  <2>4. ~Sound'
    <3>1. host.pc = "payload" => host.header.session \in 0 .. resets
      BY DEF Trust, BasisInv, Told
    <3>2. host.pc = "payload" => host.header.session # resets + 1
      BY <2>3, <3>1
    <3> QED BY <2>1, <2>3, <3>2 DEF Sound
  <2>5. (Running' <=> Running) /\ (requesting' <=> requesting)
    BY <2>1 DEF Running, requesting
  <2>6. Told(cmd.header) => Told(cmd.header)'
    <3>1. PICK h \in Headers : h = cmd.header
      BY <2>3 DEF Commands
    <3>2. Told(h) => Told(h)'
      BY <1>1, <1>3, ToldAcrossReset
    <3> QED BY <2>1, <3>1, <3>2 DEF Told, M!u32Plus
  <2>7. Told(host.header) => Told(host.header)'
    <3>1. PICK h \in Headers : h = host.header
      BY <2>3 DEF Hosts
    <3>2. Told(h) => Told(h)'
      BY <1>1, <1>3, ToldAcrossReset
    <3> QED BY <2>1, <3>1, <3>2 DEF Told, M!u32Plus
  <2>8. AnsweredInv' /\ SnapshotInv'
    BY <2>2, <2>4 DEF AnsweredInv, SnapshotInv
  <2>9. ReadInv'
    BY <2>1, <2>2, <2>3, <2>5, <2>6 DEF Trust, ReadInv
  <2>10. BasisInv' /\ ExpectedInv'
    BY <2>1, <2>3, <2>7 DEF Trust, BasisInv, ExpectedInv
  <2>11. BlockInv'
    BY <2>2, <2>4 DEF BlockInv, Paying
  <2>12. PayloadInv'
    BY <2>1, <2>4, <2>5 DEF Trust, PayloadInv
  <2> QED BY <1>1, <2>8, <2>9, <2>10, <2>11, <2>12 DEF Trust
<1> QED BY <1>2, <1>3

LEMMA TrustInit == Init => Trust
<1> SUFFICES ASSUME Init PROVE Trust
  OBVIOUS
<1>1. Base
  BY BaseInit
<1>2. /\ dr = EngineReset /\ cmd = NoCommand
      /\ host = NewHost
  BY DEF Init
<1>3. ~dr.pending_response /\ ~dr.response_active /\ ~dr.payload_commit
  BY <1>2, ResetEngine DEF Silent
<1>4. host.pc = "tap_reset" /\ host.expected = -1 /\ host.error = "none"
  BY <1>2, NewHostIs
<1>5. cmd.tdi = "none" /\ cmd.payload = <<>>
  BY <1>2 DEF NoCommand
<1>6. ~Running
  BY <1>4 DEF Running
<1> QED BY <1>1, <1>3, <1>4, <1>5, <1>6
        DEF Trust, AnsweredInv, SnapshotInv, ReadInv, BasisInv, ExpectedInv, BlockInv, PayingFor,
            Paying, PayloadInv

LEMMA TrustSteps == Trust /\ [Next]_vars => Trust'
BY NextIs, EdgeTrusts, CallsTrust, FpgaTrusts DEF TapEdge

LEMMA TrustAlways == Spec => []Trust
BY TrustInit, TrustSteps, PTL DEF Spec

(* The header a block is read by is still true when the block is read,     *)
(* though each is a command of its own, and the host's checks of headers   *)
(* fail only when the FPGA was reset: no failure of the link and no length *)
(* of a scan makes one fail.                                               *)
THEOREM HeadersStayTrue == Spec => []HeaderStillTrue
<1>1. Trust => HeaderStillTrue
  <2> SUFFICES ASSUME Trust PROVE HeaderStillTrue
    OBVIOUS
  <2>1. ASSUME host.pc = "payload", host.header.session = resets
        PROVE  read_count = host.header.read_count /\ cmd.length <= visible
    <3>1. Told(host.header) /\ cmd.length <= host.header.available_bytes
      BY <2>1 DEF Trust, BasisInv
    <3>2. /\ host.header.read_count = read_count /\ host.header.available_bytes <= visible
          /\ host.header.available_bytes \in Int
      BY <2>1, <3>1, LinkAssumption DEF Told
    <3>3. visible \in Nat /\ cmd.length \in Nat
      BY LinkAssumption DEF Trust, Base, TypesInv, MailboxInv, Commands
    <3> QED BY <3>1, <3>2, <3>3
  <2> QED BY <2>1 DEF HeaderStillTrue, Trust, ExpectedInv
<1> QED BY <1>1, TrustAlways, PTL

(* What a commit removes is the block that was asked for, at every length  *)
(* and wherever earlier scans broke off.                                   *)
THEOREM CommitsAreWhole == Spec => []WholeBlocksCommitted
<1>1. Trust => WholeBlocksCommitted
  BY DEF Trust, BlockInv, Sound, WholeBlocksCommitted
<1> QED BY <1>1, TrustAlways, PTL

-----------------------------------------------------------------------------
(* What is lost.  Every byte that was removed from the ring reached the    *)
(* clients, or belongs to the block that one of the failures or resets     *)
(* caught.                                                                 *)
Got == Cardinality(InSession)
Spare == BlockSize * (fails + resets)

(* The ring holds, or may yet lend, a block that nobody waits for.         *)
Owing == block # <<>> \/ PayingFor \/ cmd.tdi = "payload"

LossInv ==
  /\ read_count <= Got + Spare
  /\ Running /\ host.pc # "payload" => read_count + Len(block) <= Got + Spare
  /\ ~Running /\ Owing => read_count + BlockSize <= Got + Spare

LEMMA GotTyped ==
  ASSUME TypesInv
  PROVE  /\ IsFiniteSet(InSession) /\ Got \in Nat /\ Spare \in Nat
         /\ read_count \in Nat /\ Len(block) \in Nat /\ BlockSize \in Nat
<1>1. /\ Len(delivered) \in Nat /\ fails \in Nat /\ resets \in Nat /\ BlockSize \in Nat
      /\ read_count \in Nat /\ Len(block) \in Nat
  BY LinkAssumption DEF TypesInv, MailboxInv, Number
<1>2. IsFiniteSet(1 .. Len(delivered)) /\ InSession \in SUBSET (1 .. Len(delivered))
  BY <1>1, FS_Interval DEF InSession
<1>3. IsFiniteSet(InSession)
  BY <1>2, FS_Subset
<1>4. fails + resets \in Nat
  BY <1>1
<1> QED BY <1>1, <1>3, <1>4, FS_CardinalityType DEF Got, Spare

LEMMA CountsAtMost ==
  ASSUME NEW n \in Nat, read_count \in Nat
  PROVE  Counts(n) <= read_count + n
BY LinkAssumption DEF Counts, M!u32Plus

(* What the broadcast adds.                                                *)
LEMMA DeliverCounts ==
  ASSUME TypesInv, TypesInv', delivered' = delivered \o cmd.payload, resets' = resets
  PROVE  /\ Got <= Got'
         /\ (\A i \in 1 .. Len(cmd.payload) : cmd.payload[i].session = resets) =>
              Got + Len(cmd.payload) <= Got'
<1> DEFINE n == Len(delivered)
           k == Len(cmd.payload)
<1>1. delivered \in Seq(Arrivals) /\ cmd.payload \in Seq(Arrivals) /\ n \in Nat /\ k \in Nat
  BY DEF TypesInv, Commands
<1>2. /\ IsFiniteSet(InSession) /\ IsFiniteSet(InSession')
      /\ Cardinality(InSession) \in Nat /\ Cardinality(InSession') \in Nat
  <2>1. IsFiniteSet(InSession) /\ Got \in Nat
    BY GotTyped
  <2>2. TypesInv' => (IsFiniteSet(InSession) /\ Got \in Nat)'
    BY GotTyped, PTL
  <2> QED BY <2>1, <2>2 DEF Got
<1>3. Len(delivered') = n + k /\ \A i \in 1 .. n : delivered'[i] = delivered[i]
  BY <1>1
<1>4. \A i \in 1 .. k : delivered'[n + i] = cmd.payload[i]
  BY <1>1
<1>5. InSession \in SUBSET (InSession') /\ InSession \in SUBSET (1 .. n)
  BY <1>1, <1>3 DEF InSession
<1>6. Got <= Got'
  BY <1>2, <1>5, FS_Subset DEF Got
<1>7. ASSUME \A i \in 1 .. k : cmd.payload[i].session = resets
      PROVE  Got + k <= Got'
  <2> DEFINE more == (n + 1) .. (n + k)
  <2> HIDE DEF n, k
  <2>1. \A j \in more : j - n \in 1 .. k /\ n + (j - n) = j /\ j \in 1 .. n + k
    BY <1>1 DEF n, k
  <2>2. more \in SUBSET (InSession')
    <3> SUFFICES ASSUME NEW j \in more PROVE j \in InSession'
      OBVIOUS
    <3>1. j - n \in 1 .. k /\ n + (j - n) = j /\ j \in 1 .. n + k
      BY <2>1
    <3>2. delivered'[n + (j - n)] = cmd.payload[j - n]
      BY <1>4, <3>1
    <3>3. delivered'[j].session = resets'
      BY <1>7, <3>1, <3>2
    <3> QED BY <1>3, <3>1, <3>3 DEF InSession
  <2>3. IsFiniteSet(more) /\ Cardinality(more) = k
    <3>1. n + 1 \in Int /\ n + k \in Int /\ n \in Nat /\ k \in Nat
      BY <1>1 DEF n, k
    <3>2. IsFiniteSet(more) /\ Cardinality(more) = IF n + 1 > n + k THEN 0 ELSE (n + k) - (n + 1) + 1
      BY <3>1, FS_Interval
    <3> HIDE DEF more
    <3> QED BY <3>1, <3>2
  <2>4. InSession \cap more = {}
    BY <1>1, <1>5 DEF n, k
  <2> HIDE DEF more
  <2>5. IsFiniteSet(InSession \cup more)
        /\ Cardinality(InSession \cup more) = Cardinality(InSession) + Cardinality(more)
    <3>1. Cardinality(InSession \cap more) = 0
      BY <2>4, FS_EmptySet
    <3>2. Cardinality(InSession \cup more) =
            Cardinality(InSession) + Cardinality(more) - Cardinality(InSession \cap more)
      BY <1>2, <2>3, FS_Union
    <3>3. k \in Nat
      BY <1>1 DEF k
    <3>4. IsFiniteSet(InSession \cup more)
      BY <1>2, <2>3, FS_Union
    <3>5. Cardinality(InSession) + Cardinality(more) - 0 = Cardinality(InSession) + Cardinality(more)
      BY <1>2, <2>3, <3>3
    <3> QED BY <3>1, <3>2, <3>4, <3>5
  <2>6. (InSession \cup more) \in SUBSET (InSession')
    BY <1>5, <2>2
  <2> QED BY <1>2, <2>3, <2>5, <2>6, FS_Subset DEF Got
<1> QED BY <1>6, <1>7

LEMMA EdgeLoses ==
  ASSUME Trust, LossInv, TapEdge
  PROVE  LossInv'
<1>1. /\ RingGoes /\ EngineGoes /\ CommandGoes /\ Base /\ Base' /\ TypesInv /\ BlockInv
      /\ cmd \in Commands
  BY EdgeGoes, EdgeTrusts DEF Trust, Base, TypesInv
<1>2. Got' = Got /\ Spare' = Spare
  BY <1>1 DEF RingGoes, Got, InSession, Spare
<1>3. /\ Got \in Nat /\ Spare \in Nat /\ read_count \in Nat /\ Len(block) \in Nat
      /\ BlockSize \in Nat
  BY <1>1, GotTyped
<1>4. dr.payload_commit => block' = <<>> /\ Len(block') = 0
                           /\ read_count' <= read_count + Len(block) /\ read_count' \in Nat
  <2>1. dr.payload_commit => block' = <<>> /\ read_count' = Counts(Len(block))
    BY <1>1 DEF RingGoes, Committing
  <2>2. read_count' \in Nat
    BY <1>1, LinkAssumption DEF Base, TypesInv, MailboxInv, Number
  <2> QED BY <1>3, <2>1, <2>2, CountsAtMost
<1>5. ~dr.payload_commit => read_count' = read_count
  BY <1>1 DEF RingGoes, Grows
<1>6. read_count' <= Got + Spare
  <2>1. CASE ~dr.payload_commit
    BY <1>5, <2>1 DEF LossInv
  <2>2. CASE dr.payload_commit
    <3>1. read_count + Len(block) <= Got + Spare
      <4>1. CASE Running
        <5>1. ScanEdge
          BY <4>1 DEF TapEdge, TapResetEdge, SelectUser2, Running
        <5>2. ~cmd.done
          BY <1>1, <5>1, ScanSteps
        <5>3. host.pc = "header"
          BY <1>1, <2>2, <4>1, <5>2 DEF Base, ScanInv
        <5> QED BY <4>1, <5>3 DEF LossInv
      <4>2. CASE ~Running /\ block # <<>>
        <5>1. Len(block) <= BlockSize
          BY <1>1, <2>2 DEF BlockInv
        <5>2. read_count + BlockSize <= Got + Spare
          BY <4>2 DEF LossInv, Owing
        <5> QED BY <1>3, <5>1, <5>2
      <4>3. CASE block = <<>>
        <5>1. Len(block) = 0
          BY <4>3
        <5> QED BY <1>3, <5>1 DEF LossInv
      <4> QED BY <4>1, <4>2, <4>3
    <3> QED BY <1>3, <1>4, <2>2, <3>1
  <2> QED BY <2>1, <2>2
<1>7. ASSUME Running', host'.pc # "payload"
      PROVE  read_count' + Len(block') <= Got + Spare
  <2>1. CASE block' = <<>>
    <3>1. Len(block') = 0
      BY <2>1
    <3>2. read_count' \in Nat
      BY <1>1, LinkAssumption DEF Base, TypesInv, MailboxInv, Number
    <3> DEFINE r == read_count'
               n == Len(block')
    <3>3. r + n = r
      <4>1. r \in Nat /\ n = 0
        BY <3>1, <3>2
      <4> HIDE DEF r, n
      <4> QED BY <4>1
    <3> QED BY <1>6, <3>3
  <2>2. CASE block' # <<>>
    <3>1. ~Strobes /\ read_count' = read_count
      BY <1>1, <1>5, <2>2 DEF RingGoes, Strobes
    <3>2. Running /\ host.pc # "payload"
      <4>1. CASE ScanEdge
        BY <1>7, <4>1, ScanSteps, <1>1
      <4>2. CASE TapResetEdge
        BY <1>1, <1>7, <4>2 DEF TapResetEdge, Running, Base, TypesInv, Hosts
      <4>3. CASE SelectUser2
        <5>1. ~sel /\ tap = "Idle" /\ ~dr.pending_response
          BY <1>1, <4>3 DEF SelectUser2, Base, ResetInv, EngineInv
        <5>2. block = <<>> /\ ~payload_ready
          BY <1>1, <3>1, <5>1 DEF Base, EngineInv, Paying, payload_ready
        <5>3. block' = <<>>
          BY <1>1, <3>1, <5>2 DEF RingGoes
        <5> QED BY <2>2, <5>3
      <4> QED BY <4>1, <4>2, <4>3 DEF TapEdge
    <3>3. ~payload_ready
      <4>1. payload_ready => Paying
        BY <1>1 DEF RingGoes
      <4>2. ~Paying
        BY <1>1, <3>2 DEF Paying, Base, EngineInv, ScanInv, Wanted
      <4> QED BY <4>1, <4>2
    <3>4. block' = block
      BY <1>1, <3>1, <3>3 DEF RingGoes
    <3> QED BY <3>1, <3>2, <3>4 DEF LossInv
  <2> QED BY <2>1, <2>2
<1>8. ASSUME ~Running', Owing'
      PROVE  read_count' + BlockSize <= Got + Spare
  <2>1. ~Running
    <3>1. CASE ScanEdge
      BY <1>1, <1>8, <3>1, ScanSteps DEF Running
    <3>2. CASE TapResetEdge \/ SelectUser2
      BY <3>2 DEF TapResetEdge, SelectUser2, Running
    <3> QED BY <3>1, <3>2 DEF TapEdge
  <2>2. cmd'.tdi = "payload" => cmd.tdi = "payload" /\ ~dr.payload_commit
    BY <1>1 DEF CommandGoes, Base, CommandInv
  <2>3. PayingFor' => RequestGoes /\ ~Strobes
    BY <1>1 DEF EngineGoes, PayingFor
  <2>4. PayingFor' => PayingFor \/ cmd.tdi = "payload"
    BY <2>3 DEF RequestGoes, PayingFor, Keeps
  <2>5. block' # <<>> => ~Strobes /\ (block # <<>> \/ Paying)
    BY <1>1 DEF RingGoes
  <2>6. Paying => PayingFor
    BY <1>1 DEF Paying, PayingFor, Base, EngineInv
  <2>7. Owing /\ ~dr.payload_commit
    BY <1>8, <2>2, <2>3, <2>4, <2>5, <2>6 DEF Owing, Strobes
  <2> QED BY <1>5, <2>1, <2>7 DEF LossInv
<1> QED BY <1>2, <1>6, <1>7, <1>8 DEF LossInv

LEMMA CallsLose ==
  ASSUME Trust, LossInv, Calls
  PROVE  LossInv'
<1>1. Base /\ Base' /\ TypesInv /\ TypesInv' /\ host \in Hosts /\ cmd \in Commands
  BY CallsTrust DEF Trust, Base, TypesInv
<1>2. UNCHANGED <<fpga, resets>>
  BY <1>1, BreakingOff, StartingOver, Waiting DEF Calls, Opened, Idle, StartBlock, Deliver
<1>3. UNCHANGED <<block, read_count, dr>>
  BY <1>2 DEF fpga, mailbox
<1>4. /\ Got \in Nat /\ Spare \in Nat /\ read_count \in Nat /\ Len(block) \in Nat
      /\ BlockSize \in Nat
  BY <1>1, GotTyped
<1>5. delivered' = delivered => Got' = Got
  BY <1>2 DEF Got, InSession
<1>6. fails' = fails => Spare' = Spare
  BY <1>2 DEF Spare
<1>7. ASSUME Breaks
      PROVE  ~Running' /\ cmd'.tdi = cmd.tdi /\ delivered' = delivered
  BY <1>1, <1>7, BreakingOff DEF Running
<1>8. CASE Breaks /\ ~(UsbFails \/ Kill)
  <2>1. HeaderRead /\ fails' = fails
    BY <1>1, <1>8, BreakingOff DEF Breaks, BadHeader, CommitMismatch
  <2>2. ~Running' /\ cmd'.tdi = cmd.tdi /\ delivered' = delivered
    BY <1>7, <1>8
  <2>3. ~Strobes /\ ~dr.pending_response /\ ~requesting
    BY <2>1, HeaderIsRead
  <2>4. ~Owing
    BY <1>1, <2>3 DEF Owing, PayingFor, requesting, Base, EngineInv, Paying
  <2>5. ~Owing'
    BY <1>3, <2>2, <2>4 DEF Owing, PayingFor
  <2> QED BY <1>3, <1>5, <1>6, <2>1, <2>2, <2>5 DEF LossInv
<1>9. CASE UsbFails \/ Kill
  <2>1. fails' = fails + 1
    BY <1>9 DEF UsbFails, Kill
  <2>2. ~Running' /\ Got' = Got
    BY <1>5, <1>7, <1>9 DEF Breaks
  <2>3. Spare' = Spare + BlockSize
    <3>1. fails \in Nat /\ resets \in Nat
      BY <1>1 DEF TypesInv
    <3>2. Spare' = BlockSize * ((fails + resets) + 1)
      BY <1>2, <2>1, <3>1 DEF Spare
    <3>3. fails + resets \in Int /\ BlockSize \in Nat \ {0}
      BY <3>1, LinkAssumption
    <3>4. BlockSize * ((fails + resets) + 1) = BlockSize * (fails + resets) + BlockSize
      BY <3>3, Products
    <3> QED BY <3>2, <3>4 DEF Spare
  <2> QED BY <1>3, <1>4, <2>2, <2>3 DEF LossInv
<1>10. CASE Opened \/ Idle
  <2>1. delivered' = delivered /\ fails' = fails /\ HeaderRead
    BY <1>10 DEF Opened, Idle, read_header
  <2>2. Running' /\ host'.pc # "payload"
    BY <1>1, <1>10 DEF Opened, Idle, read_header, Hosts, Running
  <2>3. Running /\ host.pc # "payload"
    BY <2>1, HeaderIsRead
  <2> QED BY <1>3, <1>5, <1>6, <2>1, <2>2, <2>3 DEF LossInv
<1>11. CASE StartBlock
  <2>1. delivered' = delivered /\ fails' = fails
    BY <1>11 DEF StartBlock
  <2>2. Running' /\ host'.pc = "payload"
    BY <1>1, <1>11 DEF StartBlock, Hosts, Running
  <2> QED BY <1>3, <1>5, <1>6, <2>1, <2>2 DEF LossInv
<1>12. CASE Starts \/ Waits
  <2>1. /\ delivered' = delivered /\ fails' = fails /\ cmd' = cmd
        /\ \/ ~Running /\ ~Running'
           \/ host'.pc = host.pc
    BY <1>1, <1>12, StartingOver, Waiting DEF Running
  <2>2. (Owing' <=> Owing) /\ (Running' <=> Running)
    BY <1>3, <2>1 DEF Owing, PayingFor, Running
  <2>3. Running => host'.pc = host.pc
    BY <2>1
  <2> QED BY <1>3, <1>5, <1>6, <2>1, <2>2, <2>3 DEF LossInv
<1>13. CASE Deliver
  <2>1. delivered' = delivered \o cmd.payload /\ fails' = fails /\ host.pc = "payload" /\ cmd.done
    BY <1>13 DEF Deliver
  <2>2. Running' /\ Running
    BY <1>1, <1>13, <2>1 DEF Deliver, Hosts, Running
  <2>3. Got <= Got' /\ Got' \in Nat
    <3>1. Got <= Got'
      BY <1>1, <1>2, <2>1, DeliverCounts
    <3>2. TypesInv' => (Got \in Nat)'
      BY GotTyped, PTL
    <3> QED BY <1>1, <3>1, <3>2
  <2>4. read_count + Len(block) <= Got' + Spare
    <3>1. CASE Sound
      <4>1. InStep
        BY <2>1, <3>1 DEF Trust, PayloadInv
      <4>2. Got + Len(cmd.payload) <= Got' /\ Len(cmd.payload) = Len(block)
        BY <1>1, <1>2, <2>1, <4>1, DeliverCounts DEF InStep
      <4>3. read_count <= Got + Spare
        BY DEF LossInv
      <4> QED BY <1>4, <2>3, <4>2, <4>3
    <3>2. CASE ~Sound
      <4>1. resets # 0 /\ host.header.session # resets
        BY <2>1, <3>2 DEF Sound
      <4>2. read_count = 0
        BY <2>1, <4>1 DEF Trust, BasisInv, Told
      <4>3. Len(block) <= BlockSize
        <5>1. ~Paying /\ ~dr.payload_abort
          BY <1>1, <2>1, <2>2 DEF Base, ScanInv, EngineInv, Paying
        <5>2. block # <<>> => dr.payload_commit
          BY <1>1, <5>1 DEF Base, EngineInv, Strobes
        <5>3. block = <<>> => Len(block) = 0
          OBVIOUS
        <5> QED BY <1>4, <5>2, <5>3 DEF Trust, BlockInv
      <4>4. BlockSize <= Spare
        <5>1. fails + resets \in Nat /\ fails + resets >= 1 /\ BlockSize \in Nat \ {0}
          BY <1>1, <4>1, LinkAssumption DEF TypesInv
        <5> DEFINE t == fails + resets
        <5>2. t \in Int /\ 1 \in Int /\ 1 <= t
          BY <5>1
        <5> HIDE DEF t
        <5>3. BlockSize * 1 <= BlockSize * t
          BY <5>1, <5>2, Products
        <5>4. BlockSize * 1 = BlockSize
          BY <5>1
        <5> QED BY <5>3, <5>4 DEF t, Spare
      <4> QED BY <1>4, <2>3, <4>2, <4>3, <4>4
    <3> QED BY <3>1, <3>2
  <2>5. read_count <= Got' + Spare
    <3> DEFINE n == Len(block)
               g == Got'
    <3>1. n \in Nat /\ g \in Nat /\ read_count + n <= g + Spare
      BY <1>4, <2>3, <2>4
    <3> HIDE DEF n, g
    <3>2. read_count <= g + Spare
      BY <1>4, <3>1
    <3> QED BY <3>2 DEF g
  <2> QED BY <1>3, <1>6, <2>1, <2>2, <2>4, <2>5 DEF LossInv
<1> QED BY <1>8, <1>9, <1>10, <1>11, <1>12, <1>13 DEF Calls

LEMMA FpgaLoses ==
  ASSUME Trust, LossInv, FpgaWrite \/ FpgaReset \/ UNCHANGED vars
  PROVE  LossInv'
<1>1. CASE FpgaWrite \/ UNCHANGED vars
  <2>1. UNCHANGED <<block, read_count, dr, cmd, host, delivered, fails, resets>>
    BY <1>1 DEF FpgaWrite, vars, fpga, mailbox
  <2>2. Got' = Got /\ Spare' = Spare /\ (Running' <=> Running) /\ (Owing' <=> Owing)
    BY <2>1 DEF Got, InSession, Spare, Running, Owing, PayingFor
  <2> QED BY <2>1, <2>2 DEF LossInv
<1>2. CASE FpgaReset
  <2>1. resets' = resets + 1 /\ block' = <<>> /\ read_count' = 0 /\ fails' = fails
    BY <1>2 DEF FpgaReset, M!Reset
  <2>2. fails' + resets' \in Nat /\ fails' + resets' >= 1 /\ BlockSize \in Nat \ {0}
    BY <2>1, LinkAssumption DEF Trust, Base, TypesInv
  <2>3. Got' \in Nat /\ Spare' \in Nat
    <3>1. TypesInv'
      BY <1>2, FpgaTrusts DEF Trust, Base
    <3>2. TypesInv' => (Got \in Nat /\ Spare \in Nat)'
      BY GotTyped, PTL
    <3> QED BY <3>1, <3>2
  <2>4. BlockSize <= Spare'
    <3> DEFINE t == fails' + resets'
    <3>1. t \in Int /\ 1 \in Int /\ 1 <= t
      BY <2>2
    <3> HIDE DEF t
    <3>2. BlockSize * 1 <= BlockSize * t
      BY <2>2, <3>1, Products
    <3>3. BlockSize * 1 = BlockSize
      BY <2>2
    <3> QED BY <3>2, <3>3 DEF t, Spare
  <2>5. Len(block') = 0
    BY <2>1
  <2>6. /\ read_count' <= Got' + Spare' /\ read_count' + Len(block') <= Got' + Spare'
        /\ read_count' + BlockSize <= Got' + Spare'
    <3> DEFINE g == Got'
               s == Spare'
    <3>1. g \in Nat /\ s \in Nat /\ BlockSize \in Nat /\ BlockSize <= s
      BY <2>2, <2>3, <2>4
    <3> HIDE DEF g, s
    <3>2. 0 <= g + s /\ 0 + 0 <= g + s /\ 0 + BlockSize <= g + s
      BY <3>1
    <3> QED BY <2>1, <2>5, <3>2 DEF g, s
  <2> QED BY <2>6 DEF LossInv
<1> QED BY <1>1, <1>2

LEMMA LossSteps == Trust /\ LossInv /\ [Next]_vars => LossInv'
BY NextIs, EdgeLoses, CallsLose, FpgaLoses DEF TapEdge

LEMMA LossInit == Init => LossInv
<1> SUFFICES ASSUME Init PROVE LossInv
  OBVIOUS
<1>1. read_count = 0 /\ block = <<>> /\ dr = EngineReset /\ cmd = NoCommand /\ host.pc = "tap_reset"
  BY NewHostIs DEF Init, M!Init
<1>2. Got \in Nat /\ Spare \in Nat
  BY BaseInit, GotTyped DEF Base
<1>3. ~Running /\ ~Owing
  BY <1>1, ResetEngine DEF Running, Owing, PayingFor, NoCommand
<1> QED BY <1>1, <1>2, <1>3 DEF LossInv

-----------------------------------------------------------------------------
(* The garbage.  A block is garbage only if it is read by a header of an   *)
(* earlier session: each session is the first that the next header can be  *)
(* from.                                                                   *)
Junk == Cardinality(Strange)

HeaderComing == Running /\ cmd.opcode = "header" /\ ~requesting /\ cmd.sent > 0

JunkInv ==
  /\ Junk <= BlockSize * resets
  /\ host.pc = "payload" => Junk <= BlockSize * host.header.session
  /\ HeaderComing /\ cmd.header # NoHeader => Junk <= BlockSize * cmd.header.session

LEMMA JunkTyped ==
  ASSUME TypesInv
  PROVE  /\ IsFiniteSet(Strange) /\ Junk \in Nat
         /\ resets \in Nat /\ BlockSize \in Nat \ {0} /\ BlockSize * resets \in Nat
<1>1. Len(delivered) \in Nat /\ resets \in Nat /\ BlockSize \in Nat \ {0}
  BY LinkAssumption DEF TypesInv
<1>2. IsFiniteSet(1 .. Len(delivered)) /\ Strange \in SUBSET (1 .. Len(delivered))
  BY <1>1, FS_Interval DEF Strange
<1>3. IsFiniteSet(Strange)
  BY <1>2, FS_Subset
<1> QED BY <1>1, <1>3, FS_CardinalityType DEF Junk

LEMMA DeliverJunk ==
  ASSUME TypesInv, TypesInv', delivered' = delivered \o cmd.payload
  PROVE  /\ Junk' <= Junk + Len(cmd.payload)
         /\ (\A i \in 1 .. Len(cmd.payload) : cmd.payload[i] # Garbage) => Junk' <= Junk
<1> DEFINE n == Len(delivered)
           k == Len(cmd.payload)
           more == (n + 1) .. (n + k)
<1>1. delivered \in Seq(Arrivals) /\ cmd.payload \in Seq(Arrivals) /\ n \in Nat /\ k \in Nat
  BY DEF TypesInv, Commands
<1>2. IsFiniteSet(Strange) /\ IsFiniteSet(Strange') /\ Junk \in Nat /\ Junk' \in Nat
  <2>1. TypesInv' => (IsFiniteSet(Strange) /\ Junk \in Nat)'
    BY JunkTyped, PTL
  <2> QED BY <2>1, JunkTyped
<1>3. /\ Len(delivered') = n + k /\ \A i \in 1 .. n : delivered'[i] = delivered[i]
      /\ \A i \in 1 .. k : delivered'[n + i] = cmd.payload[i]
  BY <1>1
<1> HIDE DEF n, k
<1>4. \A j \in 1 .. n + k : j \in 1 .. n \/ (j \in more /\ j - n \in 1 .. k /\ n + (j - n) = j)
  BY <1>1
<1>5. \A j \in 1 .. n : delivered'[j] = Garbage => j \in Strange
  BY <1>3 DEF Strange, n
<1>6. IsFiniteSet(more) /\ Cardinality(more) = k
  <2>1. n + 1 \in Int /\ n + k \in Int
    BY <1>1
  <2>2. IsFiniteSet(more) /\ Cardinality(more) = IF n + 1 > n + k THEN 0 ELSE (n + k) - (n + 1) + 1
    BY <2>1, FS_Interval
  <2> HIDE DEF more
  <2> QED BY <1>1, <2>2
<1> HIDE DEF more
<1>7. Strange' \in SUBSET (Strange \cup more)
  BY <1>3, <1>4, <1>5 DEF Strange
<1>8. IsFiniteSet(Strange \cup more) /\ Cardinality(Strange \cup more) <= Junk + k
  <2>1. IsFiniteSet(Strange \cap more) /\ Cardinality(Strange \cap more) \in Nat
    BY <1>2, FS_Intersection, FS_CardinalityType
  <2>2. /\ IsFiniteSet(Strange \cup more)
        /\ Cardinality(Strange \cup more) =
             Cardinality(Strange) + Cardinality(more) - Cardinality(Strange \cap more)
    BY <1>2, <1>6, FS_Union
  <2> QED BY <1>1, <1>2, <1>6, <2>1, <2>2 DEF Junk
<1>9. Cardinality(Strange') <= Cardinality(Strange \cup more)
  BY <1>7, <1>8, FS_Subset
<1>10. Cardinality(Strange \cup more) \in Nat
  BY <1>8, FS_CardinalityType
<1>11. Junk' <= Junk + k
  BY <1>1, <1>2, <1>8, <1>9, <1>10 DEF Junk
<1>12. ASSUME \A i \in 1 .. k : cmd.payload[i] # Garbage
       PROVE  Junk' <= Junk
  <2>1. \A j \in more : delivered'[j] = Garbage => j \notin 1 .. n + k \/ j \in 1 .. n
    BY <1>3, <1>4, <1>12
  <2>2. Strange' \in SUBSET Strange
    BY <1>3, <1>4, <1>5, <1>12 DEF Strange
  <2> QED BY <1>2, <2>2, FS_Subset DEF Junk
<1> QED BY <1>11, <1>12 DEF k

(* A header that arrives was taken since the last reset.                   *)
LEMMA EdgeJunk ==
  ASSUME Trust, JunkInv, TapEdge
  PROVE  JunkInv'
<1>1. RingGoes /\ CommandGoes /\ Base /\ Base' /\ cmd \in Commands /\ host \in Hosts
  BY EdgeGoes, EdgeTrusts DEF Trust, Base, TypesInv
<1>2. Junk' = Junk /\ resets' = resets
  BY <1>1 DEF RingGoes, Junk, Strange
<1>3. CASE ScanEdge
  <2>1. Running /\ ScanTap /\ UNCHANGED host
    BY <1>1, <1>3, ScanSteps
  <2>2. ASSUME HeaderComing', cmd'.header # NoHeader
        PROVE  Junk <= BlockSize * cmd'.header.session
    <3>1. CASE tap = "ShiftDR"
      <4>1. cmd' = Received
        BY <2>1, <3>1 DEF ScanTap
      <4>2. ~requesting /\ cmd.opcode = "header"
        <5>1. Received.tdi = cmd.tdi /\ Received.opcode = cmd.opcode
          BY <1>1, <2>1, ReceivedIs DEF Commands, Base, ScanInv, Wanted
        <5> QED BY <2>2, <4>1, <5>1 DEF HeaderComing, requesting
      <4>3. cmd'.header = Heard
        BY <1>1, <2>1, <4>1, <4>2, ReceivedIs DEF Commands
      <4>4. Clean
        BY <2>2, <4>3 DEF Heard
      <4>5. dr.response_active /\ dr.response_opcode = "header"
        <5>1. responding("header") \/ responding("payload")
          BY <4>4 DEF Clean, tdo_valid, payload_valid
        <5> QED BY <1>1, <2>1, <4>2, <5>1 DEF responding, Base, EngineInv, ScanInv
      <4>6. header_snapshot.session = resets /\ header_snapshot \in Headers
        BY <1>1, <4>5 DEF Trust, SnapshotInv, Base, TypesInv
      <4>7. cmd.sent # 0 => cmd.header = header_snapshot
        <5>1. cmd.sent \in Nat
          BY <1>1 DEF Commands
        <5>2. cmd.sent # 0 => cmd.sent > 0
          BY <5>1
        <5> QED BY <2>1, <4>2, <4>5, <5>2 DEF Trust, ReadInv
      <4>8. cmd'.header.session = resets
        BY <4>3, <4>4, <4>6, <4>7 DEF Heard, Headers
      <4> QED BY <4>8 DEF JunkInv
    <3>2. CASE tap # "ShiftDR"
      <4>1. /\ cmd'.header = cmd.header /\ cmd'.opcode = cmd.opcode
            /\ cmd'.sent # 0 => cmd'.sent = cmd.sent /\ (requesting' <=> requesting)
        BY <1>1, <2>1, <3>2 DEF ScanTap, Commands, requesting
      <4>2. cmd'.sent # 0
        BY <2>2 DEF HeaderComing
      <4>3. HeaderComing
        BY <2>1, <2>2, <4>1, <4>2 DEF HeaderComing
      <4> QED BY <2>2, <4>1, <4>3 DEF JunkInv
    <3> QED BY <3>1, <3>2
  <2> QED BY <1>2, <2>1, <2>2 DEF JunkInv
<1>4. CASE TapResetEdge
  <2>1. host'.pc = "tap_reset"
    BY <1>1, <1>4 DEF TapResetEdge, Hosts
  <2> QED BY <1>2, <2>1 DEF JunkInv, HeaderComing, Running
<1>5. CASE SelectUser2
  <2>1. host'.pc = "open" /\ requesting'
    BY <1>1, <1>5 DEF SelectUser2, Hosts, user_command, NoCommand, requesting
  <2> QED BY <1>2, <2>1 DEF JunkInv, HeaderComing
<1> QED BY <1>3, <1>4, <1>5 DEF TapEdge

LEMMA CallsJunk ==
  ASSUME Trust, JunkInv, Calls
  PROVE  JunkInv'
<1>1. Base /\ Base' /\ TypesInv /\ TypesInv' /\ host \in Hosts /\ cmd \in Commands
  BY CallsTrust DEF Trust, Base, TypesInv
<1>2. resets' = resets /\ resets \in Nat
  BY <1>1, BreakingOff, StartingOver, Waiting, JunkTyped
     DEF Calls, Opened, Idle, StartBlock, Deliver
<1>3. delivered' = delivered => Junk' = Junk
  BY DEF Junk, Strange
<1>4. CASE Breaks
  BY <1>1, <1>2, <1>3, <1>4, BreakingOff DEF JunkInv, HeaderComing, Running
<1>5. CASE Opened \/ Idle
  <2>1. /\ delivered' = delivered /\ host'.pc # "payload" /\ requesting'
    BY <1>1, <1>5 DEF Opened, Idle, read_header, Hosts, user_command, NoCommand, requesting
  <2> QED BY <1>2, <1>3, <2>1 DEF JunkInv, HeaderComing
<1>6. CASE StartBlock
  <2>1. /\ delivered' = delivered /\ HeaderRead /\ valid(cmd.header) /\ requesting'
        /\ host'.header = cmd.header
    BY <1>1, <1>6 DEF StartBlock, read_header, Hosts, user_command, NoCommand, requesting
  <2>2. HeaderComing /\ cmd.header # NoHeader
    <3>1. /\ Running /\ cmd.done /\ ~requesting /\ cmd.opcode = "header"
          /\ cmd.header # NoHeader
      BY <2>1, HeaderIsRead DEF HeaderRead, valid
    <3>2. cmd.sent = scan_bits /\ cmd.length > 0
      BY <1>1, <3>1 DEF Base, ScanInv, Commands
    <3> QED BY <1>1, <3>1, <3>2, ScanBitsAre DEF HeaderComing
  <2> QED BY <1>2, <1>3, <2>1, <2>2 DEF JunkInv, HeaderComing
<1>7. CASE Starts \/ Waits
  <2>1. /\ delivered' = delivered /\ cmd' = cmd
        /\ host'.pc \in {host.pc, "tap_reset"}
        /\ host'.pc = "payload" => host'.header = host.header /\ host.pc = "payload"
    BY <1>1, <1>7, StartingOver, Waiting
  <2> QED BY <1>2, <1>3, <2>1 DEF JunkInv, HeaderComing, Running, requesting
<1>8. CASE Deliver
  <2>1. /\ delivered' = delivered \o cmd.payload /\ host.pc = "payload" /\ cmd.done
        /\ host'.pc = "header" /\ requesting'
    BY <1>1, <1>8 DEF Deliver, Hosts, user_command, NoCommand, requesting
  <2>2. /\ Junk \in Nat /\ Junk' \in Nat /\ BlockSize \in Nat \ {0} /\ cmd.payload \in Seq(Arrivals)
        /\ Len(cmd.payload) \in Nat
    <3>1. TypesInv' => (Junk \in Nat)'
      BY JunkTyped, PTL
    <3> QED BY <1>1, <3>1, JunkTyped DEF Commands
  <2>3. host.header.session \in 0 .. resets /\ Junk <= BlockSize * host.header.session
    BY <2>1 DEF Trust, BasisInv, Told, JunkInv
  <2>4. Junk' <= BlockSize * resets
    <3>1. CASE host.header.session = resets
      <4>1. InStep
        BY <2>1, <3>1 DEF Trust, PayloadInv, Sound
      <4>2. \A i \in 1 .. Len(cmd.payload) : cmd.payload[i] # Garbage
        <5> SUFFICES ASSUME NEW i \in 1 .. Len(cmd.payload) PROVE cmd.payload[i] # Garbage
          OBVIOUS
        <5>1. cmd.payload[i].session = resets /\ Garbage.session = -1 /\ resets # -1
          BY <1>2, <4>1 DEF InStep, Garbage
        <5> QED BY <5>1
      <4>3. Junk' <= Junk
        BY <1>1, <2>1, <4>2, DeliverJunk
      <4> DEFINE most == BlockSize * resets
      <4>4. most \in Nat /\ Junk <= most
        BY <1>2, <2>2, <2>3, <3>1
      <4> HIDE DEF most
      <4>5. Junk' <= most
        BY <2>2, <4>3, <4>4
      <4> QED BY <4>5 DEF most
    <3>2. CASE host.header.session # resets
      <4> DEFINE s == host.header.session
                 k == Len(cmd.payload)
                 r == resets
      <4>1. s \in Nat /\ s + 1 \in Int /\ s + 1 <= r /\ r \in Int
        BY <1>2, <2>3, <3>2
      <4>2. k <= BlockSize
        <5>1. Running /\ ~requesting
          BY <1>1, <2>1 DEF Running, Base, ScanInv
        <5>2. cmd.length \in Nat /\ cmd.length <= BlockSize /\ cmd.sent = cmd.length * ByteBits
          BY <1>1, <2>1, <5>1 DEF Base, ScanInv, Longest, Commands, scan_bits
        <5>3. ByteBits * k <= cmd.sent
          BY <2>1, <5>1 DEF Trust, PayloadInv
        <5> DEFINE l == cmd.length
        <5>4. ByteBits \in Nat \ {0} /\ l \in Int /\ l <= BlockSize /\ k \in Int /\ BlockSize \in Int
          BY <2>2, <5>2, LinkAssumption
        <5>5. l * ByteBits = ByteBits * l /\ ByteBits * k <= l * ByteBits
          BY <5>2, <5>3, <5>4
        <5> HIDE DEF l, k
        <5>6. ~(k > l)
          <6> SUFFICES ASSUME l + 1 <= k PROVE FALSE
            BY <5>4
          <6>1. ByteBits * l \in Int /\ ByteBits * k \in Int /\ ByteBits * l + ByteBits <= ByteBits * k
            BY <5>4, OneMore
          <6> QED BY <5>4, <5>5, <6>1
        <5> QED BY <5>4, <5>6
      <4>3. Junk' <= Junk + k
        BY <1>1, <2>1, DeliverJunk
      <4>4. Junk <= BlockSize * s /\ k \in Int
        BY <2>2, <2>3
      <4> HIDE DEF s, k, r
      <4>5. BlockSize * s \in Int /\ BlockSize * r \in Int /\ BlockSize * s + BlockSize <= BlockSize * r
        BY <2>2, <4>1, OneMore
      <4>6. Junk' <= BlockSize * r
        <5> DEFINE a == BlockSize * s
                   b == BlockSize * r
        <5>1. a \in Int /\ b \in Int /\ Junk <= a /\ a + BlockSize <= b /\ Junk' <= Junk + k
          BY <4>3, <4>4, <4>5
        <5> HIDE DEF a, b
        <5>2. Junk' <= b
          BY <2>2, <4>2, <4>4, <5>1
        <5> QED BY <5>2 DEF b
      <4> QED BY <4>6 DEF r
    <3> QED BY <3>1, <3>2
  <2> QED BY <1>2, <2>1, <2>4 DEF JunkInv, HeaderComing
<1> QED BY <1>4, <1>5, <1>6, <1>7, <1>8 DEF Calls

LEMMA FpgaJunk ==
  ASSUME Trust, JunkInv, FpgaWrite \/ FpgaReset \/ UNCHANGED vars
  PROVE  JunkInv'
<1>1. UNCHANGED <<cmd, host, delivered>>
  BY DEF FpgaWrite, FpgaReset, vars
<1>2. Junk' = Junk /\ (HeaderComing' <=> HeaderComing)
  BY <1>1 DEF Junk, Strange, HeaderComing, Running, requesting
<1>3. Junk \in Nat /\ resets \in Nat /\ BlockSize \in Nat \ {0}
  BY JunkTyped DEF Trust, Base
<1>4. Junk' <= BlockSize * resets'
  <2>1. CASE resets' = resets
    BY <1>2, <2>1 DEF JunkInv
  <2>2. CASE resets' = resets + 1
    <3>1. BlockSize * (resets + 1) = BlockSize * resets + BlockSize /\ BlockSize * resets \in Int
      BY <1>3, Products
    <3> DEFINE m == BlockSize * resets
    <3>2. m \in Int /\ Junk <= m /\ BlockSize * resets' = m + BlockSize
      BY <2>2, <3>1 DEF JunkInv
    <3> HIDE DEF m
    <3> QED BY <1>2, <1>3, <3>2
  <2> QED BY <2>1, <2>2 DEF FpgaWrite, FpgaReset, vars
<1> QED BY <1>1, <1>2, <1>4 DEF JunkInv

LEMMA JunkSteps == Trust /\ JunkInv /\ [Next]_vars => JunkInv'
BY NextIs, EdgeJunk, CallsJunk, FpgaJunk DEF TapEdge

LEMMA JunkInit == Init => JunkInv
<1> SUFFICES ASSUME Init PROVE JunkInv
  OBVIOUS
<1>1. host.pc = "tap_reset" /\ delivered = <<>> /\ resets = 0
  BY NewHostIs DEF Init
<1>2. Strange = {}
  BY <1>1 DEF Strange
<1>3. Junk = 0 /\ BlockSize * resets \in Nat
  BY <1>2, FS_EmptySet, BaseInit, JunkTyped DEF Junk, Base
<1> QED BY <1>1, <1>3 DEF JunkInv, HeaderComing, Running

(* A failure of the link loses at most the one block that was in flight,   *)
(* an FPGA reset at most the one that it caught, and without them all that *)
(* was removed from the ring has reached the clients.  Garbage reaches     *)
(* them only after a reset, and one block of it for each.                  *)
THEOREM LossIsBounded == Spec => []LossBounded
<1>1. LossInv /\ JunkInv => LossBounded
  BY DEF LossInv, JunkInv, LossBounded, Got, Spare, Junk
<1>2. Init => Trust /\ LossInv /\ JunkInv
  BY TrustInit, LossInit, JunkInit
<1>3. (Trust /\ LossInv /\ JunkInv) /\ [Next]_vars => (Trust /\ LossInv /\ JunkInv)'
  BY TrustSteps, LossSteps, JunkSteps
<1> QED BY <1>1, <1>2, <1>3, PTL DEF Spec

-----------------------------------------------------------------------------
(* The order in which the clients get the bytes, in a session whose        *)
(* counters do not wrap.                                                   *)
NoWrap == MaxBytes < CountMod

NumbersInv ==
  /\ write_count <= MaxBytes /\ write_count = read_count + Len(unread)
  /\ \A i \in 1 .. Len(unread) : unread[i] = read_count + i - 1

LEMMA NumbersSteps ==
  ASSUME NoWrap, Trust, NumbersInv, [Next]_vars
  PROVE  NumbersInv'
<1>1. /\ Base /\ unread \in Seq(Number) /\ Len(unread) \in Nat /\ Len(block) \in Nat
      /\ Len(block) <= Len(unread) /\ read_count \in Nat /\ write_count \in Nat
      /\ MaxBytes \in Nat /\ CountMod \in Nat
  BY LinkAssumption DEF Trust, Base, TypesInv, MailboxInv, Number
<1>2. CASE TapEdge
  <2>1. RingGoes
    BY <1>1, <1>2, EdgeGoes
  <2>2. CASE dr.payload_commit
    <3>1. /\ write_count' = write_count /\ read_count' = Counts(Len(block))
          /\ unread' = SubSeq(unread, Len(block) + 1, Len(unread))
          /\ Len(unread') = Len(unread) - Len(block)
      BY <2>1, <2>2 DEF RingGoes, Committing
    <3>2. read_count' = read_count + Len(block)
      <4> DEFINE n == Len(block)
                 k == Len(unread)
      <4>1. n \in Nat /\ k \in Nat /\ n <= k /\ read_count + k <= MaxBytes /\ MaxBytes < CountMod
        BY <1>1 DEF NumbersInv, NoWrap
      <4> HIDE DEF n, k
      <4>2. read_count + n < CountMod
        BY <1>1, <4>1
      <4>3. read_count' = IF read_count + n >= CountMod THEN read_count + n - CountMod
                          ELSE read_count + n
        BY <3>1 DEF Counts, M!u32Plus, n
      <4>4. read_count' = read_count + n
        BY <1>1, <4>1, <4>2, <4>3
      <4> QED BY <4>4 DEF n
    <3>3. write_count' = read_count' + Len(unread')
      <4> DEFINE n == Len(block)
                 k == Len(unread)
                 k1 == Len(unread')
      <4>1. n \in Nat /\ k \in Nat /\ k1 = k - n /\ read_count' = read_count + n
            /\ write_count' = read_count + k
        BY <1>1, <3>1, <3>2 DEF NumbersInv
      <4> HIDE DEF n, k, k1
      <4>2. write_count' = read_count' + k1
        BY <1>1, <4>1
      <4> QED BY <4>2 DEF k1
    <3>4. ASSUME NEW i \in 1 .. Len(unread') PROVE unread'[i] = read_count' + i - 1
      <4> DEFINE n == Len(block)
      <4>1. i \in 1 .. Len(unread) - n /\ n + i \in 1 .. Len(unread) /\ n \in Nat
        BY <1>1, <3>1
      <4>2. unread'[i] = unread[n + i]
        BY <1>1, <3>1, <4>1
      <4>3. unread[n + i] = read_count + (n + i) - 1
        BY <4>1 DEF NumbersInv
      <4>4. read_count' = read_count + n
        BY <3>2
      <4> HIDE DEF n
      <4> QED BY <1>1, <4>1, <4>2, <4>3, <4>4
    <3> QED BY <3>1, <3>3, <3>4 DEF NumbersInv
  <2>3. CASE ~dr.payload_commit
    BY <2>1, <2>3 DEF RingGoes, Grows, NumbersInv
  <2> QED BY <2>2, <2>3
<1>3. CASE Calls \/ UNCHANGED vars
  <2>1. UNCHANGED <<unread, read_count, write_count>>
    BY <1>1, <1>3, BreakingOff, StartingOver, Waiting
       DEF Calls, Opened, Idle, StartBlock, Deliver, vars, fpga, mailbox
  <2> QED BY <2>1 DEF NumbersInv
<1>4. CASE FpgaWrite
  <2>1. /\ write_count' = M!u32Plus(write_count, 1) /\ unread' = Append(unread, write_count)
        /\ read_count' = read_count /\ write_count < MaxBytes
    BY <1>1, <1>4, WriteStep DEF FpgaWrite
  <2>2. write_count' = write_count + 1
    BY <1>1, <2>1 DEF M!u32Plus, NoWrap
  <2>3. Len(unread') = Len(unread) + 1
    BY <1>1, <2>1
  <2>4. \A i \in 1 .. Len(unread) + 1 :
          unread'[i] = IF i = Len(unread) + 1 THEN write_count ELSE unread[i]
    BY <1>1, <2>1
  <2>5. ASSUME NEW i \in 1 .. Len(unread') PROVE unread'[i] = read_count' + i - 1
    <3>1. CASE i = Len(unread) + 1
      BY <1>1, <2>1, <2>3, <2>4, <3>1 DEF NumbersInv
    <3>2. CASE i # Len(unread) + 1
      BY <1>1, <2>1, <2>3, <2>4, <3>2 DEF NumbersInv
    <3> QED BY <3>1, <3>2
  <2> QED BY <1>1, <2>1, <2>2, <2>3, <2>5 DEF NumbersInv
<1>5. CASE FpgaReset
  <2>1. unread' = <<>> /\ write_count' = 0 /\ read_count' = 0
    BY <1>5 DEF FpgaReset, M!Reset
  <2>2. Len(unread') = 0
    BY <2>1
  <2> QED BY <1>1, <2>1, <2>2 DEF NumbersInv
<1> QED BY <1>2, <1>3, <1>4, <1>5, NextIs DEF TapEdge

Goes(s) ==
  \A i, j \in 1 .. Len(s) : i < j /\ s[i] # Garbage /\ s[j] # Garbage => Later(s[j], s[i])

(* A byte of an earlier session, or of this one and before number n.       *)
Before(b, n) ==
  b # Garbage => b.session <= resets /\ (b.session = resets => b.number < n)

Released == IF dr.payload_commit THEN Len(block) ELSE 0

OrderInv ==
  /\ Goes(delivered) /\ Goes(cmd.payload)
  /\ \A i \in 1 .. Len(delivered), j \in 1 .. Len(cmd.payload) :
       delivered[i] # Garbage /\ cmd.payload[j] # Garbage => Later(cmd.payload[j], delivered[i])
  /\ \A i \in 1 .. Len(delivered) : Before(delivered[i], read_count + Released)
  /\ \A i \in 1 .. Len(cmd.payload) :
       /\ Before(cmd.payload[i], read_count + Len(block))
       /\ cmd.payload[i] # Garbage /\ cmd.payload[i].session = resets => Paying \/ dr.payload_commit

LEMMA BeforeLater ==
  ASSUME resets \in Nat, NEW a \in Arrivals, NEW b \in Arrivals, NEW n \in Int, Before(a, n),
         a # Garbage, b.session = resets, n <= b.number
  PROVE  Later(b, a)
<1>1. a.session \in Int /\ a.number \in Int /\ b.number \in Int
  BY LinkAssumption DEF Arrivals
<1> QED BY <1>1 DEF Before, Later

LEMMA GoesEmpty == Goes(<<>>)
BY DEF Goes

LEMMA GoesAppend ==
  ASSUME NEW s \in Seq(Arrivals), NEW b \in Arrivals, Goes(s),
         \A i \in 1 .. Len(s) : s[i] # Garbage /\ b # Garbage => Later(b, s[i])
  PROVE  Goes(Append(s, b))
<1>1. /\ Len(Append(s, b)) = Len(s) + 1 /\ Len(s) \in Nat
      /\ \A i \in 1 .. Len(s) + 1 : Append(s, b)[i] = IF i = Len(s) + 1 THEN b ELSE s[i]
  OBVIOUS
<1> DEFINE t == Append(s, b)
<1> SUFFICES ASSUME NEW i \in 1 .. Len(t), NEW j \in 1 .. Len(t), i < j,
                    t[i] # Garbage, t[j] # Garbage
             PROVE  Later(t[j], t[i])
  BY DEF Goes
<1>2. i \in 1 .. Len(s) /\ t[i] = s[i]
  BY <1>1
<1>3. CASE j = Len(s) + 1
  BY <1>1, <1>2, <1>3
<1>4. CASE j # Len(s) + 1
  <2>1. j \in 1 .. Len(s) /\ t[j] = s[j]
    BY <1>1, <1>4
  <2> QED BY <1>2, <2>1 DEF Goes
<1> QED BY <1>3, <1>4

LEMMA GoesConcat ==
  ASSUME NEW s \in Seq(Arrivals), NEW t \in Seq(Arrivals), Goes(s), Goes(t),
         \A i \in 1 .. Len(s), j \in 1 .. Len(t) :
           s[i] # Garbage /\ t[j] # Garbage => Later(t[j], s[i])
  PROVE  Goes(s \o t)
<1> DEFINE u == s \o t
           n == Len(s)
           k == Len(t)
<1>1. n \in Nat /\ k \in Nat /\ Len(u) = n + k
  OBVIOUS
<1>2. \A i \in 1 .. n + k : u[i] = IF i <= n THEN s[i] ELSE t[i - n]
  OBVIOUS
<1> SUFFICES ASSUME NEW i \in 1 .. Len(u), NEW j \in 1 .. Len(u), i < j,
                    u[i] # Garbage, u[j] # Garbage
             PROVE  Later(u[j], u[i])
  BY DEF Goes
<1>3. i \in 1 .. n + k /\ j \in 1 .. n + k
  BY <1>1
<1>4. CASE j <= n
  <2>1. u[i] = s[i] /\ u[j] = s[j] /\ i \in 1 .. Len(s) /\ j \in 1 .. Len(s)
    BY <1>1, <1>2, <1>3, <1>4
  <2> QED BY <2>1 DEF Goes
<1>5. CASE i <= n /\ j > n
  <2>1. u[i] = s[i] /\ u[j] = t[j - n] /\ i \in 1 .. Len(s) /\ j - n \in 1 .. Len(t)
    BY <1>1, <1>2, <1>3, <1>5
  <2> QED BY <2>1
<1>6. CASE i > n
  <2>1. u[i] = t[i - n] /\ u[j] = t[j - n] /\ i - n \in 1 .. Len(t) /\ j - n \in 1 .. Len(t)
        /\ i - n < j - n
    BY <1>1, <1>2, <1>3, <1>6
  <2> QED BY <2>1 DEF Goes
<1> QED BY <1>1, <1>3, <1>4, <1>5, <1>6

(* A block goes on or is finished; what of it has arrived stays covered.   *)
LEMMA ScanCovers ==
  ASSUME Trust, ScanEdge, host.pc = "payload", Paying
  PROVE  (Paying' \/ dr'.payload_commit) /\ Len(block) <= Len(block')
<1>1. Base /\ Running /\ ScanTap /\ ~cmd.done
  BY ScanSteps DEF Trust
<1>2. /\ tap \in Data /\ dr.pending_response /\ ~requesting /\ dr.bit_count = cmd.sent
      /\ dr.response_length = cmd.length /\ ~Strobes
  BY <1>1 DEF Paying, Base, EngineInv, ScanInv, CommandInv, Strobes, Silent
<1>3. Paying' \/ dr'.payload_commit
  <2>1. CASE tap = "ShiftDR"
    <3>1. Shifts(dr')
      BY <1>1, <2>1, ScanEngine
    <3> QED BY <3>1 DEF Shifts, Keeps, Paying
  <2>2. CASE tap = "Exit1DR"
    <3>1. Quiets(dr')
      BY <1>1, <2>2, ScanEngine
    <3> QED BY <3>1 DEF Quiets, Keeps, Paying
  <2>3. CASE tap = "UpdateDR"
    <3>1. Ends(dr')
      BY <1>1, <2>3, ScanEngine DEF Paying
    <3>2. cmd.sent = scan_bits /\ scan_bits = cmd.length * ByteBits
      BY <1>1, <1>2, <2>3 DEF Base, ScanInv, scan_bits
    <3>3. exact
      BY <1>2, <3>2 DEF exact
    <3> QED BY <3>1, <3>3 DEF Ends, Paying
  <2> QED BY <1>2, <2>1, <2>2, <2>3 DEF Data
<1>4. Len(block) <= Len(block')
  <2>1. RingGoes /\ block \in Seq(Number) /\ Len(block) \in Nat
    BY <1>1, EdgeGoes DEF TapEdge, Base, TypesInv, MailboxInv
  <2>2. CASE payload_ready
    <3>1. Len(block') = Len(block) + 1
      BY <2>1, <2>2 DEF RingGoes, Taking
    <3> QED BY <2>1, <3>1
  <2>3. CASE ~payload_ready
    BY <1>2, <2>1, <2>3 DEF RingGoes
  <2> QED BY <2>2, <2>3
<1> QED BY <1>3, <1>4

(* The byte that arrives is the next one.                                  *)
LEMMA ArrivedIsNext ==
  ASSUME Trust, NumbersInv, ScanEdge, host.pc = "payload", tap = "ShiftDR", ~requesting,
         (cmd.sent + 1) % ByteBits = 0
  PROVE  /\ Arrived \in Arrivals
         /\ Arrived # Garbage => /\ Arrived.session = resets
                                 /\ Arrived.number = read_count + Len(block)
                                 /\ Paying /\ Len(block') = Len(block) + 1
<1>1. /\ Base /\ Running /\ Wanted = "payload" /\ cmd.opcode = "payload" /\ cmd.sent \in Nat
      /\ block \in Seq(Number) /\ Len(block) \in Nat /\ unread \in Seq(Number)
      /\ visible \in Nat /\ visible <= Len(unread) /\ resets \in 0 .. MaxResets
      /\ read_count \in Number
  BY ScanSteps DEF Trust, Base, TypesInv, MailboxInv, Commands, ScanInv, Wanted
<1>2. CASE ~Clean
  BY <1>2, LinkAssumption DEF Arrived, Garbage, Arrivals
<1>3. CASE Clean
  <2>1. in_response /\ payload_valid /\ Paying
    BY <1>1, <1>3, ReceivedIs DEF payload_valid, responding, Paying
  <2>2. last_bit
    <3>1. dr.bit_count = cmd.sent
      BY <1>1, <2>1 DEF Base, ScanInv, Paying
    <3> DEFINE c == cmd.sent
    <3>2. c \in Int /\ ByteBits \in Nat \ {0} /\ (c + 1) % ByteBits = 0
      BY <1>1, LinkAssumption
    <3> HIDE DEF c
    <3>3. (c + 1) % ByteBits = IF c % ByteBits = ByteBits - 1 THEN 0 ELSE (c % ByteBits) + 1
      BY <3>2, ModNext
    <3>4. c % ByteBits \in 0 .. ByteBits - 1
      BY <3>2, ModRange
    <3>5. c % ByteBits = ByteBits - 1
      BY <3>2, <3>3, <3>4
    <3> QED BY <3>1, <3>5 DEF last_bit, c
  <2>3. payload_ready /\ Len(block) < visible
    BY <2>1, <2>2 DEF payload_ready, payload_valid, ring_valid
  <2>4. Len(block') = Len(block) + 1
    <3>1. RingGoes
      BY <1>1, EdgeGoes DEF TapEdge
    <3> QED BY <1>1, <2>3, <3>1 DEF RingGoes, Taking
  <2>5. Len(block) + 1 \in 1 .. Len(unread)
    <3>1. Len(unread) \in Nat
      BY <1>1
    <3> QED BY <1>1, <2>3, <3>1
  <2>6. unread[Len(block) + 1] = read_count + (Len(block) + 1) - 1
    BY <2>5 DEF NumbersInv
  <2>7. read_count + (Len(block) + 1) - 1 = read_count + Len(block)
    <3>1. read_count \in Int
      BY <1>1, LinkAssumption DEF Number
    <3> QED BY <1>1, <3>1
  <2>8. Arrived = [session |-> resets, number |-> unread[Len(block) + 1]]
    BY <1>3 DEF Arrived
  <2>9. unread[Len(block) + 1] \in Number
    BY <1>1, <2>5
  <2>10. Arrived \in Arrivals
    BY <1>1, <2>8, <2>9, LinkAssumption DEF Arrivals, Number
  <2> QED BY <2>1, <2>4, <2>6, <2>7, <2>8, <2>10
<1> QED BY <1>2, <1>3 DEF Clean, tdo_valid

LEMMA ScanOrder ==
  ASSUME Trust, NumbersInv, OrderInv, ScanEdge, host.pc = "payload"
  PROVE  /\ Goes(cmd'.payload)
         /\ \A i \in 1 .. Len(delivered), j \in 1 .. Len(cmd'.payload) :
              delivered[i] # Garbage /\ cmd'.payload[j] # Garbage =>
                Later(cmd'.payload[j], delivered[i])
         /\ \A i \in 1 .. Len(cmd'.payload) :
              /\ Before(cmd'.payload[i], read_count + Len(block'))
              /\ cmd'.payload[i] # Garbage /\ cmd'.payload[i].session = resets =>
                   Paying' \/ dr'.payload_commit
<1>1. /\ Base /\ Running /\ ScanTap /\ ~cmd.done /\ ~dr.payload_commit
      /\ cmd.opcode = "payload" /\ RingGoes
  <2>1. Base /\ Running /\ ScanTap /\ ~cmd.done
    BY ScanSteps DEF Trust
  <2> QED BY <2>1, EdgeGoes DEF TapEdge, Base, ScanInv, Wanted
<1>2. /\ cmd \in Commands /\ cmd.payload \in Seq(Arrivals) /\ Len(cmd.payload) \in Nat
      /\ delivered \in Seq(Arrivals) /\ resets \in Nat /\ read_count \in Int
      /\ block \in Seq(Number) /\ Len(block) \in Nat /\ Len(block') \in Nat /\ cmd.sent \in Nat
  <2>1. cmd \in Commands /\ delivered \in Seq(Arrivals) /\ resets \in Nat /\ block \in Seq(Number)
        /\ read_count \in Int
    BY <1>1, LinkAssumption DEF Base, TypesInv, MailboxInv, Number
  <2>2. cmd.payload \in Seq(Arrivals) /\ cmd.sent \in Nat
    BY <2>1 DEF Commands
  <2>3. block' \in Seq(Number)
    BY <1>1, ScanStep DEF Base, TypesInv, MailboxInv
  <2> QED BY <2>1, <2>2, <2>3
<1> DEFINE n == Len(cmd.payload)
           old == \A i \in 1 .. n :
                    /\ Before(cmd.payload[i], read_count + Len(block'))
                    /\ cmd.payload[i] # Garbage /\ cmd.payload[i].session = resets =>
                         Paying' \/ dr'.payload_commit
<1>3. old
  <2> SUFFICES ASSUME NEW i \in 1 .. n, cmd.payload[i] # Garbage
               PROVE  /\ cmd.payload[i].session <= resets
                      /\ cmd.payload[i].session = resets =>
                           /\ cmd.payload[i].number < read_count + Len(block')
                           /\ Paying' \/ dr'.payload_commit
    BY DEF Before
  <2>1. /\ cmd.payload[i].session <= resets
        /\ cmd.payload[i].session = resets =>
             Paying /\ cmd.payload[i].number < read_count + Len(block)
    BY <1>1 DEF OrderInv, Before
  <2>2. ASSUME cmd.payload[i].session = resets
        PROVE  cmd.payload[i].number < read_count + Len(block') /\ (Paying' \/ dr'.payload_commit)
    <3>1. Paying /\ cmd.payload[i].number < read_count + Len(block)
      BY <2>1, <2>2
    <3>2. (Paying' \/ dr'.payload_commit) /\ Len(block) <= Len(block')
      BY <3>1, ScanCovers
    <3>3. cmd.payload[i].number \in Int
      <4>1. cmd.payload[i] \in Arrivals
        BY <1>2
      <4> QED BY <4>1, LinkAssumption DEF Arrivals
    <3> DEFINE x == cmd.payload[i].number
               b == Len(block)
               b1 == Len(block')
    <3>4. x \in Int /\ b \in Nat /\ b1 \in Nat /\ x < read_count + b /\ b <= b1
      BY <1>2, <3>1, <3>2, <3>3
    <3> HIDE DEF x, b, b1
    <3>5. x < read_count + b1
      BY <1>2, <3>4
    <3> QED BY <3>2, <3>5 DEF x, b1
  <2> QED BY <2>1, <2>2
<1>4. cmd'.payload = cmd.payload \/
      (/\ tap = "ShiftDR" /\ ~requesting /\ (cmd.sent + 1) % ByteBits = 0
       /\ cmd'.payload = Append(cmd.payload, Arrived))
  <2>1. CASE tap # "ShiftDR"
    BY <1>1, <1>2, <2>1 DEF ScanTap, Commands
  <2>2. CASE tap = "ShiftDR" /\ requesting
    <3>1. cmd' = [cmd EXCEPT !.sent = cmd.sent + 1]
      BY <1>1, <2>2, ReceivedIs DEF ScanTap
    <3> QED BY <1>2, <3>1 DEF Commands
  <2>3. CASE tap = "ShiftDR" /\ ~requesting
    <3>1. cmd' = IF (cmd.sent + 1) % ByteBits = 0
                 THEN [cmd EXCEPT !.sent = cmd.sent + 1, !.clean = Clean,
                                  !.payload = Append(cmd.payload, Arrived)]
                 ELSE [cmd EXCEPT !.sent = cmd.sent + 1, !.clean = Clean]
      BY <1>1, <2>3, ReceivedIs DEF ScanTap
    <3> QED BY <1>2, <2>3, <3>1 DEF Commands
  <2> QED BY <2>1, <2>2, <2>3
<1>5. /\ Goes(cmd.payload)
      /\ \A i \in 1 .. Len(delivered), j \in 1 .. n :
           delivered[i] # Garbage /\ cmd.payload[j] # Garbage => Later(cmd.payload[j], delivered[i])
      /\ \A i \in 1 .. Len(delivered) : Before(delivered[i], read_count)
  <2>1. read_count + Released = read_count
    BY <1>1, <1>2 DEF Released
  <2> QED BY <2>1 DEF OrderInv
<1>6. CASE cmd'.payload = cmd.payload
  BY <1>3, <1>5, <1>6
<1>7. CASE /\ tap = "ShiftDR" /\ ~requesting /\ (cmd.sent + 1) % ByteBits = 0
           /\ cmd'.payload = Append(cmd.payload, Arrived)
  <2>1. /\ Arrived \in Arrivals
        /\ Arrived # Garbage => /\ Arrived.session = resets
                                /\ Arrived.number = read_count + Len(block)
                                /\ Paying /\ Len(block') = Len(block) + 1
    BY <1>7, ArrivedIsNext
  <2>2. /\ Len(cmd'.payload) = n + 1
        /\ \A i \in 1 .. n + 1 : cmd'.payload[i] = IF i = n + 1 THEN Arrived ELSE cmd.payload[i]
    BY <1>2, <1>7, <2>1
  <2>3. \A i \in 1 .. n : cmd.payload[i] # Garbage /\ Arrived # Garbage =>
                            Later(Arrived, cmd.payload[i])
    <3> SUFFICES ASSUME NEW i \in 1 .. n, cmd.payload[i] # Garbage, Arrived # Garbage
                 PROVE  Later(Arrived, cmd.payload[i])
      OBVIOUS
    <3>1. Before(cmd.payload[i], read_count + Len(block)) /\ cmd.payload[i] \in Arrivals
      BY <1>2 DEF OrderInv
    <3>2. Arrived.session = resets /\ read_count + Len(block) <= Arrived.number
          /\ read_count + Len(block) \in Int
      BY <1>2, <2>1
    <3> QED BY <1>2, <2>1, <3>1, <3>2, BeforeLater
  <2>4. \A i \in 1 .. Len(delivered) : delivered[i] # Garbage /\ Arrived # Garbage =>
                                         Later(Arrived, delivered[i])
    <3> SUFFICES ASSUME NEW i \in 1 .. Len(delivered), delivered[i] # Garbage, Arrived # Garbage
                 PROVE  Later(Arrived, delivered[i])
      OBVIOUS
    <3>1. Before(delivered[i], read_count) /\ delivered[i] \in Arrivals
      BY <1>2, <1>5
    <3>2. Arrived.session = resets /\ read_count <= Arrived.number
      BY <1>2, <2>1
    <3> QED BY <1>2, <2>1, <3>1, <3>2, BeforeLater
  <2>5. Goes(cmd'.payload)
    BY <1>2, <1>5, <1>7, <2>1, <2>3, GoesAppend
  <2>6. Before(Arrived, read_count + Len(block'))
        /\ (Arrived # Garbage => Paying' \/ dr'.payload_commit)
    <3>1. Arrived # Garbage => Arrived.session = resets /\ Paying
                               /\ Arrived.number < read_count + Len(block')
      BY <1>2, <2>1
    <3>2. Paying => Paying' \/ dr'.payload_commit
      BY ScanCovers
    <3> QED BY <1>2, <3>1, <3>2 DEF Before
  <2>7. ASSUME NEW i \in 1 .. Len(delivered), NEW j \in 1 .. Len(cmd'.payload),
               delivered[i] # Garbage, cmd'.payload[j] # Garbage
        PROVE  Later(cmd'.payload[j], delivered[i])
    <3>1. CASE j = n + 1
      BY <2>2, <2>4, <2>7, <3>1
    <3>2. CASE j # n + 1
      <4>1. j \in 1 .. n /\ cmd'.payload[j] = cmd.payload[j]
        BY <1>2, <2>2, <3>2
      <4> QED BY <1>5, <2>7, <4>1
    <3> QED BY <3>1, <3>2
  <2>8. ASSUME NEW i \in 1 .. Len(cmd'.payload)
        PROVE  /\ Before(cmd'.payload[i], read_count + Len(block'))
               /\ cmd'.payload[i] # Garbage /\ cmd'.payload[i].session = resets =>
                    Paying' \/ dr'.payload_commit
    <3>1. CASE i = n + 1
      BY <2>2, <2>6, <3>1
    <3>2. CASE i # n + 1
      <4>1. i \in 1 .. n /\ cmd'.payload[i] = cmd.payload[i]
        BY <1>2, <2>2, <3>2
      <4> QED BY <1>3, <4>1
    <3> QED BY <3>1, <3>2
  <2> QED BY <2>5, <2>7, <2>8
<1> QED BY <1>4, <1>6, <1>7

LEMMA OrderTypes ==
  ASSUME Trust
  PROVE  /\ Base /\ cmd.payload \in Seq(Arrivals) /\ Len(cmd.payload) \in Nat
         /\ delivered \in Seq(Arrivals) /\ Len(delivered) \in Nat /\ resets \in Nat
         /\ read_count \in Nat /\ Len(block) \in Nat /\ Len(unread) \in Nat
         /\ Len(block) <= Len(unread)
<1>1. /\ Base /\ cmd \in Commands /\ delivered \in Seq(Arrivals) /\ resets \in Nat
      /\ read_count \in Nat /\ block \in Seq(Number) /\ unread \in Seq(Number)
      /\ Len(block) <= Len(unread)
  BY LinkAssumption DEF Trust, Base, TypesInv, MailboxInv, Number
<1>2. cmd.payload \in Seq(Arrivals)
  BY <1>1 DEF Commands
<1> QED BY <1>1, <1>2

(* A commit moves the counter by the block.                                *)
LEMMA CommitAdds ==
  ASSUME NoWrap, Trust, NumbersInv
  PROVE  Counts(Len(block)) = read_count + Len(block)
<1> DEFINE n == Len(block)
           k == Len(unread)
<1>1. /\ n \in Nat /\ k \in Nat /\ n <= k /\ read_count \in Nat /\ read_count + k <= MaxBytes
      /\ MaxBytes < CountMod /\ MaxBytes \in Nat /\ CountMod \in Nat
  BY OrderTypes, LinkAssumption DEF NumbersInv, NoWrap
<1>2. Counts(n) = IF read_count + n >= CountMod THEN read_count + n - CountMod ELSE read_count + n
  BY DEF Counts, M!u32Plus
<1> HIDE DEF n, k
<1>3. read_count + n < CountMod
  BY <1>1
<1>4. Counts(n) = read_count + n
  BY <1>1, <1>2, <1>3
<1> QED BY <1>4 DEF n

(* What an edge covers is covered after it.                                *)
LEMMA EdgeCovers ==
  ASSUME NoWrap, Trust, NumbersInv, TapEdge
  PROVE  /\ read_count' \in Int /\ Released' \in Int
         /\ read_count + Released <= read_count' + Released'
         /\ ~dr.payload_commit => read_count' = read_count
<1>1. RingGoes /\ EngineGoes /\ read_count \in Nat /\ Len(block) \in Nat
  BY OrderTypes, EdgeGoes
<1>2. Base' /\ block' \in Seq(Number) /\ read_count' \in Nat
  BY EdgeTrusts, LinkAssumption DEF Trust, Base, TypesInv, MailboxInv, Number
<1>3. Released' = (IF dr'.payload_commit THEN Len(block') ELSE 0) /\ Released' \in Nat
  BY <1>2 DEF Released
<1>4. CASE dr.payload_commit
  <2>1. Counts(Len(block)) = read_count + Len(block)
    BY CommitAdds
  <2>2. read_count' = read_count + Len(block) /\ Released = Len(block)
    BY <1>1, <1>4, <2>1 DEF RingGoes, Committing, Released
  <2> DEFINE r == Released'
             c == read_count'
  <2>3. r \in Nat /\ c \in Nat /\ c = read_count + Released
    BY <1>2, <1>3, <2>2
  <2> HIDE DEF r, c
  <2>4. c <= c + r
    BY <2>3
  <2> QED BY <1>4, <2>3, <2>4 DEF r, c
<1>5. CASE ~dr.payload_commit
  <2>1. read_count' = read_count /\ Released = 0
    BY <1>1, <1>5 DEF RingGoes, Grows, Released
  <2> DEFINE r == Released'
             c == read_count'
  <2>2. r \in Nat /\ c \in Nat /\ c = read_count
    BY <1>2, <1>3, <2>1
  <2> HIDE DEF r, c
  <2>3. read_count + Released <= c + r /\ r \in Int /\ c \in Int
    BY <1>1, <2>1, <2>2
  <2> QED BY <1>5, <2>2, <2>3 DEF r, c
<1> QED BY <1>4, <1>5

LEMMA BeforeGrows ==
  ASSUME NEW b \in Arrivals, NEW m \in Int, NEW n \in Int, m <= n, Before(b, m)
  PROVE  Before(b, n)
<1>1. b.number \in Int
  BY LinkAssumption DEF Arrivals
<1> QED BY <1>1 DEF Before

LEMMA EdgeOrder ==
  ASSUME NoWrap, Trust, NumbersInv, OrderInv, TapEdge
  PROVE  OrderInv'
<1>1. /\ delivered' = delivered /\ resets' = resets
      /\ delivered \in Seq(Arrivals) /\ resets \in Nat
      /\ read_count \in Int /\ Released \in Int
  <2>1. RingGoes /\ Len(block) \in Nat /\ read_count \in Nat
    BY OrderTypes, EdgeGoes
  <2> QED BY <2>1, OrderTypes DEF RingGoes, Released
<1>2. \A i \in 1 .. Len(delivered') : Before(delivered[i], read_count' + Released')
  <2> SUFFICES ASSUME NEW i \in 1 .. Len(delivered)
               PROVE  Before(delivered[i], read_count' + Released')
    BY <1>1
  <2>1. delivered[i] \in Arrivals /\ Before(delivered[i], read_count + Released)
    BY <1>1 DEF OrderInv
  <2>2. /\ read_count' \in Int /\ Released' \in Int
        /\ read_count + Released <= read_count' + Released'
    BY EdgeCovers
  <2> DEFINE m == read_count + Released
             c == read_count'
             r == Released'
             n == c + r
  <2>3. c \in Int /\ r \in Int /\ m <= n
    BY <2>2
  <2>6. m \in Int
    BY <1>1
  <2>7. Before(delivered[i], m)
    BY <2>1
  <2> HIDE DEF m, c, r
  <2>5. n \in Int
    BY <2>3
  <2> HIDE DEF m, n
  <2>4. Before(delivered[i], n)
    BY <2>1, <2>3, <2>5, <2>6, <2>7, BeforeGrows
  <2> QED BY <2>4 DEF n, c, r
<1>3. \A i \in 1 .. Len(delivered') : Before(delivered[i], read_count + Released)'
  BY <1>1, <1>2 DEF Before
<1>4. CASE ScanEdge /\ host.pc = "payload"
  <2>1. ~dr.payload_commit /\ read_count' = read_count
    <3>1. ~dr.payload_commit
      BY <1>4, ScanSteps DEF Trust, Base, ScanInv
    <3> QED BY <3>1, EdgeCovers
  <2>2. /\ Goes(cmd'.payload)
        /\ \A i \in 1 .. Len(delivered), j \in 1 .. Len(cmd'.payload) :
             delivered[i] # Garbage /\ cmd'.payload[j] # Garbage =>
               Later(cmd'.payload[j], delivered[i])
        /\ \A i \in 1 .. Len(cmd'.payload) :
             /\ Before(cmd'.payload[i], read_count + Len(block'))
             /\ cmd'.payload[i] # Garbage /\ cmd'.payload[i].session = resets =>
                  Paying' \/ dr'.payload_commit
    BY <1>4, ScanOrder
  <2>3. \A i \in 1 .. Len(cmd'.payload) : Before(cmd.payload[i], read_count + Len(block))'
    BY <1>1, <2>1, <2>2 DEF Before
  <2>4. Goes(delivered)' /\ Goes(cmd.payload)'
    BY <1>1, <2>2 DEF OrderInv, Goes
  <2> QED BY <1>1, <1>3, <2>2, <2>3, <2>4 DEF OrderInv
<1>5. CASE ~(ScanEdge /\ host.pc = "payload")
  <2>1. cmd'.payload = <<>>
    <3>1. PayloadInv'
      BY EdgeTrusts DEF Trust
    <3>2. host'.pc # "payload"
      <4>1. CASE ScanEdge
        BY <1>5, <4>1, ScanSteps DEF Trust
      <4>2. CASE TapResetEdge \/ SelectUser2
        BY <4>2 DEF TapResetEdge, SelectUser2, Trust, Base, TypesInv, Hosts
      <4> QED BY <4>1, <4>2 DEF TapEdge
    <3> QED BY <3>1, <3>2 DEF PayloadInv
  <2>2. Goes(cmd.payload)' /\ Goes(delivered)' /\ 1 .. Len(cmd'.payload) = {}
    BY <1>1, <2>1, GoesEmpty DEF OrderInv, Goes
  <2> QED BY <1>3, <2>1, <2>2 DEF OrderInv
<1> QED BY <1>4, <1>5

LEMMA WaitsOrder ==
  ASSUME Trust, OrderInv, Waits
  PROVE  OrderInv'
<1>1. UNCHANGED <<fpga, cmd, delivered, resets>>
  BY Waiting DEF Trust
<1>2. read_count' = read_count /\ block' = block /\ dr' = dr
  BY <1>1 DEF fpga, mailbox
<1>3. /\ Released' = Released /\ (Paying' <=> Paying) /\ Goes(delivered)' /\ Goes(cmd.payload)'
  BY <1>1, <1>2 DEF Released, Paying, OrderInv, Goes
<1> QED BY <1>1, <1>2, <1>3 DEF OrderInv, Before

LEMMA CallsOrder ==
  ASSUME Trust, OrderInv, Opened \/ Idle \/ StartBlock \/ Deliver \/ Breaks \/ Starts
  PROVE  OrderInv'
<1>1. UNCHANGED fpga /\ resets' = resets /\ PayloadInv'
  BY CallsTrust, BreakingOff, StartingOver, Waiting
     DEF Trust, Calls, Opened, Idle, StartBlock, Deliver
<1>2. read_count' = read_count /\ block' = block /\ dr' = dr
  BY <1>1 DEF fpga, mailbox
<1>3. cmd'.payload = <<>>
  <2>1. CASE Breaks
    BY <2>1, BreakingOff DEF Trust
  <2>2. CASE Opened \/ Idle \/ StartBlock \/ Deliver
    BY <2>2 DEF Opened, Idle, StartBlock, Deliver, user_command, NoCommand
  <2>3. CASE Starts
    <3>1. host'.pc = "tap_reset"
      BY <2>3, StartingOver DEF Trust
    <3> QED BY <1>1, <3>1 DEF PayloadInv
  <2> QED BY <2>1, <2>2, <2>3
<1>4. Goes(delivered') /\ \A i \in 1 .. Len(delivered') : Before(delivered'[i], read_count + Released)
  <2>1. CASE ~Deliver
    <3>1. delivered' = delivered
      BY <2>1, BreakingOff, StartingOver, Waiting DEF Trust, Calls, Opened, Idle, StartBlock
    <3> QED BY <3>1 DEF OrderInv
  <2>2. CASE Deliver
    <3> DEFINE s == delivered
               t == cmd.payload
               m == read_count + Released
    <3>1. s \in Seq(Arrivals) /\ t \in Seq(Arrivals) /\ Goes(s) /\ Goes(t) /\ m \in Int
      BY OrderTypes DEF OrderInv, Released
    <3>2. \A i \in 1 .. Len(s), j \in 1 .. Len(t) :
            s[i] # Garbage /\ t[j] # Garbage => Later(t[j], s[i])
      BY DEF OrderInv
    <3>3. \A i \in 1 .. Len(s) : Before(s[i], m)
      BY DEF OrderInv
    <3>4. ~Paying
      BY <2>2 DEF Deliver, Trust, Base, ScanInv, EngineInv, Running, Paying, Data
    <3>5. ASSUME NEW j \in 1 .. Len(t) PROVE Before(t[j], m)
      <4>1. /\ Before(t[j], read_count + Len(block))
            /\ t[j] # Garbage /\ t[j].session = resets => dr.payload_commit
        BY <3>4 DEF OrderInv
      <4>2. CASE dr.payload_commit
        BY <4>1, <4>2 DEF Released
      <4>3. CASE ~dr.payload_commit
        BY <4>1, <4>3 DEF Before
      <4> QED BY <4>2, <4>3
    <3>6. Goes(s \o t)
      BY <3>1, <3>2, GoesConcat
    <3>7. \A i \in 1 .. Len(s \o t) : Before((s \o t)[i], m)
      <4>1. /\ Len(s) \in Nat /\ Len(t) \in Nat /\ Len(s \o t) = Len(s) + Len(t)
            /\ \A i \in 1 .. Len(s) + Len(t) :
                 (s \o t)[i] = IF i <= Len(s) THEN s[i] ELSE t[i - Len(s)]
        BY <3>1
      <4> SUFFICES ASSUME NEW i \in 1 .. Len(s) + Len(t) PROVE Before((s \o t)[i], m)
        BY <4>1
      <4>2. CASE i <= Len(s)
        BY <3>3, <4>1, <4>2
      <4>3. CASE i > Len(s)
        <5>1. i - Len(s) \in 1 .. Len(t) /\ (s \o t)[i] = t[i - Len(s)]
          BY <4>1, <4>3
        <5> QED BY <3>5, <5>1
      <4> QED BY <4>1, <4>2, <4>3
    <3>8. delivered' = s \o t
      BY <2>2 DEF Deliver
    <3> QED BY <3>6, <3>7, <3>8
  <2> QED BY <2>1, <2>2
<1>5. \A i \in 1 .. Len(delivered') : Before(delivered[i], read_count + Released)'
  BY <1>1, <1>2, <1>4 DEF Before, Released
<1>6. Goes(delivered)' /\ Goes(cmd.payload)' /\ 1 .. Len(cmd'.payload) = {}
  BY <1>3, <1>4, GoesEmpty DEF Goes
<1> QED BY <1>3, <1>5, <1>6 DEF OrderInv

LEMMA FpgaOrder ==
  ASSUME Trust, OrderInv, FpgaWrite \/ FpgaReset \/ UNCHANGED vars
  PROVE  OrderInv'
<1>1. CASE FpgaWrite \/ UNCHANGED vars
  <2>1. UNCHANGED <<block, read_count, dr, cmd, delivered, resets>>
    BY <1>1 DEF FpgaWrite, vars, fpga, mailbox
  <2>2. Released' = Released /\ (Paying' <=> Paying)
    BY <2>1 DEF Released, Paying
  <2> QED BY <2>1, <2>2 DEF OrderInv, Before, Goes
<1>2. CASE FpgaReset
  <2>1. resets' = resets + 1 /\ cmd' = cmd /\ delivered' = delivered
    BY <1>2 DEF FpgaReset
  <2>2. ASSUME NEW b \in Arrivals, NEW n \in Int, Before(b, n)
        PROVE  b # Garbage => b.session <= resets' /\ b.session # resets'
    <3>1. b.session \in Int /\ resets \in Nat
      BY OrderTypes, LinkAssumption DEF Arrivals
    <3> QED BY <2>1, <2>2, <3>1 DEF Before
  <2>3. /\ delivered \in Seq(Arrivals) /\ cmd.payload \in Seq(Arrivals)
        /\ read_count + Released \in Int /\ read_count + Len(block) \in Int
    BY OrderTypes DEF Released
  <2>4. \A i \in 1 .. Len(delivered) :
          delivered[i] # Garbage => delivered[i].session <= resets' /\ delivered[i].session # resets'
    BY <2>2, <2>3 DEF OrderInv
  <2>5. \A i \in 1 .. Len(cmd.payload) :
          cmd.payload[i] # Garbage =>
            cmd.payload[i].session <= resets' /\ cmd.payload[i].session # resets'
    BY <2>2, <2>3 DEF OrderInv
  <2>6. \A i \in 1 .. Len(delivered') : Before(delivered[i], read_count + Released)'
    BY <2>1, <2>4 DEF Before
  <2>7. \A i \in 1 .. Len(cmd'.payload) :
          /\ Before(cmd.payload[i], read_count + Len(block))'
          /\ ~(cmd'.payload[i] # Garbage /\ cmd'.payload[i].session = resets')
    BY <2>1, <2>5 DEF Before
  <2>8. /\ Goes(delivered)' /\ Goes(cmd.payload)'
        /\ \A i \in 1 .. Len(delivered'), j \in 1 .. Len(cmd'.payload) :
             delivered'[i] # Garbage /\ cmd'.payload[j] # Garbage =>
               Later(cmd'.payload[j], delivered'[i])
    BY <2>1 DEF OrderInv, Goes
  <2> QED BY <2>6, <2>7, <2>8 DEF OrderInv
<1> QED BY <1>1, <1>2

LEMMA OrderInit == Init => NumbersInv /\ OrderInv
<1> SUFFICES ASSUME Init PROVE NumbersInv /\ OrderInv
  OBVIOUS
<1>1. /\ unread = <<>> /\ write_count = 0 /\ read_count = 0 /\ delivered = <<>>
      /\ cmd = NoCommand /\ MaxBytes \in Nat
  BY LinkAssumption DEF Init, M!Init
<1>2. cmd.payload = <<>> /\ 1 .. Len(<<>>) = {} /\ Len(<<>>) = 0
  BY <1>1 DEF NoCommand
<1>3. NumbersInv
  BY <1>1, <1>2 DEF NumbersInv
<1> QED BY <1>1, <1>2, <1>3, GoesEmpty DEF OrderInv

LEMMA OrderSteps ==
  NoWrap /\ Trust /\ NumbersInv /\ OrderInv /\ [Next]_vars => NumbersInv' /\ OrderInv'
BY NextIs, NumbersSteps, EdgeOrder, CallsOrder, WaitsOrder, FpgaOrder DEF TapEdge, Calls

(* In every run whose sessions do not write past the width of the counter, *)
(* the clients get the bytes of a session in order and each at most once,  *)
(* whatever fails, reconnects or is reset.                                 *)
THEOREM DeliveriesInOrder ==
  ASSUME NoWrap
  PROVE  Spec => []DeliveredInOrder
<1>1. OrderInv => DeliveredInOrder
  BY DEF OrderInv, Goes, DeliveredInOrder
<1>2. Init => Trust /\ NumbersInv /\ OrderInv
  BY TrustInit, OrderInit
<1>3. (Trust /\ NumbersInv /\ OrderInv) /\ [Next]_vars => (Trust /\ NumbersInv /\ OrderInv)'
  BY TrustSteps, OrderSteps
<1> QED BY <1>1, <1>2, <1>3, PTL DEF Spec
=============================================================================
