--------------------------- MODULE MonitorProofs ---------------------------
(***************************************************************************)
(* Proofs about the register path (module Monitor), for any requests of    *)
(* the host, any bytes that are lost or changed on the line, and any flags *)
(* that are raised: the parser stays within its register, the path         *)
(* implements the register file that does one request at a time, and what  *)
(* came whole is carried out once, in order.                               *)
(***************************************************************************)
EXTENDS Monitor, FiniteSetTheorems, SequenceTheorems, TLAPS

-----------------------------------------------------------------------------
(* Bytes, and the frames that are made of them.                            *)
LEMMA Symbols ==
  /\ SOF \in Byte /\ VERSION \in Byte /\ READ_REQ \in Byte /\ WRITE_REQ \in Byte
  /\ ByteOf(ReadLength) \in Byte /\ ByteOf(WriteLength) \in Byte /\ {} \in Byte
BY DEF SOF, VERSION, READ_REQ, WRITE_REQ, ByteOf, Byte

LEMMA NumberOfByte ==
  ASSUME NEW b \in Byte
  PROVE  Number(b) \in Nat /\ (b # {} => Number(b) # 0)
<1> DEFINE bit(i) == IF i \in b THEN 1 ELSE 0
<1>1. \A i \in 0 .. 7 : bit(i) \in {0, 1} /\ (i \in b => bit(i) = 1)
  OBVIOUS
<1>2. Number(b) = bit(0) + 2 * bit(1) + 4 * bit(2) + 8 * bit(3) + 16 * bit(4) + 32 * bit(5)
                    + 64 * bit(6) + 128 * bit(7)
  BY DEF Number
<1>3. b # {} => \E i \in 0 .. 7 : i \in b
  BY DEF Byte
<1>4. \A i \in 0 .. 7 : i = 0 \/ i = 1 \/ i = 2 \/ i = 3 \/ i = 4 \/ i = 5 \/ i = 6 \/ i = 7
  OBVIOUS
<1> HIDE DEF bit
<1>5. Number(b) \in Nat
  BY <1>1, <1>2
<1>6. ASSUME NEW i \in 0 .. 7, i \in b PROVE Number(b) # 0
  <2>1. bit(i) = 1
    BY <1>1, <1>6
  <2> QED BY <1>1, <1>2, <1>4, <2>1
<1> QED BY <1>3, <1>5, <1>6

LEMMA BytesAre ==
  ASSUME NEW w, NEW n \in Nat
  PROVE  Bytes(w, n) \in Seq(Byte)
<1>1. \A i \in 1 .. n : {b \in 0 .. 7 : 8 * (i - 1) + b \in w} \in Byte
  BY DEF Byte
<1> QED BY <1>1 DEF Bytes

LEMMA FrameIsBytes ==
  ASSUME NEW r, r.write \in BOOLEAN
  PROVE  Frame(r) \in Seq(Byte)
<1> DEFINE head == Bytes(r.seq, 2) \o Bytes(r.addr, 2) \o Bytes(r.width, 1)
           body == IF r.write
                   THEN <<VERSION, WRITE_REQ, ByteOf(WriteLength)>> \o head
                          \o Bytes(r.wdata, 4) \o Bytes(r.wmask, 4)
                   ELSE <<VERSION, READ_REQ, ByteOf(ReadLength)>> \o head
<1>1. head \in Seq(Byte) /\ Bytes(r.wdata, 4) \in Seq(Byte) /\ Bytes(r.wmask, 4) \in Seq(Byte)
  BY BytesAre
<1>2. <<VERSION, WRITE_REQ, ByteOf(WriteLength)>> \in Seq(Byte)
      /\ <<VERSION, READ_REQ, ByteOf(ReadLength)>> \in Seq(Byte) /\ <<SOF>> \in Seq(Byte)
  BY Symbols
<1> HIDE DEF head
<1>3. body \in Seq(Byte)
  BY <1>1, <1>2
<1> HIDE DEF body
<1>4. checksum(body) \in Byte
  BY DEF checksum, Byte
<1>5. <<checksum(body)>> \in Seq(Byte)
  BY <1>4
<1>6. Frame(r) = <<SOF>> \o body \o <<checksum(body)>>
  BY DEF Frame, body, head
<1> QED BY <1>2, <1>3, <1>5, <1>6

LEMMA HurtIsBytes ==
  ASSUME NEW raw \in Seq(Byte), NEW got \in Hurt(raw)
  PROVE  got \in Seq(Byte)
<1>1. CASE got \in Shortened(raw)
  <2>1. PICK i \in 1 .. Len(raw) : got = SubSeq(raw, 1, i - 1) \o SubSeq(raw, i + 1, Len(raw))
    BY <1>1 DEF Shortened
  <2>2. SubSeq(raw, 1, i - 1) \in Seq(Byte)
    BY <2>1
  <2>3. SubSeq(raw, i + 1, Len(raw)) \in Seq(Byte)
    BY <2>1
  <2> QED BY <2>1, <2>2, <2>3
<1>2. CASE got \in Altered(raw)
  <2>1. PICK i \in 1 .. Len(raw), b \in Changes : got = [raw EXCEPT ![i] = b]
    BY <1>2 DEF Altered
  <2>2. b \in Byte
    BY MonitorAssumption
  <2> QED BY <2>1, <2>2
<1> QED BY <1>1, <1>2 DEF Hurt

-----------------------------------------------------------------------------
(* The parser.                                                             *)
ParserStates == {"SOF", "VERSION", "TYPE", "LEN", "PAYLOAD", "CHECKSUM"}
Parsers ==
  [state : ParserStates, type : Byte, len : 0 .. PayloadRegister, checksum : Byte,
   payload : Seq(Byte)]
Fits(p) ==
  /\ p \in Parsers
  /\ p.state \notin {"PAYLOAD", "CHECKSUM"} => p.payload = <<>>
  /\ p.state = "PAYLOAD" => Len(p.payload) < p.len
  /\ p.state = "CHECKSUM" => Len(p.payload) = p.len

LEMMA WaitingFits == Fits(Waiting)
BY Symbols DEF Waiting, Fits, Parsers, ParserStates, PayloadRegister

LEMMA ParsedFits ==
  ASSUME NEW p, Fits(p), NEW b \in Byte
  PROVE  Fits(Parsed(p, b))
<1>1. /\ p \in Parsers /\ Xor(p.checksum, b) \in Byte /\ p.state \in ParserStates
      /\ p.payload \in Seq(Byte)
  BY DEF Fits, Parsers, Xor, Byte
<1>2. CASE p.state = "SOF"
  <2>1. Fits([Waiting EXCEPT !.state = "VERSION"])
    BY WaitingFits DEF Fits, Waiting, Parsers, ParserStates
  <2> QED BY <1>2, <2>1, WaitingFits DEF Parsed
<1>3. CASE p.state = "VERSION"
  <2>1. Fits(Enter(p, "TYPE", b))
    BY <1>1, <1>3 DEF Fits, Enter, Parsers, ParserStates
  <2> QED BY <1>3, <2>1, WaitingFits DEF Parsed
<1>4. CASE p.state = "TYPE"
  <2>1. Fits([Enter(p, "LEN", b) EXCEPT !.type = b])
    BY <1>1, <1>4 DEF Fits, Enter, Parsers, ParserStates
  <2> QED BY <1>4, <2>1 DEF Parsed
<1>5. CASE p.state = "LEN"
  <2>1. CASE Number(b) > MAX_PAYLOAD_BYTES
    BY <1>5, <2>1, WaitingFits DEF Parsed
  <2>2. CASE ~(Number(b) > MAX_PAYLOAD_BYTES)
    <3> DEFINE n == Number(b)
               state == IF b = {} THEN "CHECKSUM" ELSE "PAYLOAD"
    <3>1. n \in Nat /\ (b # {} => n # 0) /\ n <= 32
      BY <2>2, NumberOfByte DEF MAX_PAYLOAD_BYTES
    <3>2. b = {} => n = 0
      BY DEF Number
    <3>3. Parsed(p, b) = [Enter(p, state, b) EXCEPT !.len = n]
      BY <1>5, <2>2 DEF Parsed
    <3>4. p.payload = <<>>
      BY <1>5 DEF Fits
    <3>5. state \in {"CHECKSUM", "PAYLOAD"} /\ (state = "CHECKSUM" => n = 0)
          /\ (state = "PAYLOAD" => n # 0)
      BY <3>1, <3>2
    <3> HIDE DEF n, state
    <3> DEFINE q == [Enter(p, state, b) EXCEPT !.len = n]
    <3>6. q \in Parsers /\ q.state = state /\ q.len = n /\ q.payload = <<>>
      <4>1. n \in 0 .. PayloadRegister /\ state \in ParserStates
        BY <3>1, <3>5 DEF PayloadRegister, ParserStates
      <4>2. q = [p EXCEPT !.state = state, !.checksum = Xor(p.checksum, b), !.len = n]
        BY <1>1 DEF Enter, Parsers
      <4> HIDE DEF q
      <4> QED BY <1>1, <3>4, <4>1, <4>2 DEF Parsers
    <3>7. Len(q.payload) = 0
      BY <3>6
    <3> HIDE DEF q
    <3>8. Fits(q)
      BY <3>1, <3>5, <3>6, <3>7 DEF Fits
    <3> QED BY <3>3, <3>8 DEF q
  <2> QED BY <2>1, <2>2
<1>6. CASE p.state = "PAYLOAD"
  <2> DEFINE state == IF Len(p.payload) + 1 = p.len THEN "CHECKSUM" ELSE "PAYLOAD"
             longer == Append(p.payload, b)
  <2>1. /\ longer \in Seq(Byte) /\ Len(longer) = Len(p.payload) + 1 /\ Len(p.payload) \in Nat
    BY <1>1
  <2>2. Parsed(p, b) = [Enter(p, state, b) EXCEPT !.payload = longer]
    BY <1>6 DEF Parsed, Enter
  <2>3. Len(p.payload) < p.len /\ p.len \in Nat
    BY <1>1, <1>6 DEF Fits, Parsers
  <2>4. /\ state \in {"CHECKSUM", "PAYLOAD"} /\ (state = "CHECKSUM" => Len(longer) = p.len)
        /\ (state = "PAYLOAD" => Len(longer) < p.len)
    BY <2>1, <2>3
  <2> HIDE DEF state, longer
  <2>5. Fits([Enter(p, state, b) EXCEPT !.payload = longer])
    BY <1>1, <2>1, <2>4 DEF Fits, Enter, Parsers, ParserStates
  <2> QED BY <2>2, <2>5
<1>7. CASE p.state = "CHECKSUM"
  BY <1>7, WaitingFits DEF Parsed
<1> QED BY <1>1, <1>2, <1>3, <1>4, <1>5, <1>6, <1>7 DEF ParserStates

(* What it makes of a frame.                                               *)
Made ==
  [seq : SUBSET Nat, addr : SUBSET Nat, width : SUBSET Nat, write : BOOLEAN, wdata : WordType,
   wmask : SUBSET Nat]

LEMMA JoinedIs ==
  ASSUME NEW bytes \in Seq(Byte)
  PROVE  Joined(bytes) \subseteq Nat /\ (Len(bytes) <= 4 => Joined(bytes) \in WordType)
<1>1. ASSUME NEW x \in Joined(bytes)
      PROVE  x \in Nat /\ (Len(bytes) <= 4 => x \in 0 .. 31)
  <2>1. PICK i \in 1 .. Len(bytes) : x \in {8 * (i - 1) + b : b \in bytes[i]}
    BY DEF Joined
  <2>2. PICK b \in bytes[i] : x = 8 * (i - 1) + b
    BY <2>1
  <2>3. bytes[i] \in Byte
    BY <2>1
  <2>4. b \in 0 .. 7
    BY <2>2, <2>3 DEF Byte
  <2> QED BY <2>1, <2>2, <2>4
<1> QED BY <1>1 DEF WordType

LEMMA RequestMade ==
  ASSUME NEW p, Fits(p), NEW b, Complete(p, b)
  PROVE  RequestOf(p) \in Made
<1>1. /\ p.payload \in Seq(Byte) /\ Len(p.payload) = p.len /\ p.len \in {5, 13}
      /\ p.type # READ_REQ => p.len = 13
  BY DEF Complete, len_ok, Fits, Parsers, WriteLength, ReadLength
<1>2. ASSUME NEW i \in 1 .. 13, NEW j \in 1 .. 13, i <= j, j <= p.len
      PROVE  Field(p, i, j) \subseteq Nat /\ (j - i <= 3 => Field(p, i, j) \in WordType)
  <2> DEFINE part == SubSeq(p.payload, i, j)
  <2>1. part \in Seq(Byte) /\ Len(part) = (j - i) + 1
    BY <1>1, <1>2
  <2> HIDE DEF part
  <2>2. Joined(part) \subseteq Nat /\ (Len(part) <= 4 => Joined(part) \in WordType)
    BY <2>1, JoinedIs
  <2> QED BY <2>1, <2>2 DEF Field, part
<1>3. /\ Field(p, 1, 2) \subseteq Nat /\ Field(p, 3, 4) \subseteq Nat
      /\ Field(p, 5, 5) \subseteq Nat
  BY <1>1, <1>2
<1>4. ASSUME p.type = WRITE_REQ
      PROVE  Field(p, 6, 9) \in WordType /\ Field(p, 10, 13) \subseteq Nat
  <2>1. p.len = 13
    BY <1>1, <1>4 DEF READ_REQ, WRITE_REQ
  <2> QED BY <1>2, <2>1
<1>5. {} \in WordType
  BY DEF WordType
<1> QED BY <1>3, <1>4, <1>5 DEF RequestOf, Made

-----------------------------------------------------------------------------
(* What the registers hold.                                                *)
Verdicts == {"OK", "BAD_ADDR", "BAD_LEN", "DENIED", "BAD_VALUE"}
Responses == [status : Verdicts, old : WordType, new : WordType]
Headers == [seq : SUBSET Nat, addr : SUBSET Nat, write : BOOLEAN]
Answers ==
  [seq : SUBSET Nat, addr : SUBSET Nat, write : BOOLEAN, status : Verdicts, old : WordType,
   new : WordType]
Banks ==
  [control : WordType, demo_period : WordType, profiler_status : WordType,
   clear_counters_pulse : BOOLEAN]

KindsInv ==
  /\ line \in Seq(Byte) /\ Fits(parser)
  /\ request = none \/ request \in Made
  /\ bank = none \/ bank \in Responses
  /\ pending \in Headers
  /\ resp = none \/ resp \in Answers
  /\ msg = none \/ msg \in Answers
  /\ registers \in Banks

LEMMA NoneIsNone == none \notin Made /\ none \notin Answers /\ none \notin Responses
BY DEF none, Made, Answers, Responses

LEMMA Addresses ==
  /\ CONTROL # DEMO_PERIOD /\ CONTROL # ID /\ DEMO_PERIOD # ID
  /\ PROFILER_STATUS \notin {ID, CONTROL, DEMO_PERIOD}
  /\ CLEAR_COUNTERS \notin {ID, CONTROL, DEMO_PERIOD, PROFILER_STATUS}
<1>1. /\ 3 \in CONTROL /\ 4 \notin CONTROL /\ 3 \notin DEMO_PERIOD /\ 4 \in DEMO_PERIOD
      /\ 2 \in PROFILER_STATUS /\ 2 \notin CLEAR_COUNTERS /\ 2 \notin CONTROL
      /\ 2 \notin DEMO_PERIOD /\ 3 \in CLEAR_COUNTERS /\ 4 \in CLEAR_COUNTERS /\ ID = {}
  BY DEF ID, CONTROL, DEMO_PERIOD, CLEAR_COUNTERS, PROFILER_STATUS
<1> QED BY <1>1

(* The register bank, for a request that was made.                         *)
LEMMA BankKinds ==
  ASSUME registers \in Banks, NEW r \in Made, NEW set \in Raises
  PROVE  /\ status(set, r) \in Verdicts /\ old_value(set, r) \in WordType
         /\ new_value(set, r) \in WordType
         /\ Rested(set) \in Banks /\ Carried(set, r) \in Banks
<1>1. /\ registers.control \in WordType /\ registers.demo_period \in WordType
      /\ registers.profiler_status \in WordType /\ set \in WordType
      /\ r.write \in BOOLEAN /\ r.wdata \in WordType
  BY MonitorAssumption DEF Banks, Made
<1>2. ID_VALUE \in WordType /\ {} \in WordType
  BY DEF ID_VALUE, Word, WordType
<1>3. old_value(set, r) \in WordType
  <2>1. registers.profiler_status \cup set \in WordType
    BY <1>1 DEF WordType
  <2> QED BY <1>1, <1>2, <2>1 DEF old_value
<1>4. masked(set, r) \in WordType
  BY <1>1, <1>3 DEF masked, WordType
<1>5. old_value(set, r) \ r.wdata \in WordType
  BY <1>3 DEF WordType
<1>6. new_value(set, r) \in WordType
  BY <1>2, <1>3, <1>4, <1>5 DEF new_value
<1>7. status(set, r) \in Verdicts
  BY DEF status, Verdicts
<1>8. Rested(set) \in Banks
  <2>1. registers.profiler_status \cup set \in WordType
    BY <1>1 DEF WordType
  <2> QED BY <1>1, <2>1 DEF Rested, Banks
<1>9. Carried(set, r) \in Banks
  <2>1. CASE ~r.write \/ status(set, r) # "OK"
    BY <1>8, <2>1 DEF Carried
  <2>2. CASE r.write /\ status(set, r) = "OK"
    <3>1. r.addr \in {CONTROL, DEMO_PERIOD, CLEAR_COUNTERS, PROFILER_STATUS}
      BY <2>2 DEF status, is_known, is_writable
    <3>2. new_value(set, r) \cup set \in WordType
      BY <1>1, <1>6 DEF WordType
    <3> DEFINE rest == Rested(set)
    <3>3. /\ [rest EXCEPT !.control = new_value(set, r)] \in Banks
          /\ [rest EXCEPT !.demo_period = new_value(set, r)] \in Banks
          /\ [rest EXCEPT !.clear_counters_pulse = r.wdata # {}] \in Banks
          /\ [rest EXCEPT !.profiler_status = new_value(set, r) \cup set] \in Banks
      <4> HIDE DEF rest
      <4>1. rest \in Banks
        BY <1>8 DEF rest
      <4> QED BY <1>6, <3>2, <4>1 DEF Banks
    <3>4. \/ Carried(set, r) = [rest EXCEPT !.control = new_value(set, r)]
          \/ Carried(set, r) = [rest EXCEPT !.demo_period = new_value(set, r)]
          \/ Carried(set, r) = [rest EXCEPT !.clear_counters_pulse = r.wdata # {}]
          \/ Carried(set, r) = [rest EXCEPT !.profiler_status = new_value(set, r) \cup set]
      BY <2>2, <3>1, Addresses DEF Carried
    <3> QED BY <3>3, <3>4
  <2> QED BY <1>1, <2>1, <2>2
<1> QED BY <1>3, <1>6, <1>7, <1>8, <1>9

LEMMA KindsInit == Init => KindsInv
<1> SUFFICES ASSUME Init PROVE KindsInv
  OBVIOUS
<1>1. line \in Seq(Byte) /\ Fits(parser)
  BY WaitingFits DEF Init
<1>2. registers \in Banks
  <2>1. DEFAULT_DEMO_PERIOD \in WordType /\ {} \in WordType
    BY DEF DEFAULT_DEMO_PERIOD, Word, WordType
  <2> QED BY <2>1 DEF Init, Banks
<1> QED BY <1>1, <1>2 DEF Init, KindsInv, Headers

LEMMA KindsStep == KindsInv /\ [Next]_vars => KindsInv'
<1> SUFFICES ASSUME KindsInv, [Next]_vars PROVE KindsInv'
  OBVIOUS
<1>1. CASE Send
  <2>1. PICK kind \in Catalog, whole \in BOOLEAN :
          LET raw == Frame(Numbered(kind, Len(sent) + 1))
          IN line' \in (IF whole THEN {raw} ELSE Hurt(raw) \ {raw})
    BY <1>1 DEF Send
  <2>2. Numbered(kind, Len(sent) + 1).write \in BOOLEAN
    BY MonitorAssumption DEF Numbered
  <2>3. line' \in Seq(Byte)
    BY <2>1, <2>2, FrameIsBytes, HurtIsBytes
  <2> QED BY <1>1, <2>3 DEF Send, KindsInv
<1>2. CASE Edge
  <2>1. PICK arrives \in BOOLEAN, ready \in BOOLEAN, set \in Raises :
          /\ arrives => line # <<>>
          /\ ParserEdge(arrives, ready) /\ BankEdge(ready, set) /\ CoreEdge(ready)
          /\ AdapterEdge(ready)
    BY <1>2 DEF Edge
  <2>2. line' \in Seq(Byte)
    BY <2>1 DEF ParserEdge, KindsInv
  <2> DEFINE b == IF arrives THEN Head(line) ELSE {}
             reads == arrives /\ ~pending_block(ready)
  <2>3. b \in Byte
    BY <2>1, Symbols DEF KindsInv
  <2>4. /\ parser' = IF reads THEN Parsed(parser, b) ELSE parser
        /\ request' = IF reads /\ Complete(parser, b) THEN RequestOf(parser)
                      ELSE IF taken(ready) THEN none ELSE request
    BY <2>1 DEF ParserEdge
  <2> HIDE DEF b, reads
  <2>5. Fits(parser')
    BY <2>3, <2>4, ParsedFits DEF KindsInv
  <2>6. request' = none \/ request' \in Made
    BY <2>4, RequestMade DEF KindsInv
  <2>7. (bank' = none \/ bank' \in Responses) /\ registers' \in Banks
    <3>1. CASE taken(ready)
      <4>1. request \in Made
        BY <3>1 DEF taken, KindsInv
      <4>2. /\ bank' = [status |-> status(set, request), old |-> old_value(set, request),
                        new |-> new_value(set, request)]
            /\ registers' = Carried(set, request)
        BY <2>1, <3>1 DEF BankEdge
      <4> QED BY <4>1, <4>2, BankKinds DEF KindsInv, Responses
    <3>2. CASE ~taken(ready)
      <4>1. Rested(set) \in Banks
        <5>1. registers \in Banks /\ set \in WordType
          BY MonitorAssumption DEF KindsInv
        <5>2. registers.profiler_status \cup set \in WordType
          BY <5>1 DEF Banks, WordType
        <5> QED BY <5>1, <5>2 DEF Rested, Banks
      <4> QED BY <2>1, <3>2, <4>1 DEF BankEdge, KindsInv
    <3> QED BY <3>1, <3>2
  <2>8. pending' \in Headers
    BY <2>1 DEF CoreEdge, KindsInv, taken, Header, Headers, Made
  <2>9. resp' = none \/ resp' \in Answers
    <3>1. bank # none => Answer(pending, bank) \in Answers
      BY DEF KindsInv, Answer, Answers, Responses, Headers
    <3> QED BY <2>1, <3>1 DEF CoreEdge, KindsInv
  <2>10. msg' = none \/ msg' \in Answers
    BY <2>1 DEF AdapterEdge, KindsInv
  <2> QED BY <2>2, <2>5, <2>6, <2>7, <2>8, <2>9, <2>10 DEF KindsInv
<1>3. CASE UNCHANGED vars
  BY <1>3 DEF KindsInv, vars
<1> QED BY <1>1, <1>2, <1>3 DEF Next

LEMMA Kinds == Spec => []KindsInv
BY KindsInit, KindsStep, PTL DEF Spec

(* The payload never outgrows its register, whatever bytes arrive in       *)
(* whatever order, and every register holds a value of its width.          *)
THEOREM TypeCorrect == Spec => []TypeOK
<1>1. KindsInv => TypeOK
  <2> SUFFICES ASSUME KindsInv PROVE TypeOK
    OBVIOUS
  <2>1. /\ parser.state \in ParserStates /\ parser.type \in Byte /\ parser.checksum \in Byte
        /\ parser.len \in 0 .. PayloadRegister
    BY DEF KindsInv, Fits, Parsers
  <2>2. /\ parser.state = "PAYLOAD" => Len(parser.payload) < parser.len
        /\ parser.state = "CHECKSUM" => Len(parser.payload) = parser.len
    BY DEF KindsInv, Fits
  <2>3. parser.len <= PayloadRegister
    BY <2>1 DEF PayloadRegister
  <2> QED BY <2>1, <2>2, <2>3 DEF KindsInv, TypeOK, ParserStates, Banks
<1> QED BY <1>1, Kinds, PTL

-----------------------------------------------------------------------------
(* Short sequences, spelled out.                                           *)
LEMMA IsPair ==
  ASSUME NEW S, NEW s \in Seq(S), NEW a \in S, NEW b \in S, Len(s) = 2, s[1] = a, s[2] = b
  PROVE  s = <<a, b>>
<1> DEFINE t == <<a, b>>
<1>1. t \in Seq(S) /\ Len(t) = 2 /\ t[1] = a /\ t[2] = b
  OBVIOUS
<1>2. s = [i \in 1 .. 2 |-> s[i]] /\ t = [i \in 1 .. 2 |-> t[i]]
  BY <1>1
<1> HIDE DEF t
<1>3. \A i \in 1 .. 2 : i = 1 \/ i = 2
  OBVIOUS
<1>4. \A i \in 1 .. 2 : s[i] = t[i]
  BY <1>1, <1>3
<1>5. s = t
  BY <1>2, <1>4
<1> QED BY <1>5 DEF t

LEMMA IsTriple ==
  ASSUME NEW S, NEW s \in Seq(S), NEW a \in S, NEW b \in S, NEW c \in S,
         Len(s) = 3, s[1] = a, s[2] = b, s[3] = c
  PROVE  s = <<a, b, c>>
<1> DEFINE t == <<a, b, c>>
<1>1. t \in Seq(S) /\ Len(t) = 3 /\ t[1] = a /\ t[2] = b /\ t[3] = c
  OBVIOUS
<1>2. s = [i \in 1 .. 3 |-> s[i]] /\ t = [i \in 1 .. 3 |-> t[i]]
  BY <1>1
<1> HIDE DEF t
<1>3. \A i \in 1 .. 3 : i = 1 \/ i = 2 \/ i = 3
  OBVIOUS
<1>4. \A i \in 1 .. 3 : s[i] = t[i]
  BY <1>1, <1>3
<1>5. s = t
  BY <1>2, <1>4
<1> QED BY <1>5 DEF t

LEMMA Singles ==
  ASSUME NEW a, NEW b, NEW c
  PROVE  /\ <<a>> \o <<b>> = <<a, b>> /\ <<a, b>> \o <<c>> = <<a, b, c>>
         /\ Append(<<>>, a) = <<a>> /\ Append(<<a>>, b) = <<a, b>>
         /\ Append(<<a, b>>, c) = <<a, b, c>>
<1> DEFINE S == {a, b, c}
<1>1. /\ <<a>> \in Seq(S) /\ <<b>> \in Seq(S) /\ <<c>> \in Seq(S) /\ <<a, b>> \in Seq(S)
      /\ a \in S /\ b \in S /\ c \in S
      /\ Len(<<a>>) = 1 /\ Len(<<b>>) = 1 /\ Len(<<c>>) = 1 /\ Len(<<a, b>>) = 2
  OBVIOUS
<1>2. <<a>> \o <<b>> = <<a, b>>
  <2> DEFINE s == <<a>> \o <<b>>
  <2>1. s \in Seq(S) /\ Len(s) = 2 /\ s[1] = a /\ s[2] = b
    BY <1>1
  <2> HIDE DEF s, S
  <2>2. s = <<a, b>>
    BY <1>1, <2>1, IsPair
  <2> QED BY <2>2 DEF s
<1>3. <<a, b>> \o <<c>> = <<a, b, c>>
  <2> DEFINE s == <<a, b>> \o <<c>>
  <2>1. s \in Seq(S) /\ Len(s) = 3 /\ s[1] = a /\ s[2] = b /\ s[3] = c
    BY <1>1
  <2> HIDE DEF s, S
  <2>2. s = <<a, b, c>>
    BY <1>1, <2>1, IsTriple
  <2> QED BY <2>2 DEF s
<1>4. Append(<<a, b>>, c) = <<a, b, c>>
  <2> DEFINE s == Append(<<a, b>>, c)
  <2>1. s \in Seq(S) /\ Len(s) = 3 /\ s[1] = a /\ s[2] = b /\ s[3] = c
    BY <1>1
  <2> HIDE DEF s, S
  <2>2. s = <<a, b, c>>
    BY <1>1, <2>1, IsTriple
  <2> QED BY <2>2 DEF s
<1>5. Append(<<>>, a) = <<a>>
  OBVIOUS
<1>6. Append(<<a>>, b) = <<a, b>>
  <2> DEFINE s == Append(<<a>>, b)
  <2>1. s \in Seq(S) /\ Len(s) = 2 /\ s[1] = a /\ s[2] = b
    BY <1>1
  <2> HIDE DEF s, S
  <2>2. s = <<a, b>>
    BY <1>1, <2>1, IsPair
  <2> QED BY <2>2 DEF s
<1> QED BY <1>2, <1>3, <1>4, <1>5, <1>6

(* The path as a register file.  What waits in registers m, r and b, the   *)
(* oldest in m:                                                            *)
Lined(m, r, b, last) ==
  IF m # none
  THEN IF r # none THEN IF b # none THEN <<m, r, last>> ELSE <<m, r>>
       ELSE IF b # none THEN <<m, last>> ELSE <<m>>
  ELSE IF r # none THEN IF b # none THEN <<r, last>> ELSE <<r>>
       ELSE IF b # none THEN <<last>> ELSE <<>>

LEMMA Waits == InFlight = Lined(msg, resp, bank, Answer(pending, bank))
<1> DEFINE last == Answer(pending, bank)
<1> HIDE DEF last
<1>1. InFlight = (IF msg # none THEN <<msg>> ELSE <<>>) \o (IF resp # none THEN <<resp>> ELSE <<>>)
                   \o (IF bank # none THEN <<last>> ELSE <<>>)
  BY DEF InFlight, last
<1>2. \A a, b, c :
        /\ <<a>> \o <<b>> = <<a, b>> /\ <<a, b>> \o <<c>> = <<a, b, c>>
        /\ <<a>> \o <<>> = <<a>> /\ <<>> \o <<a>> = <<a>>
        /\ <<>> \o <<>> = <<>> /\ <<a, b>> \o <<>> = <<a, b>>
  <2> TAKE a, b, c
  <2>1. <<a>> \o <<b>> = <<a, b>> /\ <<a, b>> \o <<c>> = <<a, b, c>>
    BY Singles
  <2> DEFINE S == {a, b}
  <2>2. <<a, b>> \in Seq(S) /\ <<a>> \in Seq(S) /\ <<>> \in Seq(S)
    OBVIOUS
  <2>3. <<a, b>> \o <<>> = <<a, b>>
    <3> DEFINE t == <<a, b>>
    <3> HIDE DEF t, S
    <3>1. t \in Seq(S)
      BY <2>2 DEF t
    <3>2. t \o <<>> = t
      BY <3>1
    <3> QED BY <3>2 DEF t
  <2> QED BY <2>1, <2>3
<1> HIDE DEF InFlight
<1>3. CASE msg # none /\ resp # none
  <2>1. InFlight = <<msg, resp>> \o (IF bank # none THEN <<last>> ELSE <<>>)
    BY <1>1, <1>2, <1>3
  <2>2. CASE bank # none
    BY <1>2, <1>3, <2>1, <2>2 DEF Lined, last
  <2>3. CASE bank = none
    BY <1>2, <1>3, <2>1, <2>3 DEF Lined
  <2> QED BY <2>2, <2>3
<1>4. CASE msg # none /\ resp = none
  <2>1. InFlight = <<msg>> \o (IF bank # none THEN <<last>> ELSE <<>>)
    BY <1>1, <1>2, <1>4
  <2>2. CASE bank # none
    BY <1>2, <1>4, <2>1, <2>2 DEF Lined, last
  <2>3. CASE bank = none
    BY <1>2, <1>4, <2>1, <2>3 DEF Lined
  <2> QED BY <2>2, <2>3
<1>5. CASE msg = none /\ resp # none
  <2>1. InFlight = <<resp>> \o (IF bank # none THEN <<last>> ELSE <<>>)
    BY <1>1, <1>2, <1>5
  <2>2. CASE bank # none
    BY <1>2, <1>5, <2>1, <2>2 DEF Lined, last
  <2>3. CASE bank = none
    BY <1>2, <1>5, <2>1, <2>3 DEF Lined
  <2> QED BY <2>2, <2>3
<1>6. CASE msg = none /\ resp = none
  <2>1. InFlight = <<>> \o (IF bank # none THEN <<last>> ELSE <<>>)
    BY <1>1, <1>2, <1>6
  <2>2. CASE bank # none
    BY <1>2, <1>6, <2>1, <2>2 DEF Lined, last
  <2>3. CASE bank = none
    BY <1>2, <1>6, <2>1, <2>3 DEF Lined
  <2> QED BY <2>2, <2>3
<1> QED BY <1>3, <1>4, <1>5, <1>6

LEMMA WaitsNext == InFlight' = Lined(msg', resp', bank', Answer(pending', bank'))
<1>1. (InFlight = Lined(msg, resp, bank, Answer(pending, bank)))'
  BY Waits, PTL
<1> QED BY <1>1

(* At an edge the oldest leaves if the debug core is ready, the others     *)
(* move up, and what the bank has taken joins them as the last: m1, r1 and *)
(* b1 are the registers after the edge.                                    *)
Leaving(m, ready, waiting) == IF m # none /\ ready THEN Tail(waiting) ELSE waiting
Advances(before, after, m, ready, takes, last1) ==
  /\ ~takes => after = Leaving(m, ready, before)
  /\ takes => after = Append(Leaving(m, ready, before), last1)
  /\ m # none => before # <<>>

Shift(m, r, b, last, m1, r1, b1, last1, ready, takes) ==
  /\ last # none
  /\ m1 = IF r # none /\ (m = none \/ ready) THEN r ELSE IF ready THEN none ELSE m
  /\ r1 = IF b # none /\ (r = none \/ m = none \/ ready) THEN last
          ELSE IF m = none \/ ready THEN none ELSE r
  /\ takes => b1 # none /\ (b = none \/ r = none \/ m = none \/ ready)
  /\ ~takes => b1 = IF r = none \/ m = none \/ ready THEN none ELSE b
  /\ ~takes /\ b1 # none => last1 = last

LEMMA Moves ==
  ASSUME NEW m, NEW r, NEW b, NEW last, NEW m1, NEW r1, NEW b1, NEW last1,
         NEW ready \in BOOLEAN, NEW takes \in BOOLEAN,
         Shift(m, r, b, last, m1, r1, b1, last1, ready, takes)
  PROVE  Advances(Lined(m, r, b, last), Lined(m1, r1, b1, last1), m, ready, takes, last1)
<1>1. \A x, y, z :
        /\ Append(<<>>, x) = <<x>> /\ Append(<<x>>, y) = <<x, y>>
        /\ Append(<<x, y>>, z) = <<x, y, z>>
  BY Singles
<1>2. \A x, y, z : Tail(<<x>>) = <<>> /\ Tail(<<x, y>>) = <<y>> /\ Tail(<<x, y, z>>) = <<y, z>>
  OBVIOUS
<1>3. m # none => Lined(m, r, b, last) # <<>>
  BY DEF Lined
<1>4. CASE m = none
  BY <1>1, <1>3, <1>4 DEF Shift, Advances, Leaving, Lined
<1>5. CASE m # none /\ ready
  <2>1. CASE r = none /\ b = none
    BY <1>1, <1>2, <1>3, <1>5, <2>1 DEF Shift, Advances, Leaving, Lined
  <2>2. CASE r = none /\ b # none
    BY <1>1, <1>2, <1>3, <1>5, <2>2 DEF Shift, Advances, Leaving, Lined
  <2>3. CASE r # none /\ b = none
    BY <1>1, <1>2, <1>3, <1>5, <2>3 DEF Shift, Advances, Leaving, Lined
  <2>4. CASE r # none /\ b # none
    BY <1>1, <1>2, <1>3, <1>5, <2>4 DEF Shift, Advances, Leaving, Lined
  <2> QED BY <2>1, <2>2, <2>3, <2>4
<1>6. CASE m # none /\ ~ready
  BY <1>1, <1>3, <1>6 DEF Shift, Advances, Leaving, Lined
<1> QED BY <1>4, <1>5, <1>6

LEMMA LinedIsShort ==
  ASSUME NEW m, NEW r, NEW b, NEW last
  PROVE  Len(Lined(m, r, b, last)) <= 3
<1>1. \A x, y, z : Len(<<>>) = 0 /\ Len(<<x>>) = 1 /\ Len(<<x, y>>) = 2 /\ Len(<<x, y, z>>) = 3
  OBVIOUS
<1> QED BY <1>1 DEF Lined

LEMMA AnswersMove ==
  ASSUME NEW ready \in BOOLEAN, NEW set, BankEdge(ready, set), CoreEdge(ready), AdapterEdge(ready)
  PROVE  /\ ~taken(ready) => InFlight' = Leaving(msg, ready, InFlight)
         /\ taken(ready) => InFlight' = Append(Leaving(msg, ready, InFlight),
                                              Answer(Header(request), bank'))
         /\ msg # none => InFlight # <<>>
         /\ Len(InFlight') <= 3
<1> DEFINE last == Answer(pending, bank)
           last1 == Answer(pending', bank')
<1>1. last # none
  BY DEF Answer, none
<1>2. /\ InFlight = Lined(msg, resp, bank, last)
      /\ InFlight' = Lined(msg', resp', bank', last1)
  BY Waits, WaitsNext
<1>3. taken(ready) => /\ bank' # none
                      /\ bank = none \/ resp = none \/ msg = none \/ ready
  <2>1. \A s, o, n : [status |-> s, old |-> o, new |-> n] # none
    BY DEF none
  <2> QED BY <2>1 DEF BankEdge, taken, req_ready, bank_resp_ready, resp_ready
<1>4. ~taken(ready) => bank' = IF resp = none \/ msg = none \/ ready THEN none ELSE bank
  BY DEF BankEdge, bank_resp_ready, resp_ready
<1>5. ~taken(ready) /\ bank' # none => last1 = last
  BY <1>4 DEF CoreEdge
<1>6. taken(ready) => last1 = Answer(Header(request), bank')
  BY DEF CoreEdge
<1>7. resp' = IF bank # none /\ (resp = none \/ msg = none \/ ready) THEN last
              ELSE IF msg = none \/ ready THEN none ELSE resp
  BY DEF CoreEdge, bank_resp_ready, resp_ready
<1>8. msg' = IF resp # none /\ (msg = none \/ ready) THEN resp
             ELSE IF ready THEN none ELSE msg
  BY DEF AdapterEdge, resp_ready
<1> HIDE DEF last, last1
<1>9. /\ ~taken(ready) => InFlight' = Leaving(msg, ready, InFlight)
      /\ taken(ready) => InFlight' = Append(Leaving(msg, ready, InFlight), last1)
      /\ msg # none => InFlight # <<>>
  <2> DEFINE takes == taken(ready)
  <2>1. takes \in BOOLEAN
    BY DEF taken
  <2> HIDE DEF takes
  <2>2. takes <=> taken(ready)
    BY DEF takes
  <2>3. Advances(Lined(msg, resp, bank, last), Lined(msg', resp', bank', last1), msg, ready,
                 takes, last1)
    <3> DEFINE m1 == msg'
               r1 == resp'
               b1 == bank'
    <3>1. m1 = IF resp # none /\ (msg = none \/ ready) THEN resp ELSE IF ready THEN none ELSE msg
      BY <1>8
    <3>2. r1 = IF bank # none /\ (resp = none \/ msg = none \/ ready) THEN last
               ELSE IF msg = none \/ ready THEN none ELSE resp
      BY <1>7
    <3>3. takes => b1 # none /\ (bank = none \/ resp = none \/ msg = none \/ ready)
      BY <1>3, <2>2
    <3>4. ~takes => b1 = IF resp = none \/ msg = none \/ ready THEN none ELSE bank
      BY <1>4, <2>2
    <3>5. ~takes /\ b1 # none => last1 = last
      BY <1>5, <2>2
    <3> HIDE DEF m1, r1, b1
    <3>6. Shift(msg, resp, bank, last, m1, r1, b1, last1, ready, takes)
      BY <1>1, <3>1, <3>2, <3>3, <3>4, <3>5 DEF Shift
    <3>7. Advances(Lined(msg, resp, bank, last), Lined(m1, r1, b1, last1), msg, ready, takes, last1)
      BY <2>1, <3>6, Moves
    <3> QED BY <3>7 DEF m1, r1, b1
  <2> QED BY <1>2, <2>2, <2>3 DEF Advances
<1>10. Len(InFlight') <= 3
  BY <1>2, LinedIsShort
<1> QED BY <1>6, <1>9, <1>10

-----------------------------------------------------------------------------
(* The verdict of the bank, what it finds and what it mixes are those of   *)
(* the register file.                                                      *)
LEMMA BankAgrees ==
  ASSUME registers \in Banks, request \in Made, NEW set
  PROVE  /\ Promise!Found(request, set) = old_value(set, request)
         /\ request.addr \in {CONTROL, DEMO_PERIOD} => Promise!Mixed(request) = masked(set, request)
         /\ Promise!Verdict(request) = status(set, request)
<1>1. Promise!Found(request, set) = old_value(set, request)
  BY Addresses DEF Promise!Found, old_value
<1>2. request.addr \in {CONTROL, DEMO_PERIOD} => Promise!Mixed(request) = masked(set, request)
  BY Addresses DEF Promise!Mixed, masked, old_value
<1>3. Promise!Known(request) <=> is_known(request)
  BY DEF Promise!Known, is_known
<1>4. request.addr \in DOMAIN [a \in {ID} |-> ID_VALUE] <=> request.addr = ID
  OBVIOUS
<1>5. is_known(request) => (is_writable(request) <=> request.addr # ID)
  BY DEF is_writable
<1>6. Promise!Verdict(request) = status(set, request)
  <2>1. CASE ~is_known(request)
    <3>1. request.addr # ID /\ request.addr # DEMO_PERIOD
      BY <2>1 DEF is_known
    <3> QED BY <1>3, <1>4, <2>1, <3>1 DEF Promise!Verdict, status
  <2>2. CASE is_known(request) /\ request.width # FullWidth
    BY <1>3, <2>2, Addresses DEF Promise!Verdict, status
  <2>3. CASE is_known(request) /\ request.width = FullWidth /\ request.write
    <3>1. CASE request.addr = ID
      BY <1>3, <1>4, <1>5, <2>3, <3>1, Addresses DEF Promise!Verdict, status
    <3>2. CASE request.addr = DEMO_PERIOD
      BY <1>2, <1>3, <1>4, <1>5, <2>3, <3>2, Addresses DEF Promise!Verdict, status
    <3>3. CASE request.addr \notin {ID, DEMO_PERIOD}
      BY <1>3, <1>4, <1>5, <2>3, <3>3, Addresses DEF Promise!Verdict, status
    <3> QED BY <3>1, <3>2, <3>3
  <2>4. CASE is_known(request) /\ request.width = FullWidth /\ ~request.write
    BY <1>3, <2>4, Addresses DEF Promise!Verdict, status
  <2> QED BY <2>1, <2>2, <2>3, <2>4
<1> QED BY <1>1, <1>2, <1>6

(* An edge at which no request is taken is a rest of the register file:    *)
(* nothing is read into the request that waits.                            *)
LEMMA EdgeRests ==
  ASSUME KindsInv, NEW arrives \in BOOLEAN, NEW ready \in BOOLEAN, NEW set \in Raises,
         ParserEdge(arrives, ready), BankEdge(ready, set), CoreEdge(ready), AdapterEdge(ready),
         ~taken(ready), NEW leaves \in BOOLEAN, leaves <=> (msg # none /\ ready)
  PROVE  Promise!Rest(set, leaves)
<1>1. request # none => request' = request
  BY DEF ParserEdge, pending_block, taken
<1>2. registers' = Rested(set)
  BY DEF BankEdge
<1>3. /\ registers'.profiler_status = registers.profiler_status \cup set
      /\ registers'.clear_counters_pulse = FALSE
      /\ registers'.control = registers.control
      /\ registers'.demo_period = registers.demo_period
  BY <1>2 DEF Rested, KindsInv, Banks
<1>4. InFlight' = Leaving(msg, ready, InFlight)
  BY AnswersMove
<1>5. InFlight' = Promise!Left(leaves)
  BY <1>4 DEF Promise!Left, Leaving
<1> QED BY <1>1, <1>3, <1>5 DEF Promise!Rest

(* What the registers and the answer become when a request is taken.       *)
LEMMA EdgeAnswers ==
  ASSUME KindsInv, NEW arrives \in BOOLEAN, NEW ready \in BOOLEAN, NEW set \in Raises,
         ParserEdge(arrives, ready), BankEdge(ready, set), CoreEdge(ready), AdapterEdge(ready),
         taken(ready), NEW new, new = new_value(set, request),
         NEW leaves \in BOOLEAN, leaves <=> (msg # none /\ ready)
  PROVE  Promise!Answered(set, leaves, new)
<1>1. request \in Made /\ registers \in Banks
  BY DEF taken, KindsInv
<1>2. bank' = [status |-> status(set, request), old |-> old_value(set, request),
               new |-> new_value(set, request)]
  BY DEF BankEdge
<1>3. Answer(Header(request), bank') =
        [seq |-> request.seq, addr |-> request.addr, write |-> request.write,
         status |-> Promise!Verdict(request), old |-> Promise!Found(request, set), new |-> new]
  BY <1>1, <1>2, BankAgrees DEF Answer, Header
<1>4. InFlight' = Append(Leaving(msg, ready, InFlight), Answer(Header(request), bank'))
      /\ Len(InFlight') <= 3
  BY AnswersMove
<1>5. Promise!Left(leaves) = Leaving(msg, ready, InFlight)
  BY DEF Promise!Left, Leaving
<1> HIDE DEF InFlight
<1> QED BY <1>3, <1>4, <1>5 DEF Promise!Answered

(* An edge at which a request is taken carries it out at once.             *)
LEMMA EdgeActs ==
  ASSUME KindsInv, NEW arrives \in BOOLEAN, NEW ready \in BOOLEAN, NEW set \in Raises,
         ParserEdge(arrives, ready), BankEdge(ready, set), CoreEdge(ready), AdapterEdge(ready),
         taken(ready), NEW leaves \in BOOLEAN, leaves <=> (msg # none /\ ready)
  PROVE  \/ Promise!Look(set, leaves) \/ Promise!Put(set, leaves)
         \/ Promise!Clear(set, leaves) \/ Promise!Trigger(set, leaves)
<1>1. /\ request # none /\ request \in Made /\ registers \in Banks /\ request.write \in BOOLEAN
  BY DEF taken, KindsInv, Made
<1>2. registers' = Carried(set, request)
  BY DEF BankEdge
<1>3. Promise!Answered(set, leaves, new_value(set, request))
  BY EdgeAnswers
<1>4. /\ Promise!Found(request, set) = old_value(set, request)
      /\ request.addr \in {CONTROL, DEMO_PERIOD} => Promise!Mixed(request) = masked(set, request)
      /\ Promise!Verdict(request) = status(set, request)
  BY <1>1, BankAgrees
<1>5. Promise!Accepts <=> request.write /\ status(set, request) = "OK"
  BY <1>1, <1>4 DEF Promise!Accepts
<1>6. CASE ~Promise!Accepts
  <2>1. registers' = Rested(set)
    BY <1>2, <1>5, <1>6 DEF Carried
  <2>2. /\ registers'.profiler_status = registers.profiler_status \cup set
        /\ registers'.clear_counters_pulse = FALSE
        /\ registers'.control = registers.control
        /\ registers'.demo_period = registers.demo_period
    BY <1>1, <2>1 DEF Rested, Banks
  <2>3. new_value(set, request) = Promise!Found(request, set)
    BY <1>4, <1>5, <1>6 DEF new_value
  <2>4. Promise!Look(set, leaves)
    BY <1>1, <1>3, <1>6, <2>2, <2>3 DEF Promise!Look
  <2> QED BY <2>4
<1>7. CASE Promise!Accepts
  <2>1. request.write /\ status(set, request) = "OK"
    BY <1>5, <1>7
  <2>2. request.addr \in {CONTROL, DEMO_PERIOD, CLEAR_COUNTERS, PROFILER_STATUS}
    BY <2>1 DEF status, is_known, is_writable
  <2> DEFINE rest == Rested(set)
  <2>3. /\ rest.profiler_status = registers.profiler_status \cup set
        /\ rest.clear_counters_pulse = FALSE /\ rest.control = registers.control
        /\ rest.demo_period = registers.demo_period /\ rest \in Banks
    BY <1>1, BankKinds DEF Rested, Banks
  <2> HIDE DEF rest
  <2>4. CASE request.addr = CONTROL
    <3>1. registers' = [rest EXCEPT !.control = new_value(set, request)]
      BY <1>2, <2>1, <2>4, Addresses DEF Carried, rest
    <3>2. new_value(set, request) = Promise!Mixed(request)
      BY <1>4, <2>1, <2>4, Addresses DEF new_value
    <3>3. /\ registers'.profiler_status = registers.profiler_status \cup set
          /\ registers'.clear_counters_pulse = FALSE
          /\ registers'.control = Promise!Mixed(request)
          /\ registers'.demo_period = registers.demo_period
      BY <2>3, <3>1, <3>2 DEF Banks
    <3>4. Promise!Put(set, leaves)
      BY <1>3, <1>7, <2>4, <3>2, <3>3, Addresses DEF Promise!Put
    <3> QED BY <3>4
  <2>5. CASE request.addr = DEMO_PERIOD
    <3>1. registers' = [rest EXCEPT !.demo_period = new_value(set, request)]
      BY <1>2, <2>1, <2>5, Addresses DEF Carried, rest
    <3>2. new_value(set, request) = Promise!Mixed(request)
      BY <1>4, <2>1, <2>5, Addresses DEF new_value
    <3>3. /\ registers'.profiler_status = registers.profiler_status \cup set
          /\ registers'.clear_counters_pulse = FALSE
          /\ registers'.control = registers.control
          /\ registers'.demo_period = Promise!Mixed(request)
      BY <2>3, <3>1, <3>2 DEF Banks
    <3>4. Promise!Put(set, leaves)
      BY <1>3, <1>7, <2>5, <3>2, <3>3, Addresses DEF Promise!Put
    <3> QED BY <3>4
  <2>6. CASE request.addr = CLEAR_COUNTERS
    <3>1. registers' = [rest EXCEPT !.clear_counters_pulse = request.wdata # {}]
      BY <1>2, <2>1, <2>6, Addresses DEF Carried, rest
    <3>2. new_value(set, request) = {}
      BY <2>1, <2>6, Addresses DEF new_value
    <3>3. /\ registers'.profiler_status = registers.profiler_status \cup set
          /\ registers'.clear_counters_pulse = (request.wdata # {})
          /\ registers'.control = registers.control
          /\ registers'.demo_period = registers.demo_period
      BY <2>3, <3>1 DEF Banks
    <3>4. Promise!Trigger(set, leaves)
      BY <1>3, <1>7, <2>6, <3>2, <3>3 DEF Promise!Trigger
    <3> QED BY <3>4
  <2>7. CASE request.addr = PROFILER_STATUS
    <3>1. registers' = [rest EXCEPT !.profiler_status = new_value(set, request) \cup set]
      BY <1>2, <2>1, <2>7, Addresses DEF Carried, rest
    <3>2. /\ new_value(set, request) = Promise!Found(request, set) \ request.wdata
          /\ old_value(set, request) = registers.profiler_status \cup set
      BY <1>4, <2>1, <2>7, Addresses DEF new_value, old_value
    <3>3. /\ registers'.profiler_status = (registers.profiler_status \ request.wdata) \cup set
          /\ registers'.clear_counters_pulse = FALSE
          /\ registers'.control = registers.control
          /\ registers'.demo_period = registers.demo_period
      <4>1. new_value(set, request) \cup set = (registers.profiler_status \ request.wdata) \cup set
        BY <1>4, <3>2
      <4> QED BY <2>3, <3>1, <4>1 DEF Banks
    <3>4. Promise!Clear(set, leaves)
      BY <1>3, <1>7, <2>7, <3>2, <3>3 DEF Promise!Clear
    <3> QED BY <3>4
  <2> QED BY <2>2, <2>4, <2>5, <2>6, <2>7
<1> QED BY <1>6, <1>7

LEMMA FileStep == KindsInv /\ [Next]_vars => [Promise!Next]_(Promise!fileVars)
<1> SUFFICES ASSUME KindsInv, [Next]_vars PROVE [Promise!Next]_(Promise!fileVars)
  OBVIOUS
<1>1. CASE Send
  <2>1. UNCHANGED <<request, bank, pending, resp, msg, registers>>
    BY <1>1 DEF Send
  <2> QED BY <2>1 DEF Promise!fileVars, InFlight
<1>2. CASE Edge
  <2>1. PICK arrives \in BOOLEAN, ready \in BOOLEAN, set \in Raises :
          /\ ParserEdge(arrives, ready) /\ BankEdge(ready, set) /\ CoreEdge(ready)
          /\ AdapterEdge(ready)
    BY <1>2 DEF Edge
  <2>2. PICK leaves \in BOOLEAN : leaves <=> (msg # none /\ ready)
    OBVIOUS
  <2>3. leaves \in {l \in BOOLEAN : l => InFlight # <<>>}
    BY <2>1, <2>2, AnswersMove
  <2>4. \/ Promise!Rest(set, leaves) \/ Promise!Look(set, leaves) \/ Promise!Put(set, leaves)
        \/ Promise!Clear(set, leaves) \/ Promise!Trigger(set, leaves)
    BY <2>1, <2>2, EdgeRests, EdgeActs
  <2> HIDE DEF InFlight
  <2>5. Promise!Next
    BY <2>3, <2>4 DEF Promise!Next
  <2> QED BY <2>5
<1>3. CASE UNCHANGED vars
  BY <1>3 DEF vars, Promise!fileVars, InFlight
<1> QED BY <1>1, <1>2, <1>3 DEF Next

LEMMA FileInit == Init => Promise!Init
<1> SUFFICES ASSUME Init PROVE Promise!Init
  OBVIOUS
<1>1. InFlight = <<>>
  BY Waits DEF Init, Lined
<1>2. /\ registers.control = {} /\ registers.demo_period = DEFAULT_DEMO_PERIOD
      /\ registers.profiler_status = {} /\ registers.clear_counters_pulse = FALSE
      /\ request = none
  BY DEF Init
<1> HIDE DEF InFlight
<1> QED BY <1>1, <1>2 DEF Promise!Init

(* The refinement: every answer carries the number of its own request and  *)
(* what that request found and left, in the order of the requests, at most *)
(* three of them wait, and no flag is cleared that was not reported.       *)
THEOREM RegisterFileImplemented == Spec => ImplementsRegisterFile
<1>1. Init => Promise!Init
  BY FileInit
<1>2. KindsInv /\ [Next]_vars => [Promise!Next]_(Promise!fileVars)
  BY FileStep
<1> QED BY <1>1, <1>2, Kinds, PTL DEF Spec, ImplementsRegisterFile, Promise!Spec

-----------------------------------------------------------------------------
(* The bytes of a frame, one by one.                                       *)
LEMMA Cat ==
  ASSUME NEW a \in Seq(Byte), NEW b \in Seq(Byte)
  PROVE  /\ a \o b \in Seq(Byte) /\ Len(a \o b) = Len(a) + Len(b)
         /\ \A i \in 1 .. Len(a) : (a \o b)[i] = a[i]
         /\ \A i \in 1 .. Len(b) : (a \o b)[Len(a) + i] = b[i]
OBVIOUS

LEMMA BytesHave ==
  ASSUME NEW w, NEW n \in Nat
  PROVE  /\ Bytes(w, n) \in Seq(Byte) /\ Len(Bytes(w, n)) = n
         /\ \A i \in 1 .. n : Bytes(w, n)[i] = {b \in 0 .. 7 : 8 * (i - 1) + b \in w}
<1> DEFINE f == [i \in 1 .. n |-> {b \in 0 .. 7 : 8 * (i - 1) + b \in w}]
<1>1. Bytes(w, n) = f /\ f \in Seq(Byte)
  BY BytesAre DEF Bytes
<1>2. DOMAIN f = 1 .. n /\ \A i \in 1 .. n : f[i] = {b \in 0 .. 7 : 8 * (i - 1) + b \in w}
  OBVIOUS
<1> HIDE DEF f
<1>3. Len(f) = n
  BY <1>1, <1>2
<1> QED BY <1>1, <1>2, <1>3

(* A word is what its bytes tell.                                          *)
LEMMA JoinedBytes ==
  ASSUME NEW n \in Nat, NEW w, w \subseteq 0 .. 8 * n - 1, NEW s \in Seq(Byte), Len(s) = n,
         \A i \in 1 .. n : s[i] = Bytes(w, n)[i]
  PROVE  Joined(s) = w
<1>1. \A i \in 1 .. n : s[i] = {b \in 0 .. 7 : 8 * (i - 1) + b \in w}
  BY BytesHave
<1>2. ASSUME NEW x \in Joined(s) PROVE x \in w
  <2>1. PICK i \in 1 .. Len(s) : x \in {8 * (i - 1) + b : b \in s[i]}
    BY DEF Joined
  <2>2. PICK b \in s[i] : x = 8 * (i - 1) + b
    BY <2>1
  <2> QED BY <1>1, <2>1, <2>2
<1>3. ASSUME NEW x \in w PROVE x \in Joined(s)
  <2> DEFINE i == x \div 8 + 1
             b == x % 8
  <2>1. x \in 0 .. 8 * n - 1
    OBVIOUS
  <2>2. i \in 1 .. n /\ b \in 0 .. 7 /\ 8 * (i - 1) + b = x
    BY <2>1
  <2> HIDE DEF i, b
  <2>3. b \in s[i]
    BY <1>1, <2>2
  <2>4. x \in {8 * (i - 1) + c : c \in s[i]}
    BY <2>2, <2>3
  <2> QED BY <2>2, <2>4 DEF Joined
<1> QED BY <1>2, <1>3

(* A request that fits the fields of a frame.                              *)
Asked ==
  [seq : SUBSET (0 .. 15), addr : SUBSET (0 .. 15), width : {{0}, {1}, {2}}, write : BOOLEAN,
   wdata : WordType, wmask : WordType]
Fitting(r) == r \in Asked /\ (~r.write => r.wdata = {} /\ r.wmask = {})
Size(r) == IF r.write THEN 18 ELSE 10

LEMMA PartIs ==
  ASSUME NEW s \in Seq(Byte), NEW n \in Nat, NEW m \in Nat, m + n <= Len(s), NEW w,
         w \subseteq 0 .. 8 * n - 1, \A i \in 1 .. n : s[m + i] = Bytes(w, n)[i]
  PROVE  Joined(SubSeq(s, m + 1, m + n)) = w
<1>1. PICK part : part = SubSeq(s, m + 1, m + n)
  OBVIOUS
<1>2. part \in Seq(Byte) /\ Len(part) = n /\ \A i \in 1 .. n : part[i] = s[m + i]
  BY <1>1
<1>3. \A i \in 1 .. n : part[i] = Bytes(w, n)[i]
  BY <1>2
<1>4. Joined(part) = w
  <2>1. ASSUME NEW t \in Seq(Byte), Len(t) = n, \A i \in 1 .. n : t[i] = Bytes(w, n)[i]
        PROVE  Joined(t) = w
    BY <2>1, JoinedBytes, ZenonT(60)
  <2> QED BY <1>2, <1>3, <2>1
<1> QED BY <1>1, <1>4

LEMMA FrameHas ==
  ASSUME NEW r, Fitting(r)
  PROVE  LET raw == Frame(r)
             n == Size(r)
         IN /\ raw \in Seq(Byte) /\ Len(raw) = n
            /\ raw[1] = SOF /\ raw[2] = VERSION /\ raw[4] = ByteOf(n - 5)
            /\ raw[3] = IF r.write THEN WRITE_REQ ELSE READ_REQ
            /\ raw[n] = checksum(SubSeq(raw, 2, n - 1))
            /\ \A i \in 1 .. 2 : raw[4 + i] = Bytes(r.seq, 2)[i] /\ raw[6 + i] = Bytes(r.addr, 2)[i]
            /\ \A i \in 1 .. 1 : raw[8 + i] = Bytes(r.width, 1)[i]
            /\ r.write => \A i \in 1 .. 4 : /\ raw[9 + i] = Bytes(r.wdata, 4)[i]
                                            /\ raw[13 + i] = Bytes(r.wmask, 4)[i]
<1> DEFINE sq == Bytes(r.seq, 2)
           ad == Bytes(r.addr, 2)
           wi == Bytes(r.width, 1)
           wd == Bytes(r.wdata, 4)
           wm == Bytes(r.wmask, 4)
           sa == sq \o ad
           head == sa \o wi
           pre == IF r.write THEN <<VERSION, WRITE_REQ, ByteOf(WriteLength)>>
                  ELSE <<VERSION, READ_REQ, ByteOf(ReadLength)>>
           short == pre \o head
           longer == short \o wd
           body == IF r.write THEN longer \o wm ELSE short
           front == <<SOF>> \o body
           raw == front \o <<checksum(body)>>
           n == Size(r)
<1>0. raw = Frame(r)
  BY DEF Frame
<1>1. /\ sq \in Seq(Byte) /\ Len(sq) = 2 /\ ad \in Seq(Byte) /\ Len(ad) = 2
      /\ wi \in Seq(Byte) /\ Len(wi) = 1 /\ wd \in Seq(Byte) /\ Len(wd) = 4
      /\ wm \in Seq(Byte) /\ Len(wm) = 4
  BY BytesHave
<1>2. /\ pre \in Seq(Byte) /\ Len(pre) = 3 /\ pre[1] = VERSION /\ pre[3] = ByteOf(n - 5)
      /\ pre[2] = IF r.write THEN WRITE_REQ ELSE READ_REQ
  BY Symbols DEF WriteLength, ReadLength, Size
<1> HIDE DEF sq, ad, wi, wd, wm, pre
<1>3. /\ sa \in Seq(Byte) /\ Len(sa) = 4 /\ \A i \in 1 .. 2 : sa[i] = sq[i] /\ sa[2 + i] = ad[i]
  <2>1. /\ sq \o ad \in Seq(Byte) /\ Len(sq \o ad) = Len(sq) + Len(ad)
        /\ \A i \in 1 .. Len(sq) : (sq \o ad)[i] = sq[i]
        /\ \A i \in 1 .. Len(ad) : (sq \o ad)[Len(sq) + i] = ad[i]
    BY <1>1, Cat
  <2>2. sa = sq \o ad
    OBVIOUS
  <2> HIDE DEF sa
  <2> QED BY <1>1, <2>1, <2>2
<1> HIDE DEF sa
<1>4. /\ head \in Seq(Byte) /\ Len(head) = 5 /\ \A i \in 1 .. 4 : head[i] = sa[i]
      /\ \A i \in 1 .. 1 : head[4 + i] = wi[i]
  <2>1. /\ sa \o wi \in Seq(Byte) /\ Len(sa \o wi) = Len(sa) + Len(wi)
        /\ \A i \in 1 .. Len(sa) : (sa \o wi)[i] = sa[i]
        /\ \A i \in 1 .. Len(wi) : (sa \o wi)[Len(sa) + i] = wi[i]
    BY <1>1, <1>3, Cat
  <2>2. head = sa \o wi
    OBVIOUS
  <2> HIDE DEF head
  <2> QED BY <1>1, <1>3, <2>1, <2>2
<1> HIDE DEF head
<1>5. /\ short \in Seq(Byte) /\ Len(short) = 8 /\ \A i \in 1 .. 3 : short[i] = pre[i]
      /\ \A i \in 1 .. 5 : short[3 + i] = head[i]
  <2>1. /\ pre \o head \in Seq(Byte) /\ Len(pre \o head) = Len(pre) + Len(head)
        /\ \A i \in 1 .. Len(pre) : (pre \o head)[i] = pre[i]
        /\ \A i \in 1 .. Len(head) : (pre \o head)[Len(pre) + i] = head[i]
    BY <1>2, <1>4, Cat
  <2>2. short = pre \o head
    OBVIOUS
  <2> HIDE DEF short
  <2> QED BY <1>2, <1>4, <2>1, <2>2, SMTT(40)
<1> HIDE DEF short
<1>6. /\ longer \in Seq(Byte) /\ Len(longer) = 12 /\ \A i \in 1 .. 8 : longer[i] = short[i]
      /\ \A i \in 1 .. 4 : longer[8 + i] = wd[i]
  <2>1. /\ short \o wd \in Seq(Byte) /\ Len(short \o wd) = Len(short) + Len(wd)
        /\ \A i \in 1 .. Len(short) : (short \o wd)[i] = short[i]
        /\ \A i \in 1 .. Len(wd) : (short \o wd)[Len(short) + i] = wd[i]
    BY <1>1, <1>5, Cat
  <2>2. longer = short \o wd
    OBVIOUS
  <2> HIDE DEF longer
  <2>5. longer \in Seq(Byte) /\ Len(longer) = 12
    BY <1>1, <1>5, <2>1, <2>2
  <2>3. \A i \in 1 .. 8 : longer[i] = short[i]
    BY <1>5, <2>1, <2>2
  <2>4. \A i \in 1 .. 4 : longer[8 + i] = wd[i]
    BY <1>1, <1>5, <2>1, <2>2
  <2> QED BY <2>3, <2>4, <2>5
<1> HIDE DEF longer
<1>7. /\ body \in Seq(Byte) /\ Len(body) = n - 2 /\ \A i \in 1 .. 8 : body[i] = short[i]
      /\ r.write => \A i \in 1 .. 4 : body[8 + i] = wd[i] /\ body[12 + i] = wm[i]
  <2>1. CASE r.write
    <3>1. /\ longer \o wm \in Seq(Byte) /\ Len(longer \o wm) = Len(longer) + Len(wm)
          /\ \A i \in 1 .. Len(longer) : (longer \o wm)[i] = longer[i]
          /\ \A i \in 1 .. Len(wm) : (longer \o wm)[Len(longer) + i] = wm[i]
      BY <1>1, <1>6, Cat
    <3>2. n - 2 = 16 /\ body = longer \o wm
      BY <2>1 DEF Size
    <3> HIDE DEF body, n
    <3>3. \A i \in 1 .. 4 : 8 + i \in 1 .. 12
      OBVIOUS
    <3>4. \A i \in 1 .. 8 : i \in 1 .. 12
      OBVIOUS
    <3>5. body \in Seq(Byte) /\ Len(body) = n - 2
      BY <1>1, <1>6, <3>1, <3>2
    <3>6. \A i \in 1 .. 12 : body[i] = longer[i]
      BY <1>6, <3>1, <3>2
    <3>7. \A i \in 1 .. 4 : body[12 + i] = wm[i]
      BY <1>1, <1>6, <3>1, <3>2
    <3> QED BY <1>6, <3>3, <3>4, <3>5, <3>6, <3>7
  <2>2. CASE ~r.write
    <3>1. n - 2 = 8 /\ body = short
      BY <2>2 DEF Size
    <3> HIDE DEF body, n
    <3> QED BY <1>5, <2>2, <3>1
  <2> QED BY <2>1, <2>2
<1>8. checksum(body) \in Byte
  BY DEF checksum, Byte
<1> HIDE DEF body
<1>9. /\ front \in Seq(Byte) /\ Len(front) = n - 1 /\ front[1] = SOF
      /\ \A i \in 1 .. n - 2 : front[1 + i] = body[i]
  <2>1. n - 2 \in Nat /\ n - 1 = 1 + (n - 2) /\ SOF \in Byte
    BY Symbols DEF Size
  <2>2. /\ front \in Seq(Byte) /\ Len(front) = 1 + Len(body) /\ front[1] = SOF
        /\ \A i \in 1 .. Len(body) : front[1 + i] = body[i]
    BY <1>7, <2>1
  <2> HIDE DEF n, front
  <2> QED BY <1>7, <2>1, <2>2
<1> HIDE DEF front
<1>10. n \in {10, 18} /\ (r.write => n = 18)
  BY DEF Size, Fitting, Asked
<1> HIDE DEF n
<1>11. /\ raw \in Seq(Byte) /\ Len(raw) = n /\ raw[1] = SOF /\ raw[n] = checksum(body)
       /\ \A i \in 1 .. n - 2 : raw[1 + i] = body[i]
  <2>1. /\ raw \in Seq(Byte) /\ Len(raw) = Len(front) + 1 /\ \A i \in 1 .. Len(front) : raw[i] = front[i]
        /\ raw[Len(front) + 1] = checksum(body)
    BY <1>8, <1>9
  <2> HIDE DEF raw
  <2> QED BY <1>9, <1>10, <2>1
<1> HIDE DEF raw
<1>12. SubSeq(raw, 2, n - 1) = body
  <2> DEFINE part == SubSeq(raw, 2, n - 1)
  <2>1. part \in Seq(Byte) /\ Len(part) = n - 2 /\ \A i \in 1 .. n - 2 : part[i] = raw[1 + i]
    BY <1>10, <1>11
  <2> HIDE DEF part
  <2>2. part = body
    BY <1>7, <1>11, <2>1, SeqEqual
  <2> QED BY <2>2 DEF part
<1>13. /\ raw[2] = pre[1] /\ raw[3] = pre[2] /\ raw[4] = pre[3]
       /\ \A i \in 1 .. 5 : raw[4 + i] = head[i]
  <2>0. \A i \in 1 .. 8 : i \in 1 .. n - 2
    BY <1>10
  <2>1. \A i \in 1 .. 8 : raw[1 + i] = short[i]
    BY <1>7, <1>11, <2>0
  <2>2. \A i \in 1 .. 5 : raw[1 + (3 + i)] = short[3 + i]
    BY <2>1
  <2>3. raw[1 + 1] = short[1] /\ raw[1 + 2] = short[2] /\ raw[1 + 3] = short[3]
    BY <2>1
  <2> QED BY <1>5, <2>2, <2>3
<1>14. r.write => \A i \in 1 .. 4 : raw[9 + i] = wd[i] /\ raw[13 + i] = wm[i]
  <2> SUFFICES ASSUME r.write, NEW i \in 1 .. 4 PROVE raw[9 + i] = wd[i] /\ raw[13 + i] = wm[i]
    OBVIOUS
  <2>0. 8 + i \in 1 .. n - 2 /\ 12 + i \in 1 .. n - 2
    BY <1>10
  <2>1. raw[1 + (8 + i)] = body[8 + i] /\ raw[1 + (12 + i)] = body[12 + i]
    BY <1>11, <2>0
  <2>2. 1 + (8 + i) = 9 + i /\ 1 + (12 + i) = 13 + i
    OBVIOUS
  <2> QED BY <1>7, <2>1, <2>2
<1>15. /\ raw[4 + 1] = sq[1] /\ raw[4 + 2] = sq[2] /\ raw[6 + 1] = ad[1] /\ raw[6 + 2] = ad[2]
       /\ raw[8 + 1] = wi[1]
  <2>1. raw[4 + 3] = head[3] /\ raw[4 + 4] = head[4] /\ head[2 + 1] = sa[2 + 1] /\ head[2 + 2] = sa[2 + 2]
    BY <1>4, <1>13
  <2>2. raw[4 + 5] = head[5] /\ head[4 + 1] = wi[1]
    BY <1>4, <1>13
  <2> QED BY <1>3, <1>4, <1>13, <2>1, <2>2
<1>16. /\ \A i \in 1 .. 2 : raw[4 + i] = sq[i] /\ raw[6 + i] = ad[i]
       /\ \A i \in 1 .. 1 : raw[8 + i] = wi[i]
  BY <1>15
<1> QED
  BY <1>0, <1>2, <1>10, <1>11, <1>12, <1>13, <1>14, <1>16 DEF sq, ad, wi, wd, wm, n

-----------------------------------------------------------------------------
(* The parser on its way through a frame.                                  *)
Running(raw, k) == checksum(SubSeq(raw, 2, k))

LEMMA RunningStarts == ASSUME NEW raw \in Seq(Byte) PROVE Running(raw, 1) = {}
<1>1. SubSeq(raw, 2, 1) = <<>>
  OBVIOUS
<1>2. \A b : {i \in 1 .. Len(<<>>) : b \in (<<>>)[i]} = {}
  OBVIOUS
<1>3. Cardinality({}) = 0
  BY FS_EmptySet
<1> QED BY <1>1, <1>2, <1>3 DEF Running, checksum

LEMMA RunningGoes ==
  ASSUME NEW raw \in Seq(Byte), NEW k \in 1 .. Len(raw) - 1
  PROVE  Running(raw, k + 1) = Xor(Running(raw, k), raw[k + 1])
<1> DEFINE part(m) == SubSeq(raw, 2, m)
           have(m, b) == {i \in 1 .. Len(part(m)) : b \in part(m)[i]}
           mine(m, b) == {i \in 1 .. m - 1 : b \in raw[1 + i]}
<1>1. ASSUME NEW m \in 1 .. Len(raw), NEW b PROVE have(m, b) = mine(m, b)
  <2>1. Len(part(m)) = m - 1 /\ \A i \in 1 .. m - 1 : part(m)[i] = raw[1 + i]
    OBVIOUS
  <2> HIDE DEF part
  <2> QED BY <2>1
<1>2. ASSUME NEW m \in 1 .. Len(raw), NEW b
      PROVE  IsFiniteSet(mine(m, b)) /\ Cardinality(mine(m, b)) \in Nat
  <2>1. IsFiniteSet(1 .. m - 1)
    BY FS_Interval
  <2>2. IsFiniteSet(mine(m, b))
    BY <2>1, FS_Subset
  <2> QED BY <2>2, FS_CardinalityType
<1>3. k \in 1 .. Len(raw) /\ k + 1 \in 1 .. Len(raw) /\ raw[k + 1] \in Byte
  OBVIOUS
<1>4. ASSUME NEW b
      PROVE  Cardinality(mine(k + 1, b))
               = IF b \in raw[k + 1] THEN Cardinality(mine(k, b)) + 1 ELSE Cardinality(mine(k, b))
  <2>1. mine(k + 1, b) = IF b \in raw[k + 1] THEN mine(k, b) \cup {k} ELSE mine(k, b)
    BY <1>3
  <2>2. k \notin mine(k, b)
    OBVIOUS
  <2> HIDE DEF mine
  <2> QED BY <1>2, <1>3, <2>1, <2>2, FS_AddElement
<1>5. \A c \in Nat : (c + 1) % 2 = 1 <=> c % 2 # 1
  OBVIOUS
<1>6. \A m \in 1 .. Len(raw) : Running(raw, m) = {b \in 0 .. 7 : Cardinality(mine(m, b)) % 2 = 1}
  <2> TAKE m \in 1 .. Len(raw)
  <2>1. Running(raw, m) = {b \in 0 .. 7 : Cardinality(have(m, b)) % 2 = 1}
    BY DEF Running, checksum
  <2> HIDE DEF have, mine
  <2> QED BY <1>1, <2>1
<1> HIDE DEF mine
<1>7. \A b \in 0 .. 7 : b \in Running(raw, k + 1) <=> (b \in Running(raw, k) <=> b \notin raw[k + 1])
  <2> TAKE b \in 0 .. 7
  <2>1. PICK c \in Nat : c = Cardinality(mine(k, b))
    BY <1>2, <1>3
  <2>2. b \in Running(raw, k) <=> c % 2 = 1
    BY <1>3, <1>6, <2>1
  <2>3. b \in Running(raw, k + 1) <=> Cardinality(mine(k + 1, b)) % 2 = 1
    BY <1>3, <1>6
  <2>4. CASE b \in raw[k + 1]
    <3>1. b \in Running(raw, k + 1) <=> (c + 1) % 2 = 1
      BY <1>4, <2>1, <2>3, <2>4
    <3> QED BY <1>5, <2>2, <2>4, <3>1
  <2>5. CASE b \notin raw[k + 1]
    <3>1. b \in Running(raw, k + 1) <=> c % 2 = 1
      BY <1>4, <2>1, <2>3, <2>5
    <3> QED BY <2>2, <2>5, <3>1
  <2> QED BY <2>4, <2>5
<1>8. Running(raw, k + 1) \subseteq 0 .. 7 /\ Running(raw, k) \subseteq 0 .. 7 /\ raw[k + 1] \subseteq 0 .. 7
  BY <1>3, <1>6 DEF Byte
<1> QED BY <1>7, <1>8 DEF Xor

Stage(k, n) ==
  IF k = 1 THEN "VERSION" ELSE IF k = 2 THEN "TYPE" ELSE IF k = 3 THEN "LEN"
  ELSE IF k = n - 1 THEN "CHECKSUM" ELSE "PAYLOAD"
(* After the first k bytes of raw.                                         *)
At(raw, k) ==
  IF k \in {0, Len(raw)} THEN Waiting
  ELSE [state |-> Stage(k, Len(raw)), type |-> IF k < 3 THEN {} ELSE raw[3],
        len |-> IF k < 4 THEN 0 ELSE Len(raw) - 5, checksum |-> Running(raw, k),
        payload |-> IF k < 4 THEN <<>> ELSE SubSeq(raw, 5, k)]

LEMMA LengthsTold ==
  /\ Number(ByteOf(ReadLength)) = ReadLength /\ ByteOf(ReadLength) # {}
  /\ Number(ByteOf(WriteLength)) = WriteLength /\ ByteOf(WriteLength) # {}
<1>0. /\ 2 ^ 0 = 1 /\ 2 ^ 1 = 2 /\ 2 ^ 2 = 4 /\ 2 ^ 3 = 8 /\ 2 ^ 4 = 16 /\ 2 ^ 5 = 32 /\ 2 ^ 6 = 64
      /\ 2 ^ 7 = 128
  OBVIOUS
<1> DEFINE bit(n, i) == (n \div 2 ^ i) % 2 = 1
<1>4. /\ bit(5, 0) /\ ~bit(5, 1) /\ bit(5, 2) /\ \A i \in {3, 4, 5, 6, 7} : ~bit(5, i)
  BY <1>0
<1>5. /\ bit(13, 0) /\ ~bit(13, 1) /\ bit(13, 2) /\ bit(13, 3) /\ \A i \in {4, 5, 6, 7} : ~bit(13, i)
  BY <1>0
<1>6. \A n : ByteOf(n) = {i \in 0 .. 7 : bit(n, i)}
  BY DEF ByteOf
<1> HIDE DEF bit
<1>1. ByteOf(5) = {0, 2}
  BY <1>4, <1>6
<1>2. ByteOf(13) = {0, 2, 3}
  BY <1>5, <1>6
<1>3. Number({0, 2}) = 5 /\ Number({0, 2, 3}) = 13
  BY DEF Number
<1> QED BY <1>1, <1>2, <1>3 DEF ReadLength, WriteLength

LEMMA Between ==
  ASSUME NEW raw \in Seq(Byte), NEW k \in 0 .. Len(raw), Len(raw) \in {10, 18}
  PROVE  At(raw, k) = Waiting <=> k \in {0, Len(raw)}
<1>1. ASSUME k \notin {0, Len(raw)} PROVE At(raw, k).state # "SOF"
  BY <1>1 DEF At, Stage
<1> QED BY <1>1 DEF At, Waiting

(* Byte after byte.                                                        *)
LEMMA AtGoes ==
  ASSUME NEW r, Fitting(r), NEW k \in 0 .. Size(r) - 1
  PROVE  Parsed(At(Frame(r), k), Frame(r)[k + 1]) = At(Frame(r), k + 1)
<1>1. PICK raw : raw = Frame(r)
  OBVIOUS
<1>2. PICK n : n = Size(r)
  OBVIOUS
<1>3. /\ raw \in Seq(Byte) /\ Len(raw) = n /\ n \in {10, 18}
      /\ raw[1] = SOF /\ raw[2] = VERSION /\ raw[4] = ByteOf(n - 5)
  BY <1>1, <1>2, FrameHas DEF Size
<1>4. k \in 0 .. n - 1
  BY <1>2
<1>5. /\ k >= 1 => Running(raw, k + 1) = Xor(Running(raw, k), raw[k + 1])
      /\ Running(raw, 1) = {}
  BY <1>3, <1>4, RunningGoes, RunningStarts
<1> DEFINE p == At(raw, k)
           b == raw[k + 1]
<1>6. CASE k = 0
  <2>1. p = Waiting /\ b = SOF
    BY <1>3, <1>6 DEF At
  <2>2. Parsed(p, b) = [Waiting EXCEPT !.state = "VERSION"]
    BY <2>1 DEF Parsed, Waiting
  <2>3. At(raw, k + 1) = [state |-> "VERSION", type |-> {}, len |-> 0, checksum |-> {}, payload |-> <<>>]
    <3>1. k + 1 = 1 /\ 1 \notin {0, Len(raw)}
      BY <1>3, <1>6
    <3>2. At(raw, 1) = [state |-> "VERSION", type |-> {}, len |-> 0, checksum |-> {}, payload |-> <<>>]
      <4>1. Stage(1, Len(raw)) = "VERSION" /\ 1 < 3 /\ 1 < 4
        BY DEF Stage
      <4> QED BY <1>5, <3>1, <4>1 DEF At
    <3> QED BY <3>1, <3>2
  <2> QED BY <1>1, <2>2, <2>3 DEF Waiting
<1> DEFINE q == [state |-> Stage(k, n), type |-> IF k < 3 THEN {} ELSE raw[3],
                 len |-> IF k < 4 THEN 0 ELSE n - 5, checksum |-> Running(raw, k),
                 payload |-> IF k < 4 THEN <<>> ELSE SubSeq(raw, 5, k)]
<1>7. k > 0 => p = q
  BY <1>3, <1>4 DEF At
<1>8. CASE k = 1
  <2>1. q = [state |-> "VERSION", type |-> {}, len |-> 0, checksum |-> Running(raw, k), payload |-> <<>>]
    BY <1>8 DEF Stage
  <2>2. b = VERSION
    BY <1>3, <1>8
  <2>3. Parsed(q, b) = [state |-> "TYPE", type |-> {}, len |-> 0, checksum |-> Xor(Running(raw, k), b),
                        payload |-> <<>>]
    BY <2>1, <2>2 DEF Parsed, Enter
  <2>4. At(raw, k + 1) = [state |-> "TYPE", type |-> {}, len |-> 0, checksum |-> Running(raw, k + 1),
                          payload |-> <<>>]
    BY <1>3, <1>8 DEF At, Stage
  <2>5. Xor(Running(raw, k), b) = Running(raw, k + 1) /\ p = q
    BY <1>5, <1>7, <1>8
  <2>6. Parsed(p, b) = At(raw, k + 1)
    BY <2>3, <2>4, <2>5
  <2> QED BY <1>1, <2>6
<1>9. CASE k = 2
  <2>1. q = [state |-> "TYPE", type |-> {}, len |-> 0, checksum |-> Running(raw, k), payload |-> <<>>]
    BY <1>9 DEF Stage
  <2>2. b = raw[3]
    BY <1>9
  <2>3. Parsed(q, b) = [state |-> "LEN", type |-> raw[3], len |-> 0, checksum |-> Xor(Running(raw, k), b),
                        payload |-> <<>>]
    BY <2>1, <2>2 DEF Parsed, Enter
  <2>4. At(raw, k + 1) = [state |-> "LEN", type |-> raw[3], len |-> 0, checksum |-> Running(raw, k + 1),
                          payload |-> <<>>]
    BY <1>3, <1>9 DEF At, Stage
  <2>5. Xor(Running(raw, k), b) = Running(raw, k + 1) /\ p = q
    BY <1>5, <1>7, <1>9
  <2>6. Parsed(p, b) = At(raw, k + 1)
    BY <2>3, <2>4, <2>5
  <2> QED BY <1>1, <2>6
<1>10. CASE k = 3
  <2>1. q = [state |-> "LEN", type |-> raw[3], len |-> 0, checksum |-> Running(raw, k), payload |-> <<>>]
    BY <1>10 DEF Stage
  <2>2. b = ByteOf(n - 5) /\ Number(b) = n - 5 /\ b # {}
    BY <1>3, <1>10, LengthsTold DEF ReadLength, WriteLength
  <2>3. ~(n - 5 > MAX_PAYLOAD_BYTES)
    BY <1>3 DEF MAX_PAYLOAD_BYTES
  <2>4. Parsed(q, b) = [state |-> "PAYLOAD", type |-> raw[3], len |-> n - 5,
                        checksum |-> Xor(Running(raw, k), b), payload |-> <<>>]
    BY <2>1, <2>2, <2>3 DEF Parsed, Enter
  <2>5. SubSeq(raw, 5, 4) = <<>>
    BY <1>3
  <2>6. At(raw, k + 1) = [state |-> "PAYLOAD", type |-> raw[3], len |-> n - 5,
                          checksum |-> Running(raw, k + 1), payload |-> <<>>]
    BY <1>3, <1>10, <2>5 DEF At, Stage
  <2> QED BY <1>1, <1>5, <1>7, <1>10, <2>4, <2>6
<1>11. CASE k \in 4 .. n - 2
  <2>1. q = [state |-> "PAYLOAD", type |-> raw[3], len |-> n - 5, checksum |-> Running(raw, k),
             payload |-> SubSeq(raw, 5, k)]
    <3>1. Stage(k, n) = "PAYLOAD" /\ ~(k < 3) /\ ~(k < 4)
      BY <1>3, <1>11 DEF Stage
    <3> QED BY <3>1
  <2>2. Len(SubSeq(raw, 5, k)) = k - 4 /\ Append(SubSeq(raw, 5, k), b) = SubSeq(raw, 5, k + 1)
    <3>1. /\ SubSeq(raw, 5, k) \in Seq(Byte) /\ Len(SubSeq(raw, 5, k)) = k - 4
          /\ \A i \in 1 .. k - 4 : SubSeq(raw, 5, k)[i] = raw[4 + i]
      BY <1>3, <1>11
    <3>2. /\ SubSeq(raw, 5, k + 1) \in Seq(Byte) /\ Len(SubSeq(raw, 5, k + 1)) = k - 3
          /\ \A i \in 1 .. k - 3 : SubSeq(raw, 5, k + 1)[i] = raw[4 + i]
      BY <1>3, <1>11
    <3>3. b \in Byte
      BY <1>3, <1>11
    <3>4. PICK s : s = SubSeq(raw, 5, k)
      OBVIOUS
    <3>5. PICK t : t = SubSeq(raw, 5, k + 1)
      OBVIOUS
    <3>6. /\ Append(s, b) \in Seq(Byte) /\ Len(Append(s, b)) = k - 3
          /\ \A i \in 1 .. k - 4 : Append(s, b)[i] = s[i]
          /\ Append(s, b)[k - 3] = b
      BY <1>11, <3>1, <3>3, <3>4
    <3>7. \A i \in 1 .. k - 3 : Append(s, b)[i] = t[i]
      BY <1>11, <3>1, <3>2, <3>4, <3>5, <3>6, SMTT(40)
    <3>8. Append(s, b) = t
      BY <3>2, <3>5, <3>6, <3>7, SeqEqual
    <3> QED BY <3>1, <3>4, <3>5, <3>8
  <2>3. Parsed(q, b) = [state |-> IF k - 3 = n - 5 THEN "CHECKSUM" ELSE "PAYLOAD", type |-> raw[3],
                        len |-> n - 5, checksum |-> Xor(Running(raw, k), b),
                        payload |-> SubSeq(raw, 5, k + 1)]
    <3>1. k - 4 + 1 = k - 3
      BY <1>11
    <3> QED BY <2>1, <2>2, <3>1 DEF Parsed, Enter
  <2>4. At(raw, k + 1) = [state |-> IF k - 3 = n - 5 THEN "CHECKSUM" ELSE "PAYLOAD", type |-> raw[3],
                          len |-> n - 5, checksum |-> Running(raw, k + 1),
                          payload |-> SubSeq(raw, 5, k + 1)]
    <3>1. /\ k + 1 \notin {0, Len(raw)} /\ ~(k + 1 < 3) /\ ~(k + 1 < 4)
          /\ Stage(k + 1, Len(raw)) = IF k - 3 = n - 5 THEN "CHECKSUM" ELSE "PAYLOAD"
      BY <1>3, <1>11 DEF Stage
    <3> QED BY <1>3, <3>1 DEF At
  <2>5. Xor(Running(raw, k), b) = Running(raw, k + 1) /\ p = q
    BY <1>5, <1>7, <1>11
  <2>6. Parsed(p, b) = At(raw, k + 1)
    BY <2>3, <2>4, <2>5
  <2> QED BY <1>1, <2>6
<1>12. CASE k = n - 1
  <2>1. q.state = "CHECKSUM"
    BY <1>3, <1>12 DEF Stage
  <2>2. Parsed(q, b) = Waiting
    BY <2>1 DEF Parsed
  <2>3. At(raw, k + 1) = Waiting
    BY <1>3, <1>12 DEF At
  <2> QED BY <1>1, <1>3, <1>7, <1>12, <2>2, <2>3
<1>13. k \in {0, 1, 2, 3, n - 1} \/ k \in 4 .. n - 2
  BY <1>3, <1>4
<1> QED BY <1>6, <1>8, <1>9, <1>10, <1>11, <1>12, <1>13

(* Numbers below 2^16 fit the field of a frame.                            *)
Power(i) == 2 ^ i

LEMMA WordIs == ASSUME NEW n PROVE Word(n) = {i \in 0 .. 30 : (n \div Power(i)) % 2 = 1}
BY DEF Word, Power

LEMMA Powers ==
  /\ Power(0) = 1 /\ Power(1) = 2 /\ Power(2) = 4
  /\ \A i \in 3 .. 15 : \E q \in Nat \ {0} : Power(i) = 8 * q
  /\ \A i \in 16 .. 30 : \E q \in Nat \ {0} : Power(i) = 65536 * q
<1>1. /\ Power(3) = 8 * 1 /\ Power(4) = 8 * 2 /\ Power(5) = 8 * 4 /\ Power(6) = 8 * 8
      /\ Power(7) = 8 * 16 /\ Power(8) = 8 * 32 /\ Power(9) = 8 * 64 /\ Power(10) = 8 * 128
      /\ Power(11) = 8 * 256 /\ Power(12) = 8 * 512 /\ Power(13) = 8 * 1024
      /\ Power(14) = 8 * 2048 /\ Power(15) = 8 * 4096
  BY DEF Power
<1>2. /\ Power(16) = 65536 * 1 /\ Power(17) = 65536 * 2 /\ Power(18) = 65536 * 4
      /\ Power(19) = 65536 * 8 /\ Power(20) = 65536 * 16 /\ Power(21) = 65536 * 32
      /\ Power(22) = 65536 * 64 /\ Power(23) = 65536 * 128 /\ Power(24) = 65536 * 256
      /\ Power(25) = 65536 * 512 /\ Power(26) = 65536 * 1024 /\ Power(27) = 65536 * 2048
      /\ Power(28) = 65536 * 4096 /\ Power(29) = 65536 * 8192 /\ Power(30) = 65536 * 16384
  BY DEF Power
<1>3. Power(0) = 1 /\ Power(1) = 2 /\ Power(2) = 4
  BY DEF Power
<1>4. ASSUME NEW i \in 3 .. 15 PROVE \E q \in Nat \ {0} : Power(i) = 8 * q
  <2>1. i \in {3, 4, 5, 6, 7, 8, 9, 10, 11, 12, 13, 14, 15}
    BY <1>4
  <2>2. \E q \in {1, 2, 4, 8, 16, 32, 64, 128, 256, 512, 1024, 2048, 4096} : Power(i) = 8 * q
    BY <1>1, <2>1
  <2> QED BY <2>2
<1>5. ASSUME NEW i \in 16 .. 30 PROVE \E q \in Nat \ {0} : Power(i) = 65536 * q
  <2>1. i \in {16, 17, 18, 19, 20, 21, 22, 23, 24, 25, 26, 27, 28, 29, 30}
    BY <1>5
  <2>2. \E q \in {1, 2, 4, 8, 16, 32, 64, 128, 256, 512, 1024, 2048, 4096, 8192, 16384} :
          Power(i) = 65536 * q
    BY <1>2, <2>1
  <2> QED BY <2>2
<1> QED BY <1>3, <1>4, <1>5

LEMMA TooLarge ==
  ASSUME NEW n \in Nat, NEW m \in Nat, n < m
  PROVE  (n \div m) % 2 = 0
<1>1. n \div m = 0
  OBVIOUS
<1> QED BY <1>1

LEMMA NumberFits ==
  ASSUME NEW n \in Nat, n < 65536
  PROVE  Word(n) \subseteq 0 .. 15
<1>1. ASSUME NEW i \in 16 .. 30 PROVE (n \div Power(i)) % 2 = 0
  <2>1. PICK q \in Nat \ {0} : Power(i) = 65536 * q
    BY <1>1, Powers
  <2>2. Power(i) \in Nat /\ n < Power(i)
    BY <2>1
  <2> QED BY <2>2, TooLarge
<1> QED BY <1>1, WordIs

LEMMA SmallWords == Word(1) = {0} /\ Word(2) = {1} /\ Word(4) = {2}
<1> DEFINE bit(n, i) == (n \div Power(i)) % 2 = 1
<1>1. ASSUME NEW i \in 3 .. 30 PROVE ~bit(1, i) /\ ~bit(2, i) /\ ~bit(4, i)
  <2>1. Power(i) \in Nat /\ Power(i) >= 8
    <3>1. CASE i \in 3 .. 15
      <4>1. PICK q \in Nat \ {0} : Power(i) = 8 * q
        BY <3>1, Powers
      <4> QED BY <4>1
    <3>2. CASE i \in 16 .. 30
      <4>1. PICK q \in Nat \ {0} : Power(i) = 65536 * q
        BY <3>2, Powers
      <4> QED BY <4>1
    <3>3. i \in 3 .. 15 \/ i \in 16 .. 30
      BY <1>1
    <3> QED BY <3>1, <3>2, <3>3
  <2>2. PICK m \in Nat : m = Power(i) /\ m >= 8
    BY <2>1
  <2>3. (1 \div m) % 2 = 0 /\ (2 \div m) % 2 = 0 /\ (4 \div m) % 2 = 0
    BY <2>2, TooLarge
  <2> QED BY <2>2, <2>3
<1>2. bit(1, 0) /\ ~bit(1, 1) /\ ~bit(1, 2)
  BY Powers
<1>3. ~bit(2, 0) /\ bit(2, 1) /\ ~bit(2, 2)
  BY Powers
<1>4. ~bit(4, 0) /\ ~bit(4, 1) /\ bit(4, 2)
  BY Powers
<1>5. \A n : Word(n) = {i \in 0 .. 30 : bit(n, i)}
  BY WordIs
<1> HIDE DEF bit
<1>6. \A i \in 0 .. 30 : i = 0 \/ i = 1 \/ i = 2 \/ i \in 3 .. 30
  OBVIOUS
<1>7. Word(1) = {0}
  BY <1>1, <1>2, <1>5, <1>6
<1>8. Word(2) = {1}
  BY <1>1, <1>3, <1>5, <1>6
<1>9. Word(4) = {2}
  BY <1>1, <1>4, <1>5, <1>6
<1> QED BY <1>7, <1>8, <1>9

(* A stretch of a sequence, and what the bytes of a word tell.             *)
LEMMA StretchIs ==
  ASSUME NEW s \in Seq(Byte), NEW i \in Nat, NEW j \in Nat, 1 <= i, i <= j, j <= Len(s),
         NEW u \in Seq(Byte), Len(u) = j - i + 1, \A h \in 1 .. Len(u) : u[h] = s[i - 1 + h]
  PROVE  SubSeq(s, i, j) = u
<1>1. PICK t : t = SubSeq(s, i, j)
  OBVIOUS
<1>2. t \in Seq(Byte) /\ Len(t) = j - i + 1 /\ \A h \in 1 .. Len(t) : t[h] = s[i - 1 + h]
  BY <1>1
<1>3. t = u
  BY <1>2, SeqEqual
<1> QED BY <1>1, <1>3

LEMMA BytesTell ==
  ASSUME NEW n \in Nat, NEW w, w \subseteq 0 .. 8 * n - 1
  PROVE  Joined(Bytes(w, n)) = w
<1>1. PICK s : s = Bytes(w, n)
  OBVIOUS
<1>2. s \in Seq(Byte) /\ Len(s) = n /\ \A i \in 1 .. n : s[i] = Bytes(w, n)[i]
  BY <1>1, BytesHave
<1>3. Joined(s) = w
  BY <1>2, JoinedBytes
<1> QED BY <1>1, <1>3

(* At the last byte of a frame, and only there, its request is complete.   *)
LEMMA AtEnds ==
  ASSUME NEW r, Fitting(r), NEW k \in 0 .. Size(r) - 1
  PROVE  LET p == At(Frame(r), k)
             b == Frame(r)[k + 1]
         IN (Complete(p, b) <=> k + 1 = Size(r)) /\ (k + 1 = Size(r) => RequestOf(p) = r)
<1>1. PICK raw : raw = Frame(r)
  OBVIOUS
<1>2. PICK n : n = Size(r)
  OBVIOUS
<1>3. /\ raw \in Seq(Byte) /\ Len(raw) = n /\ n = (IF r.write THEN 18 ELSE 10)
      /\ raw[3] = (IF r.write THEN WRITE_REQ ELSE READ_REQ)
      /\ raw[n] = checksum(SubSeq(raw, 2, n - 1))
  BY <1>1, <1>2, FrameHas DEF Size
<1>4. k \in 0 .. n - 1 /\ n \in {10, 18}
  BY <1>2, <1>3
<1> DEFINE p == At(raw, k)
           b == raw[k + 1]
<1>5. CASE k + 1 # n
  <2>1. p.state # "CHECKSUM"
    <3>1. CASE k = 0
      BY <3>1 DEF At, Waiting
    <3>2. CASE k # 0
      <4>1. p.state = Stage(k, n) /\ k # n - 1
        BY <1>3, <1>4, <1>5, <3>2 DEF At
      <4> QED BY <4>1 DEF Stage
    <3> QED BY <3>1, <3>2
  <2> QED BY <1>1, <1>2, <1>5, <2>1 DEF Complete
<1>6. CASE k + 1 = n
  <2>0. k = n - 1
    BY <1>4, <1>6
  <2>1. p = [state |-> "CHECKSUM", type |-> raw[3], len |-> n - 5, checksum |-> Running(raw, k),
             payload |-> SubSeq(raw, 5, k)]
    <3>1. k \notin {0, Len(raw)} /\ ~(k < 3) /\ ~(k < 4) /\ Stage(k, Len(raw)) = "CHECKSUM"
      BY <1>3, <1>4, <2>0 DEF Stage
    <3> QED BY <1>3, <3>1 DEF At
  <2> HIDE DEF p
  <2>2. b = Running(raw, k)
    BY <1>3, <1>6, <2>0 DEF Running
  <2>3. READ_REQ # WRITE_REQ
    BY DEF READ_REQ, WRITE_REQ
  <2>4. p.type \in {READ_REQ, WRITE_REQ} /\ len_ok(p) /\ (p.type = WRITE_REQ <=> r.write)
    BY <1>3, <2>1, <2>3 DEF len_ok, ReadLength, WriteLength
  <2>5. \A i \in 1 .. n - 5, j \in 0 .. n - 5 : Field(p, i, j) = Joined(SubSeq(raw, 4 + i, 4 + j))
    <3> SUFFICES ASSUME NEW i \in 1 .. n - 5, NEW j \in 0 .. n - 5
                 PROVE  Field(p, i, j) = Joined(SubSeq(raw, 4 + i, 4 + j))
      OBVIOUS
    <3>1. PICK s : s = SubSeq(raw, 5, k)
      OBVIOUS
    <3>2. /\ s \in Seq(Byte) /\ Len(s) = n - 5
          /\ \A m \in 1 .. n - 5 : s[m] = raw[4 + m]
      <4>1. k \in 4 .. Len(raw) /\ n - 5 = k - 4
        BY <1>3, <1>4, <2>0
      <4>2. /\ s \in Seq(Byte) /\ Len(s) = k - 4
            /\ \A m \in 1 .. k - 4 : s[m] = raw[4 + m]
        BY <1>3, <3>1, <4>1
      <4> QED BY <4>1, <4>2
    <3>3. PICK t : t = SubSeq(s, i, j)
      OBVIOUS
    <3>4. PICK u : u = SubSeq(raw, 4 + i, 4 + j)
      OBVIOUS
    <3>5. PICK m \in Nat : m = IF i <= j THEN (j - i) + 1 ELSE 0
      <4>1. i \in Int /\ j \in Int
        BY <1>4
      <4>2. (IF i <= j THEN (j - i) + 1 ELSE 0) \in Nat
        BY <4>1
      <4> QED BY <4>2
    <3>6. /\ t \in Seq(Byte) /\ Len(t) = m
          /\ \A h \in 1 .. m : t[h] = s[i - 1 + h]
      BY <1>4, <3>2, <3>3, <3>5
    <3>7. /\ u \in Seq(Byte) /\ Len(u) = m
          /\ \A h \in 1 .. m : u[h] = raw[4 + i - 1 + h]
      BY <1>3, <1>4, <3>4, <3>5
    <3>8. \A h \in 1 .. m : i - 1 + h \in 1 .. n - 5 /\ 4 + (i - 1 + h) = 4 + i - 1 + h
      BY <1>4, <3>5
    <3>9. \A h \in 1 .. m : t[h] = u[h]
      BY <3>2, <3>6, <3>7, <3>8, ZenonT(60)
    <3>10. t = u
      BY <3>6, <3>7, <3>9, SeqEqual
    <3>11. p.payload = s
      BY <2>1, <3>1
    <3> QED BY <3>3, <3>4, <3>10, <3>11 DEF Field
  <2>14. \A i \in 1 .. n - 5, j \in 0 .. n - 5, c \in Nat, d \in Nat :
           c = 4 + i /\ d = 4 + j => Field(p, i, j) = Joined(SubSeq(raw, c, d))
    BY <2>5
  <2>6. /\ Joined(Bytes(r.seq, 2)) = r.seq /\ Joined(Bytes(r.addr, 2)) = r.addr
        /\ Joined(Bytes(r.width, 1)) = r.width /\ Joined(Bytes(r.wdata, 4)) = r.wdata
        /\ Joined(Bytes(r.wmask, 4)) = r.wmask
    BY BytesTell DEF Fitting, Asked, WordType
  <2>7. Field(p, 1, 2) = r.seq /\ Field(p, 3, 4) = r.addr /\ Field(p, 5, 5) = r.width
    <3>1. SubSeq(raw, 5, 6) = Bytes(r.seq, 2)
      <4>1. PICK u : u = Bytes(r.seq, 2)
        OBVIOUS
      <4>2. u \in Seq(Byte) /\ Len(u) = 2
        BY <4>1, BytesHave
      <4>3. \A h \in 1 .. 2 : raw[4 + h] = u[h]
        BY <1>1, <4>1, FrameHas
      <4>4. \A h \in 1 .. 2 : u[h] = raw[5 - 1 + h]
        BY <4>3
      <4> QED BY <1>3, <1>4, <4>1, <4>2, <4>4, StretchIs
    <3>2. SubSeq(raw, 7, 8) = Bytes(r.addr, 2)
      <4>1. PICK u : u = Bytes(r.addr, 2)
        OBVIOUS
      <4>2. u \in Seq(Byte) /\ Len(u) = 2
        BY <4>1, BytesHave
      <4>3. \A h \in 1 .. 2 : raw[6 + h] = u[h]
        BY <1>1, <4>1, FrameHas
      <4>4. \A h \in 1 .. 2 : u[h] = raw[7 - 1 + h]
        BY <4>3
      <4> QED BY <1>3, <1>4, <4>1, <4>2, <4>4, StretchIs
    <3>3. SubSeq(raw, 9, 9) = Bytes(r.width, 1)
      <4>1. PICK u : u = Bytes(r.width, 1)
        OBVIOUS
      <4>2. u \in Seq(Byte) /\ Len(u) = 1
        BY <4>1, BytesHave
      <4>3. \A h \in 1 .. 1 : raw[8 + h] = u[h]
        BY <1>1, <4>1, FrameHas
      <4>4. \A h \in 1 .. 1 : u[h] = raw[9 - 1 + h]
        BY <4>3
      <4> QED BY <1>3, <1>4, <4>1, <4>2, <4>4, StretchIs
    <3>4. /\ Field(p, 1, 2) = Joined(SubSeq(raw, 5, 6))
          /\ Field(p, 3, 4) = Joined(SubSeq(raw, 7, 8))
          /\ Field(p, 5, 5) = Joined(SubSeq(raw, 9, 9))
      BY <1>4, <2>14
    <3> QED BY <2>6, <3>1, <3>2, <3>3, <3>4
  <2>8. r.write => Field(p, 6, 9) = r.wdata /\ Field(p, 10, 13) = r.wmask
    <3> SUFFICES ASSUME r.write PROVE Field(p, 6, 9) = r.wdata /\ Field(p, 10, 13) = r.wmask
      OBVIOUS
    <3>1. SubSeq(raw, 10, 13) = Bytes(r.wdata, 4)
      <4>1. PICK u : u = Bytes(r.wdata, 4)
        OBVIOUS
      <4>2. u \in Seq(Byte) /\ Len(u) = 4
        BY <4>1, BytesHave, ZenonT(60)
      <4>3. \A h \in 1 .. 4 : raw[9 + h] = u[h]
        BY <1>1, <4>1, FrameHas
      <4>4. \A h \in 1 .. 4 : u[h] = raw[10 - 1 + h]
        BY <4>3
      <4> QED BY <1>3, <1>4, <4>1, <4>2, <4>4, StretchIs
    <3>2. SubSeq(raw, 14, 17) = Bytes(r.wmask, 4)
      <4>1. PICK u : u = Bytes(r.wmask, 4)
        OBVIOUS
      <4>2. u \in Seq(Byte) /\ Len(u) = 4
        BY <4>1, BytesHave, ZenonT(60)
      <4>3. \A h \in 1 .. 4 : raw[13 + h] = u[h]
        BY <1>1, <4>1, FrameHas
      <4>4. \A h \in 1 .. 4 : u[h] = raw[14 - 1 + h]
        BY <4>3
      <4> QED BY <1>3, <1>4, <4>1, <4>2, <4>4, StretchIs
    <3>3. /\ Field(p, 6, 9) = Joined(SubSeq(raw, 10, 13))
          /\ Field(p, 10, 13) = Joined(SubSeq(raw, 14, 17))
      BY <1>3, <2>14
    <3> QED BY <2>6, <3>1, <3>2, <3>3
  <2>9. width_ok(p)
    <3>1. Word(1) = {0} /\ Word(2) = {1} /\ Word(4) = {2}
      BY SmallWords
    <3> QED BY <2>7, <3>1 DEF width_ok, Fitting, Asked
  <2>10. Complete(p, b)
    BY <2>1, <2>2, <2>4, <2>9 DEF Complete
  <2>11. RequestOf(p) = [seq |-> r.seq, addr |-> r.addr, width |-> r.width, write |-> r.write,
                         wdata |-> r.wdata, wmask |-> r.wmask]
    <3>1. r.write \in BOOLEAN /\ (p.type = WRITE_REQ) \in BOOLEAN
      BY DEF Fitting, Asked
    <3>2. (p.type = WRITE_REQ) = r.write
      BY <2>4, <3>1
    <3>3. CASE r.write
      BY <2>4, <2>7, <2>8, <3>2, <3>3 DEF RequestOf
    <3>4. CASE ~r.write
      BY <2>4, <2>7, <3>2, <3>4 DEF RequestOf, Fitting
    <3> QED BY <3>3, <3>4
  <2>12. r = [seq |-> r.seq, addr |-> r.addr, width |-> r.width, write |-> r.write,
              wdata |-> r.wdata, wmask |-> r.wmask]
    BY DEF Fitting, Asked
  <2>13. RequestOf(p) = r
    BY <2>11, <2>12, Zenon
  <2> QED BY <1>1, <1>2, <1>6, <2>10, <2>13 DEF p
<1> QED BY <1>5, <1>6

-----------------------------------------------------------------------------
(* What the host sent, and what the parser has of it.                      *)
Wished ==
  [seq : SUBSET (0 .. 30), addr : SUBSET (0 .. 15), width : {{0}, {1}, {2}}, write : BOOLEAN,
   wdata : WordType, wmask : WordType]
Sents == [request : Wished, whole : BOOLEAN, usual : BOOLEAN, inner : BOOLEAN]
(* So many numbers the field of a frame can tell.                          *)
Numbers == 65536

(* The n-th frame: its request fits, and whether a byte in it looks like   *)
(* the start of a frame is told.                                           *)
Known(n, s) ==
  LET raw == Frame(s.request)
  IN /\ n < Numbers => Fitting(s.request)
     /\ s.inner <=> SOF \in {raw[i] : i \in 2 .. Len(raw)}
SentInv ==
  /\ sent \in Seq(Sents) /\ accepted \in Seq(Made) /\ blocked \subseteq 1 .. Len(sent)
  /\ sent = <<>> => line = <<>>
  /\ \A n \in 1 .. Len(sent) : Known(n, sent[n])

Clean ==
  /\ \A n \in 1 .. Len(sent) : sent[n].whole
  /\ blocked = {} \/ \A n \in 1 .. Len(sent) : ~sent[n].inner
  /\ Len(sent) < Numbers

Raw == Frame(sent[Len(sent)].request)
Passed == Len(Raw) - Len(line)
LineInv ==
  /\ sent = <<>> => line = <<>> /\ parser = Waiting /\ request = none
  /\ sent # <<>> => /\ Passed \in 0 .. Len(Raw) /\ line = SubSeq(Raw, Passed + 1, Len(Raw))
                    /\ Len(sent) \in blocked => Passed > 0 /\ parser = Waiting
                    /\ Len(sent) \notin blocked => parser = At(Raw, Passed)
  /\ request # none => parser = Waiting

(* The requests that were made, in order, and the frames that made them.   *)
Queued == IF request = none THEN accepted ELSE Append(accepted, request)
Open == line # <<>> /\ Len(sent) \notin blocked
Done == {n \in 1 .. Len(sent) : n \notin blocked /\ (n = Len(sent) => line = <<>>)}
Told(made, done, asked) ==
  /\ \A j \in 1 .. Len(made) : \E n \in done :
       /\ made[j] = asked[n]
       /\ \A i \in 1 .. j - 1 : \E m \in 1 .. n - 1 : made[i] = asked[m]
  /\ \A n \in done : \E j \in 1 .. Len(made) : made[j] = asked[n]
TakenInv ==
  /\ Len(Queued) + Cardinality(blocked) + (IF Open THEN 1 ELSE 0) = Len(sent)
  /\ Told(Queued, Done, Requests)

PathInv == SentInv /\ (Clean => LineInv /\ TakenInv)

LEMMA NumberedFits ==
  ASSUME NEW kind \in Catalog, NEW n \in Nat
  PROVE  Numbered(kind, n) \in Wished /\ (n < Numbers => Fitting(Numbered(kind, n)))
<1>1. /\ kind.addr \in SUBSET (0 .. 15) /\ kind.width \in {{0}, {1}, {2}} /\ kind.write \in BOOLEAN
      /\ kind.write => kind.wdata \in WordType /\ kind.wmask \in WordType
  BY MonitorAssumption, RequestsAssumption
<1>2. Word(n) \in SUBSET (0 .. 30) /\ (n < Numbers => Word(n) \in SUBSET (0 .. 15))
  BY NumberFits DEF Word, Numbers
<1>3. {} \in WordType
  BY DEF WordType
<1> QED BY <1>1, <1>2, <1>3 DEF Numbered, Wished, Fitting, Asked

(* One more frame has made its request; and what is told of the first n    *)
(* frames does not depend on the others.                                   *)
LEMMA ToldGrows ==
  ASSUME NEW made \in Seq(Made), NEW asked, NEW n \in Nat \ {0}, NEW done \in SUBSET (1 .. n - 1),
         asked[n] \in Made, Told(made, done, asked)
  PROVE  Told(Append(made, asked[n]), done \cup {n}, asked)
<1>1. PICK more : more = Append(made, asked[n])
  OBVIOUS
<1>2. /\ Len(more) = Len(made) + 1 /\ more[Len(made) + 1] = asked[n]
      /\ \A j \in 1 .. Len(made) : more[j] = made[j]
  BY <1>1
<1>3. Len(made) \in Nat
  OBVIOUS
<1>4. ASSUME NEW j \in 1 .. Len(more)
      PROVE  \E h \in done \cup {n} : /\ more[j] = asked[h]
                                      /\ \A i \in 1 .. j - 1 : \E m \in 1 .. h - 1 : more[i] = asked[m]
  <2>1. CASE j = Len(made) + 1
    <3>1. ASSUME NEW i \in 1 .. j - 1 PROVE \E m \in 1 .. n - 1 : more[i] = asked[m]
      <4>1. i \in 1 .. Len(made)
        BY <1>3, <2>1
      <4>2. PICK m \in done : made[i] = asked[m]
        BY <4>1 DEF Told
      <4> QED BY <1>2, <4>1, <4>2
    <3> QED BY <1>2, <2>1, <3>1
  <2>2. CASE j # Len(made) + 1
    <3>1. j \in 1 .. Len(made) /\ \A i \in 1 .. j - 1 : i \in 1 .. Len(made)
      BY <1>2, <1>3, <2>2
    <3>2. PICK h \in done : /\ made[j] = asked[h]
                            /\ \A i \in 1 .. j - 1 : \E m \in 1 .. h - 1 : made[i] = asked[m]
      BY <3>1 DEF Told
    <3> QED BY <1>2, <3>1, <3>2
  <2> QED BY <2>1, <2>2
<1>5. ASSUME NEW h \in done \cup {n} PROVE \E j \in 1 .. Len(more) : more[j] = asked[h]
  <2>1. CASE h = n
    BY <1>2, <1>3, <2>1
  <2>2. CASE h \in done
    <3>1. PICK j \in 1 .. Len(made) : made[j] = asked[h]
      BY <2>2 DEF Told
    <3> QED BY <1>2, <1>3, <3>1
  <2> QED BY <2>1, <2>2
<1>6. Told(more, done \cup {n}, asked)
  BY <1>4, <1>5 DEF Told
<1> QED BY <1>1, <1>6

LEMMA ToldMoves ==
  ASSUME NEW made, NEW n \in Nat, NEW done \in SUBSET (1 .. n), NEW asked, NEW others,
         \A m \in 1 .. n : asked[m] = others[m], Told(made, done, asked)
  PROVE  Told(made, done, others)
<1>1. \A h \in done : h \in 1 .. n /\ \A m \in 1 .. h - 1 : m \in 1 .. n
  OBVIOUS
<1>2. ASSUME NEW j \in 1 .. Len(made)
      PROVE  \E h \in done : /\ made[j] = others[h]
                             /\ \A i \in 1 .. j - 1 : \E m \in 1 .. h - 1 : made[i] = others[m]
  <2>1. PICK h \in done : /\ made[j] = asked[h]
                          /\ \A i \in 1 .. j - 1 : \E m \in 1 .. h - 1 : made[i] = asked[m]
    BY DEF Told
  <2> QED BY <1>1, <2>1
<1>3. ASSUME NEW h \in done PROVE \E j \in 1 .. Len(made) : made[j] = others[h]
  BY <1>1 DEF Told
<1> QED BY <1>2, <1>3 DEF Told

LEMMA BlockedCount ==
  ASSUME SentInv
  PROVE  IsFiniteSet(blocked) /\ Cardinality(blocked) \in Nat
<1>1. IsFiniteSet(1 .. Len(sent))
  <2>1. Len(sent) \in Nat
    BY DEF SentInv
  <2> QED BY <2>1, FS_Interval
<1>2. blocked \subseteq 1 .. Len(sent)
  BY DEF SentInv
<1>3. IsFiniteSet(blocked)
  BY <1>1, <1>2, FS_Subset
<1> QED BY <1>3, FS_CardinalityType

LEMMA PathInit == Init => PathInv
<1> SUFFICES ASSUME Init PROVE PathInv
  OBVIOUS
<1>1. sent = <<>> /\ line = <<>> /\ parser = Waiting /\ request = none /\ accepted = <<>> /\ blocked = {}
  BY DEF Init
<1>2. SentInv
  BY <1>1 DEF SentInv
<1>3. LineInv
  BY <1>1 DEF LineInv
<1>4. Cardinality(blocked) = 0
  BY <1>1, FS_EmptySet
<1>5. Queued = <<>> /\ Done = {} /\ ~Open
  BY <1>1 DEF Queued, Done, Open
<1>6. TakenInv
  BY <1>1, <1>4, <1>5 DEF TakenInv, Told
<1> QED BY <1>2, <1>3, <1>6 DEF PathInv

-----------------------------------------------------------------------------
(* The history of what was sent.                                           *)
LEMMA SentStep == KindsInv /\ SentInv /\ [Next]_vars => SentInv'
<1> SUFFICES ASSUME KindsInv, SentInv, [Next]_vars PROVE SentInv'
  OBVIOUS
<1>1. CASE Send
  <2>1. PICK kind \in Catalog, whole \in BOOLEAN :
          LET r == Numbered(kind, Len(sent) + 1)
              raw == Frame(r)
          IN sent' = Append(sent, [request |-> r, whole |-> whole, usual |-> kind = Usual,
                                   inner |-> SOF \in {raw[i] : i \in 2 .. Len(raw)}])
    BY <1>1 DEF Send
  <2>2. PICK r : r = Numbered(kind, Len(sent) + 1)
    OBVIOUS
  <2>3. PICK s : s = [request |-> r, whole |-> whole, usual |-> kind = Usual,
                      inner |-> SOF \in {Frame(r)[i] : i \in 2 .. Len(Frame(r))}]
    OBVIOUS
  <2>4. sent \in Seq(Sents) /\ Len(sent) \in Nat /\ Len(sent) + 1 \in Nat
    BY DEF SentInv
  <2>5. r \in Wished /\ (Len(sent) + 1 < Numbers => Fitting(r))
    BY <2>2, <2>4, NumberedFits
  <2>6. s \in Sents
    BY <2>3, <2>5 DEF Sents
  <2>7. sent' = Append(sent, s)
    BY <2>1, <2>2, <2>3
  <2>8. /\ sent' \in Seq(Sents) /\ Len(sent') = Len(sent) + 1 /\ sent'[Len(sent) + 1] = s
        /\ \A n \in 1 .. Len(sent) : sent'[n] = sent[n]
    BY <2>4, <2>6, <2>7
  <2>9. accepted' = accepted /\ blocked' = blocked
    BY <1>1 DEF Send
  <2>10. ASSUME NEW n \in 1 .. Len(sent') PROVE Known(n, sent'[n])
    <3>1. CASE n \in 1 .. Len(sent)
      <4>1. Known(n, sent[n]) /\ sent'[n] = sent[n]
        BY <2>8, <3>1 DEF SentInv
      <4> QED BY <4>1
    <3>2. CASE n = Len(sent) + 1
      <4>1. sent'[n] = s /\ s.request = r
        BY <2>3, <2>8, <3>2
      <4>2. s.inner <=> SOF \in {Frame(r)[i] : i \in 2 .. Len(Frame(r))}
        BY <2>3
      <4>3. Known(n, s)
        BY <2>5, <3>2, <4>1, <4>2 DEF Known
      <4> QED BY <4>1, <4>3
    <3> QED BY <2>4, <2>8, <3>1, <3>2
  <2>11. sent' # <<>>
    BY <2>4, <2>8
  <2> QED BY <2>4, <2>8, <2>9, <2>10, <2>11 DEF SentInv
<1>2. CASE Edge
  <2>1. PICK arrives \in BOOLEAN, ready \in BOOLEAN, set \in Raises :
          /\ arrives => line # <<>>
          /\ ParserEdge(arrives, ready) /\ BankEdge(ready, set)
    BY <1>2 DEF Edge
  <2>2. sent' = sent
    BY <1>2 DEF Edge
  <2>3. accepted' \in Seq(Made)
    <3>1. CASE taken(ready)
      <4>1. accepted' = Append(accepted, request) /\ request \in Made /\ accepted \in Seq(Made)
        BY <2>1, <3>1 DEF BankEdge, taken, SentInv, KindsInv
      <4> QED BY <4>1
    <3>2. CASE ~taken(ready)
      BY <2>1, <3>2 DEF BankEdge, SentInv
    <3> QED BY <3>1, <3>2
  <2>4. blocked' \subseteq 1 .. Len(sent)
    <3>1. Len(sent) \in Nat
      BY DEF SentInv
    <3>2. sent # <<>> => Len(sent) # 0
      BY DEF SentInv
    <3>3. arrives => Len(sent) \in 1 .. Len(sent)
      BY <2>1, <3>1, <3>2 DEF SentInv
    <3>4. blocked' = blocked \/ (arrives /\ blocked' = blocked \cup {Len(sent)})
      BY <2>1 DEF ParserEdge
    <3>5. blocked \subseteq 1 .. Len(sent)
      BY DEF SentInv
    <3> QED BY <3>3, <3>4, <3>5
  <2>5. line' = line \/ line # <<>>
    BY <2>1 DEF ParserEdge
  <2>6. sent = <<>> => line' = <<>>
    BY <2>5 DEF SentInv
  <2> QED BY <2>2, <2>3, <2>4, <2>6 DEF SentInv
<1>3. CASE UNCHANGED vars
  BY <1>3 DEF SentInv, vars
<1> QED BY <1>1, <1>2, <1>3 DEF Next

-----------------------------------------------------------------------------
(* Frames are added, and the ones there are stay.                          *)
LEMMA Sending ==
  ASSUME SentInv, Send
  PROVE  /\ line = <<>> /\ Len(sent) \in Nat /\ Len(sent') = Len(sent) + 1
         /\ \A n \in 1 .. Len(sent) : sent'[n] = sent[n]
         /\ sent'[Len(sent')].whole => line' = Frame(sent'[Len(sent')].request)
         /\ UNCHANGED <<parser, request, accepted, blocked>>
<1>1. PICK kind \in Catalog, whole \in BOOLEAN :
        LET r == Numbered(kind, Len(sent) + 1)
            raw == Frame(r)
        IN /\ line' \in (IF whole THEN {raw} ELSE Hurt(raw) \ {raw})
           /\ sent' = Append(sent, [request |-> r, whole |-> whole, usual |-> kind = Usual,
                                    inner |-> SOF \in {raw[i] : i \in 2 .. Len(raw)}])
  BY DEF Send
<1>2. PICK r : r = Numbered(kind, Len(sent) + 1)
  OBVIOUS
<1>3. PICK s : s = [request |-> r, whole |-> whole, usual |-> kind = Usual,
                    inner |-> SOF \in {Frame(r)[i] : i \in 2 .. Len(Frame(r))}]
  OBVIOUS
<1>4. sent' = Append(sent, s) /\ (whole => line' = Frame(r))
  BY <1>1, <1>2, <1>3
<1>5. s.whole = whole /\ s.request = r
  BY <1>3
<1>6. sent \in Seq(Sents)
  BY DEF SentInv
<1>7. /\ Len(sent) \in Nat /\ Len(sent') = Len(sent) + 1 /\ sent'[Len(sent) + 1] = s
      /\ \A n \in 1 .. Len(sent) : sent'[n] = sent[n]
  BY <1>4, <1>6
<1>8. sent'[Len(sent')] = s
  BY <1>7
<1>9. sent'[Len(sent')].whole => line' = Frame(sent'[Len(sent')].request)
  BY <1>4, <1>5, <1>8
<1> QED BY <1>7, <1>9 DEF Send

(* Nothing that hurt a frame is undone.                                    *)
LEMMA StaysClean == SentInv /\ [Next]_vars /\ Clean' => Clean
<1> SUFFICES ASSUME SentInv, [Next]_vars, Clean' PROVE Clean
  OBVIOUS
<1>1. CASE Send
  <2>1. \A n \in 1 .. Len(sent) : n \in 1 .. Len(sent')
    BY <1>1, Sending
  <2>2. Len(sent') < Numbers => Len(sent) < Numbers
    BY <1>1, Sending, SMT DEF Numbers
  <2>3. \A n \in 1 .. Len(sent) : sent'[n] = sent[n]
    BY <1>1, Sending
  <2>4. blocked' = blocked
    BY <1>1, Sending
  <2> QED BY <2>1, <2>2, <2>3, <2>4 DEF Clean
<1>2. CASE Edge
  <2>1. sent' = sent /\ blocked \subseteq blocked'
    BY <1>2 DEF Edge, ParserEdge
  <2> QED BY <2>1 DEF Clean
<1>3. CASE UNCHANGED vars
  BY <1>3 DEF Clean, vars
<1> QED BY <1>1, <1>2, <1>3 DEF Next

(* The frame in progress.                                                  *)
LEMMA FrameOf ==
  ASSUME SentInv, Clean, sent # <<>>
  PROVE  /\ Len(sent) \in 1 .. Len(sent) /\ Fitting(sent[Len(sent)].request)
         /\ Raw \in Seq(Byte) /\ Len(Raw) = Size(sent[Len(sent)].request) /\ Len(Raw) \in {10, 18}
         /\ Requests[Len(sent)] = sent[Len(sent)].request
<1>1. Len(sent) \in Nat /\ Len(sent) # 0
  BY DEF SentInv
<1>2. Len(sent) \in 1 .. Len(sent)
  BY <1>1
<1>3. Fitting(sent[Len(sent)].request)
  BY <1>2 DEF SentInv, Known, Clean
<1>4. Raw \in Seq(Byte) /\ Len(Raw) = Size(sent[Len(sent)].request)
  BY <1>3, FrameHas DEF Raw
<1> QED BY <1>2, <1>3, <1>4 DEF Requests, Size

(* A frame sets out.                                                       *)
LEMMA PathSend ==
  ASSUME SentInv, SentInv', Clean, Clean', LineInv, TakenInv, Send
  PROVE  LineInv' /\ TakenInv'
<1>1. /\ line = <<>> /\ Len(sent) \in Nat /\ Len(sent') = Len(sent) + 1
      /\ \A n \in 1 .. Len(sent) : sent'[n] = sent[n]
      /\ UNCHANGED <<parser, request, accepted, blocked>>
  BY Sending
<1>2. sent'[Len(sent')].whole => line' = Frame(sent'[Len(sent')].request)
  BY Sending
<1>3. Len(sent') \in 1 .. Len(sent') /\ sent' # <<>>
  BY <1>1 DEF SentInv
<1>4. line' = Raw'
  BY <1>2, <1>3 DEF Clean, Raw
<1>5. Raw' \in Seq(Byte) /\ Len(Raw') \in {10, 18}
  <2>1. Known(Len(sent'), sent'[Len(sent')]) /\ Len(sent') < Numbers
    BY <1>3 DEF SentInv, Clean
  <2>2. Fitting(sent'[Len(sent')].request)
    BY <2>1 DEF Known
  <2> QED BY <2>2, FrameHas DEF Raw, Size
<1>6. parser = Waiting
  <2>1. CASE sent = <<>>
    BY <2>1 DEF LineInv
  <2>2. CASE sent # <<>>
    <3>1. Passed = Len(Raw) /\ Len(Raw) \in {10, 18} /\ Raw \in Seq(Byte)
      BY <1>1, <2>2, FrameOf DEF Passed
    <3>2. At(Raw, Len(Raw)) = Waiting
      BY DEF At
    <3> QED BY <2>2, <3>1, <3>2 DEF LineInv
  <2> QED BY <2>1, <2>2
<1>7. Len(sent') \notin blocked'
  BY <1>1 DEF SentInv
<1>8. LineInv'
  <2>1. PICK raw : raw = Raw'
    OBVIOUS
  <2>2. Passed' = 0
    BY <1>4, <1>5 DEF Passed
  <2>3. raw = SubSeq(raw, 1, Len(raw)) /\ 0 \in 0 .. Len(raw)
    BY <1>5, <2>1
  <2>4. At(raw, 0) = Waiting
    BY DEF At
  <2>5. 0 + 1 = 1
    OBVIOUS
  <2> QED BY <1>1, <1>3, <1>4, <1>6, <1>7, <2>1, <2>2, <2>3, <2>4, <2>5 DEF LineInv
<1>9. TakenInv'
  <2>1. Queued' = Queued
    BY <1>1 DEF Queued
  <2>2. line' # <<>>
    BY <1>4, <1>5
  <2>3. Open' /\ ~Open
    BY <1>1, <1>7, <2>2 DEF Open
  <2>4. Done' = Done
    <3>1. Done = {n \in 1 .. Len(sent) : n \notin blocked}
      BY <1>1 DEF Done
    <3>2. Done' = {n \in 1 .. Len(sent') : n \notin blocked /\ n # Len(sent')}
      BY <1>1, <2>2 DEF Done
    <3> QED BY <1>1, <3>1, <3>2
  <2>5. \A n \in 1 .. Len(sent) : Requests[n] = Requests'[n]
    <3>1. \A n \in 1 .. Len(sent) : n \in 1 .. Len(sent')
      BY <1>1
    <3> QED BY <1>1, <3>1 DEF Requests
  <2>6. Done \in SUBSET (1 .. Len(sent))
    BY DEF Done
  <2>7. Told(Queued, Done, Requests')
    BY <1>1, <2>5, <2>6, ToldMoves DEF TakenInv
  <2>8. Told(Queued', Done', Requests')
    BY <2>1, <2>4, <2>7
  <2>9. Len(Queued') + Cardinality(blocked') + (IF Open' THEN 1 ELSE 0) = Len(sent')
    <3>1. PICK c : c = Cardinality(blocked)
      OBVIOUS
    <3>2. c \in Nat
      BY <3>1, BlockedCount
    <3>3. PICK q : q = Len(Queued)
      OBVIOUS
    <3>4. q + c + 0 = Len(sent)
      BY <2>3, <3>1, <3>3 DEF TakenInv
    <3>5. Cardinality(blocked') = c /\ Len(Queued') = q
      BY <1>1, <2>1, <3>1, <3>3
    <3>6. q \in Nat
      <4>1. accepted \in Seq(Made)
        BY DEF SentInv
      <4>2. Queued = accepted \/ Queued = Append(accepted, request)
        BY DEF Queued
      <4>3. Len(accepted) \in Nat /\ Len(Append(accepted, request)) = Len(accepted) + 1
        BY <4>1
      <4> QED BY <3>3, <4>2, <4>3
    <3>7. q + c + 1 = Len(sent')
      BY <1>1, <3>2, <3>4, <3>6
    <3> QED BY <2>3, <3>5, <3>7
  <2> QED BY <2>8, <2>9 DEF TakenInv
<1> QED BY <1>8, <1>9

-----------------------------------------------------------------------------
(* The byte that arrives is the next one of the last frame.                *)
LEMMA FirstByte ==
  ASSUME SentInv, Clean, LineInv, line # <<>>
  PROVE  /\ sent # <<>> /\ Passed \in 0 .. Len(Raw) - 1 /\ Head(line) = Raw[Passed + 1]
         /\ Tail(line) = SubSeq(Raw, (Passed + 1) + 1, Len(Raw))
         /\ Len(Raw) - Len(Tail(line)) = Passed + 1
         /\ Tail(line) = <<>> <=> Passed + 1 = Len(Raw)
<1>1. sent # <<>>
  BY DEF SentInv
<1>2. PICK raw : raw = Raw
  OBVIOUS
<1>3. PICK k : k = Passed
  OBVIOUS
<1>4. raw \in Seq(Byte) /\ k \in 0 .. Len(raw) /\ line = SubSeq(raw, k + 1, Len(raw))
  BY <1>1, <1>2, <1>3, FrameOf DEF LineInv
<1>5. Len(line) = Len(raw) - k /\ k \in 0 .. Len(raw) - 1 /\ Len(raw) \in Nat
  BY <1>4
<1>6. Head(line) = raw[k + 1]
  BY <1>4, <1>5
<1>7. PICK t : t = Tail(line)
  OBVIOUS
<1>8. PICK u : u = SubSeq(raw, (k + 1) + 1, Len(raw))
  OBVIOUS
<1>9. /\ line \in Seq(Byte) /\ \A i \in 1 .. Len(line) : line[i] = raw[k + i]
  BY <1>4, <1>5
<1>10. /\ t \in Seq(Byte) /\ Len(t) = Len(raw) - (k + 1)
       /\ \A i \in 1 .. Len(t) : t[i] = line[i + 1] /\ i + 1 \in 1 .. Len(line)
  BY <1>5, <1>7, <1>9
<1>11. /\ u \in Seq(Byte) /\ Len(u) = Len(raw) - (k + 1)
       /\ \A i \in 1 .. Len(u) : u[i] = raw[(k + 1) + i] /\ (k + 1) + i = k + (i + 1)
  <2>1. PICK d : d = k + 1
    OBVIOUS
  <2>2. d \in 0 .. Len(raw) /\ Len(raw) \in Nat /\ u = SubSeq(raw, d + 1, Len(raw))
    BY <1>5, <1>8, <2>1
  <2>3. u \in Seq(Byte) /\ Len(u) = Len(raw) - d /\ \A i \in 1 .. Len(u) : u[i] = raw[d + i]
    BY <1>4, <2>2
  <2>4. \A i \in 1 .. Len(u) : (k + 1) + i = k + (i + 1)
    BY <1>5, <2>3
  <2> QED BY <2>1, <2>3, <2>4
<1>12. \A i \in 1 .. Len(t) : t[i] = u[i]
  BY <1>9, <1>10, <1>11
<1>13. t = u
  BY <1>10, <1>11, <1>12, SeqEqual
<1>14. t = <<>> <=> k + 1 = Len(raw)
  BY <1>5, <1>10
<1>15. Len(raw) - Len(t) = k + 1
  BY <1>5, <1>10
<1> QED BY <1>1, <1>2, <1>3, <1>5, <1>6, <1>7, <1>8, <1>13, <1>14, <1>15

LEMMA QueuedKind ==
  ASSUME KindsInv, SentInv
  PROVE  Queued \in Seq(Made) /\ Len(Queued) \in Nat /\ Len(accepted) <= Len(Queued)
         /\ accepted \in Seq(Made)
         /\ \A j \in 1 .. Len(accepted) : j \in 1 .. Len(Queued) /\ accepted[j] = Queued[j]
<1>1. accepted \in Seq(Made) /\ (request = none \/ request \in Made)
  BY DEF SentInv, KindsInv
<1>2. CASE request = none
  BY <1>1, <1>2 DEF Queued
<1>3. CASE request # none
  <2>1. Queued = Append(accepted, request) /\ request \in Made
    BY <1>1, <1>3 DEF Queued
  <2> QED BY <1>1, <2>1
<1> QED BY <1>2, <1>3

(* What an edge does to the requests that were made: if the parser reads,  *)
(* the last one has been or is being taken.                                *)
LEMMA EdgeQueues ==
  ASSUME KindsInv, SentInv, NEW arrives \in BOOLEAN, NEW ready \in BOOLEAN, NEW set,
         ParserEdge(arrives, ready), BankEdge(ready, set)
  PROVE  LET reads == arrives /\ ~pending_block(ready)
             complete == reads /\ Complete(parser, Head(line))
         IN /\ Queued' = IF complete THEN Append(Queued, RequestOf(parser)) ELSE Queued
            /\ request' # none => complete \/ (~reads /\ request # none)
            /\ arrives /\ ~reads => request # none
            /\ line' = IF arrives THEN Tail(line) ELSE line
            /\ parser' = IF reads THEN Parsed(parser, Head(line)) ELSE parser
            /\ blocked' = IF arrives /\ ~reads THEN blocked \cup {Len(sent)} ELSE blocked
<1> DEFINE reads == arrives /\ ~pending_block(ready)
           complete == reads /\ Complete(parser, Head(line))
<1>1. /\ line' = IF arrives THEN Tail(line) ELSE line
      /\ parser' = IF reads THEN Parsed(parser, Head(line)) ELSE parser
      /\ request' = IF complete THEN RequestOf(parser) ELSE IF taken(ready) THEN none ELSE request
      /\ blocked' = IF arrives /\ ~reads THEN blocked \cup {Len(sent)} ELSE blocked
  BY DEF ParserEdge
<1>2. reads => request = none \/ taken(ready)
  BY DEF pending_block, taken
<1>3. arrives /\ ~reads => request # none /\ ~taken(ready)
  BY DEF pending_block, taken
<1>4. accepted' = IF taken(ready) THEN Append(accepted, request) ELSE accepted
  BY DEF BankEdge
<1>5. taken(ready) => request # none
  BY DEF taken
<1>6. complete => RequestOf(parser) # none
  BY RequestMade, NoneIsNone DEF KindsInv
<1> HIDE DEF reads, complete
<1>7. complete => reads
  BY DEF complete
<1>8. reads => accepted' = Queued
  BY <1>2, <1>4, <1>5 DEF Queued
<1>9. Queued' = IF complete THEN Append(Queued, RequestOf(parser)) ELSE Queued
  <2>1. CASE complete
    BY <1>1, <1>6, <1>7, <1>8, <2>1 DEF Queued
  <2>2. CASE ~complete
    BY <1>1, <1>4, <1>5, <2>2 DEF Queued
  <2> QED BY <2>1, <2>2
<1>10. request' # none => complete \/ (~reads /\ request # none)
  BY <1>1, <1>2
<1> QED BY <1>1, <1>3, <1>9, <1>10 DEF reads, complete

(* An edge of the clock: no byte, a byte that is dropped because a request *)
(* waits, a byte behind a dropped one, a byte of the frame in progress.    *)
LEMMA PathEdge ==
  ASSUME KindsInv, SentInv, SentInv', Clean, Clean', LineInv, TakenInv, Edge
  PROVE  LineInv' /\ TakenInv'
<1>1. PICK arrives \in BOOLEAN, ready \in BOOLEAN, set \in Raises :
        /\ arrives => line # <<>>
        /\ ParserEdge(arrives, ready) /\ BankEdge(ready, set)
  BY DEF Edge
<1>2. sent' = sent /\ Raw' = Raw /\ Requests' = Requests
  BY DEF Edge, Raw, Requests
<1> DEFINE reads == arrives /\ ~pending_block(ready)
           complete == reads /\ Complete(parser, Head(line))
<1>3. /\ Queued' = IF complete THEN Append(Queued, RequestOf(parser)) ELSE Queued
      /\ request' # none => complete \/ (~reads /\ request # none)
      /\ arrives /\ ~reads => request # none
      /\ line' = IF arrives THEN Tail(line) ELSE line
      /\ parser' = IF reads THEN Parsed(parser, Head(line)) ELSE parser
      /\ blocked' = IF arrives /\ ~reads THEN blocked \cup {Len(sent)} ELSE blocked
  BY <1>1, EdgeQueues
<1>4. (reads => arrives) /\ (complete => reads)
  OBVIOUS
<1>5. complete <=> reads /\ Complete(parser, Head(line))
  OBVIOUS
<1> HIDE DEF reads, complete
<1>6. Len(sent) \in Nat /\ Queued \in Seq(Made) /\ Len(Queued) \in Nat
  BY QueuedKind DEF SentInv
<1>7. CASE ~arrives
  <2>1. UNCHANGED <<line, parser, blocked, sent>> /\ Queued' = Queued
    BY <1>2, <1>3, <1>4, <1>7
  <2>2. request' # none => request # none
    BY <1>3, <1>4, <1>7
  <2>3. LineInv'
    <3>1. Passed' = Passed
      BY <1>2, <2>1 DEF Passed
    <3> QED BY <1>2, <2>1, <2>2, <3>1 DEF LineInv
  <2>4. Open' = Open /\ Done' = Done
    BY <2>1 DEF Open, Done
  <2>5. TakenInv'
    BY <1>2, <2>1, <2>4 DEF TakenInv
  <2> QED BY <2>3, <2>5
<1>8. ASSUME arrives PROVE LineInv' /\ TakenInv'
  <2>0. PICK k : k = Passed
    OBVIOUS
  <2>1. /\ sent # <<>> /\ k \in 0 .. Len(Raw) - 1 /\ Head(line) = Raw[k + 1]
        /\ Tail(line) = SubSeq(Raw, (k + 1) + 1, Len(Raw))
        /\ Len(Raw) - Len(Tail(line)) = k + 1
        /\ Tail(line) = <<>> <=> k + 1 = Len(Raw)
    BY <1>1, <1>8, <2>0, FirstByte
  <2>2. line # <<>> /\ line' = Tail(line)
    BY <1>1, <1>3, <1>8
  <2>3. /\ Len(sent) \in 1 .. Len(sent) /\ Fitting(sent[Len(sent)].request)
        /\ Raw \in Seq(Byte) /\ Len(Raw) = Size(sent[Len(sent)].request) /\ Len(Raw) \in {10, 18}
        /\ Requests[Len(sent)] = sent[Len(sent)].request
    BY <2>1, FrameOf
  <2>4. Passed' = k + 1 /\ k + 1 \in 0 .. Len(Raw) /\ k + 1 > 0
    BY <1>2, <2>1, <2>2, <2>3 DEF Passed
  <2>5. /\ Len(sent) \in blocked => k > 0 /\ parser = Waiting
        /\ Len(sent) \notin blocked => parser = At(Raw, k)
    BY <2>0, <2>1 DEF LineInv
  <2>6. /\ Len(sent) \in blocked' => parser' = Waiting
        /\ Len(sent) \notin blocked' => parser' = At(Raw, k + 1)
        /\ request' # none => parser' = Waiting
        => LineInv'
    <3>1. line' = SubSeq(Raw', Passed' + 1, Len(Raw'))
      BY <1>2, <2>1, <2>2, <2>4
    <3> QED BY <1>2, <2>1, <2>4, <3>1 DEF LineInv
  <2>7. PICK c : c = Cardinality(blocked)
    OBVIOUS
  <2>8. c \in Nat /\ IsFiniteSet(blocked)
    BY <2>7, BlockedCount
  <2>9. Len(Queued) + c + (IF Open THEN 1 ELSE 0) = Len(sent) /\ Told(Queued, Done, Requests)
    BY <2>7 DEF TakenInv
  <2>10. CASE ~reads
    <3>1. /\ request # none /\ parser' = parser /\ blocked' = blocked \cup {Len(sent)}
          /\ Queued' = Queued
      BY <1>3, <1>4, <1>8, <2>10
    <3>2. parser = Waiting
      BY <3>1 DEF LineInv
    <3>3. LineInv'
      BY <2>6, <3>1, <3>2
    <3>4. ~Open'
      BY <1>2, <3>1 DEF Open
    <3>5. Done' = Done
      <4>1. Done = {n \in 1 .. Len(sent) : n \notin blocked /\ n # Len(sent)}
        BY <2>2 DEF Done
      <4>2. Done' = {n \in 1 .. Len(sent) : n \notin blocked \cup {Len(sent)}}
        BY <1>2, <3>1 DEF Done
      <4> QED BY <4>1, <4>2
    <3>6. Cardinality(blocked') = IF Open THEN c + 1 ELSE c
      <4>1. CASE Len(sent) \in blocked
        <5>1. blocked' = blocked /\ ~Open
          BY <3>1, <4>1 DEF Open
        <5> QED BY <2>7, <5>1
      <4>2. CASE Len(sent) \notin blocked
        <5>1. Open
          BY <2>2, <4>2 DEF Open
        <5>2. Cardinality(blocked \cup {Len(sent)}) = c + 1
          BY <2>7, <2>8, <4>2, FS_AddElement
        <5> QED BY <3>1, <5>1, <5>2
      <4> QED BY <4>1, <4>2
    <3>7. Len(Queued') + Cardinality(blocked') + (IF Open' THEN 1 ELSE 0) = Len(sent')
      <4>1. PICK d : d = Cardinality(blocked')
        OBVIOUS
      <4>2. d = IF Open THEN c + 1 ELSE c
        BY <3>6, <4>1
      <4>3. Len(Queued) + d + 0 = Len(sent)
        BY <1>6, <2>8, <2>9, <4>2
      <4> QED BY <1>2, <3>1, <3>4, <4>1, <4>3
    <3>8. Told(Queued', Done', Requests')
      BY <1>2, <2>9, <3>1, <3>5
    <3> QED BY <3>3, <3>7, <3>8 DEF TakenInv
  <2>11. CASE reads /\ Len(sent) \in blocked
    <3>1. k > 0 /\ parser = Waiting /\ parser' = Parsed(Waiting, Raw[k + 1]) /\ blocked' = blocked
      BY <1>3, <2>1, <2>5, <2>11
    <3>2. Raw[k + 1] # SOF
      <4>1. ~sent[Len(sent)].inner
        BY <2>3, <2>11 DEF Clean
      <4>2. Known(Len(sent), sent[Len(sent)])
        BY <2>3 DEF SentInv
      <4>3. SOF \notin {Raw[i] : i \in 2 .. Len(Raw)}
        BY <4>1, <4>2 DEF Known, Raw
      <4>4. k + 1 \in 2 .. Len(Raw)
        BY <2>1, <2>3, <3>1
      <4> QED BY <4>3, <4>4
    <3>3. parser' = Waiting
      BY <3>1, <3>2 DEF Parsed, Waiting
    <3>4. ~complete
      BY <1>5, <3>1 DEF Complete, Waiting
    <3>5. LineInv'
      BY <2>6, <2>11, <3>1, <3>3
    <3>6. ~Open /\ ~Open' /\ Done' = Done /\ Queued' = Queued
      BY <1>2, <1>3, <2>11, <3>1, <3>4 DEF Open, Done
    <3>7. TakenInv'
      BY <1>2, <3>1, <3>6 DEF TakenInv
    <3> QED BY <3>5, <3>7
  <2>12. CASE reads /\ Len(sent) \notin blocked
    <3>1. parser = At(Raw, k) /\ parser' = Parsed(At(Raw, k), Raw[k + 1]) /\ blocked' = blocked
      BY <1>3, <2>1, <2>5, <2>12
    <3>2. /\ Parsed(At(Raw, k), Raw[k + 1]) = At(Raw, k + 1)
          /\ Complete(At(Raw, k), Raw[k + 1]) <=> k + 1 = Len(Raw)
          /\ k + 1 = Len(Raw) => RequestOf(At(Raw, k)) = Requests[Len(sent)]
      <4>1. PICK r : r = sent[Len(sent)].request
        OBVIOUS
      <4>2. Fitting(r) /\ Raw = Frame(r) /\ Len(Raw) = Size(r) /\ k \in 0 .. Size(r) - 1
        BY <2>1, <2>3, <4>1 DEF Raw
      <4>3. Parsed(At(Frame(r), k), Frame(r)[k + 1]) = At(Frame(r), k + 1)
        BY <4>2, AtGoes
      <4>4. /\ Complete(At(Frame(r), k), Frame(r)[k + 1]) <=> k + 1 = Size(r)
            /\ k + 1 = Size(r) => RequestOf(At(Frame(r), k)) = r
        BY <4>2, AtEnds
      <4> QED BY <2>3, <4>1, <4>2, <4>3, <4>4
    <3>3. complete <=> k + 1 = Len(Raw)
      BY <1>5, <2>1, <2>12, <3>1, <3>2
    <3>4. parser' = At(Raw, k + 1)
      BY <3>1, <3>2
    <3>5. LineInv'
      <4>1. At(Raw, Len(Raw)) = Waiting
        BY DEF At
      <4>2. request' # none => complete
        BY <1>3, <2>12
      <4> QED BY <2>6, <2>12, <3>1, <3>3, <3>4, <4>1, <4>2
    <3>6. Open /\ Done = {n \in 1 .. Len(sent) : n \notin blocked /\ n # Len(sent)}
      BY <2>2, <2>12 DEF Open, Done
    <3>7. CASE k + 1 # Len(Raw)
      <4>1. line' # <<>> /\ Queued' = Queued
        BY <1>3, <2>1, <2>2, <3>3, <3>7
      <4>2. Open' /\ Done' = Done
        BY <1>2, <2>12, <3>1, <3>6, <4>1 DEF Open, Done
      <4>3. TakenInv'
        BY <1>2, <3>1, <3>6, <4>1, <4>2 DEF TakenInv
      <4> QED BY <3>5, <4>3
    <3>8. CASE k + 1 = Len(Raw)
      <4>1. line' = <<>> /\ Queued' = Append(Queued, Requests[Len(sent)])
        BY <1>3, <2>1, <2>2, <3>1, <3>2, <3>3, <3>8
      <4>2. ~Open'
        BY <4>1 DEF Open
      <4>3. Done' = Done \cup {Len(sent)}
        <5>1. Done' = {n \in 1 .. Len(sent) : n \notin blocked}
          BY <1>2, <3>1, <4>1 DEF Done
        <5> QED BY <2>3, <2>12, <3>6, <5>1
      <4>4. Requests[Len(sent)] \in Made
        <5>1. RequestOf(parser) \in Made
          BY <1>5, <3>3, <3>8, RequestMade DEF KindsInv
        <5> QED BY <3>1, <3>2, <3>8, <5>1
      <4>5. Done \in SUBSET (1 .. Len(sent) - 1) /\ Len(sent) \in Nat \ {0}
        BY <1>6, <2>3, <3>6
      <4>6. Told(Append(Queued, Requests[Len(sent)]), Done \cup {Len(sent)}, Requests)
        BY <1>6, <2>9, <4>4, <4>5, ToldGrows
      <4>7. Told(Queued', Done', Requests')
        BY <1>2, <4>1, <4>3, <4>6
      <4>8. Len(Queued') = Len(Queued) + 1
        BY <1>6, <4>1, <4>4
      <4>9. Len(Queued') + Cardinality(blocked') + (IF Open' THEN 1 ELSE 0) = Len(sent')
        <5>1. Cardinality(blocked') = c
          BY <2>7, <3>1
        <5>2. (Len(Queued) + 1) + c + 0 = Len(sent)
          BY <1>6, <2>8, <2>9, <3>6
        <5> QED BY <1>2, <4>2, <4>8, <5>1, <5>2
      <4> QED BY <3>5, <4>7, <4>9 DEF TakenInv
    <3> QED BY <3>7, <3>8
  <2> QED BY <2>10, <2>11, <2>12
<1> QED BY <1>7, <1>8

LEMMA PathStep == KindsInv /\ PathInv /\ [Next]_vars => PathInv'
<1> SUFFICES ASSUME KindsInv, PathInv, [Next]_vars PROVE PathInv'
  OBVIOUS
<1>1. SentInv /\ SentInv'
  BY SentStep DEF PathInv
<1>2. ASSUME Clean' PROVE LineInv' /\ TakenInv'
  <2>1. Clean /\ LineInv /\ TakenInv
    BY <1>1, <1>2, StaysClean DEF PathInv
  <2>2. CASE Send
    BY <1>1, <1>2, <2>1, <2>2, PathSend
  <2>3. CASE Edge
    BY <1>1, <1>2, <2>1, <2>3, PathEdge
  <2>4. CASE UNCHANGED vars
    <3>1. LineInv'
      BY <2>1, <2>4 DEF vars, LineInv, Raw, Passed
    <3>2. TakenInv'
      BY <2>1, <2>4 DEF vars, TakenInv, Queued, Open, Done, Requests
    <3> QED BY <3>1, <3>2
  <2> QED BY <2>2, <2>3, <2>4 DEF Next
<1> QED BY <1>1, <1>2 DEF PathInv

(* What the bank took is the first part of what was made.                  *)
LEMMA PathCarried ==
  ASSUME KindsInv, PathInv, HurtCount = 0, Orderly, Len(sent) < Numbers
  PROVE  CommandsCarriedOut
<1>1. SentInv /\ Len(sent) \in Nat /\ sent \in Seq(Sents)
  BY DEF PathInv, SentInv
<1>2. \A n \in 1 .. Len(sent) : sent[n].whole
  <2> DEFINE h == {n \in 1 .. Len(sent) : ~sent[n].whole}
  <2>1. Cardinality(h) = 0
    BY DEF HurtCount
  <2>2. h \subseteq 1 .. Len(sent) /\ \A n \in 1 .. Len(sent) : ~sent[n].whole => n \in h
    OBVIOUS
  <2> HIDE DEF h
  <2>3. IsFiniteSet(1 .. Len(sent))
    BY <1>1, FS_Interval
  <2>4. PICK g : g = h
    OBVIOUS
  <2>5. g \in SUBSET (1 .. Len(sent))
    BY <2>2, <2>4
  <2>6. IsFiniteSet(g)
    BY <2>3, <2>5, FS_Subset
  <2>7. g = {}
    BY <2>1, <2>4, <2>6, FS_EmptySet
  <2> QED BY <2>2, <2>4, <2>7
<1>3. Clean
  BY <1>2 DEF Clean, Orderly
<1>4. TakenInv
  BY <1>3 DEF PathInv
<1>5. /\ Queued \in Seq(Made) /\ Len(Queued) \in Nat /\ Len(accepted) <= Len(Queued)
      /\ accepted \in Seq(Made)
      /\ \A j \in 1 .. Len(accepted) : j \in 1 .. Len(Queued) /\ accepted[j] = Queued[j]
  BY <1>1, QueuedKind
<1>6. Len(accepted) + Cardinality(blocked) <= Len(sent)
  <2>1. PICK c : c = Cardinality(blocked)
    OBVIOUS
  <2>2. c \in Nat
    BY <1>1, <2>1, BlockedCount
  <2>3. Len(Queued) + c + (IF Open THEN 1 ELSE 0) = Len(sent)
    BY <1>4, <2>1 DEF TakenInv
  <2>4. Len(accepted) \in Nat
    BY <1>5
  <2>5. Len(accepted) + c <= Len(sent)
    BY <1>1, <1>5, <2>2, <2>3, <2>4
  <2> QED BY <2>1, <2>5
<1>7. ASSUME NEW j \in 1 .. Len(accepted)
      PROVE  \E n \in 1 .. Len(sent) :
               /\ accepted[j] = Requests[n]
               /\ \A i \in 1 .. j - 1 : \E m \in 1 .. n - 1 : accepted[i] = Requests[m]
  <2>1. PICK n \in Done : /\ Queued[j] = Requests[n]
                          /\ \A i \in 1 .. j - 1 : \E m \in 1 .. n - 1 : Queued[i] = Requests[m]
    BY <1>4, <1>5 DEF TakenInv, Told
  <2>2. n \in 1 .. Len(sent)
    BY DEF Done
  <2>3. \A i \in 1 .. j - 1 : i \in 1 .. Len(accepted)
    BY <1>5
  <2> QED BY <1>5, <2>1, <2>2, <2>3
<1>8. ASSUME line = <<>>, request = none PROVE Cardinality(Missing \ blocked) <= 3 * HurtCount
  <2>1. Queued = accepted
    BY <1>8 DEF Queued
  <2>2. ASSUME NEW n \in Missing \ blocked PROVE FALSE
    <3>1. n \in Done
      BY <1>8, <2>2 DEF Done, Missing
    <3>2. PICK j \in 1 .. Len(accepted) : accepted[j] = Requests[n]
      BY <1>4, <2>1, <3>1 DEF TakenInv, Told
    <3>3. Requests[n] \in Range(accepted)
      BY <1>5, <3>2 DEF Range
    <3> QED BY <2>2, <3>3 DEF Missing
  <2>3. Missing \ blocked = {}
    BY <2>2
  <2>4. Cardinality(Missing \ blocked) = 0
    BY <2>3, FS_EmptySet
  <2> QED BY <2>4
<1>9. InOrder
  BY <1>7 DEF InOrder
<1> QED BY <1>6, <1>8, <1>9 DEF CommandsCarriedOut

(* While every frame came whole, and no byte within one looks like a start *)
(* if some came too early, the bank carries out what the host asked for,   *)
(* once and in order, and misses nothing but the frames that came while a  *)
(* request waited for it: whatever the requests, the gaps between the      *)
(* bytes and the back-pressure, as long as the numbers fit their 16 bits.  *)
THEOREM WholeFramesCarriedOut ==
  Spec => [](HurtCount = 0 /\ Orderly /\ Len(sent) < Numbers => CommandsCarriedOut)
<1>1. Spec => []PathInv
  BY PathInit, PathStep, Kinds, PTL DEF Spec
<1>2. KindsInv /\ PathInv => (HurtCount = 0 /\ Orderly /\ Len(sent) < Numbers => CommandsCarriedOut)
  BY PathCarried
<1> QED BY <1>1, <1>2, Kinds, PTL
=============================================================================
