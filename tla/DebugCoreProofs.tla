-------------------------- MODULE DebugCoreProofs --------------------------
(***************************************************************************)
(* Proofs about the debug core, for every depth of its queue, every width  *)
(* of its counters, every payload length and every set of inputs.          *)
(***************************************************************************)
EXTENDS DebugCore, FiniteSetTheorems, TLAPS

-----------------------------------------------------------------------------
(* Remainders: a number that starts again is kept modulo a constant.       *)
LEMMA ModRange ==
  ASSUME NEW m \in Nat \ {0}, NEW a \in Int
  PROVE  a % m \in 0 .. m - 1
OBVIOUS

LEMMA ModSmall ==
  ASSUME NEW m \in Nat \ {0}, NEW a \in 0 .. m - 1
  PROVE  a % m = a
OBVIOUS

LEMMA ModQuotient ==
  ASSUME NEW m \in Nat \ {0}, NEW a \in Int
  PROVE  \E q \in Int : a = (m * q) + (a % m)
<1>1. a = (m * (a \div m)) + (a % m)
  OBVIOUS
<1>2. a \div m \in Int
  OBVIOUS
<1> QED BY <1>1, <1>2

LEMMA ModUnique ==
  ASSUME NEW m \in Nat \ {0}, NEW a \in Int, NEW q \in Int, NEW r \in 0 .. m - 1,
         a = m * q + r
  PROVE  a % m = r
OBVIOUS

(* A remainder may be taken once or at every step.                         *)
LEMMA ModAdds ==
  ASSUME NEW m \in Nat \ {0}, NEW a \in Int, NEW b \in Int
  PROVE  ((a % m) + b) % m = (a + b) % m
<1>1. PICK q \in Int : a = (m * q) + (a % m)
  BY ModQuotient
<1>2. PICK p \in Int : (a % m) + b = (m * p) + (((a % m) + b) % m)
  <2>1. (a % m) + b \in Int
    BY ModRange
  <2> QED BY <2>1, ModQuotient
<1>3. ((a % m) + b) % m \in 0 .. m - 1 /\ a % m \in Int
  BY ModRange
<1>4. a + b = (m * (p + q)) + (((a % m) + b) % m)
  <2>1. m * (p + q) = m * p + m * q
    OBVIOUS
  <2>2. m * p \in Int /\ m * q \in Int
    OBVIOUS
  <2> DEFINE x == m * p
             y == m * q
             z == a % m
             w == (z + b) % m
  <2>3. w \in Int /\ z \in Int /\ x \in Int /\ y \in Int
    BY <1>3, <2>2
  <2>4. a = y + z /\ z + b = x + w
    BY <1>1, <1>2
  <2> HIDE DEF x, y, z, w
  <2>5. a + b = (x + y) + w
    BY <2>3, <2>4
  <2>6. m * (p + q) = x + y
    BY <2>1 DEF x, y
  <2> QED BY <2>3, <2>5, <2>6 DEF w, z
<1>5. p + q \in Int /\ a + b \in Int
  OBVIOUS
<1> QED BY <1>3, <1>4, <1>5, ModUnique

(* Less than m apart, two numbers have different remainders.               *)
LEMMA ModApart ==
  ASSUME NEW m \in Nat \ {0}, NEW a \in Int, NEW d \in 1 .. m - 1
  PROVE  a % m # (a + d) % m
<1> DEFINE r == a % m
<1>1. r \in 0 .. m - 1
  BY ModRange
<1>2. (a + d) % m = (r + d) % m
  <2>1. d \in Int
    OBVIOUS
  <2> QED BY <2>1, ModAdds, Zenon
<1>3. CASE r + d < m
  <2>1. r + d \in 0 .. m - 1
    BY <1>1, <1>3
  <2>2. (r + d) % m = r + d
    BY <2>1, ModSmall
  <2> QED BY <1>1, <1>2, <2>2
<1>4. CASE r + d >= m
  <2> DEFINE s == r + d - m
             t == r + d
  <2>1. s \in 0 .. m - 1 /\ t = m * 1 + s /\ t \in Int /\ s # r
    BY <1>1, <1>4
  <2> HIDE DEF s, t
  <2>2. t % m = s
    BY <2>1, ModUnique
  <2> QED BY <1>2, <2>1, <2>2 DEF t
<1> QED BY <1>1, <1>3, <1>4

LEMMA PlusProperties ==
  ASSUME NEW n \in Int, NEW d \in Int, NEW e \in Int
  PROVE  /\ Plus(n, d) \in 0 .. CountMod - 1
         /\ Plus(Plus(n, d), e) = Plus(n, d + e)
         /\ n \in 0 .. CountMod - 1 => Plus(n, 0) = n
<1>1. CountMod \in Nat \ {0}
  BY CoreAssumption
<1>2. n + d \in Int
  OBVIOUS
<1>3. (((n + d) % CountMod) + e) % CountMod = (n + d + e) % CountMod
  BY <1>1, <1>2, ModAdds
<1>4. n + d + e = n + (d + e)
  OBVIOUS
<1>5. Plus(Plus(n, d), e) = Plus(n, d + e)
  BY <1>3, <1>4 DEF Plus
<1>6. Plus(n, d) \in 0 .. CountMod - 1
  BY <1>1, <1>2, ModRange DEF Plus
<1>7. n \in 0 .. CountMod - 1 => Plus(n, 0) = n
  <2>1. n + 0 = n
    OBVIOUS
  <2> QED BY <1>1, <2>1, ModSmall DEF Plus
<1> QED BY <1>5, <1>6, <1>7

LEMMA OneType == ASSUME NEW c PROVE One(c) \in {0, 1}
BY DEF One

(***************************************************************************)
(* The priority chain.                                                     *)
(***************************************************************************)
LEMMA KindsOfOrders ==
  /\ Elements(LegacyOrder) = {"event", "watch", "print", "heartbeat", "status"}
  /\ Elements(StreamOrder) = {"trace", "la", "profiler"}
BY DEF Elements, LegacyOrder, StreamOrder

LEMMA FirstLegacy ==
  ASSUME NEW candidates \in SUBSET Elements(LegacyOrder), candidates # {}
  PROVE  First(LegacyOrder, candidates) \in candidates
<1> DEFINE P(i) == /\ LegacyOrder[i] \in candidates
                   /\ \A j \in 1 .. i - 1 : LegacyOrder[j] \notin candidates
<1>1. DOMAIN LegacyOrder = 1 .. 5
  BY DEF LegacyOrder
<1>2. \E i \in 1 .. 5 : P(i)
  BY KindsOfOrders DEF LegacyOrder
<1>3. P(CHOOSE i \in DOMAIN LegacyOrder : P(i))
  BY <1>1, <1>2
<1> QED BY <1>3 DEF First

LEMMA FirstStream ==
  ASSUME NEW candidates \in SUBSET Elements(StreamOrder), candidates # {}
  PROVE  First(StreamOrder, candidates) \in candidates
<1> DEFINE P(i) == /\ StreamOrder[i] \in candidates
                   /\ \A j \in 1 .. i - 1 : StreamOrder[j] \notin candidates
<1>1. DOMAIN StreamOrder = 1 .. 3
  BY DEF StreamOrder
<1>2. \E i \in 1 .. 3 : P(i)
  BY KindsOfOrders DEF StreamOrder
<1>3. P(CHOOSE i \in DOMAIN StreamOrder : P(i))
  BY <1>1, <1>2
<1> QED BY <1>3 DEF First

(* What the chain presents is a message of a known kind, and a stream is   *)
(* only let in while the queue has its headroom.                           *)
LEMMA PresentedKind ==
  ASSUME TypeOK, NEW legacy \in SUBSET Legacy, fifo_wr_type(legacy) # "none"
  PROVE  /\ fifo_wr_type(legacy) \in Kinds
         /\ fifo_wr_type(legacy) \in Elements(StreamOrder) => stream_wr_ready
         /\ \/ monitor_msg_valid
            \/ ~monitor_msg_valid /\ legacy # {}
            \/ /\ ~monitor_msg_valid /\ legacy = {}
               /\ stream_wr_ready /\ streams_waiting # {}
<1>1. legacy \subseteq Elements(LegacyOrder)
  BY CoreAssumption
<1>2. streams_waiting \subseteq Elements(StreamOrder)
  BY KindsOfOrders, CoreAssumption DEF streams_waiting, TypeOK
<1>3. CASE monitor_msg_valid
  <2>1. fifo_wr_type(legacy) = "monitor"
    BY <1>3 DEF fifo_wr_type
  <2> QED BY <1>3, <2>1, KindsOfOrders DEF Kinds
<1>4. CASE ~monitor_msg_valid /\ legacy # {}
  <2>1. fifo_wr_type(legacy) = First(LegacyOrder, legacy)
    BY <1>4 DEF fifo_wr_type
  <2>2. fifo_wr_type(legacy) \in Elements(LegacyOrder)
    BY <1>1, <1>4, <2>1, FirstLegacy
  <2> QED BY <1>4, <2>2, KindsOfOrders DEF Kinds
<1>5. CASE ~monitor_msg_valid /\ legacy = {} /\ stream_wr_ready /\ streams_waiting # {}
  <2>1. fifo_wr_type(legacy) = First(StreamOrder, streams_waiting)
    BY <1>5 DEF fifo_wr_type
  <2>2. fifo_wr_type(legacy) \in Elements(StreamOrder)
    BY <1>2, <1>5, <2>1, FirstStream
  <2> QED BY <1>5, <2>2 DEF Kinds
<1> QED BY <1>3, <1>4, <1>5 DEF fifo_wr_type

(***************************************************************************)
(* The queue.                                                              *)
(***************************************************************************)
QueueTypeOK ==
  /\ mem \in [0 .. Depth - 1 -> Message \union {NoMessage}]
  /\ wr_ptr \in 0 .. Depth - 1
  /\ rd_ptr \in 0 .. Depth - 1
  /\ count \in 0 .. Depth
  /\ wr_ptr = (rd_ptr + count) % Depth

LEMMA MessageTyped ==
  ASSUME NEW kind \in Kinds, packet_count \in 0 .. CountMod - 1
  PROVE  message_of(kind) \in Message
BY CoreAssumption DEF message_of, Message

(* An entry's place in the queue, whatever the pointers have wrapped to.   *)
LEMMA Places ==
  ASSUME NEW p \in 0 .. Depth - 1, NEW n \in 0 .. Depth, NEW r \in {0, 1}
  PROVE  /\ (p + n) % Depth \in 0 .. Depth - 1
         /\ (((p + r) % Depth) + n) % Depth = (p + (n + r)) % Depth
         /\ \A k \in 0 .. n - 1 : n - k < Depth => (p + k) % Depth # (p + n) % Depth
<1>1. Depth \in Nat \ {0} /\ p + n \in Int /\ p + r \in Int /\ n \in Int
  BY CoreAssumption
<1>2. (p + n) % Depth \in 0 .. Depth - 1
  BY <1>1, ModRange
<1>3. (((p + r) % Depth) + n) % Depth = ((p + r) + n) % Depth
  BY <1>1, ModAdds
<1>4. (p + r) + n = p + (n + r)
  BY <1>1
<1>5. ASSUME NEW k \in 0 .. n - 1, n - k < Depth
      PROVE  (p + k) % Depth # (p + n) % Depth
  <2> DEFINE d == n - k
             a == p + k
  <2>1. d \in 1 .. Depth - 1 /\ a \in Int /\ a + d = p + n
    BY <1>1, <1>5
  <2> HIDE DEF d, a
  <2>2. a % Depth # (a + d) % Depth
    BY <1>1, <2>1, ModApart
  <2> QED BY <2>1, <2>2 DEF a
<1> QED BY <1>2, <1>3, <1>4, <1>5

(* One clock edge: what is read leaves the front, what is written is the   *)
(* new last entry, and the others only move up.                            *)
LEMMA QueueMoves ==
  ASSUME QueueTypeOK, packet_count \in 0 .. CountMod - 1, NEW legacy,
         packet_accepted(legacy) => fifo_wr_type(legacy) \in Kinds,
         Enqueue(legacy)
  PROVE  /\ QueueTypeOK'
         /\ count' = count + One(packet_accepted(legacy)) - One(do_read)
         /\ do_read => count > 0
         /\ \A k \in 1 .. count' :
              IF k + One(do_read) <= count
              THEN Queued(k)' = Queued(k + One(do_read))
              ELSE /\ packet_accepted(legacy)
                   /\ k + One(do_read) = count + 1
                   /\ Queued(k)' = message_of(fifo_wr_type(legacy))
<1> DEFINE w == One(packet_accepted(legacy))
           r == One(do_read)
           kept == packet_accepted(legacy)
<1>1. /\ w \in {0, 1} /\ r \in {0, 1}
      /\ w = 1 <=> kept
      /\ r = 1 <=> do_read
  BY DEF One
<1>2. /\ Depth \in Nat \ {0}
      /\ count \in 0 .. Depth /\ rd_ptr \in 0 .. Depth - 1 /\ wr_ptr \in 0 .. Depth - 1
      /\ wr_ptr = (rd_ptr + count) % Depth
  BY CoreAssumption DEF QueueTypeOK
<1>3. /\ count' = count + w - r
      /\ rd_ptr' = (rd_ptr + r) % Depth
      /\ wr_ptr' = (wr_ptr + w) % Depth
      /\ kept => mem' = [mem EXCEPT ![wr_ptr] = message_of(fifo_wr_type(legacy))]
      /\ ~kept => mem' = mem
  BY DEF Enqueue
<1>4. /\ do_read => count > 0
      /\ kept => count < Depth \/ do_read
  BY DEF do_read, fifo_rd_valid, packet_accepted, fifo_wr_ready
<1> HIDE DEF w, r, kept
<1>5. count' \in 0 .. Depth
  BY <1>1, <1>2, <1>3, <1>4
<1>6. rd_ptr' \in 0 .. Depth - 1 /\ wr_ptr' \in 0 .. Depth - 1
  <2>1. rd_ptr + r \in Int /\ wr_ptr + w \in Int
    BY <1>1, <1>2
  <2> QED BY <1>2, <1>3, <2>1, ModRange
<1>7. wr_ptr' = (rd_ptr' + count') % Depth
  <2>1. (((rd_ptr + r) % Depth) + count') % Depth = (rd_ptr + (count' + r)) % Depth
    <3>1. rd_ptr \in 0 .. Depth - 1 /\ count' \in 0 .. Depth /\ r \in {0, 1}
      BY <1>1, <1>2, <1>5
    <3> QED BY <3>1, Places
  <2>2. rd_ptr + (count' + r) = (rd_ptr + count) + w
    BY <1>1, <1>2, <1>3
  <2>3. (((rd_ptr + count) % Depth) + w) % Depth = ((rd_ptr + count) + w) % Depth
    <3>1. rd_ptr + count \in Int /\ w \in Int
      BY <1>1, <1>2
    <3> QED BY <1>2, <3>1, ModAdds
  <2> QED BY <1>2, <1>3, <2>1, <2>2, <2>3
<1>8. mem' \in [0 .. Depth - 1 -> Message \union {NoMessage}]
  BY <1>2, <1>3, MessageTyped DEF QueueTypeOK, kept
<1>9. ASSUME NEW k \in 1 .. count'
      PROVE  IF k + r <= count
             THEN Queued(k)' = Queued(k + r)
             ELSE /\ kept
                  /\ k + r = count + 1
                  /\ Queued(k)' = message_of(fifo_wr_type(legacy))
  <2> DEFINE place == (rd_ptr + (k - 1 + r)) % Depth
  <2>1. k - 1 \in 0 .. Depth
    BY <1>2, <1>5
  <2>2. (((rd_ptr + r) % Depth) + (k - 1)) % Depth = (rd_ptr + (k - 1 + r)) % Depth
    <3>1. rd_ptr \in 0 .. Depth - 1 /\ r \in {0, 1}
      BY <1>1, <1>2
    <3> DEFINE n == k - 1
    <3>2. n \in 0 .. Depth
      BY <2>1
    <3> HIDE DEF n
    <3>3. (((rd_ptr + r) % Depth) + n) % Depth = (rd_ptr + (n + r)) % Depth
      BY <3>1, <3>2, Places
    <3> QED BY <3>3 DEF n
  <2>3. Queued(k)' = mem'[place]
    <3>1. rd_ptr' + k - 1 = rd_ptr' + (k - 1)
      BY <1>6
    <3> QED BY <1>3, <2>2, <3>1 DEF Queued
  <2>4. Queued(k + r) = mem[place]
    <3>1. rd_ptr + (k + r) - 1 = rd_ptr + (k - 1 + r)
      BY <1>1, <1>2
    <3> QED BY <3>1 DEF Queued
  <2>5. CASE k + r <= count
    <3>1. kept => place # wr_ptr
      <4> SUFFICES ASSUME kept PROVE place # wr_ptr
        OBVIOUS
      <4> DEFINE j == k - 1 + r
      <4>1. j \in 0 .. count - 1 /\ count - j < Depth
        BY <1>1, <1>2, <1>4, <2>5
      <4> HIDE DEF j
      <4>2. (rd_ptr + j) % Depth # (rd_ptr + count) % Depth
        BY <1>2, <4>1, Places
      <4> QED BY <1>2, <4>2 DEF j
    <3>2. place \in 0 .. Depth - 1
      <4>1. rd_ptr + (k - 1 + r) \in Int
        BY <1>1, <1>2
      <4> QED BY <1>2, <4>1, ModRange
    <3> HIDE DEF place
    <3>3. mem'[place] = mem[place]
      BY <1>3, <3>1, <3>2 DEF QueueTypeOK
    <3> QED BY <2>3, <2>4, <2>5, <3>3
  <2>6. CASE ~(k + r <= count)
    <3>1. kept /\ k + r = count + 1
      BY <1>1, <1>2, <1>3, <2>6
    <3>2. k - 1 + r = count
      BY <1>1, <1>2, <3>1
    <3>3. place = wr_ptr
      BY <1>2, <3>2
    <3> QED BY <1>2, <1>3, <2>3, <2>6, <3>1, <3>3 DEF QueueTypeOK
  <2> QED BY <2>5, <2>6
<1>10. QueueTypeOK'
  BY <1>5, <1>6, <1>7, <1>8 DEF QueueTypeOK
<1> QED BY <1>3, <1>4, <1>9, <1>10 DEF w, r, kept

(***************************************************************************)
(* The packetizer and what the far end has of its frame.  The inductive    *)
(* invariant ties the byte that is out, the byte the packetizer is at and  *)
(* the byte the far end expects to each other.                             *)
(***************************************************************************)
MessagesReal ==
  /\ \A k \in 1 .. count : Queued(k) \in Message
  /\ packetizer.state = "SEND" => packetizer.latched \in Message

FrameInv ==
  /\ receiver \in [message : Message \union {NoMessage}, next : 0 .. LastIndex,
                   frames : 0 .. CountMod - 1]
  /\ packetizer.state = "IDLE" =>
       IF out = NoByte THEN receiver.next = 0 ELSE out.index = LastIndex
  /\ out # NoByte => out.index = receiver.next /\ out.message = packetizer.latched
  /\ receiver.next > 0 => receiver.message = packetizer.latched
  /\ packetizer.state = "SEND" =>
       packetizer.byte_index = IF out = NoByte THEN 0 ELSE out.index + 1
  /\ packetizer.state = "SEND" /\ out = NoByte => receiver.next = 0

PacketizerTypeOK ==
  /\ packetizer \in [state : {"IDLE", "SEND"}, latched : Message \union {NoMessage},
                     byte_index : 0 .. LastIndex]
  /\ out \in [message : Message, index : 0 .. LastIndex] \union {NoByte}

(* The far end's half of Observe.                                          *)
Receive(ready) ==
  receiver' =
    IF out # NoByte /\ ready
    THEN IF out.index = LastIndex
         THEN [message |-> NoMessage, next |-> 0, frames |-> Plus(receiver.frames, 1)]
         ELSE [receiver EXCEPT !.message = out.message, !.next = out.index + 1]
    ELSE receiver

LEMMA OutTyped ==
  ASSUME PacketizerTypeOK
  PROVE  /\ LastIndex \in Nat
         /\ out # NoByte => out.message \in Message /\ out.index \in 0 .. LastIndex
         /\ \A m \in Message, i \in 0 .. LastIndex :
              [message |-> m, index |-> i] # NoByte
<1>1. LastIndex \in Nat
  BY CoreAssumption DEF LastIndex
<1>2. \A i \in 0 .. LastIndex : i # -1
  BY <1>1
<1>3. \A m \in Message, i \in 0 .. LastIndex : [message |-> m, index |-> i] # NoByte
  BY <1>2 DEF NoByte
<1> QED BY <1>1, <1>3 DEF PacketizerTypeOK

(* One edge of the packetizer: `ended' is one when the last byte of a      *)
(* frame is taken.                                                         *)
LEMMA PacketizerStep ==
  ASSUME QueueTypeOK, MessagesReal, PacketizerTypeOK, FrameInv,
         NEW ready \in BOOLEAN, ready => out # NoByte,
         Packetize(ready), Receive(ready)
  PROVE  /\ PacketizerTypeOK' /\ FrameInv'
         /\ packetizer'.state = "SEND" => packetizer'.latched \in Message
         /\ packetizer'.latched = IF do_read THEN Queued(1) ELSE packetizer.latched
         /\ do_read => ~sending /\ sending'
         /\ \E ended \in {0, 1} :
              /\ receiver'.frames = Plus(receiver.frames, ended)
              /\ One(sending') = One(sending) + One(do_read) - ended
              /\ sending' => ended = 0
<1>1. /\ LastIndex \in Nat
      /\ out # NoByte => out.message \in Message /\ out.index \in 0 .. LastIndex
      /\ \A m \in Message, i \in 0 .. LastIndex : [message |-> m, index |-> i] # NoByte
  BY OutTyped
<1>2. /\ packetizer.state \in {"IDLE", "SEND"}
      /\ packetizer.byte_index \in 0 .. LastIndex
      /\ receiver.frames \in 0 .. CountMod - 1
      /\ 0 \in 0 .. LastIndex
  BY <1>1 DEF PacketizerTypeOK, FrameInv
<1>3. Plus(receiver.frames, 0) = receiver.frames /\ Plus(receiver.frames, 1) \in 0 .. CountMod - 1
  BY <1>2, PlusProperties, CoreAssumption
<1>4. CASE do_read
  <2>1. /\ packetizer.state = "IDLE" /\ out = NoByte /\ count > 0 /\ ~ready
        /\ packetizer' = [state |-> "SEND", latched |-> mem[rd_ptr], byte_index |-> 0]
        /\ out' = out
    BY <1>4 DEF Packetize, do_read, packetizer_ready, fifo_rd_valid
  <2>2. receiver' = receiver
    BY <2>1 DEF Receive
  <2>3. Queued(1) = mem[rd_ptr] /\ Queued(1) \in Message
    <3>1. 1 \in 1 .. count /\ rd_ptr + 1 - 1 = rd_ptr
      BY <2>1 DEF QueueTypeOK
    <3>2. rd_ptr % Depth = rd_ptr
      BY CoreAssumption, ModSmall DEF QueueTypeOK
    <3> QED BY <3>1, <3>2 DEF Queued, MessagesReal
  <2>4. PacketizerTypeOK'
    BY <1>2, <2>1, <2>3 DEF PacketizerTypeOK
  <2>5. FrameInv'
    BY <1>2, <2>1, <2>2 DEF FrameInv
  <2>6. ~sending /\ sending'
    BY <2>1 DEF sending
  <2>7. One(sending') = One(sending) + One(do_read) - 0
    BY <1>4, <2>6 DEF One
  <2> QED BY <1>3, <1>4, <2>1, <2>2, <2>3, <2>4, <2>5, <2>6, <2>7
<1>5. CASE packetizer.state = "IDLE" /\ ~do_read
  <2>1. out' = (IF ready THEN NoByte ELSE out) /\ packetizer' = packetizer
    BY <1>5 DEF Packetize
  <2>2. CASE ready
    <3>1. out # NoByte /\ out.index = LastIndex
      BY <1>5, <2>2 DEF FrameInv
    <3>2. receiver' = [message |-> NoMessage, next |-> 0, frames |-> Plus(receiver.frames, 1)]
      BY <2>2, <3>1 DEF Receive
    <3>3. PacketizerTypeOK'
      BY <2>1, <2>2 DEF PacketizerTypeOK
    <3>4. FrameInv'
      BY <1>2, <1>3, <1>5, <2>1, <2>2, <3>2 DEF FrameInv
    <3>5. sending /\ ~sending'
      BY <1>5, <2>1, <2>2, <3>1 DEF sending
    <3>6. One(sending') = One(sending) + One(do_read) - 1
      BY <1>5, <3>5 DEF One
    <3> QED BY <1>5, <2>1, <3>2, <3>3, <3>4, <3>5, <3>6
  <2>3. CASE ~ready
    <3>1. UNCHANGED <<out, packetizer, receiver>>
      BY <2>1, <2>3 DEF Receive
    <3>2. PacketizerTypeOK' /\ FrameInv'
      BY <3>1 DEF PacketizerTypeOK, FrameInv
    <3>3. sending' = sending
      BY <3>1 DEF sending
    <3>4. One(sending') = One(sending) + One(do_read) - 0
      BY <1>5, <3>3 DEF One
    <3> QED BY <1>3, <1>5, <3>1, <3>2, <3>4
  <2> QED BY <2>2, <2>3
<1>6. CASE packetizer.state = "SEND"
  <2>1. ~do_read
    BY <1>6 DEF do_read, packetizer_ready
  <2>2. packetizer.latched \in Message
    BY <1>6 DEF MessagesReal
  <2>3. sending
    BY <1>6 DEF sending
  <2>4. CASE out = NoByte \/ ready
    <3>1. /\ out' = [message |-> packetizer.latched, index |-> packetizer.byte_index]
          /\ packetizer' = IF packetizer.byte_index = LastIndex
                           THEN [packetizer EXCEPT !.state = "IDLE", !.byte_index = 0]
                           ELSE [packetizer EXCEPT !.byte_index = @ + 1]
      BY <1>6, <2>1, <2>4 DEF Packetize
    <3>2. out' # NoByte
      BY <1>1, <1>2, <2>2, <3>1
    <3>3. packetizer.byte_index # LastIndex => packetizer.byte_index + 1 \in 0 .. LastIndex
      BY <1>1, <1>2
    <3>4. PacketizerTypeOK'
      BY <1>2, <2>2, <3>1, <3>3 DEF PacketizerTypeOK
    <3>5. /\ packetizer'.latched = packetizer.latched
          /\ out'.index = packetizer.byte_index /\ out'.message = packetizer.latched
          /\ packetizer.byte_index = LastIndex => packetizer'.state = "IDLE"
          /\ packetizer.byte_index # LastIndex =>
               packetizer'.state = "SEND" /\ packetizer'.byte_index = packetizer.byte_index + 1
      BY <1>6, <3>1 DEF PacketizerTypeOK
    <3>6. /\ receiver' \in [message : Message \union {NoMessage}, next : 0 .. LastIndex,
                            frames : 0 .. CountMod - 1]
          /\ receiver'.next = packetizer.byte_index
          /\ receiver'.next > 0 => receiver'.message = packetizer.latched
          /\ receiver'.frames = receiver.frames
      <4>1. CASE out = NoByte
        <5>1. receiver' = receiver /\ receiver.next = 0 /\ packetizer.byte_index = 0
          BY <1>6, <4>1 DEF Receive, FrameInv
        <5> QED BY <5>1 DEF FrameInv
      <4>2. CASE out # NoByte /\ ready
        <5>1. /\ packetizer.byte_index = out.index + 1
              /\ out.message = packetizer.latched
              /\ out.index \in 0 .. LastIndex
          BY <1>1, <1>6, <4>2 DEF FrameInv
        <5>2. out.index # LastIndex
          BY <1>1, <1>2, <5>1
        <5>3. receiver' = [receiver EXCEPT !.message = out.message, !.next = out.index + 1]
          BY <4>2, <5>2 DEF Receive
        <5> QED BY <1>2, <2>2, <5>1, <5>3 DEF FrameInv
      <4> QED BY <2>4, <4>1, <4>2
    <3>7. FrameInv'
      BY <1>2, <3>2, <3>5, <3>6 DEF FrameInv
    <3>8. sending'
      BY <3>2 DEF sending
    <3>9. One(sending') = One(sending) + One(do_read) - 0
      BY <2>1, <2>3, <3>8 DEF One
    <3> QED BY <1>3, <2>1, <2>2, <3>4, <3>5, <3>6, <3>7, <3>9
  <2>5. CASE out # NoByte /\ ~ready
    <3>1. UNCHANGED <<out, packetizer, receiver>>
      BY <1>6, <2>1, <2>5 DEF Packetize, Receive
    <3>2. PacketizerTypeOK' /\ FrameInv'
      BY <3>1 DEF PacketizerTypeOK, FrameInv
    <3>3. sending' = sending
      BY <3>1 DEF sending
    <3>4. One(sending') = One(sending) + One(do_read) - 0
      BY <2>1, <3>3 DEF One
    <3> QED BY <1>3, <2>1, <2>2, <3>1, <3>2, <3>4
  <2> QED BY <2>4, <2>5
<1> QED BY <1>2, <1>4, <1>5, <1>6

(***************************************************************************)
(* Counting the inputs of one cycle.                                       *)
(***************************************************************************)
LEMMA InputsFinite ==
  /\ \A legacy \in SUBSET Legacy : IsFiniteSet(legacy)
  /\ \A trace \in SUBSET TraceInputs : IsFiniteSet(trace)
  /\ \A holders \in SUBSET Holders : IsFiniteSet(holders)
<1>1. \A x : IsFiniteSet({x})
  BY FS_Singleton
<1>2. \A S, x : IsFiniteSet(S) => IsFiniteSet(S \union {x})
  BY FS_AddElement
<1>3. IsFiniteSet({"event", "watch", "print", "heartbeat", "status"})
  <2>1. IsFiniteSet(((({"event"} \union {"watch"}) \union {"print"})
                       \union {"heartbeat"}) \union {"status"})
    BY <1>1, <1>2
  <2>2. {"event", "watch", "print", "heartbeat", "status"}
          = ((({"event"} \union {"watch"}) \union {"print"})
               \union {"heartbeat"}) \union {"status"}
    OBVIOUS
  <2> QED BY <2>1, <2>2
<1>4. IsFiniteSet({"span_begin", "span_end", "mark", "value", "drop"})
  <2>1. IsFiniteSet(((({"span_begin"} \union {"span_end"}) \union {"mark"})
                       \union {"value"}) \union {"drop"})
    BY <1>1, <1>2
  <2>2. {"span_begin", "span_end", "mark", "value", "drop"}
          = ((({"span_begin"} \union {"span_end"}) \union {"mark"})
               \union {"value"}) \union {"drop"}
    OBVIOUS
  <2> QED BY <2>1, <2>2
<1>5. IsFiniteSet({"monitor", "la", "profiler"})
  <2>1. IsFiniteSet(({"monitor"} \union {"la"}) \union {"profiler"})
    BY <1>1, <1>2
  <2>2. {"monitor", "la", "profiler"} = ({"monitor"} \union {"la"}) \union {"profiler"}
    OBVIOUS
  <2> QED BY <2>1, <2>2
<1>6. IsFiniteSet(Legacy) /\ IsFiniteSet(TraceInputs) /\ IsFiniteSet(Holders)
  <2>1. Legacy \in SUBSET {"event", "watch", "print", "heartbeat", "status"}
    BY CoreAssumption, KindsOfOrders
  <2>2. /\ TraceInputs \in SUBSET {"span_begin", "span_end", "mark", "value", "drop"}
        /\ Holders \in SUBSET {"monitor", "la", "profiler"}
    BY CoreAssumption
  <2> QED BY <1>3, <1>4, <1>5, <2>1, <2>2, FS_Subset
<1> QED BY <1>6, FS_Subset

taken(legacy) == {h \in offered : msg_ready(h, legacy)}

LEMMA InputCounts ==
  ASSUME offered \subseteq Holders,
         NEW legacy \in SUBSET Legacy, NEW trace \in SUBSET TraceInputs
  PROVE  /\ Cardinality(legacy) \in Nat /\ (Cardinality(legacy) = 0 <=> legacy = {})
         /\ Cardinality(trace) \in Nat /\ (Cardinality(trace) = 0 <=> trace = {})
         /\ Cardinality(taken(legacy)) \in Nat
<1>1. IsFiniteSet(legacy) /\ IsFiniteSet(trace) /\ IsFiniteSet(taken(legacy))
  BY InputsFinite DEF taken
<1> QED BY <1>1, FS_CardinalityType, FS_EmptySet

(* The handshakes computed apart from the priority chain let go exactly    *)
(* the holder whose message the chain presents, and none else.             *)
LEMMA HandshakesAgree ==
  ASSUME offered \subseteq Holders, trace_msg_valid \in BOOLEAN, NEW legacy
  PROVE  Cardinality(taken(legacy)) =
           One(/\ packet_accepted(legacy)
               /\ \/ monitor_msg_valid
                  \/ legacy = {} /\ ~trace_msg_valid)
<1>1. offered \subseteq {"monitor", "la", "profiler"}
  BY CoreAssumption
<1>2. Cardinality({}) = 0 /\ \A x : Cardinality({x}) = 1
  BY FS_EmptySet, FS_Singleton
<1>3. \A h \in offered :
        msg_ready(h, legacy) =
          IF h = "monitor" THEN fifo_wr_ready
          ELSE /\ trace_msg_ready(legacy) /\ ~trace_msg_valid
               /\ h = "profiler" => "la" \notin offered
  BY <1>1 DEF msg_ready
<1>4. stream_wr_ready => fifo_wr_ready
  BY DEF stream_wr_ready
<1>5. CASE monitor_msg_valid
  <2>1. packet_accepted(legacy) <=> fifo_wr_ready
    BY <1>5 DEF packet_accepted, fifo_wr_type
  <2>2. ~trace_msg_ready(legacy)
    BY <1>5 DEF trace_msg_ready
  <2>3. taken(legacy) = IF fifo_wr_ready THEN {"monitor"} ELSE {}
    BY <1>1, <1>3, <1>5, <2>2 DEF taken, monitor_msg_valid
  <2> QED BY <1>2, <1>5, <2>1, <2>3 DEF One
<1>6. CASE ~monitor_msg_valid /\ ~(legacy = {} /\ ~trace_msg_valid)
  <2>1. taken(legacy) = {}
    BY <1>3, <1>6 DEF taken, monitor_msg_valid, trace_msg_ready
  <2> QED BY <1>2, <1>6, <2>1 DEF One
<1>7. CASE ~monitor_msg_valid /\ legacy = {} /\ ~trace_msg_valid
  <2>1. streams_waiting = offered
    BY <1>7 DEF streams_waiting, monitor_msg_valid
  <2>2. offered \subseteq {"la", "profiler"}
    BY <1>1, <1>7 DEF monitor_msg_valid
  <2>3. trace_msg_ready(legacy) <=> stream_wr_ready
    BY <1>7 DEF trace_msg_ready
  <2>4. CASE stream_wr_ready /\ offered # {}
    <3>1. fifo_wr_type(legacy) = First(StreamOrder, streams_waiting)
      BY <1>7, <2>1, <2>4 DEF fifo_wr_type
    <3>2. fifo_wr_type(legacy) # "none"
      <4>1. streams_waiting \in SUBSET Elements(StreamOrder) /\ streams_waiting # {}
        BY <2>1, <2>2, <2>4, KindsOfOrders
      <4> QED BY <3>1, <4>1, FirstStream, KindsOfOrders
    <3>3. packet_accepted(legacy)
      BY <1>4, <2>4, <3>2 DEF packet_accepted
    <3>4. taken(legacy) = {IF "la" \in offered THEN "la" ELSE "profiler"}
      BY <1>3, <1>7, <2>2, <2>3, <2>4 DEF taken
    <3> QED BY <1>2, <1>7, <3>3, <3>4 DEF One
  <2>5. CASE ~(stream_wr_ready /\ offered # {})
    <3>1. fifo_wr_type(legacy) = "none"
      BY <1>7, <2>1, <2>5 DEF fifo_wr_type
    <3>2. ~packet_accepted(legacy)
      BY <3>1 DEF packet_accepted
    <3>3. taken(legacy) = {}
      BY <1>3, <1>7, <2>2, <2>3, <2>5 DEF taken
    <3> QED BY <1>2, <3>2, <3>3 DEF One
  <2> QED BY <2>4, <2>5
<1> QED BY <1>5, <1>6, <1>7

(* Of what is handed over in a cycle and not queued, the adapter's         *)
(* register taken into account, the legacy part is counted exactly, and    *)
(* the trace part exactly unless two trace pulses came at once.            *)
traceLost(legacy, trace) ==
  Cardinality(trace) + Cardinality(taken(legacy)) - One(packet_accepted(legacy))
    + One(legacy_packet_accepted(legacy))
    + One(trace_msg_valid)
    - One(trace # {} \/ (trace_msg_valid /\ ~trace_msg_ready(legacy)))

LEMMA Accounting ==
  ASSUME offered \subseteq Holders, trace_msg_valid \in BOOLEAN,
         NEW legacy \in SUBSET Legacy, NEW trace \in SUBSET TraceInputs
  PROVE  /\ traceLost(legacy, trace) \in Int
         /\ One(trace_dropped(legacy, trace)) <= traceLost(legacy, trace)
         /\ traceLost(legacy, trace) <= Cardinality(trace)
         /\ Cardinality(trace) <= 1 =>
              traceLost(legacy, trace) = One(trace_dropped(legacy, trace))
         /\ traceLost(legacy, trace) > 0 => trace_dropped(legacy, trace)
         /\ core_drop_increment(legacy) \in 0 .. Cardinality(legacy)
<1> DEFINE T == Cardinality(trace)
           H == Cardinality(taken(legacy))
           W == packet_accepted(legacy)
           P == legacy_packet_accepted(legacy)
           t == trace_msg_valid
           go == trace_msg_ready(legacy)
           counted == One(trace_dropped(legacy, trace))
           X == traceLost(legacy, trace)
<1>1. /\ T \in Nat /\ (T = 0 <=> trace = {})
      /\ Cardinality(legacy) \in Nat /\ (Cardinality(legacy) = 0 <=> legacy = {})
      /\ H \in Nat
  BY InputCounts
<1>2. H = One(W /\ (monitor_msg_valid \/ (legacy = {} /\ ~t)))
  BY HandshakesAgree
<1>3. /\ P <=> W /\ ~monitor_msg_valid /\ legacy # {}
      /\ go <=> stream_wr_ready /\ ~monitor_msg_valid /\ legacy = {}
  BY DEF legacy_packet_accepted, trace_msg_ready
<1>4. go /\ t => W
  <2> SUFFICES ASSUME go, t PROVE W
    OBVIOUS
  <2>1. /\ ~monitor_msg_valid /\ legacy = {}
        /\ stream_wr_ready /\ fifo_wr_ready /\ "trace" \in streams_waiting
    BY <1>3 DEF stream_wr_ready, streams_waiting
  <2>2. fifo_wr_type(legacy) = First(StreamOrder, streams_waiting)
    BY <2>1 DEF fifo_wr_type
  <2>3. streams_waiting \in SUBSET Elements(StreamOrder) /\ streams_waiting # {}
    BY <2>1, KindsOfOrders, CoreAssumption DEF streams_waiting
  <2>4. fifo_wr_type(legacy) # "none"
    BY <2>2, <2>3, FirstStream, KindsOfOrders
  <2> QED BY <2>1, <2>4 DEF packet_accepted
<1>5. W /\ ~monitor_msg_valid /\ legacy = {} => go
  BY <1>3 DEF packet_accepted, fifo_wr_type
<1>6. trace_dropped(legacy, trace) <=> T > 1 \/ (trace # {} /\ t /\ ~go)
  BY DEF trace_dropped
<1>7. /\ X = T + H - One(W) + One(P) + One(t)
              - One(trace # {} \/ (t /\ ~go))
      /\ core_drop_increment(legacy) = Cardinality(legacy) - One(P)
  BY DEF traceLost, core_drop_increment
<1> DEFINE Claim == /\ X \in Int /\ counted <= X /\ X <= T
                    /\ T <= 1 => X = counted
                    /\ X > 0 => counted = 1
<1> HIDE DEF T, H, W, P, t, go, X
<1>8. core_drop_increment(legacy) \in 0 .. Cardinality(legacy)
  BY <1>1, <1>3, <1>7 DEF One
<1>9. ASSUME monitor_msg_valid \/ legacy # {} PROVE Claim
  <2>1. H + One(P) = One(W) /\ ~go
    BY <1>2, <1>3, <1>9 DEF One
  <2>2. X = T + One(t) - One(trace # {} \/ t)
    BY <1>1, <1>7, <2>1 DEF One
  <2>3. CASE T = 0
    BY <1>1, <1>6, <1>8, <2>2, <2>3 DEF One
  <2>4. CASE T # 0
    BY <1>1, <1>6, <1>8, <2>1, <2>2, <2>4 DEF One
  <2> QED BY <2>3, <2>4
<1>10. ASSUME ~monitor_msg_valid /\ legacy = {} PROVE Claim
  <2>1. ~P /\ (W => go) /\ (go /\ t => W) /\ H = One(W /\ ~t)
    BY <1>2, <1>3, <1>4, <1>5, <1>10
  <2>2. X = T + One(t /\ ~go) - One(trace # {} \/ (t /\ ~go))
    BY <1>1, <1>7, <2>1 DEF One
  <2>3. CASE T = 0
    BY <1>1, <1>6, <1>8, <2>2, <2>3 DEF One
  <2>4. CASE T # 0
    BY <1>1, <1>6, <1>8, <2>2, <2>4 DEF One
  <2> QED BY <2>3, <2>4
<1>11. Claim
  BY <1>9, <1>10
<1> QED BY <1>8, <1>11 DEF T, X, One

(***************************************************************************)
(* Type correctness and the frame invariant.                               *)
(***************************************************************************)
CoreInv == TypeOK /\ MessagesReal /\ FrameInv

LEMMA TypeParts ==
  TypeOK <=>
    /\ QueueTypeOK /\ PacketizerTypeOK
    /\ offered \subseteq Holders
    /\ trace_msg_valid \in BOOLEAN
    /\ packet_count \in 0 .. CountMod - 1
    /\ drop_count \in 0 .. CountMod - 1
    /\ receiver.frames \in 0 .. CountMod - 1
    /\ balance \in 0 .. CountMod - 1
    /\ receiver.next \in 0 .. LastIndex
    /\ doubled \in BOOLEAN
BY DEF TypeOK, QueueTypeOK, PacketizerTypeOK

LEMMA CycleType ==
  ASSUME CoreInv,
         NEW legacy \in SUBSET Legacy, NEW trace \in SUBSET TraceInputs,
         NEW new \in SUBSET Holders, NEW ready \in BOOLEAN,
         ready => out # NoByte,
         Cycle(legacy, trace, ready, new)
  PROVE  CoreInv'
<1>1. /\ QueueTypeOK /\ PacketizerTypeOK /\ MessagesReal /\ FrameInv
      /\ offered \subseteq Holders
      /\ trace_msg_valid \in BOOLEAN /\ doubled \in BOOLEAN
      /\ packet_count \in 0 .. CountMod - 1
      /\ drop_count \in 0 .. CountMod - 1
      /\ balance \in 0 .. CountMod - 1
  BY TypeParts DEF CoreInv
<1>2. packet_accepted(legacy) => fifo_wr_type(legacy) \in Kinds
  BY PresentedKind DEF packet_accepted, CoreInv
<1>3. /\ QueueTypeOK'
      /\ count' = count + One(packet_accepted(legacy)) - One(do_read)
      /\ \A k \in 1 .. count' :
           IF k + One(do_read) <= count
           THEN Queued(k)' = Queued(k + One(do_read))
           ELSE /\ packet_accepted(legacy)
                /\ Queued(k)' = message_of(fifo_wr_type(legacy))
  BY <1>1, <1>2, QueueMoves DEF Cycle
<1>4. /\ PacketizerTypeOK' /\ FrameInv'
      /\ packetizer'.state = "SEND" => packetizer'.latched \in Message
  BY <1>1, PacketizerStep DEF Cycle, Observe, Receive
<1>5. MessagesReal'
  <2>1. ASSUME NEW k \in 1 .. count' PROVE Queued(k)' \in Message
    <3>1. One(do_read) \in {0, 1}
      BY OneType
    <3>2. CASE k + One(do_read) <= count
      BY SMTT(20), <1>1, <1>3, <3>1, <3>2 DEF MessagesReal, QueueTypeOK
    <3>3. CASE ~(k + One(do_read) <= count)
      BY <1>1, <1>2, <1>3, <3>3, MessageTyped
    <3> QED BY <3>2, <3>3
  <2> QED BY <1>4, <2>1 DEF MessagesReal
<1>6. packet_count' \in 0 .. CountMod - 1
  <2>1. packet_count \in Int /\ One(packet_accepted(legacy)) \in Int
    BY <1>1, CoreAssumption DEF One
  <2> QED BY <2>1, PlusProperties DEF Cycle, Count
<1>7. drop_count' \in 0 .. CountMod - 1
  <2>1. /\ drop_count \in Int
        /\ core_drop_increment(legacy) + One(trace_dropped(legacy, trace)) \in Int
    BY <1>1, Accounting, InputCounts, CoreAssumption DEF One
  <2> QED BY <2>1, PlusProperties DEF Cycle, Count
<1>8. balance' \in 0 .. CountMod - 1
  <2> DEFINE change == Cardinality(legacy) + Cardinality(trace) + Cardinality(taken(legacy))
                         - (count' - count + One(do_read))
  <2>1. balance' = Plus(balance, change)
    BY DEF Cycle, Observe, taken
  <2>2. change \in Int /\ balance \in Int
    <3>1. count' - count + One(do_read) \in Int /\ balance \in Int
      BY <1>1, <1>3, CoreAssumption DEF One, QueueTypeOK
    <3> QED BY <1>1, <3>1, InputCounts
  <2> HIDE DEF change
  <2> QED BY <2>1, <2>2, PlusProperties
<1>9. offered' \subseteq Holders
  BY <1>1 DEF Cycle, HoldersNext
<1>10. trace_msg_valid' \in BOOLEAN /\ doubled' \in BOOLEAN
  BY <1>1 DEF Cycle, TraceAdapter, Observe
<1>11. receiver'.frames \in 0 .. CountMod - 1 /\ receiver'.next \in 0 .. LastIndex
  BY <1>4 DEF FrameInv
<1>12. TypeOK'
  BY <1>3, <1>4, <1>6, <1>7, <1>8, <1>9, <1>10, <1>11
  DEF TypeOK, QueueTypeOK, PacketizerTypeOK
<1> QED BY <1>4, <1>5, <1>12 DEF CoreInv

(* The inputs of one clock edge, with the bounds of the instance.          *)
Inputs(legacy, trace, new, ready) ==
  /\ ready => out # NoByte
  /\ Cardinality(legacy) + Cardinality(trace) + Cardinality(new) <= MaxAtOnce
  /\ drop_count >= MaxDrops => legacy = {} /\ trace = {}
  /\ Cycle(legacy, trace, ready, new)

LEMMA NextCases ==
  ASSUME [Next]_vars
  PROVE  \/ \E legacy \in SUBSET Legacy, trace \in SUBSET TraceInputs,
               new \in SUBSET Holders, ready \in BOOLEAN :
              Inputs(legacy, trace, new, ready)
         \/ Reset
         \/ UNCHANGED vars
BY DEF Next, NoByteTaken, ByteTaken, Tick, Inputs

LEMMA ZeroTypes ==
  /\ 0 \in 0 .. CountMod - 1 /\ 0 \in 0 .. Depth - 1 /\ 0 \in 0 .. Depth
  /\ 0 \in 0 .. LastIndex
  /\ 0 % Depth = 0
  /\ [slot \in 0 .. Depth - 1 |-> NoMessage]
       \in [0 .. Depth - 1 -> Message \union {NoMessage}]
BY CoreAssumption, ModSmall DEF LastIndex

(* What holds of the reset values holds after a reset and at the start.    *)
Cleared ==
  /\ mem = [slot \in 0 .. Depth - 1 |-> NoMessage]
  /\ offered = {} /\ trace_msg_valid = FALSE
  /\ wr_ptr = 0 /\ rd_ptr = 0 /\ count = 0
  /\ packetizer = [state |-> "IDLE", latched |-> NoMessage, byte_index |-> 0]
  /\ out = NoByte
  /\ packet_count = 0 /\ drop_count = 0
  /\ receiver = [message |-> NoMessage, next |-> 0, frames |-> 0]
  /\ balance = 0
  /\ doubled = FALSE

LEMMA ClearedCoreInv == Cleared => CoreInv
<1> SUFFICES ASSUME Cleared PROVE CoreInv
  OBVIOUS
<1>1. QueueTypeOK
  <2>1. (rd_ptr + count) % Depth = 0
    BY ZeroTypes DEF Cleared
  <2> QED BY <2>1, ZeroTypes DEF Cleared, QueueTypeOK
<1>2. PacketizerTypeOK
  BY ZeroTypes DEF Cleared, PacketizerTypeOK
<1>3. TypeOK
  BY <1>1, <1>2, ZeroTypes, TypeParts DEF Cleared
<1>4. MessagesReal /\ FrameInv
  BY ZeroTypes DEF Cleared, MessagesReal, FrameInv
<1> QED BY <1>3, <1>4 DEF CoreInv

(* The same, of the next state: after a reset.                             *)
LEMMA ResetClears == Reset => Cleared'
BY DEF Reset, Cleared

LEMMA ResetCoreInv == Cleared' => CoreInv'
BY ClearedCoreInv, PTL

LEMMA UnchangedCoreInv == CoreInv /\ UNCHANGED vars => CoreInv'
BY DEF CoreInv, TypeOK, MessagesReal, FrameInv, Queued, vars, queue, counters, history

LEMMA CoreStep == CoreInv /\ [Next]_vars => CoreInv'
<1> SUFFICES ASSUME CoreInv, [Next]_vars PROVE CoreInv'
  OBVIOUS
<1>1. ASSUME NEW legacy \in SUBSET Legacy, NEW trace \in SUBSET TraceInputs,
             NEW new \in SUBSET Holders, NEW ready \in BOOLEAN,
             Inputs(legacy, trace, new, ready)
      PROVE  CoreInv'
  BY <1>1, CycleType DEF Inputs
<1>2. CASE Reset
  BY <1>2, ResetClears, ResetCoreInv
<1>3. CASE UNCHANGED vars
  BY <1>3, UnchangedCoreInv
<1> QED BY <1>1, <1>2, <1>3, NextCases

LEMMA CoreInit == Init => CoreInv
<1>1. Init => Cleared
  BY DEF Init, Cleared
<1> QED BY <1>1, ClearedCoreInv

(* Every register of the core keeps its range, and the write pointer is    *)
(* always count entries ahead of the read pointer.                         *)
THEOREM TypeCorrect == Spec => []TypeOK
<1>1. CoreInv => TypeOK
  BY DEF CoreInv
<1> QED BY <1>1, CoreInit, CoreStep, PTL DEF Spec

(* The far end always gets the next byte of the frame it is in, whatever   *)
(* the back-pressure and whatever waits behind.                            *)
THEOREM FramesAreWhole == Spec => []FramesWhole
<1>1. CoreInv => FramesWhole
  BY DEF CoreInv, FrameInv, FramesWhole
<1> QED BY <1>1, CoreInit, CoreStep, PTL DEF Spec

(***************************************************************************)
(* The headroom.                                                           *)
(***************************************************************************)
HeadroomInv == CoreInv /\ HeadroomKept

LEMMA HeadroomCycle ==
  ASSUME HeadroomInv, NEW legacy \in SUBSET Legacy, Enqueue(legacy)
  PROVE  HeadroomKept'
<1> DEFINE r == One(do_read)
           kind == fifo_wr_type(legacy)
<1>1. /\ TypeOK /\ QueueTypeOK /\ packet_count \in 0 .. CountMod - 1
      /\ count \in 0 .. Depth /\ Depth \in Nat
  BY TypeParts, CoreAssumption DEF HeadroomInv, CoreInv, QueueTypeOK
<1>2. packet_accepted(legacy) =>
        /\ kind \in Kinds
        /\ kind \in Elements(StreamOrder) => stream_wr_ready
  BY <1>1, PresentedKind DEF packet_accepted
<1>3. /\ QueueTypeOK'
      /\ \A k \in 1 .. count' :
           IF k + r <= count
           THEN Queued(k)' = Queued(k + r)
           ELSE /\ packet_accepted(legacy)
                /\ k + r = count + 1
                /\ Queued(k)' = message_of(kind)
  BY <1>1, <1>2, QueueMoves
<1>4. r \in {0, 1} /\ count' \in 0 .. Depth
  BY <1>3, OneType DEF QueueTypeOK
<1> HIDE DEF r, kind
<1> SUFFICES ASSUME NEW k \in Depth - 1 .. count'
             PROVE  Queued(k)'.kind \notin Elements(StreamOrder)
  BY DEF HeadroomKept
<1>5. k \in 1 .. count'
  BY <1>1, <1>4, CoreAssumption
<1>6. CASE k + r <= count
  <2>1. k + r \in Depth - 1 .. count
    BY <1>1, <1>4, <1>6
  <2> QED BY <1>3, <1>5, <1>6, <2>1 DEF HeadroomInv, HeadroomKept
<1>7. CASE ~(k + r <= count)
  <2>1. /\ packet_accepted(legacy) /\ k + r = count + 1
        /\ Queued(k)' = message_of(kind)
    BY <1>3, <1>5, <1>7
  <2>2. ~(count < Depth - 2)
    BY <1>1, <1>4, <2>1
  <2>3. kind \notin Elements(StreamOrder)
    BY <1>2, <2>1, <2>2 DEF stream_wr_ready
  <2> QED BY <2>1, <2>3 DEF message_of
<1> QED BY <1>6, <1>7

LEMMA ClearedHeadroom == Cleared => HeadroomKept
BY CoreAssumption DEF Cleared, HeadroomKept

LEMMA HeadroomStep == HeadroomInv /\ [Next]_vars => HeadroomInv'
<1> SUFFICES ASSUME HeadroomInv, [Next]_vars PROVE HeadroomKept'
  BY CoreStep DEF HeadroomInv
<1>1. ASSUME NEW legacy \in SUBSET Legacy, NEW trace \in SUBSET TraceInputs,
             NEW new \in SUBSET Holders, NEW ready \in BOOLEAN,
             Inputs(legacy, trace, new, ready)
      PROVE  HeadroomKept'
  BY <1>1, HeadroomCycle DEF Inputs, Cycle
<1>2. CASE Reset
  <2>1. Cleared' => HeadroomKept'
    BY ClearedHeadroom, PTL
  <2> QED BY <1>2, <2>1, ResetClears
<1>3. CASE UNCHANGED vars
  BY <1>3 DEF HeadroomInv, HeadroomKept, Queued, vars, queue
<1> QED BY <1>1, <1>2, <1>3, NextCases

(* However the queue filled up, a stream never holds its last two entries: *)
(* a monitor response or a legacy pulse finds room after any burst of      *)
(* them.                                                                   *)
THEOREM HeadroomAlwaysKept == Spec => []HeadroomKept
<1>1. Init => HeadroomInv
  BY CoreInit, ClearedHeadroom DEF HeadroomInv, Init, Cleared
<1>2. HeadroomInv => HeadroomKept
  BY DEF HeadroomInv
<1> QED BY <1>1, <1>2, HeadroomStep, PTL DEF Spec

(***************************************************************************)
(* The packet counter: what was counted is either complete at the far end, *)
(* being sent, or queued.                                                  *)
(***************************************************************************)
PacketsPlaced == packet_count = Plus(receiver.frames, One(sending) + count)

StatusInv == CoreInv /\ PacketsPlaced /\ StatusTellsPosition

LEMMA StatusCycle ==
  ASSUME StatusInv,
         NEW legacy \in SUBSET Legacy, NEW trace \in SUBSET TraceInputs,
         NEW new \in SUBSET Holders, NEW ready \in BOOLEAN,
         ready => out # NoByte,
         Cycle(legacy, trace, ready, new)
  PROVE  PacketsPlaced' /\ StatusTellsPosition'
<1> DEFINE w == One(packet_accepted(legacy))
           r == One(do_read)
           kind == fifo_wr_type(legacy)
           frames == receiver.frames
           s == One(sending)
<1>1. /\ TypeOK /\ QueueTypeOK /\ PacketizerTypeOK /\ MessagesReal /\ FrameInv
      /\ packet_count \in 0 .. CountMod - 1
      /\ frames \in 0 .. CountMod - 1
  BY TypeParts DEF StatusInv, CoreInv
<1>2. packet_accepted(legacy) => kind \in Kinds
  BY <1>1, PresentedKind DEF packet_accepted
<1>3. /\ count' = count + w - r
      /\ do_read => count > 0
      /\ \A k \in 1 .. count' :
           IF k + r <= count
           THEN Queued(k)' = Queued(k + r)
           ELSE /\ k + r = count + 1
                /\ Queued(k)' = message_of(kind)
      /\ QueueTypeOK'
  BY <1>1, <1>2, QueueMoves DEF Cycle
<1>4. PICK ended \in {0, 1} :
        /\ receiver'.frames = Plus(frames, ended)
        /\ One(sending') = s + r - ended
        /\ sending' => ended = 0
  BY <1>1, PacketizerStep DEF Cycle, Observe, Receive
<1>5. /\ packetizer'.latched = IF do_read THEN Queued(1) ELSE packetizer.latched
      /\ do_read => ~sending /\ sending'
  BY <1>1, PacketizerStep DEF Cycle, Observe, Receive
<1>6. packet_count' = Plus(packet_count, w)
  BY DEF Cycle, Count
<1>7. packet_count = Plus(frames, s + count)
  BY DEF StatusInv, PacketsPlaced
<1>8. /\ {w, r, s} \subseteq {0, 1}
      /\ count \in Nat /\ count' \in Nat /\ frames \in Int
      /\ r = 1 <=> do_read
  <2>1. w \in {0, 1} /\ r \in {0, 1} /\ s \in {0, 1} /\ (r = 1 <=> do_read)
    BY DEF One
  <2>2. count \in Nat /\ count' \in Nat
    BY <1>1, <1>3, CoreAssumption DEF QueueTypeOK
  <2>3. frames \in Int
    BY <1>1, CoreAssumption
  <2> QED BY <2>1, <2>2, <2>3
<1>9. One(sending)' = One(sending')
  BY DEF One
<1> HIDE DEF w, r, kind, frames, s
<1>10. ASSUME NEW n \in Int
       PROVE  Plus(Plus(frames, ended), n) = Plus(frames, ended + n)
  BY <1>8, PlusProperties
<1>11. PacketsPlaced'
  <2>1. packet_count' = Plus(frames, (s + count) + w)
    <3>1. frames \in Int /\ s + count \in Int /\ w \in Int
      BY <1>8
    <3> QED BY <1>6, <1>7, <3>1, PlusProperties
  <2>2. (s + count) + w = ended + ((s + r - ended) + count')
    BY <1>3, <1>8
  <2>3. Plus(receiver'.frames, (s + r - ended) + count')
          = Plus(frames, ended + ((s + r - ended) + count'))
    BY <1>4, <1>8, <1>10
  <2> QED BY <1>4, <1>9, <2>1, <2>2, <2>3 DEF PacketsPlaced
<1>12. ASSUME NEW k \in 1 .. count', Queued(k)'.kind = "status"
       PROVE  Queued(k)'.packets = Plus(receiver'.frames, One(sending') + k - 1)
  <2>1. Plus(receiver'.frames, (s + r - ended) + k - 1) = Plus(frames, s + (k + r) - 1)
    <3>1. ended + ((s + r - ended) + k - 1) = s + (k + r) - 1
      BY <1>8
    <3>2. (s + r - ended) + k - 1 \in Int
      BY <1>8
    <3> QED BY <1>4, <1>10, <3>1, <3>2
  <2>2. CASE k + r <= count
    <3>1. k + r \in 1 .. count /\ Queued(k)' = Queued(k + r)
      BY <1>3, <1>8, <2>2
    <3>2. Queued(k + r).packets = Plus(frames, s + (k + r) - 1)
      BY <1>12, <3>1 DEF StatusInv, StatusTellsPosition, s, frames
    <3> QED BY <1>4, <2>1, <3>1, <3>2
  <2>3. CASE ~(k + r <= count)
    <3>1. k + r = count + 1 /\ Queued(k)' = message_of(kind)
      BY <1>3, <2>3
    <3>2. Queued(k)'.packets = packet_count
      BY <1>12, <3>1 DEF message_of
    <3>3. s + (k + r) - 1 = s + count
      BY <1>8, <3>1
    <3> QED BY <1>4, <1>7, <2>1, <3>2, <3>3
  <2> QED BY <2>2, <2>3
<1>13. ASSUME sending', packetizer'.latched.kind = "status"
       PROVE  packetizer'.latched.packets = receiver'.frames
  <2>1. receiver'.frames = frames
    <3>1. ended = 0
      BY <1>4, <1>13
    <3>2. Plus(frames, 0) = frames
      BY <1>1, <1>8, PlusProperties DEF frames
    <3> QED BY <1>4, <3>1, <3>2
  <2>2. CASE do_read
    <3>1. 1 \in 1 .. count /\ ~sending
      BY <1>3, <1>5, <1>8, <2>2
    <3>2. packetizer'.latched = Queued(1)
      BY <1>5, <2>2
    <3>3. Queued(1).packets = Plus(frames, s + 1 - 1)
      BY <1>13, <3>1, <3>2 DEF StatusInv, StatusTellsPosition, s, frames
    <3>4. s + 1 - 1 = 0
      BY <3>1 DEF s, One
    <3>5. Plus(frames, 0) = frames
      BY <1>1, <1>8, PlusProperties DEF frames
    <3> QED BY <2>1, <3>2, <3>3, <3>4, <3>5
  <2>3. CASE ~do_read
    <3>1. packetizer'.latched = packetizer.latched
      BY <1>5, <2>3
    <3>2. sending
      <4>1. r = 0 /\ ended = 0
        BY <1>4, <1>8, <1>13, <2>3
      <4>2. One(sending') = 1
        BY <1>13 DEF One
      <4>3. s = 1
        BY <1>4, <1>8, <4>1, <4>2
      <4> QED BY <4>3 DEF s, One
    <3> QED BY <1>13, <2>1, <3>1, <3>2 DEF StatusInv, StatusTellsPosition, frames
  <2> QED BY <2>2, <2>3
<1> QED BY <1>9, <1>11, <1>12, <1>13 DEF StatusTellsPosition

LEMMA ClearedStatus == Cleared => PacketsPlaced /\ StatusTellsPosition
<1> SUFFICES ASSUME Cleared PROVE PacketsPlaced /\ StatusTellsPosition
  OBVIOUS
<1>1. ~sending /\ count = 0 /\ receiver.frames = 0 /\ packet_count = 0
  BY DEF Cleared, sending
<1>2. Plus(0, 0) = 0
  BY PlusProperties, ZeroTypes
<1>3. One(sending) + count = 0
  BY <1>1 DEF One
<1> QED BY <1>1, <1>2, <1>3 DEF PacketsPlaced, StatusTellsPosition

LEMMA StatusStep == StatusInv /\ [Next]_vars => StatusInv'
<1> SUFFICES ASSUME StatusInv, [Next]_vars PROVE PacketsPlaced' /\ StatusTellsPosition'
  BY CoreStep DEF StatusInv
<1>1. ASSUME NEW legacy \in SUBSET Legacy, NEW trace \in SUBSET TraceInputs,
             NEW new \in SUBSET Holders, NEW ready \in BOOLEAN,
             Inputs(legacy, trace, new, ready)
      PROVE  PacketsPlaced' /\ StatusTellsPosition'
  BY <1>1, StatusCycle DEF Inputs
<1>2. CASE Reset
  <2>1. Cleared' => (PacketsPlaced /\ StatusTellsPosition)'
    BY ClearedStatus, PTL
  <2> QED BY <1>2, <2>1, ResetClears
<1>3. CASE UNCHANGED vars
  BY <1>3 DEF StatusInv, PacketsPlaced, StatusTellsPosition, Queued, sending,
              vars, queue, counters, history
<1> QED BY <1>1, <1>2, <1>3, NextCases

(* A status frame carries the number of frames that come before it in the  *)
(* stream, whatever is queued ahead of it and however the counter wraps.   *)
THEOREM StatusIsExact == Spec => []StatusTellsPosition
<1>1. Init => StatusInv
  BY CoreInit, ClearedStatus DEF StatusInv, Init, Cleared
<1>2. StatusInv => StatusTellsPosition
  BY DEF StatusInv
<1> QED BY <1>1, <1>2, StatusStep, PTL DEF Spec

(***************************************************************************)
(* The losses.                                                             *)
(***************************************************************************)

(* Modulo the counter's width the count is exact as long as no two trace   *)
(* pulses came in one cycle.                                               *)
LossesExact == ~doubled => drop_count = lost

(* The bounds of an instance keep the counter from wrapping.               *)
LossesBounded ==
  /\ doubled => 0 < drop_count
  /\ drop_count <= lost
  /\ lost <= MaxAtOnce * drop_count
  /\ drop_count <= MaxDrops + MaxAtOnce

(* What one cycle adds to the losses and to their count.                   *)
LEMMA LossCycle ==
  ASSUME CoreInv,
         NEW legacy \in SUBSET Legacy, NEW trace \in SUBSET TraceInputs,
         NEW new \in SUBSET Holders, NEW ready \in BOOLEAN,
         Cycle(legacy, trace, ready, new)
  PROVE  \E counted \in Int, gone \in Int :
           /\ drop_count' = Plus(drop_count, counted)
           /\ lost' = Plus(lost, gone)
           /\ 0 <= counted /\ counted <= gone
           /\ gone <= Cardinality(legacy) + Cardinality(trace)
           /\ gone > 0 => counted > 0
           /\ ~doubled' => gone = counted
           /\ doubled' => doubled \/ counted > 0
           /\ ~doubled' => ~doubled
<1> DEFINE counted == core_drop_increment(legacy) + One(trace_dropped(legacy, trace))
           gone == core_drop_increment(legacy) + traceLost(legacy, trace)
           t == One(trace_msg_valid)
<1>1. /\ TypeOK /\ QueueTypeOK
      /\ offered \subseteq Holders /\ trace_msg_valid \in BOOLEAN
      /\ packet_count \in 0 .. CountMod - 1
      /\ balance \in 0 .. CountMod - 1
      /\ drop_count \in 0 .. CountMod - 1
  BY TypeParts DEF CoreInv
<1>2. /\ traceLost(legacy, trace) \in Int
      /\ One(trace_dropped(legacy, trace)) <= traceLost(legacy, trace)
      /\ traceLost(legacy, trace) <= Cardinality(trace)
      /\ Cardinality(trace) <= 1 =>
           traceLost(legacy, trace) = One(trace_dropped(legacy, trace))
      /\ traceLost(legacy, trace) > 0 => trace_dropped(legacy, trace)
      /\ core_drop_increment(legacy) \in 0 .. Cardinality(legacy)
  BY <1>1, Accounting
<1>3. /\ Cardinality(legacy) \in Nat /\ Cardinality(trace) \in Nat
      /\ Cardinality(taken(legacy)) \in Nat
  BY <1>1, InputCounts
<1>4. drop_count' = Plus(drop_count, counted)
  BY DEF Cycle, Count
<1>5. /\ doubled' <=> (doubled \/ Cardinality(trace) > 1)
      /\ Cardinality(trace) > 1 => trace_dropped(legacy, trace)
  BY DEF Cycle, Observe, trace_dropped
<1>6. lost' = Plus(lost, gone)
  <2> DEFINE change == Cardinality(legacy) + Cardinality(trace) + Cardinality(taken(legacy))
                         - (count' - count + One(do_read))
             u == One(trace_msg_valid')
  <2>1. balance' = Plus(balance, change)
    BY DEF Cycle, Observe, taken
  <2>2. count' = count + One(packet_accepted(legacy)) - One(do_read)
    BY DEF Cycle, Enqueue
  <2>3. u = One(trace # {} \/ (trace_msg_valid /\ ~trace_msg_ready(legacy)))
    BY DEF Cycle, TraceAdapter
  <2> DEFINE L == Cardinality(legacy)
             T == Cardinality(trace)
             H == Cardinality(taken(legacy))
             W == One(packet_accepted(legacy))
             R == One(do_read)
             P == One(legacy_packet_accepted(legacy))
  <2>4. /\ {count, balance, L, T, H, W, R, P, t, u} \subseteq Int
        /\ gone \in Int
    <3>1. count \in Int /\ balance \in Int /\ L \in Int /\ T \in Int /\ H \in Int
      BY <1>1, <1>3, CoreAssumption DEF QueueTypeOK
    <3>2. W \in Int /\ R \in Int /\ P \in Int /\ t \in Int /\ u \in Int
      BY DEF One
    <3>3. gone \in Int
      BY <1>2, <1>3
    <3> QED BY <3>1, <3>2, <3>3
  <2>5. gone = (L - P) + traceLost(legacy, trace)
    BY DEF core_drop_increment
  <2>6. traceLost(legacy, trace) = T + H - W + P + t - u
    BY <2>3 DEF traceLost
  <2>7. lost' = Plus(balance', -u) /\ lost = Plus(balance, -t)
    BY DEF lost, One
  <2> HIDE DEF u, t, gone, L, T, H, W, R, P
  <2>8. change = L + T + H - W
    BY <2>2, <2>4 DEF L, T, H, W, R
  <2> HIDE DEF change
  <2>9. change \in Int /\ change + (-u) = -t + gone
    BY <2>4, <2>5, <2>6, <2>8
  <2>10. lost' = Plus(balance, change + (-u))
    <3>1. -u \in Int
      BY <2>4
    <3> QED BY <2>1, <2>4, <2>7, <2>9, <3>1, PlusProperties
  <2>11. Plus(lost, gone) = Plus(balance, -t + gone)
    <3>1. -t \in Int
      BY <2>4
    <3> QED BY <2>4, <2>7, <3>1, PlusProperties
  <2> QED BY <2>9, <2>10, <2>11
<1>7. /\ counted \in Int /\ gone \in Int
      /\ 0 <= counted /\ counted <= gone
      /\ gone <= Cardinality(legacy) + Cardinality(trace)
      /\ gone > 0 => counted > 0
      /\ Cardinality(trace) <= 1 => gone = counted
      /\ trace_dropped(legacy, trace) => counted > 0
  BY <1>2, <1>3 DEF One
<1> HIDE DEF counted, gone
<1>8. /\ ~doubled' => gone = counted
      /\ doubled' => doubled \/ counted > 0
      /\ ~doubled' => ~doubled
  BY <1>3, <1>5, <1>7
<1> counted \in Int /\ gone \in Int
  BY <1>7
<1> WITNESS counted \in Int, gone \in Int
<1> QED BY <1>4, <1>6, <1>7, <1>8

LEMMA LostType ==
  ASSUME CoreInv
  PROVE  /\ lost \in 0 .. CountMod - 1
         /\ drop_count \in 0 .. CountMod - 1
         /\ CountMod \in Nat /\ CountMod > 0
         /\ MaxAtOnce \in Nat /\ MaxDrops \in Nat
<1>1. balance \in Int /\ -One(trace_msg_valid) \in Int
  BY TypeParts, CoreAssumption DEF CoreInv, One
<1> QED BY <1>1, TypeParts, PlusProperties, CoreAssumption DEF CoreInv, lost

LEMMA ClearedLosses == Cleared => LossesExact /\ LossesBounded
<1> SUFFICES ASSUME Cleared PROVE LossesExact /\ LossesBounded
  OBVIOUS
<1>1. drop_count = 0 /\ balance = 0 /\ (trace_msg_valid <=> FALSE)
  BY DEF Cleared
<1>2. (-One(trace_msg_valid)) = 0
  <2>1. One(trace_msg_valid) = 0
    BY <1>1 DEF One
  <2>2. \A z \in Int : (-z) = 0 - z
    OBVIOUS
  <2>3. 0 \in Int /\ 0 - 0 = 0
    OBVIOUS
  <2> QED BY <2>1, <2>2, <2>3, Zenon
<1>3. lost = 0
  BY <1>1, <1>2, PlusProperties, ZeroTypes DEF lost
<1>4. MaxAtOnce * 0 = 0 /\ 0 <= MaxDrops + MaxAtOnce
  BY CoreAssumption
<1>5. doubled = FALSE
  BY DEF Cleared
<1> QED BY <1>1, <1>3, <1>4, <1>5 DEF LossesExact, LossesBounded

LossInv == CoreInv /\ LossesExact

LEMMA LossStep == LossInv /\ [Next]_vars => LossInv'
<1> SUFFICES ASSUME LossInv, [Next]_vars PROVE LossesExact'
  BY CoreStep DEF LossInv
<1>1. ASSUME NEW legacy \in SUBSET Legacy, NEW trace \in SUBSET TraceInputs,
             NEW new \in SUBSET Holders, NEW ready \in BOOLEAN,
             Inputs(legacy, trace, new, ready)
      PROVE  LossesExact'
  <2>1. CoreInv /\ Cycle(legacy, trace, ready, new)
    BY <1>1 DEF LossInv, Inputs
  <2>2. PICK counted \in Int, gone \in Int :
          /\ drop_count' = Plus(drop_count, counted)
          /\ lost' = Plus(lost, gone)
          /\ ~doubled' => gone = counted
          /\ ~doubled' => ~doubled
    BY <2>1, LossCycle
  <2> QED BY <2>2 DEF LossInv, LossesExact
<1>2. CASE Reset
  <2>1. Cleared' => LossesExact'
    BY ClearedLosses, PTL
  <2> QED BY <1>2, <2>1, ResetClears
<1>3. CASE UNCHANGED vars
  BY <1>3 DEF LossInv, LossesExact, lost, vars, counters, history
<1> QED BY <1>1, <1>2, <1>3, NextCases

(* Every message handed to the core is queued, or waits in the trace       *)
(* adapter, or is counted as dropped, modulo the width of the counters, as *)
(* long as no two trace pulses came in one cycle.                          *)
THEOREM LossesAreExact == Spec => []LossesExact
<1>1. Init => LossInv
  BY CoreInit, ClearedLosses DEF LossInv, Init, Cleared
<1>2. LossInv => LossesExact
  BY DEF LossInv
<1> QED BY <1>1, <1>2, LossStep, PTL DEF Spec

(* While the counter has not wrapped: the bounds of the instance see to it *)
(* when they are this far below its modulus.                               *)
NoWrap == MaxAtOnce * (MaxDrops + MaxAtOnce) < CountMod

BoundedInv == CoreInv /\ LossesExact /\ LossesBounded

LEMMA PlusSmall ==
  ASSUME NEW n \in Nat, NEW d \in Nat, n + d < CountMod
  PROVE  Plus(n, d) = n + d
<1>1. n + d \in 0 .. CountMod - 1 /\ CountMod \in Nat \ {0}
  BY CoreAssumption
<1> QED BY <1>1, ModSmall DEF Plus

LEMMA BoundedCycle ==
  ASSUME NoWrap, BoundedInv,
         NEW legacy \in SUBSET Legacy, NEW trace \in SUBSET TraceInputs,
         NEW new \in SUBSET Holders, NEW ready \in BOOLEAN,
         Inputs(legacy, trace, new, ready)
  PROVE  LossesBounded'
<1> DEFINE n == Cardinality(legacy) + Cardinality(trace)
           d == drop_count
           M == MaxAtOnce
<1>1. /\ CoreInv /\ Cycle(legacy, trace, ready, new)
      /\ n + Cardinality(new) <= M
      /\ d >= MaxDrops => legacy = {} /\ trace = {}
  BY DEF BoundedInv, Inputs
<1>2. PICK counted \in Int, gone \in Int :
        /\ d' = Plus(d, counted)
        /\ lost' = Plus(lost, gone)
        /\ 0 <= counted /\ counted <= gone /\ gone <= n
        /\ gone > 0 => counted > 0
        /\ doubled' => doubled \/ counted > 0
  BY <1>1, LossCycle
<1>3. /\ lost \in 0 .. CountMod - 1 /\ d \in 0 .. CountMod - 1
      /\ CountMod \in Nat /\ M \in Nat /\ MaxDrops \in Nat
  BY <1>1, LostType
<1>4. /\ n \in Nat /\ n <= M
      /\ d >= MaxDrops => n = 0
  <2>1. offered \subseteq Holders
    BY <1>1 DEF CoreInv, TypeOK
  <2>2. Cardinality(new) \in Nat
    BY InputsFinite, FS_CardinalityType
  <2>3. /\ Cardinality(legacy) \in Nat /\ (legacy = {} => Cardinality(legacy) = 0)
        /\ Cardinality(trace) \in Nat /\ (trace = {} => Cardinality(trace) = 0)
    BY <2>1, InputCounts
  <2> QED BY <1>1, <1>3, <2>2, <2>3
<1>5. /\ doubled => 0 < d
      /\ d <= lost /\ lost <= M * d /\ d <= MaxDrops + M
  BY DEF BoundedInv, LossesBounded
<1> HIDE DEF n, M
<1>6. M * d \in Nat /\ M * (MaxDrops + M) < CountMod
  BY <1>3 DEF NoWrap, M
<1>7. CASE gone = 0
  <2>1. counted = 0
    BY <1>2, <1>7
  <2>2. d' = d /\ lost' = lost
    BY <1>2, <1>3, <1>7, <2>1, PlusProperties
  <2> QED BY <1>2, <1>5, <2>1, <2>2 DEF LossesBounded, M
<1>8. CASE gone # 0
  <2>1. /\ gone \in 1 .. M /\ counted \in 1 .. gone
        /\ d < MaxDrops
    BY <1>2, <1>3, <1>4, <1>8
  <2>2. d + counted <= MaxDrops + M
    BY <1>3, <2>1
  <2>3. lost + gone <= M * (d + counted)
    <3>1. M * (d + counted) = M * d + M * counted
      BY <1>3, <2>1
    <3>2. M <= M * counted
      BY <1>3, <2>1
    <3>3. M * counted \in Int
      BY <1>3, <2>1
    <3> QED BY <1>3, <1>5, <1>6, <2>1, <3>1, <3>2, <3>3
  <2>4. M * (d + counted) <= M * (MaxDrops + M)
    <3>1. \A x, y, z \in Nat : x <= y => z * x <= z * y
      OBVIOUS
    <3>2. d + counted \in Nat /\ MaxDrops + M \in Nat
      BY <1>3, <2>1
    <3> QED BY <1>3, <2>2, <3>1, <3>2
  <2>5. M * (d + counted) \in Int /\ M * (MaxDrops + M) \in Int
    BY <1>3, <2>1
  <2>6. lost + gone < CountMod
    BY <1>3, <1>6, <2>1, <2>3, <2>4, <2>5
  <2>7. lost' = lost + gone
    BY <1>2, <1>3, <2>1, <2>6, PlusSmall
  <2>8. d' = d + counted
    <3>1. d + counted < CountMod
      BY <1>3, <1>5, <2>1, <2>6
    <3> QED BY <1>2, <1>3, <2>1, <3>1, PlusSmall
  <2>9. 0 < d' /\ d' <= lost' /\ lost' <= M * d' /\ d' <= MaxDrops + M
    BY <1>3, <1>5, <2>1, <2>2, <2>3, <2>7, <2>8
  <2> QED BY <2>9 DEF LossesBounded, M
<1> QED BY <1>7, <1>8

(* No loss is silent and none is overstated, even when several trace       *)
(* pulses come in one cycle.                                               *)
THEOREM LossesAreCounted ==
  ASSUME NoWrap
  PROVE  Spec => []LossesCounted
<1>1. Init => BoundedInv
  BY CoreInit, ClearedLosses DEF BoundedInv, Init, Cleared
<1>2. BoundedInv /\ [Next]_vars => BoundedInv'
  <2> SUFFICES ASSUME BoundedInv, [Next]_vars PROVE LossesBounded'
    BY CoreStep, LossStep DEF BoundedInv, LossInv
  <2>1. ASSUME NEW legacy \in SUBSET Legacy, NEW trace \in SUBSET TraceInputs,
               NEW new \in SUBSET Holders, NEW ready \in BOOLEAN,
               Inputs(legacy, trace, new, ready)
        PROVE  LossesBounded'
    BY <2>1, BoundedCycle
  <2>2. CASE Reset
    <3>1. Cleared' => LossesBounded'
      BY ClearedLosses, PTL
    <3> QED BY <2>2, <3>1, ResetClears
  <2>3. CASE UNCHANGED vars
    BY <2>3 DEF BoundedInv, LossesBounded, lost, vars, counters, history
  <2> QED BY <2>1, <2>2, <2>3, NextCases
<1>3. BoundedInv => LossesCounted
  BY DEF BoundedInv, LossesExact, LossesBounded, LossesCounted
<1> QED BY <1>1, <1>2, <1>3, PTL DEF Spec
=============================================================================
