---------------------------- MODULE ViewerProofs ----------------------------
(***************************************************************************)
(* Proofs about the web viewer: how it is connected (module Transports)    *)
(* and what it makes of the bytes that arrive (module Viewer).             *)
(*                                                                         *)
(* The first part is for any number of connections and of sessions of the  *)
(* FPGA.  The asynchronous functions of app.js meet in few ways as long as *)
(* they are used in order; the invariants name those ways, and what holds  *)
(* in any order.                                                           *)
(*                                                                         *)
(* The second part is for any catalog of frames, any caps, any chunks and  *)
(* any number of frames, losses and clears.  It goes from one decoder to   *)
(* one round of the parser's loop, to the loop, to the stream of bytes.    *)
(***************************************************************************)
EXTENDS Transports, Viewer, FiniteSetTheorems, SequenceTheorems, TLAPS

-----------------------------------------------------------------------------
(* What holds however the connections overlap.                             *)
Records == [kind : {"HELLO", "SESSION"}, label : Sessions \cup {Unread}]
           \cup [kind : {"DATA"}, session : Sessions]

CountsOK ==
  /\ connects \in 0 .. MaxConnects /\ resets \in 0 .. MaxResets /\ session = resets + 1
  /\ incoming \in [Sockets -> Seq(Records)]

(* The reader belongs to a port that is open, connect's await to one that  *)
(* is being opened, disconnect's awaits to the reader and to a port that   *)
(* is being closed; a read that was cancelled is not taken up again.       *)
SerialInv ==
  /\ reader => portState = "open"
  /\ loop = "reading" => reader
  /\ closing = "reader" => reader /\ loop # "reading"
  /\ connecting = "opening" <=> portState = "opening"
  /\ closing = "port" <=> portState = "closing"

TypeInv == TransportsTypeOK /\ CountsOK /\ SerialInv

-----------------------------------------------------------------------------
(* The sessions.  The records on their way to a socket name the labels the *)
(* bridge has seen since the one the viewer knows of: DATA comes from a    *)
(* session with the label of the record before it, and the last record has *)
(* the label that the bridge read last.                                    *)
Live == {"connecting", "open", "closing"}
OneLive ==
  /\ \A s, t \in Sockets : sockets[s] \in Live /\ sockets[t] \in Live => s = t
  /\ socket # null => sockets[socket] \in Live

Says(r, names) == IF r.kind = "DATA" THEN names[r.session] ELSE r.label
Told(records, names, n, first, last) ==
  /\ \A i \in 1 .. Len(records) : records[i].kind = "DATA" =>
       /\ records[i].session \in 1 .. n
       /\ names[records[i].session] = IF i = 1 THEN first ELSE Says(records[i - 1], names)
  /\ last = IF records = <<>> THEN first ELSE Says(records[Len(records)], names)

SessionInv ==
  "overlap" \notin trouble =>
    /\ OneLive
    /\ \A s \in Sockets :
         sockets[s] = "open" => Told(incoming[s], label, session, sessionId, known)
    /\ half \in Sessions => half \in 1 .. session /\ label[half] = sessionId
    /\ \A pair \in joined : /\ {pair[1], pair[2]} \subseteq 1 .. session
                            /\ label[pair[1]] = label[pair[2]]

-----------------------------------------------------------------------------
(* The phases of an orderly use: nothing; connect at its two awaits;       *)
(* reading; disconnect at its two awaits, the read loop ended or not; the  *)
(* read loop alone; and the socket.                                        *)
NoSocket == socket = null /\ \A s \in Sockets : sockets[s] \notin Live
Calls(atConnect, atDisconnect) == connecting = atConnect /\ closing = atDisconnect
Port(has, reads, state) == (port <=> has) /\ (reader <=> reads) /\ portState = state

Serial ==
  \/ /\ connecting \in {"none", "prompt"} /\ closing = "none" /\ loop \in {"none", "ended"}
     /\ connecting = "prompt" => loop = "none"
     /\ Port(FALSE, FALSE, "closed") /\ connection = "disconnected"
  \/ /\ Calls("opening", "none") /\ loop = "none"
     /\ Port(TRUE, FALSE, "opening") /\ connection = "disconnected"
  \/ /\ Calls("none", "none") /\ loop = "reading"
     /\ Port(TRUE, TRUE, "open") /\ connection = "connected"
  \/ /\ Calls("none", "reader") /\ Port(TRUE, TRUE, "open")
     /\ loop # "reading" /\ connection # "connecting"
  \/ /\ Calls("none", "port") /\ Port(TRUE, FALSE, "closing")
     /\ loop # "reading" /\ connection # "connecting"

Bridge ==
  /\ Calls("none", "none") /\ loop = "none" /\ Port(FALSE, FALSE, "closed")
  /\ \E s \in Sockets :
       /\ sockets[s] \in Live /\ \A t \in Sockets : sockets[t] \in Live => t = s
       /\ \/ socket = s /\ sockets[s] = "connecting" /\ connection = "connecting"
          \/ socket = s /\ sockets[s] = "open" /\ connection = "connected"
          \/ socket \in {null, s} /\ sockets[s] = "closing" /\ connection = "disconnected"

PhaseInv == trouble = {} => (NoSocket /\ Serial) \/ Bridge

-----------------------------------------------------------------------------
(* The actions by what they touch.                                         *)
SerialSteps ==
  Connect \/ PortChosen \/ PortOpened \/ ReadChunk \/ LineError \/ LoopEnds \/ Write
  \/ Disconnect \/ ReaderCancelled \/ PortClosed
BridgeSteps == FpgaReset \/ BridgeSends \/ BridgeStarts
SocketSteps ==
  ConnectJtag \/ BridgeSteps
  \/ \E s \in Sockets : onopen(s) \/ onclose(s) \/ onmessage(s) \/ BadRecord(s)

LEMMA NextCases ==
  ASSUME [TransportsNext]_transportsVars
  PROVE  \/ SerialSteps \/ SocketSteps \/ replayRawCapture
         \/ ChangeSource \/ UNCHANGED transportsVars
BY DEF TransportsNext, SerialSteps, SocketSteps, BridgeSteps

LEMMA Numbers ==
  /\ MaxConnects \in Nat /\ MaxResets \in Nat
  /\ null \notin Sockets /\ null \notin Sessions /\ Other \notin Sessions /\ Other # null
  /\ \A n \in 1 .. MaxConnects : n \in Sockets
  /\ \A n \in 0 .. MaxResets : n + 1 \in Sessions
  /\ \A n \in 0 .. MaxResets : \A m \in 1 .. n + 1 : m \in Sessions
  /\ Unread \notin Sessions
BY TransportsAssumption DEF Sockets, Sessions, null, Other, Unread

(* A step of connect, readLoop or disconnect keeps what it must.           *)
LEMMA SerialTypes ==
  ASSUME TypeInv, SerialSteps
  PROVE  TypeInv'
<1>1. CASE Connect
  BY <1>1, Numbers DEF TypeInv, TransportsTypeOK, CountsOK, SerialInv, Connect, Click, bridgeVars, sessionVars
<1>2. CASE PortChosen
  <2>1. /\ {port', reader', readLoopActive', writing'} \subseteq BOOLEAN
        /\ connecting' \in {"none", "prompt", "opening"}
        /\ portState' \in {"closed", "opening", "open", "closing"}
    BY <1>2 DEF TypeInv, TransportsTypeOK, PortChosen
  <2>2. SerialInv'
    BY <1>2 DEF TypeInv, TransportsTypeOK, SerialInv, PortChosen
  <2> QED BY <1>2, <2>1, <2>2 DEF TypeInv, TransportsTypeOK, CountsOK, SerialInv, PortChosen, bridgeVars, sessionVars
<1>3. CASE PortOpened
  BY <1>3, Numbers DEF TypeInv, TransportsTypeOK, CountsOK, SerialInv, PortOpened, setConnected, bridgeVars, sessionVars
<1>4. CASE ReadChunk
  BY <1>4, Numbers DEF TypeInv, TransportsTypeOK, CountsOK, SerialInv, ReadChunk, serialVars, bridgeVars, sessionVars
<1>5. CASE LineError
  BY <1>5, Numbers DEF TypeInv, TransportsTypeOK, CountsOK, SerialInv, LineError, bridgeVars, sessionVars
<1>6. CASE LoopEnds
  BY <1>6, Numbers DEF TypeInv, TransportsTypeOK, CountsOK, SerialInv, LoopEnds, setConnected, bridgeVars, sessionVars
<1>7. CASE Write
  BY <1>7, Numbers DEF TypeInv, TransportsTypeOK, CountsOK, SerialInv, Write, bridgeVars, sessionVars
<1>8. CASE Disconnect
  <2>1. /\ CloseSocket /\ readLoopActive' = FALSE
        /\ UNCHANGED <<sourceType, port, reader, connecting, writing, incoming, sessionId,
                       sessionVars, half, connects, resets, joined>>
        /\ \/ UNCHANGED <<closing, loop, portState, connection, trouble>>
           \/ /\ reader /\ closing' = "reader" /\ loop' \in {loop, "ended"}
              /\ loop' # "reading" /\ UNCHANGED <<portState, connection, trouble>>
           \/ closing = "none" /\ ~reader /\ ClosePort /\ UNCHANGED loop
    BY <1>8 DEF Disconnect, CancelReader
  <2>2. socket' \in Sockets \cup {null}
        /\ sockets' \in [Sockets -> {"none", "connecting", "open", "closing", "closed"}]
    BY <2>1 DEF CloseSocket, TypeInv, TransportsTypeOK
  <2>3. /\ closing' \in {"none", "reader", "port"} /\ loop' \in {"none", "reading", "ended"}
        /\ portState' \in {"closed", "opening", "open", "closing"}
        /\ connection' \in {"disconnected", "connecting", "connected"}
        /\ trouble' \subseteq {"overlap", "line", "write"}
    BY <2>1 DEF TypeInv, TransportsTypeOK, ClosePort, setConnected
  <2>4. SerialInv' /\ (loop' = "reading" => reader' /\ portState' \in {"open", "opening"})
    BY <2>1 DEF TypeInv, TransportsTypeOK, SerialInv, ClosePort
  <2>5. TransportsTypeOK'
    BY <2>1, <2>2, <2>3, <2>4 DEF TypeInv, TransportsTypeOK, sessionVars
  <2> QED BY <2>1, <2>4, <2>5 DEF TypeInv, CountsOK, sessionVars
<1>9. CASE ReaderCancelled
  <2>1. /\ closing = "reader" /\ reader' = FALSE /\ ClosePort
        /\ UNCHANGED <<sourceType, port, readLoopActive, loop, connecting, writing, socket,
                       sockets, incoming, sessionId, sessionVars, half, connects, resets, joined>>
    BY <1>9 DEF ReaderCancelled, bridgeVars, sessionVars
  <2>2. /\ closing' \in {"none", "port"}
        /\ portState' \in {"closed", "opening", "open", "closing"}
        /\ connection' \in {"disconnected", "connecting", "connected"}
        /\ trouble' \subseteq {"overlap", "line", "write"}
    BY <2>1 DEF TypeInv, TransportsTypeOK, ClosePort, setConnected
  <2>3. SerialInv' /\ loop' # "reading"
    BY <2>1 DEF TypeInv, TransportsTypeOK, SerialInv, ClosePort
  <2>4. TransportsTypeOK'
    BY <2>1, <2>2, <2>3 DEF TypeInv, TransportsTypeOK, sessionVars
  <2> QED BY <2>1, <2>3, <2>4 DEF TypeInv, CountsOK, sessionVars
<1>10. CASE PortClosed
  BY <1>10, Numbers DEF TypeInv, TransportsTypeOK, CountsOK, SerialInv, PortClosed, setConnected, bridgeVars, sessionVars
<1> QED BY <1>1, <1>2, <1>3, <1>4, <1>5, <1>6, <1>7, <1>8, <1>9, <1>10 DEF SerialSteps

LEMMA RecordForms ==
  ASSUME NEW r \in Records
  PROVE  /\ r.kind \in {"HELLO", "DATA", "SESSION"}
         /\ r.kind = "DATA" => r.session \in Sessions
         /\ r.kind # "DATA" => r.label \in Sessions \cup {Unread}
BY DEF Records

(* What the bridge sends: a notice if the label is another one, and DATA   *)
(* or none.                                                                *)
LEMMA Broadcasts ==
  ASSUME BridgeSends
  PROVE  LET notice == [kind |-> "SESSION", label |-> known']
             data == [kind |-> "DATA", session |-> session]
         IN \/ known' = known /\ (Broadcast(<<>>) \/ Broadcast(<<data>>))
            \/ Broadcast(<<notice>>) \/ Broadcast(<<notice>> \o <<data>>)
<1> DEFINE notice == [kind |-> "SESSION", label |-> known']
           data == [kind |-> "DATA", session |-> session]
<1>1. \E new \in {<<>>, <<data>>} :
        Broadcast((IF known' = known THEN <<>> ELSE <<notice>>) \o new)
  BY DEF BridgeSends
<1> HIDE DEF notice, data
<1>2. <<>> \o <<>> = <<>> /\ <<>> \o <<data>> = <<data>> /\ <<notice>> \o <<>> = <<notice>>
  OBVIOUS
<1>3. known' = known => Broadcast(<<>>) \/ Broadcast(<<data>>)
  BY <1>1, <1>2
<1>4. known' # known => Broadcast(<<notice>>) \/ Broadcast(<<notice>> \o <<data>>)
  BY <1>1, <1>2
<1> QED BY <1>3, <1>4 DEF notice, data

(* The socket's callbacks and the bridge leave the serial side alone.      *)
LEMMA SocketTypes ==
  ASSUME TypeInv, SocketSteps
  PROVE  TypeInv'
<1>1. SerialInv'
  <2>1. UNCHANGED serialVars
    BY DEF SocketSteps, BridgeSteps, ConnectJtag, FpgaReset, BridgeSends, BridgeStarts, onopen,
           onclose, onmessage, BadRecord
  <2> QED BY <2>1 DEF TypeInv, SerialInv, serialVars
<1>2. CASE ConnectJtag
  BY <1>1, <1>2, Numbers DEF TypeInv, TransportsTypeOK, CountsOK, ConnectJtag, Click, serialVars, sessionVars, SerialInv
<1>3. CASE BridgeSteps
  <2>1. resets \in 0 .. MaxResets /\ session = resets + 1 /\ session \in Sessions
    BY Numbers DEF TypeInv, CountsOK
  <2>2. CASE FpgaReset
    <3>1. session' \in Sessions /\ session' = resets' + 1 /\ resets' \in 0 .. MaxResets
      BY <2>1, <2>2, Numbers DEF FpgaReset
    <3>2. label' \in [Sessions -> Sessions]
      BY <2>1, <2>2, <3>1 DEF FpgaReset, TypeInv, TransportsTypeOK
    <3> QED BY <1>1, <2>2, <3>1, <3>2 DEF TypeInv, TransportsTypeOK, CountsOK, FpgaReset, serialVars, bridgeVars
  <2>3. CASE BridgeSends
    <3> DEFINE notice == [kind |-> "SESSION", label |-> known']
               data == [kind |-> "DATA", session |-> session]
    <3>1. known' \in Sessions /\ known' = label[session]
      BY <2>1, <2>3 DEF BridgeSends, TypeInv, TransportsTypeOK
    <3>2. notice \in Records /\ data \in Records
      BY <2>1, <3>1 DEF Records
    <3> HIDE DEF notice, data
    <3>3. \E new \in {<<>>, <<notice>>, <<data>>, <<notice>> \o <<data>>} : Broadcast(new)
      BY <2>3, Broadcasts DEF notice, data
    <3>6. /\ <<>> \in Seq(Records) /\ <<notice>> \in Seq(Records) /\ <<data>> \in Seq(Records)
          /\ <<notice>> \o <<data>> \in Seq(Records)
      BY <3>2
    <3>4. PICK new \in Seq(Records) : Broadcast(new)
      BY <3>3, <3>6
    <3>5. incoming' \in [Sockets -> Seq(Records)]
      BY <3>4 DEF TypeInv, CountsOK, Broadcast
    <3> QED BY <1>1, <2>3, <3>1, <3>5 DEF TypeInv, TransportsTypeOK, CountsOK, BridgeSends, serialVars
  <2>4. CASE BridgeStarts
    BY <1>1, <2>4 DEF TypeInv, TransportsTypeOK, CountsOK, BridgeStarts, serialVars, bridgeVars
  <2> QED BY <1>3, <2>2, <2>3, <2>4 DEF BridgeSteps
<1>4. ASSUME NEW s \in Sockets, onopen(s) PROVE TypeInv'
  <2>1. [kind |-> "HELLO", label |-> known] \in Records
    BY DEF Records, TypeInv, TransportsTypeOK
  <2> QED BY <1>1, <1>4, <2>1 DEF TypeInv, TransportsTypeOK, CountsOK, onopen, setConnected, serialVars, sessionVars
<1>5. ASSUME NEW s \in Sockets, onclose(s) PROVE TypeInv'
  BY <1>1, <1>5 DEF TypeInv, TransportsTypeOK, CountsOK, onclose, setConnected, serialVars, sessionVars
<1>6. ASSUME NEW s \in Sockets, onmessage(s) PROVE TypeInv'
  <2>1. incoming[s] \in Seq(Records) /\ incoming[s] # <<>>
    BY <1>6 DEF onmessage, TypeInv, CountsOK
  <2>2. Head(incoming[s]) \in Records /\ Tail(incoming[s]) \in Seq(Records)
    BY <2>1
  <2> DEFINE r == Head(incoming[s])
  <2>3. /\ r.kind \in {"HELLO", "DATA", "SESSION"}
        /\ r.kind = "DATA" => r.session \in Sessions
        /\ r.kind # "DATA" => r.label \in Sessions \cup {Unread}
    BY <2>2, RecordForms
  <2>4. sessionId' \in Sessions \cup {null, Unread} /\ half' \in Sessions \cup {null, Other}
    <3>1. consumeBridgeRecord(r)
      BY <1>6 DEF onmessage
    <3>2. /\ sessionId' = IF r.kind = "DATA" THEN sessionId ELSE r.label
          /\ r.kind = "DATA" => half' \in {null, r.session}
          /\ r.kind # "DATA" => half' \in {null, half}
      BY <2>3, <3>1 DEF consumeBridgeRecord
    <3> QED BY <2>3, <3>2 DEF TypeInv, TransportsTypeOK
  <2>5. joined' \subseteq Sessions \X Sessions
    BY <1>6, <2>3 DEF onmessage, TypeInv, TransportsTypeOK
  <2>6. incoming' \in [Sockets -> Seq(Records)]
    BY <1>6, <2>2 DEF onmessage, TypeInv, CountsOK
  <2> QED BY <1>1, <1>6, <2>4, <2>5, <2>6 DEF TypeInv, TransportsTypeOK, CountsOK, onmessage, serialVars, sessionVars
<1>7. ASSUME NEW s \in Sockets, BadRecord(s) PROVE TypeInv'
  BY <1>1, <1>7 DEF TypeInv, TransportsTypeOK, CountsOK, BadRecord, setConnected, serialVars, sessionVars
<1> QED BY <1>2, <1>3, <1>4, <1>5, <1>6, <1>7 DEF SocketSteps

LEMMA TypeStep == TypeInv /\ [TransportsNext]_transportsVars => TypeInv'
<1> SUFFICES ASSUME TypeInv, [TransportsNext]_transportsVars PROVE TypeInv'
  OBVIOUS
<1>1. CASE replayRawCapture
  BY <1>1 DEF TypeInv, TransportsTypeOK, CountsOK, SerialInv, replayRawCapture, serialVars, bridgeVars, sessionVars
<1>3. CASE ChangeSource
  BY <1>3 DEF TypeInv, TransportsTypeOK, CountsOK, SerialInv, ChangeSource, serialVars, bridgeVars, sessionVars
<1>2. CASE UNCHANGED transportsVars
  BY <1>2 DEF TypeInv, TransportsTypeOK, CountsOK, SerialInv, transportsVars, serialVars, bridgeVars, sessionVars
<1> QED BY <1>1, <1>2, <1>3, NextCases, SerialTypes, SocketTypes

LEMMA TypeStart == TransportsInit => TypeInv
<1> SUFFICES ASSUME TransportsInit PROVE TypeInv
  OBVIOUS
<1>1. incoming \in [Sockets -> Seq(Records)] /\ sockets \in [Sockets -> {"none"}]
  BY DEF TransportsInit
<1>2. connects \in 0 .. MaxConnects /\ resets \in 0 .. MaxResets /\ session = resets + 1
  BY Numbers DEF TransportsInit
<1>3. SerialInv
  BY DEF TransportsInit, SerialInv
<1>4. TransportsTypeOK
  <2>1. label \in [Sessions -> Sessions]
    BY Numbers DEF TransportsInit
  <2> QED BY <1>1, <2>1 DEF TransportsInit, TransportsTypeOK
<1> QED BY <1>1, <1>2, <1>3, <1>4 DEF TypeInv, CountsOK

(* Every variable holds a value of its kind, and a read loop that runs has *)
(* a reader and a port that is open, however connect and disconnect        *)
(* overlap (connect, readLoop, disconnect).                                *)
THEOREM TransportsTypeCorrect == TransportsSpec => []TransportsTypeOK
<1>1. TypeInv => TransportsTypeOK
  BY DEF TypeInv
<1> QED BY <1>1, TypeStart, TypeStep, PTL DEF TransportsSpec
-----------------------------------------------------------------------------
(* The records of a socket tell the labels: what is sent next, and what    *)
(* is taken first.  A record says its own label, DATA that of its session. *)
LEMMA ToldMore ==
  ASSUME NEW q \in Seq(Records), NEW names, NEW n, NEW first, NEW last,
         Told(q, names, n, first, last),
         NEW r \in Records, r.kind = "DATA" => r.session \in 1 .. n /\ names[r.session] = last
  PROVE  Told(Append(q, r), names, n, first, Says(r, names))
<1> DEFINE more == Append(q, r)
<1>2. /\ Len(more) = Len(q) + 1 /\ Len(q) \in Nat /\ more # <<>>
      /\ \A i \in 1 .. Len(q) : more[i] = q[i]
      /\ more[Len(more)] = r
  OBVIOUS
<1>3. q = <<>> <=> Len(q) = 0
  OBVIOUS
<1> HIDE DEF more
<1>4. ASSUME NEW i \in 1 .. Len(more), more[i].kind = "DATA"
      PROVE  /\ more[i].session \in 1 .. n
             /\ names[more[i].session] = IF i = 1 THEN first ELSE Says(more[i - 1], names)
  <2>1. CASE i \in 1 .. Len(q)
    <3>1. i # 1 => i - 1 \in 1 .. Len(q)
      BY <2>1
    <3> QED BY <1>2, <1>4, <2>1, <3>1 DEF Told
  <2>2. CASE i = Len(q) + 1
    <3>1. more[i].session \in 1 .. n /\ names[more[i].session] = last
      BY <1>2, <1>4, <2>2
    <3>2. i # 1 => i - 1 = Len(q) /\ Len(q) \in 1 .. Len(q)
      BY <1>2, <2>2
    <3> QED BY <1>2, <1>3, <2>2, <3>1, <3>2 DEF Told
  <2> QED BY <1>2, <2>1, <2>2
<1> QED BY <1>2, <1>4 DEF Told, more

LEMMA ToldLess ==
  ASSUME NEW q \in Seq(Records), q # <<>>, NEW names, NEW n, NEW first, NEW last,
         Told(q, names, n, first, last)
  PROVE  Told(Tail(q), names, n, Says(Head(q), names), last)
<1> DEFINE rest == Tail(q)
<1>1. /\ Len(rest) = Len(q) - 1 /\ Len(q) \in Nat \ {0} /\ Head(q) = q[1]
      /\ rest \in Seq(Records)
      /\ \A i \in 1 .. Len(rest) : rest[i] = q[i + 1]
  OBVIOUS
<1>2. rest = <<>> <=> Len(rest) = 0
  <2>1. \A t \in Seq(Records) : t = <<>> <=> Len(t) = 0
    OBVIOUS
  <2> QED BY ONLY <1>1, <2>1
<1>3. ASSUME NEW i \in 1 .. Len(rest), rest[i].kind = "DATA"
      PROVE  /\ rest[i].session \in 1 .. n
             /\ names[rest[i].session] = IF i = 1 THEN Says(q[1], names) ELSE Says(rest[i - 1], names)
  <2>1. i + 1 \in 1 .. Len(q) /\ i + 1 # 1 /\ (i + 1) - 1 = i
    BY <1>1
  <2>2. rest[i].session \in 1 .. n /\ names[rest[i].session] = Says(q[i], names)
    BY <1>1, <1>3, <2>1 DEF Told
  <2>3. i # 1 => i - 1 \in 1 .. Len(rest) /\ (i - 1) + 1 = i
    BY <1>1
  <2> QED BY <1>1, <2>2, <2>3
<1>4. last = IF rest = <<>> THEN Says(q[1], names) ELSE Says(rest[Len(rest)], names)
  <2>1. last = Says(q[Len(q)], names)
    BY <1>1 DEF Told
  <2>2. rest # <<>> => Len(rest) \in 1 .. Len(rest) /\ Len(rest) + 1 = Len(q)
    BY <1>1, <1>2
  <2> QED BY <1>1, <1>2, <2>1, <2>2
<1> QED BY <1>1, <1>3, <1>4 DEF Told

(* DATA that a viewer takes has the label it knows of.                     *)
LEMMA ToldFirst ==
  ASSUME NEW q \in Seq(Records), q # <<>>, NEW names, NEW n, NEW first, NEW last,
         Told(q, names, n, first, last), Head(q).kind = "DATA"
  PROVE  Head(q).session \in 1 .. n /\ names[Head(q).session] = first
<1>1. Head(q) = q[1] /\ 1 \in 1 .. Len(q)
  OBVIOUS
<1> QED BY <1>1 DEF Told

(* A later session leaves what was told as it is.                          *)
LEMMA ToldStill ==
  ASSUME NEW q \in Seq(Records), NEW names, NEW n \in Nat, NEW first, NEW last,
         Told(q, names, n, first, last),
         NEW others, NEW m \in Nat, n <= m, \A i \in 1 .. n : others[i] = names[i],
         \A i \in 1 .. Len(q) : q[i].kind = "DATA" => q[i].session \in 1 .. n
  PROVE  Told(q, others, m, first, last)
<1>1. \A i \in 1 .. Len(q) : Says(q[i], others) = Says(q[i], names)
  BY DEF Says
<1>2. q # <<>> => Len(q) \in 1 .. Len(q)
  OBVIOUS
<1>3. last = IF q = <<>> THEN first ELSE Says(q[Len(q)], others)
  BY <1>1, <1>2 DEF Told
<1>4. ASSUME NEW i \in 1 .. Len(q), q[i].kind = "DATA"
      PROVE  /\ q[i].session \in 1 .. m
             /\ others[q[i].session] = IF i = 1 THEN first ELSE Says(q[i - 1], others)
  <2>1. i # 1 => i - 1 \in 1 .. Len(q)
    OBVIOUS
  <2>2. q[i].session \in 1 .. n
    BY <1>4
  <2>3. names[q[i].session] = IF i = 1 THEN first ELSE Says(q[i - 1], names)
    BY <1>4 DEF Told
  <2> QED BY <1>1, <2>1, <2>2, <2>3
<1> QED BY <1>3, <1>4 DEF Told

-----------------------------------------------------------------------------
(* Without an overlap: the sockets, and the sessions.                      *)
LEMMA SessionKept ==
  ASSUME SessionInv,
         socket' = socket, sockets' = sockets, incoming' = incoming,
         session' = session, label' = label, known' = known,
         sessionId' = sessionId, joined' = joined,
         half' = half \/ half' \notin Sessions,
         trouble \subseteq trouble'
  PROVE  SessionInv'
BY DEF SessionInv, OneLive, Told, Says

LEMMA SessionSerial ==
  ASSUME TypeInv, SessionInv, SerialSteps, ~Disconnect
  PROVE  SessionInv'
<1>1. /\ socket' = socket /\ sockets' = sockets /\ incoming' = incoming
      /\ session' = session /\ label' = label /\ known' = known
      /\ sessionId' = sessionId /\ joined' = joined
      /\ trouble \subseteq trouble'
  BY DEF SerialSteps, Connect, Click, PortChosen, PortOpened, ReadChunk, LineError, LoopEnds,
         Write, ReaderCancelled, ClosePort, PortClosed, bridgeVars, sessionVars
<1>2. half' = half \/ half' \in {null, Other}
  BY DEF SerialSteps, Connect, Click, PortChosen, PortOpened, ReadChunk, LineError, LoopEnds,
         Write, ReaderCancelled, PortClosed
<1> QED BY <1>1, <1>2, Numbers, SessionKept

LEMMA SessionDisconnect ==
  ASSUME TypeInv, SessionInv, Disconnect
  PROVE  SessionInv'
<1> SUFFICES ASSUME "overlap" \notin trouble' PROVE SessionInv'
  BY DEF SessionInv
<1>1. /\ incoming' = incoming /\ session' = session /\ label' = label /\ known' = known
      /\ sessionId' = sessionId
      /\ half' = half /\ joined' = joined /\ trouble \subseteq trouble'
      /\ socket' = null
      /\ sockets' = IF socket = null THEN sockets ELSE [sockets EXCEPT ![socket] = "closing"]
  BY DEF Disconnect, CloseSocket, CancelReader, ClosePort, sessionVars
<1>2. /\ socket \in Sockets \cup {null}
      /\ sockets \in [Sockets -> {"none", "connecting", "open", "closing", "closed"}]
  BY DEF TypeInv, TransportsTypeOK
<1>3. \A s \in Sockets : sockets'[s] \in Live => sockets[s] \in Live
  BY <1>1, <1>2 DEF SessionInv, OneLive, Live
<1>4. \A s \in Sockets : sockets'[s] = "open" => sockets[s] = "open"
  BY <1>1, <1>2
<1>5. OneLive'
  BY <1>1, <1>3 DEF SessionInv, OneLive
<1>6. ASSUME NEW s \in Sockets, sockets'[s] = "open"
      PROVE  Told(incoming'[s], label', session', sessionId', known')
  BY <1>1, <1>4, <1>6 DEF SessionInv
<1> QED BY <1>1, <1>5, <1>6 DEF SessionInv

LEMMA SessionConnect ==
  ASSUME TypeInv, SessionInv, ConnectJtag
  PROVE  SessionInv'
<1> SUFFICES ASSUME "overlap" \notin trouble' PROVE SessionInv'
  BY DEF SessionInv
<1>1. "overlap" \notin trouble /\ \A s \in Sockets : sockets[s] \notin Live
  BY DEF ConnectJtag, Click, Unfinished, Live
<1>2. /\ session' = session /\ label' = label /\ sessionId' = sessionId
      /\ half' = half /\ joined' = joined
      /\ socket' = connects' /\ sockets' = [sockets EXCEPT ![connects'] = "connecting"]
  BY DEF ConnectJtag, sessionVars
<1>3. sockets \in [Sockets -> {"none", "connecting", "open", "closing", "closed"}]
  BY DEF TypeInv, TransportsTypeOK
<1>4. connects' \in Sockets
  BY Numbers DEF ConnectJtag, Click, TypeInv, CountsOK
<1>5. \A s \in Sockets : sockets'[s] \in Live => s = connects' /\ sockets'[s] = "connecting"
  BY <1>1, <1>2, <1>3
<1>6. OneLive'
  BY <1>2, <1>3, <1>4, <1>5 DEF OneLive, Live
<1>7. \A s \in Sockets : sockets'[s] # "open"
  BY <1>5 DEF Live
<1> QED BY <1>1, <1>2, <1>6, <1>7 DEF SessionInv

(* A reset: the sessions so far keep their labels.                         *)
LEMMA SessionReset ==
  ASSUME TypeInv, SessionInv, FpgaReset
  PROVE  SessionInv'
<1> SUFFICES ASSUME "overlap" \notin trouble' PROVE SessionInv'
  BY DEF SessionInv
<1>1. /\ socket' = socket /\ sockets' = sockets /\ sessionId' = sessionId /\ known' = known
      /\ half' = half /\ joined' = joined /\ trouble' = trouble /\ incoming' = incoming
      /\ session' = session + 1
  BY DEF FpgaReset, bridgeVars
<1>2. session \in Nat /\ session' \in Nat /\ session <= session' /\ 1 .. session \subseteq 1 .. session'
  BY <1>1, Numbers DEF TypeInv, CountsOK
<1>3. \A i \in 1 .. session : label'[i] = label[i]
  <2>1. PICK x : label' = [label EXCEPT ![session'] = x]
    BY DEF FpgaReset
  <2>2. \A i \in 1 .. session : i \in Sessions /\ i # session'
    BY <1>1, <1>2, Numbers DEF TypeInv, CountsOK
  <2> QED BY <2>1, <2>2 DEF TypeInv, TransportsTypeOK
<1>4. ASSUME NEW s \in Sockets, sockets'[s] = "open"
      PROVE  Told(incoming'[s], label', session', sessionId', known')
  <2> DEFINE q == incoming[s]
  <2>1. Told(q, label, session, sessionId, known) /\ q \in Seq(Records)
    BY <1>1, <1>4 DEF SessionInv, TypeInv, CountsOK
  <2>2. \A i \in 1 .. Len(q) : q[i].kind = "DATA" => q[i].session \in 1 .. session
    BY <2>1 DEF Told
  <2> HIDE DEF q
  <2>3. Told(q, label', session', sessionId, known)
    BY <1>2, <1>3, <2>1, <2>2, ToldStill
  <2> QED BY <1>1, <2>3 DEF q
<1>5. OneLive'
  BY <1>1 DEF SessionInv, OneLive
<1>6. half' \in Sessions => half' \in 1 .. session' /\ label'[half'] = sessionId'
  BY <1>1, <1>2, <1>3 DEF SessionInv
<1>7. ASSUME NEW pair \in joined'
      PROVE  {pair[1], pair[2]} \subseteq 1 .. session' /\ label'[pair[1]] = label'[pair[2]]
  <2>1. {pair[1], pair[2]} \subseteq 1 .. session /\ label[pair[1]] = label[pair[2]]
    BY <1>1, <1>7 DEF SessionInv
  <2> QED BY <1>2, <1>3, <2>1
<1> QED BY <1>4, <1>5, <1>6, <1>7 DEF SessionInv

LEMMA SessionBridge ==
  ASSUME TypeInv, SessionInv, BridgeSends
  PROVE  SessionInv'
<1> SUFFICES ASSUME "overlap" \notin trouble' PROVE SessionInv'
  BY DEF SessionInv
<1>1. /\ socket' = socket /\ sockets' = sockets /\ sessionId' = sessionId
      /\ half' = half /\ joined' = joined /\ trouble' = trouble
      /\ session' = session /\ label' = label /\ known' = label[session]
  BY DEF BridgeSends
<1>2. session \in Sessions /\ session \in 1 .. session /\ known' \in Sessions
  BY <1>1, Numbers DEF TypeInv, CountsOK, TransportsTypeOK
<1> DEFINE notice == [kind |-> "SESSION", label |-> known']
           data == [kind |-> "DATA", session |-> session]
<1>3. /\ notice \in Records /\ notice.kind = "SESSION" /\ Says(notice, label) = known'
      /\ data \in Records /\ data.kind = "DATA" /\ data.session = session
      /\ Says(data, label) = known'
  BY <1>1, <1>2 DEF Records, Says
<1>4. \/ known' = known /\ (Broadcast(<<>>) \/ Broadcast(<<data>>))
      \/ Broadcast(<<notice>>) \/ Broadcast(<<notice>> \o <<data>>)
  BY Broadcasts
<1> HIDE DEF notice, data
<1>5. ASSUME NEW s \in Sockets, sockets'[s] = "open"
      PROVE  Told(incoming'[s], label', session', sessionId', known')
  <2> DEFINE q == incoming[s]
  <2>1. Told(q, label, session, sessionId, known) /\ q \in Seq(Records)
    BY <1>1, <1>5 DEF SessionInv, TypeInv, CountsOK
  <2>2. \A new : Broadcast(new) => incoming'[s] = q \o new
    BY <1>1, <1>5 DEF Broadcast
  <2> HIDE DEF q
  <2>3. Told(Append(q, notice), label, session, sessionId, known')
    <3>1. Told(Append(q, notice), label, session, sessionId, Says(notice, label))
      BY <1>3, <2>1, ToldMore
    <3> QED BY <1>3, <3>1
  <2>4. CASE known' = known /\ Broadcast(<<>>)
    <3>1. q \o <<>> = q
      BY <2>1
    <3> QED BY <1>1, <2>1, <2>2, <2>4, <3>1
  <2>5. CASE known' = known /\ Broadcast(<<data>>)
    <3>1. q \o <<data>> = Append(q, data)
      BY <1>3, <2>1
    <3>2. Told(Append(q, data), label, session, sessionId, Says(data, label))
      BY <1>1, <1>2, <1>3, <2>1, <2>5, ToldMore
    <3> QED BY <1>1, <1>3, <2>2, <2>5, <3>1, <3>2
  <2>6. CASE Broadcast(<<notice>>)
    <3>1. q \o <<notice>> = Append(q, notice)
      BY <1>3, <2>1
    <3> QED BY <1>1, <2>2, <2>3, <2>6, <3>1
  <2>7. CASE Broadcast(<<notice>> \o <<data>>)
    <3>1. q \o (<<notice>> \o <<data>>) = Append(Append(q, notice), data)
      BY <1>3, <2>1
    <3>2. Append(q, notice) \in Seq(Records)
      BY <1>3, <2>1
    <3>3. Told(Append(Append(q, notice), data), label, session, sessionId, Says(data, label))
      BY <1>1, <1>2, <1>3, <2>3, <3>2, ToldMore
    <3> QED BY <1>1, <1>3, <2>2, <2>7, <3>1, <3>3
  <2> QED BY <1>4, <2>4, <2>5, <2>6, <2>7
<1>6. OneLive'
  BY <1>1 DEF SessionInv, OneLive
<1> QED BY <1>1, <1>5, <1>6 DEF SessionInv

LEMMA SessionStarts ==
  ASSUME TypeInv, SessionInv, BridgeStarts
  PROVE  SessionInv'
BY DEF SessionInv, OneLive, BridgeStarts, bridgeVars

LEMMA SessionMessage ==
  ASSUME TypeInv, SessionInv, NEW s \in Sockets, onmessage(s)
  PROVE  SessionInv'
<1> SUFFICES ASSUME "overlap" \notin trouble' PROVE SessionInv'
  BY DEF SessionInv
<1> DEFINE q == incoming[s]
           r == Head(q)
<1>1. /\ socket' = socket /\ sockets' = sockets /\ trouble' = trouble
      /\ session' = session /\ label' = label /\ known' = known
      /\ sockets[s] = "open" /\ q # <<>> /\ incoming' = [incoming EXCEPT ![s] = Tail(q)]
      /\ consumeBridgeRecord(r)
      /\ joined' = IF r.kind = "DATA" /\ half \in Sessions \ {r.session}
                   THEN joined \cup {<<half, r.session>>} ELSE joined
  BY DEF onmessage, sessionVars
<1>2. /\ OneLive /\ Told(q, label, session, sessionId, known)
      /\ half \in Sessions => half \in 1 .. session /\ label[half] = sessionId
  BY <1>1 DEF SessionInv
<1>3. q \in Seq(Records) /\ r \in Records /\ incoming \in [Sockets -> Seq(Records)]
  BY <1>1 DEF TypeInv, CountsOK
<1>4. /\ r.kind \in {"HELLO", "DATA", "SESSION"}
      /\ r.kind # "DATA" => r.label \in Sessions \cup {Unread}
  BY <1>3, RecordForms
<1>5. r.kind = "DATA" => r.session \in 1 .. session /\ label[r.session] = sessionId
  BY <1>1, <1>2, <1>3, ToldFirst
<1>6. sessionId' = Says(r, label)
  BY <1>1, <1>5 DEF consumeBridgeRecord, Says
<1> HIDE DEF r, q
<1>7. half' \in Sessions => half' \in 1 .. session /\ label[half'] = Says(r, label)
  <2>1. sessionId \in Sessions \cup {null, Unread}
    BY DEF TypeInv, TransportsTypeOK
  <2>2. CASE r.kind = "DATA"
    BY <1>1, <1>5, <2>2, Numbers DEF consumeBridgeRecord, Says
  <2>3. CASE r.kind = "SESSION"
    BY <1>1, <2>3, Numbers DEF consumeBridgeRecord
  <2>4. CASE r.kind = "HELLO"
    <3>1. half' = IF sessionId \notin {null, r.label} THEN null ELSE half
      BY <1>1, <2>4 DEF consumeBridgeRecord
    <3>2. ASSUME half' \in Sessions PROVE half' = half /\ sessionId \in {null, r.label}
      BY <3>1, <3>2, Numbers
    <3>3. half' \in Sessions => sessionId # null
      <4> SUFFICES ASSUME half' \in Sessions PROVE sessionId # null
        OBVIOUS
      <4>1. label[half] \in Sessions
        BY <3>2 DEF TypeInv, TransportsTypeOK
      <4> QED BY <1>2, <3>2, <4>1, Numbers
    <3> QED BY <1>2, <2>4, <3>2, <3>3 DEF Says
  <2> QED BY <1>4, <2>2, <2>3, <2>4
<1>8. ASSUME NEW pair \in joined'
      PROVE  {pair[1], pair[2]} \subseteq 1 .. session' /\ label'[pair[1]] = label'[pair[2]]
  <2>1. CASE pair \in joined
    BY <1>1, <2>1 DEF SessionInv
  <2>2. CASE r.kind = "DATA" /\ half \in Sessions /\ pair = <<half, r.session>>
    BY <1>1, <1>2, <1>5, <2>2
  <2> QED BY <1>1, <1>8, <2>1, <2>2
<1>9. ASSUME NEW t \in Sockets, sockets'[t] = "open"
      PROVE  Told(incoming'[t], label', session', sessionId', known')
  <2>1. t = s
    BY <1>1, <1>2, <1>9 DEF OneLive, Live
  <2>2. incoming'[t] = Tail(q)
    BY <1>1, <1>3, <2>1
  <2>3. Told(Tail(q), label, session, Says(Head(q), label), known)
    BY <1>2, <1>3, <1>1, ToldLess
  <2> QED BY <1>1, <1>6, <2>2, <2>3 DEF r
<1>10. OneLive'
  BY <1>1, <1>2 DEF OneLive
<1>11. half' \in Sessions => half' \in 1 .. session' /\ label'[half'] = sessionId'
  BY <1>1, <1>6, <1>7
<1> QED BY <1>8, <1>9, <1>10, <1>11 DEF SessionInv

LEMMA SessionCallbacks ==
  ASSUME TypeInv, SessionInv, NEW s \in Sockets, onopen(s) \/ onclose(s) \/ BadRecord(s)
  PROVE  SessionInv'
<1> SUFFICES ASSUME "overlap" \notin trouble' PROVE SessionInv'
  BY DEF SessionInv
<1>1. /\ session' = session /\ label' = label /\ known' = known /\ sessionId' = sessionId
      /\ half' = half /\ joined' = joined /\ trouble' = trouble
  BY DEF onopen, onclose, BadRecord, sessionVars
<1>2. /\ sockets \in [Sockets -> {"none", "connecting", "open", "closing", "closed"}]
      /\ incoming \in [Sockets -> Seq(Records)] /\ socket \in Sockets \cup {null}
  BY DEF TypeInv, TransportsTypeOK, CountsOK
<1>3. OneLive /\ \A t \in Sockets : sockets[t] = "open" =>
                   Told(incoming[t], label, session, sessionId, known)
  BY <1>1 DEF SessionInv
<1>4. OneLive'
  <2>1. CASE onopen(s)
    BY <1>2, <1>3, <2>1, Numbers DEF onopen, OneLive, Live
  <2>2. CASE onclose(s)
    BY <1>2, <1>3, <2>2, Numbers DEF onclose, OneLive, Live
  <2>3. CASE BadRecord(s)
    BY <1>2, <1>3, <2>3, Numbers DEF BadRecord, OneLive, Live
  <2> QED BY <2>1, <2>2, <2>3
<1>5. ASSUME NEW t \in Sockets, sockets'[t] = "open"
      PROVE  Told(incoming'[t], label', session', sessionId', known')
  <2>1. CASE sockets[t] = "open" /\ incoming'[t] = incoming[t]
    BY <1>1, <1>3, <2>1
  <2>2. CASE onopen(s)
    <3>1. t # s => sockets[t] = "open" /\ incoming'[t] = incoming[t]
      BY <1>2, <1>5, <2>2 DEF onopen
    <3>2. incoming'[s] = <<[kind |-> "HELLO", label |-> known]>>
      BY <1>2, <2>2 DEF onopen
    <3>3. t = s => Told(incoming'[t], label', session', sessionId', known')
      <4> DEFINE x == <<[kind |-> "HELLO", label |-> known]>>
      <4>1. Len(x) = 1 /\ x # <<>> /\ x[1] = [kind |-> "HELLO", label |-> known]
        OBVIOUS
      <4>2. \A i \in 1 .. Len(x) : x[i].kind = "HELLO"
        BY <4>1
      <4>3. known = Says(x[Len(x)], label)
        BY <4>1 DEF Says
      <4> HIDE DEF x
      <4>4. Told(x, label, session, sessionId, known)
        BY <4>1, <4>2, <4>3 DEF Told
      <4> QED BY <1>1, <3>2, <4>4 DEF x
    <3> QED BY <2>1, <3>1, <3>3
  <2>3. CASE onclose(s) \/ BadRecord(s)
    <3>1. sockets[t] = "open" /\ incoming'[t] = incoming[t]
      BY <1>2, <1>5, <2>3 DEF onclose, BadRecord
    <3> QED BY <2>1, <3>1
  <2> QED BY <2>2, <2>3
<1> QED BY <1>1, <1>4, <1>5 DEF SessionInv

LEMMA SessionStep == TypeInv /\ SessionInv /\ [TransportsNext]_transportsVars => SessionInv'
<1> SUFFICES ASSUME TypeInv, SessionInv, [TransportsNext]_transportsVars PROVE SessionInv'
  OBVIOUS
<1>1. CASE SocketSteps
  BY <1>1, SessionConnect, SessionReset, SessionBridge, SessionStarts, SessionMessage,
     SessionCallbacks DEF SocketSteps, BridgeSteps
<1>2. CASE replayRawCapture \/ ChangeSource \/ UNCHANGED transportsVars
  <2>1. /\ socket' = socket /\ sockets' = sockets /\ incoming' = incoming
        /\ session' = session /\ label' = label /\ known' = known
        /\ sessionId' = sessionId /\ joined' = joined /\ trouble \subseteq trouble'
    BY <1>2 DEF replayRawCapture, ChangeSource, transportsVars, bridgeVars, sessionVars
  <2>2. half' = half \/ half' \in {null, Other}
    BY <1>2 DEF replayRawCapture, ChangeSource, transportsVars
  <2> QED BY <2>1, <2>2, Numbers, SessionKept
<1> QED BY <1>1, <1>2, NextCases, SessionSerial, SessionDisconnect

LEMMA SessionStart == TransportsInit => SessionInv
<1> SUFFICES ASSUME TransportsInit PROVE SessionInv
  OBVIOUS
<1>1. /\ socket = null /\ \A s \in Sockets : sockets[s] = "none"
      /\ half = null /\ joined = {}
  BY DEF TransportsInit
<1>2. OneLive
  BY <1>1 DEF OneLive, Live
<1> QED BY <1>1, <1>2, Numbers DEF SessionInv

(* A half frame that one session of the FPGA left is never continued with  *)
(* bytes of another, as long as no two connections overlap, however often  *)
(* the FPGA is reset, the bridge is started again, and whatever is under   *)
(* way then; unless both sessions have the same label (pump_once,          *)
(* consumeBridgeRecord).                                                   *)
THEOREM SessionsKeptApart == TransportsSpec => []SessionsNotJoined
<1>1. SessionInv => SessionsNotJoined
  BY DEF SessionInv, SessionsNotJoined
<1> QED BY <1>1, SessionStart, TypeStart, TypeStep, SessionStep, PTL DEF TransportsSpec

(* Labels that are all different, and pairs of different sessions.         *)
Relabelled ==
  /\ \A i \in 1 .. session : label[i] = i
  /\ \A pair \in joined : pair[1] # pair[2]

(* Where every reset of the FPGA brings a label of its own, as the design  *)
(* document has it and the mailbox model does, no half frame of one        *)
(* session is ever continued with bytes of another, as long as no two      *)
(* connections overlap (pump_once, consumeBridgeRecord).                   *)
THEOREM RelabelledKeptApart ==
  ASSUME Relabels \subseteq {TRUE}
  PROVE  TransportsSpec => []ResetDiscardsHalf
<1>1. TransportsInit => SessionInv /\ Relabelled
  <2> SUFFICES ASSUME TransportsInit PROVE SessionInv /\ Relabelled
    OBVIOUS
  <2>1. Relabelled
    BY Numbers DEF TransportsInit, Relabelled
  <2> QED BY <2>1, SessionStart
<1>2. SessionInv /\ Relabelled => ResetDiscardsHalf
  BY DEF SessionInv, Relabelled, ResetDiscardsHalf
<1>3. TypeInv /\ Relabelled /\ [TransportsNext]_transportsVars => Relabelled'
  <2> SUFFICES ASSUME TypeInv, Relabelled, [TransportsNext]_transportsVars PROVE Relabelled'
    OBVIOUS
  <2>1. CASE FpgaReset
    <3>1. PICK new \in Relabels :
            label' = [label EXCEPT ![session'] = IF new THEN session' ELSE label[session]]
      BY <2>1 DEF FpgaReset
    <3>2. new = TRUE
      BY <3>1
    <3>3. /\ session' = session + 1 /\ session \in Nat /\ joined' = joined
          /\ \A i \in 1 .. session' : i \in Sessions
      <4>1. /\ session' = session + 1 /\ joined' = joined /\ session = resets + 1
            /\ resets \in 0 .. MaxResets /\ resets < MaxResets
        BY <2>1 DEF FpgaReset, TypeInv, CountsOK
      <4>2. resets + 1 \in 0 .. MaxResets /\ session' = (resets + 1) + 1 /\ session \in Nat
        BY <4>1, Numbers
      <4>3. \A i \in 1 .. session' : i \in Sessions
        BY <4>2, Numbers
      <4> QED BY <4>1, <4>2, <4>3
    <3>4. label' = [label EXCEPT ![session'] = session'] /\ label \in [Sessions -> Sessions]
      BY <3>1, <3>2 DEF TypeInv, TransportsTypeOK
    <3>5. ASSUME NEW i \in 1 .. session' PROVE label'[i] = i
      <4>1. CASE i \in 1 .. session
        BY <3>3, <3>4, <4>1 DEF Relabelled
      <4>2. CASE i = session'
        BY <3>3, <3>4, <4>2
      <4> QED BY <3>3, <4>1, <4>2
    <3> QED BY <3>3, <3>5 DEF Relabelled
  <2>2. ASSUME NEW s \in Sockets, onmessage(s) PROVE Relabelled'
    <3>1. /\ session' = session /\ label' = label
          /\ \/ joined' = joined
             \/ \E n : half # n /\ joined' = joined \cup {<<half, n>>}
      BY <2>2 DEF onmessage, sessionVars
    <3> QED BY <3>1 DEF Relabelled
  <2>3. CASE ~FpgaReset /\ ~\E s \in Sockets : onmessage(s)
    <3>1. session' = session /\ label' = label /\ joined' = joined
      BY <2>3, NextCases DEF SerialSteps, SocketSteps, BridgeSteps, Connect, ConnectJtag, Click,
         PortChosen, PortOpened, ReadChunk, LineError, LoopEnds, Write, Disconnect, ReaderCancelled,
         PortClosed, BridgeSends, BridgeStarts, onopen, onclose, BadRecord, replayRawCapture,
         ChangeSource, transportsVars, sessionVars
    <3> QED BY <3>1 DEF Relabelled
  <2> QED BY <2>1, <2>2, <2>3
<1> QED BY <1>1, <1>2, <1>3, TypeStart, TypeStep, SessionStep, PTL DEF TransportsSpec

-----------------------------------------------------------------------------
(* The phases of an orderly use follow each other.                         *)
LEMMA PhaseSerial ==
  ASSUME TypeInv, trouble' = {}, NoSocket, Serial, SerialSteps
  PROVE  NoSocket' /\ Serial'
<1>1. /\ {port, reader, writing} \subseteq BOOLEAN /\ loop \in {"none", "reading", "ended"}
      /\ connection \in {"disconnected", "connecting", "connected"}
  BY DEF TypeInv, TransportsTypeOK
<1>2. NoSocket'
  BY DEF NoSocket, SerialSteps, Connect, PortChosen, PortOpened, ReadChunk, LineError, LoopEnds,
         Write, Disconnect, CloseSocket, ReaderCancelled, PortClosed, bridgeVars
<1> SUFFICES Serial'
  BY <1>2
<1>3. CASE Connect
  BY <1>1, <1>3 DEF Connect, Click, Unfinished, Serial, Calls, Port
<1>4. CASE PortChosen
  BY <1>1, <1>4 DEF PortChosen, Serial, Calls, Port
<1>5. CASE PortOpened
  BY <1>1, <1>5 DEF PortOpened, setConnected, Serial, Calls, Port
<1>6. CASE ReadChunk \/ Write
  BY <1>1, <1>6 DEF ReadChunk, Write, serialVars, Serial, Calls, Port
<1>7. CASE LineError
  BY <1>7 DEF LineError
<1>8. CASE LoopEnds
  BY <1>1, <1>8 DEF LoopEnds, setConnected, Serial, Calls, Port
<1>9. CASE Disconnect
  <2>2. CASE closing # "none"
    <3>1. UNCHANGED <<port, reader, connecting, closing, loop, portState, connection>>
      BY <1>9, <2>2 DEF Disconnect
    <3> QED BY <3>1 DEF Serial, Calls, Port
  <2>3. CASE closing = "none"
    <3>1. Calls("none", "none") /\ loop = "reading" /\ Port(TRUE, TRUE, "open")
      BY <1>9, <2>3 DEF Disconnect, Serial, Calls, Port
    <3>2. CancelReader /\ UNCHANGED <<port, reader, connecting, portState, connection>>
      BY <1>9, <2>3, <3>1 DEF Disconnect, Port
    <3>3. closing' = "reader" /\ loop' = "ended"
      BY <3>1, <3>2 DEF CancelReader
    <3> QED BY <1>9, <3>1, <3>2, <3>3 DEF Serial, Calls, Port, Disconnect
  <2> QED BY <2>2, <2>3
<1>10. CASE ReaderCancelled
  <2>1. ~writing
    BY <1>1, <1>10 DEF ReaderCancelled, ClosePort, Serial, Calls, Port
  <2> QED BY <1>1, <1>10, <2>1 DEF ReaderCancelled, ClosePort, Serial, Calls, Port
<1>11. CASE PortClosed
  BY <1>1, <1>11 DEF PortClosed, setConnected, Serial, Calls, Port
<1> QED BY <1>3, <1>4, <1>5, <1>6, <1>7, <1>8, <1>9, <1>10, <1>11 DEF SerialSteps

(* A socket is made only when everything before it is over.                *)
LEMMA PhaseConnect ==
  ASSUME TypeInv, trouble' = {}, NoSocket, Serial, ConnectJtag
  PROVE  Bridge'
<1>1. connects' \in Sockets
  BY Numbers DEF ConnectJtag, Click, TypeInv, CountsOK
<1>2. sockets \in [Sockets -> {"none", "connecting", "open", "closing", "closed"}]
  BY DEF TypeInv, TransportsTypeOK
<1>3. Calls("none", "none") /\ loop = "none" /\ Port(FALSE, FALSE, "closed")
  BY DEF ConnectJtag, Click, Unfinished, Serial, Calls, Port
<1>4. /\ Calls("none", "none")' /\ loop' = "none" /\ Port(FALSE, FALSE, "closed")'
      /\ socket' = connects' /\ connection' = "connecting"
      /\ sockets' = [sockets EXCEPT ![connects'] = "connecting"]
  BY <1>3 DEF ConnectJtag, serialVars, Calls, Port
<1>5. /\ sockets'[connects'] = "connecting"
      /\ \A t \in Sockets : sockets'[t] \in Live => t = connects'
  BY <1>1, <1>2, <1>4 DEF NoSocket
<1> QED BY <1>1, <1>4, <1>5 DEF Bridge, Live

(* While a socket lives, its callbacks and Disconnect are all that moves.  *)
LEMMA PhaseBridge ==
  ASSUME TypeInv, trouble' = {}, trouble = {}, Bridge, SerialSteps \/ SocketSteps
  PROVE  (NoSocket /\ Serial)' \/ Bridge'
<1>1. PICK s \in Sockets :
        /\ sockets[s] \in Live /\ \A t \in Sockets : sockets[t] \in Live => t = s
        /\ \/ socket = s /\ sockets[s] = "connecting" /\ connection = "connecting"
           \/ socket = s /\ sockets[s] = "open" /\ connection = "connected"
           \/ socket \in {null, s} /\ sockets[s] = "closing" /\ connection = "disconnected"
  BY DEF Bridge
<1>2. Calls("none", "none") /\ loop = "none" /\ Port(FALSE, FALSE, "closed")
  BY DEF Bridge
<1>3. /\ sockets \in [Sockets -> {"none", "connecting", "open", "closing", "closed"}]
      /\ s # null
  BY Numbers DEF TypeInv, TransportsTypeOK
<1>4. ASSUME Calls("none", "none")', loop' = "none", Port(FALSE, FALSE, "closed")',
             socket' \in {null, s}, sockets' = [sockets EXCEPT ![s] = "closing"],
             connection' = "disconnected"
      PROVE  Bridge'
  <2>1. sockets'[s] = "closing" /\ \A t \in Sockets : sockets'[t] \in Live => t = s
    BY <1>1, <1>3, <1>4
  <2> QED BY <1>4, <2>1 DEF Bridge, Live
<1>5. ASSUME UNCHANGED serialVars
      PROVE  Calls("none", "none")' /\ loop' = "none" /\ Port(FALSE, FALSE, "closed")'
  BY <1>2, <1>5 DEF serialVars, Calls, Port
<1>6. ASSUME UNCHANGED <<serialVars, socket, sockets, connection>>
      PROVE  Bridge'
  BY <1>1, <1>2, <1>5, <1>6 DEF Bridge
<1>7. CASE SerialSteps /\ ~Write
  <2>1. Unfinished
    BY <1>1 DEF Unfinished, Live
  <2>2. Disconnect
    BY <1>2, <1>7, <2>1 DEF SerialSteps, Connect, Click, PortChosen, PortOpened,
       ReadChunk, LineError, LoopEnds, ReaderCancelled, PortClosed, Calls, Port
  <2>3. socket = s /\ sockets[s] = "open"
    BY <1>1, <2>2 DEF Disconnect
  <2>4. closing = "none" /\ ~reader /\ ~port /\ connecting = "none" /\ portState = "closed"
    BY <1>2 DEF Calls, Port
  <2>5. ClosePort /\ UNCHANGED <<loop, port, reader, connecting>> /\ CloseSocket
    BY <2>2, <2>4 DEF Disconnect
  <2>6. closing' = "none" /\ portState' = "closed" /\ connection' = "disconnected"
    BY <2>4, <2>5 DEF ClosePort, setConnected
  <2>7. socket' = null /\ sockets' = [sockets EXCEPT ![s] = "closing"]
    BY <1>3, <2>3, <2>5 DEF CloseSocket
  <2> QED BY <1>2, <1>4, <2>4, <2>5, <2>6, <2>7 DEF Calls, Port
<1>8. CASE ConnectJtag
  <2>1. Unfinished
    BY <1>1 DEF Unfinished, Live
  <2> QED BY <1>8, <2>1 DEF ConnectJtag, Click
<1>9. CASE BridgeSteps
  BY <1>6, <1>9 DEF BridgeSteps, FpgaReset, BridgeSends, BridgeStarts, bridgeVars
<1>10. ASSUME NEW u \in Sockets, onmessage(u) PROVE Bridge'
  BY <1>6, <1>10 DEF onmessage
<1>11. ASSUME NEW u \in Sockets, onopen(u) PROVE Bridge'
  <2>1. u = s /\ socket = s
    BY <1>1, <1>11 DEF onopen, Live
  <2>2. /\ UNCHANGED <<serialVars, socket>> /\ connection' = "connected"
        /\ sockets' = [sockets EXCEPT ![s] = "open"]
    BY <1>11, <2>1 DEF onopen, setConnected
  <2>3. sockets'[s] = "open" /\ \A t \in Sockets : sockets'[t] \in Live => t = s
    BY <1>1, <1>3, <2>2
  <2> QED BY <1>5, <2>1, <2>2, <2>3 DEF Bridge, Live
<1>12. ASSUME NEW u \in Sockets, onclose(u) PROVE (NoSocket /\ Serial)'
  <2>1. u = s
    BY <1>1, <1>12 DEF onclose, Live
  <2>2. /\ UNCHANGED serialVars /\ socket' = null /\ connection' = "disconnected"
        /\ sockets' = [sockets EXCEPT ![s] = "closed"]
    BY <1>12, <2>1 DEF onclose, setConnected
  <2>3. \A t \in Sockets : sockets'[t] \notin Live
    BY <1>1, <1>3, <2>2 DEF Live
  <2> QED BY <1>5, <2>2, <2>3 DEF NoSocket, Serial, Calls
<1>13. ASSUME NEW u \in Sockets, BadRecord(u) PROVE Bridge'
  <2>1. u = s /\ socket = s
    BY <1>1, <1>3, <1>13 DEF BadRecord, Live
  <2>2. /\ UNCHANGED <<serialVars, socket>> /\ connection' = "disconnected"
        /\ sockets' = [sockets EXCEPT ![s] = "closing"]
    BY <1>13, <2>1 DEF BadRecord, setConnected
  <2> QED BY <1>4, <1>5, <2>1, <2>2
<1>14. CASE Write
  BY <1>1, <1>2, <1>14 DEF Write, Bridge, Calls, Port, bridgeVars
<1> QED BY <1>7, <1>8, <1>9, <1>10, <1>11, <1>12, <1>13, <1>14 DEF SocketSteps

(* Without a socket the callbacks have nothing to do.                      *)
LEMMA PhaseQuiet ==
  ASSUME TypeInv, trouble' = {}, NoSocket, Serial, SocketSteps, ~ConnectJtag
  PROVE  NoSocket' /\ Serial'
<1>1. BridgeSteps
  BY DEF SocketSteps, onopen, onclose, onmessage, BadRecord, NoSocket, Live
<1> QED BY <1>1 DEF BridgeSteps, FpgaReset, BridgeSends, BridgeStarts, NoSocket, Serial, Calls, Port,
                    serialVars, bridgeVars

LEMMA PhaseStep == TypeInv /\ PhaseInv /\ [TransportsNext]_transportsVars => PhaseInv'
<1> SUFFICES ASSUME TypeInv, PhaseInv, [TransportsNext]_transportsVars, trouble' = {}
             PROVE  (NoSocket /\ Serial)' \/ Bridge'
  BY DEF PhaseInv
<1>1. trouble = {}
  <2>1. trouble \subseteq trouble'
    BY NextCases DEF SerialSteps, SocketSteps, Connect, ConnectJtag, Click, PortChosen, PortOpened,
       ReadChunk, LineError, LoopEnds, Write, Disconnect, CancelReader, ClosePort, ReaderCancelled,
       PortClosed, BridgeSteps, FpgaReset, BridgeSends, BridgeStarts, onopen, onclose, onmessage, BadRecord, replayRawCapture,
       ChangeSource, transportsVars
  <2> QED BY <2>1
<1>2. CASE replayRawCapture \/ ChangeSource \/ UNCHANGED transportsVars
  <2>1. UNCHANGED <<serialVars, socket, sockets, connection>>
    BY <1>2 DEF replayRawCapture, ChangeSource, transportsVars, bridgeVars
  <2> QED BY <1>1, <2>1 DEF PhaseInv, NoSocket, Serial, Bridge, Calls, Port, serialVars
<1> QED BY <1>1, <1>2, NextCases, PhaseSerial, PhaseConnect, PhaseQuiet, PhaseBridge DEF PhaseInv

(* What is shown is so.  As long as Connect is not clicked before an       *)
(* earlier connection is over, the line has no error and Disconnect meets  *)
(* no write: a viewer that shows a connection has one source of bytes, the *)
(* one that Disconnect ends; one that shows none and is at no await has    *)
(* none, and its port can be opened again (setConnected, readLoop,         *)
(* disconnect, the socket's callbacks).                                    *)
THEOREM ShownAsItIs == TransportsSpec => []ShownIsSo
<1>1. TransportsInit => PhaseInv
  BY DEF TransportsInit, PhaseInv, NoSocket, Serial, Calls, Port, Live
<1>2. TypeInv /\ PhaseInv => ShownIsSo
  <2> SUFFICES ASSUME TypeInv, trouble = {}, (NoSocket /\ Serial) \/ Bridge
               PROVE  /\ Cardinality(Feeds) <= 1
                      /\ connection = "connected" =>
                           \/ loop # "none" /\ reader /\ port
                           \/ closing # "none"
                           \/ socket # null /\ sockets[socket] = "open"
                      /\ connection = "disconnected" /\ ~Unfinished =>
                           portState = "closed" /\ ~reader /\ socket = null
    BY DEF PhaseInv, ShownIsSo
  <2>1. \E x : Feeds \subseteq {x}
    <3>1. CASE NoSocket
      BY <3>1 DEF NoSocket, Feeds, Live
    <3>2. CASE Bridge
      BY <3>2 DEF Bridge, Feeds, Live
    <3> QED BY <3>1, <3>2
  <2>2. Cardinality(Feeds) <= 1
    <3>1. PICK x : Feeds \subseteq {x}
      BY <2>1
    <3>2. IsFiniteSet({x}) /\ Cardinality({x}) = 1
      BY FS_Singleton
    <3>3. Cardinality(Feeds) <= Cardinality({x})
      BY <3>1, <3>2, FS_Subset
    <3> QED BY <3>2, <3>3
  <2>3. connection = "connected" =>
          \/ loop # "none" /\ reader /\ port
          \/ closing # "none"
          \/ socket # null /\ sockets[socket] = "open"
    BY Numbers DEF Serial, Bridge, Calls, Port
  <2>4. connection = "disconnected" /\ ~Unfinished =>
          portState = "closed" /\ ~reader /\ socket = null
    <3>1. CASE NoSocket /\ Serial
      BY <3>1 DEF NoSocket, Serial, Calls, Port, Unfinished
    <3>2. CASE Bridge
      BY <3>2 DEF Bridge, Unfinished, Live
    <3> QED BY <3>1, <3>2
  <2> QED BY <2>2, <2>3, <2>4
<1> QED BY <1>1, <1>2, TypeStart, TypeStep, PhaseStep, PTL DEF TransportsSpec

-----------------------------------------------------------------------------
(* The collected data, and the panel that each of them is drawn on.        *)
PanelOf ==
  [frames |-> "counters", checksumErrors |-> "counters", syncDrops |-> "counters",
   unknownFrames |-> "counters", logs |-> "log", watches |-> "watch", events |-> "events",
   status |-> "status", spans |-> "trace", openSpans |-> "trace", marks |-> "trace",
   values |-> "trace", latestValues |-> "trace", drops |-> "trace", monitor |-> "monitor",
   profiler |-> "profiler", la |-> "logic_analyzer"]
Fields == DOMAIN PanelOf \cup {"ask", "seen"}

IsStore(d) ==
  /\ d = [f \in Fields |-> d[f]]
  /\ d.seen \in Seq(Seq(ByteRange)) /\ d.ask \subseteq Panels

(* Two stores that differ in what was asked for only.                      *)
Same(d, e) == \A f \in Fields \ {"ask"} : d[f] = e[f]

(* What becomes of the data d: only what is drawn on the panels of changed *)
(* may differ, and these panels were asked for.                            *)
Does(d, e, changed, asked) ==
  /\ IsStore(e) /\ e.ask = d.ask \cup asked /\ e.seen = d.seen
  /\ \A f \in DOMAIN PanelOf : PanelOf[f] \notin changed => e[f] = d[f]

LEMMA ContentKept ==
  ASSUME NEW d, NEW e, NEW p \in Panels, \A f \in DOMAIN PanelOf : PanelOf[f] = p => e[f] = d[f]
  PROVE  Content(e, p) = Content(d, p)
BY DEF Content, PanelOf, Panels

LEMMA FieldsAre ==
  /\ "ask" \notin DOMAIN PanelOf /\ "seen" \notin DOMAIN PanelOf
  /\ Fields = DOMAIN PanelOf \cup {"ask", "seen"}
BY DEF Fields, PanelOf

LEMMA AskDoes ==
  ASSUME NEW d, IsStore(d), NEW panel \in Panels
  PROVE  Does(d, requestRender(d, panel), {}, {panel})
<1> DEFINE e == requestRender(d, panel)
<1>1. e = [f \in Fields |-> IF f = "ask" THEN d.ask \cup {panel} ELSE d[f]]
  BY FieldsAre DEF IsStore, requestRender
<1> HIDE DEF e
<1>2. e = [f \in Fields |-> e[f]] /\ e.ask = d.ask \cup {panel} /\ e.seen = d.seen
      /\ \A f \in DOMAIN PanelOf : e[f] = d[f]
  BY <1>1, FieldsAre
<1>3. Does(d, e, {}, {panel})
  BY <1>2 DEF IsStore, Does
<1> QED BY <1>3 DEF e

LEMMA PutDoes ==
  ASSUME NEW d, IsStore(d), NEW k \in DOMAIN PanelOf, NEW x
  PROVE  Does(d, [d EXCEPT ![k] = x], {PanelOf[k]}, {})
<1> DEFINE e == [d EXCEPT ![k] = x]
<1>1. e = [f \in Fields |-> IF f = k THEN x ELSE d[f]]
  BY FieldsAre DEF IsStore
<1> HIDE DEF e
<1>2. e = [f \in Fields |-> e[f]] /\ e.ask = d.ask /\ e.seen = d.seen
      /\ \A f \in DOMAIN PanelOf : f # k => e[f] = d[f]
  BY <1>1, FieldsAre
<1>3. Does(d, e, {PanelOf[k]}, {})
  BY <1>2 DEF IsStore, Does
<1> QED BY <1>3 DEF e

LEMMA DoesBoth ==
  ASSUME NEW d, NEW e, NEW g, NEW S, NEW T, NEW A, NEW B, Does(d, e, S, A), Does(e, g, T, B)
  PROVE  Does(d, g, S \cup T, A \cup B)
BY DEF Does

LEMMA PanelsAre ==
  /\ DOMAIN PanelOf = {"frames", "checksumErrors", "syncDrops", "unknownFrames", "logs", "watches", "events",
   "status", "spans", "openSpans", "marks", "values", "latestValues", "drops", "monitor",
   "profiler", "la"}
  /\ PanelOf["logs"] = "log" /\ PanelOf["watches"] = "watch" /\ PanelOf["events"] = "events"
  /\ PanelOf["status"] = "status" /\ PanelOf["monitor"] = "monitor" /\ PanelOf["profiler"] = "profiler"
  /\ PanelOf["la"] = "logic_analyzer"
  /\ \A f \in {"spans", "openSpans", "marks", "values", "latestValues", "drops"} : PanelOf[f] = "trace"
  /\ \A f \in {"frames", "checksumErrors", "syncDrops", "unknownFrames"} : PanelOf[f] = "counters"
BY DEF PanelOf

(* What is not drawn on the panel of the traces.                           *)
Untraced == Panels \ {"trace"}

LEMMA AddLogDoes ==
  ASSUME NEW d, IsStore(d), NEW kind, NEW p
  PROVE  Does(d, addLog(d, kind, p), {"log"}, {"log"})
<1> DEFINE e == [d EXCEPT !.logs = Unshift(@, <<kind, p>>, MaxLogs)]
<1>1. Does(d, e, {"log"}, {})
  BY PutDoes, PanelsAre
<1>2. addLog(d, kind, p) = requestRender(e, "log") /\ "log" \in Panels
  BY DEF addLog, Panels
<1> HIDE DEF e
<1>3. IsStore(e)
  BY <1>1 DEF Does
<1>4. Does(e, addLog(d, kind, p), {}, {"log"})
  BY <1>2, <1>3, AskDoes
<1>5. Does(d, addLog(d, kind, p), {"log"} \cup {}, {} \cup {"log"})
  BY <1>1, <1>4, DoesBoth
<1> QED BY <1>5

LEMMA ThenPut ==
  ASSUME NEW d, NEW e, NEW S, NEW A, Does(d, e, S, A), NEW k \in DOMAIN PanelOf, NEW x
  PROVE  Does(d, [e EXCEPT ![k] = x], S \cup {PanelOf[k]}, A)
<1>1. Does(e, [e EXCEPT ![k] = x], {PanelOf[k]}, {})
  BY PutDoes DEF Does
<1>2. Does(d, [e EXCEPT ![k] = x], S \cup {PanelOf[k]}, A \cup {})
  BY <1>1, DoesBoth
<1> QED BY <1>2

LEMMA ThenAsk ==
  ASSUME NEW d, NEW e, NEW S, NEW A, Does(d, e, S, A), NEW panel \in Panels
  PROVE  Does(d, requestRender(e, panel), S, A \cup {panel})
<1>1. Does(e, requestRender(e, panel), {}, {panel})
  BY AskDoes DEF Does
<1>2. Does(d, requestRender(e, panel), S \cup {}, A \cup {panel})
  BY <1>1, DoesBoth
<1> QED BY <1>2

LEMMA ThenLog ==
  ASSUME NEW d, NEW e, NEW S, NEW A, Does(d, e, S, A), NEW kind, NEW p
  PROVE  Does(d, addLog(e, kind, p), S \cup {"log"}, A \cup {"log"})
<1>1. Does(e, addLog(e, kind, p), {"log"}, {"log"})
  BY AddLogDoes DEF Does
<1> QED BY <1>1, DoesBoth

LEMMA DebugDoes ==
  ASSUME NEW d, IsStore(d), NEW p, NEW k \in {"heartbeat", "print", "event", "watch", "status"}
  PROVE  \E S \in SUBSET Untraced : Does(d, decodeDebug(d, k, p), S, S)
<1>1. Does(d, addLog(d, k, p), {"log"}, {"log"})
  BY AddLogDoes
<1>2. "status" \in DOMAIN PanelOf /\ PanelOf["status"] = "status"
      /\ "events" \in DOMAIN PanelOf /\ PanelOf["events"] = "events"
      /\ "watches" \in DOMAIN PanelOf /\ PanelOf["watches"] = "watch"
      /\ {"log", "status", "events", "watch"} \subseteq Panels
      /\ {"log", "status", "events", "watch"} \subseteq Untraced
  BY PanelsAre DEF Panels, Untraced
<1>3. CASE k \in {"heartbeat", "status"}
  <2>1. PICK x : decodeDebug(d, k, p) = requestRender([addLog(d, k, p) EXCEPT !["status"] = x], "status")
    BY <1>3 DEF decodeDebug
  <2>2. Does(d, [addLog(d, k, p) EXCEPT !["status"] = x], {"log"} \cup {"status"}, {"log"})
    BY <1>1, <1>2, ThenPut
  <2>3. Does(d, decodeDebug(d, k, p), {"log"} \cup {"status"}, {"log"} \cup {"status"})
    BY <1>2, <2>1, <2>2, ThenAsk
  <2> QED BY <1>2, <2>3
<1>4. CASE k = "print"
  BY <1>1, <1>2, <1>4 DEF decodeDebug
<1>5. CASE k = "event"
  <2> DEFINE e == updateEvent(d, p[2], p[3])
  <2>1. PICK x : e = requestRender([d EXCEPT !["events"] = x], "events")
    BY DEF updateEvent
  <2>2. Does(d, [d EXCEPT !["events"] = x], {"events"}, {})
    BY <1>2, PutDoes
  <2>3. Does(d, e, {"events"}, {} \cup {"events"})
    BY <1>2, <2>1, <2>2, ThenAsk
  <2>4. Does(d, addLog(e, k, p), {"events"} \cup {"log"}, ({} \cup {"events"}) \cup {"log"})
    BY <2>3, ThenLog
  <2>5. decodeDebug(d, k, p) = addLog(e, k, p)
    BY <1>5 DEF decodeDebug
  <2> QED BY <1>2, <2>4, <2>5
<1>6. CASE k = "watch"
  <2> DEFINE e == updateWatch(d, p[2], p[3], p[1])
  <2>1. PICK x : e = requestRender([d EXCEPT !["watches"] = x], "watch")
    BY DEF updateWatch
  <2>2. Does(d, [d EXCEPT !["watches"] = x], {"watch"}, {})
    BY <1>2, PutDoes
  <2>3. Does(d, e, {"watch"}, {} \cup {"watch"})
    BY <1>2, <2>1, <2>2, ThenAsk
  <2>4. Does(d, addLog(e, k, p), {"watch"} \cup {"log"}, ({} \cup {"watch"}) \cup {"log"})
    BY <2>3, ThenLog
  <2>5. decodeDebug(d, k, p) = addLog(e, k, p)
    BY <1>6 DEF decodeDebug
  <2> QED BY <1>2, <2>4, <2>5
<1> QED BY <1>3, <1>4, <1>5, <1>6

LEMMA KeepsDoes ==
  ASSUME NEW d, IsStore(d), NEW e, NEW F, NEW S, e = [f \in Fields |-> IF f \in F THEN e[f] ELSE d[f]],
         \A f \in F : f \in DOMAIN PanelOf /\ PanelOf[f] \in S
  PROVE  Does(d, e, S, {})
<1>1. e = [f \in Fields |-> e[f]] /\ e.ask = d.ask /\ e.seen = d.seen
      /\ \A f \in DOMAIN PanelOf : f \notin F => e[f] = d[f]
  BY FieldsAre
<1> QED BY <1>1 DEF IsStore, Does

LEMMA PruneDoes ==
  ASSUME NEW d, IsStore(d)
  PROVE  Does(d, pruneTraceHistory(d), {"trace"}, {})
<1> DEFINE e == pruneTraceHistory(d)
           F == {"spans", "marks", "values", "drops"}
<1>1. e = [f \in Fields |-> IF f \in F THEN e[f] ELSE d[f]]
  BY FieldsAre DEF IsStore, pruneTraceHistory
<1>2. \A f \in F : f \in DOMAIN PanelOf /\ PanelOf[f] \in {"trace"}
  BY PanelsAre
<1> HIDE DEF e, F
<1>3. Does(d, e, {"trace"}, {})
  BY <1>1, <1>2, KeepsDoes
<1> QED BY <1>3 DEF e

LEMMA TraceDoes ==
  ASSUME NEW d, IsStore(d), NEW p, NEW k \in {"span_begin", "span_end", "mark", "value", "drop"}
  PROVE  \E S \in SUBSET Panels : Does(d, decodeTrace(d, k, p), S, S)
<1>1. "spans" \in DOMAIN PanelOf /\ PanelOf["spans"] = "trace"
      /\ "openSpans" \in DOMAIN PanelOf /\ PanelOf["openSpans"] = "trace"
      /\ "marks" \in DOMAIN PanelOf /\ PanelOf["marks"] = "trace"
      /\ "values" \in DOMAIN PanelOf /\ PanelOf["values"] = "trace"
      /\ "latestValues" \in DOMAIN PanelOf /\ PanelOf["latestValues"] = "trace"
      /\ "drops" \in DOMAIN PanelOf /\ PanelOf["drops"] = "trace"
      /\ {"log", "trace"} \subseteq Panels
  BY PanelsAre DEF Panels
<1>2. ASSUME NEW e, Does(d, e, {"trace"}, {})
      PROVE  Does(d, pruneTraceHistory(e), {"trace"}, {})
  <2>1. Does(e, pruneTraceHistory(e), {"trace"}, {})
    BY <1>2, PruneDoes DEF Does
  <2>2. Does(d, pruneTraceHistory(e), {"trace"} \cup {"trace"}, {} \cup {})
    BY <1>2, <2>1, DoesBoth
  <2> QED BY <2>2
<1>3. ASSUME NEW e, Does(d, e, {"trace"}, {})
      PROVE  \E S \in SUBSET Panels : Does(d, requestRender(addLog(e, k, p), "trace"), S, S)
  <2>1. Does(d, addLog(e, k, p), {"trace"} \cup {"log"}, {} \cup {"log"})
    BY <1>3, ThenLog
  <2>2. Does(d, requestRender(addLog(e, k, p), "trace"), {"trace"} \cup {"log"},
             ({} \cup {"log"}) \cup {"trace"})
    BY <1>1, <2>1, ThenAsk
  <2>3. ({} \cup {"log"}) \cup {"trace"} = {"trace"} \cup {"log"}
    OBVIOUS
  <2> QED BY <1>1, <2>2, <2>3
<1>4. ASSUME NEW f \in {"spans", "openSpans", "marks", "drops"}, NEW x
      PROVE  Does(d, [d EXCEPT ![f] = x], {"trace"}, {})
  <2>1. f \in DOMAIN PanelOf /\ PanelOf[f] = "trace"
    BY <1>1
  <2> QED BY <2>1, PutDoes
<1>5. CASE k = "span_begin"
  <2>1. PICK x : beginTraceSpan(d, p[1], p[2]) = [d EXCEPT !["openSpans"] = x]
    BY DEF beginTraceSpan
  <2>2. Does(d, beginTraceSpan(d, p[1], p[2]), {"trace"}, {})
    BY <1>4, <2>1
  <2>3. decodeTrace(d, k, p) = requestRender(addLog(beginTraceSpan(d, p[1], p[2]), k, p), "trace")
    BY <1>5 DEF decodeTrace
  <2> QED BY <1>3, <2>2, <2>3
<1>6. CASE k = "span_end"
  <2> DEFINE e == endTraceSpan(d, p[1], p[2])
  <2>1. Does(d, e, {"trace"}, {})
    <3>1. CASE p[2] \in DOMAIN d.openSpans
      <4>1. PICK x, y : e = pruneTraceHistory([[d EXCEPT !["openSpans"] = x] EXCEPT !["spans"] = y])
        BY <3>1 DEF endTraceSpan
      <4>2. Does(d, [d EXCEPT !["openSpans"] = x], {"trace"}, {})
        BY <1>4
      <4>3. Does(d, [[d EXCEPT !["openSpans"] = x] EXCEPT !["spans"] = y], {"trace"} \cup {"trace"}, {})
        BY <1>1, <4>2, ThenPut
      <4> QED BY <1>2, <4>1, <4>3
    <3>2. CASE p[2] \notin DOMAIN d.openSpans
      <4>1. PICK y : e = pruneTraceHistory([d EXCEPT !["spans"] = y])
        BY <3>2 DEF endTraceSpan
      <4> QED BY <1>2, <1>4, <4>1
    <3> QED BY <3>1, <3>2
  <2>2. decodeTrace(d, k, p) = requestRender(addLog(e, k, p), "trace")
    BY <1>6 DEF decodeTrace
  <2> QED BY <1>3, <2>1, <2>2
<1>7. CASE k = "mark"
  <2>1. PICK x : decodeTrace(d, k, p)
                   = requestRender(addLog(pruneTraceHistory([d EXCEPT !["marks"] = x]), k, p), "trace")
    BY <1>7 DEF decodeTrace
  <2> QED BY <1>2, <1>3, <1>4, <2>1
<1>8. CASE k = "drop"
  <2>1. PICK x : decodeTrace(d, k, p)
                   = requestRender(addLog(pruneTraceHistory([d EXCEPT !["drops"] = x]), k, p), "trace")
    BY <1>8 DEF decodeTrace
  <2> QED BY <1>2, <1>3, <1>4, <2>1
<1>9. CASE k = "value"
  <2>1. PICK x, y : decodeTrace(d, k, p)
                   = requestRender(addLog(pruneTraceHistory(
                       [[d EXCEPT !["values"] = x] EXCEPT !["latestValues"] = y]), k, p), "trace")
    BY <1>9 DEF decodeTrace
  <2>2. Does(d, [d EXCEPT !["values"] = x], {"trace"}, {})
    BY <1>1, PutDoes
  <2>3. Does(d, [[d EXCEPT !["values"] = x] EXCEPT !["latestValues"] = y], {"trace"} \cup {"trace"}, {})
    BY <1>1, <2>2, ThenPut
  <2>4. Does(d, [[d EXCEPT !["values"] = x] EXCEPT !["latestValues"] = y], {"trace"}, {})
    BY <2>3
  <2> QED BY <1>2, <1>3, <2>1, <2>4
<1> QED BY <1>5, <1>6, <1>7, <1>8, <1>9

(* A panel's own data are changed, the log tells of it, and the panel is   *)
(* asked for.                                                              *)
LEMMA PutLogAsk ==
  ASSUME NEW d, IsStore(d), NEW f \in DOMAIN PanelOf, PanelOf[f] \in Untraced, NEW x, NEW kind, NEW p
  PROVE  \E S \in SUBSET Untraced :
           Does(d, requestRender(addLog([d EXCEPT ![f] = x], kind, p), PanelOf[f]), S, S)
<1>1. Does(d, [d EXCEPT ![f] = x], {PanelOf[f]}, {})
  BY PutDoes
<1>2. Does(d, addLog([d EXCEPT ![f] = x], kind, p), {PanelOf[f]} \cup {"log"}, {} \cup {"log"})
  BY <1>1, ThenLog
<1>a. PanelOf[f] \in Panels
  BY DEF Untraced
<1>3. Does(d, requestRender(addLog([d EXCEPT ![f] = x], kind, p), PanelOf[f]),
           {PanelOf[f]} \cup {"log"}, ({} \cup {"log"}) \cup {PanelOf[f]})
  BY <1>2, <1>a, ThenAsk
<1>4. ({} \cup {"log"}) \cup {PanelOf[f]} = {PanelOf[f]} \cup {"log"} /\ "log" \in Untraced
  BY DEF Panels, Untraced
<1> QED BY <1>3, <1>4

LEMMA MonitorDoes ==
  ASSUME NEW d, IsStore(d), NEW k, NEW p
  PROVE  \E S \in SUBSET Untraced : Does(d, decodeMonitor(d, k, p), S, S)
<1>1. "monitor" \in DOMAIN PanelOf /\ PanelOf["monitor"] = "monitor" /\ "monitor" \in Untraced
  BY PanelsAre DEF Panels, Untraced
<1>2. PICK x : decodeMonitor(d, k, p) = requestRender(addLog([d EXCEPT !["monitor"] = x], k, p), "monitor")
  BY DEF decodeMonitor
<1> QED BY <1>1, <1>2, PutLogAsk

LEMMA ProfilerDoes ==
  ASSUME NEW d, IsStore(d), NEW k, NEW p
  PROVE  /\ \E S \in SUBSET Untraced : Does(d, recordProfilerMalformed(d, k, p), S, S)
         /\ \E S \in SUBSET Untraced : Does(d, decodeProfilerSnapshot(d, p), S, S)
         /\ \E S \in SUBSET Untraced : Does(d, decodeProfilerAlert(d, p), S, S)
<1>1. "profiler" \in DOMAIN PanelOf /\ PanelOf["profiler"] = "profiler" /\ "profiler" \in Untraced
  BY PanelsAre DEF Panels, Untraced
<1>2. ASSUME NEW kind
      PROVE  \E S \in SUBSET Untraced : Does(d, recordProfilerMalformed(d, kind, p), S, S)
  <2>1. PICK x, y : recordProfilerMalformed(d, kind, p)
                    = requestRender(addLog([d EXCEPT !["profiler"] = x], kind, y), "profiler")
    BY DEF recordProfilerMalformed
  <2> QED BY <1>1, <2>1, PutLogAsk
<1>3. CASE Len(p) # 3
  BY <1>2, <1>3 DEF decodeProfilerSnapshot, decodeProfilerAlert
<1>4. CASE Len(p) = 3
  <2>1. PICK x : decodeProfilerSnapshot(d, p)
                 = requestRender(addLog([d EXCEPT !["profiler"] = x], "snapshot", p), "profiler")
    BY <1>4 DEF decodeProfilerSnapshot
  <2>2. PICK y : decodeProfilerAlert(d, p)
                 = requestRender(addLog([d EXCEPT !["profiler"] = y], "alert", p), "profiler")
    BY <1>4 DEF decodeProfilerAlert
  <2>3. \E S \in SUBSET Untraced : Does(d, decodeProfilerSnapshot(d, p), S, S)
    BY <1>1, <2>1, PutLogAsk
  <2>4. \E S \in SUBSET Untraced : Does(d, decodeProfilerAlert(d, p), S, S)
    BY <1>1, <2>2, PutLogAsk
  <2> QED BY <1>2, <2>3, <2>4
<1> QED BY <1>3, <1>4

(* A header of the logic analyzer: its panel is not asked for.             *)
LEMMA LaDoes ==
  ASSUME NEW d, IsStore(d), NEW k \in LaKinds, NEW p
  PROVE  IF k = "la_header" /\ Len(p) = 3
         THEN Does(d, decodeLogicAnalyzerFrame(d, k, p), {"logic_analyzer", "log"}, {"log", "counters"})
         ELSE \E S \in SUBSET Panels : Does(d, decodeLogicAnalyzerFrame(d, k, p), {"logic_analyzer", "log"}, S)
                                        /\ {"logic_analyzer", "log"} \subseteq S
<1>1. "la" \in DOMAIN PanelOf /\ PanelOf["la"] = "logic_analyzer"
      /\ {"log", "counters", "logic_analyzer"} \subseteq Panels
  BY PanelsAre DEF Panels
<1>2. ASSUME NEW e, Does(d, e, {"logic_analyzer"}, {}), NEW x
      PROVE  Does(d, [e EXCEPT !["la"] = x], {"logic_analyzer"}, {})
  <2>1. Does(d, [e EXCEPT !["la"] = x], {"logic_analyzer"} \cup {"logic_analyzer"}, {})
    BY <1>1, <1>2, ThenPut
  <2> QED BY <2>1
<1>3. ASSUME NEW e, Does(d, e, {"logic_analyzer"}, {}), NEW kind, NEW y
      PROVE  Does(d, addLog(e, kind, y), {"logic_analyzer"} \cup {"log"}, {} \cup {"log"})
  BY <1>3, ThenLog
<1>4. ASSUME NEW e, Does(d, e, {"logic_analyzer"}, {}), NEW kind, NEW y
      PROVE  Does(d, askBoth(addLog(e, kind, y)), {"logic_analyzer", "log"},
                  {"log", "logic_analyzer", "counters"})
  <2> DEFINE g == addLog(e, kind, y)
  <2>1. Does(d, g, {"logic_analyzer"} \cup {"log"}, {} \cup {"log"})
    BY <1>3, <1>4
  <2> HIDE DEF g
  <2>2. Does(d, requestRender(g, "logic_analyzer"), {"logic_analyzer"} \cup {"log"},
             ({} \cup {"log"}) \cup {"logic_analyzer"})
    BY <1>1, <2>1, ThenAsk
  <2>3. Does(d, requestRender(requestRender(g, "logic_analyzer"), "counters"), {"logic_analyzer"} \cup {"log"},
             (({} \cup {"log"}) \cup {"logic_analyzer"}) \cup {"counters"})
    BY <1>1, <2>2, ThenAsk
  <2>4. (({} \cup {"log"}) \cup {"logic_analyzer"}) \cup {"counters"} = {"log", "logic_analyzer", "counters"}
        /\ {"logic_analyzer"} \cup {"log"} = {"logic_analyzer", "log"}
    OBVIOUS
  <2> QED BY <2>3, <2>4 DEF askBoth, g
<1>5. ASSUME NEW kind PROVE Does(d, laCapture(d, p[1], kind, p), {"logic_analyzer"}, {})
  <2>1. PICK x, y : laCapture(d, p[1], kind, p) = [[d EXCEPT !["la"] = x] EXCEPT !["la"] = y]
    BY DEF laCapture
  <2>2. Does(d, [d EXCEPT !["la"] = x], {"logic_analyzer"}, {})
    BY <1>1, PutDoes
  <2> QED BY <1>2, <2>1, <2>2
<1>6. CASE k = "la_header" /\ Len(p) = 3
  <2> DEFINE e == laCapture(d, p[1], "header", p)
  <2>1. PICK x : decodeLogicAnalyzerHeader(d, p)
                 = requestRender(addLog([e EXCEPT !["la"] = x], "la_header", p), "counters")
    BY DEF decodeLogicAnalyzerHeader
  <2>2. decodeLogicAnalyzerFrame(d, k, p) = decodeLogicAnalyzerHeader(d, p)
    BY <1>6 DEF decodeLogicAnalyzerFrame
  <2>3. Does(d, [e EXCEPT !["la"] = x], {"logic_analyzer"}, {})
    BY <1>2, <1>5
  <2> HIDE DEF e
  <2>4. Does(d, decodeLogicAnalyzerHeader(d, p), {"logic_analyzer"} \cup {"log"},
             ({} \cup {"log"}) \cup {"counters"})
    BY <1>1, <1>3, <2>1, <2>3, ThenAsk
  <2>5. ({} \cup {"log"}) \cup {"counters"} = {"log", "counters"}
        /\ {"logic_analyzer"} \cup {"log"} = {"logic_analyzer", "log"}
    OBVIOUS
  <2> QED BY <1>6, <2>2, <2>4, <2>5
<1>7. CASE ~(k = "la_header" /\ Len(p) = 3)
  <2>1. \E e, kind, y : /\ Does(d, e, {"logic_analyzer"}, {})
                        /\ decodeLogicAnalyzerFrame(d, k, p) = askBoth(addLog(e, kind, y))
    <3>1. CASE k = "la_status" /\ Len(p) = 3
      <4> DEFINE e == laCapture(d, p[1], "status", p)
      <4>1. PICK x : decodeLogicAnalyzerStatus(d, p) = askBoth(addLog([e EXCEPT !["la"] = x], "la_status", p))
        BY DEF decodeLogicAnalyzerStatus
      <4>2. decodeLogicAnalyzerFrame(d, k, p) = decodeLogicAnalyzerStatus(d, p)
        BY <3>1 DEF decodeLogicAnalyzerFrame
      <4> QED BY <1>2, <1>5, <4>1, <4>2
    <3>2. CASE k = "la_trigger" /\ Len(p) = 3
      <4> DEFINE e == laCapture(d, p[1], "triggerEvent", p)
      <4>1. PICK x : decodeLogicAnalyzerTriggerEvent(d, p) = askBoth(addLog([e EXCEPT !["la"] = x], "la_trigger", p))
        BY DEF decodeLogicAnalyzerTriggerEvent
      <4>2. decodeLogicAnalyzerFrame(d, k, p) = decodeLogicAnalyzerTriggerEvent(d, p)
        BY <3>2 DEF decodeLogicAnalyzerFrame
      <4> QED BY <1>2, <1>5, <4>1, <4>2
    <3>3. CASE ~(k = "la_status" /\ Len(p) = 3) /\ ~(k = "la_trigger" /\ Len(p) = 3)
      <4>1. decodeLogicAnalyzerFrame(d, k, p) = recordLogicAnalyzerMalformed(d, k, p)
        BY <1>7, <3>3 DEF decodeLogicAnalyzerFrame
      <4>2. PICK x : recordLogicAnalyzerMalformed(d, k, p) = askBoth(addLog([d EXCEPT !["la"] = x], k, <<Len(p)>>))
        BY DEF recordLogicAnalyzerMalformed
      <4>3. Does(d, [d EXCEPT !["la"] = x], {"logic_analyzer"}, {})
        BY <1>1, PutDoes
      <4> QED BY <4>1, <4>2, <4>3
    <3> QED BY <3>1, <3>2, <3>3
  <2>2. PICK e, kind, y : /\ Does(d, e, {"logic_analyzer"}, {})
                          /\ decodeLogicAnalyzerFrame(d, k, p) = askBoth(addLog(e, kind, y))
    BY <2>1
  <2>3. Does(d, decodeLogicAnalyzerFrame(d, k, p), {"logic_analyzer", "log"}, {"log", "logic_analyzer", "counters"})
    BY <1>4, <2>2
  <2> QED BY <1>1, <1>7, <2>3
<1> QED BY <1>6, <1>7

-----------------------------------------------------------------------------
(* A frame is decoded: every panel that shows something new is asked for,  *)
(* but those of stale, and the counters, which are asked for later.        *)
Shows(d, e, stale) ==
  /\ IsStore(e) /\ d.ask \subseteq e.ask
  /\ \A f \in DOMAIN PanelOf : e[f] # d[f] => PanelOf[f] \in e.ask \cup stale \cup {"counters"}

LaFrame(raw) == raw[2] = VERSION /\ raw[3] \in {Type[k] : k \in LaKinds}
HeaderFrame(raw) == LaFrame(raw) /\ raw[3] = Type.la_header /\ Fits("la_header", raw[4])

TraceKinds == {"span_begin", "span_end", "mark", "value", "drop"}
TraceFrame(raw) == raw[2] = VERSION /\ Known(raw[3]) /\ Kind(raw[3]) \in TraceKinds
SameSpans(d, e) == e.spans = d.spans /\ e.openSpans = d.openSpans

LEMMA KindIs ==
  ASSUME NEW type, Known(type)
  PROVE  /\ Kind(type) \in DOMAIN Type /\ Type[Kind(type)] = type
         /\ \A k \in DOMAIN Type : Type[k] = type => k = Kind(type)
<1>1. Kind(type) \in DOMAIN Type /\ Type[Kind(type)] = type
  BY DEF Known, Kind
<1>2. \A j, k \in DOMAIN Type : Type[j] = Type[k] => j = k
  BY DEF Type
<1> QED BY <1>1, <1>2

LEMMA FrameDoes ==
  ASSUME NEW d, IsStore(d), NEW raw \in Seq(ByteRange), Len(raw) >= 5, Len(raw) = 5 + raw[4]
  PROVE  /\ Shows(d, decodeFrame(d, raw), IF HeaderFrame(raw) THEN {"logic_analyzer"} ELSE {})
         /\ decodeFrame(d, raw).seen = Append(d.seen, raw)
         /\ LaFrame(raw) /\ ~HeaderFrame(raw) => "logic_analyzer" \in decodeFrame(d, raw).ask
         /\ ~TraceFrame(raw) => SameSpans(d, decodeFrame(d, raw))
<1> DEFINE c == [d EXCEPT !.frames = @ + 1, !.seen = Append(@, raw)]
           p == SubSeq(raw, 5, Len(raw) - 1)
           k == Kind(raw[3])
           e == decodeFrame(d, raw)
<1>1. IsStore(c) /\ c.ask = d.ask /\ c.seen = Append(d.seen, raw)
      /\ \A f \in DOMAIN PanelOf : PanelOf[f] # "counters" => c[f] = d[f]
  <2>1. c = [f \in Fields |-> IF f = "frames" THEN d.frames + 1
                              ELSE IF f = "seen" THEN Append(d.seen, raw) ELSE d[f]]
    BY FieldsAre, PanelsAre DEF IsStore
  <2> HIDE DEF c
  <2>2. c = [f \in Fields |-> c[f]] /\ c.ask = d.ask /\ c.seen = Append(d.seen, raw)
        /\ \A f \in DOMAIN PanelOf : f # "frames" => c[f] = d[f]
    BY <2>1, FieldsAre
  <2>3. Append(d.seen, raw) \in Seq(Seq(ByteRange))
    BY DEF IsStore
  <2>4. IsStore(c)
    BY <2>2, <2>3 DEF IsStore
  <2>5. PanelOf["frames"] = "counters"
    BY PanelsAre
  <2> QED BY <2>2, <2>4, <2>5
<1>2. Len(p) = raw[4] /\ raw[4] \in Nat /\ raw[3] \in ByteRange /\ raw[2] \in ByteRange
  <2>1. raw[4] \in Nat /\ raw[3] \in ByteRange /\ raw[2] \in ByteRange
    <3>1. 2 \in DOMAIN raw /\ 3 \in DOMAIN raw /\ 4 \in DOMAIN raw
      OBVIOUS
    <3>2. raw[2] \in ByteRange /\ raw[3] \in ByteRange /\ raw[4] \in ByteRange
      BY <3>1
    <3>3. ByteRange \subseteq Nat
      BY DEF ByteRange
    <3> QED BY <3>2, <3>3
  <2> QED BY <2>1
<1> HIDE DEF c, p
<1>3. ASSUME NEW S, NEW A, NEW stale, Does(c, e, S, A), S \subseteq A \cup stale \cup {"counters"}
      PROVE  Shows(d, e, stale) /\ e.seen = Append(d.seen, raw) /\ A \subseteq e.ask
  BY <1>1, <1>3 DEF Shows, Does
<1>s. ASSUME NEW S, NEW A, Does(c, e, S, A), "trace" \notin S
      PROVE  SameSpans(d, e)
  <2>1. \A f \in {"spans", "openSpans"} :
          f \in DOMAIN PanelOf /\ PanelOf[f] \notin S /\ PanelOf[f] # "counters"
    BY <1>s, PanelsAre
  <2>2. \A f \in {"spans", "openSpans"} : e[f] = c[f] /\ c[f] = d[f]
    BY <1>1, <1>s, <2>1 DEF Does
  <2> QED BY <2>2 DEF SameSpans
<1>4. Does(c, unknown(c), {"counters"}, {}) /\ IsStore(unknown(c))
  <2>1. unknown(c) = [c EXCEPT !["unknownFrames"] = c.unknownFrames + 1]
    BY DEF unknown
  <2>2. Does(c, unknown(c), {"counters"}, {})
    <3>1. "unknownFrames" \in DOMAIN PanelOf /\ PanelOf["unknownFrames"] = "counters"
      BY PanelsAre
    <3>2. Does(c, unknown(c), {PanelOf["unknownFrames"]}, {})
      <4>1. Does(c, [c EXCEPT !["unknownFrames"] = c.unknownFrames + 1], {PanelOf["unknownFrames"]}, {})
        BY <1>1, <3>1, PutDoes
      <4> QED BY <2>1, <4>1
    <3> QED BY <3>1, <3>2
  <2> QED BY <2>2 DEF Does
<1>5. CASE raw[2] # VERSION \/ ~Known(raw[3])
  <2>1. e = addLog(unknown(c), "UNKNOWN", raw)
    BY <1>5 DEF decodeFrame, c
  <2>2. Does(c, e, {"counters"} \cup {"log"}, {} \cup {"log"})
    BY <1>4, <2>1, ThenLog
  <2>3. ~LaFrame(raw)
    BY SMTT(30), <1>5 DEF LaFrame, Known, LaKinds, Type
  <2>4. Shows(d, e, {}) /\ e.seen = Append(d.seen, raw)
    BY <1>3, <2>2
  <2>5. SameSpans(d, e)
    BY <1>s, <2>2
  <2> QED BY <2>3, <2>4, <2>5 DEF HeaderFrame
<1>6. CASE raw[2] = VERSION /\ Known(raw[3])
  <2>1. k \in DOMAIN Type /\ (LaFrame(raw) <=> k \in LaKinds)
        /\ (HeaderFrame(raw) <=> k = "la_header" /\ Len(p) = 3)
    <3>1. k \in DOMAIN Type /\ Type[k] = raw[3] /\ \A j \in DOMAIN Type : Type[j] = raw[3] => j = k
      BY <1>6, KindIs
    <3>2. LaKinds \subseteq DOMAIN Type /\ "la_header" \in LaKinds /\ Type.la_header = Type["la_header"]
      BY DEF LaKinds, Type
    <3>3. LaFrame(raw) <=> k \in LaKinds
      BY <1>6, <3>1, <3>2 DEF LaFrame
    <3>4. Fits("la_header", raw[4]) <=> Len(p) = 3
      BY <1>2 DEF Fits, AtLeast
    <3> QED BY <3>1, <3>2, <3>3, <3>4 DEF HeaderFrame
  <2>2. e = CASE k = "snapshot" -> decodeProfilerSnapshot(c, p)
       [] k = "alert" -> decodeProfilerAlert(c, p)
       [] k \in LaKinds -> decodeLogicAnalyzerFrame(c, k, p)
       [] k \in {"heartbeat", "print", "event", "watch", "status"} /\ Fits(k, Len(p)) ->
            decodeDebug(c, k, p)
       [] k \in {"span_begin", "span_end", "mark", "value", "drop"} /\ Fits(k, Len(p)) ->
            decodeTrace(c, k, p)
       [] Responds(k, p) -> decodeMonitor(c, k, p)
       [] k \in {"read_resp", "write_resp", "monitor_reserved"} /\ ~Responds(k, p) ->
            requestRender([unknown(c) EXCEPT !.monitor = addMonitorError(@, k)], "monitor")
       [] k = "profiler_reserved" -> recordProfilerMalformed(unknown(c), k, p)
       [] OTHER -> unknown(c)
    BY <1>6 DEF decodeFrame, c, p
  <2> HIDE DEF e, k
  <2>3. CASE k \in LaKinds
    <3>1. e = decodeLogicAnalyzerFrame(c, k, p)
      BY <2>2, <2>3 DEF LaKinds, Responds
    <3>2. CASE k = "la_header" /\ Len(p) = 3
      <4>1. Does(c, e, {"logic_analyzer", "log"}, {"log", "counters"})
        BY <1>1, <2>3, <3>1, <3>2, LaDoes
      <4>2. Shows(d, e, {"logic_analyzer"}) /\ e.seen = Append(d.seen, raw) /\ SameSpans(d, e)
        BY <1>3, <1>s, <4>1
      <4> QED BY <2>1, <3>2, <4>2 DEF e
    <3>3. CASE ~(k = "la_header" /\ Len(p) = 3)
      <4>1. PICK S \in SUBSET Panels : /\ Does(c, e, {"logic_analyzer", "log"}, S)
                                       /\ {"logic_analyzer", "log"} \subseteq S
        BY <1>1, <2>3, <3>1, <3>3, LaDoes
      <4>2. Shows(d, e, {}) /\ e.seen = Append(d.seen, raw) /\ S \subseteq e.ask /\ SameSpans(d, e)
        BY <1>3, <1>s, <4>1
      <4> QED BY <2>1, <3>3, <4>1, <4>2 DEF e
    <3> QED BY <3>2, <3>3
  <2>4. CASE k \notin LaKinds
    <3>1. ~LaFrame(raw) /\ ~HeaderFrame(raw)
      BY <2>1, <2>4 DEF LaKinds
    <3>2. \E S, A : /\ Does(c, e, S, A) /\ S \subseteq A \cup {"counters"}
                    /\ k \notin TraceKinds => "trace" \notin S
      <4>1. CASE k \in {"snapshot", "alert"}
        <5>1. e \in {decodeProfilerSnapshot(c, p), decodeProfilerAlert(c, p)}
          BY <2>2, <4>1 DEF LaKinds, Responds
        <5>2. PICK S \in SUBSET Untraced : Does(c, e, S, S)
          BY <1>1, <5>1, ProfilerDoes
        <5> QED BY <5>2 DEF Untraced
      <4>2. CASE k \in {"heartbeat", "print", "event", "watch", "status"} /\ Fits(k, Len(p))
        <5>1. e = decodeDebug(c, k, p)
          BY <2>2, <4>2 DEF LaKinds, Responds
        <5>2. PICK S \in SUBSET Untraced : Does(c, e, S, S)
          BY <1>1, <4>2, <5>1, DebugDoes
        <5> QED BY <5>2 DEF Untraced
      <4>3. CASE k \in {"span_begin", "span_end", "mark", "value", "drop"} /\ Fits(k, Len(p))
        <5>1. e = decodeTrace(c, k, p)
          BY <2>2, <4>3 DEF LaKinds, Responds
        <5>2. PICK S \in SUBSET Panels : Does(c, e, S, S)
          BY <1>1, <4>3, <5>1, TraceDoes
        <5>3. k \in TraceKinds
          BY <4>3 DEF TraceKinds
        <5> QED BY <5>2, <5>3
      <4>4. CASE Responds(k, p)
        <5>1. e = decodeMonitor(c, k, p)
          BY <2>2, <4>4 DEF LaKinds, Responds
        <5>2. PICK S \in SUBSET Untraced : Does(c, e, S, S)
          BY <1>1, <5>1, MonitorDoes
        <5> QED BY <5>2 DEF Untraced
      <4>5. CASE k \in {"read_resp", "write_resp", "monitor_reserved"} /\ ~Responds(k, p)
        <5>1. PICK x : e = requestRender([unknown(c) EXCEPT !["monitor"] = x], "monitor")
          BY <2>2, <4>5 DEF LaKinds
        <5>2. Does(c, [unknown(c) EXCEPT !["monitor"] = x], {"counters"} \cup {"monitor"}, {})
          BY <1>4, PanelsAre, ThenPut
        <5>3. Does(c, e, {"counters"} \cup {"monitor"}, {} \cup {"monitor"})
          BY <5>1, <5>2, ThenAsk DEF Panels
        <5> QED BY <5>3
      <4>6. CASE k = "profiler_reserved"
        <5>1. e = recordProfilerMalformed(unknown(c), k, p)
          BY <2>2, <4>6 DEF LaKinds, Responds
        <5>2. PICK S \in SUBSET Untraced : Does(unknown(c), e, S, S)
          BY <1>4, <5>1, ProfilerDoes
        <5>3. Does(c, e, {"counters"} \cup S, {} \cup S)
          BY <1>4, <5>2, DoesBoth
        <5> QED BY <5>2, <5>3 DEF Untraced
      <4>7. CASE /\ k # "snapshot" /\ k # "alert" /\ k # "profiler_reserved" /\ ~Responds(k, p)
                 /\ ~(k \in {"heartbeat", "print", "event", "watch", "status"} /\ Fits(k, Len(p)))
                 /\ ~(k \in {"span_begin", "span_end", "mark", "value", "drop"} /\ Fits(k, Len(p)))
                 /\ ~(k \in {"read_resp", "write_resp", "monitor_reserved"} /\ ~Responds(k, p))
        <5>1. e = unknown(c)
          BY <2>2, <2>4, <4>7
        <5> QED BY <1>4, <5>1
      <4> QED BY <4>1, <4>2, <4>3, <4>4, <4>5, <4>6, <4>7
    <3>3. Shows(d, e, {}) /\ e.seen = Append(d.seen, raw)
      BY <1>3, <3>2
    <3>4. ~TraceFrame(raw) => SameSpans(d, e)
      BY <1>6, <1>s, <3>2 DEF TraceFrame, k
    <3> QED BY <3>1, <3>3, <3>4 DEF e
  <2> QED BY <2>3, <2>4
<1> QED BY <1>5, <1>6

-----------------------------------------------------------------------------
(* What was asked for has no influence on what is collected.               *)
Twins(d, e) == IsStore(d) /\ IsStore(e) /\ Same(d, e)

LEMMA AskTwins ==
  ASSUME NEW d, NEW e, Twins(d, e), NEW panel \in Panels
  PROVE  Twins(requestRender(d, panel), requestRender(e, panel))
<1>1. Same(requestRender(d, panel), requestRender(e, panel))
  BY FieldsAre DEF Twins, Same, IsStore, requestRender
<1> QED BY <1>1, AskDoes DEF Twins, Does

LEMMA PutTwins ==
  ASSUME NEW d, NEW e, Twins(d, e), NEW f \in DOMAIN PanelOf, NEW x
  PROVE  Twins([d EXCEPT ![f] = x], [e EXCEPT ![f] = x])
<1>1. Same([d EXCEPT ![f] = x], [e EXCEPT ![f] = x])
  BY FieldsAre DEF Twins, Same, IsStore
<1>2. IsStore([d EXCEPT ![f] = x]) /\ IsStore([e EXCEPT ![f] = x])
  BY PutDoes DEF Twins, Does
<1> QED BY <1>1, <1>2 DEF Twins

LEMMA TwinFields ==
  ASSUME NEW d, NEW e, Twins(d, e)
  PROVE  \A f \in DOMAIN PanelOf : d[f] = e[f]
BY FieldsAre DEF Twins, Same

LEMMA LogTwins ==
  ASSUME NEW d, NEW e, Twins(d, e), NEW kind, NEW p
  PROVE  Twins(addLog(d, kind, p), addLog(e, kind, p))
<1>1. d.logs = e.logs /\ "logs" \in DOMAIN PanelOf
  BY TwinFields, PanelsAre
<1> DEFINE x == Unshift(d.logs, <<kind, p>>, MaxLogs)
<1>2. addLog(d, kind, p) = requestRender([d EXCEPT !["logs"] = x], "log")
      /\ addLog(e, kind, p) = requestRender([e EXCEPT !["logs"] = x], "log")
  BY <1>1 DEF addLog
<1> HIDE DEF x
<1>3. Twins([d EXCEPT !["logs"] = x], [e EXCEPT !["logs"] = x]) /\ "log" \in Panels
  BY <1>1, PutTwins DEF Panels
<1> QED BY <1>2, <1>3, AskTwins

LEMMA DebugTwins ==
  ASSUME NEW d, NEW e, Twins(d, e), NEW p, NEW k \in {"heartbeat", "print", "event", "watch", "status"}
  PROVE  Twins(decodeDebug(d, k, p), decodeDebug(e, k, p))
<1>1. d.status = e.status /\ d.events = e.events /\ d.watches = e.watches
      /\ {"status", "events", "watches"} \subseteq DOMAIN PanelOf
      /\ {"log", "status", "events", "watch"} \subseteq Panels
  BY TwinFields, PanelsAre DEF Panels
<1>2. Twins(addLog(d, k, p), addLog(e, k, p))
  BY LogTwins
<1>3. CASE k \in {"heartbeat", "status"}
  <2>1. PICK x : \A g : decodeDebug(g, k, p) = requestRender([addLog(g, k, p) EXCEPT !["status"] = x], "status")
    BY <1>3 DEF decodeDebug
  <2>2. Twins([addLog(d, k, p) EXCEPT !["status"] = x], [addLog(e, k, p) EXCEPT !["status"] = x])
    BY <1>1, <1>2, PutTwins
  <2> QED BY <1>1, <2>1, <2>2, AskTwins
<1>4. CASE k = "print"
  BY <1>2, <1>4 DEF decodeDebug
<1>5. CASE k = "event"
  <2>1. PICK x : updateEvent(d, p[2], p[3]) = requestRender([d EXCEPT !["events"] = x], "events")
                 /\ updateEvent(e, p[2], p[3]) = requestRender([e EXCEPT !["events"] = x], "events")
    BY <1>1 DEF updateEvent
  <2>2. Twins([d EXCEPT !["events"] = x], [e EXCEPT !["events"] = x])
    BY <1>1, PutTwins
  <2>3. Twins(updateEvent(d, p[2], p[3]), updateEvent(e, p[2], p[3]))
    BY <1>1, <2>1, <2>2, AskTwins
  <2>4. \A g : decodeDebug(g, k, p) = addLog(updateEvent(g, p[2], p[3]), k, p)
    BY <1>5 DEF decodeDebug
  <2> QED BY <2>3, <2>4, LogTwins
<1>6. CASE k = "watch"
  <2>1. PICK x : updateWatch(d, p[2], p[3], p[1]) = requestRender([d EXCEPT !["watches"] = x], "watch")
                 /\ updateWatch(e, p[2], p[3], p[1]) = requestRender([e EXCEPT !["watches"] = x], "watch")
    BY <1>1 DEF updateWatch
  <2>2. Twins([d EXCEPT !["watches"] = x], [e EXCEPT !["watches"] = x])
    BY <1>1, PutTwins
  <2>3. Twins(updateWatch(d, p[2], p[3], p[1]), updateWatch(e, p[2], p[3], p[1]))
    BY <1>1, <2>1, <2>2, AskTwins
  <2>4. \A g : decodeDebug(g, k, p) = addLog(updateWatch(g, p[2], p[3], p[1]), k, p)
    BY <1>6 DEF decodeDebug
  <2> QED BY <2>3, <2>4, LogTwins
<1> QED BY <1>3, <1>4, <1>5, <1>6

LEMMA PutLogAskTwins ==
  ASSUME NEW d, NEW e, Twins(d, e), NEW f \in DOMAIN PanelOf, PanelOf[f] \in Panels, NEW x, NEW kind, NEW p
  PROVE  Twins(requestRender(addLog([d EXCEPT ![f] = x], kind, p), PanelOf[f]),
               requestRender(addLog([e EXCEPT ![f] = x], kind, p), PanelOf[f]))
<1>1. Twins([d EXCEPT ![f] = x], [e EXCEPT ![f] = x])
  BY PutTwins
<1>2. Twins(addLog([d EXCEPT ![f] = x], kind, p), addLog([e EXCEPT ![f] = x], kind, p))
  BY <1>1, LogTwins
<1> QED BY <1>2, AskTwins

LEMMA MonitorTwins ==
  ASSUME NEW d, NEW e, Twins(d, e), NEW p, NEW k
  PROVE  Twins(decodeMonitor(d, k, p), decodeMonitor(e, k, p))
<1>1. "monitor" \in DOMAIN PanelOf /\ PanelOf["monitor"] = "monitor" /\ "monitor" \in Panels
      /\ d.monitor = e.monitor
  BY PanelsAre, TwinFields DEF Panels
<1>2. PICK x : decodeMonitor(d, k, p) = requestRender(addLog([d EXCEPT !["monitor"] = x], k, p), "monitor")
               /\ decodeMonitor(e, k, p) = requestRender(addLog([e EXCEPT !["monitor"] = x], k, p), "monitor")
  BY <1>1 DEF decodeMonitor
<1> QED BY <1>1, <1>2, PutLogAskTwins

LEMMA ProfilerTwins ==
  ASSUME NEW d, NEW e, Twins(d, e), NEW p, NEW k
  PROVE  /\ Twins(recordProfilerMalformed(d, k, p), recordProfilerMalformed(e, k, p))
         /\ Twins(decodeProfilerSnapshot(d, p), decodeProfilerSnapshot(e, p))
         /\ Twins(decodeProfilerAlert(d, p), decodeProfilerAlert(e, p))
<1>1. "profiler" \in DOMAIN PanelOf /\ PanelOf["profiler"] = "profiler" /\ "profiler" \in Panels
      /\ d.profiler = e.profiler
  BY PanelsAre, TwinFields DEF Panels
<1>2. ASSUME NEW kind
      PROVE  Twins(recordProfilerMalformed(d, kind, p), recordProfilerMalformed(e, kind, p))
  <2>1. PICK x, y : recordProfilerMalformed(d, kind, p)
                    = requestRender(addLog([d EXCEPT !["profiler"] = x], kind, y), "profiler")
                /\ recordProfilerMalformed(e, kind, p)
                    = requestRender(addLog([e EXCEPT !["profiler"] = x], kind, y), "profiler")
    BY <1>1 DEF recordProfilerMalformed
  <2> QED BY <1>1, <2>1, PutLogAskTwins
<1>3. CASE Len(p) # 3
  BY <1>2, <1>3 DEF decodeProfilerSnapshot, decodeProfilerAlert
<1>4. CASE Len(p) = 3
  <2>1. PICK x : decodeProfilerSnapshot(d, p)
                 = requestRender(addLog([d EXCEPT !["profiler"] = x], "snapshot", p), "profiler")
              /\ decodeProfilerSnapshot(e, p)
                 = requestRender(addLog([e EXCEPT !["profiler"] = x], "snapshot", p), "profiler")
    BY ZenonT(30), <1>1, <1>4 DEF decodeProfilerSnapshot
  <2>2. PICK y : decodeProfilerAlert(d, p)
                 = requestRender(addLog([d EXCEPT !["profiler"] = y], "alert", p), "profiler")
              /\ decodeProfilerAlert(e, p)
                 = requestRender(addLog([e EXCEPT !["profiler"] = y], "alert", p), "profiler")
    BY <1>1, <1>4 DEF decodeProfilerAlert
  <2>3. Twins(decodeProfilerSnapshot(d, p), decodeProfilerSnapshot(e, p))
    BY <1>1, <2>1, PutLogAskTwins
  <2>4. Twins(decodeProfilerAlert(d, p), decodeProfilerAlert(e, p))
    BY <1>1, <2>2, PutLogAskTwins
  <2> QED BY <1>2, <2>3, <2>4
<1> QED BY <1>3, <1>4

LEMMA LaTwins ==
  ASSUME NEW d, NEW e, Twins(d, e), NEW p, NEW k \in LaKinds
  PROVE  Twins(decodeLogicAnalyzerFrame(d, k, p), decodeLogicAnalyzerFrame(e, k, p))
<1>1. "la" \in DOMAIN PanelOf /\ {"counters", "logic_analyzer"} \subseteq Panels
      /\ d.la = e.la
  BY PanelsAre, TwinFields DEF Panels
<1>2. ASSUME NEW kind
      PROVE  Twins(laCapture(d, p[1], kind, p), laCapture(e, p[1], kind, p))
             /\ laCapture(d, p[1], kind, p).la = laCapture(e, p[1], kind, p).la
  <2>1. PICK x, y : laCapture(d, p[1], kind, p) = [[d EXCEPT !["la"] = x] EXCEPT !["la"] = y]
                    /\ laCapture(e, p[1], kind, p) = [[e EXCEPT !["la"] = x] EXCEPT !["la"] = y]
    <3> DEFINE x == [d.la EXCEPT !.captures = Set(@, p[1], Set(Get(@, p[1], NoEntries), kind, p))]
               y == [x EXCEPT !.latest = p[1]]
    <3>0. "la" \in DOMAIN d /\ "la" \in DOMAIN e
      BY FieldsAre, <1>1 DEF Twins, IsStore
    <3>1. laCapture(d, p[1], kind, p) = [[d EXCEPT !["la"] = x] EXCEPT !["la"] = y]
      BY <3>0 DEF laCapture
    <3>2. laCapture(e, p[1], kind, p) = [[e EXCEPT !["la"] = x] EXCEPT !["la"] = y]
      BY <1>1, <3>0 DEF laCapture
    <3> QED BY <3>1, <3>2
  <2>2. Twins([d EXCEPT !["la"] = x], [e EXCEPT !["la"] = x])
    BY <1>1, PutTwins
  <2>3. Twins(laCapture(d, p[1], kind, p), laCapture(e, p[1], kind, p))
    <3>1. Twins([[d EXCEPT !["la"] = x] EXCEPT !["la"] = y], [[e EXCEPT !["la"] = x] EXCEPT !["la"] = y])
      BY <1>1, <2>2, PutTwins
    <3> QED BY <2>1, <3>1
  <2> QED BY <1>1, <2>3, TwinFields
<1>3. ASSUME NEW g, NEW h, Twins(g, h), NEW kind, NEW y
      PROVE  /\ Twins(askBoth(addLog(g, kind, y)), askBoth(addLog(h, kind, y)))
             /\ Twins(requestRender(addLog(g, kind, y), "counters"), requestRender(addLog(h, kind, y), "counters"))
  <2>1. Twins(addLog(g, kind, y), addLog(h, kind, y))
    BY <1>3, LogTwins
  <2>2. Twins(requestRender(addLog(g, kind, y), "logic_analyzer"), requestRender(addLog(h, kind, y), "logic_analyzer"))
    BY <1>1, <2>1, AskTwins
  <2> QED BY <1>1, <2>1, <2>2, AskTwins DEF askBoth
<1>4. ASSUME NEW g, NEW h, Twins(g, h), NEW x
      PROVE  Twins([g EXCEPT !["la"] = x], [h EXCEPT !["la"] = x])
  BY <1>1, <1>4, PutTwins
<1>5. CASE k = "la_header" /\ Len(p) = 3
  <2> DEFINE g == laCapture(d, p[1], "header", p)
             h == laCapture(e, p[1], "header", p)
  <2>1. PICK x : decodeLogicAnalyzerHeader(d, p)
                   = requestRender(addLog([g EXCEPT !["la"] = x], "la_header", p), "counters")
              /\ decodeLogicAnalyzerHeader(e, p)
                   = requestRender(addLog([h EXCEPT !["la"] = x], "la_header", p), "counters")
    BY <1>2 DEF decodeLogicAnalyzerHeader
  <2>2. \A c : decodeLogicAnalyzerFrame(c, k, p) = decodeLogicAnalyzerHeader(c, p)
    BY <1>5 DEF decodeLogicAnalyzerFrame
  <2> QED BY <1>2, <1>3, <1>4, <2>1, <2>2
<1>6. CASE k = "la_status" /\ Len(p) = 3
  <2> DEFINE g == laCapture(d, p[1], "status", p)
             h == laCapture(e, p[1], "status", p)
  <2>1. PICK x : decodeLogicAnalyzerStatus(d, p) = askBoth(addLog([g EXCEPT !["la"] = x], "la_status", p))
              /\ decodeLogicAnalyzerStatus(e, p) = askBoth(addLog([h EXCEPT !["la"] = x], "la_status", p))
    BY <1>2 DEF decodeLogicAnalyzerStatus
  <2>2. \A c : decodeLogicAnalyzerFrame(c, k, p) = decodeLogicAnalyzerStatus(c, p)
    BY <1>6 DEF decodeLogicAnalyzerFrame
  <2> QED BY <1>2, <1>3, <1>4, <2>1, <2>2
<1>7. CASE k = "la_trigger" /\ Len(p) = 3
  <2> DEFINE g == laCapture(d, p[1], "triggerEvent", p)
             h == laCapture(e, p[1], "triggerEvent", p)
  <2>1. PICK x : decodeLogicAnalyzerTriggerEvent(d, p) = askBoth(addLog([g EXCEPT !["la"] = x], "la_trigger", p))
              /\ decodeLogicAnalyzerTriggerEvent(e, p) = askBoth(addLog([h EXCEPT !["la"] = x], "la_trigger", p))
    BY <1>2 DEF decodeLogicAnalyzerTriggerEvent
  <2>2. \A c : decodeLogicAnalyzerFrame(c, k, p) = decodeLogicAnalyzerTriggerEvent(c, p)
    BY <1>7 DEF decodeLogicAnalyzerFrame
  <2> QED BY <1>2, <1>3, <1>4, <2>1, <2>2
<1>8. CASE ~(k = "la_header" /\ Len(p) = 3) /\ ~(k = "la_status" /\ Len(p) = 3)
           /\ ~(k = "la_trigger" /\ Len(p) = 3)
  <2>1. PICK x : recordLogicAnalyzerMalformed(d, k, p) = askBoth(addLog([d EXCEPT !["la"] = x], k, <<Len(p)>>))
              /\ recordLogicAnalyzerMalformed(e, k, p) = askBoth(addLog([e EXCEPT !["la"] = x], k, <<Len(p)>>))
    BY <1>1 DEF recordLogicAnalyzerMalformed
  <2>2. \A c : decodeLogicAnalyzerFrame(c, k, p) = recordLogicAnalyzerMalformed(c, k, p)
    BY <1>8 DEF decodeLogicAnalyzerFrame
  <2> QED BY SMTT(30), <1>3, <1>4, <2>1, <2>2
<1> QED BY <1>5, <1>6, <1>7, <1>8

LEMMA PruneTwins ==
  ASSUME NEW d, NEW e, Twins(d, e)
  PROVE  Twins(pruneTraceHistory(d), pruneTraceHistory(e))
<1>1. d.spans = e.spans /\ d.marks = e.marks /\ d.values = e.values /\ d.drops = e.drops
      /\ {"spans", "marks", "values", "drops"} \subseteq DOMAIN PanelOf
  BY TwinFields, PanelsAre
<1> DEFINE put(g) == [[[[g EXCEPT !["spans"] = Newest(d.spans, MaxSpans)]
                           EXCEPT !["marks"] = Newest(d.marks, MaxMarks)]
                           EXCEPT !["values"] = Newest(d.values, MaxValues)]
                           EXCEPT !["drops"] = Newest(d.drops, MaxDrops)]
<1>2. pruneTraceHistory(d) = put(d) /\ pruneTraceHistory(e) = put(e)
  BY <1>1 DEF pruneTraceHistory
<1>3. Twins([d EXCEPT !["spans"] = Newest(d.spans, MaxSpans)], [e EXCEPT !["spans"] = Newest(d.spans, MaxSpans)])
  BY <1>1, PutTwins
<1>4. ASSUME NEW g, NEW h, Twins(g, h), NEW x
      PROVE  /\ Twins([g EXCEPT !["marks"] = x], [h EXCEPT !["marks"] = x])
             /\ Twins([g EXCEPT !["values"] = x], [h EXCEPT !["values"] = x])
             /\ Twins([g EXCEPT !["drops"] = x], [h EXCEPT !["drops"] = x])
  BY <1>1, <1>4, PutTwins
<1>5. Twins(put(d), put(e))
  BY <1>3, <1>4
<1> QED BY <1>2, <1>5

LEMMA TraceTwins ==
  ASSUME NEW d, NEW e, Twins(d, e), NEW p, NEW k \in {"span_begin", "span_end", "mark", "value", "drop"}
  PROVE  Twins(decodeTrace(d, k, p), decodeTrace(e, k, p))
<1>1. d.openSpans = e.openSpans /\ d.spans = e.spans /\ d.marks = e.marks /\ d.values = e.values
      /\ d.drops = e.drops /\ d.latestValues = e.latestValues
      /\ {"spans", "openSpans", "marks", "values", "latestValues", "drops"} \subseteq DOMAIN PanelOf
      /\ "trace" \in Panels
  BY TwinFields, PanelsAre DEF Panels
<1>2. ASSUME NEW g, NEW h, Twins(g, h)
      PROVE  Twins(requestRender(addLog(g, k, p), "trace"), requestRender(addLog(h, k, p), "trace"))
  BY <1>1, <1>2, LogTwins, AskTwins
<1>3. ASSUME NEW g, NEW h, Twins(g, h), NEW f \in {"spans", "openSpans", "marks", "values", "latestValues", "drops"},
             NEW x
      PROVE  Twins([g EXCEPT ![f] = x], [h EXCEPT ![f] = x])
  BY <1>1, <1>3, PutTwins
<1>4. CASE k = "span_begin"
  <2>1. PICK x : beginTraceSpan(d, p[1], p[2]) = [d EXCEPT !["openSpans"] = x]
                 /\ beginTraceSpan(e, p[1], p[2]) = [e EXCEPT !["openSpans"] = x]
    BY <1>1 DEF beginTraceSpan
  <2>2. \A g : decodeTrace(g, k, p) = requestRender(addLog(beginTraceSpan(g, p[1], p[2]), k, p), "trace")
    BY <1>4 DEF decodeTrace
  <2> QED BY <1>2, <1>3, <2>1, <2>2
<1>5. CASE k = "span_end"
  <2>1. \A g : decodeTrace(g, k, p) = requestRender(addLog(endTraceSpan(g, p[1], p[2]), k, p), "trace")
    BY <1>5 DEF decodeTrace
  <2>2. CASE p[2] \in DOMAIN d.openSpans
    <3>1. PICK x, y : /\ endTraceSpan(d, p[1], p[2])
                          = pruneTraceHistory([[d EXCEPT !["openSpans"] = x] EXCEPT !["spans"] = y])
                      /\ endTraceSpan(e, p[1], p[2])
                          = pruneTraceHistory([[e EXCEPT !["openSpans"] = x] EXCEPT !["spans"] = y])
      BY <1>1, <2>2 DEF endTraceSpan
    <3>2. Twins([[d EXCEPT !["openSpans"] = x] EXCEPT !["spans"] = y],
                [[e EXCEPT !["openSpans"] = x] EXCEPT !["spans"] = y])
      BY <1>3
    <3> QED BY <1>2, <2>1, <3>1, <3>2, PruneTwins
  <2>3. CASE p[2] \notin DOMAIN d.openSpans
    <3>1. PICK y : /\ endTraceSpan(d, p[1], p[2]) = pruneTraceHistory([d EXCEPT !["spans"] = y])
                   /\ endTraceSpan(e, p[1], p[2]) = pruneTraceHistory([e EXCEPT !["spans"] = y])
      BY <1>1, <2>3 DEF endTraceSpan
    <3> QED BY <1>2, <1>3, <2>1, <3>1, PruneTwins
  <2> QED BY <2>2, <2>3
<1>6. CASE k = "mark"
  <2>1. PICK x : /\ decodeTrace(d, k, p)
                     = requestRender(addLog(pruneTraceHistory([d EXCEPT !["marks"] = x]), k, p), "trace")
                 /\ decodeTrace(e, k, p)
                     = requestRender(addLog(pruneTraceHistory([e EXCEPT !["marks"] = x]), k, p), "trace")
    BY <1>1, <1>6 DEF decodeTrace
  <2>2. Twins([d EXCEPT !["marks"] = x], [e EXCEPT !["marks"] = x])
    BY <1>3
  <2>3. Twins(pruneTraceHistory([d EXCEPT !["marks"] = x]), pruneTraceHistory([e EXCEPT !["marks"] = x]))
    BY <2>2, PruneTwins
  <2> QED BY <1>2, <2>1, <2>3
<1>7. CASE k = "drop"
  <2>1. PICK x : /\ decodeTrace(d, k, p)
                     = requestRender(addLog(pruneTraceHistory([d EXCEPT !["drops"] = x]), k, p), "trace")
                 /\ decodeTrace(e, k, p)
                     = requestRender(addLog(pruneTraceHistory([e EXCEPT !["drops"] = x]), k, p), "trace")
    BY <1>1, <1>7 DEF decodeTrace
  <2>2. Twins([d EXCEPT !["drops"] = x], [e EXCEPT !["drops"] = x])
    BY <1>3
  <2>3. Twins(pruneTraceHistory([d EXCEPT !["drops"] = x]), pruneTraceHistory([e EXCEPT !["drops"] = x]))
    BY <2>2, PruneTwins
  <2> QED BY <1>2, <2>1, <2>3
<1>8. CASE k = "value"
  <2>1. PICK x, y : /\ decodeTrace(d, k, p) = requestRender(addLog(pruneTraceHistory(
                          [[d EXCEPT !["values"] = x] EXCEPT !["latestValues"] = y]), k, p), "trace")
                    /\ decodeTrace(e, k, p) = requestRender(addLog(pruneTraceHistory(
                          [[e EXCEPT !["values"] = x] EXCEPT !["latestValues"] = y]), k, p), "trace")
    BY <1>1, <1>8 DEF decodeTrace
  <2>2. Twins([[d EXCEPT !["values"] = x] EXCEPT !["latestValues"] = y],
              [[e EXCEPT !["values"] = x] EXCEPT !["latestValues"] = y])
    BY <1>3
  <2> QED BY <1>2, <2>1, <2>2, PruneTwins
<1> QED BY <1>4, <1>5, <1>6, <1>7, <1>8

LEMMA FrameTwins ==
  ASSUME NEW d, NEW e, Twins(d, e), NEW raw \in Seq(ByteRange)
  PROVE  Twins(decodeFrame(d, raw), decodeFrame(e, raw))
<1> DEFINE c(g) == [g EXCEPT !.frames = @ + 1, !.seen = Append(@, raw)]
           p == SubSeq(raw, 5, Len(raw) - 1)
           k == Kind(raw[3])
<1>1. Twins(c(d), c(e)) /\ Twins(unknown(c(d)), unknown(c(e)))
  <2>1. ASSUME NEW g, IsStore(g)
        PROVE  /\ IsStore(c(g))
               /\ c(g) = [f \in Fields |-> IF f = "frames" THEN g.frames + 1
                                            ELSE IF f = "seen" THEN Append(g.seen, raw) ELSE g[f]]
    <3>1. c(g) = [f \in Fields |-> IF f = "frames" THEN g.frames + 1
                                   ELSE IF f = "seen" THEN Append(g.seen, raw) ELSE g[f]]
      BY <2>1, FieldsAre, PanelsAre DEF IsStore
    <3> HIDE DEF c
    <3>2. c(g) = [f \in Fields |-> c(g)[f]] /\ c(g).ask = g.ask /\ c(g).seen = Append(g.seen, raw)
      BY <3>1, FieldsAre
    <3>3. Append(g.seen, raw) \in Seq(Seq(ByteRange)) /\ g.ask \subseteq Panels
      <4>1. g.seen \in Seq(Seq(ByteRange)) /\ g.ask \subseteq Panels
        BY <2>1 DEF IsStore
      <4> QED BY <4>1
    <3> QED BY <3>1, <3>2, <3>3 DEF IsStore
  <2>2. d.frames = e.frames /\ d.seen = e.seen /\ \A f \in Fields \ {"ask"} : d[f] = e[f]
    BY FieldsAre, PanelsAre DEF Twins, Same
  <2> HIDE DEF c
  <2>3. Same(c(d), c(e))
    <3>1. ASSUME NEW f \in Fields \ {"ask"} PROVE c(d)[f] = c(e)[f]
      <4>1. c(d) = [g \in Fields |-> IF g = "frames" THEN d.frames + 1
                                     ELSE IF g = "seen" THEN Append(d.seen, raw) ELSE d[g]]
        BY <2>1 DEF Twins
      <4>2. c(e) = [g \in Fields |-> IF g = "frames" THEN e.frames + 1
                                     ELSE IF g = "seen" THEN Append(e.seen, raw) ELSE e[g]]
        BY <2>1 DEF Twins
      <4> QED BY <2>2, <4>1, <4>2
    <3> QED BY <3>1 DEF Same
  <2>4. Twins(c(d), c(e))
    BY <2>1, <2>3 DEF Twins
  <2>5. "unknownFrames" \in DOMAIN PanelOf
    BY PanelsAre
  <2>6. c(d).unknownFrames = c(e).unknownFrames
    BY <2>4, <2>5, TwinFields
  <2>7. Twins([c(d) EXCEPT !["unknownFrames"] = c(d).unknownFrames + 1],
              [c(e) EXCEPT !["unknownFrames"] = c(d).unknownFrames + 1])
    BY <2>4, <2>5, PutTwins
  <2> QED BY <2>4, <2>6, <2>7 DEF unknown
<1>2. CASE raw[2] # VERSION \/ ~Known(raw[3])
  <2>1. \A g : decodeFrame(g, raw) = addLog(unknown(c(g)), "UNKNOWN", raw)
    BY <1>2 DEF decodeFrame
  <2> HIDE DEF c
  <2> QED BY <1>1, <2>1, LogTwins
<1>3. CASE raw[2] = VERSION /\ Known(raw[3])
  <2>1. \A g : decodeFrame(g, raw) =
       CASE k = "snapshot" -> decodeProfilerSnapshot(c(g), p)
       [] k = "alert" -> decodeProfilerAlert(c(g), p)
       [] k \in LaKinds -> decodeLogicAnalyzerFrame(c(g), k, p)
       [] k \in {"heartbeat", "print", "event", "watch", "status"} /\ Fits(k, Len(p)) ->
            decodeDebug(c(g), k, p)
       [] k \in {"span_begin", "span_end", "mark", "value", "drop"} /\ Fits(k, Len(p)) ->
            decodeTrace(c(g), k, p)
       [] Responds(k, p) -> decodeMonitor(c(g), k, p)
       [] k \in {"read_resp", "write_resp", "monitor_reserved"} /\ ~Responds(k, p) ->
            requestRender([unknown(c(g)) EXCEPT !.monitor = addMonitorError(@, k)], "monitor")
       [] k = "profiler_reserved" -> recordProfilerMalformed(unknown(c(g)), k, p)
       [] OTHER -> unknown(c(g))
    BY <1>3 DEF decodeFrame
  <2> HIDE DEF c, k, p
  <2>2. CASE k \in {"snapshot", "alert"}
    <3>1. (\A g : decodeFrame(g, raw) = decodeProfilerSnapshot(c(g), p))
          \/ (\A g : decodeFrame(g, raw) = decodeProfilerAlert(c(g), p))
      BY <2>1, <2>2 DEF LaKinds, Responds
    <3> QED BY <1>1, <3>1, ProfilerTwins
  <2>3. CASE k \in LaKinds
    <3>1. \A g : decodeFrame(g, raw) = decodeLogicAnalyzerFrame(c(g), k, p)
      BY <2>1, <2>3 DEF LaKinds, Responds
    <3> QED BY <1>1, <2>3, <3>1, LaTwins
  <2>4. CASE k \in {"heartbeat", "print", "event", "watch", "status"} /\ Fits(k, Len(p))
    <3>1. \A g : decodeFrame(g, raw) = decodeDebug(c(g), k, p)
      BY <2>1, <2>4 DEF LaKinds, Responds
    <3> QED BY <1>1, <2>4, <3>1, DebugTwins
  <2>5. CASE k \in {"span_begin", "span_end", "mark", "value", "drop"} /\ Fits(k, Len(p))
    <3>1. \A g : decodeFrame(g, raw) = decodeTrace(c(g), k, p)
      BY <2>1, <2>5 DEF LaKinds, Responds
    <3> QED BY <1>1, <2>5, <3>1, TraceTwins
  <2>6. CASE Responds(k, p)
    <3>1. \A g : decodeFrame(g, raw) = decodeMonitor(c(g), k, p)
      BY <2>1, <2>6 DEF LaKinds, Responds
    <3> QED BY <1>1, <3>1, MonitorTwins
  <2>7. CASE k \in {"read_resp", "write_resp", "monitor_reserved"} /\ ~Responds(k, p)
    <3> DEFINE x == addMonitorError(unknown(c(d)).monitor, k)
    <3>1. "monitor" \in DOMAIN PanelOf /\ "monitor" \in Panels
          /\ unknown(c(d)).monitor = unknown(c(e)).monitor
      BY <1>1, PanelsAre, TwinFields DEF Panels
    <3>2. \A g : decodeFrame(g, raw) =
            requestRender([unknown(c(g)) EXCEPT !["monitor"] = addMonitorError(unknown(c(g)).monitor, k)], "monitor")
      BY <2>1, <2>7 DEF LaKinds
    <3>3. decodeFrame(d, raw) = requestRender([unknown(c(d)) EXCEPT !["monitor"] = x], "monitor")
          /\ decodeFrame(e, raw) = requestRender([unknown(c(e)) EXCEPT !["monitor"] = x], "monitor")
      BY <3>1, <3>2
    <3> HIDE DEF x
    <3>4. Twins([unknown(c(d)) EXCEPT !["monitor"] = x], [unknown(c(e)) EXCEPT !["monitor"] = x])
      BY <1>1, <3>1, PutTwins
    <3> QED BY <3>1, <3>3, <3>4, AskTwins
  <2>8. CASE k = "profiler_reserved"
    <3>1. \A g : decodeFrame(g, raw) = recordProfilerMalformed(unknown(c(g)), k, p)
      BY <2>1, <2>8 DEF LaKinds, Responds
    <3> QED BY <1>1, <3>1, ProfilerTwins
  <2>9. CASE /\ k # "snapshot" /\ k # "alert" /\ k # "profiler_reserved" /\ ~Responds(k, p) /\ k \notin LaKinds
             /\ ~(k \in {"heartbeat", "print", "event", "watch", "status"} /\ Fits(k, Len(p)))
             /\ ~(k \in {"span_begin", "span_end", "mark", "value", "drop"} /\ Fits(k, Len(p)))
             /\ ~(k \in {"read_resp", "write_resp", "monitor_reserved"} /\ ~Responds(k, p))
    <3>1. \A g : decodeFrame(g, raw) = unknown(c(g))
      BY <2>1, <2>9
    <3> QED BY <1>1, <3>1
  <2> QED BY <2>2, <2>3, <2>4, <2>5, <2>6, <2>7, <2>8, <2>9
<1> QED BY <1>2, <1>3

-----------------------------------------------------------------------------
(* The loop.  At a place of the bytes r that are left it waits for more,   *)
(* or takes some of them and goes on with other data.                      *)
Bytes == Seq(ByteRange)
From(w, i) == SubSeq(w, i + 1, Len(w))
Starts(r) == r[1] = SOF /\ r[4] <= MAX_PAYLOAD
Waits(r) == Len(r) >= 5 => Starts(r) /\ Len(r) < 5 + r[4]
Takes(r) == IF Starts(r) THEN 5 + r[4] ELSE 1
Good(r) == checksum(SubSeq(SubSeq(r, 1, 5 + r[4]), 2, 4 + r[4])) = r[5 + r[4]]
After(r, d) ==
  IF ~Starts(r) THEN [d EXCEPT !["syncDrops"] = d.syncDrops + 1]
  ELSE IF ~Good(r) THEN [d EXCEPT !["checksumErrors"] = d.checksumErrors + 1]
  ELSE decodeFrame(d, SubSeq(r, 1, 5 + r[4]))

LEMMA PayloadIs ==
  MAX_PAYLOAD \in Nat /\ MAX_PAYLOAD >= 3
BY DEF MAX_PAYLOAD

LEMMA FromIs ==
  ASSUME NEW w \in Bytes, NEW i \in 0 .. Len(w)
  PROVE  /\ From(w, i) \in Bytes /\ Len(From(w, i)) = Len(w) - i
         /\ \A k \in 1 .. Len(w) - i : From(w, i)[k] = w[i + k]
<1>1. \A k \in i + 1 .. Len(w) : w[k] \in ByteRange
  BY DEF Bytes
<1>2. i + 1 \in Int /\ Len(w) \in Int
  BY DEF Bytes
<1>3. /\ From(w, i) \in Seq(ByteRange)
      /\ Len(From(w, i)) = IF i + 1 <= Len(w) THEN Len(w) - (i + 1) + 1 ELSE 0
      /\ \A k \in 1 .. Len(w) - (i + 1) + 1 : From(w, i)[k] = w[(i + 1) + k - 1]
  BY <1>1, <1>2, SubSeqProperties DEF From
<1> QED BY <1>2, <1>3 DEF Bytes

LEMMA BytesEqual ==
  ASSUME NEW v \in Bytes, NEW w \in Bytes, Len(v) = Len(w), \A i \in 1 .. Len(v) : v[i] = w[i]
  PROVE  v = w
BY SeqEqual DEF Bytes

LEMMA FromFrom ==
  ASSUME NEW w \in Bytes, NEW i \in 0 .. Len(w), NEW j \in 0 .. Len(w) - i
  PROVE  From(From(w, i), j) = From(w, i + j)
<1>1. i + j \in 0 .. Len(w) /\ Len(w) \in Nat
  BY DEF Bytes
<1>2. From(w, i) \in Bytes /\ Len(From(w, i)) = Len(w) - i
  BY FromIs
<1>3. From(From(w, i), j) \in Bytes /\ Len(From(From(w, i), j)) = Len(w) - i - j
      /\ \A k \in 1 .. Len(w) - i - j : From(From(w, i), j)[k] = From(w, i)[j + k]
  BY <1>1, <1>2, FromIs
<1>4. From(w, i + j) \in Bytes /\ Len(From(w, i + j)) = Len(w) - (i + j)
      /\ \A k \in 1 .. Len(w) - (i + j) : From(w, i + j)[k] = w[i + j + k]
  <2> DEFINE n == i + j
  <2>1. n \in 0 .. Len(w)
    BY <1>1
  <2> HIDE DEF n
  <2>2. From(w, n) \in Bytes /\ Len(From(w, n)) = Len(w) - n
        /\ \A k \in 1 .. Len(w) - n : From(w, n)[k] = w[n + k]
    BY <2>1, FromIs
  <2> QED BY <2>2 DEF n
<1>5. \A k \in 1 .. Len(w) - i - j : From(From(w, i), j)[k] = From(w, i + j)[k]
  <2> TAKE k \in 1 .. Len(w) - i - j
  <2>1. j + k \in 1 .. Len(w) - i /\ k \in 1 .. Len(w) - (i + j)
    BY <1>1
  <2>2. From(w, i)[j + k] = w[i + (j + k)]
    BY <2>1, FromIs
  <2>3. i + (j + k) = i + j + k
    BY <1>1
  <2> QED BY <1>3, <1>4, <2>1, <2>2, <2>3
<1>6. Len(From(From(w, i), j)) = Len(From(w, i + j)) /\ Len(From(From(w, i), j)) = Len(w) - i - j
  BY <1>1, <1>3, <1>4
<1> QED BY <1>3, <1>4, <1>5, <1>6, BytesEqual

LEMMA FromConcat ==
  ASSUME NEW v \in Bytes, NEW w \in Bytes, NEW i \in 0 .. Len(v)
  PROVE  From(v \o w, i) = From(v, i) \o w
<1>1. v \o w \in Bytes /\ Len(v \o w) = Len(v) + Len(w) /\ Len(v) \in Nat /\ Len(w) \in Nat
      /\ \A k \in 1 .. Len(v) + Len(w) : (v \o w)[k] = IF k <= Len(v) THEN v[k] ELSE w[k - Len(v)]
  BY ConcatProperties DEF Bytes
<1>2. From(v, i) \in Bytes /\ Len(From(v, i)) = Len(v) - i
      /\ \A k \in 1 .. Len(v) - i : From(v, i)[k] = v[i + k]
  BY FromIs
<1>3. From(v, i) \o w \in Bytes /\ Len(From(v, i) \o w) = Len(v) - i + Len(w)
      /\ \A k \in 1 .. Len(v) - i + Len(w) :
           (From(v, i) \o w)[k] = IF k <= Len(v) - i THEN From(v, i)[k] ELSE w[k - (Len(v) - i)]
  <2> DEFINE u == From(v, i)
  <2>1. u \in Seq(ByteRange) /\ w \in Seq(ByteRange) /\ Len(u) = Len(v) - i
    BY <1>2 DEF Bytes
  <2> HIDE DEF u
  <2>2. u \o w \in Seq(ByteRange) /\ Len(u \o w) = Len(u) + Len(w)
        /\ \A k \in 1 .. Len(u) + Len(w) : (u \o w)[k] = IF k <= Len(u) THEN u[k] ELSE w[k - Len(u)]
    BY <2>1, ConcatProperties
  <2> QED BY <2>1, <2>2 DEF u, Bytes
<1>4. i \in 0 .. Len(v \o w)
  BY <1>1
<1>5. From(v \o w, i) \in Bytes /\ Len(From(v \o w, i)) = Len(v \o w) - i
      /\ \A k \in 1 .. Len(v \o w) - i : From(v \o w, i)[k] = (v \o w)[i + k]
  BY <1>1, <1>4, FromIs
<1>6. Len(v \o w) - i = Len(v) - i + Len(w)
  BY <1>1
<1>7. \A k \in 1 .. Len(v) - i + Len(w) : From(v \o w, i)[k] = (From(v, i) \o w)[k]
  <2> TAKE k \in 1 .. Len(v) - i + Len(w)
  <2>1. k \in 1 .. Len(v \o w) - i /\ i + k \in 1 .. Len(v) + Len(w) /\ i + k - Len(v) = k - (Len(v) - i)
        /\ (i + k <= Len(v) <=> k <= Len(v) - i) /\ (k <= Len(v) - i => k \in 1 .. Len(v) - i)
    BY <1>1, <1>6
  <2>2. (v \o w)[i + k] = IF i + k <= Len(v) THEN v[i + k] ELSE w[i + k - Len(v)]
    BY <1>1, <2>1
  <2>3. From(v \o w, i)[k] = (v \o w)[i + k]
    BY <1>5, <2>1
  <2>4. k <= Len(v) - i => From(v, i)[k] = v[i + k]
    BY <1>2, <2>1
  <2> QED BY <1>3, <2>1, <2>2, <2>3, <2>4
<1> QED BY <1>3, <1>5, <1>6, <1>7, BytesEqual

LEMMA Fourth ==
  ASSUME NEW r \in Bytes
  PROVE  Len(r) \in Nat /\ (Len(r) >= 5 => r[4] \in Nat)
<1>1. Len(r) \in Nat /\ \A k \in 1 .. Len(r) : r[k] \in ByteRange
  BY DEF Bytes
<1>2. Len(r) >= 5 => 4 \in 1 .. Len(r)
  BY <1>1
<1>3. ByteRange \subseteq Nat
  BY DEF ByteRange
<1> QED BY <1>1, <1>2, <1>3

LEMMA StepIs ==
  ASSUME NEW r \in Bytes, NEW d
  PROVE  /\ Waits(r) => ParseStep([rx |-> r, d |-> d]) = [rx |-> r, d |-> d]
         /\ ~Waits(r) => /\ Takes(r) \in 1 .. Len(r) /\ Takes(r) <= 5 + MAX_PAYLOAD /\ Len(r) >= 5
                         /\ ParseStep([rx |-> r, d |-> d]) = [rx |-> From(r, Takes(r)), d |-> After(r, d)]
<1> DEFINE s == [rx |-> r, d |-> d]
<1>1. Len(r) \in Nat /\ (Len(r) >= 5 => r[4] \in Nat)
  BY Fourth
<1>2. CASE Len(r) < 5
  BY <1>1, <1>2 DEF ParseStep, ParseFrame, Waits
<1>3. CASE Len(r) >= 5 /\ ~Starts(r)
  <2>1. ParseStep(s) = skipByte(s)
    BY <1>1, <1>3, PayloadIs DEF ParseStep, ParseFrame, Starts
  <2>2. Tail(r) = From(r, 1)
    <3>1. r \in Seq(ByteRange) /\ r # << >>
      BY <1>1, <1>3 DEF Bytes
    <3>2. Tail(r) = SubSeq(r, 2, Len(r))
      BY <3>1, TailIsSubSeq
    <3> QED BY <3>2 DEF From
  <2>3. ~Waits(r) /\ Takes(r) = 1 /\ After(r, d) = [d EXCEPT !["syncDrops"] = d.syncDrops + 1]
    BY <1>3 DEF Waits, Takes, After
  <2>4. skipByte(s) = [rx |-> Tail(r), d |-> [d EXCEPT !["syncDrops"] = d.syncDrops + 1]]
    BY DEF skipByte
  <2>5. ParseStep(s) = [rx |-> From(r, Takes(r)), d |-> After(r, d)]
    BY <2>1, <2>2, <2>3, <2>4
  <2>6. Takes(r) \in 1 .. Len(r) /\ Takes(r) <= 5 + MAX_PAYLOAD
    BY <1>1, <1>3, <2>3, PayloadIs
  <2> QED BY <1>3, <2>3, <2>5, <2>6
<1>4. CASE Len(r) >= 5 /\ Starts(r)
  <2>1. r[4] \in 0 .. MAX_PAYLOAD
    BY <1>1, <1>4, PayloadIs DEF Starts
  <2>2. CASE Len(r) < 5 + r[4]
    BY <1>1, <1>4, <2>1, <2>2 DEF ParseStep, ParseFrame, Waits, Starts
  <2>3. CASE Len(r) >= 5 + r[4]
    <3> DEFINE total == 5 + r[4]
               raw == SubSeq(r, 1, total)
    <3>1. ParseStep(s) =
            IF checksum(SubSeq(raw, 2, total - 1)) # raw[total]
            THEN [rx |-> From(r, total), d |-> [d EXCEPT !.checksumErrors = @ + 1]]
            ELSE [rx |-> From(r, total), d |-> decodeFrame(d, raw)]
      BY <1>1, <1>4, <2>1, <2>3 DEF ParseStep, ParseFrame, Starts, From
    <3>2. raw[total] = r[total] /\ total - 1 = 4 + r[4]
      <4>1. \A i \in 1 .. total : r[i] \in ByteRange
        BY <2>1, <2>3, <1>1 DEF Bytes
      <4>2. \A i \in 1 .. total - 1 + 1 : raw[i] = r[1 + i - 1]
        BY <2>1, <4>1, SubSeqProperties
      <4> QED BY <2>1, <4>2
    <3>3. Takes(r) = total /\ ~Waits(r) /\ total \in 1 .. Len(r) /\ total <= 5 + MAX_PAYLOAD
      BY <1>1, <1>4, <2>1, <2>3, PayloadIs DEF Takes, Waits
    <3>4. Good(r) <=> checksum(SubSeq(raw, 2, total - 1)) = raw[total]
      BY <3>2 DEF Good
    <3>5. ParseStep(s) = [rx |-> From(r, total), d |-> After(r, d)]
      BY <1>4, <3>1, <3>4 DEF After
    <3> QED BY <1>4, <3>3, <3>5
  <2> QED BY <1>1, <2>1, <2>2, <2>3
<1> QED BY <1>1, <1>2, <1>3, <1>4

(* More bytes behind change nothing of a step.                             *)
LEMMA MoreBehind ==
  ASSUME NEW r \in Bytes, NEW m \in Bytes, NEW d, ~Waits(r)
  PROVE  /\ ~Waits(r \o m) /\ Takes(r \o m) = Takes(r) /\ After(r \o m, d) = After(r, d)
         /\ Starts(r \o m) = Starts(r) /\ (Starts(r) => Good(r \o m) = Good(r))
<1>1. Len(r) \in Nat /\ Len(m) \in Nat /\ Len(r \o m) = Len(r) + Len(m)
      /\ \A k \in 1 .. Len(r) : (r \o m)[k] = r[k]
  BY ConcatProperties DEF Bytes
<1>2. Len(r) >= 5 /\ (Starts(r) => Len(r) >= 5 + r[4] /\ r[4] \in 0 .. MAX_PAYLOAD)
  BY Fourth, PayloadIs DEF Waits, Starts
<1>3. (r \o m)[1] = r[1] /\ (r \o m)[4] = r[4]
  BY <1>1, <1>2
<1>4. ~Waits(r \o m) /\ Takes(r \o m) = Takes(r) /\ (Starts(r \o m) <=> Starts(r))
  BY <1>1, <1>2, <1>3 DEF Waits, Takes, Starts
<1>5. ASSUME Starts(r) PROVE SubSeq(r \o m, 1, 5 + r[4]) = SubSeq(r, 1, 5 + r[4]) /\ (r \o m)[5 + r[4]] = r[5 + r[4]]
  <2>1. 1 \in 1 .. Len(r) /\ 5 + r[4] \in 1 .. Len(r)
    BY <1>1, <1>2, <1>5
  <2> QED BY <1>1, <2>1, SubSeqOfConcat1 DEF Bytes
<1>6. Starts(r) => (Good(r \o m) <=> Good(r))
  BY <1>3, <1>5 DEF Good
<1>7. After(r \o m, d) = After(r, d)
  BY <1>3, <1>4, <1>5, <1>6 DEF After
<1>8. Starts(r \o m) = Starts(r) /\ (Starts(r) => Good(r \o m) = Good(r))
  BY <1>4, <1>6 DEF Starts, Good
<1> QED BY <1>4, <1>7, <1>8

LEMMA NatLeast ==
  ASSUME NEW T, T \subseteq Nat, T # {}
  PROVE  \E n \in T : \A m \in T : n <= m
<1>1. PICK n \in T : \A m \in T : ~(<<m, n>> \in OpToRel(<, Nat))
  BY NatLessThanWellFounded, WFMin, Zenon
<1>2. \A m \in T : ~(m < n)
  <2> TAKE m \in T
  <2>1. m \in Nat /\ n \in Nat
    OBVIOUS
  <2>2. <<m, n>> \in Nat \X Nat
    BY <2>1
  <2> QED BY <1>1, <2>1, <2>2 DEF OpToRel
<1> QED BY <1>2

(* Induction, for sets of numbers.                                         *)
LEMMA NatSetInduction ==
  ASSUME NEW T, 0 \in T, \A n \in Nat : n \in T => n + 1 \in T
  PROVE  Nat \subseteq T
<1> SUFFICES ASSUME Nat \ T # {} PROVE FALSE
  OBVIOUS
<1>1. PICK n \in Nat \ T : \A m \in Nat \ T : n <= m
  BY NatLeast
<1>2. n # 0 /\ n - 1 \in Nat
  BY <1>1
<1>3. n - 1 \in T
  BY <1>1, <1>2
<1>4. (n - 1) + 1 \in T
  BY <1>2, <1>3
<1> QED BY <1>1, <1>4

(* The rounds of the loop, from s.                                         *)
IsLoop(f, s, N) == f = [n \in 0 .. N |-> IF n = 0 THEN s ELSE ParseStep(f[n - 1])]
Iter(s, N) == (CHOOSE f : IsLoop(f, s, N))[N]

LEMMA LoopExists ==
  ASSUME NEW s
  PROVE  \A N \in Nat : \E f : IsLoop(f, s, N)
<1> DEFINE T == {N \in Nat : \E f : IsLoop(f, s, N)}
<1>1. 0 \in T
  <2>1. IsLoop([n \in 0 .. 0 |-> s], s, 0)
    BY DEF IsLoop
  <2> QED BY <2>1
<1>2. \A N \in Nat : N \in T => N + 1 \in T
  <2> TAKE N \in Nat
  <2> HAVE N \in T
  <2>1. PICK f : IsLoop(f, s, N)
    OBVIOUS
  <2> DEFINE h == [n \in 0 .. N + 1 |-> IF n = N + 1 THEN ParseStep(f[N]) ELSE f[n]]
  <2>2. ASSUME NEW n \in 0 .. N + 1
        PROVE  h[n] = IF n = 0 THEN s ELSE ParseStep(h[n - 1])
    <3>1. CASE n = N + 1
      <4>1. h[n] = ParseStep(f[N]) /\ n # 0 /\ n - 1 = N /\ N \in 0 .. N + 1 /\ N # N + 1
        BY <3>1
      <4>2. h[N] = f[N]
        BY <4>1
      <4> QED BY <4>1, <4>2
    <3>2. CASE n \in 1 .. N
      <4>1. n \in 0 .. N /\ n # 0 /\ n # N + 1 /\ n - 1 \in 0 .. N + 1 /\ n - 1 # N + 1
        BY <3>2
      <4>2. h[n] = f[n] /\ h[n - 1] = f[n - 1]
        BY <4>1
      <4>3. f[n] = ParseStep(f[n - 1])
        BY <2>1, <4>1 DEF IsLoop
      <4> QED BY <4>1, <4>2, <4>3
    <3>3. CASE n = 0
      <4>1. h[0] = f[0] /\ f[0] = s
        BY <2>1 DEF IsLoop
      <4> QED BY <3>3, <4>1
    <3> QED BY <3>1, <3>2, <3>3
  <2>3. h = [n \in 0 .. N + 1 |-> h[n]]
    OBVIOUS
  <2> HIDE DEF h
  <2>4. h = [n \in 0 .. N + 1 |-> IF n = 0 THEN s ELSE ParseStep(h[n - 1])]
    BY <2>2, <2>3, Zenon
  <2>5. IsLoop(h, s, N + 1)
    BY <2>4 DEF IsLoop
  <2> QED BY <2>5
<1> HIDE DEF T
<1>3. Nat \subseteq T
  BY <1>1, <1>2, NatSetInduction
<1> QED BY <1>3 DEF T

LEMMA LoopUnique ==
  ASSUME NEW s, NEW M \in Nat, NEW N \in Nat, M <= N, NEW f, NEW h, IsLoop(f, s, M), IsLoop(h, s, N)
  PROVE  f[M] = h[M]
<1> DEFINE T == {n \in Nat : n <= M => f[n] = h[n]}
<1>1. 0 \in T
  <2>1. 0 \in 0 .. M /\ 0 \in 0 .. N
    OBVIOUS
  <2>2. f[0] = s /\ h[0] = s
    BY <2>1 DEF IsLoop
  <2> QED BY <2>2
<1>2. \A n \in Nat : n \in T => n + 1 \in T
  <2> TAKE n \in Nat
  <2> HAVE n \in T
  <2> SUFFICES ASSUME n + 1 <= M PROVE f[n + 1] = h[n + 1]
    OBVIOUS
  <2>1. n + 1 \in 0 .. M /\ n + 1 \in 0 .. N /\ n + 1 # 0 /\ (n + 1) - 1 = n /\ f[n] = h[n]
    OBVIOUS
  <2>2. f[n + 1] = ParseStep(f[(n + 1) - 1]) /\ h[n + 1] = ParseStep(h[(n + 1) - 1])
    BY <2>1 DEF IsLoop
  <2> QED BY <2>1, <2>2
<1> HIDE DEF T
<1>3. M \in T
  BY <1>1, <1>2, NatSetInduction
<1> QED BY <1>3 DEF T

LEMMA IterIs ==
  ASSUME NEW s
  PROVE  /\ Iter(s, 0) = s
         /\ \A n \in Nat : Iter(s, n + 1) = ParseStep(Iter(s, n))
<1> DEFINE L(n) == CHOOSE f : IsLoop(f, s, n)
<1>1. \A n \in Nat : IsLoop(L(n), s, n)
  BY LoopExists, Zenon
<1>2. \A n \in Nat : Iter(s, n) = L(n)[n]
  BY DEF Iter
<1> HIDE DEF L
<1>3. Iter(s, 0) = s
  <2>1. Iter(s, 0) = L(0)[0] /\ IsLoop(L(0), s, 0)
    BY <1>1, <1>2
  <2> QED BY <2>1 DEF IsLoop
<1>4. ASSUME NEW n \in Nat PROVE Iter(s, n + 1) = ParseStep(Iter(s, n))
  <2>1. IsLoop(L(n), s, n) /\ IsLoop(L(n + 1), s, n + 1) /\ n + 1 \in Nat /\ n <= n + 1
    BY <1>1
  <2>2. L(n)[n] = L(n + 1)[n]
    BY <2>1, LoopUnique
  <2>3. n + 1 \in 0 .. n + 1 /\ n + 1 # 0 /\ (n + 1) - 1 = n
    OBVIOUS
  <2>4. L(n + 1)[n + 1] = ParseStep(L(n + 1)[(n + 1) - 1])
    BY <2>1, <2>3 DEF IsLoop
  <2> QED BY <1>2, <2>1, <2>2, <2>3, <2>4
<1> QED BY <1>3, <1>4

LEMMA IterAfter ==
  ASSUME NEW s
  PROVE  \A n \in Nat : Iter(s, n + 1) = Iter(ParseStep(s), n)
<1> DEFINE T == {n \in Nat : Iter(s, n + 1) = Iter(ParseStep(s), n)}
<1>1. 0 \in T
  <2>1. Iter(s, 0 + 1) = ParseStep(Iter(s, 0)) /\ Iter(s, 0) = s /\ Iter(ParseStep(s), 0) = ParseStep(s)
    BY IterIs
  <2> QED BY <2>1
<1>2. \A n \in Nat : n \in T => n + 1 \in T
  <2> TAKE n \in Nat
  <2> HAVE n \in T
  <2>1. n + 1 \in Nat
    OBVIOUS
  <2>2. Iter(s, (n + 1) + 1) = ParseStep(Iter(s, n + 1))
    BY <2>1, IterIs
  <2>3. Iter(ParseStep(s), n + 1) = ParseStep(Iter(ParseStep(s), n))
    BY IterIs
  <2> QED BY <2>1, <2>2, <2>3
<1> HIDE DEF T
<1>3. Nat \subseteq T
  BY <1>1, <1>2, NatSetInduction
<1> QED BY <1>3 DEF T

LEMMA IterStuck ==
  ASSUME NEW s, ParseStep(s) = s
  PROVE  \A n \in Nat : Iter(s, n) = s
<1> DEFINE T == {n \in Nat : Iter(s, n) = s}
<1>1. 0 \in T
  BY IterIs
<1>2. \A n \in Nat : n \in T => n + 1 \in T
  BY IterIs
<1> HIDE DEF T
<1>3. Nat \subseteq T
  BY <1>1, <1>2, NatSetInduction
<1> QED BY <1>3 DEF T

(* What the loop makes of the bytes w and the data d.                      *)
At0(w, d) == [rx |-> w, d |-> d]
Result(w, d) == Iter(At0(w, d), Len(w))

(* As many rounds as there are bytes are enough.                           *)
EnoughFor(m) ==
  \A w \in Bytes : \A d : \A n \in Nat : Len(w) <= m /\ Len(w) <= n => Iter(At0(w, d), n) = Result(w, d)

LEMMA EnoughRounds ==
  \A m \in Nat : EnoughFor(m)
<1> DEFINE T == {m \in Nat : EnoughFor(m)}
<1>0. ASSUME NEW w \in Bytes, NEW d, Waits(w) PROVE \A n \in Nat : Iter(At0(w, d), n) = Result(w, d)
  <2>1. ParseStep(At0(w, d)) = At0(w, d)
    BY <1>0, StepIs DEF At0
  <2>2. Len(w) \in Nat
    BY DEF Bytes
  <2>3. \A n \in Nat : Iter(At0(w, d), n) = At0(w, d)
    BY <2>1, IterStuck
  <2> QED BY <2>2, <2>3 DEF Result
<1>1. 0 \in T
  <2>1. ASSUME NEW w \in Bytes, Len(w) <= 0 PROVE Waits(w)
    BY <2>1 DEF Waits, Bytes
  <2>2. EnoughFor(0)
    BY <1>0, <2>1 DEF EnoughFor
  <2> QED BY <2>2
<1>2. \A m \in Nat : m \in T => m + 1 \in T
  <2> TAKE m \in Nat
  <2> HAVE m \in T
  <2>1. ASSUME NEW w \in Bytes, NEW d, NEW n \in Nat, Len(w) <= m + 1, Len(w) <= n, ~Waits(w)
        PROVE  Iter(At0(w, d), n) = Result(w, d)
    <3> DEFINE r == From(w, Takes(w))
               e == After(w, d)
               N == Len(w)
    <3>1. Takes(w) \in 1 .. N /\ N >= 5 /\ N \in Nat /\ ParseStep(At0(w, d)) = At0(r, e)
      BY <2>1, StepIs DEF At0, Bytes
    <3>2. r \in Bytes /\ Len(r) = N - Takes(w)
      BY <3>1, FromIs
    <3> HIDE DEF r, e
    <3>3. \A k \in Nat : Iter(At0(w, d), k + 1) = Iter(At0(r, e), k)
      BY <3>1, IterAfter
    <3>4. n - 1 \in Nat /\ N - 1 \in Nat /\ (n - 1) + 1 = n /\ (N - 1) + 1 = N
          /\ Len(r) <= m /\ Len(r) <= n - 1 /\ Len(r) <= N - 1
      BY <2>1, <3>1, <3>2
    <3>5. Iter(At0(r, e), n - 1) = Result(r, e) /\ Iter(At0(r, e), N - 1) = Result(r, e)
      BY <3>2, <3>4 DEF EnoughFor
    <3>6. Iter(At0(w, d), n) = Iter(At0(r, e), n - 1) /\ Iter(At0(w, d), N) = Iter(At0(r, e), N - 1)
      BY <3>3, <3>4
    <3> QED BY <3>5, <3>6 DEF Result
  <2>2. EnoughFor(m + 1)
    BY <1>0, <2>1 DEF EnoughFor
  <2> QED BY <2>2
<1> HIDE DEF T
<1>3. Nat \subseteq T
  BY <1>1, <1>2, NatSetInduction
<1> QED BY <1>3 DEF T

(* The loop, one round at a time.                                          *)
LEMMA ResultIs ==
  ASSUME NEW w \in Bytes, NEW d
  PROVE  /\ Waits(w) => Result(w, d) = At0(w, d)
         /\ ~Waits(w) => Result(w, d) = Result(From(w, Takes(w)), After(w, d))
<1> DEFINE N == Len(w)
           r == From(w, Takes(w))
           e == After(w, d)
<1>0. N \in Nat
  BY DEF Bytes
<1>1. ASSUME Waits(w) PROVE Result(w, d) = At0(w, d)
  <2>1. ParseStep(At0(w, d)) = At0(w, d)
    BY <1>1, StepIs DEF At0
  <2> QED BY <1>0, <2>1, IterStuck DEF Result
<1>2. ASSUME ~Waits(w) PROVE Result(w, d) = Result(r, e)
  <2>1. Takes(w) \in 1 .. N /\ N >= 5 /\ ParseStep(At0(w, d)) = At0(r, e)
    BY <1>2, StepIs DEF At0
  <2>2. r \in Bytes /\ Len(r) = N - Takes(w)
    BY <1>0, <2>1, FromIs
  <2> HIDE DEF r, e
  <2>3. N - 1 \in Nat /\ (N - 1) + 1 = N /\ Len(r) <= N - 1
    BY <1>0, <2>1, <2>2
  <2>4. Iter(At0(w, d), (N - 1) + 1) = Iter(At0(r, e), N - 1)
    BY <2>1, <2>3, IterAfter
  <2>5. Iter(At0(r, e), N - 1) = Result(r, e)
    BY <2>2, <2>3, EnoughRounds DEF EnoughFor
  <2> QED BY <2>3, <2>4, <2>5 DEF Result
<1> QED BY <1>1, <1>2

LEMMA ParseIs ==
  ASSUME NEW w, NEW d
  PROVE  parseAvailableFrames(w, d) = [Result(w, d) EXCEPT !.d = requestRender(Result(w, d).d, "counters")]
<1> DEFINE rounds == CHOOSE f : f = [n \in 0 .. Len(w) |-> IF n = 0 THEN [rx |-> w, d |-> d] ELSE ParseStep(f[n - 1])]
<1>1. parseAvailableFrames(w, d) = [rounds[Len(w)] EXCEPT !.d = requestRender(rounds[Len(w)].d, "counters")]
  BY DEF parseAvailableFrames
<1>2. rounds[Len(w)] = Result(w, d)
  BY DEF Result, Iter, IsLoop, At0
<1> QED BY <1>1, <1>2

(* A round keeps bytes and a store.                                        *)
IsFrame(r) == Starts(r) /\ Good(r)
Raw(r) == SubSeq(r, 1, 5 + r[4])

LEMMA RawIs ==
  ASSUME NEW r \in Bytes, ~Waits(r), Starts(r)
  PROVE  /\ Raw(r) \in Bytes /\ Len(Raw(r)) = 5 + r[4] /\ r[4] \in 0 .. MAX_PAYLOAD
         /\ \A i \in 1 .. 5 + r[4] : Raw(r)[i] = r[i]
<1>1. Len(r) \in Nat /\ r[4] \in 0 .. MAX_PAYLOAD /\ 5 + r[4] <= Len(r)
  BY Fourth, PayloadIs DEF Waits, Starts
<1>2. \A i \in 1 .. 5 + r[4] : r[i] \in ByteRange
  BY <1>1 DEF Bytes
<1> DEFINE t == 5 + r[4]
<1>3. 1 \in Int /\ t \in Int /\ 1 <= t
  BY <1>1
<1>4. \A i \in 1 .. t : r[i] \in ByteRange
  BY <1>2
<1>5. Raw(r) = SubSeq(r, 1, t)
  BY DEF Raw
<1> HIDE DEF t
<1>6. /\ SubSeq(r, 1, t) \in Seq(ByteRange)
      /\ Len(SubSeq(r, 1, t)) = IF 1 <= t THEN t - 1 + 1 ELSE 0
      /\ \A i \in 1 .. t - 1 + 1 : SubSeq(r, 1, t)[i] = r[1 + i - 1]
  BY <1>3, <1>4, SubSeqProperties
<1>7. t - 1 + 1 = t /\ \A i \in 1 .. t : 1 + i - 1 = i
  BY <1>3
<1>8. Raw(r) \in Seq(ByteRange) /\ Len(Raw(r)) = t /\ \A i \in 1 .. t : Raw(r)[i] = r[i]
  BY <1>3, <1>5, <1>6, <1>7
<1> QED BY <1>1, <1>8 DEF Bytes, t

LEMMA AfterDoes ==
  ASSUME NEW r \in Bytes, ~Waits(r), NEW d, IsStore(d)
  PROVE  /\ Shows(d, After(r, d), IF IsFrame(r) /\ HeaderFrame(Raw(r)) THEN {"logic_analyzer"} ELSE {})
         /\ After(r, d).seen = IF IsFrame(r) THEN Append(d.seen, Raw(r)) ELSE d.seen
         /\ IsFrame(r) /\ LaFrame(Raw(r)) /\ ~HeaderFrame(Raw(r)) => "logic_analyzer" \in After(r, d).ask
<1>1. CASE IsFrame(r)
  <2>1. Raw(r) \in Seq(ByteRange) /\ Len(Raw(r)) = 5 + r[4] /\ r[4] \in 0 .. MAX_PAYLOAD /\ Raw(r)[4] = r[4]
    <3>1. Raw(r) \in Bytes /\ Len(Raw(r)) = 5 + r[4] /\ r[4] \in 0 .. MAX_PAYLOAD
          /\ \A i \in 1 .. 5 + r[4] : Raw(r)[i] = r[i]
      BY <1>1, RawIs DEF IsFrame
    <3> QED BY <3>1 DEF Bytes
  <2>2. After(r, d) = decodeFrame(d, Raw(r))
    BY <1>1 DEF After, IsFrame, Raw
  <2>3. Len(Raw(r)) >= 5 /\ Len(Raw(r)) = 5 + Raw(r)[4]
    BY <2>1
  <2> QED BY <1>1, <2>1, <2>2, <2>3, FrameDoes
<1>2. CASE ~IsFrame(r)
  <2>0. \/ After(r, d) = [d EXCEPT !["syncDrops"] = d.syncDrops + 1]
        \/ After(r, d) = [d EXCEPT !["checksumErrors"] = d.checksumErrors + 1]
    BY <1>2 DEF IsFrame, After
  <2>1. PICK f, x : f \in {"syncDrops", "checksumErrors"} /\ After(r, d) = [d EXCEPT ![f] = x]
    BY <2>0
  <2>2. f \in DOMAIN PanelOf /\ PanelOf[f] = "counters"
    BY <2>1, PanelsAre
  <2>3. Does(d, After(r, d), {"counters"}, {})
    <3>1. Does(d, [d EXCEPT ![f] = x], {PanelOf[f]}, {})
      BY <2>2, PutDoes
    <3> QED BY <2>1, <2>2, <3>1
  <2> QED BY <1>2, <2>3 DEF Does, Shows
<1> QED BY <1>1, <1>2

LEMMA AfterTwins ==
  ASSUME NEW r \in Bytes, ~Waits(r), NEW d, NEW e, Twins(d, e)
  PROVE  Twins(After(r, d), After(r, e))
<1>1. CASE IsFrame(r)
  <2>1. Raw(r) \in Seq(ByteRange) /\ Len(Raw(r)) = 5 + r[4] /\ r[4] \in 0 .. MAX_PAYLOAD /\ Raw(r)[4] = r[4]
    <3>1. Raw(r) \in Bytes /\ Len(Raw(r)) = 5 + r[4] /\ r[4] \in 0 .. MAX_PAYLOAD
          /\ \A i \in 1 .. 5 + r[4] : Raw(r)[i] = r[i]
      BY <1>1, RawIs DEF IsFrame
    <3> QED BY <3>1 DEF Bytes
  <2>2. \A g : After(r, g) = decodeFrame(g, Raw(r))
    BY <1>1 DEF After, IsFrame, Raw
  <2>3. Len(Raw(r)) >= 5 /\ Len(Raw(r)) = 5 + Raw(r)[4]
    BY <2>1
  <2> QED BY <1>1, <2>1, <2>2, <2>3, FrameTwins
<1>2. CASE ~IsFrame(r)
  <2>1. \/ \A g : After(r, g) = [g EXCEPT !["syncDrops"] = g["syncDrops"] + 1]
        \/ \A g : After(r, g) = [g EXCEPT !["checksumErrors"] = g["checksumErrors"] + 1]
    BY <1>2 DEF IsFrame, After
  <2>2. PICK f \in {"syncDrops", "checksumErrors"} : \A g : After(r, g) = [g EXCEPT ![f] = g[f] + 1]
    BY <2>1
  <2>3. f \in DOMAIN PanelOf
    BY PanelsAre
  <2>4. d[f] = e[f]
    BY <2>3, TwinFields
  <2>5. Twins([d EXCEPT ![f] = d[f] + 1], [e EXCEPT ![f] = d[f] + 1])
    BY <2>3, PutTwins
  <2> QED BY <2>2, <2>4, <2>5
<1> QED BY <1>1, <1>2

-----------------------------------------------------------------------------
(* What a run of the loop does to the data: what changed is asked for, but *)
(* for the counters, which are asked for at its end, and for the logic     *)
(* analyzer, whose panel may miss a header.                                *)
Drawn(c, d) ==
  /\ IsStore(d) /\ c.ask \subseteq d.ask
  /\ \A f \in DOMAIN PanelOf :
       d[f] # c[f] => \/ PanelOf[f] \in d.ask \cup {"counters"}
                      \/ PanelOf[f] = "logic_analyzer" /\ HeaderNotDrawn(d)
  /\ HeaderNotDrawn(c) => "logic_analyzer" \in d.ask \/ HeaderNotDrawn(d)

LEMMA HeaderOf ==
  ASSUME NEW d
  PROVE  HeaderNotDrawn(d) <=> \E m \in 1 .. Len(d.seen) :
           HeaderFrame(d.seen[m]) /\ \A n \in 1 .. Len(d.seen) : LaFrame(d.seen[n]) => n <= m
BY DEF HeaderNotDrawn, HeaderFrame, LaFrame

LEMMA HeaderAppended ==
  ASSUME NEW d, IsStore(d), NEW e, IsStore(e), NEW raw, e.seen = Append(d.seen, raw)
  PROVE  /\ HeaderFrame(raw) => HeaderNotDrawn(e)
         /\ ~LaFrame(raw) /\ HeaderNotDrawn(d) => HeaderNotDrawn(e)
<1> DEFINE N == Len(d.seen)
<1>1. d.seen \in Seq(Seq(ByteRange)) /\ e.seen \in Seq(Seq(ByteRange)) /\ N \in Nat
      /\ Len(e.seen) = N + 1 /\ e.seen[N + 1] = raw /\ \A n \in 1 .. N : e.seen[n] = d.seen[n]
  <2> DEFINE S == Seq(ByteRange)
  <2>1. d.seen \in Seq(S) /\ e.seen \in Seq(S)
    BY DEF IsStore
  <2>2. Append(d.seen, raw) \in Seq(S)
    BY <2>1
  <2> HIDE DEF S
  <2>3. raw \in S
    <3>1. N \in Nat /\ Len(Append(d.seen, raw)) = N + 1
      BY <2>1
    <3>2. N + 1 \in 1 .. Len(Append(d.seen, raw)) /\ Append(d.seen, raw)[N + 1] = raw
      BY <2>1, <3>1
    <3> QED BY <2>2, <3>2
  <2>4. N \in Nat /\ Len(e.seen) = N + 1 /\ e.seen[N + 1] = raw /\ \A n \in 1 .. N : e.seen[n] = d.seen[n]
    BY <2>1, <2>3
  <2> QED BY <2>1, <2>4 DEF S
<1>2. ASSUME HeaderFrame(raw) PROVE HeaderNotDrawn(e)
  <2>1. N + 1 \in 1 .. Len(e.seen) /\ \A n \in 1 .. Len(e.seen) : n <= N + 1
    BY <1>1
  <2> QED BY <1>1, <1>2, <2>1, HeaderOf
<1>3. ASSUME ~LaFrame(raw), HeaderNotDrawn(d) PROVE HeaderNotDrawn(e)
  <2>1. PICK m \in 1 .. N : HeaderFrame(d.seen[m]) /\ \A n \in 1 .. N : LaFrame(d.seen[n]) => n <= m
    BY <1>3, HeaderOf
  <2>2. m \in 1 .. Len(e.seen) /\ HeaderFrame(e.seen[m])
    BY <1>1, <2>1
  <2>3. \A n \in 1 .. Len(e.seen) : LaFrame(e.seen[n]) => n <= m
    <3> TAKE n \in 1 .. Len(e.seen)
    <3>1. n = N + 1 \/ n \in 1 .. N
      BY <1>1
    <3> QED BY <1>1, <1>3, <2>1, <3>1
  <2> QED BY <2>2, <2>3, HeaderOf
<1> QED BY <1>2, <1>3

LEMMA RoundDraws ==
  ASSUME NEW c, NEW d, Drawn(c, d), NEW r \in Bytes, ~Waits(r)
  PROVE  Drawn(c, After(r, d))
<1> DEFINE e == After(r, d)
           stale == IF IsFrame(r) /\ HeaderFrame(Raw(r)) THEN {"logic_analyzer"} ELSE {}
<1>1. IsStore(d) /\ c.ask \subseteq d.ask
  BY DEF Drawn
<1>2. /\ Shows(d, e, stale)
      /\ e.seen = IF IsFrame(r) THEN Append(d.seen, Raw(r)) ELSE d.seen
      /\ IsFrame(r) /\ LaFrame(Raw(r)) /\ ~HeaderFrame(Raw(r)) => "logic_analyzer" \in e.ask
  BY <1>1, AfterDoes
<1> HIDE DEF e
<1>3. IsStore(e) /\ d.ask \subseteq e.ask
      /\ \A f \in DOMAIN PanelOf : e[f] # d[f] => PanelOf[f] \in e.ask \cup stale \cup {"counters"}
  BY <1>2 DEF Shows
<1>4. stale # {} => stale = {"logic_analyzer"} /\ HeaderNotDrawn(e)
  BY <1>1, <1>2, <1>3, HeaderAppended
<1>5. HeaderNotDrawn(d) => "logic_analyzer" \in e.ask \/ HeaderNotDrawn(e)
  <2>1. CASE ~IsFrame(r)
    <3>1. e.seen = d.seen
      BY <1>2, <2>1
    <3> QED BY <3>1 DEF HeaderNotDrawn
  <2>2. CASE IsFrame(r)
    BY <1>1, <1>2, <1>3, <2>2, HeaderAppended
  <2> QED BY <2>1, <2>2
<1> HIDE DEF stale
<1>6. ASSUME NEW f \in DOMAIN PanelOf, e[f] # c[f]
      PROVE  \/ PanelOf[f] \in e.ask \cup {"counters"}
             \/ PanelOf[f] = "logic_analyzer" /\ HeaderNotDrawn(e)
  <2>1. CASE e[f] # d[f]
    BY <1>3, <1>4, <2>1
  <2>2. CASE d[f] # c[f]
    <3>1. \/ PanelOf[f] \in d.ask \cup {"counters"}
          \/ PanelOf[f] = "logic_analyzer" /\ HeaderNotDrawn(d)
      BY <2>2 DEF Drawn
    <3> QED BY <1>3, <1>5, <3>1
  <2> QED BY <1>6, <2>1, <2>2
<1>7. HeaderNotDrawn(c) => "logic_analyzer" \in e.ask \/ HeaderNotDrawn(e)
  BY <1>3, <1>5 DEF Drawn
<1>8. Drawn(c, e)
  BY <1>1, <1>3, <1>6, <1>7 DEF Drawn
<1> QED BY <1>8 DEF e

LEMMA LoopDraws ==
  ASSUME NEW w \in Bytes, NEW c, IsStore(c)
  PROVE  \E i, d : i \in 0 .. Len(w) /\ Result(w, c) = At0(From(w, i), d) /\ Drawn(c, d)
<1> DEFINE P(n) == \E i, d : i \in 0 .. Len(w) /\ Iter(At0(w, c), n) = At0(From(w, i), d) /\ Drawn(c, d)
           T == {n \in Nat : P(n)}
<1>0. Len(w) \in Nat
  BY DEF Bytes
<1>1. 0 \in T
  <2>1. Iter(At0(w, c), 0) = At0(w, c) /\ From(w, 0) = w
    <3>1. From(w, 0) = w
      <4>1. 0 \in 0 .. Len(w)
        BY <1>0
      <4>2. From(w, 0) \in Bytes /\ Len(From(w, 0)) = Len(w) - 0
            /\ \A k \in 1 .. Len(w) - 0 : From(w, 0)[k] = w[0 + k]
        BY <4>1, FromIs
      <4>3. Len(From(w, 0)) = Len(w) /\ \A k \in 1 .. Len(w) : From(w, 0)[k] = w[k]
        BY <1>0, <4>2
      <4> QED BY <4>2, <4>3, BytesEqual
    <3> QED BY <3>1, IterIs
  <2>2. Drawn(c, c)
    BY DEF Drawn
  <2>3. 0 \in 0 .. Len(w)
    BY <1>0
  <2> QED BY <2>1, <2>2, <2>3
<1>2. \A n \in Nat : n \in T => n + 1 \in T
  <2> TAKE n \in Nat
  <2> HAVE n \in T
  <2>1. PICK i, d : i \in 0 .. Len(w) /\ Iter(At0(w, c), n) = At0(From(w, i), d) /\ Drawn(c, d)
    OBVIOUS
  <2> DEFINE r == From(w, i)
  <2>2. Iter(At0(w, c), n + 1) = ParseStep(At0(r, d))
    BY ZenonT(30), <2>1, IterIs
  <2>3. r \in Bytes /\ Len(r) = Len(w) - i
    BY <2>1, FromIs
  <2>4. CASE Waits(r)
    <3>1. ParseStep(At0(r, d)) = At0(r, d)
      BY <2>3, <2>4, StepIs DEF At0
    <3> QED BY <2>1, <2>2, <3>1
  <2>5. CASE ~Waits(r)
    <3>1. Takes(r) \in 1 .. Len(r) /\ ParseStep(At0(r, d)) = At0(From(r, Takes(r)), After(r, d))
      BY <2>3, <2>5, StepIs DEF At0
    <3>2. Takes(r) \in 0 .. Len(w) - i /\ i + Takes(r) \in 0 .. Len(w)
      BY <1>0, <2>1, <2>3, <3>1
    <3>3. From(r, Takes(r)) = From(w, i + Takes(r))
      BY <2>1, <3>2, FromFrom
    <3>4. Drawn(c, After(r, d))
      BY <2>1, <2>3, <2>5, RoundDraws
    <3> QED BY <2>2, <3>1, <3>2, <3>3, <3>4
  <2> QED BY <2>4, <2>5
<1> HIDE DEF T
<1>3. Nat \subseteq T
  BY <1>1, <1>2, NatSetInduction
<1>4. P(Len(w))
  BY <1>0, <1>3 DEF T
<1> QED BY <1>4 DEF Result

(* One event: what the parser makes of the bytes w and the data c.         *)
LEMMA ParseDoes ==
  ASSUME NEW w \in Bytes, NEW c, IsStore(c), c.ask = {}
  PROVE  LET p == parseAvailableFrames(w, c) IN
         /\ p.rx \in Bytes /\ IsStore(p.d) /\ "counters" \in p.d.ask
         /\ IsStore([p.d EXCEPT !.ask = {}]) /\ [p.d EXCEPT !.ask = {}].ask = {}
         /\ \A q \in Panels : Content(p.d, q) # Content(c, q) =>
              q \in p.d.ask \/ (q = "logic_analyzer" /\ HeaderNotDrawn([p.d EXCEPT !.ask = {}]))
         /\ HeaderNotDrawn(c) => "logic_analyzer" \in p.d.ask \/ HeaderNotDrawn([p.d EXCEPT !.ask = {}])
<1> DEFINE p == parseAvailableFrames(w, c)
<1>1. PICK i, d : i \in 0 .. Len(w) /\ Result(w, c) = At0(From(w, i), d) /\ Drawn(c, d)
  BY LoopDraws
<1> DEFINE e == requestRender(d, "counters")
           z == [e EXCEPT !.ask = {}]
<1>2. p = [rx |-> From(w, i), d |-> e]
  BY <1>1, ParseIs DEF At0
<1>3. p.rx = From(w, i) /\ p.d = e /\ From(w, i) \in Bytes
  BY <1>1, <1>2, FromIs
<1>4. Does(d, e, {}, {"counters"})
  BY <1>1, AskDoes DEF Drawn, Panels
<1>5. /\ IsStore(e) /\ e.ask = d.ask \cup {"counters"} /\ e.seen = d.seen
      /\ \A f \in DOMAIN PanelOf : e[f] = d[f]
  BY <1>4 DEF Does
<1> HIDE DEF e
<1>6. IsStore(z) /\ z.ask = {} /\ z.seen = e.seen
  <2>1. z = [f \in Fields |-> IF f = "ask" THEN {} ELSE e[f]]
    BY <1>5, FieldsAre DEF IsStore
  <2> HIDE DEF z
  <2>2. z = [f \in Fields |-> z[f]] /\ z.ask = {} /\ z.seen = e.seen
    BY <2>1, FieldsAre
  <2> QED BY <1>5, <2>2 DEF IsStore
<1>7. HeaderNotDrawn(d) => HeaderNotDrawn(z)
  <2> HIDE DEF z
  <2> QED BY <1>5, <1>6 DEF HeaderNotDrawn
<1> HIDE DEF z
<1>8. ASSUME NEW q \in Panels, Content(e, q) # Content(c, q)
      PROVE  q \in e.ask \/ (q = "logic_analyzer" /\ HeaderNotDrawn(z))
  <2>1. PICK f \in DOMAIN PanelOf : PanelOf[f] = q /\ e[f] # c[f]
    BY <1>8, ContentKept
  <2>2. d[f] # c[f]
    BY <1>5, <2>1
  <2>3. \/ q \in d.ask \cup {"counters"}
        \/ q = "logic_analyzer" /\ HeaderNotDrawn(d)
    BY <1>1, <2>1, <2>2 DEF Drawn
  <2> QED BY <1>5, <1>7, <2>3
<1>9. HeaderNotDrawn(c) => "logic_analyzer" \in e.ask \/ HeaderNotDrawn(z)
  BY <1>1, <1>5, <1>7 DEF Drawn
<1>10. [p.d EXCEPT !.ask = {}] = z
  BY <1>3 DEF z
<1> HIDE DEF p
<1> QED BY <1>3, <1>5, <1>6, <1>8, <1>9, <1>10 DEF p

-----------------------------------------------------------------------------
(* The bytes of a frame.                                                   *)
LEMMA ChecksumIs ==
  ASSUME NEW b \in Bytes
  PROVE  checksum(b) \in ByteRange
<1> DEFINE S(bit) == {i \in DOMAIN b : (b[i] \div bit) % 2 = 1}
           odd(bit) == Cardinality(S(bit)) % 2
<1>1. ASSUME NEW bit \in Nat PROVE odd(bit) \in 0 .. 1
  <2>1. DOMAIN b = 1 .. Len(b) /\ Len(b) \in Nat
    BY DEF Bytes
  <2>2. IsFiniteSet(1 .. Len(b))
    BY <2>1, FS_Interval
  <2>3. S(bit) \subseteq 1 .. Len(b)
    BY <2>1
  <2>4. IsFiniteSet(S(bit))
    BY <2>2, <2>3, FS_Subset
  <2>5. Cardinality(S(bit)) \in Nat
    BY <2>4, FS_CardinalityType
  <2> HIDE DEF S
  <2> QED BY <2>5
<1>2. checksum(b) = odd(1) + 2 * odd(2) + 4 * odd(4) + 8 * odd(8) + 16 * odd(16) + 32 * odd(32)
  BY DEF checksum
<1> HIDE DEF odd
<1>3. odd(1) \in 0 .. 1 /\ odd(2) \in 0 .. 1 /\ odd(4) \in 0 .. 1 /\ odd(8) \in 0 .. 1 /\ odd(16) \in 0 .. 1 /\ odd(32) \in 0 .. 1
  BY <1>1
<1> QED BY <1>2, <1>3 DEF ByteRange

LEMMA FrameIs ==
  ASSUME NEW type \in ByteRange, NEW payload \in Bytes, Len(payload) \in 0 .. 3
  PROVE  frame(type, payload) \in Bytes
<1> DEFINE body == <<VERSION, type, Len(payload)>> \o payload
<1>1. Len(payload) \in ByteRange /\ VERSION \in ByteRange /\ SOF \in ByteRange
  <2>2. Len(payload) \in 0 .. 63
    OBVIOUS
  <2>3. 1 \in 0 .. 63 /\ 37 \in 0 .. 63
    OBVIOUS
  <2> QED BY <2>2, <2>3 DEF ByteRange, VERSION, SOF
<1>2. <<VERSION, type, Len(payload)>> \in Bytes
  BY <1>1 DEF Bytes
<1>3. body \in Bytes
  BY <1>2, ConcatProperties DEF Bytes
<1> HIDE DEF body
<1>4. <<checksum(body)>> \in Bytes /\ <<SOF>> \in Bytes
  BY <1>1, <1>3, ChecksumIs DEF Bytes
<1>5. <<SOF>> \o body \in Bytes
  BY <1>3, <1>4, ConcatProperties DEF Bytes
<1>6. (<<SOF>> \o body) \o <<checksum(body)>> \in Bytes
  BY <1>4, <1>5, ConcatProperties DEF Bytes
<1> QED BY <1>6 DEF frame, body

LEMMA RawFramesAre ==
  ASSUME Len(frames) \in Nat, NEW kind \in Catalog, NEW key \in Keys, NEW raw \in RawFrames(kind, key)
  PROVE  raw \in Bytes
<1>1. Type[kind] \in ByteRange /\ key \in ByteRange
  BY SMTT(30), FramesAssumption DEF Type, ByteRange
<1>2. Now \in ByteRange /\ {0, SOF} \subseteq ByteRange
  <2>1. \A n \in Nat : n % 64 \in 0 .. 63
    OBVIOUS
  <2>2. 61 + Len(frames) \in Nat
    OBVIOUS
  <2>3. (61 + Len(frames)) % 64 \in 0 .. 63
    BY <2>1, <2>2
  <2> QED BY <2>3 DEF Now, ByteRange, SOF
<1>3. \A arg \in {0, SOF} : <<Now, key, arg>> \in Bytes /\ Len(<<Now, key, arg>>) \in 0 .. 3
  BY <1>1, <1>2 DEF Bytes
<1>4. <<>> \in Bytes /\ Len(<<>>) \in 0 .. 3
  BY DEF Bytes
<1>5. \E payload \in Bytes : Len(payload) \in 0 .. 3 /\ raw = frame(Type[kind], payload)
  BY <1>3, <1>4, FramesAssumption DEF RawFrames
<1> QED BY <1>1, <1>5, FrameIs

LEMMA HurtIs ==
  ASSUME NEW raw \in Bytes, NEW bytes \in Hurt(raw)
  PROVE  bytes \in Bytes
<1>1. Len(raw) \in Nat /\ \A k \in 1 .. Len(raw) : raw[k] \in ByteRange
  BY DEF Bytes
<1>2. ASSUME NEW i \in 1 .. Len(raw)
      PROVE  SubSeq(raw, 1, i - 1) \o SubSeq(raw, i + 1, Len(raw)) \in Bytes
  <2>1. i - 1 \in Int /\ i + 1 \in Int /\ Len(raw) \in Int /\ 1 \in Int
    BY <1>1
  <2>2. SubSeq(raw, 1, i - 1) \in Seq(ByteRange)
    <3> DEFINE m == i - 1
    <3>1. m \in Int /\ \A k \in 1 .. m : raw[k] \in ByteRange
      BY <1>1
    <3> HIDE DEF m
    <3>2. SubSeq(raw, 1, m) \in Seq(ByteRange)
      BY <3>1, SubSeqProperties
    <3> QED BY <3>2 DEF m
  <2>3. SubSeq(raw, i + 1, Len(raw)) \in Seq(ByteRange)
    <3> DEFINE m == i + 1
    <3>1. m \in Int /\ Len(raw) \in Int /\ \A k \in m .. Len(raw) : raw[k] \in ByteRange
      BY <1>1
    <3> HIDE DEF m
    <3>2. SubSeq(raw, m, Len(raw)) \in Seq(ByteRange)
      BY <3>1, SubSeqProperties
    <3> QED BY <3>2 DEF m
  <2> QED BY <2>2, <2>3, ConcatProperties DEF Bytes
<1>3. ASSUME NEW i \in 1 .. Len(raw), NEW x \in {SOF, MAX_PAYLOAD} PROVE [raw EXCEPT ![i] = x] \in Bytes
  <2>1. x \in ByteRange
    BY DEF SOF, MAX_PAYLOAD, ByteRange
  <2> QED BY <2>1, ExceptSeq DEF Bytes
<1>4. PICK i \in 1 .. Len(raw) :
        bytes \in {SubSeq(raw, 1, i - 1) \o SubSeq(raw, i + 1, Len(raw)),
                  [raw EXCEPT ![i] = SOF], [raw EXCEPT ![i] = MAX_PAYLOAD]}
  BY DEF Hurt
<1> QED BY <1>2, <1>3, <1>4

-----------------------------------------------------------------------------
(* One call is owed for every clear at most, and one while a drawing is    *)
(* scheduled; panels to draw exist only while one is.                      *)
Owed ==
  /\ callbacks <= clears + (IF scheduled THEN 1 ELSE 0)
  /\ scheduled => callbacks > 0
  /\ pending # {} => scheduled
Entries ==
  [kind : Catalog \cup Usual, key : Keys, ts : ByteRange, raw : Bytes, start : Nat,
   fate : {"whole", "hurt", "skipped"}]
ScreenInv == TypeOK /\ frames \in Seq(Entries) /\ IsStore(store) /\ Owed /\ ScreenFresh

LEMMA EmptyIs ==
  IsStore(EmptyStore) /\ EmptyStore.ask = {} /\ DOMAIN EmptyStore = Fields /\ EmptyStore.seen = <<>>
<1>1. EmptyStore.ask = {} /\ EmptyStore.seen = <<>>
  BY DEF EmptyStore
<1>2. DOMAIN EmptyStore = Fields
  BY PanelsAre, FieldsAre DEF EmptyStore
<1>3. EmptyStore = [f \in DOMAIN EmptyStore |-> EmptyStore[f]]
  BY DEF EmptyStore
<1>4. <<>> \in Seq(Seq(ByteRange)) /\ {} \subseteq Panels
  OBVIOUS
<1> QED BY <1>1, <1>2, <1>3, <1>4 DEF IsStore

LEMMA StoreDomain ==
  ASSUME NEW d, IsStore(d)
  PROVE  DOMAIN d = DOMAIN EmptyStore
<1>1. d = [f \in Fields |-> d[f]]
  BY DEF IsStore
<1>2. DOMAIN d = Fields
  BY <1>1
<1> QED BY <1>2, EmptyIs

LEMMA InitScreen ==
  ASSUME Init
  PROVE  ScreenInv
<1>1. TypeOK
  <2>1. MaxClears \in Nat
    BY ViewerAssumption
  <2>2. <<>> \in Seq(ByteRange) /\ Len(<<>>) = 0
    OBVIOUS
  <2>3. 0 \in 0 .. 0 /\ 0 \in 0 .. MaxClears /\ 0 \in 0 .. MaxClears + 1
    BY <2>1
  <2>4. DOMAIN store = DOMAIN EmptyStore /\ store.ask = {}
    BY EmptyIs DEF Init
  <2> QED BY <2>2, <2>3, <2>4 DEF Init, TypeOK
<1>2. IsStore(store) /\ Owed /\ ScreenFresh
  BY EmptyIs DEF Init, Owed, ScreenFresh
<1>3. frames \in Seq(Entries)
  BY DEF Init
<1> QED BY <1>1, <1>2, <1>3 DEF ScreenInv

(* What a chunk of n bytes does.                                           *)
LEMMA ReceiveScreen ==
  ASSUME ScreenInv, NEW n \in Nat, taken + n <= Len(stream), Receive(n)
  PROVE  ScreenInv'
<1> DEFINE bytes == SubSeq(stream, taken + 1, taken + n)
           p == parseAvailableFrames(rx \o bytes, store)
           z == [p.d EXCEPT !.ask = {}]
<1>1. /\ rx \in Bytes /\ stream \in Bytes /\ taken \in 0 .. Len(stream) /\ Len(stream) \in Nat
      /\ IsStore(store) /\ store.ask = {} /\ Owed /\ ScreenFresh
  BY DEF ScreenInv, TypeOK, Bytes
<1>2. bytes \in Bytes
  <2> DEFINE i == taken + 1
             j == taken + n
  <2>1. i \in Int /\ j \in Int /\ \A k \in i .. j : stream[k] \in ByteRange
    BY <1>1 DEF Bytes
  <2> HIDE DEF i, j
  <2>2. SubSeq(stream, i, j) \in Seq(ByteRange)
    BY <2>1, SubSeqProperties
  <2> QED BY <2>2 DEF i, j, Bytes
<1>3. rx \o bytes \in Bytes
  BY <1>1, <1>2, ConcatProperties DEF Bytes
<1>4. /\ rx' = p.rx /\ store' = z /\ Requested(p.d.ask) /\ behind' = behind \cup Changed(p.d)
      /\ taken' = taken + n /\ UNCHANGED <<frames, stream, base, paused, clears>>
  BY DEF Receive, appendRxBytes
<1> HIDE DEF bytes
<1>5. /\ p.rx \in Bytes /\ IsStore(p.d) /\ "counters" \in p.d.ask /\ IsStore(z) /\ z.ask = {}
      /\ \A q \in Panels : Content(p.d, q) # Content(store, q) =>
              q \in p.d.ask \/ (q = "logic_analyzer" /\ HeaderNotDrawn(z))
      /\ HeaderNotDrawn(store) => "logic_analyzer" \in p.d.ask \/ HeaderNotDrawn(z)
  BY <1>1, <1>3, ParseDoes
<1> HIDE DEF p, z
<1>6. p.d.ask \subseteq Panels /\ p.d.ask # {}
  BY <1>5 DEF IsStore
<1>7. \/ paused /\ UNCHANGED <<pending, scheduled, callbacks>>
      \/ /\ ~paused /\ pending' = pending \cup p.d.ask /\ scheduled' = TRUE
         /\ callbacks' = IF scheduled THEN callbacks ELSE callbacks + 1
  BY <1>4, <1>6 DEF Requested
<1>8. /\ behind \subseteq Panels /\ pending \subseteq Panels /\ paused \in BOOLEAN /\ scheduled \in BOOLEAN
      /\ callbacks \in 0 .. MaxClears + 1 /\ clears \in 0 .. MaxClears /\ base \in 0 .. taken /\ MaxClears \in Nat
  BY ViewerAssumption DEF ScreenInv, TypeOK
<1>9. Owed'
  BY <1>1, <1>4, <1>7, <1>8 DEF Owed
<1>10. TypeOK'
  <2>1. rx' \in Seq(ByteRange) /\ stream' \in Seq(ByteRange)
    BY <1>1, <1>4, <1>5 DEF Bytes
  <2>2. base' \in 0 .. taken' /\ taken' \in 0 .. Len(stream')
    BY <1>1, <1>4, <1>8
  <2>3. DOMAIN store' = DOMAIN EmptyStore /\ store'.ask = {}
    BY <1>4, <1>5, StoreDomain
  <2>4. behind' \subseteq Panels /\ pending' \subseteq Panels
    BY <1>4, <1>6, <1>7, <1>8 DEF Changed
  <2>5. paused' \in BOOLEAN /\ scheduled' \in BOOLEAN /\ clears' \in 0 .. MaxClears
    BY <1>4, <1>7, <1>8
  <2>6. callbacks' \in 0 .. MaxClears + 1
    BY <1>1, <1>4, <1>7, <1>8 DEF Owed
  <2> QED BY <2>1, <2>2, <2>3, <2>4, <2>5, <2>6 DEF TypeOK
<1>11. ScreenFresh'
  <2> SUFFICES ASSUME NEW q \in behind', ~paused
               PROVE  \/ q \in pending' /\ callbacks' > 0
                      \/ q = "logic_analyzer" /\ HeaderNotDrawn(store')
    BY <1>4 DEF ScreenFresh
  <2>1. pending' = pending \cup p.d.ask /\ callbacks' > 0
    BY <1>1, <1>7, <1>8 DEF Owed
  <2>2. CASE q \in behind
    <3>1. q \in pending \/ (q = "logic_analyzer" /\ HeaderNotDrawn(store))
      BY <1>1, <2>2 DEF ScreenFresh
    <3> QED BY <1>4, <1>5, <2>1, <3>1
  <2>3. CASE q \in Changed(p.d)
    <3>1. q \in Panels /\ Content(p.d, q) # Content(store, q)
      BY <2>3 DEF Changed
    <3> QED BY <1>4, <1>5, <2>1, <3>1
  <2> QED BY <1>4, <2>2, <2>3
<1>12. IsStore(store')
  BY <1>4, <1>5
<1> QED BY <1>4, <1>9, <1>10, <1>11, <1>12 DEF ScreenInv

LEMMA NowIs ==
  ASSUME Len(frames) \in Nat
  PROVE  Now \in ByteRange
<1>1. \A n \in Nat : n % 64 \in 0 .. 63
  OBVIOUS
<1>2. 61 + Len(frames) \in Nat
  OBVIOUS
<1>3. (61 + Len(frames)) % 64 \in 0 .. 63
  BY <1>1, <1>2
<1> QED BY <1>3 DEF Now, ByteRange

(* What the FPGA sends is frames, whole or hurt.                           *)
LEMMA SendAdds ==
  ASSUME frames \in Seq(Entries), stream \in Bytes, Send
  PROVE  \E kind \in Catalog, key \in Keys, raw \in Bytes, bytes \in Bytes :
           /\ raw \in RawFrames(kind, key)
           /\ stream' = stream \o bytes
           /\ \/ bytes = raw /\ frames' = Append(frames, Entry(kind, key, raw, "whole"))
              \/ /\ bytes \in Hurt(raw) /\ kind \in Usual
                 /\ frames' = Append(frames, Entry(kind, key, raw, "hurt"))
           /\ UNCHANGED viewerVars
<1>1. PICK kind, key, raw :
        /\ kind \in Catalog /\ key \in Keys /\ raw \in RawFrames(kind, key)
        /\ \/ stream' = stream \o raw /\ frames' = Append(frames, Entry(kind, key, raw, "whole"))
           \/ /\ kind \in Usual
              /\ \E bytes \in Hurt(raw) \ {raw} : stream' = stream \o bytes
              /\ frames' = Append(frames, Entry(kind, key, raw, "hurt"))
        /\ UNCHANGED viewerVars
  BY DEF Send
<1>2. raw \in Bytes
  BY <1>1, RawFramesAre
<1>3. \A bytes \in Hurt(raw) : bytes \in Bytes
  BY <1>2, HurtIs
<1> QED BY <1>1, <1>2, <1>3

LEMMA EntryIs ==
  ASSUME frames \in Seq(Entries), stream \in Bytes,
         NEW kind \in Catalog \cup Usual, NEW key \in Keys, NEW raw \in Bytes, NEW fate \in {"whole", "hurt", "skipped"}
  PROVE  Entry(kind, key, raw, fate) \in Entries
<1>1. Len(stream) \in Nat /\ Len(frames) \in Nat
  BY DEF Bytes
<1> QED BY <1>1, NowIs DEF Entry, Entries

LEMMA NextScreen ==
  ASSUME ScreenInv, [Next]_vars
  PROVE  ScreenInv'
<1>1. /\ rx \in Seq(ByteRange) /\ stream \in Seq(ByteRange) /\ base \in 0 .. taken /\ taken \in 0 .. Len(stream)
      /\ DOMAIN store = DOMAIN EmptyStore /\ store.ask = {}
      /\ behind \subseteq Panels /\ pending \subseteq Panels /\ paused \in BOOLEAN /\ scheduled \in BOOLEAN
      /\ callbacks \in 0 .. MaxClears + 1 /\ clears \in 0 .. MaxClears
      /\ IsStore(store) /\ Owed /\ ScreenFresh /\ frames \in Seq(Entries) /\ MaxClears \in Nat
      /\ Len(stream) \in Nat
  BY ViewerAssumption DEF ScreenInv, TypeOK
<1>2. \A x \in Entries : Append(frames, x) \in Seq(Entries)
  BY <1>1, AppendProperties
<1>3. ASSUME UNCHANGED viewerVars, frames' \in Seq(Entries), stream' \in Bytes, Len(stream') >= Len(stream)
      PROVE  ScreenInv'
  <2>1. taken' \in 0 .. Len(stream')
    BY <1>1, <1>3 DEF viewerVars, Bytes
  <2>2. stream' \in Seq(ByteRange)
    BY <1>3 DEF Bytes
  <2>3. TypeOK'
    BY <1>1, <1>3, <2>1, <2>2 DEF viewerVars, TypeOK
  <2>4. IsStore(store') /\ Owed' /\ ScreenFresh'
    BY <1>1, <1>3 DEF viewerVars, Owed, ScreenFresh
  <2> QED BY <1>3, <2>3, <2>4 DEF ScreenInv
<1>4. CASE Send
  <2>1. PICK kind \in Catalog, key \in Keys, raw \in Bytes, bytes \in Bytes :
           /\ raw \in RawFrames(kind, key)
           /\ stream' = stream \o bytes
           /\ \/ bytes = raw /\ frames' = Append(frames, Entry(kind, key, raw, "whole"))
              \/ /\ bytes \in Hurt(raw) /\ kind \in Usual
                 /\ frames' = Append(frames, Entry(kind, key, raw, "hurt"))
           /\ UNCHANGED viewerVars
    BY <1>1, <1>4, SendAdds DEF Bytes
  <2>2. stream' \in Bytes /\ Len(stream') >= Len(stream)
    BY <1>1, <2>1, ConcatProperties DEF Bytes
  <2>3. Entry(kind, key, raw, "whole") \in Entries /\ Entry(kind, key, raw, "hurt") \in Entries
    BY <1>1, <2>1, EntryIs DEF Bytes
  <2>4. frames' \in Seq(Entries)
    BY <1>2, <2>1, <2>3
  <2> QED BY <1>3, <2>1, <2>2, <2>4
<1>5. CASE Skip
  <2>1. PICK kind \in Usual, key \in Keys : frames' = Append(frames, Entry(kind, key, <<>>, "skipped"))
    BY <1>5 DEF Skip
  <2>2. <<>> \in Bytes
    BY DEF Bytes
  <2>3. Entry(kind, key, <<>>, "skipped") \in Entries
    BY <1>1, <2>2, EntryIs DEF Bytes
  <2>4. frames' \in Seq(Entries)
    BY <1>2, <2>1, <2>3
  <2>5. stream' = stream /\ UNCHANGED viewerVars
    BY <1>5 DEF Skip
  <2>6. stream' \in Bytes /\ Len(stream') >= Len(stream)
    BY <1>1, <2>5 DEF Bytes
  <2> QED BY <1>3, <2>4, <2>5, <2>6
<1>6. ASSUME NEW n \in Chunks, taken + n < Len(stream), Receive(n)
      PROVE  ScreenInv'
  <2>1. n \in Nat /\ taken + n <= Len(stream)
    BY <1>1, <1>6, ViewerAssumption
  <2> QED BY <1>6, <2>1, ReceiveScreen
<1>7. CASE taken < Len(stream) /\ Receive(Len(stream) - taken)
  <2>1. Len(stream) - taken \in Nat /\ taken + (Len(stream) - taken) <= Len(stream)
    BY <1>1, <1>7
  <2> QED BY <1>7, <2>1, ReceiveScreen
<1>8. CASE flushRender
  <2>1. Owed'
    BY <1>1, <1>8 DEF flushRender, Owed
  <2>2. TypeOK'
    <3>1. callbacks' \in 0 .. MaxClears + 1 /\ behind' \subseteq Panels
      BY <1>1, <1>8 DEF flushRender
    <3> QED BY <1>1, <1>8, <3>1 DEF flushRender, TypeOK
  <2>3. ScreenFresh'
    BY <1>1, <1>8 DEF flushRender, ScreenFresh
  <2> QED BY <1>1, <1>8, <2>1, <2>2, <2>3 DEF flushRender, ScreenInv
<1>9. CASE setPaused(~paused)
  <2>1. Owed' /\ TypeOK'
    BY <1>1, <1>9 DEF setPaused, Owed, TypeOK
  <2>2. ScreenFresh'
    BY <1>1, <1>9 DEF setPaused, ScreenFresh
  <2> QED BY <1>1, <1>9, <2>1, <2>2 DEF setPaused, ScreenInv
<1>10. CASE clearAll
  <2>1. Owed'
    BY <1>1, <1>10 DEF clearAll, Owed
  <2>2. <<>> \in Seq(ByteRange) /\ callbacks' \in 0 .. MaxClears + 1 /\ clears' \in 0 .. MaxClears
        /\ base' \in 0 .. taken'
    BY <1>1, <1>10 DEF clearAll, Owed
  <2>3. TypeOK'
    BY <1>1, <1>10, <2>2, EmptyIs DEF clearAll, TypeOK
  <2>4. ScreenFresh' /\ IsStore(store') /\ frames' = frames
    BY <1>10, EmptyIs DEF clearAll, ScreenFresh
  <2> QED BY <1>1, <2>1, <2>3, <2>4 DEF ScreenInv
<1>11. CASE UNCHANGED vars
  BY <1>1, <1>3, <1>11 DEF vars, viewerVars, Bytes
<1> QED BY <1>4, <1>5, <1>6, <1>7, <1>8, <1>9, <1>10, <1>11 DEF Next

(* However chunks, clicks and the calls of the browser are mixed: each     *)
(* variable keeps a value of its kind, and panels are to be drawn only     *)
(* while a call of flushRender is owed.                                    *)
THEOREM ViewerTypeCorrect == Spec => []TypeOK
<1>1. Init => ScreenInv
  BY InitScreen
<1>2. ScreenInv /\ [Next]_vars => ScreenInv'
  BY NextScreen
<1>3. ScreenInv => TypeOK
  BY DEF ScreenInv
<1> QED BY <1>1, <1>2, <1>3, PTL DEF Spec

(* A panel whose data changed is drawn soon, for every frame that can come *)
(* and every order of chunks, pauses, clears and calls of flushRender; but *)
(* a header of the logic analyzer waits for the next of its frames.        *)
THEOREM ScreenIsFresh == Spec => []ScreenFresh
<1>1. Init => ScreenInv
  BY InitScreen
<1>2. ScreenInv /\ [Next]_vars => ScreenInv'
  BY NextScreen
<1>3. ScreenInv => ScreenFresh
  BY DEF ScreenInv
<1> QED BY <1>1, <1>2, <1>3, PTL DEF Spec

LEMMA TakesIs ==
  ASSUME NEW r \in Bytes, ~Waits(r)
  PROVE  Len(r) \in Nat /\ Len(r) >= 5 /\ Takes(r) \in 1 .. Len(r) /\ Takes(r) \in 0 .. Len(r) /\ Takes(r) <= 5 + MAX_PAYLOAD
<1>1. Len(r) \in Nat
  BY DEF Bytes
<1>2. Takes(r) \in 1 .. Len(r) /\ Len(r) >= 5 /\ Takes(r) <= 5 + MAX_PAYLOAD
  <2>1. \A d : Takes(r) \in 1 .. Len(r) /\ Len(r) >= 5 /\ Takes(r) <= 5 + MAX_PAYLOAD
    BY StepIs
  <2> QED BY <2>1
<1> QED BY <1>1, <1>2

-----------------------------------------------------------------------------
(* The loop on bytes a followed by bytes b goes on from what it made of a. *)
ConcatFor(m) ==
  \A a, b \in Bytes : \A d : Len(a) <= m => Result(a \o b, d) = Result(Result(a, d).rx \o b, Result(a, d).d)

LEMMA ResultConcat ==
  \A m \in Nat : ConcatFor(m)
<1> DEFINE T == {m \in Nat : ConcatFor(m)}
<1>0. ASSUME NEW a \in Bytes, NEW b \in Bytes, NEW d, Waits(a)
      PROVE  Result(a \o b, d) = Result(Result(a, d).rx \o b, Result(a, d).d)
  BY <1>0, ResultIs DEF At0
<1>1. 0 \in T
  <2>1. ASSUME NEW w \in Bytes, Len(w) <= 0 PROVE Waits(w)
    BY <2>1 DEF Waits, Bytes
  <2>2. ConcatFor(0)
    BY <1>0, <2>1 DEF ConcatFor
  <2> QED BY <2>2
<1>2. \A m \in Nat : m \in T => m + 1 \in T
  <2> TAKE m \in Nat
  <2> HAVE m \in T
  <2>1. ASSUME NEW a \in Bytes, NEW b \in Bytes, NEW d, Len(a) <= m + 1, ~Waits(a)
        PROVE  Result(a \o b, d) = Result(Result(a, d).rx \o b, Result(a, d).d)
    <3> DEFINE t == Takes(a)
               e == After(a, d)
               r == From(a, t)
    <3>1. t \in 1 .. Len(a) /\ t \in 0 .. Len(a) /\ Len(a) >= 5 /\ Len(a) \in Nat
      BY <2>1, TakesIs
    <3>2. r \in Bytes /\ Len(r) = Len(a) - t
      BY <3>1, FromIs
    <3>3. Result(a, d) = Result(r, e)
      BY <2>1, ResultIs
    <3>4. ~Waits(a \o b) /\ Takes(a \o b) = t /\ After(a \o b, d) = e
      BY <2>1, MoreBehind
    <3>5. a \o b \in Bytes
      BY ConcatProperties DEF Bytes
    <3>6. Result(a \o b, d) = Result(From(a \o b, t), e)
      BY <3>4, <3>5, ResultIs
    <3>7. From(a \o b, t) = r \o b
      BY <3>1, FromConcat
    <3> HIDE DEF e, r
    <3>8. Len(r) <= m
      BY <2>1, <3>1, <3>2
    <3>9. Result(r \o b, e) = Result(Result(r, e).rx \o b, Result(r, e).d)
      BY <3>2, <3>8 DEF ConcatFor
    <3> QED BY <3>3, <3>6, <3>7, <3>9
  <2>2. ConcatFor(m + 1)
    BY <1>0, <2>1 DEF ConcatFor
  <2> QED BY <2>2
<1> HIDE DEF T
<1>3. Nat \subseteq T
  BY <1>1, <1>2, NatSetInduction
<1> QED BY <1>3 DEF T

(* The loop keeps twins.                                                   *)
TwinsFor(m) ==
  \A w \in Bytes : \A d, e : Len(w) <= m /\ Twins(d, e) =>
    Result(w, d).rx = Result(w, e).rx /\ Twins(Result(w, d).d, Result(w, e).d)

LEMMA ResultTwins ==
  \A m \in Nat : TwinsFor(m)
<1> DEFINE T == {m \in Nat : TwinsFor(m)}
<1>0. ASSUME NEW w \in Bytes, NEW d, NEW e, Waits(w), Twins(d, e)
      PROVE  Result(w, d).rx = Result(w, e).rx /\ Twins(Result(w, d).d, Result(w, e).d)
  <2>1. Result(w, d) = At0(w, d) /\ Result(w, e) = At0(w, e)
    BY <1>0, ResultIs
  <2> QED BY <1>0, <2>1 DEF At0
<1>1. 0 \in T
  <2>1. ASSUME NEW w \in Bytes, Len(w) <= 0 PROVE Waits(w)
    BY <2>1 DEF Waits, Bytes
  <2>2. TwinsFor(0)
    BY <1>0, <2>1 DEF TwinsFor
  <2> QED BY <2>2
<1>2. \A m \in Nat : m \in T => m + 1 \in T
  <2> TAKE m \in Nat
  <2> HAVE m \in T
  <2>1. ASSUME NEW w \in Bytes, NEW d, NEW e, Len(w) <= m + 1, Twins(d, e), ~Waits(w)
        PROVE  Result(w, d).rx = Result(w, e).rx /\ Twins(Result(w, d).d, Result(w, e).d)
    <3> DEFINE r == From(w, Takes(w))
    <3>1. Takes(w) \in 1 .. Len(w) /\ Takes(w) \in 0 .. Len(w) /\ Len(w) \in Nat
      BY <2>1, TakesIs
    <3>2. r \in Bytes /\ Len(r) = Len(w) - Takes(w)
      BY <3>1, FromIs
    <3>3. Result(w, d) = Result(r, After(w, d)) /\ Result(w, e) = Result(r, After(w, e))
      BY <2>1, ResultIs
    <3>4. Twins(After(w, d), After(w, e))
      BY <2>1, AfterTwins
    <3> HIDE DEF r
    <3>5. Len(r) <= m
      BY <2>1, <3>1, <3>2
    <3> QED BY <3>2, <3>3, <3>4, <3>5 DEF TwinsFor
  <2>2. TwinsFor(m + 1)
    BY <1>0, <2>1 DEF TwinsFor
  <2> QED BY <2>2
<1> HIDE DEF T
<1>3. Nat \subseteq T
  BY <1>1, <1>2, NatSetInduction
<1> QED BY <1>3 DEF T

(* What the loop made of bytes and a store.                                *)
LEMMA ResultType ==
  ASSUME NEW w \in Bytes, NEW d, IsStore(d)
  PROVE  Result(w, d).rx \in Bytes /\ IsStore(Result(w, d).d) /\ Result(w, d) = At0(Result(w, d).rx, Result(w, d).d)
<1>1. PICK i, e : i \in 0 .. Len(w) /\ Result(w, d) = At0(From(w, i), e) /\ Drawn(d, e)
  BY LoopDraws
<1> QED BY <1>1, FromIs DEF At0, Drawn

(* The end of an event: what was asked for is forgotten.                   *)
LEMMA CountersTwins ==
  ASSUME NEW d, IsStore(d)
  PROVE  Twins([requestRender(d, "counters") EXCEPT !.ask = {}], d)
<1> DEFINE e == requestRender(d, "counters")
           z == [e EXCEPT !.ask = {}]
<1>1. Does(d, e, {}, {"counters"})
  BY AskDoes DEF Panels
<1>2. IsStore(e) /\ e.seen = d.seen /\ \A f \in DOMAIN PanelOf : e[f] = d[f]
  BY <1>1 DEF Does
<1> HIDE DEF e
<1>3. z = [f \in Fields |-> IF f = "ask" THEN {} ELSE e[f]]
  BY <1>2, FieldsAre DEF IsStore
<1> HIDE DEF z
<1>4. z = [f \in Fields |-> z[f]] /\ z.ask = {} /\ z.seen = e.seen
  BY <1>3, FieldsAre
<1>5. \A f \in Fields \ {"ask"} : z[f] = e[f] /\ e[f] = d[f]
  BY <1>2, <1>3, FieldsAre
<1>6. Twins(z, d)
  BY <1>2, <1>4, <1>5 DEF IsStore, Twins, Same
<1> QED BY <1>6 DEF z, e

LEMMA TwinsEqual ==
  ASSUME NEW d, NEW e, Twins(d, e), d.ask = e.ask
  PROVE  d = e
<1>1. d = [f \in Fields |-> d[f]] /\ e = [f \in Fields |-> e[f]]
  BY DEF Twins, IsStore
<1>2. \A f \in Fields : d[f] = e[f]
  BY DEF Twins, Same
<1> QED BY <1>1, <1>2

LEMMA TwinsOf ==
  /\ \A d, e : Twins(d, e) => Twins(e, d)
  /\ \A c, d, e : Twins(c, d) /\ Twins(d, e) => Twins(c, e)
BY DEF Twins, Same

-----------------------------------------------------------------------------
(* The bytes read since the viewer was cleared.                            *)
Arrived == SubSeq(stream, base + 1, taken)
ChunkInv ==
  /\ rx = Result(Arrived, EmptyStore).rx
  /\ Twins(store, Result(Arrived, EmptyStore).d)

LEMMA SliceIs ==
  ASSUME NEW w \in Bytes, NEW i \in Nat, NEW j \in Nat, i <= j, j <= Len(w)
  PROVE  /\ SubSeq(w, i + 1, j) \in Bytes /\ Len(SubSeq(w, i + 1, j)) = j - i
         /\ \A k \in 1 .. j - i : SubSeq(w, i + 1, j)[k] = w[i + k]
<1> DEFINE m == i + 1
<1>1. m \in Int /\ j \in Int /\ Len(w) \in Nat
  BY DEF Bytes
<1>2. \A k \in m .. j : w[k] \in ByteRange
  BY <1>1 DEF Bytes
<1> HIDE DEF m
<1>3. /\ SubSeq(w, m, j) \in Seq(ByteRange)
      /\ Len(SubSeq(w, m, j)) = IF m <= j THEN j - m + 1 ELSE 0
      /\ \A k \in 1 .. j - m + 1 : SubSeq(w, m, j)[k] = w[m + k - 1]
  BY <1>1, <1>2, SubSeqProperties
<1>4. m = i + 1
  BY DEF m
<1>5. Len(SubSeq(w, m, j)) = j - i
  BY <1>3, <1>4
<1>6. \A k \in 1 .. j - i : SubSeq(w, m, j)[k] = w[i + k]
  <2> TAKE k \in 1 .. j - i
  <2>1. k \in 1 .. j - m + 1 /\ m + k - 1 = i + k
    BY <1>4
  <2> QED BY <1>3, <2>1
<1> QED BY <1>3, <1>4, <1>5, <1>6 DEF Bytes

LEMMA SliceJoin ==
  ASSUME NEW w \in Bytes, NEW i \in Nat, NEW j \in Nat, NEW n \in Nat, i <= j, j + n <= Len(w)
  PROVE  SubSeq(w, i + 1, j + n) = SubSeq(w, i + 1, j) \o SubSeq(w, j + 1, j + n)
<1> DEFINE a == SubSeq(w, i + 1, j)
           b == SubSeq(w, j + 1, j + n)
           c == SubSeq(w, i + 1, j + n)
<1>0. Len(w) \in Nat /\ j + n \in Nat /\ i <= j + n /\ j <= Len(w) /\ j <= j + n
  BY DEF Bytes
<1>1. a \in Bytes /\ Len(a) = j - i /\ \A k \in 1 .. j - i : a[k] = w[i + k]
  BY <1>0, SliceIs
<1>2. b \in Bytes /\ Len(b) = j + n - j /\ \A k \in 1 .. j + n - j : b[k] = w[j + k]
  BY <1>0, SliceIs
<1>3. c \in Bytes /\ Len(c) = j + n - i /\ \A k \in 1 .. j + n - i : c[k] = w[i + k]
  BY <1>0, SliceIs
<1> HIDE DEF a, b, c
<1>4. a \o b \in Bytes /\ Len(a \o b) = Len(a) + Len(b)
      /\ \A k \in 1 .. Len(a) + Len(b) : (a \o b)[k] = IF k <= Len(a) THEN a[k] ELSE b[k - Len(a)]
  BY <1>1, <1>2, ConcatProperties DEF Bytes
<1>5. ASSUME NEW k \in 1 .. Len(c) PROVE c[k] = (a \o b)[k]
  <2>1. k \in 1 .. Len(a) + Len(b) /\ k \in 1 .. j + n - i
    BY <1>1, <1>2, <1>3
  <2>2. CASE k <= Len(a)
    <3>1. k \in 1 .. j - i
      BY <1>1, <2>1, <2>2
    <3>2. a[k] = w[i + k]
      BY <1>1, <3>1
    <3>3. c[k] = w[i + k]
      BY <1>3, <2>1
    <3>4. (a \o b)[k] = a[k]
      BY <1>4, <2>1, <2>2
    <3> QED BY <3>2, <3>3, <3>4
  <2>3. CASE k > Len(a)
    <3>1. k - Len(a) \in 1 .. j + n - j /\ j + (k - Len(a)) = i + k
      BY <1>1, <1>2, <2>1, <2>3
    <3>2. b[k - Len(a)] = w[i + k]
      BY <1>2, <3>1
    <3>3. c[k] = w[i + k]
      BY <1>3, <2>1
    <3>4. (a \o b)[k] = b[k - Len(a)]
      <4>1. ~(k <= Len(a))
        BY <1>1, <2>1, <2>3
      <4> QED BY <1>4, <2>1, <4>1
    <3> QED BY <3>2, <3>3, <3>4
  <2> QED BY <1>1, <2>1, <2>2, <2>3
<1>6. Len(c) = Len(a \o b)
  BY <1>1, <1>2, <1>3, <1>4
<1>7. c = a \o b
  BY <1>3, <1>4, <1>5, <1>6, BytesEqual
<1> QED BY <1>7 DEF a, b, c

LEMMA SliceOfMore ==
  ASSUME NEW w \in Bytes, NEW v \in Bytes, NEW i \in Nat, NEW j \in Nat, i <= j, j <= Len(w)
  PROVE  SubSeq(w \o v, i + 1, j) = SubSeq(w, i + 1, j)
<1>1. w \o v \in Bytes /\ Len(w \o v) = Len(w) + Len(v) /\ Len(v) \in Nat /\ Len(w) \in Nat
      /\ \A k \in 1 .. Len(w) : (w \o v)[k] = w[k]
  BY ConcatProperties DEF Bytes
<1>2. j <= Len(w \o v)
  BY <1>1
<1>3. /\ SubSeq(w, i + 1, j) \in Bytes /\ Len(SubSeq(w, i + 1, j)) = j - i
      /\ \A k \in 1 .. j - i : SubSeq(w, i + 1, j)[k] = w[i + k]
  BY SliceIs
<1>4. /\ SubSeq(w \o v, i + 1, j) \in Bytes /\ Len(SubSeq(w \o v, i + 1, j)) = j - i
      /\ \A k \in 1 .. j - i : SubSeq(w \o v, i + 1, j)[k] = (w \o v)[i + k]
  BY <1>1, <1>2, SliceIs
<1>5. \A k \in 1 .. j - i : i + k \in 1 .. Len(w)
  BY <1>1
<1> QED BY <1>1, <1>3, <1>4, <1>5, BytesEqual

LEMMA ReceiveChunk ==
  ASSUME ScreenInv, ChunkInv, NEW n \in Nat, taken + n <= Len(stream), Receive(n)
  PROVE  ChunkInv'
<1> DEFINE bytes == SubSeq(stream, taken + 1, taken + n)
           R == Result(Arrived, EmptyStore)
           p == parseAvailableFrames(rx \o bytes, store)
           N == Result(rx \o bytes, store)
<1>1. /\ rx \in Bytes /\ stream \in Bytes /\ taken \in Nat /\ taken <= Len(stream) /\ base \in Nat /\ base <= taken
      /\ IsStore(store)
  BY DEF ScreenInv, TypeOK, Bytes
<1>2. bytes \in Bytes /\ Arrived \in Bytes
  <2>1. taken + n \in Nat /\ taken <= taken + n
    BY <1>1
  <2>2. bytes \in Bytes
    BY <1>1, <2>1, SliceIs
  <2> QED BY <1>1, <2>2, SliceIs DEF Arrived
<1>3. rx \o bytes \in Bytes
  BY <1>1, <1>2, ConcatProperties DEF Bytes
<1>4. rx' = p.rx /\ store' = [p.d EXCEPT !.ask = {}] /\ taken' = taken + n /\ stream' = stream /\ base' = base
  BY DEF Receive, appendRxBytes
<1>5. Arrived' = Arrived \o bytes
  BY <1>1, <1>4, SliceJoin DEF Arrived
<1> HIDE DEF bytes
<1>6. p = [N EXCEPT !.d = requestRender(N.d, "counters")]
  BY ParseIs
<1>7. IsStore(N.d) /\ N = At0(N.rx, N.d)
  BY <1>1, <1>3, ResultType
<1>8. rx' = N.rx /\ store' = [requestRender(N.d, "counters") EXCEPT !.ask = {}]
  BY <1>4, <1>6, <1>7 DEF At0
<1>9. Twins(store', N.d)
  BY <1>7, <1>8, CountersTwins
<1>10. Result(Arrived \o bytes, EmptyStore) = Result(R.rx \o bytes, R.d)
  BY <1>2, ResultConcat DEF ConcatFor, Bytes
<1>11. R.rx = rx /\ Twins(store, R.d)
  BY DEF ChunkInv
<1>12. Result(rx \o bytes, R.d).rx = N.rx /\ Twins(N.d, Result(rx \o bytes, R.d).d)
  <2>2. ASSUME NEW w \in Bytes, NEW d, NEW e, Twins(d, e)
        PROVE  Result(w, d).rx = Result(w, e).rx /\ Twins(Result(w, d).d, Result(w, e).d)
    <3>1. Len(w) \in Nat /\ Len(w) <= Len(w)
      BY DEF Bytes
    <3>2. TwinsFor(Len(w))
      BY <3>1, ResultTwins
    <3> QED BY <2>2, <3>1, <3>2 DEF TwinsFor
  <2>3. Twins(R.d, store)
    BY <1>11, TwinsOf
  <2>4. Result(rx \o bytes, R.d).rx = N.rx /\ Twins(Result(rx \o bytes, R.d).d, N.d)
    BY <1>3, <2>2, <2>3
  <2> QED BY <2>4, TwinsOf
<1>13. rx' = Result(Arrived \o bytes, EmptyStore).rx /\ Twins(store', Result(Arrived \o bytes, EmptyStore).d)
  BY <1>8, <1>9, <1>10, <1>11, <1>12, TwinsOf
<1> QED BY <1>5, <1>13 DEF ChunkInv

LEMMA ArrivedEmpty ==
  Result(<<>>, EmptyStore) = At0(<<>>, EmptyStore) /\ Twins(EmptyStore, EmptyStore)
<1>1. <<>> \in Bytes /\ Waits(<<>>)
  BY DEF Bytes, Waits
<1> QED BY <1>1, ResultIs, EmptyIs DEF Twins, Same

LEMMA InitChunk ==
  ASSUME Init
  PROVE  ChunkInv
<1>1. Arrived = <<>>
  BY DEF Init, Arrived
<1>2. rx = <<>> /\ store = EmptyStore
  BY DEF Init
<1> QED BY <1>1, <1>2, ArrivedEmpty DEF ChunkInv, At0

LEMMA NextChunk ==
  ASSUME ScreenInv, ChunkInv, [Next]_vars
  PROVE  ChunkInv'
<1>1. /\ stream \in Bytes /\ taken \in Nat /\ taken <= Len(stream) /\ base \in Nat /\ base <= taken
      /\ frames \in Seq(Entries) /\ Len(stream) \in Nat
  BY DEF ScreenInv, TypeOK, Bytes
<1>2. ASSUME UNCHANGED <<rx, store, base, taken>>, NEW b \in Bytes, stream' = stream \o b
      PROVE  ChunkInv'
  <2>1. Arrived' = Arrived
    BY <1>1, <1>2, SliceOfMore DEF Arrived
  <2> QED BY <1>2, <2>1 DEF ChunkInv
<1>3. ASSUME UNCHANGED <<rx, store, base, taken, stream>>
      PROVE  ChunkInv'
  BY <1>3 DEF ChunkInv, Arrived
<1>4. CASE Send
  <2>1. PICK b \in Bytes : stream' = stream \o b /\ UNCHANGED viewerVars
    BY <1>1, <1>4, SendAdds
  <2> QED BY <1>2, <2>1 DEF viewerVars
<1>5. CASE Skip
  BY <1>3, <1>5 DEF Skip, viewerVars
<1>6. ASSUME NEW n \in Chunks, taken + n < Len(stream), Receive(n)
      PROVE  ChunkInv'
  <2>1. n \in Nat /\ taken + n <= Len(stream)
    BY <1>1, <1>6, ViewerAssumption
  <2> QED BY <1>6, <2>1, ReceiveChunk
<1>7. CASE taken < Len(stream) /\ Receive(Len(stream) - taken)
  <2>1. Len(stream) - taken \in Nat /\ taken + (Len(stream) - taken) <= Len(stream)
    BY <1>1, <1>7
  <2> QED BY <1>7, <2>1, ReceiveChunk
<1>8. CASE flushRender
  BY <1>3, <1>8 DEF flushRender
<1>9. CASE setPaused(~paused)
  BY <1>3, <1>9 DEF setPaused
<1>10. CASE clearAll
  <2>1. base' = taken /\ taken' = taken /\ stream' = stream /\ rx' = <<>> /\ store' = EmptyStore
    BY <1>10 DEF clearAll
  <2>2. SubSeq(stream, taken + 1, taken) = <<>>
    <3>1. SubSeq(stream, taken + 1, taken) \in Bytes /\ Len(SubSeq(stream, taken + 1, taken)) = taken - taken
      <4>1. taken <= taken
        BY <1>1
      <4> QED BY <1>1, <4>1, SliceIs
    <3>2. Len(SubSeq(stream, taken + 1, taken)) = 0
      BY <1>1, <3>1
    <3> QED BY <3>1, <3>2, EmptySeq DEF Bytes
  <2>3. Arrived' = <<>>
    BY <2>1, <2>2 DEF Arrived
  <2> QED BY <2>1, <2>3, ArrivedEmpty DEF ChunkInv, At0
<1>11. CASE UNCHANGED vars
  BY <1>3, <1>11 DEF vars
<1> QED BY <1>4, <1>5, <1>6, <1>7, <1>8, <1>9, <1>10, <1>11 DEF Next

LEMMA ChunksInvisible ==
  ASSUME ScreenInv, ChunkInv
  PROVE  ChunkingInvisible
<1> DEFINE R == Result(Arrived, EmptyStore)
           once == parseAvailableFrames(Arrived, EmptyStore)
           z == [once.d EXCEPT !.ask = {}]
<1>1. stream \in Bytes /\ taken \in Nat /\ taken <= Len(stream) /\ base \in Nat /\ base <= taken /\ store.ask = {}
  BY DEF ScreenInv, TypeOK, Bytes
<1>2. Arrived \in Bytes
  BY <1>1, SliceIs DEF Arrived
<1>3. IsStore(R.d) /\ R = At0(R.rx, R.d)
  BY <1>2, EmptyIs, ResultType
<1>4. once = [R EXCEPT !.d = requestRender(R.d, "counters")]
  BY ParseIs
<1>5. once.rx = R.rx /\ z = [requestRender(R.d, "counters") EXCEPT !.ask = {}]
  BY <1>3, <1>4 DEF At0
<1>6. Twins(z, R.d)
  BY <1>3, <1>5, CountersTwins
<1>7. Twins(store, z)
  BY <1>6, TwinsOf DEF ChunkInv
<1>8. z.ask = {}
  <2>1. requestRender(R.d, "counters") = [f \in Fields |-> IF f = "ask" THEN R.d.ask \cup {"counters"} ELSE R.d[f]]
    BY <1>3, FieldsAre DEF IsStore, requestRender
  <2> QED BY <1>5, <2>1, FieldsAre
<1>9. store = z
  BY <1>1, <1>7, <1>8, TwinsEqual
<1>10. rx = once.rx
  BY <1>5 DEF ChunkInv
<1> QED BY <1>9, <1>10 DEF ChunkingInvisible, Arrived

(* Whatever bytes come, and however they are cut: the viewer has collected *)
(* and kept what it would have if they had come at once.                   *)
THEOREM ChunksLeaveNoTrace == Spec => []ChunkingInvisible
<1>1. Init => ScreenInv /\ ChunkInv
  BY InitScreen, InitChunk
<1>2. (ScreenInv /\ ChunkInv) /\ [Next]_vars => (ScreenInv /\ ChunkInv)'
  BY NextScreen, NextChunk
<1>3. ScreenInv /\ ChunkInv => ChunkingInvisible
  BY ChunksInvisible
<1> QED BY <1>1, <1>2, <1>3, PTL DEF Spec

-----------------------------------------------------------------------------
(* A frame as the FPGA makes it is one to the parser.                      *)
Sound(raw) == raw \in Bytes /\ Len(raw) >= 5 /\ Len(raw) = 5 + raw[4] /\ Starts(raw) /\ Good(raw)

LEMMA ConcatIs ==
  ASSUME NEW a \in Bytes, NEW b \in Bytes
  PROVE  /\ a \o b \in Bytes /\ Len(a \o b) = Len(a) + Len(b)
         /\ \A k \in 1 .. Len(a) + Len(b) : (a \o b)[k] = IF k <= Len(a) THEN a[k] ELSE b[k - Len(a)]
BY ConcatProperties DEF Bytes

LEMMA SubIs ==
  ASSUME NEW w \in Bytes, NEW m \in Nat \ {0}, NEW j \in Nat, m <= j + 1, j <= Len(w)
  PROVE  /\ SubSeq(w, m, j) \in Bytes /\ Len(SubSeq(w, m, j)) = j - m + 1
         /\ \A k \in 1 .. j - m + 1 : SubSeq(w, m, j)[k] = w[m + k - 1]
<1>1. m - 1 \in Nat /\ (m - 1) + 1 = m /\ m - 1 <= j /\ j - (m - 1) = j - m + 1
  OBVIOUS
<1>2. /\ SubSeq(w, (m - 1) + 1, j) \in Bytes /\ Len(SubSeq(w, (m - 1) + 1, j)) = j - (m - 1)
      /\ \A k \in 1 .. j - (m - 1) : SubSeq(w, (m - 1) + 1, j)[k] = w[(m - 1) + k]
  BY <1>1, SliceIs
<1>3. \A k \in 1 .. j - m + 1 : (m - 1) + k = m + k - 1
  OBVIOUS
<1> QED BY <1>1, <1>2, <1>3

LEMMA FrameSound ==
  ASSUME NEW type \in ByteRange, NEW payload \in Bytes, Len(payload) \in 0 .. 3
  PROVE  LET raw == frame(type, payload) IN
         /\ Sound(raw) /\ Len(raw) = 5 + Len(payload) /\ raw[2] = VERSION /\ raw[3] = type
         /\ \A k \in 1 .. Len(payload) : raw[4 + k] = payload[k]
<1> DEFINE n == Len(payload)
           head == <<VERSION, type, n>>
           body == head \o payload
           sum == checksum(body)
           raw == frame(type, payload)
<1>1. raw \in Bytes
  BY FrameIs
<1>2. head \in Bytes /\ Len(head) = 3 /\ head[1] = VERSION /\ head[2] = type /\ head[3] = n
  <2>1. n \in ByteRange /\ VERSION \in ByteRange
    BY DEF ByteRange, VERSION
  <2> QED BY <2>1 DEF Bytes
<1>n. n \in 0 .. 3 /\ Len(payload) = n
  OBVIOUS
<1> HIDE DEF head, n
<1>3. body \in Bytes /\ Len(body) = 3 + n
      /\ \A k \in 1 .. 3 + n : body[k] = IF k <= 3 THEN head[k] ELSE payload[k - 3]
  <2>1. payload \in Bytes /\ Len(payload) = n
    BY <1>n
  <2>2. /\ head \o payload \in Bytes /\ Len(head \o payload) = Len(head) + Len(payload)
        /\ \A k \in 1 .. Len(head) + Len(payload) :
             (head \o payload)[k] = IF k <= Len(head) THEN head[k] ELSE payload[k - Len(head)]
    BY <1>2, <2>1, ConcatIs
  <2> QED BY <1>2, <2>1, <2>2
<1>4. sum \in ByteRange
  BY <1>3, ChecksumIs
<1> HIDE DEF body, sum
<1> DEFINE a == <<SOF>> \o body
<1>5. a \in Bytes /\ Len(a) = 4 + n /\ a[1] = SOF /\ \A k \in 1 .. 3 + n : a[1 + k] = body[k]
  <2>1. <<SOF>> \in Bytes /\ Len(<<SOF>>) = 1 /\ <<SOF>>[1] = SOF
    BY DEF Bytes, SOF, ByteRange
  <2>2. a \in Bytes /\ Len(a) = 1 + (3 + n)
        /\ \A k \in 1 .. 1 + (3 + n) : a[k] = IF k <= 1 THEN <<SOF>>[k] ELSE body[k - 1]
    BY <1>3, <2>1, ConcatIs
  <2>3. a[1] = SOF
    BY <2>1, <2>2
  <2>4. \A k \in 1 .. 3 + n : a[1 + k] = body[k]
    <3> TAKE k \in 1 .. 3 + n
    <3>1. 1 + k \in 1 .. 1 + (3 + n) /\ ~(1 + k <= 1) /\ (1 + k) - 1 = k
      BY <1>n
    <3> QED BY <2>2, <3>1
  <2>5. 1 + (3 + n) = 4 + n
    BY <1>n
  <2> QED BY <2>2, <2>3, <2>4, <2>5
<1>6. raw = a \o <<sum>>
  BY DEF frame, a, body, head, sum, n
<1> HIDE DEF a, raw
<1>7. Len(raw) = 5 + n /\ raw[5 + n] = sum /\ \A k \in 1 .. 4 + n : raw[k] = a[k]
  <2>1. <<sum>> \in Bytes /\ Len(<<sum>>) = 1 /\ <<sum>>[1] = sum
    BY <1>4 DEF Bytes
  <2>2. Len(raw) = (4 + n) + 1
        /\ \A k \in 1 .. (4 + n) + 1 : raw[k] = IF k <= 4 + n THEN a[k] ELSE <<sum>>[k - (4 + n)]
    BY <1>5, <1>6, <2>1, ConcatIs
  <2>3. raw[5 + n] = sum
    <3>1. 5 + n \in 1 .. (4 + n) + 1 /\ ~(5 + n <= 4 + n) /\ (5 + n) - (4 + n) = 1
      BY <1>n
    <3> QED BY <2>1, <2>2, <3>1
  <2>4. (4 + n) + 1 = 5 + n /\ \A k \in 1 .. 4 + n : k \in 1 .. (4 + n) + 1 /\ k <= 4 + n
    BY <1>n
  <2>5. \A k \in 1 .. 4 + n : raw[k] = a[k]
    BY <2>2, <2>4
  <2> QED BY <2>2, <2>3, <2>4, <2>5
<1>8. raw[1] = SOF /\ raw[2] = VERSION /\ raw[3] = type /\ raw[4] = n
  <2>1. {1, 2, 3, 4} \subseteq 1 .. 4 + n /\ {1, 2, 3} \subseteq 1 .. 3 + n
    BY <1>n
  <2>2. raw[1] = a[1] /\ \A k \in {1, 2, 3} : raw[1 + k] = a[1 + k]
    BY <1>7, <2>1
  <2>3. \A k \in {1, 2, 3} : a[1 + k] = body[k] /\ body[k] = head[k]
    BY <1>3, <1>5, <2>1
  <2>4. raw[1 + 1] = head[1] /\ raw[1 + 2] = head[2] /\ raw[1 + 3] = head[3]
    BY <2>2, <2>3
  <2> QED BY <1>2, <1>5, <2>2, <2>4
<1>9. SubSeq(raw, 2, 4 + n) = body
  <2> DEFINE j == 4 + n
             m == 2
             z == SubSeq(raw, m, j)
  <2>1. j = 4 + n /\ m = 2 /\ j \in Nat /\ m \in Nat \ {0} /\ m <= j + 1 /\ j <= Len(raw)
    BY <1>7, <1>n
  <2> HIDE DEF j, m
  <2>2. z \in Bytes /\ Len(z) = j - m + 1 /\ \A k \in 1 .. j - m + 1 : z[k] = raw[m + k - 1]
    BY <1>1, <2>1, SubIs
  <2>3. z = SubSeq(raw, 2, 4 + n)
    BY <2>1
  <2> HIDE DEF z
  <2>4. Len(z) = 3 + n /\ \A k \in 1 .. 3 + n : z[k] = raw[1 + k]
    BY <1>n, <2>1, <2>2
  <2>5. \A k \in 1 .. 3 + n : z[k] = body[k]
    <3> TAKE k \in 1 .. 3 + n
    <3>1. 1 + k \in 1 .. 4 + n
      BY <1>n
    <3> QED BY <1>5, <1>7, <2>4, <3>1
  <2> QED BY <1>1, <1>3, <1>7, <2>2, <2>3, <2>4, <2>5, BytesEqual
<1>10. SubSeq(raw, 1, 5 + n) = raw
  <2> DEFINE j == 5 + n
             m == 1
             z == SubSeq(raw, m, j)
  <2>1. j = 5 + n /\ m = 1 /\ j \in Nat /\ m \in Nat \ {0} /\ m <= j + 1 /\ j <= Len(raw)
    BY <1>7, <1>n
  <2> HIDE DEF j, m
  <2>2. z \in Bytes /\ Len(z) = j - m + 1 /\ \A k \in 1 .. j - m + 1 : z[k] = raw[m + k - 1]
    BY <1>1, <2>1, SubIs
  <2>3. z = SubSeq(raw, 1, 5 + n)
    BY <2>1
  <2> HIDE DEF z
  <2>4. Len(z) = 5 + n /\ \A k \in 1 .. 5 + n : z[k] = raw[k]
    BY <1>n, <2>1, <2>2
  <2>5. \A k \in 1 .. 5 + n : z[k] = raw[k]
    BY <2>4
  <2> QED BY <1>1, <1>3, <1>7, <2>2, <2>3, <2>4, <2>5, BytesEqual
<1>11. Good(raw)
  BY <1>7, <1>8, <1>9, <1>10 DEF Good, sum
<1>12. Starts(raw)
  BY <1>8, <1>n, PayloadIs DEF Starts
<1>13. \A k \in 1 .. n : raw[4 + k] = payload[k]
  <2> TAKE k \in 1 .. n
  <2>1. 4 + k \in 1 .. 4 + n /\ 3 + k \in 1 .. 3 + n /\ 1 + (3 + k) = 4 + k /\ ~(3 + k <= 3) /\ (3 + k) - 3 = k
    BY <1>n
  <2>2. raw[4 + k] = a[4 + k] /\ a[1 + (3 + k)] = body[3 + k] /\ body[3 + k] = payload[(3 + k) - 3]
    BY <1>3, <1>5, <1>7, <2>1
  <2> QED BY <2>1, <2>2
<1>14. Sound(raw) /\ Len(raw) = 5 + n
  BY <1>1, <1>7, <1>8, <1>11, <1>12, <1>n DEF Sound
<1> QED BY <1>8, <1>13, <1>14, <1>n DEF raw

LEMMA RawSound ==
  ASSUME Len(frames) \in Nat, NEW kind \in Catalog, NEW key \in Keys, NEW raw \in RawFrames(kind, key)
  PROVE  Sound(raw) /\ (kind \in Usual => Len(raw) = 8)
<1>1. Type[kind] \in ByteRange /\ key \in ByteRange
  BY SMTT(30), FramesAssumption DEF Type, ByteRange
<1>2. Now \in ByteRange /\ {0, SOF} \subseteq ByteRange
  BY NowIs DEF ByteRange, SOF
<1>3. ASSUME NEW arg \in {0, SOF}, raw = frame(Type[kind], <<Now, key, arg>>)
      PROVE  Sound(raw) /\ Len(raw) = 8
  <2> DEFINE payload == <<Now, key, arg>>
  <2>1. payload \in Bytes /\ Len(payload) = 3
    BY <1>1, <1>2 DEF Bytes
  <2> HIDE DEF payload
  <2>2. Sound(frame(Type[kind], payload)) /\ Len(frame(Type[kind], payload)) = 5 + Len(payload)
    <3>1. Len(payload) \in 0 .. 3
      BY <2>1
    <3> QED BY <1>1, <2>1, <3>1, FrameSound
  <2> QED BY <1>3, <2>1, <2>2 DEF payload
<1>4. ASSUME raw = frame(Type[kind], <<>>)
      PROVE  Sound(raw)
  <2>1. <<>> \in Bytes /\ Len(<<>>) \in 0 .. 3
    BY DEF Bytes
  <2> QED BY <1>1, <1>4, <2>1, FrameSound
<1> QED BY <1>3, <1>4, FramesAssumption DEF RawFrames

-----------------------------------------------------------------------------
(* Where in the stream the i-th of the frames is, and what it became.      *)
Ends(i) == IF i = Len(frames) THEN Len(stream) ELSE frames[i + 1].start
Carries(i, b) ==
  Ends(i) = frames[i].start + Len(b) /\ \A k \in 1 .. Len(b) : stream[frames[i].start + k] = b[k]
SentWell(i) ==
  /\ frames[i].start \in Nat /\ Ends(i) \in Nat /\ frames[i].start <= Ends(i) /\ Ends(i) <= Len(stream)
  /\ frames[i].fate = "skipped" => Ends(i) = frames[i].start
  /\ frames[i].fate = "whole" => Sound(frames[i].raw) /\ Carries(i, frames[i].raw)
  /\ frames[i].fate = "hurt" =>
       /\ Sound(frames[i].raw) /\ Len(frames[i].raw) = 8
       /\ \E b \in Hurt(frames[i].raw) : Carries(i, b)

(* The frames fill the stream.                                             *)
StreamInv ==
  /\ Len(frames) = 0 => Len(stream) = 0
  /\ Len(frames) > 0 => frames[1].start = 0
  /\ \A i \in 1 .. Len(frames) : SentWell(i)
  /\ \A i, j \in 1 .. Len(frames) : i < j => Ends(i) <= frames[j].start
  /\ clears = 0 => base = 0

(* A new entry f, and the bytes b that it put into the stream.             *)
LEMMA EntryAdded ==
  ASSUME StreamInv, frames \in Seq(Entries), stream \in Bytes, NEW f \in Entries, NEW b \in Bytes,
         f.start = Len(stream), frames' = Append(frames, f), stream' = stream \o b,
         clears' = clears, base' = base,
         f.fate = "skipped" => Len(b) = 0,
         f.fate = "whole" => Sound(f.raw) /\ b = f.raw,
         f.fate = "hurt" => Sound(f.raw) /\ Len(f.raw) = 8 /\ b \in Hurt(f.raw)
  PROVE  StreamInv'
<1>n. PICK n : n = Len(frames)
  OBVIOUS
<1>L. PICK L : L = Len(stream)
  OBVIOUS
<1>1. n \in Nat /\ L \in Nat /\ Len(b) \in Nat /\ Len(frames') = n + 1 /\ frames'[n + 1] = f
      /\ \A i \in 1 .. n : frames'[i] = frames[i]
  BY <1>n, <1>L DEF Bytes
<1>2. /\ stream' \in Bytes /\ Len(stream') = L + Len(b) /\ \A k \in 1 .. L : stream'[k] = stream[k]
      /\ \A k \in 1 .. Len(b) : stream'[L + k] = b[k]
  <2>1. /\ stream \o b \in Bytes /\ Len(stream \o b) = Len(stream) + Len(b)
        /\ \A k \in 1 .. Len(stream) + Len(b) : (stream \o b)[k] = IF k <= Len(stream) THEN stream[k] ELSE b[k - Len(stream)]
    BY ConcatIs
  <2>2. \A k \in 1 .. L : stream'[k] = stream[k]
    BY <1>1, <1>L, <2>1
  <2>3. \A k \in 1 .. Len(b) : stream'[L + k] = b[k]
    <3> TAKE k \in 1 .. Len(b)
    <3>1. L + k \in 1 .. Len(stream) + Len(b) /\ ~(L + k <= Len(stream)) /\ (L + k) - Len(stream) = k
      BY <1>1, <1>L
    <3> QED BY <2>1, <3>1
  <2> QED BY <1>L, <2>1, <2>2, <2>3
<1>3. \A i \in 1 .. n : Ends(i)' = Ends(i)
  <2> TAKE i \in 1 .. n
  <2>1. i # n + 1 /\ Ends(i)' = frames'[i + 1].start
    BY <1>1 DEF Ends
  <2>2. CASE i = n
    BY <1>1, <2>1, <2>2, <1>n DEF Ends
  <2>3. CASE i # n
    <3>1. i + 1 \in 1 .. n
      BY <1>1, <2>3
    <3> QED BY <1>1, <2>1, <2>3, <3>1, <1>n DEF Ends
  <2> QED BY <2>2, <2>3
<1>4. Ends(n + 1)' = L + Len(b)
  BY <1>1, <1>2 DEF Ends
<1>5. ASSUME NEW i \in 1 .. n PROVE SentWell(i)'
  <2>1. SentWell(i) /\ frames'[i] = frames[i] /\ Ends(i)' = Ends(i)
    BY <1>1, <1>3, <1>n DEF StreamInv
  <2>2. ASSUME NEW c, Carries(i, c), Len(c) \in Nat PROVE Carries(i, c)'
    <3>1. frames[i].start \in Nat /\ frames[i].start + Len(c) <= L
      BY <2>1, <2>2, <1>L DEF SentWell, Carries
    <3>2. \A k \in 1 .. Len(c) : frames[i].start + k \in 1 .. L
      <4>1. ASSUME NEW s \in Nat, NEW m \in Nat, s + m <= L PROVE \A k \in 1 .. m : s + k \in 1 .. L
        BY <1>1, <4>1
      <4> QED BY <2>2, <3>1, <4>1
    <3>3. \A k \in 1 .. Len(c) : stream'[frames[i].start + k] = c[k]
      BY <1>2, <2>2, <3>2 DEF Carries
    <3> QED BY <2>1, <2>2, <3>3 DEF Carries
  <2>3. Ends(i) <= Len(stream')
    BY <1>1, <1>2, <2>1, <1>L DEF SentWell
  <2>4. \A c \in Bytes : Len(c) \in Nat
    BY DEF Bytes
  <2>5. frames[i].fate = "whole" => Carries(i, frames[i].raw)'
    BY <2>1, <2>2, <2>4 DEF SentWell, Sound
  <2>6. frames[i].fate = "hurt" => \E c \in Hurt(frames[i].raw) : Carries(i, c)'
    <3> SUFFICES ASSUME frames[i].fate = "hurt" PROVE \E c \in Hurt(frames[i].raw) : Carries(i, c)'
      OBVIOUS
    <3>1. PICK c \in Hurt(frames[i].raw) : Carries(i, c)
      BY <2>1 DEF SentWell
    <3>2. frames[i].raw \in Bytes
      BY <2>1 DEF SentWell, Sound
    <3>3. Len(c) \in Nat
      BY <2>4, <3>2, HurtIs
    <3> QED BY <2>2, <3>1, <3>3
  <2> QED BY <2>1, <2>3, <2>5, <2>6 DEF SentWell
<1>6. SentWell(n + 1)'
  <2>1. \A c : c = b => Carries(n + 1, c)'
    <3>1. frames'[n + 1].start = L
      BY <1>1, <1>L
    <3>2. Ends(n + 1)' = frames'[n + 1].start + Len(b)
      BY <1>4, <3>1
    <3>3. \A k \in 1 .. Len(b) : stream'[frames'[n + 1].start + k] = b[k]
      BY <1>2, <3>1
    <3>4. Carries(n + 1, b)'
      BY <3>2, <3>3 DEF Carries
    <3> QED BY <3>4
  <2>2. L <= L + Len(b) /\ L + Len(b) \in Nat /\ (Len(b) = 0 => L + Len(b) = L) /\ Len(stream') = L + Len(b)
    BY <1>1, <1>2
  <2>3. frames'[n + 1] = f /\ f.start = L /\ f.start \in Nat
    BY <1>1, <1>L
  <2> QED BY <1>4, <2>1, <2>2, <2>3 DEF SentWell
<1>7. \A i \in 1 .. n + 1 : i \in 1 .. n \/ i = n + 1
  BY <1>1
<1>8. \A i \in 1 .. n + 1 : SentWell(i)'
  BY <1>5, <1>6, <1>7
<1>9. ASSUME NEW i \in 1 .. n + 1, NEW j \in 1 .. n + 1, i < j PROVE Ends(i)' <= frames'[j].start
  <2>1. i \in 1 .. n
    BY <1>1, <1>9
  <2>2. CASE j \in 1 .. n
    BY <1>1, <1>3, <1>9, <2>1, <2>2, <1>n DEF StreamInv
  <2>3. CASE j = n + 1
    <3>1. Ends(i) <= L
      BY <2>1, <1>n, <1>L DEF StreamInv, SentWell
    <3> QED BY <1>1, <1>3, <2>1, <2>3, <3>1, <1>L
  <2> QED BY <1>7, <2>2, <2>3
<1>10. frames'[1].start = 0
  <2>1. CASE n = 0
    BY <1>1, <2>1, <1>n DEF StreamInv
  <2>2. CASE n > 0
    <3>1. 1 \in 1 .. n
      BY <1>1, <2>2
    <3> QED BY <1>1, <2>2, <3>1, <1>n DEF StreamInv
  <2> QED BY <1>1, <2>1, <2>2
<1> QED BY <1>1, <1>8, <1>9, <1>10 DEF StreamInv

(* Losing a byte or changing one.                                          *)
LEMMA HurtElements ==
  ASSUME NEW raw \in Bytes, NEW b \in Hurt(raw)
  PROVE  \E i \in 1 .. Len(raw) :
           \/ /\ b \in Bytes /\ Len(b) = Len(raw) - 1
              /\ \A k \in 1 .. Len(raw) - 1 : b[k] = IF k < i THEN raw[k] ELSE raw[k + 1]
           \/ /\ b \in Bytes /\ Len(b) = Len(raw) /\ b[i] \in {SOF, MAX_PAYLOAD}
              /\ \A k \in 1 .. Len(raw) : k # i => b[k] = raw[k]
<1>1. PICK i \in 1 .. Len(raw) :
        b \in {SubSeq(raw, 1, i - 1) \o SubSeq(raw, i + 1, Len(raw)),
              [raw EXCEPT ![i] = SOF], [raw EXCEPT ![i] = MAX_PAYLOAD]}
  BY DEF Hurt
<1>2. Len(raw) \in Nat /\ i \in Nat /\ raw \in Seq(ByteRange) /\ b \in Bytes
  BY HurtIs DEF Bytes
<1>3. CASE b = SubSeq(raw, 1, i - 1) \o SubSeq(raw, i + 1, Len(raw))
  <2> DEFINE m == 1
             j == i - 1
             v == SubSeq(raw, m, j)
             w == SubSeq(raw, i + 1, Len(raw))
  <2>1. j \in Nat /\ m \in Nat \ {0} /\ m <= j + 1 /\ j <= Len(raw) /\ m = 1 /\ j = i - 1 /\ i <= Len(raw)
        /\ Len(raw) <= Len(raw)
    BY <1>2
  <2> HIDE DEF m, j
  <2>2. v \in Bytes /\ Len(v) = j - m + 1 /\ \A k \in 1 .. j - m + 1 : v[k] = raw[m + k - 1]
    BY <2>1, SubIs
  <2>3. w \in Bytes /\ Len(w) = Len(raw) - i /\ \A k \in 1 .. Len(raw) - i : w[k] = raw[i + k]
    BY <1>2, <2>1, SliceIs
  <2>4. b = v \o w
    BY <1>3, <2>1
  <2> HIDE DEF v, w
  <2>5. Len(b) = Len(v) + Len(w)
        /\ \A k \in 1 .. Len(v) + Len(w) : b[k] = IF k <= Len(v) THEN v[k] ELSE w[k - Len(v)]
    BY <2>2, <2>3, <2>4, ConcatIs
  <2>6. Len(v) = i - 1 /\ Len(v) + Len(w) = Len(raw) - 1
    BY <1>2, <2>1, <2>2, <2>3
  <2>7. ASSUME NEW k \in 1 .. Len(raw) - 1 PROVE b[k] = IF k < i THEN raw[k] ELSE raw[k + 1]
    <3>1. CASE k < i
      <4>1. k \in 1 .. j - m + 1 /\ m + k - 1 = k /\ k <= Len(v) /\ k \in 1 .. Len(v) + Len(w)
        BY <1>2, <2>1, <2>6, <3>1
      <4> QED BY <2>2, <2>5, <3>1, <4>1
    <3>2. CASE ~(k < i)
      <4>1. ~(k <= Len(v)) /\ k \in 1 .. Len(v) + Len(w) /\ k - Len(v) \in 1 .. Len(raw) - i
            /\ i + (k - Len(v)) = k + 1
        BY <1>2, <2>1, <2>6, <3>2
      <4> QED BY <2>3, <2>5, <3>2, <4>1
    <3> QED BY <3>1, <3>2
  <2> QED BY <1>2, <2>5, <2>6, <2>7
<1>4. ASSUME NEW x \in {SOF, MAX_PAYLOAD}, b = [raw EXCEPT ![i] = x]
      PROVE  Len(b) = Len(raw) /\ b[i] = x /\ \A k \in 1 .. Len(raw) : k # i => b[k] = raw[k]
  BY <1>2, <1>4
<1> QED BY <1>1, <1>2, <1>3, <1>4

LEMMA HurtLength ==
  ASSUME NEW raw \in Bytes, Len(raw) = 8, NEW b \in Hurt(raw)
  PROVE  Len(b) \in {7, 8}
<1>1. Len(b) = Len(raw) - 1 \/ Len(b) = Len(raw)
  BY HurtElements
<1> QED BY <1>1

LEMMA InitStream ==
  ASSUME Init
  PROVE  StreamInv
BY DEF Init, StreamInv

LEMMA NextStream ==
  ASSUME ScreenInv, StreamInv, [Next]_vars
  PROVE  StreamInv'
<1>2. /\ stream \in Bytes /\ frames \in Seq(Entries) /\ Len(stream) \in Nat /\ Len(frames) \in Nat /\ clears \in Nat
  BY DEF ScreenInv, TypeOK, Bytes
<1>3. ASSUME frames' = frames, stream' = stream, clears' = 0 => clears = 0 /\ base' = base PROVE StreamInv'
  <2>1. \A i : SentWell(i)' <=> SentWell(i)
    BY <1>3 DEF SentWell, Ends, Carries
  <2>2. \A i : Ends(i)' = Ends(i)
    BY <1>3 DEF Ends
  <2> QED BY <1>3, <2>1, <2>2 DEF StreamInv
<1>4. CASE Send
  <2>1. PICK kind \in Catalog, key \in Keys, raw \in Bytes, bytes \in Bytes :
           /\ raw \in RawFrames(kind, key)
           /\ stream' = stream \o bytes
           /\ \/ bytes = raw /\ frames' = Append(frames, Entry(kind, key, raw, "whole"))
              \/ /\ bytes \in Hurt(raw) /\ kind \in Usual
                 /\ frames' = Append(frames, Entry(kind, key, raw, "hurt"))
           /\ UNCHANGED viewerVars
    BY <1>2, <1>4, SendAdds
  <2>2. Sound(raw) /\ (kind \in Usual => Len(raw) = 8)
    BY <1>2, <2>1, RawSound
  <2>3. clears' = clears /\ base' = base
    BY <2>1 DEF viewerVars
  <2>4. CASE bytes = raw /\ frames' = Append(frames, Entry(kind, key, raw, "whole"))
    <3> DEFINE f == Entry(kind, key, raw, "whole")
    <3>1. f \in Entries /\ f.start = Len(stream) /\ f.fate = "whole" /\ f.raw = raw
      BY <1>2, <2>1, EntryIs DEF Entry
    <3> HIDE DEF f
    <3>2. frames' = Append(frames, f)
      BY <2>4 DEF f
    <3> QED BY <1>2, <2>1, <2>2, <2>3, <2>4, <3>1, <3>2, EntryAdded
  <2>5. CASE /\ bytes \in Hurt(raw) /\ kind \in Usual
             /\ frames' = Append(frames, Entry(kind, key, raw, "hurt"))
    <3> DEFINE f == Entry(kind, key, raw, "hurt")
    <3>1. f \in Entries /\ f.start = Len(stream) /\ f.fate = "hurt" /\ f.raw = raw
      BY <1>2, <2>1, EntryIs DEF Entry
    <3> HIDE DEF f
    <3>2. frames' = Append(frames, f)
      BY <2>5 DEF f
    <3> QED BY <1>2, <2>1, <2>2, <2>3, <2>5, <3>1, <3>2, EntryAdded
  <2> QED BY <2>1, <2>4, <2>5
<1>5. CASE Skip
  <2>1. PICK kind \in Usual, key \in Keys : frames' = Append(frames, Entry(kind, key, <<>>, "skipped"))
    BY <1>5 DEF Skip
  <2>2. stream' = stream /\ clears' = clears /\ base' = base
    BY <1>5 DEF Skip, viewerVars
  <2>3. <<>> \in Bytes /\ Len(<<>>) = 0
    BY DEF Bytes
  <2>4. stream' = stream \o <<>>
    BY <1>2, <2>2, ConcatEmptySeq DEF Bytes
  <2> DEFINE f == Entry(kind, key, <<>>, "skipped")
  <2>5. f \in Entries /\ f.start = Len(stream) /\ f.fate = "skipped"
    BY <1>2, <2>3, EntryIs DEF Entry
  <2> HIDE DEF f
  <2>6. frames' = Append(frames, f)
    BY <2>1 DEF f
  <2> QED BY <1>2, <2>2, <2>3, <2>4, <2>5, <2>6, EntryAdded
<1>6. ASSUME NEW n, Receive(n) PROVE StreamInv'
  BY <1>3, <1>6 DEF Receive
<1>7. CASE flushRender
  BY <1>3, <1>7 DEF flushRender
<1>8. CASE setPaused(~paused)
  BY <1>3, <1>8 DEF setPaused
<1>9. CASE clearAll
  <2>1. clears' # 0 /\ frames' = frames /\ stream' = stream
    BY <1>2, <1>9 DEF clearAll
  <2> QED BY <1>3, <2>1
<1>10. CASE UNCHANGED vars
  BY <1>3, <1>10 DEF vars
<1> QED BY <1>4, <1>5, <1>6, <1>7, <1>8, <1>9, <1>10 DEF Next

-----------------------------------------------------------------------------
(* The layout of the stream.                                               *)
LEMMA Lengths ==
  ASSUME StreamInv, frames \in Seq(Entries), NEW i \in 1 .. Len(frames)
  PROVE  /\ frames[i].start \in Nat /\ Ends(i) \in Nat /\ Ends(i) <= Len(stream)
         /\ frames[i].fate \in {"whole", "hurt", "skipped"}
         /\ frames[i].fate = "whole" =>
              /\ Sound(frames[i].raw) /\ Carries(i, frames[i].raw)
              /\ Ends(i) = frames[i].start + Len(frames[i].raw)
              /\ Len(frames[i].raw) \in 5 .. 5 + MAX_PAYLOAD
         /\ frames[i].fate = "hurt" => Ends(i) = frames[i].start + 7 \/ Ends(i) = frames[i].start + 8
         /\ frames[i].start < Ends(i) => frames[i].start + 5 <= Ends(i) /\ frames[i].fate # "skipped"
<1>1. SentWell(i)
  BY DEF StreamInv
<1>2. frames[i].fate \in {"whole", "hurt", "skipped"}
  <2>1. frames[i] \in Entries
    OBVIOUS
  <2> QED BY <2>1 DEF Entries
<1>3. ASSUME frames[i].fate = "whole"
      PROVE  /\ Sound(frames[i].raw) /\ Carries(i, frames[i].raw)
             /\ Ends(i) = frames[i].start + Len(frames[i].raw)
             /\ Len(frames[i].raw) \in 5 .. 5 + MAX_PAYLOAD
  <2>1. Sound(frames[i].raw) /\ Carries(i, frames[i].raw)
    BY <1>1, <1>3 DEF SentWell
  <2>2. Ends(i) = frames[i].start + Len(frames[i].raw)
    BY <2>1 DEF Carries
  <2>3. Len(frames[i].raw) \in 5 .. 5 + MAX_PAYLOAD
    BY <2>1, Fourth, PayloadIs DEF Sound, Starts
  <2> QED BY <2>1, <2>2, <2>3
<1>4. ASSUME frames[i].fate = "hurt"
      PROVE  Ends(i) = frames[i].start + 7 \/ Ends(i) = frames[i].start + 8
  <2>1. PICK b \in Hurt(frames[i].raw) : Carries(i, b)
    BY <1>1, <1>4 DEF SentWell
  <2>2. frames[i].raw \in Bytes /\ Len(frames[i].raw) = 8
    BY <1>1, <1>4 DEF SentWell, Sound
  <2>3. Len(b) \in {7, 8}
    BY <2>2, HurtLength
  <2> QED BY <2>1, <2>3 DEF Carries
<1>5. frames[i].start \in Nat /\ Ends(i) \in Nat /\ Ends(i) <= Len(stream)
      /\ (frames[i].fate = "skipped" => Ends(i) = frames[i].start)
  BY <1>1 DEF SentWell
<1>6. frames[i].start < Ends(i) => frames[i].start + 5 <= Ends(i) /\ frames[i].fate # "skipped"
  <2>1. CASE frames[i].fate = "whole"
    <3>1. PICK n \in 5 .. 5 + MAX_PAYLOAD : Ends(i) = frames[i].start + n
      BY <1>3, <2>1
    <3>2. frames[i].start + 5 <= Ends(i)
      BY <1>5, <3>1
    <3> QED BY <2>1, <3>2
  <2>2. CASE frames[i].fate = "hurt"
    BY <1>4, <1>5, <2>2
  <2>3. CASE frames[i].fate = "skipped"
    BY <1>5, <2>3
  <2> QED BY <1>2, <2>1, <2>2, <2>3
<1> QED BY <1>2, <1>3, <1>4, <1>5, <1>6

LEMMA Disjoint ==
  ASSUME StreamInv, frames \in Seq(Entries), NEW i \in 1 .. Len(frames), NEW j \in 1 .. Len(frames), i # j
  PROVE  Ends(i) <= frames[j].start \/ Ends(j) <= frames[i].start
<1>1. Len(frames) \in Nat
  OBVIOUS
<1>2. i < j \/ j < i
  BY <1>1
<1> QED BY <1>2 DEF StreamInv

LEMMA Covers ==
  ASSUME StreamInv, frames \in Seq(Entries), Len(stream) \in Nat, NEW X \in Nat, X < Len(stream)
  PROVE  \E i \in 1 .. Len(frames) : frames[i].start <= X /\ X < Ends(i)
<1> DEFINE N == Len(frames)
           T == {k \in Nat : \E i \in 1 .. N : k = N - i /\ frames[i].start <= X}
<1>1. N \in Nat /\ N > 0
  BY DEF StreamInv
<1>2. N - 1 \in T
  <2>1. 1 \in 1 .. N /\ frames[1].start <= X /\ N - 1 \in Nat
    BY <1>1 DEF StreamInv
  <2> QED BY <2>1
<1>3. T \subseteq Nat
  OBVIOUS
<1>4. PICK k \in T : \A m \in T : k <= m
  <2> HIDE DEF T
  <2> QED BY <1>2, <1>3, NatLeast
<1>5. PICK i \in 1 .. N : k = N - i /\ frames[i].start <= X
  BY <1>4
<1>6. CASE i = N
  BY <1>5, <1>6 DEF Ends
<1>7. CASE i # N
  <2>1. i + 1 \in 1 .. N /\ N - (i + 1) \in Nat /\ N - (i + 1) < k
    <3>1. i \in 1 .. N /\ i # N /\ k = N - i /\ N \in Nat
      BY <1>1, <1>5, <1>7
    <3> HIDE DEF N, T
    <3> QED BY <3>1
  <2>2. N - (i + 1) \notin T
    <3> HIDE DEF T
    <3>1. k \in Nat /\ ~(k <= N - (i + 1))
      BY <1>3, <2>1
    <3> QED BY <1>4, <3>1
  <2>3. ~(frames[i + 1].start <= X)
    BY <2>1, <2>2
  <2>4. frames[i + 1].start \in Nat
    BY <2>1, Lengths
  <2> QED BY <1>5, <1>7, <2>3, <2>4 DEF Ends
<1> QED BY <1>6, <1>7

-----------------------------------------------------------------------------
(* What the viewer has heard since it was cleared, and the silence after.  *)
Silence == [i \in 1 .. 5 + MAX_PAYLOAD |-> 0]
Heard == Arrived \o Silence
Seen(d) == {d.seen[i] : i \in 1 .. Len(d.seen)}

LEMMA HeardIs ==
  ASSUME ScreenInv
  PROVE  /\ Heard \in Bytes /\ Len(Heard) = taken - base + (5 + MAX_PAYLOAD)
         /\ base \in Nat /\ taken \in Nat /\ base <= taken /\ taken <= Len(stream) /\ Len(stream) \in Nat
         /\ \A k \in 1 .. taken - base : Heard[k] = stream[base + k]
<1>1. /\ stream \in Bytes /\ taken \in Nat /\ taken <= Len(stream) /\ base \in Nat /\ base <= taken
      /\ Len(stream) \in Nat
  BY DEF ScreenInv, TypeOK, Bytes
<1>2. Arrived \in Bytes /\ Len(Arrived) = taken - base /\ \A k \in 1 .. taken - base : Arrived[k] = stream[base + k]
  BY <1>1, SliceIs DEF Arrived
<1>3. Silence \in Bytes /\ Len(Silence) = 5 + MAX_PAYLOAD
  <2>1. Silence = [i \in 1 .. 5 + MAX_PAYLOAD |-> 0]
    BY PayloadIs DEF Silence
  <2>2. 0 \in ByteRange
    BY DEF ByteRange
  <2> QED BY <2>1, <2>2, PayloadIs DEF Bytes
<1>4. /\ Heard \in Bytes /\ Len(Heard) = Len(Arrived) + Len(Silence)
      /\ \A k \in 1 .. Len(Arrived) + Len(Silence) : Heard[k] = IF k <= Len(Arrived) THEN Arrived[k] ELSE Silence[k - Len(Arrived)]
  BY <1>2, <1>3, ConcatIs DEF Heard
<1>5. \A k \in 1 .. taken - base : k \in 1 .. Len(Arrived) + Len(Silence) /\ k <= Len(Arrived)
  BY <1>1, <1>2, <1>3
<1>6. \A k \in 1 .. taken - base : Heard[k] = stream[base + k]
  BY <1>2, <1>4, <1>5
<1> QED BY <1>1, <1>2, <1>3, <1>4, <1>6

LEMMA DecodedIs ==
  ASSUME ScreenInv, ChunkInv
  PROVE  Decoded = Seen(Result(Heard, EmptyStore).d)
<1> DEFINE R == Result(Arrived, EmptyStore)
           p == parseAvailableFrames(rx \o Silence, store).d
           N == Result(rx \o Silence, store)
           M == Result(rx \o Silence, R.d)
<1>1. /\ stream \in Bytes /\ taken \in Nat /\ taken <= Len(stream) /\ base \in Nat /\ base <= taken
      /\ rx \in Bytes /\ IsStore(store)
  BY DEF ScreenInv, TypeOK, Bytes
<1>2. Arrived \in Bytes
  BY <1>1, SliceIs DEF Arrived
<1>3. Silence \in Bytes
  <2>1. Silence = [i \in 1 .. 5 + MAX_PAYLOAD |-> 0]
    BY PayloadIs DEF Silence
  <2>2. 0 \in ByteRange
    BY DEF ByteRange
  <2> QED BY <2>1, <2>2, PayloadIs DEF Bytes
<1>4. Result(Heard, EmptyStore) = M
  <2>1. Result(Arrived \o Silence, EmptyStore) = Result(R.rx \o Silence, R.d)
    BY <1>2, <1>3, ResultConcat DEF ConcatFor, Bytes
  <2> QED BY <2>1 DEF ChunkInv, Heard
<1>5. Twins(N.d, M.d)
  <2>1. rx \o Silence \in Bytes /\ Twins(store, R.d)
    BY <1>1, <1>3, ConcatIs DEF ChunkInv
  <2>2. ASSUME NEW w \in Bytes, NEW d, NEW e, Twins(d, e) PROVE Twins(Result(w, d).d, Result(w, e).d)
    <3>1. Len(w) \in Nat /\ Len(w) <= Len(w)
      BY DEF Bytes
    <3>2. TwinsFor(Len(w))
      BY <3>1, ResultTwins
    <3> QED BY <2>2, <3>1, <3>2 DEF TwinsFor
  <2> QED BY <2>1, <2>2
<1>6. N.d.seen = M.d.seen
  <2>1. "seen" \in Fields \ {"ask"}
    BY FieldsAre
  <2> QED BY <1>5, <2>1 DEF Twins, Same
<1>7. p.seen = N.d.seen
  <2>1. rx \o Silence \in Bytes
    BY <1>1, <1>3, ConcatIs
  <2>2. IsStore(N.d) /\ N = At0(N.rx, N.d)
    BY <1>1, <2>1, ResultType
  <2>3. p = requestRender(N.d, "counters")
    BY <2>2, ParseIs DEF At0
  <2>4. Does(N.d, p, {}, {"counters"})
    BY <2>2, <2>3, AskDoes DEF Panels
  <2> QED BY <2>4 DEF Does
<1>8. Decoded = {p.seen[i] : i \in 1 .. Len(p.seen)}
  BY DEF Decoded, Silence
<1> HIDE DEF p, N, M
<1> QED BY <1>4, <1>6, <1>7, <1>8 DEF Seen

(* The bytes that are left at a place.                                     *)
LEMMA LeftIs ==
  ASSUME ScreenInv, NEW x \in 0 .. Len(Heard)
  PROVE  /\ From(Heard, x) \in Bytes /\ Len(From(Heard, x)) = taken - base + (5 + MAX_PAYLOAD) - x
         /\ \A k \in 1 .. taken - base + (5 + MAX_PAYLOAD) - x :
              base + x + k <= taken => From(Heard, x)[k] = stream[base + x + k]
<1>1. /\ Heard \in Bytes /\ Len(Heard) = taken - base + (5 + MAX_PAYLOAD)
      /\ base \in Nat /\ taken \in Nat /\ base <= taken
      /\ \A k \in 1 .. taken - base : Heard[k] = stream[base + k]
  BY HeardIs
<1>2. From(Heard, x) \in Bytes /\ Len(From(Heard, x)) = Len(Heard) - x
      /\ \A k \in 1 .. Len(Heard) - x : From(Heard, x)[k] = Heard[x + k]
  BY <1>1, FromIs
<1>3. ASSUME NEW k \in 1 .. taken - base + (5 + MAX_PAYLOAD) - x, base + x + k <= taken
      PROVE  From(Heard, x)[k] = stream[base + x + k]
  <2>1. x + k \in 1 .. taken - base /\ base + (x + k) = base + x + k /\ k \in 1 .. Len(Heard) - x
    BY <1>1, <1>3, PayloadIs
  <2> QED BY <1>1, <1>2, <2>1
<1> QED BY <1>1, <1>2, <1>3, PayloadIs

(* At the start of a whole frame the parser finds it.                      *)
LEMMA FoundAt ==
  ASSUME ScreenInv, StreamInv, NEW x \in 0 .. Len(Heard), NEW i \in 1 .. Len(frames),
         frames[i].fate = "whole", frames[i].start = base + x, Ends(i) <= taken
  PROVE  LET r == From(Heard, x) IN
         ~Waits(r) /\ IsFrame(r) /\ Raw(r) = frames[i].raw /\ base + x + Takes(r) = Ends(i)
<1> DEFINE r == From(Heard, x)
           raw == frames[i].raw
<1>0. frames \in Seq(Entries)
  BY DEF ScreenInv
<1>1. base \in Nat /\ taken \in Nat /\ base <= taken /\ x \in Nat
  BY HeardIs
<1>2. /\ r \in Bytes /\ Len(r) = taken - base + (5 + MAX_PAYLOAD) - x
      /\ \A k \in 1 .. taken - base + (5 + MAX_PAYLOAD) - x : base + x + k <= taken => r[k] = stream[base + x + k]
  BY LeftIs
<1>3. /\ Sound(raw) /\ Carries(i, raw) /\ Ends(i) = base + x + Len(raw) /\ Len(raw) \in 5 .. 5 + MAX_PAYLOAD
  BY <1>0, Lengths
<1>4. PICK n : n = Len(raw)
  OBVIOUS
<1> HIDE DEF r, raw
<1>e. n \in 5 .. 5 + MAX_PAYLOAD /\ Ends(i) = base + x + n /\ n \in Nat
  <2>1. n \in 5 .. 5 + MAX_PAYLOAD /\ Ends(i) = base + x + n
    BY <1>3, <1>4, Zenon
  <2> QED BY <2>1
<1>f. base + x + n <= taken
  BY <1>e
<1>g. n <= Len(r)
  BY <1>1, <1>2, <1>e, <1>f, PayloadIs
<1>5. n \in 5 .. 5 + MAX_PAYLOAD /\ base + x + n <= taken /\ n <= Len(r)
  BY <1>e, <1>f, <1>g
<1>6. ASSUME NEW k \in 1 .. n PROVE r[k] = raw[k]
  <2>1. k \in 1 .. taken - base + (5 + MAX_PAYLOAD) - x /\ base + x + k <= taken
    BY <1>1, <1>5, PayloadIs
  <2>2. stream[base + x + k] = raw[k]
    BY <1>3, <1>4 DEF Carries
  <2> QED BY <1>2, <2>1, <2>2
<1>7. raw \in Bytes /\ Starts(raw) /\ Good(raw) /\ n = 5 + raw[4]
  BY <1>3, <1>4 DEF Sound
<1>8. raw[4] \in 0 .. MAX_PAYLOAD
  <2>1. raw[4] \in Nat
    <3>1. Len(raw) >= 5 /\ raw \in Bytes
      BY <1>4, <1>5, <1>7
    <3> QED BY <3>1, Fourth
  <2>2. raw[4] <= MAX_PAYLOAD
    BY <1>7, PayloadIs DEF Starts
  <2> QED BY <2>1, <2>2
<1>9. r[1] = raw[1] /\ r[4] = raw[4]
  BY <1>5, <1>6
<1>10. Starts(r) /\ ~Waits(r)
  <2>1. Starts(r)
    BY <1>7, <1>9 DEF Starts
  <2>2. ~(Len(r) < n) /\ n = 5 + r[4]
    BY <1>2, <1>5, <1>7, <1>9
  <2>3. Len(r) >= 5
    BY <1>2, <1>5
  <2> QED BY <2>1, <2>2, <2>3 DEF Waits
<1>11. ~Waits(raw)
  BY <1>4, <1>5, <1>7, <1>8 DEF Waits
<1>12. Raw(r) \in Bytes /\ Len(Raw(r)) = n /\ \A k \in 1 .. n : Raw(r)[k] = r[k]
  BY <1>2, <1>7, <1>9, <1>10, RawIs
<1>13. Raw(raw) \in Bytes /\ Len(Raw(raw)) = n /\ \A k \in 1 .. n : Raw(raw)[k] = raw[k]
  BY <1>7, <1>11, RawIs
<1>14. Raw(r) = raw /\ Raw(raw) = raw
  BY <1>4, <1>6, <1>7, <1>12, <1>13, BytesEqual
<1>15. Good(r)
  <2>1. checksum(SubSeq(Raw(raw), 2, 4 + raw[4])) = raw[5 + raw[4]]
    BY <1>7 DEF Good, Raw
  <2>2. r[5 + r[4]] = raw[5 + raw[4]]
    BY <1>5, <1>6, <1>7, <1>9
  <2>3. checksum(SubSeq(Raw(r), 2, 4 + r[4])) = r[5 + r[4]]
    BY <1>9, <1>14, <2>1, <2>2
  <2> QED BY <2>3 DEF Good, Raw
<1>16. Takes(r) = n
  BY <1>7, <1>9, <1>10 DEF Takes
<1>17. base + x + Takes(r) = Ends(i)
  BY <1>3, <1>4, <1>16
<1> QED BY <1>10, <1>14, <1>15, <1>17 DEF IsFrame, r, raw

-----------------------------------------------------------------------------
(* A round of the loop as a jump from one place X of the stream to another.*)
Jump(X, Y) ==
  /\ Y \in X + 1 .. X + (5 + MAX_PAYLOAD)
  /\ X < taken /\ stream[X + 1] # SOF => Y = X + 1
  /\ X + 4 <= taken /\ stream[X + 1] = SOF =>
       Y = IF stream[X + 4] <= MAX_PAYLOAD THEN X + 5 + stream[X + 4] ELSE X + 1
Indexes == 1 .. Len(frames)
Late(X, S) == {i \in Indexes : Due(frames[i]) /\ frames[i].start < X /\ frames[i].raw \notin S}
(* The frame i began before the longest frame that can begin with the last *)
(* byte of a hurt one ends; and so did all that is late.                   *)
Shadowed(i) ==
  \E h \in Indexes : /\ frames[h].fate = "hurt" /\ frames[h].start < frames[i].start
                     /\ frames[i].start < frames[h].start + Len(frames[h].raw) + 4 + MAX_PAYLOAD
Near(X, S) == \A i \in Late(X, S) : Shadowed(i)
Within(i, X) == frames[i].start < X /\ X < Ends(i)
(* Without frames that were hurt the loop stays with the frames' starts.   *)
Clean(X, S) ==
  /\ Late(X, S) = {}
  /\ \A i \in Indexes : Within(i, X) => Ends(i) > taken

Placed == StreamInv /\ frames \in Seq(Entries) /\ stream \in Bytes /\ taken \in Nat /\ taken <= Len(stream)

LEMMA Frame ==
  ASSUME Placed, NEW i \in Indexes
  PROVE  /\ frames[i].start \in Nat /\ Ends(i) \in Nat /\ Ends(i) <= Len(stream)
         /\ frames[i].fate = "whole" => Ends(i) = frames[i].start + Len(frames[i].raw) /\ frames[i].start < Ends(i)
         /\ Due(frames[i]) <=> frames[i].fate = "whole" /\ frames[i].start >= base /\ Ends(i) <= taken
         /\ frames[i].fate = "hurt" => frames[i].start < Ends(i)
         /\ frames[i].start < Ends(i) => frames[i].start + 5 <= Ends(i) /\ frames[i].fate \in {"whole", "hurt"}
<1>1. /\ frames[i].start \in Nat /\ Ends(i) \in Nat /\ Ends(i) <= Len(stream)
      /\ frames[i].fate \in {"whole", "hurt", "skipped"}
      /\ frames[i].fate = "whole" => Ends(i) = frames[i].start + Len(frames[i].raw) /\ Len(frames[i].raw) \in 5 .. 5 + MAX_PAYLOAD
      /\ frames[i].fate = "hurt" => Ends(i) = frames[i].start + 7 \/ Ends(i) = frames[i].start + 8
      /\ frames[i].start < Ends(i) => frames[i].start + 5 <= Ends(i) /\ frames[i].fate # "skipped"
  BY Lengths DEF Placed, Indexes
<1>2. Due(frames[i]) <=> frames[i].fate = "whole" /\ frames[i].start >= base /\ Ends(i) <= taken
  BY <1>1 DEF Due
<1>3. frames[i].fate = "whole" => frames[i].start < Ends(i)
  <2> SUFFICES ASSUME frames[i].fate = "whole" PROVE frames[i].start < Ends(i)
    OBVIOUS
  <2>1. PICK n \in 5 .. 5 + MAX_PAYLOAD : Ends(i) = frames[i].start + n
    BY <1>1
  <2> QED BY <1>1, <2>1
<1>4. frames[i].fate = "hurt" => frames[i].start < Ends(i)
  BY <1>1
<1> QED BY <1>1, <1>2, <1>3, <1>4

(* Two frames have no byte in common.                                      *)
LEMMA Apart ==
  ASSUME Placed, NEW i \in Indexes, NEW j \in Indexes, i # j
  PROVE  Ends(i) <= frames[j].start \/ Ends(j) <= frames[i].start
BY Disjoint DEF Placed, Indexes

(* The next place within the frame h or at its end is within no other.     *)
LEMMA OnlyWithin ==
  ASSUME Placed, NEW X \in Nat, NEW Y \in Nat, X < Y,
         NEW h \in Indexes, frames[h].start <= X, X < Ends(h), Y <= Ends(h),
         NEW i \in Indexes, Within(i, Y)
  PROVE  i = h /\ Y < Ends(h)
<1>1. frames[i].start \in Nat /\ Ends(i) \in Nat /\ frames[h].start \in Nat /\ Ends(h) \in Nat
  BY Frame
<1>2. i = h
  <2>1. ASSUME i # h PROVE FALSE
    <3>1. Ends(i) <= frames[h].start \/ Ends(h) <= frames[i].start
      BY <2>1, Apart
    <3> QED BY <1>1, <3>1 DEF Within
  <2> QED BY <2>1
<1> QED BY <1>1, <1>2 DEF Within

(* A frame that starts in the next jump is h itself, or lies behind it.    *)
LEMMA StartsBehind ==
  ASSUME Placed, NEW X \in Nat, NEW h \in Indexes, frames[h].start <= X, X < Ends(h),
         NEW i \in Indexes, frames[i].start >= X, frames[i].start < Ends(i)
  PROVE  \/ i = h /\ frames[h].start = X
         \/ i # h /\ frames[i].start >= Ends(h)
<1>1. frames[i].start \in Nat /\ Ends(i) \in Nat /\ frames[h].start \in Nat /\ Ends(h) \in Nat
  BY Frame
<1>2. CASE i = h
  BY <1>1, <1>2
<1>3. CASE i # h
  <2>1. Ends(i) <= frames[h].start \/ Ends(h) <= frames[i].start
    BY <1>3, Apart
  <2> QED BY <1>1, <1>3, <2>1
<1> QED BY <1>2, <1>3

(* Beyond the last frame that arrived whole, nothing is due any more.      *)
LEMMA NothingDue ==
  ASSUME Placed, NEW X \in Nat, NEW Y \in Nat, X < Y,
         \/ X >= taken
         \/ \E h \in Indexes : frames[h].start <= X /\ X < Ends(h) /\ Ends(h) > taken
  PROVE  /\ \A i \in Indexes : Due(frames[i]) => frames[i].start < X
         /\ \A i \in Indexes : Within(i, Y) => Ends(i) > taken
<1>1. \A i \in Indexes : frames[i].start \in Nat /\ Ends(i) \in Nat
  BY Frame
<1>t. taken \in Nat
  BY DEF Placed
<1>2. ASSUME NEW i \in Indexes, Due(frames[i]), frames[i].start >= X PROVE FALSE
  <2>1. Ends(i) <= taken /\ frames[i].start < Ends(i)
    BY <1>2, Frame
  <2>2. CASE X >= taken
    BY <1>1, <1>2, <2>1, <2>2, <1>t
  <2>3. ASSUME NEW h \in Indexes, frames[h].start <= X, X < Ends(h), Ends(h) > taken PROVE FALSE
    <3>1. (i = h /\ frames[h].start = X) \/ (i # h /\ frames[i].start >= Ends(h))
      BY <1>2, <2>1, <2>3, StartsBehind
    <3> QED BY <1>1, <1>t, <2>1, <2>3, <3>1
  <2> QED BY <2>2, <2>3
<1>3. ASSUME NEW i \in Indexes, Within(i, Y), Ends(i) <= taken PROVE FALSE
  <2>1. Y < taken
    BY <1>1, <1>3, <1>t DEF Within
  <2>2. PICK h \in Indexes : frames[h].start <= X /\ X < Ends(h) /\ Ends(h) > taken
    BY <2>1, <1>t
  <2>3. Y <= Ends(h)
    BY <1>1, <1>t, <2>1, <2>2
  <2>4. i = h
    BY <1>3, <2>2, <2>3, OnlyWithin
  <2> QED BY <1>1, <1>3, <1>t, <2>2, <2>4
<1> QED BY <1>1, <1>2, <1>3, <1>t

LEMMA Finite ==
  ASSUME Placed, NEW A, A \subseteq Indexes
  PROVE  IsFiniteSet(A) /\ Cardinality(A) \in Nat /\ Cardinality(A) <= Len(frames)
<1>1. 1 \in Int /\ Len(frames) \in Nat
  BY DEF Placed
<1>2. IsFiniteSet(Indexes) /\ Cardinality(Indexes) = Len(frames)
  BY <1>1, FS_Interval DEF Indexes
<1>3. IsFiniteSet(A) /\ Cardinality(A) <= Cardinality(Indexes)
  BY <1>2, FS_Subset
<1> QED BY <1>2, <1>3, FS_CardinalityType

-----------------------------------------------------------------------------
(* Without frames that were hurt: from frame to frame.                     *)
LEMMA CleanJump ==
  ASSUME Placed, NEW X \in Nat, X >= base, NEW Y \in Nat, Jump(X, Y), NEW S, NEW R, S \subseteq R,
         \A i \in Indexes : frames[i].fate # "hurt",
         \A i \in Indexes : frames[i].fate = "whole" /\ frames[i].start = X /\ Ends(i) <= taken
                              => frames[i].raw \in R /\ Y = Ends(i),
         Clean(X, S)
  PROVE  Clean(Y, R)
<1>1. X < Y /\ taken \in Nat /\ Len(stream) \in Nat /\ taken <= Len(stream)
  BY DEF Jump, Placed, Bytes
<1>2. \A i \in Indexes : frames[i].start \in Nat /\ Ends(i) \in Nat
  BY Frame
<1>3. \A i \in Indexes : Due(frames[i]) /\ frames[i].start < X => frames[i].raw \in R
  BY DEF Clean, Late
<1>4. CASE \/ X >= taken
           \/ \E h \in Indexes : frames[h].start <= X /\ X < Ends(h) /\ Ends(h) > taken
  <2>1. /\ \A i \in Indexes : Due(frames[i]) => frames[i].start < X
        /\ \A i \in Indexes : Within(i, Y) => Ends(i) > taken
    BY <1>1, <1>4, NothingDue
  <2>2. Late(Y, R) = {}
    BY <1>3, <2>1 DEF Late
  <2> QED BY <2>1, <2>2 DEF Clean
<1>5. CASE X < taken /\ \A h \in Indexes : frames[h].start <= X /\ X < Ends(h) => Ends(h) <= taken
  <2>1. PICK h \in Indexes : frames[h].start <= X /\ X < Ends(h)
    <3>1. X < Len(stream)
      BY <1>1, <1>5
    <3>2. \E i \in 1 .. Len(frames) : frames[i].start <= X /\ X < Ends(i)
      BY <1>1, <3>1, Covers DEF Placed
    <3> QED BY <3>2 DEF Indexes
  <2>2. Ends(h) <= taken
    BY <1>5, <2>1
  <2>3. frames[h].start = X
    BY <1>1, <1>2, <2>1, <2>2 DEF Clean, Within
  <2>4. frames[h].fate = "whole"
    <3>1. frames[h].start < Ends(h)
      BY <2>1, <2>3
    <3> QED BY <3>1, Frame
  <2>5. frames[h].raw \in R /\ Y = Ends(h)
    BY <2>2, <2>3, <2>4
  <2>6. ASSUME NEW i \in Indexes, Within(i, Y) PROVE FALSE
    <3>1. Y <= Ends(h)
      BY <1>2, <2>5
    <3>2. Y < Ends(h)
      BY <1>1, <2>1, <2>6, <3>1, OnlyWithin
    <3> QED BY <1>2, <2>5, <3>2
  <2>7. ASSUME NEW i \in Indexes, Due(frames[i]), frames[i].start < Y PROVE frames[i].raw \in R
    <3>1. frames[i].start < Ends(i)
      BY <2>7, Frame
    <3>2. CASE frames[i].start < X
      BY <1>3, <2>7, <3>2
    <3>3. CASE frames[i].start >= X
      <4>1. i = h \/ frames[i].start >= Ends(h)
        BY <2>1, <3>1, <3>3, StartsBehind
      <4> QED BY <1>2, <2>5, <2>7, <4>1
    <3> QED BY <1>2, <3>2, <3>3
  <2> QED BY <2>6, <2>7 DEF Clean, Late
<1>6. \A h \in Indexes : Ends(h) > taken \/ Ends(h) <= taken
  BY <1>1, <1>2
<1>7. X >= taken \/ X < taken
  BY <1>1
<1> QED BY <1>4, <1>5, <1>6, <1>7

-----------------------------------------------------------------------------
(* With frames that were hurt, and no mark within any: a jump that leads   *)
(* beyond the start of another frame began within a hurt one.              *)
NoMarks == \A i \in Indexes : ~LooksLikeStart(frames[i].raw)

(* Within a frame that arrived whole the loop goes on byte by byte.        *)
LEMMA NoMarkWithin ==
  ASSUME Placed, NoMarks, NEW X \in Nat, NEW h \in Indexes, frames[h].fate = "whole",
         frames[h].start < X, X < Ends(h)
  PROVE  stream[X + 1] # SOF
<1> DEFINE raw == frames[h].raw
           s == frames[h].start
<1>1. Carries(h, raw) /\ Ends(h) = s + Len(raw) /\ s \in Nat /\ Len(raw) \in 5 .. 5 + MAX_PAYLOAD
  BY Lengths DEF Placed, Indexes
<1>2. \A k \in 2 .. Len(raw) : raw[k] # SOF
  BY DEF NoMarks, LooksLikeStart
<1>3. PICK n : n = Len(raw)
  OBVIOUS
<1>4. \A k \in 1 .. n : stream[s + k] = raw[k]
  BY <1>1, <1>3 DEF Carries
<1>5. \A k \in 2 .. n : raw[k] # SOF
  BY <1>2, <1>3
<1>6. s \in Nat /\ n \in Nat /\ s < X /\ X < s + n
  BY <1>1, <1>3
<1> HIDE DEF raw, s
<1> DEFINE k == X + 1 - s
<1>7. k \in 2 .. n /\ k \in 1 .. n /\ s + k = X + 1
  BY <1>6
<1> HIDE DEF k
<1> QED BY <1>4, <1>5, <1>7

LEMMA NearJump ==
  ASSUME Placed, NoMarks, NEW X \in Nat, X >= base, NEW Y \in Nat, Jump(X, Y), NEW S, NEW R, S \subseteq R,
         \A i \in Indexes : frames[i].fate = "whole" /\ frames[i].start = X /\ Ends(i) <= taken
                              => frames[i].raw \in R /\ Y = Ends(i),
         Near(X, S)
  PROVE  Near(Y, R)
<1>1. X < Y /\ Y <= X + (5 + MAX_PAYLOAD) /\ taken \in Nat /\ Len(stream) \in Nat /\ taken <= Len(stream)
  BY DEF Jump, Placed, Bytes
<1>2. \A i \in Indexes : frames[i].start \in Nat /\ Ends(i) \in Nat
  BY Frame
<1>3. ASSUME NEW i \in Late(Y, R), frames[i].start < X PROVE Shadowed(i)
  <2>1. i \in Late(X, S)
    BY <1>3 DEF Late
  <2> QED BY <2>1 DEF Near
<1>4. ASSUME NEW i \in Late(Y, R), frames[i].start >= X PROVE Shadowed(i)
  <2>1. i \in Indexes /\ Due(frames[i]) /\ frames[i].start < Y /\ frames[i].raw \notin R
    BY <1>4 DEF Late
  <2>2. frames[i].start < Ends(i) /\ Ends(i) <= taken /\ frames[i].fate = "whole"
    BY <2>1, Frame
  <2>3. X < taken /\ X < Len(stream)
    BY <1>1, <1>2, <1>4, <2>1, <2>2
  <2>4. PICK h \in Indexes : frames[h].start <= X /\ X < Ends(h)
    <3>1. \E g \in 1 .. Len(frames) : frames[g].start <= X /\ X < Ends(g)
      BY <1>1, <2>3, Covers DEF Placed
    <3> QED BY <3>1 DEF Indexes
  <2>5. i # h /\ frames[i].start >= Ends(h)
    <3>1. \/ i = h /\ frames[h].start = X
          \/ i # h /\ frames[i].start >= Ends(h)
      BY <1>4, <2>1, <2>2, <2>4, StartsBehind
    <3>2. ~(i = h /\ frames[h].start = X)
      BY <2>1, <2>2
    <3> QED BY <3>1, <3>2
  <2>6. Ends(h) < Y /\ Ends(h) <= taken
    BY <1>1, <1>2, <2>1, <2>2, <2>5
  <2>7. ASSUME frames[h].fate = "whole" PROVE FALSE
    <3>1. CASE frames[h].start = X
      BY <1>2, <2>6, <2>7, <3>1
    <3>2. CASE frames[h].start < X
      <4>1. stream[X + 1] # SOF
        BY <2>4, <2>7, <3>2, NoMarkWithin
      <4>2. Y = X + 1
        BY <2>3, <4>1 DEF Jump
      <4> QED BY <1>2, <2>4, <2>6, <4>2
    <3> QED BY <1>2, <2>4, <3>1, <3>2
  <2>8. frames[h].fate = "hurt"
    <3>1. frames[h].start < Ends(h)
      BY <1>2, <2>4
    <3>2. frames[h].fate \in {"whole", "hurt"}
      BY <3>1, Frame
    <3> QED BY <2>7, <3>2
  <2>9. Len(frames[h].raw) = 8 /\ Ends(h) <= frames[h].start + 8
    <3>1. Ends(h) = frames[h].start + 7 \/ Ends(h) = frames[h].start + 8
      BY <2>8, Lengths DEF Placed, Indexes
    <3>2. SentWell(h)
      BY DEF Placed, StreamInv, Indexes
    <3>3. Len(frames[h].raw) = 8
      BY <2>8, <3>2 DEF SentWell
    <3> QED BY <1>2, <3>1, <3>3
  <2>10. frames[i].start < frames[h].start + 8 + 4 + MAX_PAYLOAD
    <3> DEFINE s == frames[i].start
               t == frames[h].start
               e == Ends(h)
               p == MAX_PAYLOAD
    <3>1. /\ s \in Nat /\ t \in Nat /\ e \in Nat /\ p \in Nat
          /\ s < Y /\ Y <= X + (5 + p) /\ X < e /\ e <= t + 8
      BY <1>1, <1>2, <2>1, <2>4, <2>9, PayloadIs
    <3> HIDE DEF s, t, e, p
    <3>2. s < t + 8 + 4 + p
      BY <3>1
    <3> QED BY <3>2 DEF s, t, p
  <2>11. frames[h].start < frames[i].start
    BY <1>2, <2>1, <2>4, <2>5
  <2> QED BY <2>8, <2>9, <2>10, <2>11, PayloadIs DEF Shadowed
<1>5. \A i \in Late(Y, R) : frames[i].start < X \/ frames[i].start >= X
  BY <1>2 DEF Late
<1> QED BY <1>3, <1>4, <1>5 DEF Near

-----------------------------------------------------------------------------
NoneHurt == clears = 0 /\ \A i \in Indexes : frames[i].fate # "hurt"
(* After the first x bytes, with the data d.                               *)
Walk(x, d) ==
  /\ x \in 0 .. Len(Heard) /\ IsStore(d)
  /\ NoMarks => Near(base + x, Seen(d))
  /\ NoneHurt => Clean(base + x, Seen(d))

LEMMA PlacedIs ==
  ASSUME ScreenInv, StreamInv
  PROVE  Placed /\ base \in Nat /\ Len(Heard) = taken - base + (5 + MAX_PAYLOAD)
BY HeardIs DEF ScreenInv, TypeOK, Placed, Bytes

LEMMA SeenAfter ==
  ASSUME NEW r \in Bytes, ~Waits(r), NEW d, IsStore(d)
  PROVE  /\ IsStore(After(r, d)) /\ Seen(d) \subseteq Seen(After(r, d))
         /\ IsFrame(r) => Raw(r) \in Seen(After(r, d))
<1> DEFINE e == After(r, d)
<1>1. IsStore(e) /\ e.seen = IF IsFrame(r) THEN Append(d.seen, Raw(r)) ELSE d.seen
  BY AfterDoes DEF Shows
<1> HIDE DEF e
<1>2. d.seen \in Seq(Seq(ByteRange))
  BY DEF IsStore
<1>3. CASE ~IsFrame(r)
  <2>1. e.seen = d.seen
    BY <1>1, <1>3
  <2> QED BY <1>1, <1>3, <2>1 DEF e, Seen
<1>4. CASE IsFrame(r)
  <2> DEFINE S == Seq(ByteRange)
             n == Len(d.seen)
  <2>1. e.seen = Append(d.seen, Raw(r)) /\ d.seen \in Seq(S)
    BY <1>1, <1>2, <1>4
  <2> HIDE DEF S
  <2>2. n \in Nat /\ Len(e.seen) = n + 1 /\ e.seen[n + 1] = Raw(r) /\ \A m \in 1 .. n : e.seen[m] = d.seen[m]
    BY <2>1
  <2> HIDE DEF n
  <2>3. \A m \in 1 .. n : m \in 1 .. n + 1
    BY <2>2
  <2>4. n + 1 \in 1 .. n + 1
    BY <2>2
  <2>5. Seen(d) \subseteq Seen(e) /\ Raw(r) \in Seen(e)
    BY <2>2, <2>3, <2>4 DEF Seen, n
  <2> QED BY <1>1, <2>5 DEF e
<1> QED BY <1>3, <1>4

LEMMA JumpIs ==
  ASSUME ScreenInv, StreamInv, NEW x \in 0 .. Len(Heard), ~Waits(From(Heard, x))
  PROVE  LET t == Takes(From(Heard, x)) IN
         /\ x + t \in 0 .. Len(Heard) /\ t \in Nat /\ t > 0 /\ base + (x + t) = (base + x) + t
         /\ From(From(Heard, x), t) = From(Heard, x + t)
         /\ Jump(base + x, (base + x) + t)
<1> DEFINE r == From(Heard, x)
           t == Takes(r)
           X == base + x
<1>1. Heard \in Bytes /\ Len(Heard) = taken - base + (5 + MAX_PAYLOAD) /\ base \in Nat /\ taken \in Nat /\ base <= taken /\ x \in Nat
  BY HeardIs
<1>2. /\ r \in Bytes /\ Len(r) = taken - base + (5 + MAX_PAYLOAD) - x
      /\ \A k \in 1 .. taken - base + (5 + MAX_PAYLOAD) - x : base + x + k <= taken => r[k] = stream[base + x + k]
  BY LeftIs
<1>3. t \in 1 .. Len(r) /\ t <= 5 + MAX_PAYLOAD /\ Len(r) >= 5
  BY <1>2, StepIs
<1>4. t = IF Starts(r) THEN 5 + r[4] ELSE 1
  BY DEF Takes
<1>5. From(r, t) = From(Heard, x + t)
  <2>1. t \in 0 .. Len(Heard) - x
    BY <1>1, <1>2, <1>3, PayloadIs
  <2> QED BY <1>1, <2>1, FromFrom
<1> HIDE DEF r, t
<1>6. X + 1 <= taken => r[1] = stream[X + 1]
  <2>1. 1 \in 1 .. taken - base + (5 + MAX_PAYLOAD) - x
    BY <1>1, <1>2, <1>3
  <2> QED BY <1>2, <2>1
<1>7. X + 4 <= taken => r[4] = stream[X + 4]
  <2>1. 4 \in 1 .. taken - base + (5 + MAX_PAYLOAD) - x
    BY <1>1, <1>2, <1>3
  <2> QED BY <1>2, <2>1
<1>8. x + t \in 0 .. Len(Heard) /\ t \in Nat /\ t > 0 /\ base + (x + t) = X + t
  BY <1>1, <1>2, <1>3, PayloadIs
<1>x. X \in Nat
  BY <1>1
<1> HIDE DEF X
<1>9. X + t \in X + 1 .. X + (5 + MAX_PAYLOAD)
  BY <1>3, <1>8, <1>x, PayloadIs
<1>10. X < taken /\ stream[X + 1] # SOF => X + t = X + 1
  <2> SUFFICES ASSUME X < taken, stream[X + 1] # SOF PROVE t = 1
    OBVIOUS
  <2>1. r[1] = stream[X + 1]
    BY <1>1, <1>6, <1>x
  <2> QED BY <1>4, <2>1 DEF Starts
<1>11. X + 4 <= taken /\ stream[X + 1] = SOF =>
         X + t = IF stream[X + 4] <= MAX_PAYLOAD THEN X + 5 + stream[X + 4] ELSE X + 1
  <2> SUFFICES ASSUME X + 4 <= taken, stream[X + 1] = SOF
               PROVE  X + t = IF stream[X + 4] <= MAX_PAYLOAD THEN X + 5 + stream[X + 4] ELSE X + 1
    OBVIOUS
  <2>1. r[1] = stream[X + 1] /\ r[4] = stream[X + 4]
    BY <1>1, <1>6, <1>7, <1>x
  <2>2. r[4] \in Nat
    BY <1>2, <1>3, Fourth
  <2>3. t = IF r[4] <= MAX_PAYLOAD THEN 5 + r[4] ELSE 1
    BY <1>4, <2>1 DEF Starts
  <2>4. CASE r[4] <= MAX_PAYLOAD
    <3>1. t = 5 + r[4]
      BY <2>3, <2>4
    <3>2. PICK v \in Nat : v = r[4]
      BY <2>2
    <3>3. t = 5 + v /\ X \in Nat
      BY <1>x, <3>1, <3>2
    <3>4. X + t = X + 5 + v
      BY <3>3
    <3>5. X + t = X + 5 + r[4]
      BY <3>2, <3>4
    <3> QED BY <2>1, <2>4, <3>5
  <2>5. CASE ~(r[4] <= MAX_PAYLOAD)
    BY <2>1, <2>3, <2>5
  <2> QED BY <2>4, <2>5
<1>12. Jump(X, X + t)
  BY <1>9, <1>10, <1>11 DEF Jump
<1> QED BY <1>5, <1>8, <1>12 DEF r, t, X

LEMMA WalkStep ==
  ASSUME ScreenInv, StreamInv, NEW x, NEW d, Walk(x, d), ~Waits(From(Heard, x))
  PROVE  Walk(x + Takes(From(Heard, x)), After(From(Heard, x), d))
<1> DEFINE r == From(Heard, x)
           t == Takes(r)
           e == After(r, d)
           X == base + x
           Y == X + t
<1>1. x \in 0 .. Len(Heard) /\ IsStore(d)
      /\ (NoMarks => Near(X, Seen(d))) /\ (NoneHurt => Clean(X, Seen(d)))
  BY DEF Walk
<1>2. Placed /\ base \in Nat /\ Len(Heard) = taken - base + (5 + MAX_PAYLOAD)
  BY PlacedIs
<1>3. r \in Bytes
  BY <1>1, LeftIs
<1>4. IsStore(e) /\ Seen(d) \subseteq Seen(e) /\ (IsFrame(r) => Raw(r) \in Seen(e))
  BY <1>1, <1>3, SeenAfter
<1>5. x + t \in 0 .. Len(Heard) /\ t \in Nat /\ t > 0 /\ base + (x + t) = Y /\ Jump(X, Y)
  BY <1>1, JumpIs
<1>6. ASSUME NEW i \in Indexes, frames[i].fate = "whole", frames[i].start = X, Ends(i) <= taken
      PROVE  frames[i].raw \in Seen(e) /\ Y = Ends(i)
  <2>1. i \in 1 .. Len(frames)
    BY DEF Indexes
  <2>2. IsFrame(r) /\ Raw(r) = frames[i].raw /\ Y = Ends(i)
    BY <1>1, <1>6, <2>1, FoundAt
  <2> QED BY <1>4, <2>2
<1>7. X \in Nat /\ Y \in Nat /\ X >= base
  BY <1>1, <1>2, <1>5
<1> HIDE DEF e, t, r, X, Y
<1>8. NoMarks => Near(Y, Seen(e))
  BY <1>1, <1>2, <1>4, <1>5, <1>6, <1>7, NearJump
<1>9. NoneHurt => Clean(Y, Seen(e))
  BY <1>1, <1>2, <1>4, <1>5, <1>6, <1>7, CleanJump DEF NoneHurt
<1> QED BY <1>4, <1>5, <1>8, <1>9 DEF Walk, e, t, r, X, Y

(* The walk ends where the loop waits.                                     *)
WalkFor(m) ==
  \A x \in 0 .. Len(Heard) : \A d : Walk(x, d) /\ Len(Heard) - x <= m =>
    \E y \in 0 .. Len(Heard) : \E e : /\ Result(From(Heard, x), d) = At0(From(Heard, y), e)
                                      /\ Walk(y, e) /\ Waits(From(Heard, y))

LEMMA WalkEnds ==
  ASSUME ScreenInv, StreamInv
  PROVE  \A m \in Nat : WalkFor(m)
<1> DEFINE T == {m \in Nat : WalkFor(m)}
<1>h. Heard \in Bytes /\ Len(Heard) \in Nat
  BY HeardIs DEF Bytes
<1>0. ASSUME NEW x \in 0 .. Len(Heard), NEW d, Walk(x, d), Waits(From(Heard, x))
      PROVE  \E y \in 0 .. Len(Heard) : \E e : /\ Result(From(Heard, x), d) = At0(From(Heard, y), e)
                                              /\ Walk(y, e) /\ Waits(From(Heard, y))
  <2>1. From(Heard, x) \in Bytes
    BY <1>h, FromIs
  <2>2. Result(From(Heard, x), d) = At0(From(Heard, x), d)
    BY <1>0, <2>1, ResultIs
  <2> QED BY <1>0, <2>2
<1>1. 0 \in T
  <2>1. ASSUME NEW x \in 0 .. Len(Heard), Len(Heard) - x <= 0 PROVE Waits(From(Heard, x))
    <3>1. From(Heard, x) \in Bytes /\ Len(From(Heard, x)) = Len(Heard) - x
      BY <1>h, FromIs
    <3>2. ~(Len(From(Heard, x)) >= 5)
      BY <1>h, <2>1, <3>1
    <3> QED BY <3>2 DEF Waits
  <2>2. WalkFor(0)
    BY <1>0, <2>1 DEF WalkFor
  <2> QED BY <2>2
<1>2. \A m \in Nat : m \in T => m + 1 \in T
  <2> TAKE m \in Nat
  <2> HAVE m \in T
  <2>1. ASSUME NEW x \in 0 .. Len(Heard), NEW d, Walk(x, d), Len(Heard) - x <= m + 1, ~Waits(From(Heard, x))
        PROVE  \E y \in 0 .. Len(Heard) : \E e : /\ Result(From(Heard, x), d) = At0(From(Heard, y), e)
                                                /\ Walk(y, e) /\ Waits(From(Heard, y))
    <3> DEFINE r == From(Heard, x)
               t == Takes(r)
               z == x + t
               g == After(r, d)
    <3>1. z \in 0 .. Len(Heard) /\ t \in Nat /\ t > 0 /\ From(r, t) = From(Heard, z)
      BY <2>1, JumpIs
    <3>2. Walk(z, g)
      BY <2>1, WalkStep
    <3>3. Result(r, d) = Result(From(Heard, z), g)
      <4>1. r \in Bytes
        BY <1>h, FromIs
      <4>2. Result(r, d) = Result(From(r, t), g)
        BY <2>1, <4>1, ResultIs
      <4> QED BY <3>1, <4>2
    <3>4. Len(Heard) - z <= m
      BY <1>h, <2>1, <3>1
    <3> HIDE DEF z, g
    <3>5. \E y \in 0 .. Len(Heard) : \E e : /\ Result(From(Heard, z), g) = At0(From(Heard, y), e)
                                            /\ Walk(y, e) /\ Waits(From(Heard, y))
      BY <3>1, <3>2, <3>4 DEF WalkFor
    <3> QED BY <3>3, <3>5
  <2>2. WalkFor(m + 1)
    BY <1>0, <2>1 DEF WalkFor
  <2> QED BY <2>2
<1> HIDE DEF T
<1>3. Nat \subseteq T
  BY <1>1, <1>2, NatSetInduction
<1> QED BY <1>3 DEF T

LEMMA WalkBegins ==
  ASSUME ScreenInv, StreamInv
  PROVE  Walk(0, EmptyStore) /\ From(Heard, 0) = Heard
<1>1. Placed /\ base \in Nat /\ Heard \in Bytes /\ Len(Heard) \in Nat
  BY PlacedIs, HeardIs DEF Bytes
<1>2. Seen(EmptyStore) = {} /\ IsStore(EmptyStore)
  <2>1. Len(EmptyStore.seen) = 0
    BY EmptyIs
  <2>2. 1 .. 0 = {}
    OBVIOUS
  <2> QED BY <2>1, <2>2, EmptyIs DEF Seen
<1>3. base + 0 = base /\ 0 \in 0 .. Len(Heard)
  BY <1>1
<1>4. Late(base, {}) = {}
  <2>1. ASSUME NEW i \in Indexes, Due(frames[i]), frames[i].start < base PROVE FALSE
    <3>1. frames[i].start >= base /\ frames[i].start \in Nat
      BY <1>1, <2>1, Frame
    <3> QED BY <1>1, <2>1, <3>1
  <2> QED BY <2>1 DEF Late
<1>5. ASSUME NEW i \in Indexes, Within(i, base) PROVE clears # 0
  <2>1. frames[i].start \in Nat /\ frames[i].start < base
    BY <1>1, <1>5, Frame DEF Within
  <2> QED BY <2>1 DEF StreamInv
<1>7. Near(base, {})
  BY <1>4 DEF Near
<1>8. NoneHurt => Clean(base, {})
  BY <1>4, <1>5 DEF Clean, NoneHurt
<1>9. From(Heard, 0) = Heard
  <2>1. From(Heard, 0) \in Bytes /\ Len(From(Heard, 0)) = Len(Heard) - 0
        /\ \A k \in 1 .. Len(Heard) - 0 : From(Heard, 0)[k] = Heard[0 + k]
    BY <1>1, <1>3, FromIs
  <2>2. Len(Heard) - 0 = Len(Heard) /\ \A k \in 1 .. Len(Heard) : 0 + k = k
    BY <1>1
  <2>3. \A k \in 1 .. Len(Heard) : From(Heard, 0)[k] = Heard[k]
    BY <2>1, <2>2
  <2> QED BY <1>1, <2>1, <2>2, <2>3, BytesEqual
<1> QED BY <1>2, <1>3, <1>7, <1>8, <1>9 DEF Walk

LEMMA LossIsBounded ==
  ASSUME ScreenInv, ChunkInv, StreamInv
  PROVE  LossBounded
<1>1. Placed /\ base \in Nat /\ Heard \in Bytes /\ Len(Heard) = taken - base + (5 + MAX_PAYLOAD) /\ taken \in Nat /\ base <= taken
      /\ Len(Heard) \in Nat
  BY PlacedIs, HeardIs DEF Bytes, ScreenInv, TypeOK
<1>2. PICK y, e : /\ y \in 0 .. Len(Heard) /\ Result(Heard, EmptyStore) = At0(From(Heard, y), e)
                 /\ Walk(y, e) /\ Waits(From(Heard, y))
  <2>1. WalkFor(Len(Heard))
    BY <1>1, WalkEnds
  <2>2. Walk(0, EmptyStore) /\ From(Heard, 0) = Heard /\ 0 \in 0 .. Len(Heard) /\ Len(Heard) - 0 <= Len(Heard)
    BY <1>1, WalkBegins
  <2>3. \E y \in 0 .. Len(Heard) : \E e : /\ Result(From(Heard, 0), EmptyStore) = At0(From(Heard, y), e)
                                          /\ Walk(y, e) /\ Waits(From(Heard, y))
    BY <2>1, <2>2 DEF WalkFor
  <2> QED BY <2>2, <2>3
<1> DEFINE X == base + y
<1>3. Decoded = Seen(e)
  BY <1>2, DecodedIs DEF At0
<1>4. X > taken
  <2> DEFINE r == From(Heard, y)
  <2>1. r \in Bytes /\ Len(r) = taken - base + (5 + MAX_PAYLOAD) - y
    BY <1>2, LeftIs
  <2>2. Len(r) < 5 + MAX_PAYLOAD
    <3>1. Len(r) \in Nat /\ (Len(r) >= 5 => r[4] \in Nat)
      BY <2>1, Fourth
    <3>2. CASE Len(r) < 5
      BY <3>1, <3>2, PayloadIs
    <3>3. CASE Len(r) >= 5
      <4>1. r[4] <= MAX_PAYLOAD /\ Len(r) < 5 + r[4] /\ r[4] \in Nat
        BY <1>2, <3>1, <3>3, PayloadIs DEF Waits, Starts
      <4> HIDE DEF r
      <4> QED BY <3>1, <4>1, PayloadIs
    <3> QED BY <3>1, <3>2, <3>3
  <2> QED BY <1>1, <1>2, <2>1, <2>2, PayloadIs
<1> DEFINE ours == {frames[i] : i \in 1 .. Len(frames)}
           lost == {f \in ours : Due(f) /\ f.raw \notin Decoded}
           L == Late(X, Seen(e))
<1>5. L = {i \in Indexes : Due(frames[i]) /\ frames[i].raw \notin Seen(e)}
  <2>1. ASSUME NEW i \in Indexes, Due(frames[i]) PROVE frames[i].start < X
    <3>1. Ends(i) <= taken /\ frames[i].start < Ends(i) /\ frames[i].start \in Nat /\ Ends(i) \in Nat
      BY <1>1, <2>1, Frame
    <3> QED BY <1>1, <1>2, <1>4, <3>1
  <2> QED BY <2>1 DEF Late
<1>6. lost = {frames[i] : i \in L}
  BY <1>3, <1>5 DEF Indexes
<1> HIDE DEF L, lost
<1> DEFINE H == {i \in 1 .. Len(frames) : frames[i].fate = "hurt"}
<1>9. HurtCount = Cardinality(H)
  BY DEF HurtCount, Count
<1>10. H \subseteq Indexes /\ IsFiniteSet(H) /\ Cardinality(H) \in Nat
  <2>1. H \subseteq Indexes
    BY DEF Indexes
  <2> QED BY <1>1, <2>1, Finite
<1>11. HurtCount = 0 /\ clears = 0 => lost = {}
  <2> SUFFICES ASSUME HurtCount = 0, clears = 0 PROVE lost = {}
    OBVIOUS
  <2>1. H = {}
    BY <1>9, <1>10, FS_EmptySet
  <2>2. NoneHurt
    BY <2>1 DEF NoneHurt, Indexes
  <2>3. L = {}
    BY <1>2, <2>2 DEF Walk, Clean, L
  <2> QED BY <1>6, <2>3
<1>12. ASSUME \A f \in ours : ~LooksLikeStart(f.raw), NEW f \in lost
       PROVE  \E h \in ours : /\ h.fate = "hurt" /\ h.start < f.start
                               /\ f.start < h.start + Len(h.raw) + 4 + MAX_PAYLOAD
  <2>1. NoMarks
    BY <1>12 DEF NoMarks, Indexes
  <2>2. Near(X, Seen(e))
    BY <1>2, <2>1 DEF Walk
  <2>3. PICK i \in L : f = frames[i]
    BY <1>6
  <2>4. Shadowed(i)
    BY <2>2, <2>3 DEF Near, L
  <2>5. \A h \in Indexes : frames[h] \in ours
    BY DEF Indexes
  <2> QED BY <2>3, <2>4, <2>5 DEF Shadowed
<1> QED BY <1>11, <1>12 DEF LossBounded, lost

(* For any number of frames, of which any are hurt, and with Clear at any  *)
(* time: none that went out whole is missing if none was hurt and nothing  *)
(* was cleared; as long as no payload looks like the start of a frame,     *)
(* those that are missing are near one that was hurt.                      *)
THEOREM LossIsSmall == Spec => []LossBounded
<1>1. Init => ScreenInv /\ ChunkInv /\ StreamInv
  BY InitScreen, InitChunk, InitStream
<1>2. (ScreenInv /\ ChunkInv /\ StreamInv) /\ [Next]_vars => (ScreenInv /\ ChunkInv /\ StreamInv)'
  BY NextScreen, NextChunk, NextStream
<1>3. ScreenInv /\ ChunkInv /\ StreamInv => LossBounded
  BY LossIsBounded
<1> QED BY <1>1, <1>2, <1>3, PTL DEF Spec

-----------------------------------------------------------------------------
(* What the decoders do to the spans.                                      *)
LEMMA PutIs ==
  ASSUME NEW d, IsStore(d), NEW k \in DOMAIN PanelOf, NEW x
  PROVE  LET e == [d EXCEPT ![k] = x] IN
         IsStore(e) /\ e[k] = x /\ \A f \in Fields : f # k => e[f] = d[f]
<1> DEFINE e == [d EXCEPT ![k] = x]
<1>1. e = [f \in Fields |-> IF f = k THEN x ELSE d[f]]
  BY FieldsAre DEF IsStore
<1>2. IsStore(e)
  BY PutDoes DEF Does
<1> HIDE DEF e
<1>3. k \in Fields
  BY FieldsAre
<1>4. e[k] = x /\ \A f \in Fields : f # k => e[f] = d[f]
  BY <1>1, <1>3
<1> QED BY <1>2, <1>4 DEF e

LEMMA LoggedSpans ==
  ASSUME NEW d, IsStore(d), NEW k, NEW p
  PROVE  SameSpans(d, requestRender(addLog(d, k, p), "trace"))
<1>1. Does(d, addLog(d, k, p), {"log"}, {"log"})
  BY AddLogDoes
<1>2. Does(d, requestRender(addLog(d, k, p), "trace"), {"log"}, {"log"} \cup {"trace"})
  BY <1>1, ThenAsk DEF Panels
<1>3. \A f \in {"spans", "openSpans"} : f \in DOMAIN PanelOf /\ PanelOf[f] \notin {"log"}
  BY PanelsAre
<1> QED BY <1>2, <1>3 DEF Does, SameSpans

LEMMA PrunedSpans ==
  ASSUME NEW d, IsStore(d)
  PROVE  LET e == pruneTraceHistory(d) IN
         IsStore(e) /\ e.spans = Newest(d.spans, MaxSpans) /\ e.openSpans = d.openSpans
<1> DEFINE e == pruneTraceHistory(d)
<1>1. IsStore(e)
  BY PruneDoes DEF Does
<1>2. "spans" \in Fields /\ "openSpans" \in Fields
  BY FieldsAre, PanelsAre
<1>3. e.spans = Newest(d.spans, MaxSpans) /\ e.openSpans = d.openSpans
  BY <1>2, FieldsAre DEF IsStore, pruneTraceHistory
<1> QED BY <1>1, <1>3

Closed(ts, key, start) ==
  [key |-> key, orphan |-> FALSE, start |-> start, end |-> ts, duration |-> (ts + 64 - start) % 64]

(* What a record of the kind k makes of the spans of d.                    *)
SpansBecome(d, e, k, ts, key) ==
  /\ k = "span_begin" => e.spans = d.spans /\ e.openSpans = Set(d.openSpans, key, ts)
  /\ k = "span_end" /\ key \in DOMAIN d.openSpans =>
       /\ e.spans = Newest(Append(d.spans, Closed(ts, key, d.openSpans[key])), MaxSpans)
       /\ e.openSpans = Restrict(d.openSpans, DOMAIN d.openSpans \ {key})
  /\ k = "span_end" /\ key \notin DOMAIN d.openSpans =>
       e.spans = Newest(Append(d.spans, Orphan(ts, key)), MaxSpans) /\ e.openSpans = d.openSpans
  /\ k \in {"mark", "value", "drop"} => e.spans = Newest(d.spans, MaxSpans) /\ e.openSpans = d.openSpans

LEMMA TraceSpans ==
  ASSUME NEW d, IsStore(d), NEW p, NEW k \in TraceKinds
  PROVE  SpansBecome(d, decodeTrace(d, k, p), k, p[1], p[2])
<1> DEFINE e == decodeTrace(d, k, p)
<1>1. {"spans", "openSpans", "marks", "values", "latestValues", "drops"} \subseteq DOMAIN PanelOf
      /\ {"spans", "openSpans", "marks", "values", "latestValues", "drops"} \subseteq Fields
  BY PanelsAre, FieldsAre
<1>2. ASSUME NEW g, IsStore(g), e = requestRender(addLog(g, k, p), "trace")
      PROVE  e.spans = g.spans /\ e.openSpans = g.openSpans
  <2>1. SameSpans(g, requestRender(addLog(g, k, p), "trace"))
    BY <1>2, LoggedSpans
  <2> QED BY <1>2, <2>1 DEF SameSpans
<1>3. ASSUME NEW g, IsStore(g), e = requestRender(addLog(pruneTraceHistory(g), k, p), "trace")
      PROVE  e.spans = Newest(g.spans, MaxSpans) /\ e.openSpans = g.openSpans
  <2>1. IsStore(pruneTraceHistory(g)) /\ pruneTraceHistory(g).spans = Newest(g.spans, MaxSpans)
        /\ pruneTraceHistory(g).openSpans = g.openSpans
    BY <1>3, PrunedSpans
  <2> QED BY <1>2, <1>3, <2>1
<1>4. CASE k = "span_begin"
  <2> DEFINE g == [d EXCEPT !["openSpans"] = Set(d.openSpans, p[2], p[1])]
  <2>1. e = requestRender(addLog(g, k, p), "trace")
    BY <1>4 DEF decodeTrace, beginTraceSpan
  <2>2. IsStore(g) /\ g.openSpans = Set(d.openSpans, p[2], p[1]) /\ g.spans = d.spans
    BY <1>1, PutIs
  <2> HIDE DEF e, g
  <2>3. e.spans = g.spans /\ e.openSpans = g.openSpans
    BY <1>2, <2>1, <2>2
  <2> QED BY <1>4, <2>2, <2>3 DEF e, SpansBecome
<1>5. CASE k = "span_end" /\ p[2] \in DOMAIN d.openSpans
  <2> DEFINE x == Restrict(d.openSpans, DOMAIN d.openSpans \ {p[2]})
             y == Append(d.spans, Closed(p[1], p[2], d.openSpans[p[2]]))
             h == [d EXCEPT !["openSpans"] = x]
             g == [h EXCEPT !["spans"] = y]
  <2>1. IsStore(h) /\ h.openSpans = x /\ h.spans = d.spans
    BY <1>1, PutIs
  <2>2. endTraceSpan(d, p[1], p[2]) = pruneTraceHistory(g)
    BY <1>5, <2>1 DEF endTraceSpan, Closed
  <2>3. e = requestRender(addLog(pruneTraceHistory(g), k, p), "trace")
    BY <1>5, <2>2 DEF decodeTrace
  <2> HIDE DEF e, x, y, h
  <2>4. IsStore(g) /\ g.spans = y /\ g.openSpans = h.openSpans
    BY <1>1, <2>1, PutIs
  <2> HIDE DEF g
  <2>5. e.spans = Newest(g.spans, MaxSpans) /\ e.openSpans = g.openSpans
    BY <1>3, <2>3, <2>4
  <2>6. e.spans = Newest(y, MaxSpans) /\ e.openSpans = x
    BY <2>1, <2>4, <2>5
  <2> QED BY <1>5, <2>6 DEF e, x, y, SpansBecome
<1>6. CASE k = "span_end" /\ p[2] \notin DOMAIN d.openSpans
  <2> DEFINE y == Append(d.spans, Orphan(p[1], p[2]))
             g == [d EXCEPT !["spans"] = y]
  <2>2. e = requestRender(addLog(pruneTraceHistory(g), k, p), "trace")
    BY <1>6 DEF decodeTrace, endTraceSpan
  <2> HIDE DEF e, y
  <2>1. IsStore(g) /\ g.spans = y /\ g.openSpans = d.openSpans
    BY <1>1, PutIs
  <2> HIDE DEF g
  <2>3. e.spans = Newest(g.spans, MaxSpans) /\ e.openSpans = g.openSpans
    BY <1>3, <2>1, <2>2
  <2>4. e.spans = Newest(y, MaxSpans) /\ e.openSpans = d.openSpans
    BY <2>1, <2>3
  <2> QED BY <1>6, <2>4 DEF e, y, SpansBecome
<1>7. ASSUME k \in {"mark", "drop"}, NEW f \in {"marks", "drops"}, NEW x,
             e = requestRender(addLog(pruneTraceHistory([d EXCEPT ![f] = x]), k, p), "trace")
      PROVE  e.spans = Newest(d.spans, MaxSpans) /\ e.openSpans = d.openSpans
  <2> DEFINE g == [d EXCEPT ![f] = x]
  <2>1. IsStore(g) /\ g.spans = d.spans /\ g.openSpans = d.openSpans
    BY <1>1, PutIs
  <2> HIDE DEF e
  <2>2. e.spans = Newest(g.spans, MaxSpans) /\ e.openSpans = g.openSpans
    BY <1>3, <1>7, <2>1
  <2> QED BY <2>1, <2>2
<1>9. CASE k = "mark"
  <2>1. e = requestRender(addLog(pruneTraceHistory([d EXCEPT !["marks"] = Append(d.marks, p)]), k, p), "trace")
    BY <1>9 DEF decodeTrace
  <2> QED BY <1>7, <1>9, <2>1 DEF SpansBecome
<1>10. CASE k = "drop"
  <2>1. e = requestRender(addLog(pruneTraceHistory([d EXCEPT !["drops"] = Append(d.drops, p)]), k, p), "trace")
    BY <1>10 DEF decodeTrace
  <2> QED BY <1>7, <1>10, <2>1 DEF SpansBecome
<1>8. CASE k = "value"
  <2>1. PICK x, y : e = requestRender(addLog(pruneTraceHistory(
                          [[d EXCEPT !["values"] = x] EXCEPT !["latestValues"] = y]), k, p), "trace")
    BY <1>8 DEF decodeTrace
  <2> DEFINE h == [d EXCEPT !["values"] = x]
             g == [h EXCEPT !["latestValues"] = y]
  <2>2. IsStore(h) /\ h.spans = d.spans /\ h.openSpans = d.openSpans
    BY <1>1, PutIs
  <2>3. e = requestRender(addLog(pruneTraceHistory(g), k, p), "trace")
    BY <2>1
  <2> HIDE DEF e, h
  <2>4. IsStore(g) /\ g.spans = h.spans /\ g.openSpans = h.openSpans
    BY <1>1, <2>2, PutIs
  <2> HIDE DEF g
  <2>5. e.spans = Newest(g.spans, MaxSpans) /\ e.openSpans = g.openSpans
    BY <1>3, <2>3, <2>4
  <2> QED BY <1>8, <2>2, <2>4, <2>5 DEF e, SpansBecome
<1> QED BY <1>4, <1>5, <1>6, <1>8, <1>9, <1>10 DEF TraceKinds, SpansBecome

LEMMA FrameTraces ==
  ASSUME NEW d, IsStore(d), NEW raw \in Bytes, Len(raw) \in 5 .. 5 + MAX_PAYLOAD, TraceFrame(raw)
  PROVE  LET e == decodeFrame(d, raw) IN
         /\ Len(raw) < 8 => SameSpans(d, e)
         /\ Len(raw) >= 8 => SpansBecome(d, e, Kind(raw[3]), raw[5], raw[6])
<1> DEFINE c == [d EXCEPT !.frames = @ + 1, !.seen = Append(@, raw)]
           p == SubSeq(raw, 5, Len(raw) - 1)
           k == Kind(raw[3])
           e == decodeFrame(d, raw)
<1>1. IsStore(c) /\ SameSpans(d, c)
  <2>1. c = [f \in Fields |-> IF f = "frames" THEN d.frames + 1
                              ELSE IF f = "seen" THEN Append(d.seen, raw) ELSE d[f]]
    BY FieldsAre, PanelsAre DEF IsStore
  <2> HIDE DEF c
  <2>2. c = [f \in Fields |-> c[f]] /\ c.ask = d.ask /\ c.seen = Append(d.seen, raw)
        /\ \A f \in {"spans", "openSpans"} : c[f] = d[f]
    BY <2>1, FieldsAre, PanelsAre
  <2>3. Append(d.seen, raw) \in Seq(Seq(ByteRange)) /\ d.ask \subseteq Panels
    <3> DEFINE B == Seq(ByteRange)
    <3>1. raw \in B /\ d.seen \in Seq(B) /\ d.ask \subseteq Panels
      BY DEF IsStore, Bytes
    <3> HIDE DEF B
    <3>2. Append(d.seen, raw) \in Seq(B)
      BY <3>1
    <3> QED BY <3>1, <3>2 DEF B
  <2> QED BY <2>2, <2>3 DEF IsStore, SameSpans
<1>2. Len(p) = Len(raw) - 5 /\ \A i \in 1 .. Len(raw) - 5 : p[i] = raw[4 + i]
  <2> DEFINE j == Len(raw) - 1
             m == 5
  <2>0. p = SubSeq(raw, m, j)
    OBVIOUS
  <2> PICK n : n = Len(raw)
    OBVIOUS
  <2> HIDE DEF p
  <2>1. j \in Nat /\ m \in Nat \ {0} /\ m <= j + 1 /\ j <= Len(raw) /\ j - m + 1 = Len(raw) - 5 /\ m = 5
    <3> HIDE DEF TraceFrame
    <3> QED BY PayloadIs
  <2> HIDE DEF j, m, p
  <2>2. Len(p) = j - m + 1 /\ \A i \in 1 .. j - m + 1 : p[i] = raw[m + i - 1]
    BY <2>0, <2>1, SubIs
  <2>3. \A i \in 1 .. Len(raw) - 5 : m + i - 1 = 4 + i
    BY <2>1
  <2> QED BY <2>1, <2>2, <2>3
<1> HIDE DEF c, p
<1>3. e = CASE k = "snapshot" -> decodeProfilerSnapshot(c, p)
       [] k = "alert" -> decodeProfilerAlert(c, p)
       [] k \in LaKinds -> decodeLogicAnalyzerFrame(c, k, p)
       [] k \in {"heartbeat", "print", "event", "watch", "status"} /\ Fits(k, Len(p)) ->
            decodeDebug(c, k, p)
       [] k \in {"span_begin", "span_end", "mark", "value", "drop"} /\ Fits(k, Len(p)) ->
            decodeTrace(c, k, p)
       [] Responds(k, p) -> decodeMonitor(c, k, p)
       [] k \in {"read_resp", "write_resp", "monitor_reserved"} /\ ~Responds(k, p) ->
            requestRender([unknown(c) EXCEPT !.monitor = addMonitorError(@, k)], "monitor")
       [] k = "profiler_reserved" -> recordProfilerMalformed(unknown(c), k, p)
       [] OTHER -> unknown(c)
  BY DEF decodeFrame, c, p, TraceFrame
<1>4. k \in TraceKinds
  BY DEF TraceFrame
<1> HIDE DEF e, k
<1>5. Fits(k, Len(p)) <=> Len(raw) >= 8
  <2>1. Fits(k, Len(p)) <=> Len(p) >= 3
    BY <1>4 DEF Fits, AtLeast, TraceKinds
  <2> QED BY <1>2, <2>1, PayloadIs
<1>6. CASE Len(raw) >= 8
  <2>1. e = decodeTrace(c, k, p)
    BY <1>3, <1>4, <1>5, <1>6 DEF LaKinds, Responds, TraceKinds
  <2>2. p[1] = raw[5] /\ p[2] = raw[6]
    <3>1. 1 \in 1 .. Len(raw) - 5 /\ 2 \in 1 .. Len(raw) - 5
      BY <1>6, PayloadIs
    <3>2. p[1] = raw[4 + 1] /\ p[2] = raw[4 + 2]
      BY <1>2, <3>1
    <3> QED BY <3>2
  <2>3. SpansBecome(c, e, k, raw[5], raw[6])
    BY <1>1, <1>4, <2>1, <2>2, TraceSpans
  <2>4. c.spans = d.spans /\ c.openSpans = d.openSpans
    BY <1>1 DEF SameSpans
  <2>5. SpansBecome(d, e, k, raw[5], raw[6])
    BY <2>3, <2>4 DEF SpansBecome
  <2> QED BY <1>6, <2>5 DEF e, k
<1>7. CASE Len(raw) < 8
  <2>1. e = unknown(c)
    BY <1>3, <1>4, <1>5, <1>7 DEF LaKinds, Responds, TraceKinds
  <2>2. unknown(c) = [c EXCEPT !["unknownFrames"] = c.unknownFrames + 1]
    BY DEF unknown
  <2>3. SameSpans(c, e)
    <3>1. "unknownFrames" \in DOMAIN PanelOf /\ {"spans", "openSpans"} \subseteq Fields
      BY PanelsAre, FieldsAre
    <3> QED BY <1>1, <2>1, <2>2, <3>1, PutIs DEF SameSpans
  <2>4. SameSpans(d, e)
    BY <1>1, <2>3 DEF SameSpans
  <2> QED BY <1>7, <2>4 DEF e
<1>8. Len(raw) >= 8 \/ Len(raw) < 8
  BY PayloadIs
<1> QED BY <1>6, <1>7, <1>8

(* What a round of the loop does to the spans.                             *)
LEMMA AfterSpans ==
  ASSUME NEW r \in Bytes, ~Waits(r), NEW d, IsStore(d)
  PROVE  LET e == After(r, d) IN
         /\ IsStore(e)
         /\ ~IsFrame(r) => e.seen = d.seen /\ SameSpans(d, e)
         /\ IsFrame(r) => e.seen = Append(d.seen, Raw(r))
         /\ IsFrame(r) /\ ~(TraceFrame(Raw(r)) /\ Len(Raw(r)) >= 8) => SameSpans(d, e)
         /\ IsFrame(r) /\ TraceFrame(Raw(r)) /\ Len(Raw(r)) >= 8 =>
              SpansBecome(d, e, Kind(Raw(r)[3]), Raw(r)[5], Raw(r)[6])
<1> DEFINE e == After(r, d)
           raw == Raw(r)
<1>1. IsStore(e) /\ e.seen = IF IsFrame(r) THEN Append(d.seen, raw) ELSE d.seen
  BY AfterDoes DEF Shows
<1>2. CASE IsFrame(r)
  <2>1. raw \in Bytes /\ Len(raw) = 5 + r[4] /\ r[4] \in 0 .. MAX_PAYLOAD /\ \A i \in 1 .. 5 + r[4] : raw[i] = r[i]
    BY <1>2, RawIs DEF IsFrame
  <2>2. e = decodeFrame(d, raw)
    BY <1>2 DEF After, IsFrame, Raw
  <2>3. raw[4] = r[4] /\ Len(raw) \in 5 .. 5 + MAX_PAYLOAD
    BY <2>1, PayloadIs
  <2> HIDE DEF e, raw
  <2>4. ~TraceFrame(raw) => SameSpans(d, e)
    BY <2>1, <2>2, <2>3, FrameDoes DEF Bytes
  <2>5. TraceFrame(raw) => /\ Len(raw) < 8 => SameSpans(d, e)
                           /\ Len(raw) >= 8 => SpansBecome(d, e, Kind(raw[3]), raw[5], raw[6])
    BY <2>1, <2>2, <2>3, FrameTraces
  <2> QED BY <1>1, <1>2, <2>4, <2>5 DEF e, raw
<1>3. CASE ~IsFrame(r)
  <2>0. \/ e = [d EXCEPT !["syncDrops"] = d.syncDrops + 1]
        \/ e = [d EXCEPT !["checksumErrors"] = d.checksumErrors + 1]
    BY <1>3 DEF IsFrame, After
  <2>1. {"syncDrops", "checksumErrors"} \subseteq DOMAIN PanelOf /\ {"spans", "openSpans"} \subseteq Fields
    BY PanelsAre, FieldsAre
  <2> HIDE DEF e
  <2>2. ASSUME NEW f \in {"syncDrops", "checksumErrors"}, NEW x, e = [d EXCEPT ![f] = x]
        PROVE  SameSpans(d, e)
    BY <2>1, <2>2, PutIs DEF SameSpans
  <2>3. SameSpans(d, e)
    BY <2>0, <2>2
  <2> QED BY <1>1, <1>3, <2>3 DEF e
<1> QED BY <1>2, <1>3

-----------------------------------------------------------------------------
(* What the FPGA wrote into its frames.                                    *)
Full(raw, ts, key) == Len(raw) = 8 /\ raw[5] = ts /\ raw[6] = key /\ raw[7] \in {0, SOF}
Written(kind, key, ts, raw) ==
  /\ kind \in Catalog /\ raw[2] = VERSION /\ raw[3] = Type[kind]
  /\ Full(raw, ts, key) \/ (Len(raw) = 5 /\ kind \notin Usual)
Made(f) ==
  /\ f.fate = "skipped" => f.raw = <<>>
  /\ f.fate # "skipped" => Written(f.kind, f.key, f.ts, f.raw)
MadeInv == \A i \in Indexes : frames[i].ts = (60 + i) % 64 /\ Made(frames[i])

LEMMA RawWritten ==
  ASSUME Len(frames) \in Nat, NEW kind \in Catalog, NEW key \in Keys, NEW raw \in RawFrames(kind, key)
  PROVE  Written(kind, key, Now, raw)
<1>1. Type[kind] \in ByteRange /\ key \in ByteRange
  BY SMTT(30), FramesAssumption DEF Type, ByteRange
<1>2. Now \in ByteRange /\ {0, SOF} \subseteq ByteRange
  BY NowIs DEF ByteRange, SOF
<1> DEFINE type == Type[kind]
           ts == Now
<1> HIDE DEF type, ts
<1>3. type \in ByteRange /\ ts \in ByteRange
  BY <1>1, <1>2 DEF type, ts
<1>4. ASSUME NEW arg \in {0, SOF}, raw = frame(type, <<ts, key, arg>>)
      PROVE  raw[2] = VERSION /\ raw[3] = type /\ Full(raw, ts, key)
  <2> DEFINE payload == <<ts, key, arg>>
  <2>1. payload \in Bytes /\ Len(payload) = 3 /\ payload[1] = ts /\ payload[2] = key /\ payload[3] = arg
    BY <1>1, <1>2, <1>3 DEF Bytes
  <2> HIDE DEF payload
  <2>2. Len(payload) \in 0 .. 3
    BY <2>1
  <2>3. /\ Len(frame(type, payload)) = 5 + Len(payload)
        /\ frame(type, payload)[2] = VERSION /\ frame(type, payload)[3] = type
        /\ \A k \in 1 .. Len(payload) : frame(type, payload)[4 + k] = payload[k]
    BY <1>3, <2>1, <2>2, FrameSound
  <2>4. raw = frame(type, payload)
    BY <1>4 DEF payload
  <2> HIDE DEF VERSION, SOF
  <2>5. 1 \in 1 .. Len(payload) /\ 2 \in 1 .. Len(payload) /\ 3 \in 1 .. Len(payload)
    BY <2>1
  <2>6. raw[4 + 1] = ts /\ raw[4 + 2] = key /\ raw[4 + 3] = arg
    BY <2>1, <2>3, <2>4, <2>5
  <2>7. Len(raw) = 8 /\ raw[2] = VERSION /\ raw[3] = type
    BY <2>1, <2>3, <2>4
  <2> QED BY <2>6, <2>7 DEF Full
<1>5. ASSUME raw = frame(type, <<>>)
      PROVE  raw[2] = VERSION /\ raw[3] = type /\ Len(raw) = 5
  <2>1. <<>> \in Bytes /\ Len(<<>>) \in 0 .. 3 /\ Len(<<>>) = 0
    BY DEF Bytes
  <2>2. Len(frame(type, <<>>)) = 5 + Len(<<>>) /\ frame(type, <<>>)[2] = VERSION /\ frame(type, <<>>)[3] = type
    BY <1>3, <2>1, FrameSound
  <2> QED BY <1>5, <2>1, <2>2
<1>6. \/ \E arg \in {0, SOF} : raw = frame(type, <<ts, key, arg>>)
      \/ raw = frame(type, <<>>) /\ kind \notin Usual
  BY FramesAssumption DEF RawFrames, type, ts
<1> QED BY <1>4, <1>5, <1>6 DEF Written, type, ts

LEMMA MadeAdded ==
  ASSUME MadeInv, frames \in Seq(Entries), NEW f \in Entries, frames' = Append(frames, f),
         f.ts = Now, Made(f)
  PROVE  MadeInv'
<1> PICK n : n = Len(frames)
  OBVIOUS
<1>1. n \in Nat /\ Len(frames') = n + 1 /\ frames'[n + 1] = f /\ \A i \in 1 .. n : frames'[i] = frames[i]
  OBVIOUS
<1>2. Now = (60 + (n + 1)) % 64
  <2>1. 61 + n = 60 + (n + 1)
    BY <1>1
  <2> QED BY <2>1 DEF Now
<1>3. ASSUME NEW i \in 1 .. n + 1 PROVE frames'[i].ts = (60 + i) % 64 /\ Made(frames'[i])
  <2>1. CASE i = n + 1
    BY <1>1, <1>2, <2>1
  <2>2. CASE i # n + 1
    <3>1. i \in 1 .. n
      BY <1>1, <2>2
    <3> QED BY <1>1, <3>1 DEF MadeInv, Indexes
  <2> QED BY <2>1, <2>2
<1>4. \A i \in 1 .. n + 1 : Made(frames'[i]) => Made(frames[i])'
  BY DEF Made, Written, Full
<1> QED BY <1>1, <1>3, <1>4 DEF MadeInv, Indexes

LEMMA NextMade ==
  ASSUME ScreenInv, MadeInv, [Next]_vars
  PROVE  MadeInv'
<1>1. /\ stream \in Bytes /\ frames \in Seq(Entries) /\ Len(frames) \in Nat
  BY DEF ScreenInv, TypeOK, Bytes
<1>2. ASSUME frames' = frames PROVE MadeInv'
  BY <1>2 DEF MadeInv, Indexes, Made, Written, Full
<1>3. CASE Send
  <2>1. PICK kind \in Catalog, key \in Keys, raw \in Bytes, fate \in {"whole", "hurt"} :
           raw \in RawFrames(kind, key) /\ frames' = Append(frames, Entry(kind, key, raw, fate))
    BY <1>1, <1>3, SendAdds
  <2> DEFINE f == Entry(kind, key, raw, fate)
  <2>2. f \in Entries
    BY <1>1, EntryIs
  <2>3. f.ts = Now /\ f.kind = kind /\ f.key = key /\ f.raw = raw /\ f.fate # "skipped"
    BY DEF Entry
  <2>4. Written(kind, key, Now, raw)
    BY <1>1, <2>1, RawWritten
  <2>5. Made(f)
    <3> HIDE DEF f
    <3> QED BY <2>3, <2>4 DEF Made
  <2> HIDE DEF f
  <2>6. frames' = Append(frames, f)
    BY <2>1 DEF f
  <2> QED BY <1>1, <2>2, <2>3, <2>5, <2>6, MadeAdded
<1>4. CASE Skip
  <2>1. PICK kind \in Usual, key \in Keys : frames' = Append(frames, Entry(kind, key, <<>>, "skipped"))
    BY <1>4 DEF Skip
  <2> DEFINE f == Entry(kind, key, <<>>, "skipped")
  <2>2. f \in Entries
    <3>1. <<>> \in Bytes
      BY DEF Bytes
    <3> QED BY <1>1, <3>1, EntryIs
  <2>3. f.ts = Now /\ f.raw = <<>> /\ f.fate = "skipped"
    BY DEF Entry
  <2> HIDE DEF f
  <2>4. Made(f)
    BY <2>3 DEF Made
  <2>5. frames' = Append(frames, f)
    BY <2>1 DEF f
  <2> QED BY <1>1, <2>2, <2>3, <2>4, <2>5, MadeAdded
<1>5. ASSUME NEW n, Receive(n) PROVE MadeInv'
  BY <1>2, <1>5 DEF Receive
<1>6. flushRender \/ setPaused(~paused) \/ clearAll \/ UNCHANGED vars => frames' = frames
  BY DEF flushRender, setPaused, clearAll, vars
<1> QED BY <1>2, <1>3, <1>4, <1>5, <1>6 DEF Next

LEMMA InitMade ==
  ASSUME Init
  PROVE  MadeInv
BY DEF Init, MadeInv, Indexes

-----------------------------------------------------------------------------
(* A frame that no decoder of the spans reads.                             *)
Foreign(raw) == raw[2] # VERSION \/ ~Known(raw[3])

LEMMA TypesAre ==
  ASSUME NEW k \in DOMAIN Type
  PROVE  Known(Type[k]) /\ Kind(Type[k]) = k /\ Type[k] # SOF /\ Type[k] # 0
<1>1. Known(Type[k])
  BY DEF Known
<1>2. Kind(Type[k]) = k
  BY <1>1, KindIs
<1>3. Type[k] # SOF /\ Type[k] # 0
  BY DEF Type, SOF
<1> QED BY <1>1, <1>2, <1>3

(* What the parser takes for a frame where none starts is foreign.         *)
LEMMA NoFalseStart ==
  ASSUME Placed, MadeInv, NEW h \in Indexes, frames[h].fate = "whole",
         \A i \in Indexes : frames[i].fate # "hurt",
         NEW X \in Nat, frames[h].start < X, X < Ends(h), X + 5 <= taken, stream[X + 1] = SOF
  PROVE  stream[X + 2] # VERSION \/ ~Known(stream[X + 3])
<1> DEFINE raw == frames[h].raw
           S == frames[h].start
<1>1. Sound(raw) /\ Carries(h, raw) /\ Ends(h) = S + Len(raw) /\ S \in Nat /\ Ends(h) \in Nat
  BY Lengths DEF Placed, Indexes
<1>2. Written(frames[h].kind, frames[h].key, frames[h].ts, raw) /\ frames[h].kind \in DOMAIN Type
  BY FramesAssumption DEF MadeInv, Made, Written
<1>3. raw[1] = SOF /\ raw[2] = VERSION /\ raw[3] # SOF /\ raw[3] # 0
      /\ Len(raw) = 5 + raw[4]
  BY <1>1, <1>2, TypesAre DEF Sound, Starts, Written
<1>4. \/ Len(raw) = 8 /\ raw[4] = 3 /\ raw[7] \in {0, SOF}
      \/ Len(raw) = 5 /\ raw[4] = 0
  <2>1. (Len(raw) = 8 /\ raw[7] \in {0, SOF}) \/ Len(raw) = 5
    BY <1>2 DEF Written, Full
  <2>2. raw[4] \in Nat /\ Len(raw) = 5 + raw[4]
    BY <1>1, Fourth DEF Sound
  <2> HIDE DEF raw
  <2>3. ASSUME NEW n, NEW v \in Nat, n = 5 + v PROVE (n = 8 => v = 3) /\ (n = 5 => v = 0)
    BY <2>3
  <2>4. (Len(raw) = 8 => raw[4] = 3) /\ (Len(raw) = 5 => raw[4] = 0)
    BY <2>2, <2>3
  <2> QED BY <2>1, <2>4
<1>5. \A k \in 1 .. Len(raw) : stream[S + k] = raw[k]
  BY <1>1 DEF Carries
<1>6. taken \in Nat /\ Len(stream) \in Nat /\ taken <= Len(stream) /\ frames \in Seq(Entries) /\ StreamInv
  BY DEF Placed, Bytes
<1>7. Ends(h) < taken => stream[Ends(h) + 1] = SOF
  <2> SUFFICES ASSUME Ends(h) < taken PROVE stream[Ends(h) + 1] = SOF
    OBVIOUS
  <2> DEFINE E == Ends(h)
  <2>1. E \in Nat /\ E < Len(stream)
    BY <1>1, <1>6
  <2> HIDE DEF E
  <2>2. PICK j \in 1 .. Len(frames) : frames[j].start <= E /\ E < Ends(j)
    BY <1>6, <2>1, Covers
  <2>3. j \in Indexes /\ frames[j].start \in Nat /\ Ends(j) \in Nat
    BY <2>2, Frame DEF Indexes
  <2>4. j # h
    BY <2>1, <2>2, <2>3 DEF E
  <2>5. frames[j].start = E
    <3>1. Ends(h) <= frames[j].start \/ Ends(j) <= frames[h].start
      BY <2>3, <2>4, Apart
    <3>2. S < E
      BY <1>1, <2>1 DEF E
    <3> HIDE DEF S
    <3>3. E <= frames[j].start \/ Ends(j) <= S
      BY <3>1 DEF S, E
    <3> QED BY <1>1, <2>1, <2>2, <2>3, <3>2, <3>3
  <2>6. frames[j].fate = "whole"
    <3>1. frames[j].start < Ends(j)
      BY <2>2, <2>5
    <3> QED BY <2>3, <3>1, Frame
  <2>7. Sound(frames[j].raw) /\ Carries(j, frames[j].raw)
    BY <1>6, <2>2, <2>6, Lengths
  <2>8. stream[frames[j].start + 1] = frames[j].raw[1] /\ frames[j].raw[1] = SOF
    <3>1. Len(frames[j].raw) \in Nat /\ Len(frames[j].raw) >= 5
      BY <2>7 DEF Sound, Bytes
    <3>2. 1 \in 1 .. Len(frames[j].raw)
      BY <3>1
    <3> QED BY <2>7, <3>2 DEF Sound, Starts, Carries
  <2> QED BY <2>5, <2>8 DEF E
<1>8. ~Known(0) /\ ~Known(SOF) /\ SOF # VERSION /\ VERSION # 0
  BY TypesAre DEF Known, SOF, VERSION
<1> PICK n : n = Len(raw)
  OBVIOUS
<1> PICK o : o = X - S
  OBVIOUS
<1>9. o \in 1 .. n - 1 /\ X = S + o /\ n \in {5, 8} /\ Ends(h) = S + n /\ S \in Nat
  <2>1. n \in {5, 8} /\ Ends(h) = S + n /\ S \in Nat /\ S < X
    BY <1>1, <1>4
  <2> HIDE DEF S, raw
  <2>2. o = X - S /\ S < X /\ X < S + n /\ S \in Nat /\ X \in Nat
    BY <2>1
  <2>3. o \in 1 .. n - 1 /\ X = S + o
    BY <2>1, <2>2
  <2> QED BY <2>1, <2>3
<1> HIDE DEF raw, S
<1>10. raw[o + 1] = SOF /\ (o + 2 <= n => stream[X + 2] = raw[o + 2]) /\ (o + 3 <= n => stream[X + 3] = raw[o + 3])
  <2>1. X + 1 = S + (o + 1) /\ X + 2 = S + (o + 2) /\ X + 3 = S + (o + 3)
    BY <1>1, <1>9
  <2>2. ASSUME NEW m \in Nat, NEW q \in 1 .. m - 1
        PROVE  q + 1 \in 1 .. m /\ (q + 2 <= m => q + 2 \in 1 .. m) /\ (q + 3 <= m => q + 3 \in 1 .. m)
    OBVIOUS
  <2>3. n \in Nat
    BY <1>9
  <2>4. o + 1 \in 1 .. n /\ (o + 2 <= n => o + 2 \in 1 .. n) /\ (o + 3 <= n => o + 3 \in 1 .. n)
    BY <1>9, <2>2, <2>3
  <2> QED BY <1>5, <2>1, <2>4
<1>11. /\ o + 1 = n => stream[X + 2] = SOF
       /\ o + 2 = n => stream[X + 3] = SOF
  <2>1. o + 1 = n => Ends(h) < taken /\ Ends(h) + 1 = X + 2
    <3> SUFFICES ASSUME o + 1 = n PROVE Ends(h) < taken /\ Ends(h) + 1 = X + 2
      OBVIOUS
    <3>1. Ends(h) = X + 1
      BY <1>9
    <3>2. Ends(h) < taken
      BY <1>6, <3>1
    <3>3. Ends(h) + 1 = X + 2
      BY <3>1
    <3> QED BY <3>2, <3>3
  <2>2. o + 2 = n => Ends(h) < taken /\ Ends(h) + 1 = X + 3
    <3> SUFFICES ASSUME o + 2 = n PROVE Ends(h) < taken /\ Ends(h) + 1 = X + 3
      OBVIOUS
    <3>1. Ends(h) = X + 2
      BY <1>9
    <3> QED BY <1>6, <3>1
  <2> QED BY <1>7, <2>1, <2>2
<1>12. CASE n = 8
  <2>1. o \in {4, 5, 6, 7}
    <3>1. raw[2] # SOF /\ raw[3] # SOF /\ raw[4] # SOF
      BY <1>3, <1>4, <1>8, <1>12 DEF SOF
    <3>2. o # 1 /\ o # 2 /\ o # 3
      BY <1>10, <3>1
    <3> QED BY <1>9, <1>12, <3>2
  <2>2. raw[7] = 0 \/ raw[7] = SOF
    BY <1>4, <1>12
  <2>3. CASE o = 4
    BY <1>8, <1>10, <1>12, <2>2, <2>3
  <2>4. CASE o = 5
    BY <1>8, <1>10, <1>12, <2>2, <2>4
  <2>5. CASE o = 6
    BY <1>8, <1>11, <1>12, <2>5
  <2>6. CASE o = 7
    BY <1>8, <1>11, <1>12, <2>6
  <2> QED BY <2>1, <2>3, <2>4, <2>5, <2>6
<1>13. CASE n = 5
  <2>1. o = 4
    <3>1. raw[2] # SOF /\ raw[3] # SOF /\ raw[4] # SOF
      BY <1>3, <1>4, <1>8, <1>13 DEF SOF
    <3>2. o # 1 /\ o # 2 /\ o # 3
      BY <1>10, <3>1
    <3> QED BY <1>9, <1>13, <3>2
  <2> QED BY <1>8, <1>11, <1>13, <2>1
<1> QED BY <1>9, <1>12, <1>13

(* The bytes that are left of those that arrived.                          *)
LEMMA ArrivedLeft ==
  ASSUME Placed, base \in Nat, base <= taken, NEW x \in 0 .. Len(Arrived)
  PROVE  /\ Arrived \in Bytes /\ Len(Arrived) = taken - base
         /\ From(Arrived, x) \in Bytes /\ Len(From(Arrived, x)) = taken - base - x
         /\ \A k \in 1 .. taken - base - x : From(Arrived, x)[k] = stream[base + x + k]
<1>1. stream \in Bytes /\ taken \in Nat /\ taken <= Len(stream)
  BY DEF Placed
<1>2. Arrived \in Bytes /\ Len(Arrived) = taken - base /\ \A k \in 1 .. taken - base : Arrived[k] = stream[base + k]
  BY <1>1, SliceIs DEF Arrived
<1>3. From(Arrived, x) \in Bytes /\ Len(From(Arrived, x)) = Len(Arrived) - x
      /\ \A k \in 1 .. Len(Arrived) - x : From(Arrived, x)[k] = Arrived[x + k]
  BY <1>2, FromIs
<1>4. ASSUME NEW k \in 1 .. taken - base - x PROVE From(Arrived, x)[k] = stream[base + x + k]
  <2>1. x + k \in 1 .. taken - base /\ base + (x + k) = base + x + k /\ k \in 1 .. Len(Arrived) - x
    BY <1>1, <1>2
  <2> QED BY <1>2, <1>3, <2>1
<1> QED BY <1>2, <1>3, <1>4

(* A frame that the parser finds is one that went out whole, or foreign.   *)
LEMMA RoundFinds ==
  ASSUME Placed, MadeInv, base \in Nat, base <= taken, \A i \in Indexes : frames[i].fate # "hurt",
         NEW x \in 0 .. Len(Arrived), ~Waits(From(Arrived, x)), IsFrame(From(Arrived, x))
  PROVE  LET raw == Raw(From(Arrived, x)) IN
         \/ Foreign(raw)
         \/ \E i \in Indexes : /\ frames[i].fate = "whole" /\ frames[i].start = base + x
                               /\ raw = frames[i].raw
<1> DEFINE r == From(Arrived, x)
           X == base + x
           L == taken - base - x
<1>1. /\ r \in Bytes /\ Len(r) = L /\ \A k \in 1 .. L : r[k] = stream[X + k]
      /\ Len(Arrived) = taken - base
  BY ArrivedLeft
<1>2. Starts(r) /\ ~Waits(r)
  BY DEF IsFrame
<1>3. taken \in Nat /\ Len(stream) \in Nat /\ taken <= Len(stream) /\ frames \in Seq(Entries) /\ StreamInv
  BY DEF Placed, Bytes
<1>4. x \in Nat /\ X \in Nat /\ L \in Nat /\ X + L = taken
  BY <1>1, <1>3
<1> HIDE DEF r, X, L
<1>5. Raw(r) \in Bytes /\ Len(Raw(r)) = 5 + r[4] /\ r[4] \in 0 .. MAX_PAYLOAD
      /\ \A i \in 1 .. 5 + r[4] : Raw(r)[i] = r[i]
  BY <1>1, <1>2, RawIs
<1>6. 5 + r[4] <= L
  BY <1>1, <1>2, <1>4, <1>5 DEF Waits
<1> PICK n : n = 5 + r[4]
  OBVIOUS
<1>7. n \in 5 .. 5 + MAX_PAYLOAD /\ n <= L
  BY <1>5, <1>6, PayloadIs
<1>8. \A k \in 1 .. n : Raw(r)[k] = stream[X + k]
  <2> TAKE k \in 1 .. n
  <2>1. k \in 1 .. L
    BY <1>4, <1>7
  <2> QED BY <1>1, <1>5, <2>1
<1>9. stream[X + 1] = SOF
  <2>1. 1 \in 1 .. L
    BY <1>4, <1>7
  <2>2. r[1] = stream[X + 1]
    BY <1>1, <2>1
  <2> QED BY <1>2, <2>2 DEF Starts
<1>10. X + 5 <= taken /\ X < Len(stream)
  BY <1>3, <1>4, <1>7
<1>11. PICK h \in Indexes : frames[h].start <= X /\ X < Ends(h)
  BY <1>3, <1>4, <1>10, Covers DEF Indexes
<1>12. frames[h].start \in Nat /\ Ends(h) \in Nat /\ frames[h].start < Ends(h)
  <2>1. frames[h].start \in Nat /\ Ends(h) \in Nat
    BY Frame
  <2> QED BY <1>4, <1>11, <2>1
<1>13. frames[h].fate = "whole"
  BY <1>12, Frame
<1>14. CASE frames[h].start < X
  <2>1. stream[X + 2] # VERSION \/ ~Known(stream[X + 3])
    BY <1>4, <1>9, <1>10, <1>11, <1>13, <1>14, NoFalseStart
  <2>2. 2 \in 1 .. n /\ 3 \in 1 .. n
    BY <1>7
  <2>3. Raw(r)[2] = stream[X + 2] /\ Raw(r)[3] = stream[X + 3]
    BY <1>8, <2>2
  <2> QED BY <2>1, <2>3 DEF Foreign, r
<1>15. CASE frames[h].start = X
  <2>1. Sound(frames[h].raw) /\ Carries(h, frames[h].raw)
    BY <1>3, <1>13, Lengths DEF Indexes
  <2> DEFINE raw == frames[h].raw
  <2>2. raw \in Bytes /\ Len(raw) = 5 + raw[4] /\ Len(raw) >= 5 /\ \A k \in 1 .. Len(raw) : stream[X + k] = raw[k]
    BY <1>15, <2>1 DEF Sound, Carries
  <2> HIDE DEF raw
  <2>3. 4 \in 1 .. n /\ 4 \in 1 .. Len(raw) /\ 4 \in 1 .. L
    BY <1>4, <1>7, <2>2 DEF Bytes
  <2>4. r[4] = raw[4]
    BY <1>1, <2>2, <2>3
  <2>5. Len(raw) = n /\ Len(Raw(r)) = n
    BY <1>5, <2>2, <2>4
  <2>6. Raw(r) = raw
    BY <1>5, <1>8, <2>2, <2>5, BytesEqual
  <2> QED BY <1>13, <1>15, <2>6 DEF raw, r, X
<1> QED BY <1>4, <1>11, <1>12, <1>14, <1>15

-----------------------------------------------------------------------------
(* What the data tell of the frames that started before the place X: S are *)
(* the frames decoded.                                                     *)
Sent(i, X) == frames[i].fate = "whole" /\ frames[i].start < X
OfSpan(i, key) == frames[i].key = key /\ frames[i].kind \in {"span_begin", "span_end"}
Opened(b, key, ts, X, S) ==
  /\ Sent(b, X) /\ frames[b].key = key /\ frames[b].ts = ts
  /\ \A i \in Indexes : i > b /\ OfSpan(i, key) => frames[i].raw \notin S
Joins(s, b, e, X, S) ==
  /\ Sent(e, X) /\ b < e /\ frames[b].key = s.key /\ frames[e].key = s.key
  /\ s = Closed(frames[e].ts, s.key, frames[b].ts)
  /\ \A i \in Indexes : b < i /\ i < e /\ OfSpan(i, s.key) => frames[i].raw \notin S
Accounted(raw, X) ==
  \/ raw # <<>> /\ Foreign(raw)
  \/ \E i \in Indexes : Sent(i, X) /\ raw = frames[i].raw
Spans == [key : ByteRange, orphan : {TRUE}, end : ByteRange]
         \cup [key : ByteRange, orphan : {FALSE}, start : ByteRange, end : ByteRange, duration : ByteRange]
SpanTold(s, X, S) == s.orphan \/ \E b, e \in Indexes : Joins(s, b, e, X, S)
Recorded(X, d) ==
  /\ IsStore(d) /\ d.spans \in Seq(Spans)
  /\ \A raw \in Seen(d) : Accounted(raw, X)
  /\ \A key \in DOMAIN d.openSpans : \E b \in Indexes : Opened(b, key, d.openSpans[key], X, Seen(d))
  /\ \A n \in 1 .. Len(d.spans) : SpanTold(d.spans[n], X, Seen(d))
Unique == \A i, j \in Indexes : frames[i].ts = frames[j].ts => i = j

(* The times of at most 64 frames are different.                           *)
LEMMA TimesUnique ==
  ASSUME MadeInv, Len(frames) \in Nat, Len(frames) <= 64
  PROVE  Unique
<1>1. \A i \in Indexes : frames[i].ts = (60 + i) % 64 /\ i \in 1 .. 64
  <2>1. \A i \in Indexes : i \in 1 .. 64
    <3>1. ASSUME NEW n \in Nat, n <= 64, NEW i \in 1 .. n PROVE i \in 1 .. 64
      BY <3>1
    <3> QED BY <3>1 DEF Indexes
  <2>2. \A i \in Indexes : frames[i].ts = (60 + i) % 64
    BY DEF MadeInv
  <2> QED BY <2>1, <2>2
<1>2. ASSUME NEW i \in 1 .. 64, NEW j \in 1 .. 64, (60 + i) % 64 = (60 + j) % 64 PROVE i = j
  BY <1>2
<1> QED BY <1>1, <1>2 DEF Unique

(* A record of a span is the only frame with its bytes.                    *)
LEMMA OnlyOne ==
  ASSUME Placed, MadeInv, Unique, NEW i \in Indexes, NEW key, OfSpan(i, key),
         NEW j \in Indexes, frames[j].fate = "whole", frames[i].raw = frames[j].raw
  PROVE  i = j
<1>1. Sound(frames[j].raw)
  BY Lengths DEF Placed, Indexes
<1>2. frames[i].fate # "skipped"
  <2>1. ASSUME frames[i].fate = "skipped" PROVE FALSE
    <3>1. frames[j].raw = <<>> /\ Len(frames[j].raw) >= 5
      BY <1>1, <2>1 DEF MadeInv, Made, Sound
    <3> QED BY <3>1
  <2> QED BY <2>1
<1>3. Full(frames[i].raw, frames[i].ts, frames[i].key)
  <2>1. Written(frames[i].kind, frames[i].key, frames[i].ts, frames[i].raw)
    BY <1>2 DEF MadeInv, Made
  <2>2. frames[i].kind \in Usual
    BY <2>1, SpansAssumption DEF Written, OfSpan
  <2> QED BY <2>1, <2>2 DEF Written
<1>4. Full(frames[j].raw, frames[j].ts, frames[j].key)
  <2>1. Written(frames[j].kind, frames[j].key, frames[j].ts, frames[j].raw)
    BY DEF MadeInv, Made
  <2>2. Len(frames[j].raw) # 5
    BY <1>3 DEF Full
  <2> QED BY <2>1, <2>2 DEF Written
<1>5. frames[i].ts = frames[j].ts
  BY <1>3, <1>4 DEF Full
<1> QED BY <1>5 DEF Unique

(* A record of a span is not foreign, or it never became a frame.          *)
LEMMA SpanKnown ==
  ASSUME MadeInv, NEW i \in Indexes, NEW key, OfSpan(i, key)
  PROVE  frames[i].raw = <<>> \/ ~Foreign(frames[i].raw)
<1>1. CASE frames[i].fate = "skipped"
  BY <1>1 DEF MadeInv, Made
<1>2. CASE frames[i].fate # "skipped"
  <2>1. Written(frames[i].kind, frames[i].key, frames[i].ts, frames[i].raw)
    BY <1>2 DEF MadeInv, Made
  <2>2. frames[i].kind \in DOMAIN Type
    BY <2>1, FramesAssumption DEF Written
  <2>3. frames[i].raw[2] = VERSION /\ Known(frames[i].raw[3])
    BY <2>1, <2>2, TypesAre DEF Written
  <2> QED BY <2>3 DEF Foreign
<1> QED BY <1>1, <1>2

LEMMA NewestIs ==
  ASSUME NEW S, NEW s \in Seq(S), NEW m \in Nat
  PROVE  /\ Newest(s, m) \in Seq(S)
         /\ \A n \in 1 .. Len(Newest(s, m)) : \E k \in 1 .. Len(s) : Newest(s, m)[n] = s[k]
<1>1. CASE ~(Len(s) > m)
  BY <1>1 DEF Newest
<1>2. CASE Len(s) > m
  <2> DEFINE a == Len(s) - m + 1
             N == Len(s)
  <2>1. Newest(s, m) = SubSeq(s, a, N)
    BY <1>2 DEF Newest
  <2>2. a \in Int /\ N \in Nat /\ a >= 1 /\ (\A k \in a .. N : s[k] \in S)
    BY <1>2
  <2> HIDE DEF a, N
  <2>3. /\ SubSeq(s, a, N) \in Seq(S)
        /\ Len(SubSeq(s, a, N)) = IF a <= N THEN N - a + 1 ELSE 0
        /\ \A k \in 1 .. N - a + 1 : SubSeq(s, a, N)[k] = s[a + k - 1]
    BY <2>2, SubSeqProperties
  <2>4. ASSUME NEW n \in 1 .. Len(SubSeq(s, a, N)) PROVE \E k \in 1 .. N : SubSeq(s, a, N)[n] = s[k]
    <3>1. n \in 1 .. N - a + 1 /\ a + n - 1 \in 1 .. N
      BY <2>2, <2>3
    <3> QED BY <2>3, <3>1
  <2> QED BY <2>1, <2>3, <2>4 DEF N
<1> QED BY <1>1, <1>2

(* Frames follow each other in the stream.                                 *)
LEMMA InOrder ==
  ASSUME Placed, NEW i \in Indexes, NEW j \in Indexes, i < j
  PROVE  frames[i].start <= frames[j].start
<1>1. frames[i].start \in Nat /\ Ends(i) \in Nat /\ frames[j].start \in Nat
  BY Frame
<1>2. frames[i].start <= Ends(i) /\ Ends(i) <= frames[j].start
  BY DEF Placed, StreamInv, SentWell, Indexes
<1> QED BY <1>1, <1>2

(* A frame decoded at the place X is no record of a span but the one that  *)
(* starts there.                                                           *)
NewAt(raw, X) ==
  \A i \in Indexes : \A key : OfSpan(i, key) /\ frames[i].raw = raw => frames[i].start = X

LEMMA ToldKept ==
  ASSUME Placed, NEW X \in Nat, NEW Y \in Nat, X <= Y, NEW raw, NewAt(raw, X),
         NEW S, NEW s, SpanTold(s, X, S)
  PROVE  SpanTold(s, Y, S \cup {raw})
<1>1. CASE s.orphan
  BY <1>1 DEF SpanTold
<1>2. ASSUME NEW b \in Indexes, NEW e \in Indexes, Joins(s, b, e, X, S)
      PROVE  Joins(s, b, e, Y, S \cup {raw})
  <2>1. frames[e].start \in Nat /\ frames[e].start < X
    BY <1>2, Frame DEF Joins, Sent
  <2>2. Sent(e, Y)
    BY <1>2, <2>1 DEF Joins, Sent
  <2>3. ASSUME NEW i \in Indexes, b < i, i < e, OfSpan(i, s.key), frames[i].raw = raw PROVE FALSE
    <3>1. frames[i].start = X
      BY <2>3 DEF NewAt
    <3>2. frames[i].start <= frames[e].start
      BY <2>3, InOrder
    <3> QED BY <2>1, <3>1, <3>2
  <2> QED BY <1>2, <2>2, <2>3 DEF Joins
<1> QED BY <1>1, <1>2 DEF SpanTold

LEMMA OpenedKept ==
  ASSUME Placed, NEW X \in Nat, NEW Y \in Nat, X <= Y, NEW S, NEW raw, NEW key, NEW ts,
         NEW b \in Indexes, Opened(b, key, ts, X, S), \A i \in Indexes : OfSpan(i, key) => frames[i].raw # raw
  PROVE  Opened(b, key, ts, Y, S \cup {raw})
<1>1. frames[b].start \in Nat
  BY Frame
<1>2. Sent(b, Y)
  BY <1>1 DEF Opened, Sent
<1> QED BY <1>2 DEF Opened

LEMMA AccountedKept ==
  ASSUME Placed, NEW X \in Nat, NEW Y \in Nat, X <= Y, NEW raw, Accounted(raw, X)
  PROVE  Accounted(raw, Y)
<1>1. \A i \in Indexes : Sent(i, X) => Sent(i, Y)
  BY Frame DEF Sent
<1> QED BY <1>1 DEF Accounted

LEMMA SeenGrows ==
  ASSUME NEW d, NEW e, IsStore(d), NEW raw, e.seen = Append(d.seen, raw)
  PROVE  Seen(e) = Seen(d) \cup {raw}
<1> DEFINE S == Seq(ByteRange)
<1>1. d.seen \in Seq(S)
  BY DEF IsStore
<1> HIDE DEF S
<1> PICK n : n = Len(d.seen)
  OBVIOUS
<1>2. n \in Nat /\ Len(e.seen) = n + 1 /\ e.seen[n + 1] = raw /\ \A m \in 1 .. n : e.seen[m] = d.seen[m]
  BY <1>1
<1>3. ASSUME NEW m \in 1 .. n + 1 PROVE e.seen[m] \in Seen(d) \cup {raw}
  <2>1. CASE m = n + 1
    BY <1>2, <2>1
  <2>2. CASE m # n + 1
    <3>1. m \in 1 .. n
      BY <1>2, <2>2
    <3> QED BY <1>2, <3>1 DEF Seen
  <2> QED BY <2>1, <2>2
<1>4. \A m \in 1 .. n : m \in 1 .. n + 1
  BY <1>2
<1>5. n + 1 \in 1 .. n + 1
  BY <1>2
<1> QED BY <1>2, <1>3, <1>4, <1>5 DEF Seen

(* A round in which nothing was decoded.                                   *)
LEMMA RecordedStays ==
  ASSUME Placed, NEW X \in Nat, NEW Y \in Nat, X <= Y, NEW d, Recorded(X, d), NEW e, IsStore(e),
         e.seen = d.seen, SameSpans(d, e)
  PROVE  Recorded(Y, e)
<1>1. Seen(e) = Seen(d)
  BY DEF Seen
<1>2. \A i \in Indexes : Sent(i, X) => Sent(i, Y)
  BY Frame DEF Sent
<1>3. \A s, S : SpanTold(s, X, S) => SpanTold(s, Y, S)
  BY <1>2 DEF SpanTold, Joins
<1>4. \A b \in Indexes : \A key, ts, S : Opened(b, key, ts, X, S) => Opened(b, key, ts, Y, S)
  BY <1>2 DEF Opened
<1>5. \A raw : Accounted(raw, X) => Accounted(raw, Y)
  BY <1>2 DEF Accounted
<1> QED BY <1>1, <1>3, <1>4, <1>5 DEF Recorded, SameSpans

(* After a round that decoded the frame raw: the spans shown are those of  *)
(* before or joined from what was seen, and so are the open ones.          *)
SpansFrom(d, e, Y) ==
  /\ e.spans \in Seq(Spans)
  /\ \A n \in 1 .. Len(e.spans) :
       (\E k \in 1 .. Len(d.spans) : e.spans[n] = d.spans[k]) \/ SpanTold(e.spans[n], Y, Seen(e))
OpenFrom(d, e, raw, Y, key) ==
  \/ \E b \in Indexes : Opened(b, key, e.openSpans[key], Y, Seen(e))
  \/ /\ key \in DOMAIN d.openSpans /\ e.openSpans[key] = d.openSpans[key]
     /\ \A i \in Indexes : OfSpan(i, key) => frames[i].raw # raw
OpensFrom(d, e, raw, Y) == \A key \in DOMAIN e.openSpans : OpenFrom(d, e, raw, Y, key)

(* A round in which a frame was decoded.                                   *)
LEMMA RecordedGrows ==
  ASSUME Placed, NEW X \in Nat, NEW Y \in Nat, X <= Y, NEW d, Recorded(X, d), NEW e, IsStore(e),
         NEW raw, Seen(e) = Seen(d) \cup {raw}, Accounted(raw, Y), NewAt(raw, X),
         SpansFrom(d, e, Y), OpensFrom(d, e, raw, Y)
  PROVE  Recorded(Y, e)
<1>1. \A w \in Seen(e) : Accounted(w, Y)
  BY AccountedKept DEF Recorded
<1>2. ASSUME NEW n \in 1 .. Len(e.spans) PROVE SpanTold(e.spans[n], Y, Seen(e))
  <2>1. ASSUME NEW k \in 1 .. Len(d.spans), e.spans[n] = d.spans[k]
        PROVE  SpanTold(e.spans[n], Y, Seen(e))
    <3>1. SpanTold(d.spans[k], X, Seen(d))
      BY DEF Recorded
    <3>2. SpanTold(d.spans[k], Y, Seen(d) \cup {raw})
      BY <3>1, ToldKept
    <3> QED BY <2>1, <3>2
  <2> QED BY <2>1 DEF SpansFrom
<1>3. ASSUME NEW key \in DOMAIN e.openSpans
      PROVE  \E b \in Indexes : Opened(b, key, e.openSpans[key], Y, Seen(e))
  <2>1. ASSUME key \in DOMAIN d.openSpans, e.openSpans[key] = d.openSpans[key],
               \A i \in Indexes : OfSpan(i, key) => frames[i].raw # raw
        PROVE  \E b \in Indexes : Opened(b, key, e.openSpans[key], Y, Seen(e))
    <3>1. PICK b \in Indexes : Opened(b, key, d.openSpans[key], X, Seen(d))
      BY <2>1 DEF Recorded
    <3>2. Opened(b, key, d.openSpans[key], Y, Seen(d) \cup {raw})
      BY <2>1, <3>1, OpenedKept
    <3> QED BY <2>1, <3>2
  <2> QED BY <2>1 DEF OpensFrom, OpenFrom
<1>4. e.spans \in Seq(Spans)
  BY DEF SpansFrom
<1> QED BY <1>1, <1>2, <1>3, <1>4 DEF Recorded

(* A round in which a frame of the FPGA was decoded.                       *)
LEMMA SpanStep ==
  ASSUME Placed, MadeInv, Unique, NEW X \in Nat, NEW Y \in Nat, X < Y, NEW d, Recorded(X, d),
         NEW j \in Indexes, frames[j].fate = "whole", frames[j].start = X,
         NEW raw, raw = frames[j].raw, NEW e, IsStore(e), e.seen = Append(d.seen, raw),
         ~(TraceFrame(raw) /\ Len(raw) >= 8) => SameSpans(d, e),
         TraceFrame(raw) /\ Len(raw) >= 8 => SpansBecome(d, e, Kind(raw[3]), raw[5], raw[6])
  PROVE  Recorded(Y, e)
<1> DEFINE kind == frames[j].kind
           key == frames[j].key
           ts == frames[j].ts
<1>1. Written(kind, key, ts, raw) /\ kind \in DOMAIN Type
  BY FramesAssumption DEF MadeInv, Made, Written
<1>2. Kind(raw[3]) = kind /\ (TraceFrame(raw) <=> kind \in TraceKinds)
  BY <1>1, TypesAre DEF Written, TraceFrame
<1>3. Seen(e) = Seen(d) \cup {raw} /\ d.spans \in Seq(Spans) /\ IsStore(d)
  <2>1. d.spans \in Seq(Spans) /\ IsStore(d)
    BY DEF Recorded
  <2>2. ASSUME NEW w, e.seen = Append(d.seen, w) PROVE Seen(e) = Seen(d) \cup {w}
    BY <2>1, <2>2, SeenGrows
  <2>3. Seen(e) = Seen(d) \cup {raw}
    BY <2>2
  <2> QED BY <2>1, <2>3
<1>4. Accounted(raw, Y)
  BY DEF Accounted, Sent
<1>5. \A i \in Indexes : \A k : OfSpan(i, k) /\ frames[i].raw = raw => i = j
  BY OnlyOne
<1>6. NewAt(raw, X)
  BY <1>5 DEF NewAt
<1>7. MaxSpans \in Nat
  BY ViewerAssumption
<1>8. kind \in {"span_begin", "span_end"} =>
        kind \in TraceKinds /\ Len(raw) = 8 /\ raw[5] = ts /\ raw[6] = key
  BY <1>1, SpansAssumption DEF Written, Full, TraceKinds
<1>9. ts \in ByteRange /\ key \in ByteRange /\ Sent(j, Y)
  <2>1. frames[j] \in Entries
    BY DEF Placed, Indexes
  <2> QED BY <2>1, FramesAssumption DEF Entries, Sent
<1>10. ASSUME NEW k, kind \in {"span_begin", "span_end"} => k # key
       PROVE  \A i \in Indexes : OfSpan(i, k) => frames[i].raw # raw
  BY <1>5, <1>10 DEF OfSpan
<1>11. ASSUME NEW s \in Seq(Spans), e.spans = Newest(s, MaxSpans),
              \A n \in 1 .. Len(s) :
                (\E k \in 1 .. Len(d.spans) : s[n] = d.spans[k]) \/ SpanTold(s[n], Y, Seen(e))
       PROVE  /\ e.spans \in Seq(Spans)
              /\ \A n \in 1 .. Len(e.spans) :
                   (\E k \in 1 .. Len(d.spans) : e.spans[n] = d.spans[k]) \/ SpanTold(e.spans[n], Y, Seen(e))
  <2>1. /\ Newest(s, MaxSpans) \in Seq(Spans)
        /\ \A n \in 1 .. Len(Newest(s, MaxSpans)) : \E k \in 1 .. Len(s) : Newest(s, MaxSpans)[n] = s[k]
    BY <1>7, NewestIs
  <2>2. e.spans \in Seq(Spans)
    BY <1>11, <2>1
  <2>3. ASSUME NEW n \in 1 .. Len(e.spans)
        PROVE  (\E k \in 1 .. Len(d.spans) : e.spans[n] = d.spans[k]) \/ SpanTold(e.spans[n], Y, Seen(e))
    <3>1. PICK k \in 1 .. Len(s) : e.spans[n] = s[k]
      BY <1>11, <2>1
    <3> QED BY <1>11, <3>1
  <2> QED BY <2>2, <2>3
<1>12. ASSUME NEW x \in Spans, SpanTold(x, Y, Seen(e)), e.spans = Newest(Append(d.spans, x), MaxSpans)
       PROVE  /\ e.spans \in Seq(Spans)
              /\ \A n \in 1 .. Len(e.spans) :
                   (\E k \in 1 .. Len(d.spans) : e.spans[n] = d.spans[k]) \/ SpanTold(e.spans[n], Y, Seen(e))
  <2> DEFINE s == Append(d.spans, x)
  <2>1. s \in Seq(Spans)
    BY <1>3
  <2> PICK n : n = Len(d.spans)
    OBVIOUS
  <2>2. n \in Nat /\ Len(s) = n + 1 /\ s[n + 1] = x /\ \A k \in 1 .. n : s[k] = d.spans[k]
    BY <1>3
  <2> HIDE DEF s
  <2>3. \A m \in 1 .. n + 1 : m \in 1 .. n \/ m = n + 1
    BY <2>2
  <2>4. \A m \in 1 .. Len(s) : (\E k \in 1 .. Len(d.spans) : s[m] = d.spans[k]) \/ SpanTold(s[m], Y, Seen(e))
    BY <1>12, <2>2, <2>3
  <2>5. e.spans = Newest(s, MaxSpans)
    BY <1>12 DEF s
  <2> QED BY <1>11, <2>1, <2>4, <2>5
<1>13. ASSUME SpansFrom(d, e, Y), OpensFrom(d, e, raw, Y) PROVE Recorded(Y, e)
  <2>1. X <= Y /\ Seen(e) = Seen(d) \cup {raw}
    BY <1>3
  <2> QED BY <1>4, <1>6, <1>13, <2>1, RecordedGrows
<1>s. d.spans = e.spans => SpansFrom(d, e, Y)
  BY <1>3 DEF SpansFrom
<1>n. e.spans = Newest(d.spans, MaxSpans) => SpansFrom(d, e, Y)
  BY <1>3, <1>11 DEF SpansFrom
<1>a. ASSUME NEW x \in Spans, SpanTold(x, Y, Seen(e)), e.spans = Newest(Append(d.spans, x), MaxSpans) PROVE SpansFrom(d, e, Y)
  BY <1>12, <1>a DEF SpansFrom
<1> HIDE DEF kind, key, ts
<1>14. CASE kind \notin {"span_begin", "span_end"}
  <2>1. e.openSpans = d.openSpans /\ (e.spans = d.spans \/ e.spans = Newest(d.spans, MaxSpans))
    <3>1. CASE ~(TraceFrame(raw) /\ Len(raw) >= 8)
      BY <3>1 DEF SameSpans
    <3>2. CASE TraceFrame(raw) /\ Len(raw) >= 8
      <4>1. SpansBecome(d, e, kind, raw[5], raw[6]) /\ kind \in {"mark", "value", "drop"}
        BY <1>2, <1>14, <3>2 DEF TraceKinds
      <4> QED BY <4>1 DEF SpansBecome
    <3> QED BY <3>1, <3>2
  <2>2. SpansFrom(d, e, Y)
    BY <1>s, <1>n, <2>1
  <2>3. OpensFrom(d, e, raw, Y)
    BY <1>10, <1>14, <2>1 DEF OpensFrom, OpenFrom
  <2> QED BY <1>13, <2>2, <2>3
<1>15. CASE kind \in {"span_begin", "span_end"}
  <2>0. SpansBecome(d, e, kind, ts, key)
    <3>1. TraceFrame(raw) /\ raw[5] = ts /\ raw[6] = key
      BY <1>2, <1>8, <1>15
    <3>3. Len(raw) >= 8
      <4>1. Len(raw) = 8
        BY <1>8, <1>15
      <4> QED BY <4>1
    <3>2. SpansBecome(d, e, kind, raw[5], raw[6])
      BY <1>2, <3>1, <3>3
    <3> QED BY <3>1, <3>2
  <2>1. CASE kind = "span_begin"
    <3>1. e.spans = d.spans /\ e.openSpans = Set(d.openSpans, key, ts)
      BY <2>0, <2>1 DEF SpansBecome
    <3>2. DOMAIN e.openSpans = DOMAIN d.openSpans \cup {key} /\ e.openSpans[key] = ts
          /\ \A k \in DOMAIN d.openSpans : k # key => e.openSpans[k] = d.openSpans[k]
      BY <3>1 DEF Set
    <3>3. Opened(j, key, ts, Y, Seen(e))
      <4>1. ASSUME NEW i \in Indexes, i > j, OfSpan(i, key), frames[i].raw \in Seen(e) PROVE FALSE
        <5>1. frames[i].raw # raw
          BY <1>5, <4>1 DEF Indexes
        <5>2. frames[i].raw \in Seen(d)
          BY <1>3, <4>1, <5>1
        <5>3. Accounted(frames[i].raw, X)
          BY <5>2 DEF Recorded
        <5>4. ~(frames[i].raw # <<>> /\ Foreign(frames[i].raw))
          BY <4>1, SpanKnown
        <5>5. ASSUME NEW h \in Indexes, Sent(h, X), frames[i].raw = frames[h].raw PROVE FALSE
          <6>1. i = h
            BY <4>1, <5>5, OnlyOne DEF Sent
          <6>2. frames[i].start < X /\ frames[i].start \in Nat
            BY <5>5, <6>1, Frame DEF Sent
          <6>3. frames[j].start <= frames[i].start
            <7>1. j < i
              BY <4>1 DEF Indexes
            <7> QED BY <7>1, InOrder
          <6> QED BY <6>2, <6>3
        <5> QED BY <5>3, <5>4, <5>5 DEF Accounted
      <4> QED BY <1>9, <4>1 DEF Opened, key, ts
    <3>4. ASSUME NEW k \in DOMAIN e.openSpans PROVE OpenFrom(d, e, raw, Y, k)
      <4>1. CASE k = key
        BY <3>2, <3>3, <4>1 DEF OpenFrom
      <4>2. CASE k # key
        BY <1>10, <3>2, <4>2 DEF OpenFrom
      <4> QED BY <4>1, <4>2
    <3>5. OpensFrom(d, e, raw, Y)
      BY <3>4 DEF OpensFrom
    <3> QED BY <1>13, <1>s, <3>1, <3>5
  <2>2. CASE kind = "span_end" /\ key \in DOMAIN d.openSpans
    <3> DEFINE start == d.openSpans[key]
               x == Closed(ts, key, start)
    <3>1. e.spans = Newest(Append(d.spans, x), MaxSpans)
          /\ e.openSpans = Restrict(d.openSpans, DOMAIN d.openSpans \ {key})
      BY <2>0, <2>2 DEF SpansBecome
    <3>2. PICK b \in Indexes : Opened(b, key, start, X, Seen(d))
      BY <2>2 DEF Recorded
    <3>3. start \in ByteRange /\ start = frames[b].ts
      <4>1. frames[b] \in Entries
        BY DEF Placed, Indexes
      <4> QED BY <3>2, <4>1 DEF Entries, Opened
    <3>4. x \in Spans /\ x.key = key
      <4>1. (ts + 64 - start) % 64 \in ByteRange
        <5>1. ts + 64 - start \in Nat
          <6>1. ts \in 0 .. 63 /\ start \in 0 .. 63
            BY <1>9, <3>3 DEF ByteRange
          <6> HIDE DEF start
          <6> QED BY <6>1
        <5>2. \A n \in Nat : n % 64 \in 0 .. 63
          OBVIOUS
        <5> QED BY <5>1, <5>2 DEF ByteRange
      <4> HIDE DEF start
      <4> QED BY <1>9, <3>3, <4>1 DEF Closed, Spans
    <3>5. Joins(x, b, j, Y, Seen(e))
      <4>1. frames[b].start < X /\ frames[b].start \in Nat /\ frames[b].key = key
        BY <3>2, Frame DEF Opened, Sent
      <4>2. b < j
        <5>1. ASSUME ~(b < j) PROVE FALSE
          <6>1. j < b \/ j = b
            BY <5>1 DEF Indexes
          <6>2. frames[j].start <= frames[b].start
            BY <4>1, <6>1, InOrder
          <6> QED BY <4>1, <6>2
        <5> QED BY <5>1
      <4>3. ASSUME NEW i \in Indexes, b < i, i < j, OfSpan(i, key) PROVE frames[i].raw \notin Seen(e)
        <5>1. frames[i].raw # raw
          BY <1>5, <4>3 DEF Indexes
        <5>2. frames[i].raw \notin Seen(d)
          <6>1. i > b
            BY <4>3 DEF Indexes
          <6> QED BY <3>2, <4>3, <6>1 DEF Opened
        <5> QED BY <1>3, <5>1, <5>2
      <4>4. x = Closed(ts, key, frames[b].ts)
        BY <3>3
      <4> HIDE DEF x
      <4> QED BY <1>9, <3>4, <4>1, <4>2, <4>3, <4>4 DEF Joins, key, ts
    <3>6. SpanTold(x, Y, Seen(e))
      BY <3>5 DEF SpanTold
    <3> HIDE DEF x
    <3>7. SpansFrom(d, e, Y)
      BY <1>a, <3>1, <3>4, <3>6
    <3>8. ASSUME NEW k \in DOMAIN e.openSpans PROVE OpenFrom(d, e, raw, Y, k)
      <4>1. k \in DOMAIN d.openSpans /\ k # key /\ e.openSpans[k] = d.openSpans[k]
        BY <3>1 DEF Restrict
      <4> QED BY <1>10, <4>1 DEF OpenFrom
    <3>9. OpensFrom(d, e, raw, Y)
      BY <3>8 DEF OpensFrom
    <3> QED BY <1>13, <3>7, <3>9
  <2>3. CASE kind = "span_end" /\ key \notin DOMAIN d.openSpans
    <3> DEFINE x == Orphan(ts, key)
    <3>1. e.spans = Newest(Append(d.spans, x), MaxSpans) /\ e.openSpans = d.openSpans
      BY <2>0, <2>3 DEF SpansBecome
    <3>2. x \in Spans /\ SpanTold(x, Y, Seen(e))
      BY <1>9 DEF Orphan, Spans, SpanTold
    <3> HIDE DEF x
    <3>3. SpansFrom(d, e, Y)
      BY <1>a, <3>1, <3>2
    <3>4. OpensFrom(d, e, raw, Y)
      BY <1>10, <2>3, <3>1 DEF OpensFrom, OpenFrom
    <3> QED BY <1>13, <3>3, <3>4
  <2> QED BY <1>15, <2>1, <2>2, <2>3
<1> QED BY <1>14, <1>15

(* A round in which something foreign was decoded.                         *)
LEMMA ForeignStep ==
  ASSUME Placed, MadeInv, NEW X \in Nat, NEW Y \in Nat, X < Y, NEW d, Recorded(X, d), NEW e, IsStore(e),
         NEW raw, raw # <<>>, Foreign(raw), e.seen = Append(d.seen, raw), SameSpans(d, e)
  PROVE  Recorded(Y, e)
<1>1. e.spans = d.spans /\ e.openSpans = d.openSpans
  BY DEF SameSpans
<1>2. \A i \in Indexes : \A key : OfSpan(i, key) => frames[i].raw # raw
  BY SpanKnown
<1>3. NewAt(raw, X) /\ Accounted(raw, Y)
  BY <1>2 DEF NewAt, Accounted
<1>4. X <= Y
  OBVIOUS
<1>5. SpansFrom(d, e, Y)
  BY <1>1 DEF Recorded, SpansFrom
<1>6. OpensFrom(d, e, raw, Y)
  BY <1>1, <1>2 DEF OpensFrom, OpenFrom
<1>7. Seen(e) = Seen(d) \cup {raw}
  <2>1. IsStore(d)
    BY DEF Recorded
  <2> QED BY <2>1, SeenGrows
<1> QED BY <1>3, <1>4, <1>5, <1>6, <1>7, RecordedGrows

-----------------------------------------------------------------------------
(* Round by round over the bytes that arrived.                             *)
Unhurt == Placed /\ MadeInv /\ Unique /\ base \in Nat /\ base <= taken /\ \A i \in Indexes : frames[i].fate # "hurt"

LEMMA RoundRecords ==
  ASSUME Unhurt, NEW x \in 0 .. Len(Arrived), NEW d, Recorded(base + x, d), ~Waits(From(Arrived, x))
  PROVE  LET r == From(Arrived, x)
             t == Takes(r)
         IN /\ t \in Nat /\ t > 0 /\ x + t \in 0 .. Len(Arrived) /\ From(r, t) = From(Arrived, x + t)
            /\ Recorded(base + (x + t), After(r, d))
<1> DEFINE r == From(Arrived, x)
           t == Takes(r)
           X == base + x
           Y == base + (x + t)
           e == After(r, d)
           raw == Raw(r)
<1>1. Placed /\ MadeInv /\ Unique /\ base \in Nat /\ base <= taken /\ \A i \in Indexes : frames[i].fate # "hurt"
  BY DEF Unhurt
<1>2. Arrived \in Bytes /\ Len(Arrived) = taken - base /\ r \in Bytes /\ Len(r) = taken - base - x
      /\ taken \in Nat
  BY <1>1, ArrivedLeft DEF Placed
<1>3. t \in 1 .. Len(r)
  BY <1>2, StepIs
<1>4. IsStore(d)
  BY DEF Recorded
<1>5. /\ IsStore(e)
      /\ ~IsFrame(r) => e.seen = d.seen /\ SameSpans(d, e)
      /\ IsFrame(r) => e.seen = Append(d.seen, raw)
      /\ IsFrame(r) /\ ~(TraceFrame(raw) /\ Len(raw) >= 8) => SameSpans(d, e)
      /\ IsFrame(r) /\ TraceFrame(raw) /\ Len(raw) >= 8 => SpansBecome(d, e, Kind(raw[3]), raw[5], raw[6])
  BY <1>2, <1>4, AfterSpans
<1>6. IsFrame(r) => \/ Foreign(raw)
                    \/ \E i \in Indexes : /\ frames[i].fate = "whole" /\ frames[i].start = X
                                          /\ raw = frames[i].raw
  BY <1>1, RoundFinds
<1>7. IsFrame(r) => raw # <<>>
  <2> SUFFICES ASSUME IsFrame(r) PROVE raw # <<>>
    OBVIOUS
  <2>1. Len(raw) = 5 + r[4] /\ r[4] \in 0 .. MAX_PAYLOAD
    BY <1>2, RawIs DEF IsFrame
  <2>2. Len(raw) # 0
    BY <2>1
  <2> QED BY <2>2
<1>8. From(r, t) = From(Arrived, x + t)
  <2>1. t \in 0 .. Len(Arrived) - x
    BY <1>1, <1>2, <1>3
  <2> QED BY <1>2, <2>1, FromFrom
<1> HIDE DEF r, t, raw, e
<1>9. t \in Nat /\ t > 0 /\ x + t \in 0 .. Len(Arrived) /\ X \in Nat /\ Y \in Nat /\ X < Y /\ x \in Nat
  <2>1. t \in Nat /\ t > 0 /\ x + t <= taken - base /\ x \in Nat /\ Len(Arrived) \in Nat
    BY <1>1, <1>2, <1>3
  <2> QED BY <1>1, <1>2, <2>1
<1>10. Recorded(X, d)
  OBVIOUS
<1> HIDE DEF X, Y
<1>11. ASSUME ~IsFrame(r) PROVE Recorded(Y, e)
  BY <1>1, <1>5, <1>9, <1>10, <1>11, RecordedStays
<1>12. ASSUME IsFrame(r), Foreign(raw) PROVE Recorded(Y, e)
  <2>1. ~TraceFrame(raw)
    BY <1>12 DEF Foreign, TraceFrame
  <2>2. SameSpans(d, e) /\ e.seen = Append(d.seen, raw)
    BY <1>5, <1>12, <2>1
  <2> QED BY <1>1, <1>5, <1>7, <1>9, <1>10, <1>12, <2>2, ForeignStep
<1>13. ASSUME IsFrame(r), NEW j \in Indexes, frames[j].fate = "whole", frames[j].start = X, raw = frames[j].raw
       PROVE  Recorded(Y, e)
  BY <1>1, <1>5, <1>9, <1>10, <1>13, SpanStep
<1>14. Recorded(Y, e)
  BY <1>6, <1>11, <1>12, <1>13
<1> QED BY <1>8, <1>9, <1>14 DEF Y, r, t, e

RecordsFor(m) ==
  \A x \in 0 .. Len(Arrived) : \A d : Recorded(base + x, d) /\ Len(Arrived) - x <= m =>
    \E y \in 0 .. Len(Arrived) : Recorded(base + y, Result(From(Arrived, x), d).d)

LEMMA RoundsRecord ==
  ASSUME Unhurt
  PROVE  \A m \in Nat : RecordsFor(m)
<1> DEFINE T == {m \in Nat : RecordsFor(m)}
           Ended(x, d) == \E y \in 0 .. Len(Arrived) : Recorded(base + y, Result(From(Arrived, x), d).d)
<1>h. Arrived \in Bytes /\ Len(Arrived) \in Nat /\ taken \in Nat /\ base \in Nat
  <2>1. stream \in Bytes /\ taken \in Nat /\ taken <= Len(stream) /\ base \in Nat /\ base <= taken
    BY DEF Unhurt, Placed
  <2>2. Arrived \in Bytes
    BY <2>1, SliceIs DEF Arrived
  <2> QED BY <2>1, <2>2 DEF Bytes
<1>0. ASSUME NEW x \in 0 .. Len(Arrived), NEW d, Recorded(base + x, d), Waits(From(Arrived, x))
      PROVE  Ended(x, d)
  <2>1. From(Arrived, x) \in Bytes
    BY <1>h, FromIs
  <2>2. Result(From(Arrived, x), d) = At0(From(Arrived, x), d)
    BY <1>0, <2>1, ResultIs
  <2>3. Result(From(Arrived, x), d).d = d
    BY <2>2 DEF At0
  <2> QED BY <1>0, <2>3
<1>1. 0 \in T
  <2>1. ASSUME NEW x \in 0 .. Len(Arrived), Len(Arrived) - x <= 0 PROVE Waits(From(Arrived, x))
    <3>1. From(Arrived, x) \in Bytes /\ Len(From(Arrived, x)) = Len(Arrived) - x
      BY <1>h, FromIs
    <3>2. ~(Len(From(Arrived, x)) >= 5)
      BY <1>h, <2>1, <3>1
    <3> QED BY <3>2 DEF Waits
  <2>2. RecordsFor(0)
    BY <1>0, <2>1 DEF RecordsFor
  <2> QED BY <2>2
<1>2. \A m \in Nat : m \in T => m + 1 \in T
  <2> TAKE m \in Nat
  <2> HAVE m \in T
  <2>1. ASSUME NEW x \in 0 .. Len(Arrived), NEW d, Recorded(base + x, d), Len(Arrived) - x <= m + 1,
               ~Waits(From(Arrived, x))
        PROVE  Ended(x, d)
    <3> DEFINE r == From(Arrived, x)
               t == Takes(r)
               z == x + t
               g == After(r, d)
    <3>1. z \in 0 .. Len(Arrived) /\ t \in Nat /\ t > 0 /\ From(r, t) = From(Arrived, z)
          /\ Recorded(base + z, g)
      BY <2>1, RoundRecords
    <3>2. Result(r, d) = Result(From(Arrived, z), g)
      <4>1. r \in Bytes
        BY <1>h, FromIs
      <4>2. Result(r, d) = Result(From(r, t), g)
        BY <2>1, <4>1, ResultIs
      <4> QED BY <3>1, <4>2
    <3>3. Len(Arrived) - z <= m
      BY <1>h, <2>1, <3>1
    <3> HIDE DEF z, g
    <3>4. \E y \in 0 .. Len(Arrived) : Recorded(base + y, Result(From(Arrived, z), g).d)
      BY <3>1, <3>3 DEF RecordsFor
    <3> QED BY <3>2, <3>4
  <2>2. RecordsFor(m + 1)
    BY <1>0, <2>1 DEF RecordsFor
  <2> QED BY <2>2
<1> HIDE DEF T
<1>3. Nat \subseteq T
  BY <1>1, <1>2, NatSetInduction
<1> QED BY <1>3 DEF T

LEMMA RecordedAtFirst ==
  ASSUME NEW X
  PROVE  Recorded(X, EmptyStore)
<1>1. IsStore(EmptyStore) /\ Len(EmptyStore.seen) = 0
  BY EmptyIs
<1>2. EmptyStore.spans = <<>> /\ EmptyStore.openSpans = NoEntries
  BY DEF EmptyStore
<1>3. Seen(EmptyStore) = {}
  BY <1>1 DEF Seen
<1>4. DOMAIN NoEntries = {}
  BY DEF NoEntries
<1> HIDE DEF EmptyStore
<1> QED BY <1>1, <1>2, <1>3, <1>4 DEF Recorded

-----------------------------------------------------------------------------
(* The time from one frame to a later one, over the end of the clock.      *)
LEMMA TimeBetween ==
  ASSUME NEW b \in 1 .. 64, NEW e \in 1 .. 64, b < e
  PROVE  (((60 + e) % 64) + 64 - ((60 + b) % 64)) % 64 = e - b
<1>1. \A n \in 1 .. 64 : (60 + n) % 64 = IF n < 4 THEN 60 + n ELSE n - 4
  OBVIOUS
<1>2. (60 + e) % 64 = (IF e < 4 THEN 60 + e ELSE e - 4) /\ (60 + b) % 64 = (IF b < 4 THEN 60 + b ELSE b - 4)
  BY <1>1
<1> DEFINE p == (60 + e) % 64
           q == (60 + b) % 64
<1>3. p + 64 - q = e - b \/ p + 64 - q = e - b + 64
  BY <1>2
<1> HIDE DEF p, q
<1>4. \A n \in 1 .. 63 : n % 64 = n /\ (n + 64) % 64 = n
  OBVIOUS
<1>5. e - b \in 1 .. 63
  OBVIOUS
<1>6. (p + 64 - q) % 64 = e - b
  BY <1>3, <1>4, <1>5
<1> QED BY <1>6 DEF p, q

LEMMA NeighboursJoined ==
  ASSUME ScreenInv, ChunkInv, StreamInv, MadeInv, HurtCount = 0, Len(frames) <= 64
  PROVE  SpansJoinNeighbours
<1> DEFINE D == Result(Arrived, EmptyStore).d
           N == Len(frames)
<1>1. Placed /\ base \in Nat /\ base <= taken /\ N \in Nat
  BY PlacedIs DEF ScreenInv, TypeOK
<1>2. \A i \in Indexes : frames[i].fate # "hurt"
  <2> DEFINE H == {i \in 1 .. Len(frames) : frames[i].fate = "hurt"}
  <2>1. Cardinality(H) = 0
    BY DEF HurtCount, Count
  <2>2. IsFiniteSet(H)
    <3>1. H \subseteq Indexes
      BY DEF Indexes
    <3> QED BY <1>1, <3>1, Finite
  <2>3. H = {}
    BY <2>1, <2>2, FS_EmptySet
  <2> QED BY <2>3 DEF Indexes
<1>3. Unique
  BY <1>1, TimesUnique
<1>4. Unhurt
  BY <1>1, <1>2, <1>3 DEF Unhurt
<1>5. Arrived \in Bytes /\ Len(Arrived) \in Nat /\ From(Arrived, 0) = Arrived
  <2>1. stream \in Bytes /\ taken \in Nat /\ taken <= Len(stream)
    BY <1>1 DEF Placed
  <2>2. Arrived \in Bytes
    BY <1>1, <2>1, SliceIs DEF Arrived
  <2> HIDE DEF Arrived
  <2>3. Len(Arrived) \in Nat /\ 0 \in 0 .. Len(Arrived) /\ Len(Arrived) - 0 = Len(Arrived)
    BY <2>2 DEF Bytes
  <2>4. From(Arrived, 0) \in Bytes /\ Len(From(Arrived, 0)) = Len(Arrived) - 0
        /\ \A k \in 1 .. Len(Arrived) - 0 : From(Arrived, 0)[k] = Arrived[0 + k]
    BY <2>2, <2>3, FromIs
  <2>5. \A k \in 1 .. Len(Arrived) : From(Arrived, 0)[k] = Arrived[k]
    BY <2>3, <2>4
  <2> QED BY <2>2, <2>3, <2>4, <2>5, BytesEqual
<1>6. PICK X : Recorded(X, D)
  <2>1. RecordsFor(Len(Arrived))
    BY <1>4, <1>5, RoundsRecord
  <2>2. 0 \in 0 .. Len(Arrived) /\ Len(Arrived) - 0 <= Len(Arrived) /\ Recorded(base + 0, EmptyStore)
    BY <1>5, RecordedAtFirst
  <2>3. \E y \in 0 .. Len(Arrived) : Recorded(base + y, Result(From(Arrived, 0), EmptyStore).d)
    BY <2>1, <2>2 DEF RecordsFor
  <2> QED BY <1>5, <2>3
<1>7. store.spans = D.spans /\ store.seen = D.seen
  <2>1. {"spans", "seen"} \subseteq Fields \ {"ask"}
    BY PanelsAre, FieldsAre
  <2> QED BY <2>1 DEF ChunkInv, Twins, Same
<1> HIDE DEF D, N
<1>8. \A i \in 1 .. N : frames[i].ts = (60 + i) % 64 /\ i \in 1 .. 64
  <2>1. \A i \in 1 .. N : frames[i].ts = (60 + i) % 64
    BY DEF MadeInv, Indexes, N
  <2>2. N <= 64
    BY DEF N
  <2> QED BY <1>1, <2>1, <2>2
<1>9. ASSUME NEW n \in 1 .. Len(store.spans), ~store.spans[n].orphan
      PROVE  LET s == store.spans[n]
                 b == At(s.start)
                 e == At(s.end)
             IN  /\ b < e /\ frames[b].key = s.key /\ frames[e].key = s.key
                 /\ s.duration = e - b
                 /\ \A i \in b + 1 .. e - 1 :
                      frames[i].key = s.key /\ frames[i].kind \in {"span_begin", "span_end"}
                        => ~\E m \in 1 .. Len(store.seen) : store.seen[m] = frames[i].raw
  <2> DEFINE s == store.spans[n]
  <2>1. SpanTold(s, X, Seen(D))
    BY <1>6, <1>7 DEF Recorded
  <2>2. PICK b \in 1 .. N, e \in 1 .. N : Joins(s, b, e, X, Seen(D))
    BY <1>9, <2>1 DEF SpanTold, Indexes, N
  <2> HIDE DEF s
  <2>3. /\ s.start = frames[b].ts /\ s.end = frames[e].ts /\ s.duration = (frames[e].ts + 64 - frames[b].ts) % 64
        /\ b < e /\ frames[b].key = s.key /\ frames[e].key = s.key
        /\ \A i \in 1 .. N : b < i /\ i < e /\ OfSpan(i, s.key) => frames[i].raw \notin Seen(D)
    BY <2>2 DEF Joins, Closed, Indexes, N
  <2>4. \A j \in 1 .. N : At(frames[j].ts) = j
    <3> TAKE j \in 1 .. N
    <3>1. \A i \in 1 .. N : frames[i].ts = frames[j].ts => i = j
      BY <1>3 DEF Unique, Indexes, N
    <3> QED BY <3>1 DEF At, N
  <2>5. At(s.start) = b /\ At(s.end) = e
    BY <2>3, <2>4
  <2>6. s.duration = e - b
    <3>1. b \in 1 .. 64 /\ e \in 1 .. 64 /\ frames[b].ts = (60 + b) % 64 /\ frames[e].ts = (60 + e) % 64
      BY <1>8
    <3>2. (((60 + e) % 64) + 64 - ((60 + b) % 64)) % 64 = e - b
      BY <2>3, <3>1, TimeBetween
    <3> QED BY <2>3, <3>1, <3>2
  <2>7. ASSUME NEW i \in b + 1 .. e - 1, frames[i].key = s.key, frames[i].kind \in {"span_begin", "span_end"},
               NEW m \in 1 .. Len(store.seen), store.seen[m] = frames[i].raw
        PROVE  FALSE
    <3>1. i \in 1 .. N /\ b < i /\ i < e
      BY <1>1, <2>7
    <3>2. frames[i].raw \notin Seen(D)
      BY <2>3, <2>7, <3>1 DEF OfSpan
    <3>3. store.seen[m] \in Seen(D)
      BY <1>7 DEF Seen
    <3> QED BY <2>7, <3>2, <3>3
  <2>8. \A i \in b + 1 .. e - 1 :
          frames[i].key = s.key /\ frames[i].kind \in {"span_begin", "span_end"}
            => ~\E m \in 1 .. Len(store.seen) : store.seen[m] = frames[i].raw
    BY <2>7
  <2>9. LET c == At(s.start)
            f == At(s.end)
        IN  /\ c < f /\ frames[c].key = s.key /\ frames[f].key = s.key
            /\ s.duration = f - c
            /\ \A i \in c + 1 .. f - 1 :
                 frames[i].key = s.key /\ frames[i].kind \in {"span_begin", "span_end"}
                   => ~\E m \in 1 .. Len(store.seen) : store.seen[m] = frames[i].raw
    BY <2>3, <2>5, <2>6, <2>8
  <2> QED BY <2>9 DEF s
<1> QED BY <1>9 DEF SpansJoinNeighbours

(* However many records the FPGA had to drop, and whenever the viewer was  *)
(* cleared: as long as no frame was hurt and the clock did not go round    *)
(* more than once, so that a time names one event, a span with a duration  *)
(* joins neighbours and took as long as it shows.                          *)
THEOREM SpansAreNeighbours == Spec => [](HurtCount = 0 /\ Len(frames) <= 64 => SpansJoinNeighbours)
<1>1. Init => ScreenInv /\ ChunkInv /\ StreamInv /\ MadeInv
  BY InitScreen, InitChunk, InitStream, InitMade
<1>2. (ScreenInv /\ ChunkInv /\ StreamInv /\ MadeInv) /\ [Next]_vars
        => (ScreenInv /\ ChunkInv /\ StreamInv /\ MadeInv)'
  BY NextScreen, NextChunk, NextStream, NextMade
<1>3. ScreenInv /\ ChunkInv /\ StreamInv /\ MadeInv
        => (HurtCount = 0 /\ Len(frames) <= 64 => SpansJoinNeighbours)
  BY NeighboursJoined
<1> QED BY <1>1, <1>2, <1>3, PTL DEF Spec

=============================================================================
