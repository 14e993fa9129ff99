----------------------------- MODULE Transports -----------------------------
(***************************************************************************)
(* How the web viewer is connected (app.js): the serial port and its read  *)
(* loop, the WebSocket to the bridge and the records that come over it,    *)
(* the two buttons, and what the viewer shows of the connection.           *)
(*                                                                         *)
(* connect, readLoop and disconnect are asynchronous: each is cut into     *)
(* steps at its awaits, and whatever else happens may happen between them. *)
(* What the browser does is external: a SerialPort can be opened only when *)
(* it is closed, and closed only when no write holds its lock; an error on *)
(* the line ends the read but leaves the port open; a WebSocket delivers   *)
(* nothing after close() was called, and its close event comes later.      *)
(*                                                                         *)
(* A reset of the FPGA starts a session of bytes.  The bridge and the      *)
(* viewer know a session by its label, header.session_id, only: what they  *)
(* do about a reset hangs on whether the label is another one.             *)
(***************************************************************************)
EXTENDS Naturals, Sequences, FiniteSets

CONSTANTS
  MaxConnects,   \* bound: clicks on Connect
  MaxResets,     \* bound: resets of the FPGA, each of which starts a session
  MaxQueue,      \* bound: records on their way to a socket
  Relabels       \* whether a reset brings a new label: the mailbox model's does, the
                 \* board's, which ties session_id to 1, does not

ASSUME TransportsAssumption ==
  {MaxConnects, MaxResets, MaxQueue} \subseteq Nat /\ Relabels \subseteq BOOLEAN

Sockets == 1 .. MaxConnects
Sessions == 1 .. MaxResets + 1
null == 0
Other == MaxResets + 2      \* the origin of bytes that no session sent
Unread == MaxResets + 2     \* the label 0 of a bridge that has read no header

VARIABLES
  sourceType,      \* state.sourceType, which the selector sets
  connection,      \* state.transport.connection, which decides about the buttons
  port, reader,    \* whether state.port and state.reader are set
  readLoopActive,
  loop,            \* readLoop: "none", "reading", or "ended" before its finally
  connecting,      \* connect at an await: "none", "prompt", "opening"
  closing,         \* disconnect at an await: "none", "reader", "port"
  portState,       \* the SerialPort: "closed", "opening", "open", "closing"
  writing,         \* a monitor command holds the lock of the writable stream
  socket,          \* state.socket: null or the number of a socket
  sockets,         \* the state of each
  incoming,        \* the records on their way to each
  session,         \* the session of the FPGA behind the bridge
  label,           \* the label of each session
  known,           \* the label in the header that the bridge read last: Bridge.session_id
  sessionId,       \* state.transport.sessionId
  half,            \* the origin of the half frame in state.rx, null without one
  connects, resets,
  trouble,         \* history: what an orderly use does not do
  joined           \* history: pairs of sessions whose bytes made one frame

serialVars == <<port, reader, readLoopActive, loop, connecting, closing, portState, writing>>
bridgeVars == <<socket, sockets, incoming, sessionId>>
sessionVars == <<session, label, known>>
transportsVars == <<sourceType, connection, serialVars, bridgeVars, sessionVars, half, connects,
                    resets, trouble, joined>>

TransportsInit ==
  /\ sourceType = "serial" /\ connection = "disconnected"
  /\ port = FALSE /\ reader = FALSE /\ readLoopActive = FALSE /\ loop = "none"
  /\ connecting = "none" /\ closing = "none" /\ portState = "closed" /\ writing = FALSE
  /\ socket = null /\ sockets = [s \in Sockets |-> "none"]
  /\ incoming = [s \in Sockets |-> <<>>]
  /\ session = 1 /\ label = [s \in Sessions |-> 1] /\ known = Unread
  /\ sessionId = null /\ half = null
  /\ connects = 0 /\ resets = 0 /\ trouble = {} /\ joined = {}

setConnected(yes) == connection' = IF yes THEN "connected" ELSE "disconnected"

(* Something of an earlier connection is not over yet.                     *)
Unfinished ==
  \/ connecting # "none" \/ closing # "none" \/ loop # "none"
  \/ \E s \in Sockets : sockets[s] \in {"connecting", "open", "closing"}

ChangeSource ==
  /\ sourceType' = IF sourceType = "serial" THEN "jtag" ELSE "serial"
  /\ UNCHANGED <<connection, serialVars, bridgeVars, sessionVars, half, connects, resets,
                 trouble, joined>>

(* The button Connect is enabled unless the viewer shows a connection.     *)
Click ==
  /\ connection # "connected" /\ connects < MaxConnects
  /\ connects' = connects + 1
  /\ trouble' = IF Unfinished THEN trouble \cup {"overlap"} ELSE trouble

-----------------------------------------------------------------------------
(* connect, serial.                                                        *)
Connect ==
  /\ Click /\ sourceType = "serial" /\ connecting = "none"
  /\ connecting' = "prompt"
  /\ UNCHANGED <<sourceType, connection, port, reader, readLoopActive, loop, closing,
                 portState, writing, bridgeVars, sessionVars, half, resets, joined>>

(* requestPort is answered: a port, whose open() is refused unless it is   *)
(* closed, or none.                                                        *)
PortChosen ==
  /\ connecting = "prompt"
  /\ \/ /\ connecting' = "none" /\ UNCHANGED <<port, portState>>
     \/ /\ port' = TRUE
        /\ IF portState = "closed"
           THEN connecting' = "opening" /\ portState' = "opening"
           ELSE connecting' = "none" /\ UNCHANGED portState
  /\ UNCHANGED <<sourceType, connection, reader, readLoopActive, loop, closing, writing,
                 bridgeVars, sessionVars, half, connects, resets, trouble, joined>>

(* The rest of connect fails when disconnect has set state.port to null.   *)
PortOpened ==
  /\ connecting = "opening"
  /\ connecting' = "none" /\ portState' = "open"
  /\ IF port
     THEN /\ reader' = TRUE /\ readLoopActive' = TRUE /\ loop' = "reading"
          /\ setConnected(TRUE)
     ELSE UNCHANGED <<reader, readLoopActive, loop, connection>>
  /\ UNCHANGED <<sourceType, port, closing, writing, bridgeVars, sessionVars, half, connects,
                 resets, trouble, joined>>

(* readLoop: a chunk, an error, and the end.                               *)
ReadChunk ==
  /\ loop = "reading" /\ readLoopActive /\ portState = "open"
  /\ half' \in {null, Other}
  /\ UNCHANGED <<sourceType, connection, serialVars, bridgeVars, sessionVars, connects, resets,
                 trouble, joined>>

LineError ==
  /\ loop = "reading" /\ loop' = "ended"
  /\ trouble' = trouble \cup {"line"}
  /\ UNCHANGED <<sourceType, connection, port, reader, readLoopActive, connecting, closing,
                 portState, writing, bridgeVars, sessionVars, half, connects, resets, joined>>

LoopEnds ==
  /\ loop = "ended" /\ loop' = "none"
  /\ setConnected(FALSE)
  /\ UNCHANGED <<sourceType, port, reader, readLoopActive, connecting, closing, portState,
                 writing, bridgeVars, sessionVars, half, connects, resets, trouble, joined>>

(* sendMonitorBytesNow takes the writer and gives it back.                 *)
Write ==
  /\ IF writing THEN TRUE ELSE sourceType = "serial" /\ port /\ portState = "open"
  /\ writing' = ~writing
  /\ UNCHANGED <<sourceType, connection, port, reader, readLoopActive, loop, connecting,
                 closing, portState, bridgeVars, sessionVars, half, connects, resets, trouble,
                 joined>>

-----------------------------------------------------------------------------
CloseSocket ==
  /\ sockets' = IF socket = null THEN sockets ELSE [sockets EXCEPT ![socket] = "closing"]
  /\ socket' = null

(* Mutant of ClosePort: only a port that was closed is shown as such.      *)
ClosePortSilently ==
  LET closes == port /\ ~writing /\ portState = "open"
  IN /\ closing' = IF closes THEN "port" ELSE "none"
     /\ portState' = IF closes THEN "closing" ELSE portState
     /\ UNCHANGED <<connection, trouble>>

(* if (state.port) await state.port.close(): refused while a write holds   *)
(* the lock; without a port disconnect goes on to its end.                 *)
ClosePort ==
  /\ LET closes == port /\ ~writing /\ portState = "open"
     IN /\ closing' = IF closes THEN "port" ELSE "none"
        /\ portState' = IF closes THEN "closing" ELSE portState
  /\ IF port THEN UNCHANGED connection ELSE setConnected(FALSE)
  /\ trouble' = IF port /\ writing THEN trouble \cup {"write"} ELSE trouble

(* Mutant of CancelReader: the read goes on.                               *)
CancelReaderLater == closing' = "reader" /\ UNCHANGED loop

(* await state.reader.cancel(): the read that is pending is done.          *)
CancelReader ==
  /\ closing' = "reader"
  /\ loop' = IF loop = "reading" THEN "ended" ELSE loop

(* disconnect up to its first await, the button enabled only while the     *)
(* viewer shows a connection.  When an earlier disconnect is at an await,  *)
(* this one fails at its own.                                              *)
Disconnect ==
  /\ connection = "connected"
  /\ readLoopActive' = FALSE
  /\ CloseSocket
  /\ CASE closing # "none" -> UNCHANGED <<closing, loop, portState, connection, trouble>>
       [] closing = "none" /\ reader -> CancelReader /\ UNCHANGED <<portState, connection, trouble>>
       [] closing = "none" /\ ~reader -> ClosePort /\ UNCHANGED loop
  /\ UNCHANGED <<sourceType, port, reader, connecting, writing, incoming, sessionId, sessionVars,
                 half, connects, resets, joined>>

ReaderCancelled ==
  /\ closing = "reader"
  /\ reader' = FALSE
  /\ ClosePort
  /\ UNCHANGED <<sourceType, port, readLoopActive, loop, connecting, writing, bridgeVars,
                 sessionVars, half, connects, resets, joined>>

PortClosed ==
  /\ closing = "port"
  /\ closing' = "none" /\ portState' = "closed" /\ port' = FALSE
  /\ setConnected(FALSE)
  /\ UNCHANGED <<sourceType, reader, readLoopActive, loop, connecting, writing, bridgeVars,
                 sessionVars, half, connects, resets, trouble, joined>>

-----------------------------------------------------------------------------
(* connectJtag; each click makes a socket of its own.                      *)
ConnectJtag ==
  /\ Click /\ sourceType = "jtag"
  /\ socket' = connects'
  /\ sockets' = [sockets EXCEPT ![connects'] = "connecting"]
  /\ connection' = "connecting"
  /\ UNCHANGED <<sourceType, serialVars, incoming, sessionId, sessionVars, half, resets, joined>>

onopen(s) ==
  /\ sockets[s] = "connecting"
  /\ sockets' = [sockets EXCEPT ![s] = "open"]
  /\ incoming' = [incoming EXCEPT ![s] = <<[kind |-> "HELLO", label |-> known]>>]
  /\ setConnected(TRUE)
  /\ UNCHANGED <<sourceType, serialVars, socket, sessionId, sessionVars, half, connects, resets,
                 trouble, joined>>

(* onclose, after onerror when the connection failed: of whichever socket, *)
(* it is state.socket that becomes null.                                   *)
onclose(s) ==
  /\ sockets[s] \in {"connecting", "open", "closing"}
  /\ sockets' = [sockets EXCEPT ![s] = "closed"]
  /\ incoming' = [incoming EXCEPT ![s] = <<>>]
  /\ socket' = null
  /\ setConnected(FALSE)
  /\ UNCHANGED <<sourceType, serialVars, sessionId, sessionVars, half, connects, resets, trouble,
                 joined>>

(* A reset of the FPGA, which the bridge does not see.                     *)
FpgaReset ==
  /\ resets < MaxResets /\ resets' = resets + 1
  /\ session' = session + 1
  /\ \E new \in Relabels :
       label' = [label EXCEPT ![session'] = IF new THEN session' ELSE label[session]]
  /\ UNCHANGED <<sourceType, connection, serialVars, bridgeVars, known, half, connects,
                 trouble, joined>>

Broadcast(records) ==
  incoming' = [s \in Sockets |-> IF sockets[s] = "open" THEN incoming[s] \o records
                                 ELSE incoming[s]]

(* pump_once: the notice of another label, and a block if there is one.    *)
BridgeSends ==
  /\ \A s \in Sockets : Len(incoming[s]) < MaxQueue
  /\ known' = label[session]
  /\ LET notice == IF known' = known THEN <<>> ELSE <<[kind |-> "SESSION", label |-> known']>>
     IN \E data \in {<<>>, <<[kind |-> "DATA", session |-> session]>>} :
          Broadcast(notice \o data)
  /\ UNCHANGED <<sourceType, connection, serialVars, socket, sockets, sessionId, session,
                 label, half, connects, resets, trouble, joined>>

(* The bridge is started again, once its sockets are closed.               *)
BridgeStarts ==
  /\ \A s \in Sockets : sockets[s] # "open"
  /\ known' = Unread
  /\ UNCHANGED <<sourceType, connection, serialVars, bridgeVars, session, label, half,
                 connects, resets, trouble, joined>>

(* Mutant of consumeBridgeRecord: HELLO only takes the label over.         *)
consumeBridgeRecordAsIs(r) ==
  /\ sessionId' = IF r.kind = "DATA" THEN sessionId ELSE r.label
  /\ half' \in IF r.kind = "DATA" THEN {null, r.session}
               ELSE IF r.kind = "SESSION" THEN {null} ELSE {half}

(* consumeBridgeRecord: after DATA a half frame may be left.               *)
consumeBridgeRecord(r) ==
  /\ sessionId' = IF r.kind = "DATA" THEN sessionId ELSE r.label
  /\ half' \in CASE r.kind = "DATA" -> {null, r.session}
                 [] r.kind = "SESSION" -> {null}
                 [] r.kind = "HELLO" ->
                      {IF sessionId \notin {null, r.label} THEN null ELSE half}

onmessage(s) ==
  /\ sockets[s] = "open" /\ incoming[s] # <<>>
  /\ LET r == Head(incoming[s])
     IN /\ consumeBridgeRecord(r)
        /\ joined' = IF r.kind = "DATA" /\ half \in Sessions \ {r.session}
                     THEN joined \cup {<<half, r.session>>} ELSE joined
  /\ incoming' = [incoming EXCEPT ![s] = Tail(@)]
  /\ UNCHANGED <<sourceType, connection, serialVars, socket, sockets, sessionVars, connects,
                 resets, trouble>>

(* A record that is too long or does not parse: state.socket is closed.    *)
BadRecord(s) ==
  /\ sockets[s] = "open" /\ socket # null
  /\ sockets' = [sockets EXCEPT ![socket] = "closing"]
  /\ setConnected(FALSE)
  /\ UNCHANGED <<sourceType, serialVars, socket, incoming, sessionId, sessionVars, half,
                 connects, resets, trouble, joined>>

replayRawCapture ==
  /\ half' \in {null, Other}
  /\ UNCHANGED <<sourceType, connection, serialVars, bridgeVars, sessionVars, connects, resets,
                 trouble, joined>>

TransportsNext ==
  \/ ChangeSource \/ Connect \/ PortChosen \/ PortOpened \/ ReadChunk \/ LineError \/ LoopEnds
  \/ Write \/ Disconnect \/ ReaderCancelled \/ PortClosed
  \/ ConnectJtag \/ FpgaReset \/ BridgeSends \/ BridgeStarts \/ replayRawCapture
  \/ \E s \in Sockets : onopen(s) \/ onclose(s) \/ onmessage(s) \/ BadRecord(s)

TransportsSpec == TransportsInit /\ [][TransportsNext]_transportsVars

-----------------------------------------------------------------------------
(* Every variable holds a value of its kind, and a read loop that runs has *)
(* a port.                                                                 *)
TransportsTypeOK ==
  /\ sourceType \in {"serial", "jtag"}
  /\ connection \in {"disconnected", "connecting", "connected"}
  /\ {port, reader, readLoopActive, writing} \subseteq BOOLEAN
  /\ loop \in {"none", "reading", "ended"}
  /\ connecting \in {"none", "prompt", "opening"} /\ closing \in {"none", "reader", "port"}
  /\ portState \in {"closed", "opening", "open", "closing"}
  /\ socket \in Sockets \cup {null}
  /\ label \in [Sessions -> Sessions] /\ known \in Sessions \cup {Unread}
  /\ sessionId \in Sessions \cup {null, Unread}
  /\ sockets \in [Sockets -> {"none", "connecting", "open", "closing", "closed"}]
  /\ half \in Sessions \cup {null, Other} /\ joined \subseteq Sessions \X Sessions
  /\ trouble \subseteq {"overlap", "line", "write"}
  /\ loop = "reading" => reader /\ portState \in {"open", "opening"}

(* Where bytes can come from.                                              *)
Feeds == {s \in Sockets : sockets[s] = "open"} \cup (IF loop = "reading" THEN {null} ELSE {})

(* What is shown is so.  Unless Connect was clicked before an earlier      *)
(* connection was over, the line had an error, or Disconnect met a write,  *)
(* a viewer that shows a connection has one source of bytes, which is the  *)
(* one that Disconnect ends; and one that shows none, and is at no await,  *)
(* has no source, and its port can be opened again (setConnected,          *)
(* readLoop, disconnect, the socket's callbacks).                          *)
ShownIsSo ==
  trouble = {} =>
    /\ Cardinality(Feeds) <= 1
    /\ connection = "connected" =>
         \/ loop # "none" /\ reader /\ port
         \/ closing # "none"
         \/ socket # null /\ sockets[socket] = "open"
    /\ connection = "disconnected" /\ ~Unfinished =>
         portState = "closed" /\ ~reader /\ socket = null

(* A half frame that one session of the FPGA left is never continued with  *)
(* bytes of another, as long as no two connections overlap; unless both    *)
(* sessions have the same label, for then nothing tells of the reset       *)
(* (pump_once, consumeBridgeRecord).                                       *)
SessionsNotJoined ==
  "overlap" \notin trouble => \A pair \in joined : label[pair[1]] = label[pair[2]]

(* What the design document says: a reset brings a new session_id, and the *)
(* host discards the parser's half frame.                                  *)
ResetDiscardsHalf == "overlap" \notin trouble => joined = {}
=============================================================================
