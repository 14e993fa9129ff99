------------------------------ MODULE Requests ------------------------------
(***************************************************************************)
(* The viewer's monitor requests from the button to the answer (app.js):   *)
(* numbering, the queue of writes, the answers, the timer that expires     *)
(* requests and polls, the logic analyzer's settings that are written one  *)
(* after the other, and Clear, which starts the numbers again.             *)
(*                                                                         *)
(* Requests and answers pass the serial line in order and may be lost.     *)
(* The FPGA's registers are the two whose values depend on each other,     *)
(* capture depth and pretrigger depth.  An id counts the requests made;    *)
(* the program does not know it.                                           *)
(***************************************************************************)
EXTENDS Naturals, Sequences, FiniteSets, SequencesExt, MonitorClient

CONSTANTS
  SampleDepth,   \* the deepest capture (YFD_LA_MAX_SAMPLE_DEPTH)
  Depths,        \* the depths that may be asked for
  ReadAddrs,     \* the registers the user reads one by one
  Timeout,       \* rounds of the timer after which a request expires
  MaxRequests, MaxClears, MaxApplies, MaxFaults   \* bounds

ASSUME RequestsAssumption ==
  /\ SampleDepth \in Nat \ {0, 1} /\ Timeout \in Nat \ {0} /\ MaxRequests \in Nat
  /\ Depths \subseteq Nat /\ ReadAddrs \subseteq {"capture_depth", "pretrigger_depth"}

Ids == 1 .. MaxRequests
Registers == <<"capture_depth", "pretrigger_depth">>
Addrs == {"capture_depth", "pretrigger_depth"}
OK == 0
BAD_VALUE == 5

VARIABLES
  client,     \* m: state.monitor; queue: monitorWriteQueue; asked: requests made
  link,       \* whether requests find a port that can be written: not over JTAG
  inbox,      \* requests on their way to the FPGA
  answers,    \* answers on their way back
  device,     \* the FPGA's registers
  configs,    \* state.logicAnalyzer.config: Clear makes a new object, the last of these
  applies,    \* the applyLogicAnalyzerConfig calls: the object they write, the
              \* register to write next, and the request whose sending they await
  lastWrite,  \* history: the last request that writes each register
  failed,     \* history: ids of requests reported as failed or expired
  foreign,    \* history: pairs of a request and the answer to another that settled it
  forgotten,  \* history: requests made before the last Clear
  clears, faults

vars == <<client, link, inbox, answers, device, configs, applies, lastWrite, failed, foreign,
          forgotten, clears, faults>>

Settings(depth, pretrigger) ==
  [addr \in Addrs |-> IF addr = "capture_depth" THEN depth ELSE pretrigger]

Init ==
  /\ client = [m |-> createMonitorState, queue |-> <<>>, asked |-> 0]
  /\ link \in BOOLEAN /\ inbox = <<>> /\ answers = <<>>
  /\ device = Settings(2, 1)
  /\ configs = <<device>>
  /\ applies = <<>>
  /\ lastWrite = [r \in Addrs |-> 0]
  /\ failed = {} /\ foreign = {} /\ forgotten = 0 /\ clears = 0 /\ faults = 0

pending == client.m.pending

(* The values and errors that are shown are module Viewer's.               *)
Kept(m) == [m EXCEPT !.values = NoEntries, !.errors = <<>>]

(* The writes that the calls under way will still make keep their room.    *)
Owed == {w \in (1 .. Len(applies)) \X (1 .. Len(Registers)) : applies[w[1]].next <= w[2]}
Room(n) == client.asked + Cardinality(Owed) + n <= MaxRequests

(* monitorRead, monitorWrite up to the await: the request takes a number,  *)
(* is remembered, and joins the queue of writes.                           *)
Ask(c, op, addr, value) ==
  LET id == c.asked + 1
  IN [m |-> encodeMonitor(c.m, [id |-> id, addr |-> addr, age |-> 0]),
      queue |-> Append(c.queue, [op |-> op, seq |-> c.m.seq, id |-> id, addr |-> addr,
                                 value |-> value]),
      asked |-> id]

monitorRead(addr) ==
  /\ Room(1)
  /\ client' = Ask(client, "read", addr, 0)
  /\ UNCHANGED <<link, inbox, answers, device, configs, applies, lastWrite, failed, foreign,
                 forgotten, clears, faults>>

(* monitorReadAll                                                          *)
ReadAll(c) == Ask(Ask(c, "read", Registers[1], 0), "read", Registers[2], 0)

(* What one bound counts: failures, and switches of the user's.            *)
Fault == faults < MaxFaults /\ faults' = faults + 1

(* sendMonitorBytes, sendMonitorBytesNow: one write at a time.  A write    *)
(* that fails may have reached the FPGA, one that succeeds may not.  The   *)
(* call that awaited it goes on before anything else happens: the next     *)
(* register of applyLogicAnalyzerConfig.                                   *)
Awaiting(id) ==
  {a \in 1 .. Len(applies) : applies[a].awaits = id /\ applies[a].next <= Len(Registers)}
Continue(id, c) ==
  IF Awaiting(id) # {}
  THEN LET a == CHOOSE b \in Awaiting(id) : TRUE
           addr == Registers[applies[a].next]
       IN /\ client' = Ask(c, "write", addr, configs[applies[a].object][addr])
          /\ lastWrite' = [lastWrite EXCEPT ![addr] = client'.asked]
          /\ applies' = [applies EXCEPT ![a] = [object |-> @.object, next |-> @.next + 1,
                                                awaits |-> client'.asked]]
  ELSE client' = c /\ UNCHANGED <<lastWrite, applies>>

(* Mutant of Failed: the failure is thrown, and ends the call.             *)
FailedThrows(id, c) == client' = c /\ UNCHANGED <<lastWrite, applies>>

(* A failure is recorded and returned, not thrown: the call goes on.       *)
Failed(id, c) == Continue(id, [c EXCEPT !.m = Kept(addMonitorError(@, "monitor_error"))])

Send ==
  /\ client.queue # <<>>
  /\ LET r == Head(client.queue)
         sent == [client EXCEPT !.queue = Tail(@)]
     IN \/ ~link /\ Failed(r.id, sent) /\ UNCHANGED <<inbox, faults>>
        \/ link /\ Continue(r.id, sent) /\ inbox' = Append(inbox, r) /\ UNCHANGED faults
        \/ /\ link /\ Fault
           /\ \/ Continue(r.id, sent) /\ UNCHANGED inbox
              \/ Failed(r.id, sent) /\ inbox' \in {inbox, Append(inbox, r)}
  /\ UNCHANGED <<link, answers, device, configs, failed, foreign, forgotten, clears>>

(* applyLogicAnalyzerConfig up to its first await: the settings are read   *)
(* from the inputs, and the first is written.                              *)
Apply ==
  /\ Len(applies) < MaxApplies /\ Room(Len(Registers))
  /\ \E depth \in Depths \ {0}, pre \in Depths :
       configs' = [configs EXCEPT ![Len(configs)] = Settings(depth, pre)]
  /\ client' = Ask(client, "write", Registers[1], Last(configs')[Registers[1]])
  /\ lastWrite' = [lastWrite EXCEPT ![Registers[1]] = client'.asked]
  /\ applies' = Append(applies, [object |-> Len(configs), next |-> 2, awaits |-> client'.asked])
  /\ UNCHANGED <<link, inbox, answers, device, failed, foreign, forgotten, clears, faults>>

(* The register bank: the status it gives, and the answer.                 *)
status(r) ==
  IF r.op = "write" /\ \/ r.addr = "capture_depth" /\ r.value \notin 1 .. SampleDepth
                       \/ r.addr = "pretrigger_depth" /\ r.value >= device["capture_depth"]
  THEN BAD_VALUE ELSE OK

Respond ==
  /\ inbox # <<>> /\ inbox' = Tail(inbox)
  /\ LET r == Head(inbox)
         new == IF r.op = "write" /\ status(r) = OK THEN r.value ELSE device[r.addr]
     IN /\ device' = [device EXCEPT ![r.addr] = new]
        /\ answers' = Append(answers, [kind |-> r.op, seq |-> r.seq, id |-> r.id,
                                       addr |-> r.addr, status |-> status(r), value |-> new])
  /\ UNCHANGED <<client, link, configs, applies, lastWrite, failed, foreign, forgotten, clears, faults>>

(* An answer arrives, or is lost.                                          *)
Receive ==
  /\ answers # <<>> /\ answers' = Tail(answers)
  /\ LET r == Head(answers)
     IN \/ Fault /\ UNCHANGED <<client, failed, foreign>>
        \/ /\ UNCHANGED faults
           /\ client' = [client EXCEPT !.m = Kept(decodeMonitorResponse(@, r))]
           /\ IF r.seq \in DOMAIN pending
              THEN LET id == pending[r.seq].id
                   IN /\ failed' = IF r.status = OK THEN failed ELSE failed \cup {id}
                      /\ foreign' = IF id = r.id THEN foreign ELSE foreign \cup {<<id, r.id>>}
              ELSE UNCHANGED <<failed, foreign>>
  /\ UNCHANGED <<link, inbox, device, configs, applies, lastWrite, forgotten, clears>>

(* expireMonitorPending, one round of the timer later; its errors are not  *)
(* kept here.                                                              *)
Overdue(m) == {s \in DOMAIN m.pending : m.pending[s].age + 1 >= Timeout}
Older(entry) == [entry EXCEPT !.age = @ + 1]
expireMonitorPending(m) ==
  [m EXCEPT !.pending = [s \in DOMAIN @ \ Overdue(m) |-> Older(@[s])]]

(* The timer: expire, and poll when nothing is pending.                    *)
Timer ==
  /\ LET m == expireMonitorPending(client.m)
         c == [client EXCEPT !.m = m]
     IN client' = IF m.pollEnabled /\ DOMAIN m.pending = {} /\ Room(Len(Registers))
                  THEN ReadAll(c) ELSE c
  /\ failed' = failed \cup {pending[s].id : s \in Overdue(client.m)}
  /\ UNCHANGED <<link, inbox, answers, device, configs, applies, lastWrite, foreign, forgotten,
                 clears, faults>>

SetPoll ==
  /\ Fault
  /\ client' = [client EXCEPT !.m.pollEnabled = ~@]
  /\ UNCHANGED <<link, inbox, answers, device, configs, applies, lastWrite, failed, foreign,
                 forgotten, clears>>

(* clearAll: the requests are forgotten, those in the queue are still sent.*)
Clear ==
  /\ clears < MaxClears /\ clears' = clears + 1
  /\ client' = [client EXCEPT !.m = createMonitorState]
  /\ configs' = Append(configs, Settings(2, 1))
  /\ forgotten' = client.asked
  /\ UNCHANGED <<link, inbox, answers, device, applies, lastWrite, failed, foreign, faults>>

(* The viewer is connected, disconnected or switched over.                 *)
ChangeLink ==
  /\ link' = ~link /\ Fault
  /\ UNCHANGED <<client, inbox, answers, device, configs, applies, lastWrite, failed, foreign,
                 forgotten, clears>>

Next ==
  \/ \E addr \in ReadAddrs : monitorRead(addr)
  \/ Send \/ Apply
  \/ Respond \/ Receive \/ Timer \/ SetPoll \/ Clear \/ ChangeLink

Spec == Init /\ [][Next]_vars

-----------------------------------------------------------------------------
(* Every variable holds a value of its kind; a number is pending for one   *)
(* request, the last that took it.                                         *)
TypeOK ==
  /\ client.asked \in 0 .. MaxRequests
  /\ client.m.seq \in 1 .. MaxSeq /\ DOMAIN pending \subseteq 1 .. MaxSeq
  /\ \A s \in DOMAIN pending : pending[s].id \in Ids /\ pending[s].age < Timeout
  /\ \A s, t \in DOMAIN pending : pending[s].id = pending[t].id => s = t
  /\ link \in BOOLEAN
  /\ device \in [Addrs -> Nat] /\ device["capture_depth"] \in 1 .. SampleDepth
  /\ failed \subseteq Ids /\ foreign \subseteq Ids \X Ids

(* The answer that settles a request answers that request, however late    *)
(* the answers of those before it come and whichever are lost; unless      *)
(* Clear started the numbers again while the other answer was under way,   *)
(* or all numbers were used up in between (nextMonitorSeq,                 *)
(* expireMonitorPending, decodeMonitorReadResponse).                       *)
AnswerIsOwn ==
  \A p \in foreign : p[2] <= forgotten \/ p[1] - p[2] >= MaxSeq

(* When every call has been sent and nothing is under way, the analyzer    *)
(* has the settings that were applied last, or the write of each that it   *)
(* lacks was reported; also when two calls were mixed, since the later   *)
(* one's values are what both write.  Clear, and a number that is taken    *)
(* again while it is pending, drop the report (applyLogicAnalyzerConfig).  *)
Settled ==
  client.queue = <<>> /\ inbox = <<>> /\ answers = <<>> /\ DOMAIN pending = {}
ConfigAppliedOrReported ==
  Settled /\ applies # <<>> /\ clears = 0 /\ foreign = {} =>
    \A r \in Addrs : \/ device[r] = Last(configs)[r] \/ lastWrite[r] \in failed
                    \/ client.asked - lastWrite[r] >= MaxSeq
=============================================================================
