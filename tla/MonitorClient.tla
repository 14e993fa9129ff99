--------------------------- MODULE MonitorClient ---------------------------
(***************************************************************************)
(* The viewer's record of the monitor requests it has made and of what the *)
(* FPGA answered (state.monitor of app.js), as operators on one record m.  *)
(* The modules Viewer and Requests keep such a record in a variable.        *)
(*                                                                         *)
(* A register's value is any value; a status is 0 when the request was     *)
(* carried out.  The history that is kept for export only is left out.     *)
(***************************************************************************)
LOCAL INSTANCE Naturals
LOCAL INSTANCE Sequences

CONSTANTS
  MaxSeq,      \* the last sequence number before they start again (65535)
  MaxErrors    \* entries of the error list (100)

ASSUME MonitorClientAssumption == MaxSeq \in Nat \ {0} /\ MaxErrors \in Nat \ {0}

NoEntries == [x \in {} |-> x]

createMonitorState ==
  [values |-> NoEntries, pending |-> NoEntries, seq |-> 1, pollEnabled |-> FALSE,
   errors |-> <<>>]

(* Lists that show the newest first and forget the oldest.                 *)
Unshift(s, x, max) == SubSeq(<<x>> \o s, 1, IF Len(s) < max THEN Len(s) + 1 ELSE max)

addMonitorError(m, kind) == [m EXCEPT !.errors = Unshift(@, kind, MaxErrors)]

updateMonitorValue(m, addr, value) ==
  [m EXCEPT !.values = [a \in DOMAIN @ \cup {addr} |-> IF a = addr THEN value ELSE @[a]]]

(* Mutant of nextMonitorSeq: one number too many.                          *)
nextMonitorSeqTooFar(m) == IF m.seq > MaxSeq THEN 1 ELSE m.seq + 1

(* Mutant of nextMonitorSeq: the lowest number under which none is pending.*)
nextMonitorSeqLowest(m) ==
  LET free == (1 .. MaxSeq) \ (DOMAIN m.pending \cup {m.seq})
  IN IF free = {} THEN 1 ELSE CHOOSE s \in free : \A t \in free : s <= t

nextMonitorSeq(m) == IF m.seq = MaxSeq THEN 1 ELSE m.seq + 1

(* encodeMonitorRead and encodeMonitorWrite: take a number and remember    *)
(* the request under it, before anything has been sent.                    *)
encodeMonitor(m, entry) ==
  [m EXCEPT !.seq = nextMonitorSeq(m),
            !.pending = [s \in DOMAIN @ \cup {m.seq} |-> IF s = m.seq THEN entry ELSE @[s]]]

(* A response r = [kind, seq, addr, status, value]: it settles the request *)
(* of its number, if one is pending; its value is shown in either case.    *)
(* Of an error the list keeps the kind.                                    *)
decodeMonitorResponse(m, r) ==
  LET known == r.seq \in DOMAIN m.pending
      settled == [m EXCEPT !.pending = [s \in DOMAIN @ \ {r.seq} |-> @[s]]]
      valued == IF r.status = 0 THEN updateMonitorValue(settled, r.addr, r.value) ELSE settled
  IN IF ~known \/ r.status # 0 THEN addMonitorError(valued, r.kind) ELSE valued
=============================================================================
