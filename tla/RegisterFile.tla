---------------------------- MODULE RegisterFile ----------------------------
(***************************************************************************)
(* What the register path of the FPGA promises its host: requests are      *)
(* carried out one at a time and at once, and each is answered once, in    *)
(* the order of the requests, under its own number and with what it found  *)
(* and left.  A value is the set of its one bits.                          *)
(***************************************************************************)
EXTENDS Naturals, Sequences

CONSTANTS
  none,        \* no request
  Fixed,       \* the value of each register that only reads
  Plain,       \* the first value of each register that holds what is written
  Nonzero,     \* those of Plain that refuse to become zero
  Sticky,      \* flags that the hardware raises and that writing one clears
  Pulse,       \* a register that only triggers
  FullWidth,
  Raises,      \* the sets of flags that may be raised at once
  Capacity     \* answers that may wait

VARIABLES
  request,     \* the request that is offered, or none
  value,       \* of the registers of Plain
  flags,
  pulse,
  answers      \* the answers that wait, the oldest first

fileVars == <<request, value, flags, pulse, answers>>

Found(r, raised) ==
  CASE r.addr \in DOMAIN Fixed -> Fixed[r.addr]
    [] r.addr \in DOMAIN Plain -> value[r.addr]
    [] r.addr = Sticky -> flags \cup raised
    [] OTHER -> {}

Mixed(r) == (value[r.addr] \ r.wmask) \cup (r.wdata \cap r.wmask)

Known(r) == r.addr \in DOMAIN Fixed \cup DOMAIN Plain \cup {Sticky, Pulse}
Verdict(r) ==
  CASE ~Known(r) -> "BAD_ADDR"
    [] Known(r) /\ r.width # FullWidth -> "BAD_LEN"
    [] r.width = FullWidth /\ r.write /\ r.addr \in DOMAIN Fixed -> "DENIED"
    [] r.width = FullWidth /\ r.write /\ r.addr \in Nonzero /\ Mixed(r) = {} -> "BAD_VALUE"
    [] OTHER -> "OK"

(* The answer joins the others, of which the first may leave.              *)
Left(leaves) == IF leaves THEN Tail(answers) ELSE answers
Answered(raised, leaves, new) ==
  /\ answers' = Append(Left(leaves),
       [seq |-> request.seq, addr |-> request.addr, write |-> request.write,
        status |-> Verdict(request), old |-> Found(request, raised), new |-> new])
  /\ Len(answers') <= Capacity

-----------------------------------------------------------------------------
Init ==
  /\ request = none /\ value = Plain /\ flags = {} /\ pulse = FALSE /\ answers = <<>>

(* Nothing is carried out, and a request that is offered stays.            *)
Rest(raised, leaves) ==
  /\ request # none => request' = request
  /\ flags' = flags \cup raised /\ pulse' = FALSE
  /\ answers' = Left(leaves)
  /\ UNCHANGED value

Accepts == request # none /\ request.write /\ Verdict(request) = "OK"

(* A read, or what is refused, changes nothing.                            *)
Look(raised, leaves) ==
  /\ request # none /\ ~Accepts
  /\ flags' = flags \cup raised /\ pulse' = FALSE
  /\ Answered(raised, leaves, Found(request, raised))
  /\ UNCHANGED value

Put(raised, leaves) ==
  /\ Accepts /\ request.addr \in DOMAIN Plain
  /\ value' = [value EXCEPT ![request.addr] = Mixed(request)]
  /\ flags' = flags \cup raised /\ pulse' = FALSE
  /\ Answered(raised, leaves, Mixed(request))

(* A flag that is raised while it is cleared stays raised.                 *)
Clear(raised, leaves) ==
  /\ Accepts /\ request.addr = Sticky
  /\ flags' = (flags \ request.wdata) \cup raised /\ pulse' = FALSE
  /\ Answered(raised, leaves, Found(request, raised) \ request.wdata)
  /\ UNCHANGED value

Trigger(raised, leaves) ==
  /\ Accepts /\ request.addr = Pulse
  /\ flags' = flags \cup raised /\ pulse' = (request.wdata # {})
  /\ Answered(raised, leaves, {})
  /\ UNCHANGED value

Next ==
  \E raised \in Raises, leaves \in {l \in BOOLEAN : l => answers # <<>>} :
    \/ Rest(raised, leaves) \/ Look(raised, leaves) \/ Put(raised, leaves)
    \/ Clear(raised, leaves) \/ Trigger(raised, leaves)

Spec == Init /\ [][Next]_fileVars
=============================================================================
