-------------------------- MODULE LogicAnalyzerProofs --------------------------
(***************************************************************************)
(* Proofs about the logic analyzer (module LogicAnalyzer), for a sample    *)
(* memory and chunks of any size, any configurations and commands, any     *)
(* number of register writes and of lost messages.                         *)
(***************************************************************************)
EXTENDS LogicAnalyzer, SequenceTheorems, TLAPS

-----------------------------------------------------------------------------
(* Places in the circular sample memory.  The place k before a pointer     *)
(* stays where it is when the pointer moves on.                            *)
Ptr == 0 .. SampleDepth - 1

LEMMA PtrsMove ==
  ASSUME NEW p \in Ptr
  PROVE  /\ inc_ptr(p) \in Ptr /\ calc_start_ptr(inc_ptr(p), 1) = p
         /\ \A k \in 0 .. SampleDepth : calc_start_ptr(p, k) \in Ptr
         /\ \A k \in 0 .. SampleDepth - 1 : add_ptr(p, k) \in Ptr
         /\ \A k \in 1 .. SampleDepth - 1 :
              /\ calc_start_ptr(inc_ptr(p), k + 1) = calc_start_ptr(p, k)
              /\ calc_start_ptr(p, k) # p
BY LaAssumption DEF Ptr, inc_ptr, calc_start_ptr, add_ptr

(* From the oldest of n samples on, the read port goes towards the pointer *)
LEMMA PtrsRead ==
  ASSUME NEW p \in Ptr, NEW n \in 0 .. SampleDepth, NEW i \in 1 .. n
  PROVE  add_ptr(calc_start_ptr(p, n), i - 1) = calc_start_ptr(p, (n - i) + 1)
BY LaAssumption DEF Ptr, calc_start_ptr, add_ptr

-----------------------------------------------------------------------------
(* The kinds of values.                                                    *)
CoreStates == {"IDLE", "ARMED", "CAPTURING", "DONE", "READOUT", "ERROR"}
FlagNames == {"VALID", "TRIGGERED", "FORCED", "OVERFLOW", "PARTIAL"}
Cores ==
  [state : CoreStates, samples_written : 0 .. SampleDepth, trigger_index : Ptr,
   capture_id : Nat, overflow : BOOLEAN, flags : SUBSET FlagNames,
   trigger_sample_value : Bit, write_ptr : Ptr, div_count : Nat,
   post_remaining : 0 .. SampleDepth, read_start_ptr : Ptr, last_sample_value : Bit,
   prev_sample : Bit, read_sample : Bit, read_valid : BOOLEAN]

AdapterStates == {"IDLE", "HEADER", "TRIGGER", "READ", "DATA", "STATUS", "DONE"}
Adapters ==
  [state : AdapterStates, chunk_index : Nat, sample_index : Nat, chunks_total : Int,
   chunks_sent : Nat, samples_in_chunk : Nat, capture_id : Nat, data_payload : Seq(Bit),
   core_start_readout_pulse : BOOLEAN, core_readout_done_pulse : BOOLEAN,
   core_read_req : BOOLEAN, core_read_index : Nat]

CoreTypes ==
  /\ config \in Config /\ core \in Cores /\ buffer \in [Ptr -> Bit]
  /\ taken \in Seq(Bit) /\ Len(taken) <= SampleDepth
  /\ adapter \in Adapters
  /\ \A id \in DOMAIN truth : truth[id] \in Seq(Bit)

(* What stays as it is when nothing but the divider, the trigger's memory  *)
(* and the read port moves.                                                *)
SameCapture(c) ==
  /\ c.samples_written = core.samples_written /\ c.trigger_index = core.trigger_index
  /\ c.capture_id = core.capture_id /\ c.overflow = core.overflow /\ c.flags = core.flags
  /\ c.trigger_sample_value = core.trigger_sample_value /\ c.write_ptr = core.write_ptr
  /\ c.post_remaining = core.post_remaining /\ c.read_start_ptr = core.read_start_ptr
  /\ c.last_sample_value = core.last_sample_value

Ports(c, sample) ==
  /\ c.div_count = IF active_capture /\ core.div_count # config.sample_divisor - 1
                   THEN core.div_count + 1 ELSE 0
  /\ c.prev_sample = IF ~(config.enable /\ core.state = "ARMED") \/ sample_due THEN sample
                     ELSE core.prev_sample
  /\ c.read_valid <=> reading
  /\ reading => c.read_sample = Captured[adapter.core_read_index + 1]

LEMMA RunningIs ==
  ASSUME CoreTypes, NEW sample \in Bit
  PROVE  /\ Running(sample) \in Cores /\ SameCapture(Running(sample))
         /\ Running(sample).state = core.state /\ Ports(Running(sample), sample)
<1>1. core \in Cores /\ adapter \in Adapters /\ buffer \in [Ptr -> Bit]
  BY DEF CoreTypes
<1>2. /\ core.samples_written \in 0 .. SampleDepth /\ core.read_start_ptr \in Ptr
      /\ adapter.core_read_index \in Nat /\ core.prev_sample \in Bit /\ core.read_sample \in Bit
      /\ core.div_count \in Nat
  BY <1>1 DEF Cores, Adapters
<1> DEFINE i == adapter.core_read_index
           d == IF active_capture /\ core.div_count # config.sample_divisor - 1
                THEN core.div_count + 1 ELSE 0
           v == IF ~(config.enable /\ core.state = "ARMED") \/ sample_due THEN sample
                ELSE core.prev_sample
           s == IF reading THEN buffer[add_ptr(core.read_start_ptr, i)] ELSE core.read_sample
<1>3. Running(sample) = [core EXCEPT !.div_count = d, !.prev_sample = v, !.read_valid = reading,
                                     !.read_sample = s]
  BY DEF Running
<1>4. reading => s = Captured[i + 1] /\ s \in Bit
  <2> SUFFICES ASSUME reading PROVE s = Captured[i + 1] /\ s \in Bit
    OBVIOUS
  <2>1. i + 1 \in 1 .. core.samples_written /\ i \in 0 .. SampleDepth - 1 /\ (i + 1) - 1 = i
    BY <1>2, LaAssumption DEF reading
  <2>2. s = buffer[add_ptr(core.read_start_ptr, i)]
    OBVIOUS
  <2>3. Captured[i + 1] = buffer[add_ptr(core.read_start_ptr, (i + 1) - 1)]
    BY <2>1 DEF Captured
  <2>4. add_ptr(core.read_start_ptr, i) \in Ptr
    BY <1>2, <2>1, PtrsMove
  <2> HIDE DEF s
  <2> QED BY <1>1, <2>1, <2>2, <2>3, <2>4
<1>5. d \in Nat /\ v \in Bit /\ s \in Bit /\ reading \in BOOLEAN
  BY <1>2, <1>4 DEF reading
<1> HIDE DEF d, v, s
<1>6. /\ Running(sample) \in Cores /\ SameCapture(Running(sample))
      /\ Running(sample).state = core.state
      /\ Running(sample).div_count = d /\ Running(sample).prev_sample = v
      /\ Running(sample).read_valid = reading /\ Running(sample).read_sample = s
  <2>1. Running(sample) \in Cores
    <3> DEFINE c == [core EXCEPT !.div_count = d, !.prev_sample = v]
    <3>1. c \in Cores
      BY <1>1, <1>5 DEF Cores
    <3>2. Running(sample) = [c EXCEPT !.read_valid = reading, !.read_sample = s]
      BY <1>1, <1>3 DEF Cores
    <3> HIDE DEF c
    <3> QED BY <1>5, <3>1, <3>2 DEF Cores
  <2>2. SameCapture(Running(sample)) /\ Running(sample).state = core.state
    BY <1>1, <1>3 DEF Cores, SameCapture
  <2>3. /\ Running(sample).div_count = d /\ Running(sample).prev_sample = v
        /\ Running(sample).read_valid = reading /\ Running(sample).read_sample = s
    BY <1>1, <1>3 DEF Cores
  <2> QED BY <2>1, <2>2, <2>3
<1>7. Running(sample).read_valid <=> reading
  BY <1>5, <1>6
<1> QED BY <1>4, <1>6, <1>7 DEF Ports, d, v

-----------------------------------------------------------------------------
(* The samples in the memory and on the bus.                               *)
Recent(t, k) == t[(Len(t) - k) + 1]
Longer(t, s) ==
  LET all == Append(t, s) IN IF Len(all) > SampleDepth THEN Tail(all) ELSE all

(* The n places before pointer p hold the last n samples.                  *)
Holds(b, t, p, n) ==
  n <= Len(t) /\ \A k \in 1 .. n : b[calc_start_ptr(p, k)] = Recent(t, k)

LEMMA LongerIs ==
  ASSUME NEW t \in Seq(Bit), Len(t) <= SampleDepth, NEW s \in Bit
  PROVE  /\ Longer(t, s) \in Seq(Bit) /\ Len(Longer(t, s)) <= SampleDepth
         /\ Longer(t, s) # <<>> /\ Recent(Longer(t, s), 1) = s
         /\ \A n \in 0 .. SampleDepth - 1 : n <= Len(t) => n + 1 <= Len(Longer(t, s))
         /\ \A k \in 1 .. SampleDepth - 1 :
              k <= Len(t) => Recent(Longer(t, s), k + 1) = Recent(t, k)
<1> DEFINE all == Append(t, s)
           u == Longer(t, s)
<1>1. /\ all \in Seq(Bit) /\ Len(t) \in Nat /\ Len(all) = Len(t) + 1 /\ all # <<>>
      /\ all[Len(t) + 1] = s /\ \A i \in 1 .. Len(t) : all[i] = t[i]
  OBVIOUS
<1>2. SampleDepth \in Nat \ {0}
  BY LaAssumption
<1>3. u = IF Len(all) > SampleDepth THEN Tail(all) ELSE all
  BY DEF Longer
<1>4. /\ Tail(all) \in Seq(Bit) /\ Len(Tail(all)) = Len(t)
      /\ \A i \in 1 .. Len(t) : Tail(all)[i] = all[i + 1]
  BY <1>1, HeadTailProperties
<1> HIDE DEF all, u
<1>5. CASE Len(all) > SampleDepth
  <2>1. Len(t) = SampleDepth /\ u = Tail(all) /\ Len(u) = SampleDepth
    BY <1>1, <1>2, <1>3, <1>4, <1>5
  <2>2. /\ u \in Seq(Bit) /\ Len(u) <= SampleDepth /\ u # <<>>
        /\ \A n \in 0 .. SampleDepth - 1 : n <= Len(t) => n + 1 <= Len(u)
    BY <1>2, <1>4, <2>1
  <2>3. u[Len(u)] = s /\ (Len(u) - 1) + 1 = Len(u)
    BY <1>1, <1>2, <1>4, <2>1
  <2>4. ASSUME NEW k \in 1 .. SampleDepth - 1, k <= Len(t)
        PROVE  u[(Len(u) - (k + 1)) + 1] = t[(Len(t) - k) + 1]
    <3>1. (Len(u) - (k + 1)) + 1 = SampleDepth - k /\ SampleDepth - k \in 1 .. Len(t)
          /\ (SampleDepth - k) + 1 \in 1 .. Len(t) /\ (Len(t) - k) + 1 = (SampleDepth - k) + 1
      BY <1>2, <2>1
    <3>2. u[SampleDepth - k] = all[(SampleDepth - k) + 1]
      BY <1>4, <2>1, <3>1
    <3> QED BY <1>1, <3>1, <3>2
  <2> QED BY <2>2, <2>3, <2>4 DEF Recent, u
<1>6. CASE ~(Len(all) > SampleDepth)
  <2>1. u = all /\ Len(u) = Len(t) + 1 /\ Len(u) <= SampleDepth
    BY <1>1, <1>2, <1>3, <1>6
  <2>2. /\ u \in Seq(Bit) /\ u # <<>>
        /\ \A n \in 0 .. SampleDepth - 1 : n <= Len(t) => n + 1 <= Len(u)
    BY <1>1, <1>2, <2>1
  <2>3. u[Len(u)] = s /\ (Len(u) - 1) + 1 = Len(u)
    BY <1>1, <2>1
  <2>4. ASSUME NEW k \in 1 .. SampleDepth - 1, k <= Len(t)
        PROVE  u[(Len(u) - (k + 1)) + 1] = t[(Len(t) - k) + 1]
    <3>1. (Len(u) - (k + 1)) + 1 = (Len(t) - k) + 1 /\ (Len(t) - k) + 1 \in 1 .. Len(t)
      BY <1>1, <1>2, <2>1, <2>4
    <3> QED BY <1>1, <2>1, <3>1
  <2> QED BY <2>1, <2>2, <2>3, <2>4 DEF Recent, u
<1> QED BY <1>5, <1>6

LEMMA HoldsMore ==
  ASSUME NEW b \in [Ptr -> Bit], NEW t \in Seq(Bit), Len(t) <= SampleDepth, NEW s \in Bit,
         NEW p \in Ptr, NEW n \in 0 .. SampleDepth - 1, Holds(b, t, p, n)
  PROVE  Holds([b EXCEPT ![p] = s], Longer(t, s), inc_ptr(p), n + 1)
<1> DEFINE c == [b EXCEPT ![p] = s]
           u == Longer(t, s)
<1>1. /\ u \in Seq(Bit) /\ n + 1 <= Len(u) /\ Recent(u, 1) = s
      /\ \A k \in 1 .. SampleDepth - 1 : k <= Len(t) => Recent(u, k + 1) = Recent(t, k)
  BY LongerIs DEF Holds
<1>2. n <= Len(t) /\ Len(t) \in Nat /\ SampleDepth \in Nat
  BY LaAssumption DEF Holds
<1> HIDE DEF u
<1>3. ASSUME NEW j \in 1 .. n + 1 PROVE c[calc_start_ptr(inc_ptr(p), j)] = Recent(u, j)
  <2>1. CASE j = 1
    <3>1. calc_start_ptr(inc_ptr(p), j) = p
      BY <2>1, PtrsMove
    <3> QED BY <1>1, <2>1, <3>1
  <2>2. CASE j # 1
    <3> DEFINE k == j - 1
    <3>1. k \in 1 .. n /\ k \in 1 .. SampleDepth - 1 /\ k <= Len(t) /\ j = k + 1
          /\ k \in 0 .. SampleDepth
      BY <1>2, <2>2
    <3> HIDE DEF k
    <3>2. /\ calc_start_ptr(inc_ptr(p), j) = calc_start_ptr(p, k)
          /\ calc_start_ptr(p, k) # p /\ calc_start_ptr(p, k) \in Ptr
      BY <3>1, PtrsMove
    <3>3. b[calc_start_ptr(p, k)] = Recent(t, k)
      BY <3>1 DEF Holds
    <3>4. Recent(u, j) = Recent(t, k)
      BY <1>1, <3>1
    <3> QED BY <3>2, <3>3, <3>4
  <2> QED BY <2>1, <2>2
<1> QED BY <1>1, <1>3 DEF Holds, u

LEMMA HoldsFewer ==
  ASSUME NEW b, NEW t \in Seq(Bit), NEW p, NEW n \in Nat, NEW m \in 0 .. n, Holds(b, t, p, n)
  PROVE  Holds(b, t, p, m)
<1>1. Len(t) \in Nat
  OBVIOUS
<1> QED BY <1>1 DEF Holds

(* What the read port shows of them, oldest first.                         *)
Shown(b, p, n) == [i \in 1 .. n |-> b[add_ptr(p, i - 1)]]

LEMMA WindowIs ==
  ASSUME NEW t \in Seq(Bit), NEW n \in Nat, n <= Len(t)
  PROVE  /\ Window(t, n) \in Seq(Bit) /\ Len(Window(t, n)) = n
         /\ \A i \in 1 .. n : Window(t, n)[i] = Recent(t, (n - i) + 1)
<1>1. Len(t) \in Nat
  OBVIOUS
<1> DEFINE l == Len(t)
           m == (l - n) + 1
<1>2. m \in Int /\ l \in Int /\ \A i \in m .. l : t[i] \in Bit
  BY <1>1
<1>3. Window(t, n) = SubSeq(t, m, l)
  BY DEF Window
<1>4. (l - m) + 1 = n /\ (m <= l => (l - m) + 1 = n) /\ (~(m <= l) => n = 0)
  BY <1>1
<1>5. /\ SubSeq(t, m, l) \in Seq(Bit)
      /\ Len(SubSeq(t, m, l)) = IF m <= l THEN (l - m) + 1 ELSE 0
      /\ \A i \in 1 .. (l - m) + 1 : SubSeq(t, m, l)[i] = t[(m + i) - 1]
  BY <1>2, SubSeqProperties
<1>6. ASSUME NEW i \in 1 .. n PROVE (m + i) - 1 = (l - ((n - i) + 1)) + 1
  BY <1>1
<1> QED BY <1>3, <1>4, <1>5, <1>6 DEF Recent

LEMMA WindowShown ==
  ASSUME NEW b \in [Ptr -> Bit], NEW t \in Seq(Bit), NEW p \in Ptr,
         NEW n \in 0 .. SampleDepth, Holds(b, t, p, n)
  PROVE  Shown(b, calc_start_ptr(p, n), n) = Window(t, n)
<1>1. /\ Window(t, n) \in Seq(Bit) /\ Len(Window(t, n)) = n
      /\ \A i \in 1 .. n : Window(t, n)[i] = Recent(t, (n - i) + 1)
  BY WindowIs DEF Holds
<1>2. Window(t, n) = [i \in 1 .. n |-> Window(t, n)[i]]
  <2>1. Window(t, n) \in [1 .. n -> Bit]
    BY <1>1, LenProperties
  <2> QED BY <2>1
<1>3. ASSUME NEW i \in 1 .. n
      PROVE  b[add_ptr(calc_start_ptr(p, n), i - 1)] = Window(t, n)[i]
  <2>1. add_ptr(calc_start_ptr(p, n), i - 1) = calc_start_ptr(p, (n - i) + 1)
    BY PtrsRead
  <2>2. (n - i) + 1 \in 1 .. n
    BY LaAssumption
  <2> QED BY <1>1, <2>1, <2>2 DEF Holds
<1>4. Shown(b, calc_start_ptr(p, n), n) = [i \in 1 .. n |-> Window(t, n)[i]]
  BY <1>3 DEF Shown
<1> QED BY <1>2, <1>4

-----------------------------------------------------------------------------
(* The capture core, action by action.                                     *)
Moved ==
  /\ core' \in Cores /\ buffer' \in [Ptr -> Bit]
  /\ taken' \in Seq(Bit) /\ Len(taken') <= SampleDepth

(* The capture ends with n samples before pointer p.                       *)
DoneAt(p, n) ==
  /\ core'.state = "DONE" /\ core'.samples_written = n /\ core'.write_ptr = p
  /\ core'.read_start_ptr = calc_start_ptr(p, n)

(* It goes on after n samples.                                             *)
GoesOn(p, n) ==
  /\ core'.state = "CAPTURING" /\ core'.samples_written = n /\ core'.write_ptr = p
  /\ core'.post_remaining >= 1 /\ n + core'.post_remaining <= SampleDepth

SameTrigger ==
  /\ core'.trigger_index = core.trigger_index
  /\ core'.trigger_sample_value = core.trigger_sample_value

LEMMA FieldTypes ==
  ASSUME CoreTypes
  PROVE  /\ core \in Cores /\ config \in Config /\ buffer \in [Ptr -> Bit]
         /\ taken \in Seq(Bit) /\ Len(taken) <= SampleDepth
         /\ core.samples_written \in 0 .. SampleDepth /\ core.post_remaining \in 0 .. SampleDepth
         /\ core.write_ptr \in Ptr /\ core.trigger_index \in Ptr /\ core.capture_id \in Nat
         /\ core.trigger_sample_value \in Bit /\ core.last_sample_value \in Bit
         /\ core.prev_sample \in Bit /\ core.flags \in SUBSET FlagNames
         /\ config.capture_depth \in 1 .. SampleDepth
         /\ config.pretrigger_depth \in 0 .. SampleDepth - 1
         /\ config.sample_divisor \in Nat \ {0} /\ SampleDepth \in Nat \ {0}
BY LaAssumption DEF CoreTypes, Cores, Config

LEMMA FlagsTyped == \A f, g \in BOOLEAN : Flags(f, g) \in SUBSET FlagNames
BY DEF Flags, FlagNames

LEMMA ClearIs ==
  ASSUME CoreTypes, NEW sample \in Bit, Clear(sample)
  PROVE  /\ Moved /\ core'.state = "IDLE" /\ core'.samples_written = 0
         /\ core'.capture_id = core.capture_id /\ ~core'.read_valid /\ core'.div_count = 0
         /\ UNCHANGED <<buffer, taken, truth, cause, before>>
<1>1. Running(sample) \in Cores /\ core \in Cores
  BY RunningIs, FieldTypes
<1>2. Running(sample).prev_sample \in Bit /\ core.read_sample \in Bit /\ core.capture_id \in Nat
  BY <1>1 DEF Cores
<1>3. CoreReset \in Cores /\ CoreReset.state = "IDLE" /\ CoreReset.samples_written = 0
      /\ ~CoreReset.read_valid /\ CoreReset.div_count = 0
  BY LaAssumption DEF CoreReset, Cores, CoreStates, Ptr, Bit
<1>4. core' = [CoreReset EXCEPT !.capture_id = core.capture_id, !.read_sample = core.read_sample,
                                !.prev_sample = Running(sample).prev_sample]
      /\ UNCHANGED <<buffer, taken, truth, cause, before>>
  BY DEF Clear, CoreCleared
<1>5. /\ core' \in Cores /\ core'.state = "IDLE" /\ core'.samples_written = 0
      /\ core'.capture_id = core.capture_id /\ ~core'.read_valid /\ core'.div_count = 0
  BY <1>2, <1>3, <1>4 DEF Cores
<1> QED BY <1>4, <1>5, FieldTypes DEF Moved

LEMMA ArmIs ==
  ASSUME CoreTypes, NEW sample \in Bit, Arm(sample)
  PROVE  /\ Moved /\ Ports(core', sample) /\ live
         /\ core.state \in {"IDLE", "DONE", "ERROR"}
         /\ \/ core'.state = "ERROR" /\ core'.capture_id = core.capture_id
            \/ /\ core'.state = "ARMED" /\ core'.samples_written = 0
               /\ core'.capture_id = core.capture_id + 1
         /\ taken' = <<sample>> /\ cause' = "none" /\ UNCHANGED <<buffer, truth, before>>
<1> DEFINE r == Running(sample)
<1>1. r \in Cores /\ SameCapture(r) /\ Ports(r, sample)
  BY RunningIs
<1>2. /\ live /\ core.state \in {"IDLE", "DONE", "ERROR"}
      /\ core' = IF config_bad THEN [r EXCEPT !.state = "ERROR"]
                 ELSE [r EXCEPT !.state = "ARMED", !.capture_id = r.capture_id + 1,
                                !.samples_written = 0, !.trigger_index = 0, !.overflow = FALSE,
                                !.flags = {}, !.write_ptr = 0, !.post_remaining = 0]
      /\ taken' = <<sample>> /\ cause' = "none" /\ UNCHANGED <<buffer, truth, before>>
  BY DEF Arm
<1> HIDE DEF r
<1>3. taken' \in Seq(Bit) /\ Len(taken') = 1
  BY <1>2
<1>4. CASE config_bad
  <2>1. core' \in Cores /\ core'.state = "ERROR" /\ core'.capture_id = core.capture_id
        /\ Ports(core', sample)
    BY <1>1, <1>2, <1>4 DEF Cores, CoreStates, SameCapture, Ports
  <2> QED BY <1>2, <1>3, <2>1, FieldTypes DEF Moved
<1>5. CASE ~config_bad
  <2>1. r.capture_id = core.capture_id /\ core.capture_id + 1 \in Nat /\ 0 \in Ptr
        /\ 0 \in 0 .. SampleDepth
    BY SMTT(20), <1>1, FieldTypes DEF SameCapture, Ptr
  <2>2. core' \in Cores /\ core'.state = "ARMED" /\ core'.samples_written = 0
        /\ core'.capture_id = core.capture_id + 1 /\ Ports(core', sample)
    BY <1>1, <1>2, <1>5, <2>1 DEF Cores, CoreStates, Ports
  <2> QED BY <1>2, <1>3, <2>2, FieldTypes DEF Moved
<1> QED BY <1>4, <1>5

LEMMA FinishIs ==
  ASSUME CoreTypes, NEW sample \in Bit, NEW forced \in BOOLEAN
  PROVE  LET f == finish_capture(sample, forced)
         IN  /\ f \in Cores /\ f.state = "DONE" /\ Ports(f, sample)
             /\ f.samples_written = core.samples_written /\ f.write_ptr = core.write_ptr
             /\ f.read_start_ptr = calc_start_ptr(core.write_ptr, core.samples_written)
             /\ f.capture_id = core.capture_id /\ f.trigger_index = core.trigger_index
             /\ f.trigger_sample_value = core.trigger_sample_value
<1> DEFINE r == Running(sample)
           q == calc_start_ptr(core.write_ptr, core.samples_written)
           g == Flags(forced, core.samples_written < config.capture_depth)
<1>1. r \in Cores /\ SameCapture(r) /\ Ports(r, sample)
  BY RunningIs
<1>2. q \in Ptr
  BY FieldTypes, PtrsMove
<1>3. g \in SUBSET FlagNames
  <2>1. (core.samples_written < config.capture_depth) \in BOOLEAN
    OBVIOUS
  <2> QED BY <2>1, FlagsTyped
<1>4. finish_capture(sample, forced) = [r EXCEPT !.state = "DONE", !.read_start_ptr = q, !.flags = g]
  BY DEF finish_capture
<1> HIDE DEF r, q, g
<1> DEFINE f == finish_capture(sample, forced)
<1>5. /\ f \in Cores /\ f.state = "DONE" /\ f.read_start_ptr = q
      /\ f.samples_written = r.samples_written /\ f.write_ptr = r.write_ptr
      /\ f.capture_id = r.capture_id /\ f.trigger_index = r.trigger_index
      /\ f.trigger_sample_value = r.trigger_sample_value
      /\ f.div_count = r.div_count /\ f.prev_sample = r.prev_sample
      /\ f.read_valid = r.read_valid /\ f.read_sample = r.read_sample
  <2>1. f \in Cores
    BY <1>1, <1>2, <1>3, <1>4 DEF Cores, CoreStates
  <2>2. /\ f.state = "DONE" /\ f.read_start_ptr = q
        /\ f.samples_written = r.samples_written /\ f.write_ptr = r.write_ptr
        /\ f.capture_id = r.capture_id /\ f.trigger_index = r.trigger_index
    BY <1>1, <1>4 DEF Cores
  <2>3. /\ f.trigger_sample_value = r.trigger_sample_value
        /\ f.div_count = r.div_count /\ f.prev_sample = r.prev_sample
        /\ f.read_valid = r.read_valid /\ f.read_sample = r.read_sample
    BY <1>1, <1>4 DEF Cores
  <2> QED BY <2>1, <2>2, <2>3
<1> QED BY <1>1, <1>5 DEF SameCapture, Ports, q

LEMMA StopIs ==
  ASSUME CoreTypes, NEW sample \in Bit, Stop(sample)
  PROVE  /\ Moved /\ Ports(core', sample) /\ active_capture
         /\ core'.capture_id = core.capture_id
         /\ DoneAt(core.write_ptr, core.samples_written) /\ SameTrigger
         /\ cause' = (IF core.state = "ARMED" THEN "stop" ELSE cause)
         /\ UNCHANGED <<buffer, taken, before>> /\ Finished
<1>1. (core.state = "CAPTURING" /\ "FORCED" \in core.flags) \in BOOLEAN
  OBVIOUS
<1> QED BY <1>1, FinishIs, FieldTypes DEF Stop, Moved, DoneAt, SameTrigger

LEMMA ForceIs ==
  ASSUME CoreTypes, NEW sample \in Bit, ForceTrigger(sample)
  PROVE  /\ Moved /\ Ports(core', sample) /\ core.state = "ARMED"
         /\ core'.capture_id = core.capture_id
         /\ \/ DoneAt(core.write_ptr, core.samples_written)
            \/ GoesOn(core.write_ptr, core.samples_written)
         /\ cause' = "force" /\ UNCHANGED <<buffer, taken, before>> /\ Finished
<1> DEFINE n == core.samples_written
           r == Running(sample)
           f == finish_capture(sample, TRUE)
           g == [r EXCEPT !.state = "CAPTURING", !.post_remaining = config.capture_depth - n,
                          !.flags = {"FORCED"}]
           next == IF n >= config.capture_depth THEN f ELSE g
           x == IF n = 0 THEN 0 ELSE n - 1
           v == IF n = 0 THEN sample ELSE core.last_sample_value
<1>1. /\ core.state = "ARMED" /\ cause' = "force" /\ UNCHANGED <<buffer, taken, before>>
      /\ Finished /\ core' = [next EXCEPT !.trigger_index = x, !.trigger_sample_value = v]
  BY DEF ForceTrigger
<1>2. /\ r \in Cores /\ SameCapture(r) /\ Ports(r, sample)
      /\ f \in Cores /\ f.state = "DONE" /\ f.samples_written = n
      /\ f.write_ptr = core.write_ptr /\ f.read_start_ptr = calc_start_ptr(core.write_ptr, n)
      /\ f.capture_id = core.capture_id /\ Ports(f, sample)
  <2>1. TRUE \in BOOLEAN
    OBVIOUS
  <2> QED BY <2>1, FinishIs, RunningIs
<1>3. x \in Ptr /\ v \in Bit /\ n \in 0 .. SampleDepth
  BY FieldTypes DEF Ptr
<1> HIDE DEF r, f, x, v
<1>4. CASE n >= config.capture_depth
  <2>1. core' = [f EXCEPT !.trigger_index = x, !.trigger_sample_value = v]
    BY <1>1, <1>4
  <2>2. /\ core' \in Cores /\ core'.state = "DONE" /\ core'.samples_written = n
        /\ core'.write_ptr = core.write_ptr
        /\ core'.read_start_ptr = calc_start_ptr(core.write_ptr, n)
        /\ core'.capture_id = core.capture_id /\ Ports(core', sample)
    BY <1>2, <1>3, <2>1 DEF Cores, Ports
  <2> QED BY <1>1, <2>2, FieldTypes DEF Moved, DoneAt
<1>5. CASE ~(n >= config.capture_depth)
  <2> DEFINE m == config.capture_depth - n
  <2>1. m \in 0 .. SampleDepth /\ m >= 1 /\ n + m <= SampleDepth
    BY <1>3, <1>5, FieldTypes
  <2>2. core' = [[r EXCEPT !.state = "CAPTURING", !.post_remaining = m, !.flags = {"FORCED"}]
                   EXCEPT !.trigger_index = x, !.trigger_sample_value = v]
    BY <1>1, <1>5
  <2> HIDE DEF m
  <2>3. /\ core' \in Cores /\ core'.state = "CAPTURING" /\ core'.post_remaining = m
        /\ core'.samples_written = r.samples_written /\ core'.write_ptr = r.write_ptr
        /\ core'.capture_id = r.capture_id /\ Ports(core', sample)
    BY <1>2, <1>3, <2>1, <2>2 DEF Cores, CoreStates, FlagNames, Ports
  <2>4. GoesOn(core.write_ptr, core.samples_written) /\ core'.capture_id = core.capture_id
    BY <1>2, <2>1, <2>3 DEF SameCapture, GoesOn
  <2> QED BY <1>1, <2>3, <2>4, FieldTypes DEF Moved
<1> QED BY <1>4, <1>5

(* A sample is written and the pointer moves on.                           *)
Written(sample) ==
  /\ buffer' = [buffer EXCEPT ![core.write_ptr] = sample]
  /\ taken' = Longer(taken, sample) /\ core'.capture_id = core.capture_id

LEMMA WrittenIs ==
  ASSUME CoreTypes, NEW sample \in Bit, Write(sample)
  PROVE  /\ buffer' = [buffer EXCEPT ![core.write_ptr] = sample]
         /\ taken' = Longer(taken, sample)
         /\ buffer' \in [Ptr -> Bit] /\ taken' \in Seq(Bit) /\ Len(taken') <= SampleDepth
<1>1. /\ buffer' = [buffer EXCEPT ![core.write_ptr] = sample] /\ taken' = Longer(taken, sample)
  BY DEF Write, Longer
<1> QED BY <1>1, FieldTypes, LongerIs

(* The sample that meets the trigger's condition.                          *)
Hits(sample) ==
  /\ trigger_hit(sample) /\ cause' = "hit" /\ before' = taken[Len(taken)]
  /\ core'.trigger_index = core.samples_written /\ core'.trigger_sample_value = sample
  /\ \/ DoneAt(inc_ptr(core.write_ptr), core.samples_written + 1)
     \/ GoesOn(inc_ptr(core.write_ptr), core.samples_written + 1)

(* And one that does not.                                                  *)
Waits(sample) ==
  /\ UNCHANGED <<cause, before>> /\ core'.state = "ARMED"
  /\ core'.write_ptr = inc_ptr(core.write_ptr)
  /\ \/ core'.samples_written = core.samples_written
     \/ /\ core'.samples_written = core.samples_written + 1
        /\ core.samples_written + 1 < SampleDepth

LEMMA ArmedSampleIs ==
  ASSUME CoreTypes, NEW sample \in Bit, ArmedSample(sample),
         core.state = "ARMED" => core.samples_written < SampleDepth
  PROVE  /\ Moved /\ Ports(core', sample) /\ core.state = "ARMED" /\ live /\ sample_due
         /\ Written(sample) /\ Finished /\ (Hits(sample) \/ Waits(sample))
<1> DEFINE n == core.samples_written
           p == inc_ptr(core.write_ptr)
           q == calc_start_ptr(p, n + 1)
           r == Running(sample)
           run == [r EXCEPT !.last_sample_value = sample, !.write_ptr = inc_ptr(r.write_ptr)]
           hit == [run EXCEPT !.trigger_index = n, !.trigger_sample_value = sample,
                              !.samples_written = n + 1]
           flags == Flags(FALSE, FALSE)
<1>1. /\ core.state = "ARMED" /\ live /\ sample_due /\ Write(sample) /\ Finished
      /\ \/ /\ trigger_hit(sample) /\ cause' = "hit" /\ before' = taken[Len(taken)]
            /\ core' = IF n + 1 >= config.capture_depth
                       THEN [hit EXCEPT !.state = "DONE", !.read_start_ptr = q, !.flags = flags]
                       ELSE [hit EXCEPT !.state = "CAPTURING",
                                        !.post_remaining = config.capture_depth - (n + 1)]
         \/ /\ UNCHANGED <<cause, before>>
            /\ core' = IF n < config.pretrigger_depth
                       THEN [run EXCEPT !.samples_written = n + 1]
                       ELSE [run EXCEPT !.overflow = (run.overflow \/ config.pretrigger_depth # 0)]
  BY DEF ArmedSample
<1>2. r \in Cores /\ SameCapture(r) /\ Ports(r, sample) /\ r.state = "ARMED"
  BY <1>1, RunningIs
<1>3. /\ p \in Ptr /\ n \in 0 .. SampleDepth - 1 /\ n \in Ptr /\ n + 1 \in 0 .. SampleDepth
      /\ r.write_ptr = core.write_ptr /\ SampleDepth \in Nat
      /\ config.capture_depth \in 1 .. SampleDepth
      /\ config.pretrigger_depth \in 0 .. SampleDepth - 1
  BY SMTT(20), <1>1, <1>2, FieldTypes, PtrsMove DEF SameCapture, Ptr
<1>4. q \in Ptr
  BY <1>3, PtrsMove
<1>5. flags \in SUBSET FlagNames
  <2>1. FALSE \in BOOLEAN
    OBVIOUS
  <2> QED BY <2>1, FlagsTyped
<1> HIDE DEF r
<1>6. /\ run \in Cores /\ run.write_ptr = p /\ Ports(run, sample) /\ run.state = "ARMED"
      /\ run.capture_id = core.capture_id /\ run.samples_written = n
  BY <1>2, <1>3 DEF Cores, SameCapture, Ports
<1> HIDE DEF run, p, q, flags
<1>7. /\ hit \in Cores /\ hit.write_ptr = p /\ Ports(hit, sample)
      /\ hit.capture_id = core.capture_id /\ hit.samples_written = n + 1
      /\ hit.trigger_index = n /\ hit.trigger_sample_value = sample
  BY <1>3, <1>6 DEF Cores, Ports
<1> HIDE DEF hit
<1>8. CASE /\ trigger_hit(sample) /\ cause' = "hit" /\ before' = taken[Len(taken)]
           /\ core' = IF n + 1 >= config.capture_depth
                      THEN [hit EXCEPT !.state = "DONE", !.read_start_ptr = q, !.flags = flags]
                      ELSE [hit EXCEPT !.state = "CAPTURING",
                                       !.post_remaining = config.capture_depth - (n + 1)]
  <2>1. CASE n + 1 >= config.capture_depth
    <3>1. core' = [hit EXCEPT !.state = "DONE", !.read_start_ptr = q, !.flags = flags]
      BY <1>8, <2>1
    <3>2. /\ core' \in Cores /\ Ports(core', sample) /\ core'.capture_id = core.capture_id
          /\ core'.trigger_index = n /\ core'.trigger_sample_value = sample
          /\ core'.state = "DONE" /\ core'.samples_written = n + 1 /\ core'.write_ptr = p
          /\ core'.read_start_ptr = q
      BY <1>4, <1>5, <1>7, <3>1 DEF Cores, CoreStates, Ports
    <3>3. DoneAt(p, n + 1)
      BY <3>2 DEF DoneAt, q
    <3> QED BY <1>1, <1>8, <3>2, <3>3, WrittenIs DEF Moved, Written, Hits, p
  <2>2. CASE ~(n + 1 >= config.capture_depth)
    <3> DEFINE m == config.capture_depth - (n + 1)
    <3>1. m \in 0 .. SampleDepth /\ m >= 1 /\ (n + 1) + m <= SampleDepth
      BY <1>3, <2>2
    <3>2. core' = [hit EXCEPT !.state = "CAPTURING", !.post_remaining = m]
      BY <1>8, <2>2
    <3> HIDE DEF m
    <3>3. /\ core' \in Cores /\ Ports(core', sample) /\ core'.capture_id = core.capture_id
          /\ core'.trigger_index = n /\ core'.trigger_sample_value = sample
          /\ core'.state = "CAPTURING" /\ core'.samples_written = n + 1 /\ core'.write_ptr = p
          /\ core'.post_remaining = m
      BY <1>7, <3>1, <3>2 DEF Cores, CoreStates, Ports
    <3>4. GoesOn(p, n + 1)
      BY <3>1, <3>3 DEF GoesOn
    <3> QED BY <1>1, <1>8, <3>3, <3>4, WrittenIs DEF Moved, Written, Hits, p
  <2> QED BY <2>1, <2>2
<1>9. CASE /\ UNCHANGED <<cause, before>>
           /\ core' = IF n < config.pretrigger_depth
                      THEN [run EXCEPT !.samples_written = n + 1]
                      ELSE [run EXCEPT !.overflow = (run.overflow \/ config.pretrigger_depth # 0)]
  <2>1. CASE n < config.pretrigger_depth
    <3>1. core' = [run EXCEPT !.samples_written = n + 1] /\ n + 1 < SampleDepth
      BY <1>3, <1>9, <2>1
    <3>2. /\ core' \in Cores /\ Ports(core', sample) /\ core'.capture_id = core.capture_id
          /\ core'.state = "ARMED" /\ core'.samples_written = n + 1 /\ core'.write_ptr = p
      BY <1>3, <1>6, <3>1 DEF Cores, Ports
    <3> QED BY <1>1, <1>9, <3>1, <3>2, WrittenIs DEF Moved, Written, Waits, p
  <2>2. CASE ~(n < config.pretrigger_depth)
    <3> DEFINE o == run.overflow \/ config.pretrigger_depth # 0
    <3>1. core' = [run EXCEPT !.overflow = o] /\ o \in BOOLEAN
      BY <1>6, <1>9, <2>2 DEF Cores
    <3> HIDE DEF o
    <3>2. /\ core' \in Cores /\ Ports(core', sample) /\ core'.capture_id = core.capture_id
          /\ core'.state = "ARMED" /\ core'.samples_written = n /\ core'.write_ptr = p
      BY <1>6, <3>1 DEF Cores, Ports
    <3> QED BY <1>1, <1>9, <3>2, WrittenIs DEF Moved, Written, Waits, p
  <2> QED BY <2>1, <2>2
<1> QED BY <1>1, <1>8, <1>9

LEMMA CapturingSampleIs ==
  ASSUME CoreTypes, NEW sample \in Bit, CapturingSample(sample),
         core.state = "CAPTURING" => /\ core.post_remaining >= 1
                                     /\ core.samples_written + core.post_remaining <= SampleDepth
  PROVE  /\ Moved /\ Ports(core', sample) /\ core.state = "CAPTURING" /\ live
         /\ core.samples_written < SampleDepth
         /\ Written(sample) /\ Finished /\ SameTrigger /\ UNCHANGED <<cause, before>>
         /\ \/ DoneAt(inc_ptr(core.write_ptr), core.samples_written + 1)
            \/ GoesOn(inc_ptr(core.write_ptr), core.samples_written + 1)
<1> DEFINE n == core.samples_written
           m == core.post_remaining
           p == inc_ptr(core.write_ptr)
           q == calc_start_ptr(p, n + 1)
           r == Running(sample)
           next == [r EXCEPT !.last_sample_value = sample, !.write_ptr = inc_ptr(r.write_ptr),
                             !.samples_written = r.samples_written + 1,
                             !.post_remaining = r.post_remaining - 1]
           flags == Flags("FORCED" \in core.flags, FALSE)
<1>1. /\ core.state = "CAPTURING" /\ live /\ Write(sample) /\ Finished /\ UNCHANGED <<cause, before>>
      /\ core' = IF m # 1 THEN next
                 ELSE [next EXCEPT !.state = "DONE", !.read_start_ptr = q, !.flags = flags]
  BY DEF CapturingSample
<1>2. r \in Cores /\ SameCapture(r) /\ Ports(r, sample) /\ r.state = "CAPTURING"
  BY <1>1, RunningIs
<1>3. /\ p \in Ptr /\ n \in Nat /\ m \in Nat /\ SampleDepth \in Nat /\ m >= 1
      /\ n + m <= SampleDepth
      /\ r.write_ptr = core.write_ptr /\ r.samples_written = n /\ r.post_remaining = m
      /\ r.trigger_index = core.trigger_index /\ r.capture_id = core.capture_id
      /\ r.trigger_sample_value = core.trigger_sample_value
  BY <1>1, <1>2, FieldTypes, PtrsMove DEF SameCapture
<1>4. n < SampleDepth /\ n + 1 \in 0 .. SampleDepth /\ m - 1 \in 0 .. SampleDepth
  BY <1>3
<1>5. q \in Ptr
  BY <1>3, <1>4, PtrsMove
<1>6. flags \in SUBSET FlagNames
  <2>1. FALSE \in BOOLEAN /\ ("FORCED" \in core.flags) \in BOOLEAN
    OBVIOUS
  <2> QED BY <2>1, FlagsTyped
<1> HIDE DEF r, p, q, flags
<1>7. inc_ptr(r.write_ptr) = p
  BY <1>3 DEF p
<1>8. /\ next \in Cores /\ next.write_ptr = p /\ Ports(next, sample) /\ next.state = "CAPTURING"
      /\ next.capture_id = core.capture_id /\ next.samples_written = n + 1
      /\ next.post_remaining = m - 1 /\ next.trigger_index = core.trigger_index
      /\ next.trigger_sample_value = core.trigger_sample_value
  BY <1>2, <1>3, <1>4, <1>7 DEF Cores, Ports
<1> HIDE DEF next
<1>9. CASE m # 1
  <2>1. core' = next /\ m - 1 >= 1 /\ (n + 1) + (m - 1) <= SampleDepth
    BY <1>1, <1>3, <1>9
  <2> QED BY <1>1, <1>4, <1>8, <2>1, WrittenIs DEF Moved, Written, GoesOn, SameTrigger, p
<1>10. CASE m = 1
  <2>1. core' = [next EXCEPT !.state = "DONE", !.read_start_ptr = q, !.flags = flags]
    BY <1>1, <1>10
  <2>2. /\ core' \in Cores /\ core'.write_ptr = p /\ Ports(core', sample) /\ core'.state = "DONE"
        /\ core'.capture_id = core.capture_id /\ core'.samples_written = n + 1
        /\ core'.read_start_ptr = q /\ core'.trigger_index = core.trigger_index
        /\ core'.trigger_sample_value = core.trigger_sample_value
    BY <1>5, <1>6, <1>8, <2>1 DEF Cores, CoreStates, Ports
  <2> QED BY <1>1, <1>4, <2>2, WrittenIs DEF Moved, Written, DoneAt, SameTrigger, p, q
<1> QED BY <1>9, <1>10

(* A readout begins or ends, or nothing happens.                           *)
LEMMA RestIs ==
  ASSUME CoreTypes, NEW sample \in Bit, Readout(sample) \/ CoreRests(sample)
  PROVE  /\ Moved /\ Ports(core', sample) /\ live /\ SameCapture(core')
         /\ UNCHANGED <<buffer, taken, truth, cause, before>>
         /\ \/ core'.state = core.state
               /\ (core.state = "READOUT" => ~adapter.core_readout_done_pulse)
               /\ (core.state = "ARMED" => ~sample_due)
            \/ core.state = "DONE" /\ core'.state = "READOUT" /\ adapter.core_start_readout_pulse
            \/ core.state = "READOUT" /\ core'.state = "DONE"
<1> DEFINE r == Running(sample)
<1>1. r \in Cores /\ SameCapture(r) /\ Ports(r, sample) /\ r.state = core.state
  BY RunningIs
<1>2. CASE Readout(sample)
  <2>1. /\ live /\ UNCHANGED <<buffer, taken, truth, cause, before>>
        /\ \/ /\ core.state = "DONE" /\ adapter.core_start_readout_pulse
              /\ core' = [r EXCEPT !.state = "READOUT"]
           \/ /\ core.state = "READOUT" /\ adapter.core_readout_done_pulse
              /\ core' = [r EXCEPT !.state = "DONE"]
    BY <1>2 DEF Readout
  <2> HIDE DEF r
  <2>2. core' \in Cores /\ SameCapture(core') /\ Ports(core', sample)
        /\ \/ core.state = "DONE" /\ core'.state = "READOUT" /\ adapter.core_start_readout_pulse
           \/ core.state = "READOUT" /\ core'.state = "DONE"
    BY <1>1, <2>1 DEF Cores, CoreStates, SameCapture, Ports
  <2> QED BY <2>1, <2>2, FieldTypes DEF Moved
<1>3. CASE CoreRests(sample)
  <2>1. /\ live /\ UNCHANGED <<buffer, taken, truth, cause, before>> /\ core' = r
        /\ (core.state = "READOUT" => ~adapter.core_readout_done_pulse)
        /\ (core.state = "ARMED" => ~sample_due)
    BY <1>3 DEF CoreRests
  <2> QED BY <1>1, <2>1, FieldTypes DEF Moved
<1> QED BY <1>2, <1>3

-----------------------------------------------------------------------------
(* The capture: what the memory holds while it runs, what of the trigger   *)
(* is known, and what stays when it is finished.                           *)
Kept == core.state \in {"DONE", "READOUT"}

CoreInv ==
  /\ core.div_count < config.sample_divisor
  /\ core.state = "ARMED" =>
       /\ core.samples_written < SampleDepth /\ cause = "none"
       /\ core.prev_sample = Recent(taken, 1)
  /\ core.state = "CAPTURING" =>
       /\ core.post_remaining >= 1
       /\ core.samples_written + core.post_remaining <= SampleDepth
  /\ active_capture => /\ taken # <<>>
                       /\ Holds(buffer, taken, core.write_ptr, core.samples_written)

Sought(found) ==
  /\ found = IF config.trigger_mode = "falling" THEN 0 ELSE 1
  /\ config.trigger_mode \in {"rising", "falling"} => before # found

TriggerInv ==
  core.state = "CAPTURING" /\ cause = "hit" =>
    /\ core.trigger_index < core.samples_written
    /\ Recent(taken, core.samples_written - core.trigger_index) = core.trigger_sample_value
    /\ Sought(core.trigger_sample_value)

KeptInv ==
  /\ DOMAIN truth \subseteq 0 .. core.capture_id
  /\ active_capture => core.capture_id \notin DOMAIN truth
  /\ Kept => core.capture_id \in DOMAIN truth
  /\ CaptureIsWindow

(* What the other parts see of a step of the core.                         *)
CoreGoes ==
  /\ \A id \in DOMAIN truth : id \in DOMAIN truth' /\ truth'[id] = truth[id]
  /\ \A id \in DOMAIN truth' : truth'[id] \in Seq(Bit)
  /\ Kept' => /\ core'.capture_id = core.capture_id
              /\ \/ Kept /\ core'.samples_written = core.samples_written
                 \/ /\ active_capture /\ core.samples_written <= core'.samples_written
                    /\ core'.samples_written <= core.samples_written + 1
  /\ core'.read_valid =>
       /\ reading /\ core'.read_sample = Captured[adapter.core_read_index + 1]
       /\ \/ Kept' /\ core'.capture_id = core.capture_id
          \/ core'.state = "ARMED" /\ core'.samples_written = 0
          \/ core'.state = "ERROR"
  /\ core'.state = "READOUT" =>
       \/ core.state = "DONE" /\ adapter.core_start_readout_pulse
       \/ core.state = "READOUT" /\ ~adapter.core_readout_done_pulse

CoreStays == CoreInv /\ TriggerInv /\ KeptInv

ConfigSteady ==
  /\ config'.sample_divisor = config.sample_divisor
  /\ config'.trigger_mode = config.trigger_mode

LEMMA ActiveIs ==
  /\ active_capture <=> core.state \in {"ARMED", "CAPTURING"}
  /\ active_capture' <=> core'.state \in {"ARMED", "CAPTURING"}
BY DEF active_capture

LEMMA DividerKept ==
  ASSUME CoreTypes, CoreInv, NEW sample, Ports(core', sample), ConfigSteady
  PROVE  core'.div_count < config'.sample_divisor
<1>1. core.div_count \in Nat /\ config.sample_divisor \in Nat \ {0}
  BY DEF CoreTypes, Cores, Config
<1> QED BY <1>1 DEF Ports, CoreInv, ConfigSteady

(* The capture is finished: the read port shows what the bus had.          *)
LEMMA DoneShows ==
  ASSUME Moved, Finished, NEW p \in Ptr, NEW n \in 0 .. SampleDepth, DoneAt(p, n),
         Holds(buffer', taken', p, n), core'.capture_id = core.capture_id
  PROVE  /\ DOMAIN truth' = DOMAIN truth \union {core.capture_id}
         /\ \A id \in DOMAIN truth : id # core.capture_id => truth'[id] = truth[id]
         /\ truth'[core.capture_id] \in Seq(Bit)
         /\ Captured' = truth'[core'.capture_id]
         /\ \A i \in 1 .. n : Captured'[i] = Recent(taken', (n - i) + 1)
<1>1. /\ core'.state = "DONE" /\ core'.samples_written = n
      /\ core'.read_start_ptr = calc_start_ptr(p, n)
      /\ buffer' \in [Ptr -> Bit] /\ taken' \in Seq(Bit)
  BY DEF DoneAt, Moved
<1>2. truth' = [id \in DOMAIN truth \union {core.capture_id} |->
                  IF id = core.capture_id THEN Window(taken', n) ELSE truth[id]]
  BY <1>1 DEF Finished
<1>3. Shown(buffer', calc_start_ptr(p, n), n) = Window(taken', n)
  BY <1>1, WindowShown
<1>4. Captured' = Shown(buffer', calc_start_ptr(p, n), n)
  BY <1>1 DEF Captured, Shown
<1>5. /\ Window(taken', n) \in Seq(Bit)
      /\ \A i \in 1 .. n : Window(taken', n)[i] = Recent(taken', (n - i) + 1)
  <2>1. n \in Nat /\ n <= Len(taken')
    BY LaAssumption DEF Holds
  <2> QED BY <1>1, <2>1, WindowIs
<1>6. truth'[core.capture_id] = Window(taken', n)
  BY <1>2
<1> QED BY <1>2, <1>3, <1>4, <1>5, <1>6

TriggerShowing ==
  /\ core.trigger_index < core.samples_written
  /\ Captured[core.trigger_index + 1] = core.trigger_sample_value
  /\ Sought(core.trigger_sample_value)

LEMMA TriggerShows == TriggerShowing => TriggerInWindow
BY DEF TriggerShowing, Sought, TriggerInWindow

(* Then all that is said of a finished capture holds.                      *)
LEMMA DoneKeeps ==
  ASSUME CoreTypes, CoreStays, ConfigSteady, active_capture,
         Moved, Finished, NEW p \in Ptr, NEW n \in 0 .. SampleDepth, DoneAt(p, n),
         Holds(buffer', taken', p, n), core'.capture_id = core.capture_id,
         NEW sample, Ports(core', sample), core.samples_written <= n,
         n <= core.samples_written + 1,
         cause' = "hit" => /\ core'.trigger_index < n /\ core'.trigger_index \in Nat
                           /\ Recent(taken', n - core'.trigger_index) = core'.trigger_sample_value
                           /\ Sought(core.trigger_sample_value)'
  PROVE  CoreStays' /\ CoreGoes
<1>1. /\ DOMAIN truth' = DOMAIN truth \union {core.capture_id}
      /\ \A id \in DOMAIN truth : id # core.capture_id => truth'[id] = truth[id]
      /\ truth'[core.capture_id] \in Seq(Bit)
      /\ Captured' = truth'[core'.capture_id]
      /\ \A i \in 1 .. n : Captured'[i] = Recent(taken', (n - i) + 1)
  BY DoneShows
<1>2. core'.state = "DONE" /\ core'.samples_written = n
  BY DEF DoneAt
<1>3. ~active_capture' /\ Kept' /\ core.capture_id \notin DOMAIN truth /\ ~reading
  BY <1>2, ActiveIs DEF CoreStays, KeptInv, Kept, reading
<1>4. CoreInv' /\ TriggerInv'
  <2>1. core'.div_count < config'.sample_divisor
    BY DividerKept DEF CoreStays
  <2> QED BY <1>2, <1>3, <2>1 DEF CoreInv, TriggerInv
<1>5. ASSUME cause' = "hit" PROVE TriggerInWindow'
  <2> DEFINE x == core'.trigger_index
  <2>1. x \in Nat /\ x < n /\ Recent(taken', n - x) = core'.trigger_sample_value
        /\ Sought(core.trigger_sample_value)'
    BY <1>5
  <2> HIDE DEF x
  <2>2. x + 1 \in 1 .. n /\ (n - (x + 1)) + 1 = n - x
    BY <2>1, LaAssumption
  <2>3. Captured'[x + 1] = core'.trigger_sample_value
    BY <1>1, <2>1, <2>2
  <2>4. core'.trigger_index < core'.samples_written
        /\ Captured'[core'.trigger_index + 1] = core'.trigger_sample_value
    BY <1>2, <2>1, <2>3 DEF x
  <2>5. TriggerShowing'
    BY <2>1, <2>4 DEF TriggerShowing
  <2>6. TriggerShowing' => TriggerInWindow'
    BY TriggerShows, PTL
  <2> QED BY <2>5, <2>6
<1>6. KeptInv'
  <2>1. DOMAIN truth' \subseteq 0 .. core'.capture_id
    <3>1. core.capture_id \in Nat
      BY FieldTypes
    <3> QED BY <1>1, <3>1 DEF CoreStays, KeptInv
  <2> QED BY <1>1, <1>3, <1>5, <2>1 DEF KeptInv, CaptureIsWindow
<1>7. CoreGoes
  <2>1. ~core'.read_valid
    BY <1>3 DEF Ports
  <2>2. \A id \in DOMAIN truth' : truth'[id] \in Seq(Bit)
    BY <1>1 DEF CoreTypes
  <2> QED BY <1>1, <1>2, <1>3, <2>1, <2>2 DEF CoreGoes
<1> QED BY <1>4, <1>6, <1>7 DEF CoreStays

(* Or the capture goes on, or has begun.                                   *)
LEMMA GoesKeeps ==
  ASSUME CoreTypes, CoreStays, ConfigSteady, Moved, ~Kept', truth' = truth, ~core'.read_valid,
         core'.capture_id = core.capture_id, CoreInv', TriggerInv', active_capture' => active_capture
  PROVE  CoreStays' /\ CoreGoes
<1>1. core'.state # "READOUT"
  BY DEF Kept
<1>2. KeptInv'
  BY DEF CoreStays, KeptInv, CaptureIsWindow, Kept
<1>3. \A id \in DOMAIN truth' : truth'[id] \in Seq(Bit)
  BY DEF CoreTypes
<1> QED BY <1>1, <1>2, <1>3 DEF CoreStays, CoreGoes

LEMMA ClearKeeps ==
  ASSUME CoreTypes, CoreStays, ConfigSteady, NEW sample \in Bit, Clear(sample)
  PROVE  Moved /\ CoreStays' /\ CoreGoes
<1>1. /\ Moved /\ core'.state = "IDLE" /\ core'.capture_id = core.capture_id
      /\ ~core'.read_valid /\ core'.div_count = 0 /\ truth' = truth
  BY ClearIs
<1>2. ~Kept' /\ ~active_capture'
  BY <1>1, ActiveIs DEF Kept
<1>3. CoreInv' /\ TriggerInv'
  <2>1. core'.div_count < config'.sample_divisor
    BY <1>1, FieldTypes DEF ConfigSteady
  <2> QED BY <1>1, <1>2, <2>1 DEF CoreInv, TriggerInv
<1> QED BY <1>1, <1>2, <1>3, GoesKeeps

LEMMA ArmKeeps ==
  ASSUME CoreTypes, CoreStays, ConfigSteady, NEW sample \in Bit, Arm(sample)
  PROVE  Moved /\ CoreStays' /\ CoreGoes
<1>1. /\ Moved /\ Ports(core', sample)
      /\ core.state \in {"IDLE", "DONE", "ERROR"}
      /\ \/ core'.state = "ERROR" /\ core'.capture_id = core.capture_id
         \/ /\ core'.state = "ARMED" /\ core'.samples_written = 0
            /\ core'.capture_id = core.capture_id + 1
      /\ taken' = <<sample>> /\ cause' = "none" /\ truth' = truth
  BY ArmIs
<1>2. core'.div_count < config'.sample_divisor
  BY <1>1, DividerKept DEF CoreStays
<1>3. ~Kept' /\ (active_capture' => core'.state = "ARMED") /\ core'.state # "READOUT"
      /\ core'.state # "CAPTURING"
  BY <1>1, ActiveIs DEF Kept
<1>4. CoreInv'
  <2>1. core'.state = "ARMED" =>
          core'.samples_written < SampleDepth /\ core'.prev_sample = Recent(taken', 1)
    <3>1. Recent(taken', 1) = sample
      BY <1>1 DEF Recent
    <3>2. core'.prev_sample = sample /\ SampleDepth \in Nat \ {0}
      BY <1>1, LaAssumption DEF Ports
    <3> QED BY <1>1, <3>1, <3>2
  <2>2. core'.state = "ARMED" =>
          taken' # <<>> /\ Holds(buffer', taken', core'.write_ptr, core'.samples_written)
    <3>1. taken' # <<>> /\ Len(taken') = 1
      BY <1>1
    <3> QED BY <1>1, <3>1 DEF Holds
  <2> QED BY <1>1, <1>2, <1>3, <2>1, <2>2 DEF CoreInv
<1>5. KeptInv'
  <2>1. core.capture_id \in Nat /\ DOMAIN truth \subseteq 0 .. core.capture_id
    BY FieldTypes DEF CoreStays, KeptInv
  <2>2. DOMAIN truth' \subseteq 0 .. core'.capture_id
        /\ (core'.state = "ARMED" => core'.capture_id \notin DOMAIN truth')
    BY <1>1, <2>1
  <2> QED BY <1>3, <2>2 DEF KeptInv, CaptureIsWindow, Kept
<1>6. TriggerInv'
  BY <1>3 DEF TriggerInv
<1>7. CoreGoes
  <2>1. \A id \in DOMAIN truth' : truth'[id] \in Seq(Bit)
    BY <1>1 DEF CoreTypes
  <2> QED BY <1>1, <1>3, <2>1 DEF CoreGoes, Ports
<1> QED BY <1>1, <1>4, <1>5, <1>6, <1>7 DEF CoreStays

(* What is sought does not change when neither the mode nor the sample     *)
(* before the trigger does.                                                *)
LEMMA SoughtSteady ==
  ASSUME ConfigSteady, before' = before, SameTrigger, Sought(core.trigger_sample_value)
  PROVE  Sought(core.trigger_sample_value)'
BY DEF ConfigSteady, SameTrigger, Sought

LEMMA StopKeeps ==
  ASSUME CoreTypes, CoreStays, ConfigSteady, NEW sample \in Bit, Stop(sample)
  PROVE  Moved /\ CoreStays' /\ CoreGoes
<1> DEFINE n == core.samples_written
           p == core.write_ptr
<1>1. /\ Moved /\ Ports(core', sample) /\ active_capture /\ core'.capture_id = core.capture_id
      /\ DoneAt(p, n) /\ SameTrigger /\ cause' = (IF core.state = "ARMED" THEN "stop" ELSE cause)
      /\ buffer' = buffer /\ taken' = taken /\ before' = before /\ Finished
  BY StopIs
<1>2. p \in Ptr /\ n \in 0 .. SampleDepth /\ n <= n + 1 /\ n <= n
  BY FieldTypes
<1>3. Holds(buffer', taken', p, n)
  BY <1>1 DEF CoreStays, CoreInv
<1>4. ASSUME cause' = "hit"
      PROVE  /\ core'.trigger_index < n /\ core'.trigger_index \in Nat
             /\ Recent(taken', n - core'.trigger_index) = core'.trigger_sample_value
             /\ Sought(core.trigger_sample_value)'
  <2>1. core.state = "CAPTURING" /\ cause = "hit"
    BY <1>1, <1>4 DEF active_capture
  <2>2. /\ core.trigger_index < n /\ core.trigger_index \in Nat
        /\ Recent(taken, n - core.trigger_index) = core.trigger_sample_value
        /\ Sought(core.trigger_sample_value)
    BY <2>1, FieldTypes DEF CoreStays, TriggerInv, Ptr
  <2> QED BY <1>1, <2>2, SoughtSteady DEF SameTrigger
<1> HIDE DEF n, p
<1>5. n = core.samples_written
  BY DEF n
<1> QED BY <1>1, <1>2, <1>3, <1>4, <1>5, DoneKeeps

(* A capture with samples in the memory goes on.                           *)
LEMMA GoingKeeps ==
  ASSUME CoreTypes, CoreStays, ConfigSteady, active_capture, Moved,
         truth' = truth, NEW p, NEW n, GoesOn(p, n), Holds(buffer', taken', p, n),
         core'.capture_id = core.capture_id, NEW sample, Ports(core', sample),
         taken' # <<>>,
         cause' = "hit" => /\ core'.trigger_index < n
                           /\ Recent(taken', n - core'.trigger_index) = core'.trigger_sample_value
                           /\ Sought(core.trigger_sample_value)'
  PROVE  CoreStays' /\ CoreGoes
<1>1. /\ core'.state = "CAPTURING" /\ core'.samples_written = n /\ core'.write_ptr = p
      /\ core'.post_remaining >= 1 /\ n + core'.post_remaining <= SampleDepth
  BY DEF GoesOn
<1>2. ~Kept' /\ ~reading
  BY <1>1, ActiveIs DEF Kept, reading
<1>3. CoreInv'
  <2>1. core'.div_count < config'.sample_divisor
    BY DividerKept DEF CoreStays
  <2> QED BY <1>1, <2>1 DEF CoreInv
<1>4. TriggerInv'
  BY <1>1 DEF TriggerInv
<1>5. ~core'.read_valid
  BY <1>2 DEF Ports
<1> QED BY <1>2, <1>3, <1>4, <1>5, GoesKeeps

LEMMA ForceKeeps ==
  ASSUME CoreTypes, CoreStays, ConfigSteady, NEW sample \in Bit, ForceTrigger(sample)
  PROVE  Moved /\ CoreStays' /\ CoreGoes
<1> DEFINE n == core.samples_written
           p == core.write_ptr
<1>1. /\ Moved /\ Ports(core', sample) /\ active_capture /\ core'.capture_id = core.capture_id
      /\ DoneAt(p, n) \/ GoesOn(p, n)
      /\ cause' = "force" /\ buffer' = buffer /\ taken' = taken /\ Finished
  BY ForceIs, ActiveIs
<1>2. p \in Ptr /\ n \in 0 .. SampleDepth /\ n <= n + 1 /\ n <= n
  BY FieldTypes
<1>3. Holds(buffer', taken', p, n) /\ taken' # <<>>
  BY <1>1 DEF CoreStays, CoreInv
<1>4. n = core.samples_written /\ cause' # "hit"
  BY <1>1
<1> HIDE DEF n, p
<1>5. CASE DoneAt(p, n)
  BY <1>1, <1>2, <1>3, <1>4, <1>5, DoneKeeps
<1>6. CASE GoesOn(p, n)
  <2>1. truth' = truth
    BY <1>1, <1>6 DEF Finished, GoesOn
  <2> QED BY <1>1, <1>3, <1>4, <1>6, <2>1, GoingKeeps
<1> QED BY <1>1, <1>5, <1>6

LEMMA ArmedSampleKeeps ==
  ASSUME CoreTypes, CoreStays, ConfigSteady, NEW sample \in Bit, ArmedSample(sample)
  PROVE  Moved /\ CoreStays' /\ CoreGoes
<1> DEFINE n == core.samples_written
           p == inc_ptr(core.write_ptr)
<1>1. /\ Moved /\ Ports(core', sample) /\ core.state = "ARMED" /\ live /\ sample_due
      /\ Written(sample) /\ Finished /\ (Hits(sample) \/ Waits(sample))
  BY ArmedSampleIs DEF CoreStays, CoreInv
<1>2. /\ n \in 0 .. SampleDepth - 1 /\ n + 1 \in 0 .. SampleDepth /\ p \in Ptr
      /\ n <= n + 1 /\ n + 1 <= n + 1 /\ active_capture /\ taken # <<>>
      /\ core.prev_sample = Recent(taken, 1) /\ core'.capture_id = core.capture_id
      /\ Holds(buffer, taken, core.write_ptr, n)
  BY <1>1, FieldTypes, PtrsMove, ActiveIs DEF CoreStays, CoreInv, Written
<1>3. /\ Holds(buffer', taken', p, n + 1) /\ taken' # <<>> /\ Recent(taken', 1) = sample
  BY <1>1, <1>2, FieldTypes, HoldsMore, LongerIs DEF Written
<1>4. CASE Hits(sample)
  <2>1. /\ trigger_hit(sample) /\ cause' = "hit" /\ before' = taken[Len(taken)]
        /\ core'.trigger_index = n /\ core'.trigger_sample_value = sample
        /\ DoneAt(p, n + 1) \/ GoesOn(p, n + 1)
    BY <1>4 DEF Hits
  <2>2. before' = core.prev_sample
    <3>1. Len(taken) \in Nat
      BY FieldTypes
    <3>2. (Len(taken) - 1) + 1 = Len(taken)
      BY <3>1
    <3> QED BY <1>2, <2>1, <3>2 DEF Recent
  <2>3. Sought(core.trigger_sample_value)'
    <3>1. config.trigger_mode \in Modes
      BY FieldTypes DEF Config
    <3>2. /\ sample = IF config.trigger_mode = "falling" THEN 0 ELSE 1
          /\ config.trigger_mode \in {"rising", "falling"} => core.prev_sample # sample
      BY <2>1, <3>1 DEF trigger_hit, Modes
    <3> QED BY <2>1, <2>2, <3>2 DEF Sought, ConfigSteady
  <2>4. /\ core'.trigger_index < n + 1 /\ core'.trigger_index \in Nat
        /\ Recent(taken', (n + 1) - core'.trigger_index) = core'.trigger_sample_value
    <3>1. n < n + 1 /\ n \in Nat /\ (n + 1) - n = 1
      BY <1>2
    <3> QED BY <1>3, <2>1, <3>1
  <2> DEFINE m == n + 1
  <2>5. n = core.samples_written
    OBVIOUS
  <2> HIDE DEF m, n, p
  <2>6. /\ m \in 0 .. SampleDepth /\ Holds(buffer', taken', p, m)
        /\ core'.trigger_index < m
        /\ Recent(taken', m - core'.trigger_index) = core'.trigger_sample_value
        /\ DoneAt(p, m) \/ GoesOn(p, m)
        /\ core.samples_written <= m /\ m <= core.samples_written + 1
    BY <1>2, <1>3, <2>1, <2>4, <2>5 DEF m
  <2>7. CASE DoneAt(p, m)
    BY <1>1, <1>2, <2>3, <2>4, <2>6, <2>7, DoneKeeps
  <2>8. CASE GoesOn(p, m)
    <3>1. truth' = truth
      BY <1>1, <2>8 DEF Finished, GoesOn
    <3> QED BY <1>1, <1>2, <1>3, <2>3, <2>4, <2>6, <2>8, <3>1, GoingKeeps
  <2> QED BY <2>6, <2>7, <2>8
<1>5. CASE Waits(sample)
  <2>1. /\ UNCHANGED <<cause, before>> /\ core'.state = "ARMED" /\ core'.write_ptr = p
        /\ \/ core'.samples_written = n
           \/ core'.samples_written = n + 1 /\ n + 1 < SampleDepth
    BY <1>5 DEF Waits
  <2>2. truth' = truth
    BY <1>1, <2>1 DEF Finished
  <2>3. Holds(buffer', taken', p, core'.samples_written) /\ core'.samples_written < SampleDepth
    <3>1. Holds(buffer', taken', p, n)
      <4>1. n + 1 \in Nat /\ n \in 0 .. n + 1 /\ taken' \in Seq(Bit)
        BY <1>1, <1>2 DEF Moved
      <4> QED BY <1>3, <4>1, HoldsFewer
    <3>2. n < SampleDepth
      BY <1>2, FieldTypes
    <3>3. CASE core'.samples_written = n
      BY <3>1, <3>2, <3>3
    <3>4. CASE core'.samples_written = n + 1 /\ n + 1 < SampleDepth
      BY <1>3, <3>4
    <3> QED BY <2>1, <3>3, <3>4
  <2>4. core'.prev_sample = sample
    BY <1>1 DEF Ports
  <2>5. cause' = "none"
    BY <1>1, <2>1 DEF CoreStays, CoreInv
  <2>6. CoreInv'
    <3>1. core'.div_count < config'.sample_divisor
      BY <1>1, DividerKept DEF CoreStays
    <3> QED BY <1>3, <2>1, <2>3, <2>4, <2>5, <3>1 DEF CoreInv
  <2>7. TriggerInv'
    BY <2>1 DEF TriggerInv
  <2>8. ~Kept' /\ ~core'.read_valid
    <3>1. ~reading
      BY <1>1 DEF reading
    <3> QED BY <1>1, <2>1, <3>1 DEF Kept, Ports
  <2> QED BY <1>1, <1>2, <2>2, <2>6, <2>7, <2>8, GoesKeeps
<1> QED BY <1>1, <1>4, <1>5

LEMMA CapturingSampleKeeps ==
  ASSUME CoreTypes, CoreStays, ConfigSteady, NEW sample \in Bit, CapturingSample(sample)
  PROVE  Moved /\ CoreStays' /\ CoreGoes
<1> DEFINE n == core.samples_written
           p == inc_ptr(core.write_ptr)
           m == n + 1
<1>1. /\ Moved /\ Ports(core', sample) /\ core.state = "CAPTURING" /\ n < SampleDepth
      /\ Written(sample) /\ Finished /\ SameTrigger /\ UNCHANGED <<cause, before>>
      /\ DoneAt(p, m) \/ GoesOn(p, m)
  BY CapturingSampleIs DEF CoreStays, CoreInv
<1>2. /\ n \in 0 .. SampleDepth - 1 /\ m \in 0 .. SampleDepth /\ p \in Ptr
      /\ core.samples_written <= m /\ m <= core.samples_written + 1 /\ active_capture
      /\ core'.capture_id = core.capture_id /\ Holds(buffer, taken, core.write_ptr, n)
  BY SMTT(20), <1>1, FieldTypes, PtrsMove, ActiveIs DEF CoreStays, CoreInv, Written
<1>3. /\ Holds(buffer', taken', p, m) /\ taken' # <<>>
      /\ \A k \in 1 .. SampleDepth - 1 :
           k <= Len(taken) => Recent(taken', k + 1) = Recent(taken, k)
  BY <1>1, <1>2, FieldTypes, HoldsMore, LongerIs DEF Written
<1>4. ASSUME cause' = "hit"
      PROVE  /\ core'.trigger_index < m /\ core'.trigger_index \in Nat
             /\ Recent(taken', m - core'.trigger_index) = core'.trigger_sample_value
             /\ Sought(core.trigger_sample_value)'
  <2> DEFINE x == core.trigger_index
  <2>1. /\ x < n /\ x \in Nat /\ Recent(taken, n - x) = core.trigger_sample_value
        /\ Sought(core.trigger_sample_value)
    BY <1>1, <1>4, FieldTypes DEF CoreStays, TriggerInv, Ptr
  <2>2. n - x \in 1 .. SampleDepth - 1 /\ n - x <= Len(taken) /\ m - x = (n - x) + 1 /\ x < m
    <3>1. n <= Len(taken) /\ Len(taken) \in Nat /\ SampleDepth \in Nat
      BY <1>2, FieldTypes DEF Holds
    <3> HIDE DEF x
    <3> QED BY <1>2, <2>1, <3>1
  <2>3. Recent(taken', m - x) = Recent(taken, n - x)
    BY <1>3, <2>2
  <2> QED BY <1>1, <2>1, <2>2, <2>3, SoughtSteady DEF SameTrigger
<1> HIDE DEF n, p, m
<1>5. CASE DoneAt(p, m)
  BY <1>1, <1>2, <1>3, <1>4, <1>5, DoneKeeps
<1>6. CASE GoesOn(p, m)
  <2>1. truth' = truth
    BY <1>1, <1>6 DEF Finished, GoesOn
  <2> QED BY <1>1, <1>2, <1>3, <1>4, <1>6, <2>1, GoingKeeps
<1> QED BY <1>1, <1>5, <1>6

LEMMA RestKeeps ==
  ASSUME CoreTypes, CoreStays, ConfigSteady, NEW sample \in Bit,
         Readout(sample) \/ CoreRests(sample)
  PROVE  Moved /\ CoreStays' /\ CoreGoes
<1>1. /\ Moved /\ Ports(core', sample) /\ live /\ SameCapture(core')
      /\ UNCHANGED <<buffer, taken, truth, cause, before>>
      /\ \/ core'.state = core.state
            /\ (core.state = "READOUT" => ~adapter.core_readout_done_pulse)
            /\ (core.state = "ARMED" => ~sample_due)
         \/ core.state = "DONE" /\ core'.state = "READOUT" /\ adapter.core_start_readout_pulse
         \/ core.state = "READOUT" /\ core'.state = "DONE"
  BY RestIs
<1>2. /\ core'.samples_written = core.samples_written /\ core'.capture_id = core.capture_id
      /\ core'.trigger_index = core.trigger_index /\ core'.write_ptr = core.write_ptr
      /\ core'.trigger_sample_value = core.trigger_sample_value
      /\ core'.post_remaining = core.post_remaining
      /\ core'.read_start_ptr = core.read_start_ptr
  BY <1>1 DEF SameCapture
<1>3. /\ (Kept' <=> Kept) /\ (active_capture' <=> active_capture)
      /\ (~Kept => core'.state = core.state)
  BY <1>1, ActiveIs DEF Kept
<1>4. CoreInv'
  <2>1. core'.div_count < config'.sample_divisor
    BY <1>1, DividerKept DEF CoreStays
  <2>2. core'.state = "ARMED" => core.state = "ARMED" /\ core'.prev_sample = core.prev_sample
    BY <1>1 DEF Ports, live
  <2>3. core'.state = "CAPTURING" => core.state = "CAPTURING"
    BY <1>1
  <2> QED BY <1>1, <1>2, <1>3, <2>1, <2>2, <2>3 DEF CoreStays, CoreInv
<1>5. TriggerInv'
  <2>1. core'.state = "CAPTURING" => core.state = "CAPTURING"
    BY <1>1
  <2>2. SameTrigger
    BY <1>2 DEF SameTrigger
  <2> QED BY <1>1, <1>2, <2>1, <2>2, SoughtSteady DEF CoreStays, TriggerInv
<1>6. KeptInv'
  <2>1. Captured' = Captured
    BY <1>1, <1>2 DEF Captured
  <2>2. TriggerInWindow => TriggerInWindow'
    <3>1. TriggerInWindow => TriggerShowing
      BY DEF TriggerInWindow, TriggerShowing, Sought
    <3>2. TriggerShowing => TriggerShowing'
      <4>1. SameTrigger
        BY <1>2 DEF SameTrigger
      <4> QED BY <1>1, <1>2, <2>1, <4>1, SoughtSteady DEF TriggerShowing
    <3>3. TriggerShowing' => TriggerInWindow'
      BY TriggerShows, PTL
    <3> QED BY <3>1, <3>2, <3>3
  <2> QED BY <1>1, <1>2, <1>3, <2>1, <2>2 DEF CoreStays, KeptInv, CaptureIsWindow, Kept
<1>7. CoreGoes
  <2>1. \A id \in DOMAIN truth' : truth'[id] \in Seq(Bit)
    BY <1>1 DEF CoreTypes
  <2>2. core'.read_valid => reading /\ core'.read_sample = Captured[adapter.core_read_index + 1]
                            /\ Kept
    BY <1>1 DEF Ports, reading, Kept
  <2> QED BY <1>1, <1>2, <1>3, <2>1, <2>2 DEF CoreGoes
<1> QED BY <1>1, <1>4, <1>5, <1>6, <1>7 DEF CoreStays

LEMMA CoreSteps ==
  ASSUME CoreTypes, CoreStays, ConfigSteady, NEW sample \in Bit, CoreEdge(sample)
  PROVE  Moved /\ CoreStays' /\ CoreGoes
BY ClearKeeps, ArmKeeps, StopKeeps, ForceKeeps, ArmedSampleKeeps, CapturingSampleKeeps, RestKeeps
   DEF CoreEdge

-----------------------------------------------------------------------------
(* The adapter, action by action: it asks for a chunk, fetches its samples *)
(* one by one and sends it, gets stuck with it, waits, or does something   *)
(* that is not about samples.                                              *)
At == adapter.core_read_index - adapter.sample_index
Gathered == Append(SubSeq(adapter.data_payload, 1, At), core.read_sample)

SameChunk ==
  /\ adapter'.sample_index = adapter.sample_index
  /\ adapter'.samples_in_chunk = adapter.samples_in_chunk
  /\ adapter'.capture_id = adapter.capture_id

NoNews == msg' = msg \/ msg' = NoMessage

Begins ==
  /\ adapter'.state = "DATA" /\ adapter'.core_read_req /\ ~adapter.core_read_req
  /\ adapter.state = "READ"
  /\ adapter'.sample_index = adapter.sample_index
  /\ adapter'.core_read_index = adapter.sample_index
  /\ adapter'.capture_id = core.capture_id /\ adapter'.data_payload = <<>>
  /\ 1 <= adapter'.samples_in_chunk /\ adapter'.samples_in_chunk <= SamplesPerChunk
  /\ adapter.sample_index + adapter'.samples_in_chunk <= core.samples_written
  /\ NoNews

Has == adapter.state = "DATA" /\ core.read_valid /\ adapter'.data_payload = Gathered

Fetches ==
  /\ Has /\ adapter'.state = "DATA" /\ adapter'.core_read_req /\ SameChunk
  /\ adapter'.core_read_index = adapter.core_read_index + 1
  /\ At + 1 < adapter.samples_in_chunk /\ NoNews

Sends ==
  /\ Has /\ adapter'.state = "READ" /\ ~adapter'.core_read_req
  /\ At + 1 >= adapter.samples_in_chunk
  /\ msg' = [type |-> "data", capture_id |-> adapter.capture_id,
             chunk_index |-> adapter.chunk_index,
             first_sample_index |-> adapter.sample_index, samples |-> Gathered]

Sticks ==
  /\ Has /\ adapter'.state = "DATA" /\ ~adapter'.core_read_req /\ SameChunk
  /\ adapter'.core_read_index = adapter.core_read_index /\ NoNews

Lingers ==
  /\ adapter.state = "DATA" /\ ~core.read_valid
  /\ adapter'.state = "DATA" /\ ~adapter'.core_read_req /\ SameChunk
  /\ adapter'.core_read_index = adapter.core_read_index
  /\ adapter'.data_payload = adapter.data_payload /\ NoNews

Leaves ==
  /\ adapter.state # "DATA" /\ adapter'.state # "DATA" /\ ~adapter'.core_read_req
  /\ adapter'.data_payload = adapter.data_payload
  /\ \/ NoNews
     \/ msg' = [type |-> "header", capture_id |-> core.capture_id,
                sample_count |-> core.samples_written]
     \/ msg' = [type |-> "trigger", capture_id |-> core.capture_id]
     \/ msg' = [type |-> "status", capture_id |-> core.capture_id,
                chunks_sent |-> adapter.chunks_sent, chunks_total |-> adapter.chunks_total]

Pulses ==
  /\ adapter'.core_start_readout_pulse => adapter'.state = "HEADER"
  /\ adapter'.core_readout_done_pulse => adapter'.state = "IDLE"
  /\ adapter.state # "IDLE" => adapter'.state # "IDLE" \/ adapter'.core_readout_done_pulse

AdapterGoes ==
  /\ adapter' \in Adapters /\ Pulses
  /\ Begins \/ Fetches \/ Sends \/ Sticks \/ Lingers \/ Leaves

AdapterInv ==
  /\ adapter.core_start_readout_pulse => adapter.state = "HEADER"
  /\ adapter.core_readout_done_pulse => adapter.state = "IDLE"
  /\ core.state = "READOUT" => adapter.state # "IDLE" \/ adapter.core_readout_done_pulse
  /\ adapter.core_read_req => adapter.state = "DATA"
  /\ core.read_valid => adapter.state = "DATA" /\ ~adapter.core_read_req
  /\ Len(adapter.data_payload) <= SamplesPerChunk
  /\ adapter.state = "DATA" =>
       /\ 0 <= At /\ At < adapter.samples_in_chunk /\ adapter.samples_in_chunk <= SamplesPerChunk
       /\ At <= Len(adapter.data_payload)

LEMMA AdapterTypes ==
  ASSUME CoreTypes
  PROVE  /\ adapter \in Adapters /\ adapter.state \in AdapterStates
         /\ adapter.sample_index \in Nat /\ adapter.core_read_index \in Nat
         /\ adapter.samples_in_chunk \in Nat /\ adapter.capture_id \in Nat
         /\ adapter.chunk_index \in Nat /\ adapter.chunks_sent \in Nat
         /\ adapter.data_payload \in Seq(Bit) /\ Len(adapter.data_payload) \in Nat
         /\ SamplesPerChunk \in Nat \ {0} /\ core.read_sample \in Bit /\ At \in Int
<1>1. adapter \in Adapters /\ core \in Cores
  BY DEF CoreTypes
<1>2. adapter.data_payload \in Seq(Bit) /\ adapter.core_read_index \in Nat
      /\ adapter.sample_index \in Nat
  BY <1>1 DEF Adapters
<1> QED BY SMTT(20), <1>1, <1>2, LaAssumption DEF Adapters, Cores, At

LEMMA CalmIs ==
  ASSUME CoreTypes
  PROVE  /\ Calm \in Adapters /\ Calm.state = adapter.state
         /\ ~Calm.core_start_readout_pulse /\ ~Calm.core_readout_done_pulse
         /\ ~Calm.core_read_req /\ Calm.sample_index = adapter.sample_index
         /\ Calm.samples_in_chunk = adapter.samples_in_chunk
         /\ Calm.capture_id = adapter.capture_id
         /\ Calm.core_read_index = adapter.core_read_index
         /\ Calm.data_payload = adapter.data_payload
         /\ Calm.chunk_index = adapter.chunk_index /\ Calm.chunks_sent = adapter.chunks_sent
BY AdapterTypes DEF Calm, Adapters

LEMMA GatheredIs ==
  ASSUME CoreTypes, 0 <= At, At <= Len(adapter.data_payload)
  PROVE  /\ Gathered \in Seq(Bit) /\ Len(Gathered) = At + 1
         /\ Gathered[At + 1] = core.read_sample
         /\ \A i \in 1 .. At : Gathered[i] = adapter.data_payload[i]
<1> DEFINE d == adapter.data_payload
           a == At
           s == SubSeq(d, 1, a)
<1>1. d \in Seq(Bit) /\ a \in Nat /\ a <= Len(d) /\ core.read_sample \in Bit
  BY AdapterTypes
<1> HIDE DEF d, a
<1>2. \A i \in 1 .. a : d[i] \in Bit
  BY <1>1
<1>3. 1 \in Int /\ a \in Int /\ (a - 1) + 1 = a /\ (1 <= a => (a - 1) + 1 = a)
      /\ (~(1 <= a) => a = 0) /\ \A i \in 1 .. a : (1 + i) - 1 = i
  BY <1>1
<1>4. /\ s \in Seq(Bit) /\ Len(s) = (IF 1 <= a THEN (a - 1) + 1 ELSE 0)
      /\ \A i \in 1 .. (a - 1) + 1 : s[i] = d[(1 + i) - 1]
  BY <1>2, <1>3, SubSeqProperties
<1>5. s \in Seq(Bit) /\ Len(s) = a /\ \A i \in 1 .. a : s[i] = d[i]
  BY <1>3, <1>4
<1> HIDE DEF s
<1> DEFINE g == Append(s, core.read_sample)
<1>6. g \in Seq(Bit) /\ Len(g) = a + 1 /\ g[a + 1] = core.read_sample
      /\ \A i \in 1 .. a : g[i] = s[i]
  BY <1>1, <1>5
<1> QED BY <1>5, <1>6 DEF Gathered, s, d, a

LEMMA ReadSampleIs ==
  ASSUME CoreTypes, AdapterInv, NEW ready, ReadSample(ready)
  PROVE  AdapterGoes
<1>1. /\ adapter.state = "DATA" /\ core.read_valid
      /\ \/ /\ ~(At + 1 >= adapter.samples_in_chunk)
            /\ adapter' = [Calm EXCEPT !.data_payload = Gathered,
                                       !.core_read_index = Calm.core_read_index + 1,
                                       !.core_read_req = TRUE]
            /\ msg' = Drained(ready)
         \/ /\ At + 1 >= adapter.samples_in_chunk
            /\ msg' = [type |-> "data", capture_id |-> adapter.capture_id,
                       chunk_index |-> adapter.chunk_index,
                       first_sample_index |-> adapter.sample_index, samples |-> Gathered]
            /\ adapter' = [Calm EXCEPT !.state = "READ", !.data_payload = Gathered,
                             !.sample_index = Calm.sample_index + adapter.samples_in_chunk,
                             !.chunk_index = Calm.chunk_index + 1,
                             !.chunks_sent = Calm.chunks_sent + 1]
         \/ /\ adapter' = [Calm EXCEPT !.data_payload = Gathered]
            /\ msg' = msg
  BY DEF ReadSample, At, Gathered
<1>2. Gathered \in Seq(Bit)
  BY <1>1, GatheredIs DEF AdapterInv
<1>3. /\ Calm \in Adapters /\ Calm.state = "DATA"
      /\ ~Calm.core_start_readout_pulse /\ ~Calm.core_readout_done_pulse
      /\ ~Calm.core_read_req /\ Calm.sample_index = adapter.sample_index
      /\ Calm.samples_in_chunk = adapter.samples_in_chunk
      /\ Calm.capture_id = adapter.capture_id
      /\ Calm.core_read_index = adapter.core_read_index
      /\ Calm.core_read_index + 1 \in Nat
      /\ Calm.sample_index + adapter.samples_in_chunk \in Nat
      /\ Calm.chunk_index + 1 \in Nat /\ Calm.chunks_sent + 1 \in Nat
      /\ At \in Int /\ adapter.samples_in_chunk \in Int
  <2>1. /\ Calm \in Adapters /\ Calm.state = "DATA"
        /\ ~Calm.core_start_readout_pulse /\ ~Calm.core_readout_done_pulse
        /\ ~Calm.core_read_req /\ Calm.sample_index = adapter.sample_index
        /\ Calm.samples_in_chunk = adapter.samples_in_chunk
        /\ Calm.capture_id = adapter.capture_id
        /\ Calm.core_read_index = adapter.core_read_index
    BY <1>1, CalmIs
  <2>2. /\ Calm.core_read_index \in Nat /\ Calm.sample_index \in Nat
        /\ Calm.chunk_index \in Nat /\ Calm.chunks_sent \in Nat
    BY <2>1 DEF Adapters
  <2>3. At \in Int /\ adapter.samples_in_chunk \in Nat
    BY AdapterTypes
  <2> QED BY <2>1, <2>2, <2>3
<1>4. CASE /\ ~(At + 1 >= adapter.samples_in_chunk)
           /\ adapter' = [Calm EXCEPT !.data_payload = Gathered,
                                      !.core_read_index = Calm.core_read_index + 1,
                                      !.core_read_req = TRUE]
           /\ msg' = Drained(ready)
  <2>1. /\ adapter' \in Adapters /\ Pulses /\ SameChunk /\ adapter'.state = "DATA"
        /\ adapter'.core_read_req /\ adapter'.core_read_index = adapter.core_read_index + 1
        /\ adapter'.data_payload = Gathered
    BY <1>2, <1>3, <1>4 DEF Adapters, Pulses, SameChunk
  <2>2. At + 1 < adapter.samples_in_chunk /\ NoNews
    BY <1>3, <1>4 DEF Drained, NoNews
  <2>3. Fetches
    BY <1>1, <2>1, <2>2 DEF Fetches, Has
  <2> QED BY <2>1, <2>3 DEF AdapterGoes
<1>5. CASE /\ At + 1 >= adapter.samples_in_chunk
           /\ msg' = [type |-> "data", capture_id |-> adapter.capture_id,
                      chunk_index |-> adapter.chunk_index,
                      first_sample_index |-> adapter.sample_index, samples |-> Gathered]
           /\ adapter' = [Calm EXCEPT !.state = "READ", !.data_payload = Gathered,
                            !.sample_index = Calm.sample_index + adapter.samples_in_chunk,
                            !.chunk_index = Calm.chunk_index + 1,
                            !.chunks_sent = Calm.chunks_sent + 1]
  <2>1. /\ adapter' \in Adapters /\ Pulses /\ adapter'.state = "READ"
        /\ ~adapter'.core_read_req /\ adapter'.data_payload = Gathered
    BY <1>2, <1>3, <1>5 DEF Adapters, AdapterStates, Pulses
  <2>2. Sends
    BY <1>1, <1>5, <2>1 DEF Sends, Has
  <2> QED BY <2>1, <2>2 DEF AdapterGoes
<1>6. CASE adapter' = [Calm EXCEPT !.data_payload = Gathered] /\ msg' = msg
  <2>1. /\ adapter' \in Adapters /\ Pulses /\ SameChunk /\ adapter'.state = "DATA"
        /\ ~adapter'.core_read_req /\ adapter'.core_read_index = adapter.core_read_index
        /\ adapter'.data_payload = Gathered
    BY <1>2, <1>3, <1>6 DEF Adapters, Pulses, SameChunk
  <2>2. Sticks
    BY <1>1, <1>6, <2>1 DEF Sticks, Has, NoNews
  <2> QED BY <2>1, <2>2 DEF AdapterGoes
<1> QED BY <1>1, <1>4, <1>5, <1>6

LEMMA ReadChunkIs ==
  ASSUME CoreTypes, AdapterInv, NEW ready, ReadChunk(ready)
  PROVE  AdapterGoes
<1> DEFINE left == core.samples_written - adapter.sample_index
           m == IF left > SamplesPerChunk THEN SamplesPerChunk ELSE left
<1>1. /\ adapter.state = "READ" /\ msg' = Drained(ready)
      /\ adapter' = IF left <= 0 THEN [Calm EXCEPT !.state = "STATUS"]
                    ELSE [Calm EXCEPT
                            !.state = "DATA", !.samples_in_chunk = m,
                            !.capture_id = core.capture_id, !.data_payload = <<>>,
                            !.core_read_index = adapter.sample_index, !.core_read_req = TRUE]
  BY DEF ReadChunk
<1>2. NoNews
  BY <1>1 DEF Drained, NoNews
<1>3. /\ Calm \in Adapters /\ Calm.state = "READ"
      /\ ~Calm.core_start_readout_pulse /\ ~Calm.core_readout_done_pulse
      /\ ~Calm.core_read_req /\ Calm.sample_index = adapter.sample_index
      /\ Calm.data_payload = adapter.data_payload
  BY <1>1, CalmIs
<1>4. /\ adapter.sample_index \in Nat /\ core.samples_written \in Nat /\ core.capture_id \in Nat
      /\ SamplesPerChunk \in Nat \ {0} /\ left \in Int
  BY SMTT(20), AdapterTypes, FieldTypes
<1>5. CASE left <= 0
  <2>1. adapter' = [Calm EXCEPT !.state = "STATUS"]
    BY <1>1, <1>5
  <2>2. /\ adapter' \in Adapters /\ Pulses /\ adapter'.state = "STATUS"
        /\ ~adapter'.core_read_req /\ adapter'.data_payload = adapter.data_payload
    BY <1>3, <2>1 DEF Adapters, AdapterStates, Pulses
  <2>3. Leaves
    BY <1>1, <1>2, <2>2 DEF Leaves
  <2> QED BY <2>2, <2>3 DEF AdapterGoes
<1>6. CASE ~(left <= 0)
  <2>1. m \in Nat /\ 1 <= m /\ m <= SamplesPerChunk /\ adapter.sample_index + m <= core.samples_written
    BY <1>4, <1>6
  <2>2. adapter' = [Calm EXCEPT
                      !.state = "DATA", !.samples_in_chunk = m,
                      !.capture_id = core.capture_id, !.data_payload = <<>>,
                      !.core_read_index = adapter.sample_index, !.core_read_req = TRUE]
    BY <1>1, <1>6
  <2> HIDE DEF m
  <2>3. <<>> \in Seq(Bit)
    OBVIOUS
  <2>4. /\ adapter' \in Adapters /\ Pulses /\ adapter'.state = "DATA" /\ adapter'.core_read_req
        /\ adapter'.sample_index = adapter.sample_index
        /\ adapter'.core_read_index = adapter.sample_index
        /\ adapter'.capture_id = core.capture_id /\ adapter'.data_payload = <<>>
        /\ adapter'.samples_in_chunk = m
    BY <1>3, <1>4, <2>1, <2>2, <2>3 DEF Adapters, AdapterStates, Pulses
  <2>5. ~adapter.core_read_req
    BY <1>1 DEF AdapterInv
  <2>6. Begins
    BY <1>1, <1>2, <2>1, <2>4, <2>5 DEF Begins
  <2> QED BY <2>4, <2>6 DEF AdapterGoes
<1> QED BY <1>5, <1>6

LEMMA OtherIs ==
  ASSUME CoreTypes, AdapterInv, NEW ready,
         \/ StartReadout(ready) \/ SendHeader(ready) \/ SendTrigger(ready) \/ SendStatus(ready)
         \/ EndReadout(ready) \/ (AdapterWaits(ready) /\ adapter.state # "DATA")
  PROVE  AdapterGoes
<1>1. /\ Calm \in Adapters /\ Calm.state = adapter.state
      /\ ~Calm.core_start_readout_pulse /\ ~Calm.core_readout_done_pulse
      /\ ~Calm.core_read_req /\ Calm.data_payload = adapter.data_payload
  BY CalmIs
<1>2. CASE StartReadout(ready)
  <2> DEFINE total == (core.samples_written + SamplesPerChunk - 1) \div SamplesPerChunk
  <2>1. /\ adapter.state = "IDLE" /\ msg' = Drained(ready)
        /\ adapter' = [Calm EXCEPT !.state = "HEADER", !.core_start_readout_pulse = TRUE,
                         !.chunks_total = total,
                         !.chunk_index = 0, !.sample_index = 0, !.chunks_sent = 0]
    BY <1>2 DEF StartReadout
  <2>2. total \in Int
    <3>1. core.samples_written + SamplesPerChunk - 1 \in Int /\ SamplesPerChunk \in Nat \ {0}
      BY FieldTypes, LaAssumption
    <3> QED BY <3>1
  <2> HIDE DEF total
  <2>3. /\ adapter' \in Adapters /\ Pulses /\ adapter'.state = "HEADER"
        /\ ~adapter'.core_read_req /\ adapter'.data_payload = adapter.data_payload
    BY <1>1, <2>1, <2>2 DEF Adapters, AdapterStates, Pulses
  <2>4. Leaves
    BY <2>1, <2>3 DEF Leaves, NoNews, Drained
  <2> QED BY <2>3, <2>4 DEF AdapterGoes
<1>3. CASE SendHeader(ready)
  <2> DEFINE s == IF "TRIGGERED" \in core.flags THEN "TRIGGER" ELSE "READ"
  <2>1. /\ adapter.state = "HEADER" /\ adapter' = [Calm EXCEPT !.state = s]
        /\ msg' = [type |-> "header", capture_id |-> core.capture_id,
                   sample_count |-> core.samples_written]
    BY <1>3 DEF SendHeader
  <2>2. s \in {"TRIGGER", "READ"}
    OBVIOUS
  <2> HIDE DEF s
  <2>3. /\ adapter' \in Adapters /\ Pulses /\ adapter'.state = s
        /\ ~adapter'.core_read_req /\ adapter'.data_payload = adapter.data_payload
    BY <1>1, <2>1, <2>2 DEF Adapters, AdapterStates, Pulses
  <2>4. Leaves
    BY <2>1, <2>2, <2>3 DEF Leaves
  <2> QED BY <2>3, <2>4 DEF AdapterGoes
<1>4. CASE SendTrigger(ready)
  <2>1. /\ adapter.state = "TRIGGER" /\ adapter' = [Calm EXCEPT !.state = "READ"]
        /\ msg' = [type |-> "trigger", capture_id |-> core.capture_id]
    BY <1>4 DEF SendTrigger
  <2>3. /\ adapter' \in Adapters /\ Pulses /\ adapter'.state = "READ"
        /\ ~adapter'.core_read_req /\ adapter'.data_payload = adapter.data_payload
    BY <1>1, <2>1 DEF Adapters, AdapterStates, Pulses
  <2>4. Leaves
    BY <2>1, <2>3 DEF Leaves
  <2> QED BY <2>3, <2>4 DEF AdapterGoes
<1>5. CASE SendStatus(ready)
  <2>1. /\ adapter.state = "STATUS" /\ adapter' = [Calm EXCEPT !.state = "DONE"]
        /\ msg' = [type |-> "status", capture_id |-> core.capture_id,
                   chunks_sent |-> adapter.chunks_sent, chunks_total |-> adapter.chunks_total]
    BY <1>5 DEF SendStatus
  <2>3. /\ adapter' \in Adapters /\ Pulses /\ adapter'.state = "DONE"
        /\ ~adapter'.core_read_req /\ adapter'.data_payload = adapter.data_payload
    BY <1>1, <2>1 DEF Adapters, AdapterStates, Pulses
  <2>4. Leaves
    BY <2>1, <2>3 DEF Leaves
  <2> QED BY <2>3, <2>4 DEF AdapterGoes
<1>6. CASE EndReadout(ready)
  <2>1. /\ adapter.state = "DONE" /\ msg' = Drained(ready)
        /\ adapter' = [Calm EXCEPT !.state = "IDLE", !.core_readout_done_pulse = TRUE]
    BY <1>6 DEF EndReadout
  <2>3. /\ adapter' \in Adapters /\ Pulses /\ adapter'.state = "IDLE"
        /\ ~adapter'.core_read_req /\ adapter'.data_payload = adapter.data_payload
    BY <1>1, <2>1 DEF Adapters, AdapterStates, Pulses
  <2>4. Leaves
    BY <2>1, <2>3 DEF Leaves, NoNews, Drained
  <2> QED BY <2>3, <2>4 DEF AdapterGoes
<1>7. CASE AdapterWaits(ready) /\ adapter.state # "DATA"
  <2>1. adapter' = Calm /\ msg' = Drained(ready)
    BY <1>7 DEF AdapterWaits
  <2>2. Pulses
    BY <1>1, <2>1 DEF Pulses
  <2>3. Leaves
    BY <1>1, <1>7, <2>1 DEF Leaves, NoNews, Drained
  <2> QED BY <1>1, <2>1, <2>2, <2>3 DEF AdapterGoes
<1> QED BY <1>2, <1>3, <1>4, <1>5, <1>6, <1>7

LEMMA AdapterSteps ==
  ASSUME CoreTypes, AdapterInv, NEW ready, AdapterEdge(ready)
  PROVE  AdapterGoes
<1>1. CASE AdapterWaits(ready) /\ adapter.state = "DATA"
  <2>1. adapter' = Calm /\ msg' = Drained(ready) /\ ~core.read_valid
    BY <1>1 DEF AdapterWaits
  <2>2. /\ Calm \in Adapters /\ Calm.state = "DATA"
        /\ ~Calm.core_start_readout_pulse /\ ~Calm.core_readout_done_pulse
        /\ ~Calm.core_read_req /\ Calm.sample_index = adapter.sample_index
        /\ Calm.samples_in_chunk = adapter.samples_in_chunk
        /\ Calm.capture_id = adapter.capture_id
        /\ Calm.core_read_index = adapter.core_read_index
        /\ Calm.data_payload = adapter.data_payload
    BY <1>1, CalmIs
  <2>3. Pulses
    BY <2>1, <2>2 DEF Pulses
  <2>4. Lingers
    BY <1>1, <2>1, <2>2 DEF Lingers, SameChunk, NoNews, Drained
  <2> QED BY <2>1, <2>2, <2>3, <2>4 DEF AdapterGoes
<1>2. CASE ~(AdapterWaits(ready) /\ adapter.state = "DATA")
  BY <1>2, ReadSampleIs, ReadChunkIs, OtherIs DEF AdapterEdge
<1> QED BY <1>1, <1>2

-----------------------------------------------------------------------------
(* A step of the analyzer: the registers, the core and the adapter.        *)
LEMMA RegistersStay ==
  ASSUME CoreTypes, RegBank
  PROVE  config' \in Config /\ ConfigSteady
<1>1. config \in Config
  BY DEF CoreTypes
<1>2. CASE config' = config
  BY <1>1, <1>2 DEF ConfigSteady
<1>3. CASE config' \in Rewrites
  <2>1. CASE \E v \in BOOLEAN : config' = [config EXCEPT !.enable = v]
    BY <1>1, <2>1 DEF Config, ConfigSteady
  <2>2. CASE \E v \in 1 .. SampleDepth : config' = [config EXCEPT !.capture_depth = v]
    BY <1>1, <2>2 DEF Config, ConfigSteady
  <2>3. CASE \E v \in 0 .. config.capture_depth - 1 :
               config' = [config EXCEPT !.pretrigger_depth = v]
    <3>1. PICK v \in 0 .. config.capture_depth - 1 :
                 config' = [config EXCEPT !.pretrigger_depth = v]
      BY <2>3
    <3>2. config.capture_depth \in 1 .. SampleDepth
      BY <1>1 DEF Config
    <3>3. v \in 0 .. SampleDepth - 1
      BY <3>2, LaAssumption
    <3> QED BY <1>1, <3>1, <3>3 DEF Config, ConfigSteady
  <2> QED BY <1>3, <2>1, <2>2, <2>3 DEF Rewrites
<1> QED BY <1>2, <1>3 DEF RegBank

LEMMA TypesStay ==
  ASSUME CoreTypes, Moved, AdapterGoes, CoreGoes, config' \in Config
  PROVE  CoreTypes'
BY DEF CoreTypes, Moved, AdapterGoes, CoreGoes

LEMMA AdapterStays ==
  ASSUME CoreTypes, AdapterInv, CoreGoes, AdapterGoes
  PROVE  AdapterInv'
<1>1. /\ adapter'.core_start_readout_pulse => adapter'.state = "HEADER"
      /\ adapter'.core_readout_done_pulse => adapter'.state = "IDLE"
  BY DEF AdapterGoes, Pulses
<1>2. core'.state = "READOUT" => adapter'.state # "IDLE" \/ adapter'.core_readout_done_pulse
  BY DEF AdapterGoes, Pulses, CoreGoes, AdapterInv
<1>3. adapter'.core_read_req => adapter'.state = "DATA"
  BY DEF AdapterGoes, Begins, Fetches, Sends, Sticks, Lingers, Leaves
<1>4. core'.read_valid => adapter'.state = "DATA" /\ ~adapter'.core_read_req
  <2> SUFFICES ASSUME core'.read_valid PROVE adapter'.state = "DATA" /\ ~adapter'.core_read_req
    OBVIOUS
  <2>1. adapter.core_read_req /\ adapter.state = "DATA" /\ ~core.read_valid
    BY DEF CoreGoes, reading, AdapterInv
  <2> QED BY <2>1 DEF AdapterGoes, Begins, Fetches, Sends, Sticks, Lingers, Leaves, Has
<1>5. Len(adapter.data_payload) \in Nat /\ SamplesPerChunk \in Nat \ {0} /\ At \in Int
      /\ adapter.sample_index \in Nat /\ adapter.core_read_index \in Nat
      /\ adapter.samples_in_chunk \in Nat
  BY AdapterTypes
<1>6. CASE Begins
  <2>1. Len(adapter'.data_payload) = 0 /\ At' = 0 /\ adapter'.samples_in_chunk \in Nat
    BY <1>5, <1>6 DEF Begins, At, AdapterGoes, Adapters
  <2>2. Len(adapter'.data_payload) <= SamplesPerChunk /\ 0 <= At'
        /\ At' < adapter'.samples_in_chunk /\ adapter'.samples_in_chunk <= SamplesPerChunk
        /\ At' <= Len(adapter'.data_payload)
    BY <1>5, <1>6, <2>1 DEF Begins
  <2> QED BY <1>1, <1>2, <1>3, <1>4, <2>2 DEF AdapterInv
<1>7. CASE Fetches \/ Sends \/ Sticks
  <2>1. adapter.state = "DATA" /\ adapter'.data_payload = Gathered
    BY <1>7 DEF Fetches, Sends, Sticks, Has
  <2>2. /\ 0 <= At /\ At < adapter.samples_in_chunk
        /\ adapter.samples_in_chunk <= SamplesPerChunk /\ At <= Len(adapter.data_payload)
    BY <2>1 DEF AdapterInv
  <2>3. Len(Gathered) = At + 1
    BY <2>2, GatheredIs
  <2>4. Len(adapter'.data_payload) = At + 1 /\ At + 1 <= SamplesPerChunk
    BY <1>5, <2>1, <2>2, <2>3
  <2>5. adapter'.state = "DATA" =>
          /\ adapter'.samples_in_chunk = adapter.samples_in_chunk
          /\ At' = At \/ (At' = At + 1 /\ At + 1 < adapter.samples_in_chunk)
    BY <1>5, <1>7 DEF Fetches, Sends, Sticks, SameChunk, At
  <2> HIDE DEF At
  <2>6. adapter'.state = "DATA" =>
          /\ 0 <= At' /\ At' < adapter'.samples_in_chunk
          /\ adapter'.samples_in_chunk <= SamplesPerChunk
          /\ At' <= Len(adapter'.data_payload)
    BY <1>5, <2>2, <2>4, <2>5
  <2> QED BY <1>1, <1>2, <1>3, <1>4, <2>4, <2>6 DEF AdapterInv
<1>8. CASE Lingers
  <2>1. adapter.state = "DATA" /\ adapter'.data_payload = adapter.data_payload /\ At' = At
        /\ adapter'.samples_in_chunk = adapter.samples_in_chunk
    BY <1>8 DEF Lingers, SameChunk, At
  <2>2. /\ 0 <= At /\ At < adapter.samples_in_chunk
        /\ adapter.samples_in_chunk <= SamplesPerChunk /\ At <= Len(adapter.data_payload)
        /\ Len(adapter.data_payload) <= SamplesPerChunk
    BY <2>1 DEF AdapterInv
  <2> QED BY <1>1, <1>2, <1>3, <1>4, <2>1, <2>2 DEF AdapterInv
<1>9. CASE Leaves
  <2>1. adapter'.data_payload = adapter.data_payload /\ adapter'.state # "DATA"
    BY <1>9 DEF Leaves
  <2>2. Len(adapter.data_payload) <= SamplesPerChunk
    BY DEF AdapterInv
  <2> QED BY <1>1, <1>2, <1>3, <1>4, <2>1, <2>2 DEF AdapterInv
<1> QED BY <1>6, <1>7, <1>8, <1>9 DEF AdapterGoes

-----------------------------------------------------------------------------
(* The readout: what the adapter has fetched of a chunk, and what the read *)
(* port shows it, are samples of the capture that the chunk is about.      *)
Fits(id) ==
  /\ id \in DOMAIN truth
  /\ adapter.sample_index + adapter.samples_in_chunk <= Len(truth[id])

Prefix(id) ==
  \A i \in 1 .. At : adapter.data_payload[i] = truth[id][adapter.sample_index + i]

(* What the read port will answer is about the same capture.               *)
Asked ==
  Kept /\ adapter.core_read_index < core.samples_written =>
    /\ core.capture_id = adapter.capture_id
    /\ adapter.sample_index + adapter.samples_in_chunk <= core.samples_written

(* What it has answered was.                                               *)
Answered ==
  /\ core.read_sample = truth[adapter.capture_id][adapter.core_read_index + 1]
  /\ \/ Kept /\ core.capture_id = adapter.capture_id
     \/ core.state = "ARMED" /\ core.samples_written = 0
     \/ core.state = "ERROR"

ReadInv ==
  /\ adapter.core_read_req =>
       Asked /\ (At > 0 => Fits(adapter.capture_id) /\ Prefix(adapter.capture_id))
  /\ core.read_valid =>
       Fits(adapter.capture_id) /\ Prefix(adapter.capture_id) /\ Answered

(* A finished capture has as many samples as the core says.                *)
LEMMA KeptLength ==
  ASSUME CoreTypes, CoreStays, Kept
  PROVE  /\ core.capture_id \in DOMAIN truth /\ Captured = truth[core.capture_id]
         /\ Len(truth[core.capture_id]) = core.samples_written
<1>1. core.capture_id \in DOMAIN truth /\ Captured = truth[core.capture_id]
  BY DEF CoreStays, KeptInv, CaptureIsWindow, Kept
<1>2. truth[core.capture_id] \in Seq(Bit) /\ core.samples_written \in Nat
  BY <1>1, FieldTypes DEF CoreTypes
<1>3. DOMAIN Captured = 1 .. core.samples_written
  BY DEF Captured
<1> QED BY <1>1, <1>2, <1>3, LenProperties

(* The samples with the one that just arrived.                             *)
LEMMA GatheredFits ==
  ASSUME CoreTypes, AdapterInv, ReadInv, adapter.state = "DATA", core.read_valid
  PROVE  /\ Gathered \in Seq(Bit) /\ Len(Gathered) = At + 1
         /\ Fits(adapter.capture_id)
         /\ \A i \in 1 .. At + 1 :
              Gathered[i] = truth[adapter.capture_id][adapter.sample_index + i]
<1>1. 0 <= At /\ At <= Len(adapter.data_payload)
  BY DEF AdapterInv
<1>2. /\ Gathered \in Seq(Bit) /\ Len(Gathered) = At + 1
      /\ Gathered[At + 1] = core.read_sample
      /\ \A i \in 1 .. At : Gathered[i] = adapter.data_payload[i]
  BY <1>1, GatheredIs
<1>3. Fits(adapter.capture_id) /\ Prefix(adapter.capture_id)
      /\ core.read_sample = truth[adapter.capture_id][adapter.core_read_index + 1]
  BY DEF ReadInv, Answered
<1>4. At \in Int /\ adapter.sample_index \in Nat /\ adapter.core_read_index \in Nat
  BY AdapterTypes
<1>5. adapter.core_read_index + 1 = adapter.sample_index + (At + 1)
  BY <1>4 DEF At
<1>6. \A i \in 1 .. At + 1 : i = At + 1 \/ i \in 1 .. At
  BY <1>1, <1>4
<1> QED BY <1>2, <1>3, <1>5, <1>6 DEF Prefix

(* A capture that the chunk fits in stays one when the chunk goes on.      *)
LEMMA FitsStays ==
  ASSUME CoreGoes, SameChunk, Fits(adapter.capture_id)
  PROVE  Fits(adapter.capture_id)' /\ truth'[adapter'.capture_id] = truth[adapter.capture_id]
BY DEF CoreGoes, SameChunk, Fits

(* A chunk begins.                                                         *)
LEMMA BeginReads ==
  ASSUME CoreTypes, CoreTypes', CoreGoes, Begins
  PROVE  ReadInv'
<1> DEFINE w == core.samples_written
           v == core'.samples_written
           m == adapter'.samples_in_chunk
           x == adapter.sample_index
<1>1. w \in Nat /\ v \in Nat /\ m \in Nat /\ x \in Nat
  BY DEF CoreTypes, Cores, Adapters
<1>2. ~core'.read_valid /\ adapter'.core_read_req
  BY DEF Begins, CoreGoes, reading
<1>3. At' = 0
  BY <1>1 DEF Begins, At
<1>4. ASSUME Kept'
      PROVE  core'.capture_id = adapter'.capture_id /\ adapter'.sample_index + m <= v
  <2>1. core'.capture_id = core.capture_id /\ (v = w \/ (w <= v /\ v <= w + 1))
    BY <1>4 DEF CoreGoes
  <2>2. adapter'.capture_id = core.capture_id /\ adapter'.sample_index = x /\ x + m <= w
    BY DEF Begins
  <2> HIDE DEF w, v, m, x
  <2>3. x + m <= v
    BY <1>1, <2>1, <2>2
  <2> QED BY <2>1, <2>2, <2>3
<1>5. Asked'
  BY <1>4 DEF Asked
<1> QED BY <1>2, <1>3, <1>5 DEF ReadInv

(* A sample has arrived and the next one is asked for.                     *)
LEMMA FetchReads ==
  ASSUME CoreTypes, CoreTypes', CoreStays, AdapterInv, ReadInv, CoreGoes, Fetches
  PROVE  ReadInv'
<1> DEFINE id == adapter.capture_id
           v == core'.samples_written
           k == adapter.core_read_index
           x == adapter.sample_index
           n == adapter.samples_in_chunk
<1>1. core.read_valid /\ adapter.state = "DATA" /\ adapter'.data_payload = Gathered /\ SameChunk
      /\ adapter'.core_read_index = k + 1 /\ adapter'.core_read_req
  BY DEF Fetches, Has
<1>2. /\ Fits(id) /\ \A i \in 1 .. At + 1 : Gathered[i] = truth[id][x + i]
  BY <1>1, GatheredFits
<1>3. v \in Nat /\ k \in Nat /\ x \in Nat /\ n \in Nat
  BY DEF CoreTypes, Cores, Adapters
<1>4. Fits(adapter.capture_id)' /\ truth'[adapter'.capture_id] = truth[id]
  BY <1>1, <1>2, FitsStays
<1>5. At' = At + 1 /\ adapter'.sample_index = x /\ adapter'.capture_id = id
      /\ adapter'.samples_in_chunk = n
  BY <1>1, <1>3 DEF At, SameChunk
<1>6. Prefix(adapter.capture_id)'
  <2>1. \A i \in 1 .. At' : adapter'.data_payload[i]
                              = truth'[adapter'.capture_id][adapter'.sample_index + i]
    BY <1>1, <1>2, <1>4, <1>5
  <2> QED BY <2>1 DEF Prefix
<1>7. ~core'.read_valid
  BY <1>1 DEF CoreGoes, reading, AdapterInv
<1>8. ASSUME Kept', k + 1 < v
      PROVE  core'.capture_id = id /\ x + n <= v
  <2>1. core'.capture_id = core.capture_id
        /\ \/ Kept /\ v = core.samples_written
           \/ active_capture /\ v <= core.samples_written + 1
    BY <1>8 DEF CoreGoes
  <2>2. \/ Kept /\ core.capture_id = id
        \/ core.state = "ARMED" /\ core.samples_written = 0
        \/ core.state = "ERROR"
    BY <1>1 DEF ReadInv, Answered
  <2>3. ~(core.state = "ARMED" /\ core.samples_written = 0)
    <3>1. core.state = "ARMED" => ~Kept
      BY DEF Kept
    <3>2. ~(core.samples_written = 0 /\ v <= core.samples_written + 1)
      BY <1>3, <1>8
    <3> QED BY <2>1, <3>1, <3>2
  <2>4. core.state # "ERROR"
    BY <2>1 DEF Kept, active_capture
  <2>5. Kept /\ core.capture_id = id /\ v = core.samples_written
    BY <2>1, <2>2, <2>3, <2>4 DEF Kept, active_capture
  <2>6. Len(truth[id]) = v /\ x + n <= Len(truth[id])
    BY <1>2, <2>5, KeptLength DEF Fits
  <2> QED BY <2>1, <2>5, <2>6
<1>9. Asked'
  BY <1>1, <1>5, <1>8 DEF Asked
<1> QED BY <1>4, <1>6, <1>7, <1>9 DEF ReadInv

(* Nothing arrives, and the read port may answer.                          *)
LEMMA LingerReads ==
  ASSUME CoreTypes, CoreTypes', CoreStays, AdapterInv, ReadInv, CoreGoes, Lingers
  PROVE  ReadInv'
<1> DEFINE id == adapter.capture_id
           x == adapter.sample_index
           k == adapter.core_read_index
<1>1. /\ adapter.state = "DATA" /\ ~adapter'.core_read_req /\ SameChunk
      /\ adapter'.core_read_index = k /\ adapter'.data_payload = adapter.data_payload
  BY DEF Lingers
<1> SUFFICES ASSUME core'.read_valid
             PROVE  /\ Fits(adapter.capture_id)' /\ Prefix(adapter.capture_id)' /\ Answered'
  BY <1>1 DEF ReadInv
<1>2. /\ adapter.core_read_req /\ Kept /\ k < core.samples_written
      /\ core'.read_sample = Captured[k + 1]
  BY DEF CoreGoes, reading, Kept
<1>3. core.capture_id = id /\ x + adapter.samples_in_chunk <= core.samples_written
  BY <1>2 DEF ReadInv, Asked
<1>4. id \in DOMAIN truth /\ Captured = truth[id] /\ Len(truth[id]) = core.samples_written
  BY <1>2, <1>3, KeptLength
<1>5. Fits(adapter.capture_id)
  BY <1>3, <1>4 DEF Fits
<1>6. Fits(adapter.capture_id)' /\ truth'[adapter'.capture_id] = truth[id]
  BY <1>1, <1>5, FitsStays
<1>7. At' = At /\ adapter'.sample_index = x /\ adapter'.capture_id = id
  BY <1>1 DEF At, SameChunk
<1>8. At \in Int /\ 0 <= At
  BY <1>1, AdapterTypes DEF AdapterInv
<1>9. \A i \in 1 .. At : adapter.data_payload[i] = truth[id][x + i]
  <2>1. At > 0 => Prefix(id)
    BY <1>2 DEF ReadInv
  <2>2. ASSUME NEW i \in 1 .. At PROVE At > 0
    BY <1>8
  <2> QED BY <2>1, <2>2 DEF Prefix
<1>10. Prefix(adapter.capture_id)'
  <2>1. \A i \in 1 .. At' : adapter'.data_payload[i]
                              = truth'[adapter'.capture_id][adapter'.sample_index + i]
    BY <1>1, <1>6, <1>7, <1>9
  <2> QED BY <2>1 DEF Prefix
<1>11. Answered'
  <2>1. core'.read_sample = truth'[adapter'.capture_id][adapter'.core_read_index + 1]
    BY <1>1, <1>2, <1>4, <1>6
  <2>2. \/ Kept' /\ core'.capture_id = adapter'.capture_id
        \/ core'.state = "ARMED" /\ core'.samples_written = 0
        \/ core'.state = "ERROR"
    BY <1>3, <1>7 DEF CoreGoes
  <2> QED BY <2>1, <2>2 DEF Answered
<1> QED BY <1>6, <1>10, <1>11

LEMMA ReadStays ==
  ASSUME CoreTypes, CoreTypes', CoreStays, AdapterInv, ReadInv, CoreGoes, AdapterGoes
  PROVE  ReadInv'
<1>1. CASE Sends \/ Sticks \/ Leaves
  <2>1. ~adapter'.core_read_req
    BY <1>1 DEF Sends, Sticks, Leaves
  <2>2. ~core'.read_valid
    <3>1. core'.read_valid => adapter.core_read_req
      BY DEF CoreGoes, reading
    <3>2. adapter.core_read_req => adapter.state = "DATA" /\ ~core.read_valid
      BY DEF AdapterInv
    <3> QED BY <1>1, <3>1, <3>2 DEF Sends, Sticks, Leaves, Has
  <2> QED BY <2>1, <2>2 DEF ReadInv
<1> QED BY <1>1, BeginReads, FetchReads, LingerReads DEF AdapterGoes

-----------------------------------------------------------------------------
(* The message that waits for the debug core.                              *)
MsgInv ==
  /\ msg = NoMessage \/ msg.type \in {"header", "data", "trigger", "status"}
  /\ msg.type = "header" =>
       /\ msg.sample_count \in Nat
       /\ msg.capture_id \notin unsettled =>
            msg.capture_id \in DOMAIN truth /\ msg.sample_count = Len(truth[msg.capture_id])
  /\ msg.type = "data" =>
       /\ msg.samples \in Seq(Bit) /\ msg.first_sample_index \in Nat
       /\ msg.capture_id \in DOMAIN truth
       /\ msg.first_sample_index + Len(msg.samples) <= Len(truth[msg.capture_id])
       /\ \A i \in 1 .. Len(msg.samples) :
            msg.samples[i] = truth[msg.capture_id][msg.first_sample_index + i]

HeaderNoted ==
  unsettled' = IF msg' = NoMessage \/ msg'.type # "header"
                  \/ core.state \in {"DONE", "READOUT"}
               THEN unsettled ELSE unsettled \union {core.capture_id}

LEMMA MessageStays ==
  ASSUME CoreTypes, CoreStays, AdapterInv, ReadInv, MsgInv, CoreGoes, AdapterGoes, HeaderNoted
  PROVE  MsgInv' /\ unsettled \subseteq unsettled'
<1>1. unsettled \subseteq unsettled'
  BY DEF HeaderNoted
<1>2. NoMessage.type = "none"
  BY DEF NoMessage
<1>3. CASE msg' = msg
  BY <1>1, <1>3 DEF MsgInv, CoreGoes
<1>4. CASE msg' = NoMessage
  BY <1>1, <1>2, <1>4 DEF MsgInv
<1>5. CASE Sends
  <2> DEFINE id == adapter.capture_id
             x == adapter.sample_index
  <2>1. /\ adapter.state = "DATA" /\ core.read_valid /\ At + 1 >= adapter.samples_in_chunk
        /\ msg' = [type |-> "data", capture_id |-> id, chunk_index |-> adapter.chunk_index,
                   first_sample_index |-> x, samples |-> Gathered]
    BY <1>5 DEF Sends, Has
  <2>2. /\ Gathered \in Seq(Bit) /\ Len(Gathered) = At + 1 /\ Fits(id)
        /\ \A i \in 1 .. At + 1 : Gathered[i] = truth[id][x + i]
    BY <2>1, GatheredFits
  <2>3. /\ At \in Int /\ x \in Nat /\ adapter.samples_in_chunk \in Nat
        /\ At < adapter.samples_in_chunk
    BY <2>1, AdapterTypes DEF AdapterInv
  <2>4. At + 1 = adapter.samples_in_chunk
    BY <2>1, <2>3
  <2>5. /\ id \in DOMAIN truth' /\ truth'[id] = truth[id]
        /\ x + Len(Gathered) <= Len(truth[id])
    BY <2>2, <2>4 DEF Fits, CoreGoes
  <2>6. /\ msg'.type = "data" /\ msg'.capture_id = id /\ msg'.first_sample_index = x
        /\ msg'.samples = Gathered
    BY <2>1
  <2> QED BY <1>1, <2>2, <2>3, <2>5, <2>6 DEF MsgInv
<1>6. CASE msg' = [type |-> "header", capture_id |-> core.capture_id,
                   sample_count |-> core.samples_written]
  <2>1. /\ msg' # NoMessage /\ msg'.type = "header" /\ msg'.capture_id = core.capture_id
        /\ msg'.sample_count = core.samples_written
    BY <1>2, <1>6
  <2>2. core.samples_written \in Nat
    BY FieldTypes
  <2>3. msg'.capture_id \notin unsettled' =>
          msg'.capture_id \in DOMAIN truth'
            /\ msg'.sample_count = Len(truth'[msg'.capture_id])
    <3>1. CASE Kept
      BY <2>1, <3>1, KeptLength DEF CoreGoes
    <3>2. CASE ~Kept
      BY <2>1, <3>2 DEF HeaderNoted, Kept
    <3> QED BY <3>1, <3>2
  <2> QED BY <1>1, <2>1, <2>2, <2>3 DEF MsgInv
<1>7. CASE \/ msg' = [type |-> "trigger", capture_id |-> core.capture_id]
           \/ msg' = [type |-> "status", capture_id |-> core.capture_id,
                      chunks_sent |-> adapter.chunks_sent,
                      chunks_total |-> adapter.chunks_total]
  <2>1. msg'.type \in {"trigger", "status"}
    BY <1>7
  <2> QED BY <1>1, <2>1 DEF MsgInv
<1> QED
  BY <1>3, <1>4, <1>5, <1>6, <1>7
  DEF AdapterGoes, Begins, Fetches, Sticks, Lingers, Leaves, NoNews

(* Sample by sample is all at once.                                        *)
LEMMA MessageExact ==
  ASSUME CoreTypes, MsgInv
  PROVE  ReadoutExact
<1> SUFFICES ASSUME msg.type = "data" PROVE ReadoutExact
  BY DEF ReadoutExact
<1> DEFINE t == truth[msg.capture_id]
           f == msg.first_sample_index
           s == msg.samples
           n == Len(s)
<1>1. /\ s \in Seq(Bit) /\ f \in Nat /\ msg.capture_id \in DOMAIN truth /\ f + n <= Len(t)
      /\ t \in Seq(Bit) /\ \A i \in 1 .. n : s[i] = t[f + i]
  BY DEF MsgInv, CoreTypes
<1> DEFINE l == f + n
           m == f + 1
<1> HIDE DEF t, f, s
<1>2. n \in Nat /\ Len(t) \in Nat
  BY <1>1
<1>3. /\ m \in Int /\ l \in Int /\ (\A i \in m .. l : t[i] \in Bit)
      /\ (m <= l => (l - m) + 1 = n) /\ (~(m <= l) => n = 0)
      /\ \A i \in 1 .. n : (m + i) - 1 = f + i
      /\ \A i \in 1 .. n : i \in 1 .. (l - m) + 1
  BY <1>1, <1>2
<1> HIDE DEF n, m, l
<1>4. /\ SubSeq(t, m, l) \in Seq(Bit)
      /\ Len(SubSeq(t, m, l)) = IF m <= l THEN (l - m) + 1 ELSE 0
      /\ \A i \in 1 .. (l - m) + 1 : SubSeq(t, m, l)[i] = t[(m + i) - 1]
  BY <1>3, SubSeqProperties
<1>5. Len(SubSeq(t, m, l)) = n
  BY <1>3, <1>4
<1>6. \A i \in 1 .. n : SubSeq(t, m, l)[i] = s[i]
  BY <1>1, <1>3, <1>4
<1>7. s = SubSeq(t, m, l)
  BY <1>1, <1>4, <1>5, <1>6, SeqEqual DEF n
<1> QED BY <1>1, <1>7 DEF ReadoutExact, t, f, s, n, m, l

-----------------------------------------------------------------------------
(* The viewer.  What it has of a capture, of which t is the truth, u the   *)
(* captures whose header left too early.                                   *)
Capture(c) ==
  /\ DOMAIN c = {"header", "samples", "chunks", "complete", "missingChunks"}
  /\ c.header \in Nat \union {Null} /\ c.samples \in Seq(Bit \union {Null})
  /\ c.complete \in BOOLEAN

Agrees(id, samples, t) ==
  \A i \in 1 .. Len(samples) :
    samples[i] # Null =>
      id \in DOMAIN t /\ i <= Len(t[id]) /\ samples[i] = t[id][i]

Fair(id, c, t, u) ==
  /\ Capture(c)
  /\ Agrees(id, c.samples, t)
  /\ c.header # Null => c.header <= Len(c.samples)
  /\ c.complete => c.header # Null /\ \A i \in 1 .. c.header : c.samples[i] # Null
  /\ c.header # Null /\ id \notin u => id \in DOMAIN t /\ c.header = Len(t[id])

ViewerInv == \A id \in DOMAIN viewer : Fair(id, viewer[id], truth, unsettled)

LEMMA NullIs == Null \notin Nat /\ Null \notin Bit
BY DEF Null, Bit

LEMMA FairStays ==
  ASSUME NEW id, NEW c, Fair(id, c, truth, unsettled), CoreGoes, unsettled \subseteq unsettled'
  PROVE  Fair(id, c, truth', unsettled')
BY DEF Fair, Agrees, CoreGoes

LEMMA KnownIsFair ==
  ASSUME ViewerInv, NEW id
  PROVE  Fair(id, CaptureOf(id), truth, unsettled)
<1>1. CASE id \in DOMAIN viewer
  BY <1>1 DEF ViewerInv, CaptureOf
<1>2. CASE id \notin DOMAIN viewer
  <2>1. CaptureOf(id) = laCapture
    BY <1>2 DEF CaptureOf
  <2>2. /\ laCapture.header = Null /\ laCapture.samples = <<>> /\ ~laCapture.complete
        /\ laCapture.complete \in BOOLEAN
        /\ DOMAIN laCapture = {"header", "samples", "chunks", "complete", "missingChunks"}
    BY DEF laCapture
  <2>3. <<>> \in Seq(Bit \union {Null}) /\ Len(<<>>) = 0
    OBVIOUS
  <2>4. Capture(laCapture)
    BY <2>2, <2>3 DEF Capture
  <2>5. Agrees(id, laCapture.samples, truth)
    BY <2>2, <2>3 DEF Agrees
  <2> QED BY <2>1, <2>2, <2>4, <2>5 DEF Fair
<1> QED BY <1>1, <1>2

(* A capture is replaced by a fair one.                                    *)
LEMMA KeepIsFair ==
  ASSUME ViewerInv, NEW id, NEW c, Fair(id, c, truth, unsettled), Keep(id, c),
         CoreGoes, unsettled \subseteq unsettled'
  PROVE  ViewerInv'
<1>1. \A i \in DOMAIN viewer' : Fair(i, viewer'[i], truth, unsettled)
  BY DEF Keep, ViewerInv
<1>2. \A i \in DOMAIN viewer' : Fair(i, viewer'[i], truth', unsettled')
  BY <1>1, FairStays
<1> QED BY <1>2 DEF ViewerInv

LEMMA HeaderIsFair ==
  ASSUME ViewerInv, MsgInv, msg.type = "header"
  PROVE  Fair(msg.capture_id,
              [CaptureOf(msg.capture_id) EXCEPT
                 !.header = msg.sample_count,
                 !.samples = [i \in 1 .. msg.sample_count |-> Null],
                 !.complete = FALSE],
              truth, unsettled)
<1> DEFINE id == msg.capture_id
           n == msg.sample_count
           s == [i \in 1 .. n |-> Null]
           old == CaptureOf(id)
           c == [old EXCEPT !.header = n, !.samples = s, !.complete = FALSE]
<1>1. /\ n \in Nat
      /\ id \notin unsettled => id \in DOMAIN truth /\ n = Len(truth[id])
  BY DEF MsgInv
<1>2. Capture(old)
  BY KnownIsFair DEF Fair
<1>3. s \in Seq(Bit \union {Null}) /\ Len(s) = n /\ \A i \in 1 .. n : s[i] = Null
  BY <1>1
<1> HIDE DEF s, n, old
<1>4. /\ DOMAIN c = {"header", "samples", "chunks", "complete", "missingChunks"}
      /\ c.header = n /\ c.samples = s /\ c.complete = FALSE
  BY <1>2 DEF Capture
<1> HIDE DEF c
<1>5. Capture(c)
  BY <1>1, <1>3, <1>4 DEF Capture
<1>6. Agrees(id, c.samples, truth)
  BY <1>3, <1>4 DEF Agrees
<1>7. Fair(id, c, truth, unsettled)
  BY <1>1, <1>3, <1>4, <1>5, <1>6 DEF Fair
<1> QED BY <1>7 DEF c, s, n, old

(* The samples of a message fill holes only.                               *)
LEMMA FilledIs ==
  ASSUME NEW s \in Seq(Bit \union {Null}), NEW f \in Nat, NEW d \in Seq(Bit)
  PROVE  LET r == Filled(s, f, d) IN
         /\ r \in Seq(Bit \union {Null}) /\ Len(s) <= Len(r)
         /\ \A i \in 1 .. Len(s) : s[i] # Null => r[i] = s[i]
         /\ \A i \in 1 .. Len(r) :
              \/ r[i] = Null
              \/ i <= Len(s) /\ r[i] = s[i]
              \/ i - f \in 1 .. Len(d) /\ r[i] = d[i - f]
<1> DEFINE a == Len(s)
           b == f + Len(d)
           n == IF a > b THEN a ELSE b
           old(i) == IF i <= a THEN s[i] ELSE Null
           e(i) == IF i \in f + 1 .. b /\ old(i) = Null THEN d[i - f] ELSE old(i)
           r == [i \in 1 .. n |-> e(i)]
<1>1. r = Filled(s, f, d)
  BY DEF Filled
<1>2. a \in Nat /\ Len(d) \in Nat /\ n \in Nat /\ a <= n /\ b \in Nat
  OBVIOUS
<1>3. \A i \in 1 .. n : i <= a => s[i] \in Bit \union {Null}
  BY <1>2
<1>4. \A i \in 1 .. n : i \in f + 1 .. b => i - f \in 1 .. Len(d) /\ d[i - f] \in Bit
  BY <1>2
<1> HIDE DEF a, b, n
<1>5. \A i \in 1 .. n : e(i) \in Bit \union {Null}
  BY <1>3, <1>4
<1>6. r \in Seq(Bit \union {Null}) /\ Len(r) = n /\ \A i \in 1 .. n : r[i] = e(i)
  BY <1>2, <1>5
<1>7. \A i \in 1 .. a : i \in 1 .. n
  BY <1>2
<1>8. \A i \in 1 .. a : s[i] # Null => r[i] = s[i]
  BY <1>2, <1>6, <1>7
<1>9. \A i \in 1 .. n : \/ r[i] = Null
                        \/ i <= a /\ r[i] = s[i]
                        \/ i - f \in 1 .. Len(d) /\ r[i] = d[i - f]
  BY <1>2, <1>4, <1>6
<1> HIDE DEF r
<1> QED BY <1>1, <1>2, <1>6, <1>8, <1>9 DEF a

LEMMA FilledAgrees ==
  ASSUME CoreTypes, MsgInv, msg.type = "data", NEW s \in Seq(Bit \union {Null}),
         Agrees(msg.capture_id, s, truth)
  PROVE  Agrees(msg.capture_id, Filled(s, msg.first_sample_index, msg.samples), truth)
<1> DEFINE id == msg.capture_id
           f == msg.first_sample_index
           d == msg.samples
           r == Filled(s, f, d)
<1>1. /\ d \in Seq(Bit) /\ f \in Nat /\ id \in DOMAIN truth
      /\ f + Len(d) <= Len(truth[id]) /\ truth[id] \in Seq(Bit)
      /\ \A i \in 1 .. Len(d) : d[i] = truth[id][f + i]
  BY DEF MsgInv, CoreTypes
<1> HIDE DEF f, d, id
<1>2. /\ r \in Seq(Bit \union {Null}) /\ Len(s) <= Len(r)
      /\ \A i \in 1 .. Len(r) : \/ r[i] = Null
                                \/ i <= Len(s) /\ r[i] = s[i]
                                \/ i - f \in 1 .. Len(d) /\ r[i] = d[i - f]
  BY <1>1, FilledIs
<1> HIDE DEF r
<1>3. ASSUME NEW i \in 1 .. Len(r), r[i] # Null
      PROVE  i <= Len(truth[id]) /\ r[i] = truth[id][i]
  <2>1. CASE i <= Len(s) /\ r[i] = s[i]
    <3>1. i \in 1 .. Len(s)
      BY <2>1
    <3> QED BY <1>3, <2>1, <3>1 DEF Agrees, id
  <2>2. CASE i - f \in 1 .. Len(d) /\ r[i] = d[i - f]
    <3>1. i \in Nat /\ Len(d) \in Nat /\ Len(truth[id]) \in Nat
      BY <1>1
    <3>2. f + (i - f) = i /\ i <= f + Len(d)
      BY <1>1, <2>2, <3>1
    <3>3. d[i - f] = truth[id][f + (i - f)]
      BY <1>1, <2>2
    <3> QED BY <1>1, <2>2, <3>1, <3>2, <3>3
  <2> QED BY <1>2, <1>3, <2>1, <2>2
<1>4. Agrees(id, r, truth)
  BY <1>1, <1>3 DEF Agrees
<1> QED BY <1>4 DEF r, f, d, id

LEMMA DataIsFair ==
  ASSUME CoreTypes, ViewerInv, MsgInv, msg.type = "data",
         NEW old, old = CaptureOf(msg.capture_id),
         NEW s, s = Filled(old.samples, msg.first_sample_index, msg.samples), NEW m, NEW h
  PROVE  Fair(msg.capture_id,
              [old EXCEPT !.samples = s, !.chunks = m, !.missingChunks = h,
                          !.complete = old.complete \/ complete(old.header, s)],
              truth, unsettled)
<1> DEFINE id == msg.capture_id
           c == [old EXCEPT !.samples = s, !.chunks = m, !.missingChunks = h,
                            !.complete = old.complete \/ complete(old.header, s)]
<1>1. Fair(id, old, truth, unsettled)
  BY KnownIsFair
<1>2. /\ DOMAIN old = {"header", "samples", "chunks", "complete", "missingChunks"}
      /\ old.header \in Nat \union {Null} /\ old.samples \in Seq(Bit \union {Null})
      /\ old.complete \in BOOLEAN /\ Agrees(id, old.samples, truth)
  BY <1>1 DEF Fair, Capture
<1>3. msg.samples \in Seq(Bit) /\ msg.first_sample_index \in Nat
  BY DEF MsgInv
<1>4. /\ s \in Seq(Bit \union {Null}) /\ Len(old.samples) <= Len(s)
      /\ \A i \in 1 .. Len(old.samples) : old.samples[i] # Null => s[i] = old.samples[i]
  <2> DEFINE q == old.samples
             f == msg.first_sample_index
             d == msg.samples
  <2>1. q \in Seq(Bit \union {Null}) /\ f \in Nat /\ d \in Seq(Bit) /\ s = Filled(q, f, d)
    BY <1>2, <1>3
  <2> HIDE DEF q, f, d
  <2> DEFINE r == Filled(q, f, d)
  <2>2. /\ r \in Seq(Bit \union {Null}) /\ Len(q) <= Len(r)
        /\ \A i \in 1 .. Len(q) : q[i] # Null => r[i] = q[i]
    BY <2>1, FilledIs
  <2> HIDE DEF r
  <2>3. r = s
    BY <2>1 DEF r
  <2> QED BY <2>2, <2>3 DEF q
<1>5. Agrees(id, s, truth)
  BY <1>2, FilledAgrees
<1>6. complete(old.header, s) \in BOOLEAN
  BY DEF complete
<1>7. /\ DOMAIN c = {"header", "samples", "chunks", "complete", "missingChunks"}
      /\ c.header = old.header /\ c.samples = s
      /\ c.complete = (old.complete \/ complete(old.header, s))
  BY <1>2
<1> HIDE DEF c
<1>8. c.complete \in BOOLEAN
  BY <1>2, <1>6, <1>7
<1>9. c.complete => old.complete \/ complete(old.header, s)
  BY <1>7
<1>10. Capture(c)
  BY <1>2, <1>4, <1>7, <1>8 DEF Capture
<1>11. c.header # Null => c.header <= Len(c.samples)
  <2> SUFFICES ASSUME old.header # Null PROVE old.header <= Len(s)
    BY <1>7
  <2>1. old.header \in Nat /\ old.header <= Len(old.samples)
    BY <1>1, <1>2 DEF Fair
  <2>2. Len(old.samples) \in Nat /\ Len(s) \in Nat
    BY <1>2, <1>4
  <2> QED BY <1>4, <2>1, <2>2
<1>12. ASSUME old.complete
       PROVE  old.header # Null /\ \A i \in 1 .. old.header : s[i] # Null
  <2>1. /\ old.header # Null /\ old.header <= Len(old.samples)
        /\ \A i \in 1 .. old.header : old.samples[i] # Null
    BY <1>1, <1>12 DEF Fair
  <2>2. \A i \in 1 .. old.header : i \in 1 .. Len(old.samples)
    BY <1>2, <2>1
  <2> QED BY <1>4, <2>1, <2>2
<1>13. complete(old.header, s) => old.header # Null /\ \A i \in 1 .. old.header : s[i] # Null
  BY DEF complete
<1>14. c.complete => c.header # Null /\ \A i \in 1 .. c.header : c.samples[i] # Null
  BY <1>7, <1>9, <1>12, <1>13
<1>15. c.header # Null /\ id \notin unsettled => id \in DOMAIN truth /\ c.header = Len(truth[id])
  BY <1>1, <1>7 DEF Fair
<1>16. Fair(id, c, truth, unsettled)
  BY <1>5, <1>7, <1>10, <1>11, <1>14, <1>15 DEF Fair
<1> QED BY <1>16 DEF c

LEMMA ViewerStays ==
  ASSUME CoreTypes, ViewerInv, MsgInv, CoreGoes, unsettled \subseteq unsettled',
         NEW ready, Deliver(ready), ready => msg # NoMessage
  PROVE  ViewerInv'
<1>1. CASE viewer' = viewer
  <2>1. \A id \in DOMAIN viewer : Fair(id, viewer[id], truth', unsettled')
    BY FairStays DEF ViewerInv
  <2> QED BY <1>1, <2>1 DEF ViewerInv
<1>2. CASE Receive(msg) /\ msg # NoMessage
  <2> DEFINE id == msg.capture_id
             old == CaptureOf(id)
  <2>1. CASE msg.type = "header"
    BY <1>2, <2>1, HeaderIsFair, KeepIsFair DEF Receive, decodeHeader
  <2>2. CASE msg.type = "data"
    <3> DEFINE s == Filled(old.samples, msg.first_sample_index, msg.samples)
               m == old.chunks \union {msg.chunk_index}
               h == old.missingChunks + Gap(old.chunks, msg.chunk_index)
               c == [old EXCEPT !.samples = s, !.chunks = m, !.missingChunks = h,
                                !.complete = old.complete \/ complete(old.header, s)]
    <3>1. Keep(id, old) \/ Keep(id, c)
      BY <1>2, <2>2 DEF Receive, decodeSampleData
    <3>2. Fair(id, old, truth, unsettled)
      BY KnownIsFair
    <3>3. Fair(id, c, truth, unsettled)
      BY <2>2, DataIsFair
    <3> HIDE DEF old, c
    <3> QED BY <3>1, <3>2, <3>3, KeepIsFair
  <2>3. CASE msg.type \in {"trigger", "status"}
    <3>1. Keep(id, old)
      BY <1>2, <2>3 DEF Receive
    <3> QED BY <3>1, KnownIsFair, KeepIsFair
  <2> QED BY <1>2, <2>1, <2>2, <2>3 DEF MsgInv
<1> QED BY <1>1, <1>2 DEF Deliver

(* Where every sample of the header is there and right, all of them are.   *)
LEMMA CompleteExact ==
  ASSUME CoreTypes, ViewerInv
  PROVE  CompleteIsExact
<1> SUFFICES ASSUME NEW id \in DOMAIN viewer \ unsettled, viewer[id].complete
             PROVE  SubSeq(viewer[id].samples, 1, viewer[id].header) = truth[id]
  BY DEF CompleteIsExact
<1> DEFINE s == viewer[id].samples
           n == viewer[id].header
           t == truth[id]
<1>1. Fair(id, viewer[id], truth, unsettled)
  BY DEF ViewerInv
<1>2. /\ n # Null /\ n \in Nat \union {Null} /\ s \in Seq(Bit \union {Null})
      /\ n <= Len(s) /\ id \in DOMAIN truth /\ n = Len(t)
      /\ \A i \in 1 .. n : s[i] # Null
      /\ \A i \in 1 .. Len(s) : s[i] # Null => s[i] = t[i]
  BY <1>1 DEF Fair, Capture, Agrees
<1>3. t \in Seq(Bit)
  BY <1>2 DEF CoreTypes
<1> HIDE DEF s, n, t
<1>4. n \in Nat /\ Len(s) \in Nat
  BY <1>2
<1>5. \A i \in 1 .. n : i \in 1 .. Len(s) /\ s[i] = t[i]
  BY <1>2, <1>4
<1>6. /\ 1 \in Int /\ n \in Int /\ (\A i \in 1 .. n : s[i] \in Bit \union {Null})
      /\ (n - 1) + 1 = n /\ (~(1 <= n) => n = 0) /\ \A i \in 1 .. n : (1 + i) - 1 = i
  BY <1>2, <1>4, <1>5
<1>7. /\ SubSeq(s, 1, n) \in Seq(Bit \union {Null})
      /\ Len(SubSeq(s, 1, n)) = IF 1 <= n THEN (n - 1) + 1 ELSE 0
      /\ \A i \in 1 .. (n - 1) + 1 : SubSeq(s, 1, n)[i] = s[(1 + i) - 1]
  BY <1>6, SubSeqProperties
<1>8. Len(SubSeq(s, 1, n)) = n /\ \A i \in 1 .. n : SubSeq(s, 1, n)[i] = t[i]
  BY <1>5, <1>6, <1>7
<1>9. SubSeq(s, 1, n) = t
  BY <1>2, <1>3, <1>7, <1>8, SeqEqual
<1> QED BY <1>9 DEF s, n, t

-----------------------------------------------------------------------------
(* The inductive invariant.                                                *)
LaInv == CoreTypes /\ CoreStays /\ AdapterInv /\ ReadInv /\ MsgInv /\ ViewerInv

LEMMA LaInit == Init => LaInv
<1> SUFFICES ASSUME Init PROVE LaInv
  OBVIOUS
<1>1. /\ config \in Config /\ core = CoreReset /\ buffer = [i \in Ptr |-> 0]
      /\ adapter = AdapterReset /\ msg = NoMessage /\ viewer = <<>> /\ taken = <<>>
      /\ truth = <<>>
  BY LaAssumption DEF Init, Ptr
<1>2. 0 \in Ptr /\ 0 \in Bit /\ 0 \in 0 .. SampleDepth /\ <<>> \in Seq(Bit) /\ Len(<<>>) = 0
      /\ SampleDepth \in Nat /\ SamplesPerChunk \in Nat
  BY LaAssumption DEF Ptr, Bit
<1>3. core \in Cores /\ core.state = "IDLE" /\ core.div_count = 0 /\ ~core.read_valid
  BY <1>1, <1>2 DEF CoreReset, Cores, CoreStates
<1>4. /\ adapter \in Adapters /\ adapter.state = "IDLE" /\ adapter.data_payload = <<>>
      /\ ~adapter.core_start_readout_pulse /\ ~adapter.core_readout_done_pulse
      /\ ~adapter.core_read_req
  BY <1>1, <1>2 DEF AdapterReset, Adapters, AdapterStates
<1>5. buffer \in [Ptr -> Bit]
  BY <1>1, <1>2
<1>6. DOMAIN truth = {} /\ DOMAIN viewer = {}
  BY <1>1
<1>7. CoreTypes
  BY <1>1, <1>2, <1>3, <1>4, <1>5, <1>6 DEF CoreTypes
<1>8. CoreStays
  <2>1. config.sample_divisor \in Nat \ {0}
    BY <1>1 DEF Config
  <2>2. CoreInv
    BY <1>3, <2>1 DEF CoreInv, active_capture
  <2> QED BY <1>3, <1>6, <2>2
          DEF CoreStays, TriggerInv, KeptInv, CaptureIsWindow, active_capture, Kept
<1>9. AdapterInv
  BY <1>2, <1>3, <1>4 DEF AdapterInv
<1>10. ReadInv
  BY <1>3, <1>4 DEF ReadInv
<1>11. MsgInv
  BY <1>1 DEF MsgInv, NoMessage
<1>12. ViewerInv
  BY <1>6 DEF ViewerInv
<1> QED BY <1>7, <1>8, <1>9, <1>10, <1>11, <1>12 DEF LaInv

LEMMA EdgeKeeps ==
  ASSUME LaInv, NEW ready \in BOOLEAN, Edge(ready), ready => msg # NoMessage
  PROVE  LaInv'
<1>1. CoreTypes /\ CoreStays /\ AdapterInv /\ ReadInv /\ MsgInv /\ ViewerInv
  BY DEF LaInv
<1>2. PICK sample \in Bit : CoreEdge(sample)
  BY DEF Edge, BusValues, Bit
<1>3. AdapterEdge(ready) /\ HeaderNoted /\ RegBank /\ Deliver(ready)
  BY DEF Edge, HeaderNoted
<1>4. config' \in Config /\ ConfigSteady
  BY <1>1, <1>3, RegistersStay
<1>5. Moved /\ CoreStays' /\ CoreGoes
  BY <1>1, <1>2, <1>4, CoreSteps
<1>6. AdapterGoes
  BY <1>1, <1>3, AdapterSteps
<1>7. CoreTypes'
  BY <1>1, <1>4, <1>5, <1>6, TypesStay
<1>8. AdapterInv'
  BY <1>1, <1>5, <1>6, AdapterStays
<1>9. ReadInv'
  BY <1>1, <1>5, <1>6, <1>7, ReadStays
<1>10. MsgInv' /\ unsettled \subseteq unsettled'
  BY <1>1, <1>3, <1>5, <1>6, MessageStays
<1>11. ViewerInv'
  BY <1>1, <1>3, <1>5, <1>10, ViewerStays
<1> QED BY <1>5, <1>7, <1>8, <1>9, <1>10, <1>11 DEF LaInv

LEMMA LaSteps == LaInv /\ [Next]_vars => LaInv'
<1> SUFFICES ASSUME LaInv, [Next]_vars PROVE LaInv'
  OBVIOUS
<1>1. CASE MessageTaken
  BY <1>1, EdgeKeeps DEF MessageTaken
<1>2. CASE NoMessageTaken
  BY <1>2, EdgeKeeps DEF NoMessageTaken
<1>3. CASE UNCHANGED vars
  <2>1. UNCHANGED <<config, core, buffer, adapter, msg, viewer, taken, truth, cause, before,
                    unsettled>>
    BY <1>3 DEF vars, fpga
  <2>2. CoreTypes' /\ AdapterInv' /\ ReadInv' /\ MsgInv' /\ ViewerInv'
    BY <2>1
    DEF LaInv, CoreTypes, AdapterInv, ReadInv, MsgInv, ViewerInv, At, Asked, Answered, Kept,
        Fits, Prefix
  <2>3. CoreStays'
    BY <2>1
    DEF LaInv, CoreStays, CoreInv, TriggerInv, KeptInv, CaptureIsWindow, TriggerInWindow,
        Captured, active_capture, Sought, Kept
  <2> QED BY <2>2, <2>3 DEF LaInv
<1> QED BY <1>1, <1>2, <1>3 DEF Next

LEMMA LaAlways == Spec => []LaInv
BY LaInit, LaSteps, PTL DEF Spec

(* The counters and pointers of the core and the samples of the adapter    *)
(* stay within their ranges, and a core that is being read out has an      *)
(* adapter that will tell it the end.                                      *)
THEOREM TypeCorrect == Spec => []TypeOK
<1>1. LaInv => TypeOK
  <2> SUFFICES ASSUME LaInv PROVE TypeOK
    OBVIOUS
  <2>1. CoreTypes /\ CoreInv /\ AdapterInv
    BY DEF LaInv, CoreStays
  <2>2. core \in Cores /\ config \in Config /\ buffer \in [Ptr -> Bit]
    BY <2>1 DEF CoreTypes
  <2>3. core.div_count \in 0 .. config.sample_divisor - 1
    <3>1. core.div_count \in Nat /\ config.sample_divisor \in Nat
          /\ core.div_count < config.sample_divisor
      BY <2>1, <2>2 DEF Cores, Config, CoreInv
    <3> QED BY <3>1
  <2>4. Len(adapter.data_payload) <= SamplesPerChunk
        /\ (core.state = "READOUT" =>
              adapter.state # "IDLE" \/ adapter.core_readout_done_pulse)
    BY <2>1 DEF AdapterInv
  <2>5. /\ core.samples_written \in 0 .. SampleDepth /\ core.trigger_index \in Ptr
        /\ core.post_remaining \in 0 .. SampleDepth
        /\ core.write_ptr \in Ptr /\ core.read_start_ptr \in Ptr
    BY <2>2 DEF Cores
  <2> QED BY <2>2, <2>3, <2>4, <2>5 DEF TypeOK, Ptr
<1> QED BY <1>1, LaAlways, PTL

(* What the read port shows of a finished capture is the last of what was  *)
(* on the bus, in order, and the trigger points at the sample it hit.      *)
THEOREM CapturesAreWindows == Spec => []CaptureIsWindow
<1>1. LaInv => CaptureIsWindow
  BY DEF LaInv, CoreStays, KeptInv
<1> QED BY <1>1, LaAlways, PTL

(* Every data message carries samples of the capture it names, at the      *)
(* place it names, whatever was armed or cleared during the readout.       *)
THEOREM ReadoutsAreExact == Spec => []ReadoutExact
<1>1. LaInv => ReadoutExact
  BY MessageExact DEF LaInv
<1> QED BY <1>1, LaAlways, PTL

(* A capture the viewer shows as complete is the one the FPGA finished,    *)
(* with any number of messages lost and captures read out again.           *)
THEOREM CompleteCapturesAreExact == Spec => []CompleteIsExact
<1>1. LaInv => CompleteIsExact
  BY CompleteExact DEF LaInv
<1> QED BY <1>1, LaAlways, PTL
=============================================================================
