----------------------------- MODULE JtagRing -----------------------------
(***************************************************************************)
(* The JTAG transport's byte ring: an asynchronous FIFO between the debug  *)
(* clock (writer) and TCK (reader), rtl/yifpga_debug/                      *)
(* yifpga_jtag_ring_buffer.sv.                                             *)
(*                                                                         *)
(* Each side sees the other's pointer through a two-stage synchronizer of  *)
(* Gray-coded registers.  The reader has two pointers: rd_work_bin runs    *)
(* ahead speculatively, rd_bin follows on a commit and is the one the      *)
(* writer sees.  The two clocks are unrelated: a step is an edge of        *)
(* either, or of both at once, and then each synchronizer's first stage    *)
(* captures, bit by bit, the old or the new Gray code.                     *)
(*                                                                         *)
(* A Gray register is represented by the pointer its code stands for.  A   *)
(* byte is represented by its number: the value of write_count when it     *)
(* was accepted.                                                           *)
(***************************************************************************)
EXTENDS Integers, Sequences

CONSTANTS
  Depth,          \* bytes of memory, 1 << ADDR_WIDTH
  PtrWidth,       \* bits of a pointer, ADDR_WIDTH + 1
  Gray,           \* the table of bin_to_gray: pointer -> function of bits
  CountMod,       \* the u32 counters wrap here (2^32)
  MaxDrop,        \* the drop counters saturate here (2^32 - 1)
  WaitAfterAbort  \* the reader leaves the cycle after an abort idle

Ptr == 0 .. 2 * Depth - 1
Bit == 0 .. PtrWidth - 1
Code == [Bit -> {0, 1}]

(* wr_bin_next, and every other pointer increment *)
Advance(p) == IF p = 2 * Depth - 1 THEN 0 ELSE p + 1

(* Pointer subtraction in PTR_WIDTH bits: how far older must advance to    *)
(* reach newer.                                                            *)
Dist(newer, older) ==
  IF newer >= older THEN newer - older ELSE newer - older + 2 * Depth

(* Pointer addition in PTR_WIDTH bits, for n below 2 * Depth. *)
Ahead(p, n) == IF p + n >= 2 * Depth THEN p + n - 2 * Depth ELSE p + n

(* The memory address: the pointer without its lap bit. *)
Slot(p) == IF p >= Depth THEN p - Depth ELSE p

HalfTurn(p) == IF p >= Depth THEN p - Depth ELSE p + Depth

CountPlus(c, n) == IF c + n >= CountMod THEN c + n - CountMod ELSE c + n

(* {~code[top two bits], code[the others]} *)
TopTwoInverted(code) ==
  [i \in Bit |-> IF i >= PtrWidth - 2 THEN 1 - code[i] ELSE code[i]]

ASSUME RingAssumption ==
  /\ Depth \in Nat \ {0}
  /\ PtrWidth \in Nat \ {0, 1}
  /\ CountMod \in Nat
  /\ CountMod > 2 * Depth
  /\ MaxDrop \in Nat
  /\ WaitAfterAbort \in BOOLEAN

(* What the ring relies on of the Gray code: codes identify pointers,      *)
(* neighbours differ in one bit, and half a turn inverts the top two bits. *)
ASSUME GrayAssumption ==
  /\ Gray \in [Ptr -> Code]
  /\ \A p, q \in Ptr : Gray[p] = Gray[q] => p = q
  /\ \A p \in Ptr : \E i \in Bit :
       \A j \in Bit \ {i} : Gray[p][j] = Gray[Advance(p)][j]
  /\ \A p \in Ptr : Gray[HalfTurn(p)] = TopTwoInverted(Gray[p])

(* What a register may capture when its input changes from old to new at   *)
(* the capturing edge: every bit settles on its own.                       *)
Sampled(old, new) ==
  {p \in Ptr : \A i \in Bit : Gray[p][i] \in {Gray[old][i], Gray[new][i]}}

(* Not the number of any byte: an uninitialized or colliding memory read. *)
Garbage == CountMod
ByteValue == 0 .. CountMod

VARIABLES
  \* debug clock domain
  mem, wr_bin, write_count,
  rd_gray_wr1, rd_gray_wr2,   \* synchronizer of the committed read pointer
  dropped,                    \* overflow_count and dropped_bytes: always equal
  dropped_gray,               \* its registered Gray copy
  \* TCK domain
  rd_bin, rd_work_bin, read_count, rd_data,
  wr_gray_rd1, wr_gray_rd2,   \* synchronizer of the write pointer
  dropped_rd1, dropped_rd2,   \* synchronizer of the drop counter
  aborted,                    \* history: the last TCK edge was an abort
  \* history variables, for the properties and the proofs only
  block,                      \* the bytes read since the last commit or abort
  seen1, seen2                \* rd_bin before and after the edge at which
                              \* rd_gray_wr1, rd_gray_wr2 were captured

writeSide == <<mem, wr_bin, write_count, rd_gray_wr1, rd_gray_wr2, dropped,
               dropped_gray, seen1, seen2>>
readSide == <<rd_bin, rd_work_bin, read_count, rd_data, wr_gray_rd1,
              wr_gray_rd2, dropped_rd1, dropped_rd2, aborted, block>>
vars == <<writeSide, readSide>>

-----------------------------------------------------------------------------
(* Mutants of full: compared one place late, as if all Depth slots could   *)
(* be used; and with only the top bit inverted.                            *)
FullOneLate == Gray[wr_bin] = TopTwoInverted(Gray[rd_gray_wr2])

FullTopBitOnly ==
  Gray[Advance(wr_bin)] =
    [Gray[rd_gray_wr2] EXCEPT ![PtrWidth - 1] = 1 - Gray[rd_gray_wr2][PtrWidth - 1]]

full == Gray[Advance(wr_bin)] = TopTwoInverted(Gray[rd_gray_wr2])

rd_valid == rd_work_bin # wr_gray_rd2

available_bytes == Dist(wr_gray_rd2, rd_bin)

(* Neither the memory nor rd_data has a reset. *)
Init ==
  /\ wr_bin = 0
  /\ write_count = 0
  /\ rd_gray_wr1 = 0
  /\ rd_gray_wr2 = 0
  /\ dropped = 0
  /\ dropped_gray = 0
  /\ rd_bin = 0
  /\ rd_work_bin = 0
  /\ read_count = 0
  /\ wr_gray_rd1 = 0
  /\ wr_gray_rd2 = 0
  /\ dropped_rd1 = 0
  /\ dropped_rd2 = 0
  /\ aborted = FALSE
  /\ block = <<>>
  /\ seen1 = [old |-> 0, new |-> 0]
  /\ seen2 = [old |-> 0, new |-> 0]
  /\ mem = [s \in 0 .. Depth - 1 |-> Garbage]
  /\ rd_data = Garbage

(***************************************************************************)
(* An edge of the debug clock.                                             *)
(***************************************************************************)
Accept ==
  /\ ~full
  /\ mem' = [mem EXCEPT ![Slot(wr_bin)] = write_count]
  /\ wr_bin' = Advance(wr_bin)
  /\ write_count' = CountPlus(write_count, 1)
  /\ UNCHANGED dropped

(* Mutants of Drop: the counter does not saturate; the counter wraps.      *)
DropUnbounded ==
  /\ full
  /\ dropped' = dropped + 1
  /\ UNCHANGED <<mem, wr_bin, write_count>>

DropWraps ==
  /\ full
  /\ dropped' = IF dropped = MaxDrop THEN 0 ELSE dropped + 1
  /\ UNCHANGED <<mem, wr_bin, write_count>>

Drop ==
  /\ full
  /\ dropped' = IF dropped = MaxDrop THEN dropped ELSE dropped + 1
  /\ UNCHANGED <<mem, wr_bin, write_count>>

NoWrite == UNCHANGED <<mem, wr_bin, write_count, dropped>>

WriteDomain ==
  /\ Accept \/ Drop \/ NoWrite
  /\ rd_gray_wr2' = rd_gray_wr1
  /\ dropped_gray' = dropped
  /\ seen2' = seen1

CaptureReadPointer ==
  /\ rd_gray_wr1' \in Sampled(rd_bin, rd_bin')
  /\ seen1' = [old |-> rd_bin, new |-> rd_bin']

(***************************************************************************)
(* An edge of TCK.  rd_data is registered: it is fetched one cycle ahead.  *)
(* A fetch from the slot that is being written may return anything.        *)
(***************************************************************************)
Fetch(p) ==
  LET s == Slot(p) IN
  rd_data' \in IF mem'[s] = mem[s] THEN {mem[s]} ELSE {mem[s], mem'[s], Garbage}

(* Mutant of ReadByte: the next byte is fetched one cycle too late.        *)
ReadByteNoPrefetch ==
  /\ rd_valid
  /\ WaitAfterAbort => ~aborted
  /\ rd_work_bin' = Advance(rd_work_bin)
  /\ block' = Append(block, rd_data)
  /\ Fetch(rd_work_bin)
  /\ aborted' = FALSE
  /\ UNCHANGED <<rd_bin, read_count>>

ReadByte ==
  /\ rd_valid
  /\ WaitAfterAbort => ~aborted
  /\ rd_work_bin' = Advance(rd_work_bin)
  /\ block' = Append(block, rd_data)
  /\ Fetch(Advance(rd_work_bin))
  /\ aborted' = FALSE
  /\ UNCHANGED <<rd_bin, read_count>>

(* Mutant of Commit: the sum is truncated to the width of a pointer, the   *)
(* synthesis hazard the code's comment names.                              *)
CommitTruncated ==
  /\ rd_bin' = rd_work_bin
  /\ read_count' = (read_count + Dist(rd_work_bin, rd_bin)) % (2 * Depth)
  /\ block' = <<>>
  /\ Fetch(rd_work_bin)
  /\ aborted' = FALSE
  /\ UNCHANGED rd_work_bin

Commit ==
  /\ rd_bin' = rd_work_bin
  /\ read_count' = CountPlus(read_count, Dist(rd_work_bin, rd_bin))
  /\ block' = <<>>
  /\ Fetch(rd_work_bin)
  /\ aborted' = FALSE
  /\ UNCHANGED rd_work_bin

(* Mutant of Abort: the speculative pointer is not rolled back.            *)
AbortKeepsPointer ==
  /\ block' = <<>>
  /\ Fetch(rd_work_bin)
  /\ aborted' = TRUE
  /\ UNCHANGED <<rd_bin, rd_work_bin, read_count>>

Abort ==
  /\ rd_work_bin' = rd_bin
  /\ block' = <<>>
  /\ Fetch(rd_work_bin)
  /\ aborted' = TRUE
  /\ UNCHANGED <<rd_bin, read_count>>

NoRead ==
  /\ Fetch(rd_work_bin)
  /\ aborted' = FALSE
  /\ UNCHANGED <<rd_bin, rd_work_bin, read_count, block>>

ReadDomain ==
  /\ ReadByte \/ Commit \/ Abort \/ NoRead
  /\ wr_gray_rd2' = wr_gray_rd1
  /\ dropped_rd2' = dropped_rd1

CaptureWritePointer ==
  /\ wr_gray_rd1' \in Sampled(wr_bin, wr_bin')
  /\ dropped_rd1' \in {dropped_gray, dropped_gray'}

-----------------------------------------------------------------------------
WriteEdge == WriteDomain /\ UNCHANGED readSide /\ CaptureReadPointer

ReadEdge == UNCHANGED writeSide /\ ReadDomain /\ CaptureWritePointer

BothEdges ==
  WriteDomain /\ ReadDomain /\ CaptureReadPointer /\ CaptureWritePointer

(* debug_rst_n resets both sides at once. *)
Reset ==
  /\ wr_bin' = 0
  /\ write_count' = 0
  /\ rd_gray_wr1' = 0
  /\ rd_gray_wr2' = 0
  /\ dropped' = 0
  /\ dropped_gray' = 0
  /\ rd_bin' = 0
  /\ rd_work_bin' = 0
  /\ read_count' = 0
  /\ wr_gray_rd1' = 0
  /\ wr_gray_rd2' = 0
  /\ dropped_rd1' = 0
  /\ dropped_rd2' = 0
  /\ aborted' = FALSE
  /\ block' = <<>>
  /\ seen1' = [old |-> 0, new |-> 0]
  /\ seen2' = [old |-> 0, new |-> 0]
  /\ UNCHANGED <<mem, rd_data>>

Next == WriteEdge \/ ReadEdge \/ BothEdges \/ Reset

Spec == Init /\ [][Next]_vars

-----------------------------------------------------------------------------
TypeOK ==
  /\ mem \in [0 .. Depth - 1 -> ByteValue]
  /\ {wr_bin, rd_gray_wr1, rd_gray_wr2} \subseteq Ptr
  /\ {rd_bin, rd_work_bin, wr_gray_rd1, wr_gray_rd2} \subseteq Ptr
  /\ {write_count, read_count} \subseteq 0 .. CountMod - 1
  /\ {dropped, dropped_gray, dropped_rd1, dropped_rd2} \subseteq 0 .. MaxDrop
  /\ rd_data \in ByteValue
  /\ aborted \in BOOLEAN
  /\ block \in Seq(ByteValue)
  /\ {seen1, seen2} \subseteq [old : Ptr, new : Ptr]

(***************************************************************************)
(* Neither side ever overtakes the other, though each sees the other late: *)
(* counted from the oldest read pointer still in the writer's synchronizer *)
(* the pointers stand in this order, and all within one lap.  It holds     *)
(* although a commit moves rd_bin by many places at once, so that the      *)
(* writer's synchronizer may capture a pointer that never existed.         *)
(***************************************************************************)
PointersInOrder ==
  LET d(p) == Dist(p, seen2.old) IN
  /\ d(seen2.new) <= d(seen1.old)
  /\ d(seen1.old) <= d(seen1.new)
  /\ d(seen1.new) <= d(rd_bin)
  /\ d(rd_bin) <= d(rd_work_bin)
  /\ d(rd_work_bin) <= d(wr_gray_rd2)
  /\ d(wr_gray_rd2) <= d(wr_gray_rd1)
  /\ d(wr_gray_rd1) <= d(wr_bin)
  /\ d(wr_bin) <= Depth - 1

(* The header's two counters differ by exactly the bytes in the ring, also *)
(* when they have wrapped.                                                 *)
CountersAgree == write_count = CountPlus(read_count, Dist(wr_bin, rd_bin))

(* Drop-newest: every accepted byte that has not been committed is still   *)
(* in memory, so an aborted transaction can always be read again.          *)
UncommittedKept ==
  \A n \in 0 .. Depth - 1 : n < Dist(wr_bin, rd_bin) =>
    mem[Slot(Ahead(rd_bin, n))] = CountPlus(read_count, n)

(* Whenever the ring offers a byte, the prefetched rd_data is the next     *)
(* byte of the stream: the prefetch never misses a write that the          *)
(* synchronizer has already reported.  In the cycle after an abort rd_data *)
(* is still the byte of the abandoned transaction.                         *)
NextByteReady ==
  rd_valid /\ ~aborted =>
    rd_data = CountPlus(read_count, Dist(rd_work_bin, rd_bin))

(* What the host reads of the drop counter is never more than was dropped, *)
(* and never goes back but by a reset.                                     *)
DropsReportedInOrder ==
  [][/\ dropped_rd2' <= dropped
     /\ dropped_rd2' < dropped_rd2 => dropped' = 0]_vars

(* The ring keeps the promises of the mailbox.                             *)
Promise == INSTANCE Mailbox WITH
  BufferSize <- Depth,
  unread <- [n \in 1 .. Dist(wr_bin, rd_bin) |-> mem[Slot(Ahead(rd_bin, n - 1))]],
  visible <- available_bytes

ImplementsMailbox == Promise!Spec
=============================================================================
