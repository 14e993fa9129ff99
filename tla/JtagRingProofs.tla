-------------------------- MODULE JtagRingProofs --------------------------
(***************************************************************************)
(* Proofs about the JTAG byte ring, for every memory depth, counter width  *)
(* and Gray code that meets the assumptions of module JtagRing.            *)
(***************************************************************************)
EXTENDS JtagRing, SequenceTheorems, TLAPS

(***************************************************************************)
(* Pointer arithmetic.                                                     *)
(***************************************************************************)
LEMMA PtrArithmetic ==
  ASSUME NEW p \in Ptr, NEW q \in Ptr
  PROVE  /\ Advance(p) \in Ptr
         /\ HalfTurn(p) \in Ptr
         /\ Slot(p) \in 0 .. Depth - 1
         /\ Dist(p, q) \in 0 .. 2 * Depth - 1
         /\ Dist(p, p) = 0
         /\ Dist(p, q) = 0 => p = q
         /\ Dist(p, q) < 2 * Depth - 1 => Dist(Advance(p), q) = Dist(p, q) + 1
         /\ p = HalfTurn(q) <=> Dist(p, q) = Depth
         /\ 0 < Dist(p, q) /\ Dist(p, q) < Depth => Slot(p) # Slot(q)
BY RingAssumption DEF Ptr, Advance, HalfTurn, Slot, Dist

(* Measuring from a later pointer a instead of b.                          *)
LEMMA Rebase ==
  ASSUME NEW p \in Ptr, NEW a \in Ptr, NEW b \in Ptr,
         Dist(a, b) <= Dist(p, b)
  PROVE  Dist(p, a) = Dist(p, b) - Dist(a, b)
BY RingAssumption DEF Ptr, Dist

LEMMA DistNatural ==
  ASSUME NEW p \in Ptr, NEW q \in Ptr
  PROVE  /\ Dist(p, q) \in Nat
         /\ p # q => Dist(p, q) >= 1
BY RingAssumption DEF Ptr, Dist

LEMMA DistInjective ==
  ASSUME NEW p \in Ptr, NEW q \in Ptr, NEW b \in Ptr, Dist(p, b) = Dist(q, b)
  PROVE  p = q
BY RingAssumption DEF Ptr, Dist

(* Ahead is the inverse of Dist, and steps add up.                         *)
LEMMA AheadArithmetic ==
  ASSUME NEW p \in Ptr, NEW m \in 0 .. 2 * Depth - 1, NEW n \in Nat,
         m + n < 2 * Depth
  PROVE  /\ Ahead(p, m) \in Ptr
         /\ Dist(Ahead(p, m), p) = m
         /\ Ahead(Ahead(p, m), n) = Ahead(p, m + n)
         /\ \A q \in Ptr : Ahead(p, Dist(q, p)) = q
BY RingAssumption DEF Ptr, Dist, Ahead

(***************************************************************************)
(* Gray-code registers.                                                    *)
(***************************************************************************)

(* A register whose input does not change captures it.                     *)
LEMMA SampledSteady ==
  ASSUME NEW p \in Ptr
  PROVE  Sampled(p, p) = {p}
<1>1. ASSUME NEW x \in Sampled(p, p) PROVE x = p
  <2>1. x \in Ptr /\ \A i \in Bit : Gray[x][i] = Gray[p][i]
    BY <1>1 DEF Sampled
  <2>2. Gray[x] = Gray[p]
    BY <2>1, GrayAssumption DEF Code
  <2> QED BY <2>1, <2>2, GrayAssumption
<1>2. p \in Sampled(p, p)
  BY DEF Sampled
<1> QED BY <1>1, <1>2

(* A register whose input advances by one captures the old or the new      *)
(* pointer, never a third: neighbouring codes differ in one bit.           *)
LEMMA SampledAdvance ==
  ASSUME NEW p \in Ptr, NEW x \in Sampled(p, Advance(p))
  PROVE  x \in {p, Advance(p)}
<1> DEFINE q == Advance(p)
<1>1. q \in Ptr /\ x \in Ptr
  BY PtrArithmetic DEF Sampled
<1>2. PICK i \in Bit : \A j \in Bit \ {i} : Gray[p][j] = Gray[q][j]
  BY GrayAssumption
<1>3. \A j \in Bit : Gray[x][j] \in {Gray[p][j], Gray[q][j]}
  BY DEF Sampled
<1>4. Gray[x] \in Code /\ Gray[p] \in Code /\ Gray[q] \in Code
  BY <1>1, GrayAssumption
<1>5. CASE Gray[x][i] = Gray[p][i]
  <2>1. \A j \in Bit : Gray[x][j] = Gray[p][j]
    BY <1>2, <1>3, <1>5
  <2>2. Gray[x] = Gray[p]
    BY <2>1, <1>4 DEF Code
  <2> QED BY <2>2, <1>1, GrayAssumption
<1>6. CASE Gray[x][i] = Gray[q][i]
  <2>1. \A j \in Bit : Gray[x][j] = Gray[q][j]
    BY <1>2, <1>3, <1>6
  <2>2. Gray[x] = Gray[q]
    BY <2>1, <1>4 DEF Code
  <2> QED BY <2>2, <1>1, GrayAssumption
<1> QED BY <1>3, <1>5, <1>6

(* The comparison of Gray codes in full: the writer's next pointer is half *)
(* a turn from the read pointer it sees.                                   *)
LEMMA FullMeansHalfTurn ==
  ASSUME wr_bin \in Ptr, rd_gray_wr2 \in Ptr
  PROVE  full <=> Advance(wr_bin) = HalfTurn(rd_gray_wr2)
BY PtrArithmetic, GrayAssumption DEF full

(***************************************************************************)
(* Type correctness, one side of the ring at a time.                       *)
(***************************************************************************)
CounterType == 0 .. CountMod - 1

WriteTypeOK ==
  /\ mem \in [0 .. Depth - 1 -> ByteValue]
  /\ wr_bin \in Ptr
  /\ write_count \in CounterType
  /\ rd_gray_wr1 \in Ptr
  /\ rd_gray_wr2 \in Ptr
  /\ dropped \in 0 .. MaxDrop
  /\ dropped_gray \in 0 .. MaxDrop
  /\ seen1 \in [old : Ptr, new : Ptr]
  /\ seen2 \in [old : Ptr, new : Ptr]

ReadTypeOK ==
  /\ rd_bin \in Ptr
  /\ rd_work_bin \in Ptr
  /\ read_count \in CounterType
  /\ rd_data \in ByteValue
  /\ wr_gray_rd1 \in Ptr
  /\ wr_gray_rd2 \in Ptr
  /\ dropped_rd1 \in 0 .. MaxDrop
  /\ dropped_rd2 \in 0 .. MaxDrop
  /\ aborted \in BOOLEAN
  /\ block \in Seq(ByteValue)

LEMMA TypeSplit == TypeOK <=> WriteTypeOK /\ ReadTypeOK
BY DEF TypeOK, WriteTypeOK, ReadTypeOK, CounterType

LEMMA CountPlusType ==
  ASSUME NEW c \in CounterType, NEW n \in 0 .. 2 * Depth
  PROVE  CountPlus(c, n) \in CounterType
BY RingAssumption DEF CounterType, CountPlus

LEMMA ZeroTypes ==
  /\ 0 \in Ptr
  /\ 0 \in CounterType
  /\ 0 \in 0 .. MaxDrop
  /\ [old |-> 0, new |-> 0] \in [old : Ptr, new : Ptr]
  /\ <<>> \in Seq(ByteValue)
BY RingAssumption, EmptySeq DEF Ptr, CounterType

LEMMA WriteDomainType ==
  ASSUME WriteTypeOK, rd_bin \in Ptr, rd_bin' \in Ptr,
         WriteDomain, CaptureReadPointer
  PROVE  WriteTypeOK'
<1>1. rd_gray_wr1' \in Ptr /\ rd_gray_wr2' \in Ptr
  BY DEF WriteTypeOK, WriteDomain, CaptureReadPointer, Sampled
<1>2. seen1' \in [old : Ptr, new : Ptr] /\ seen2' \in [old : Ptr, new : Ptr]
  BY DEF WriteTypeOK, WriteDomain, CaptureReadPointer
<1>3. dropped_gray' \in 0 .. MaxDrop
  BY DEF WriteTypeOK, WriteDomain
<1>4. CASE Accept
  <2>1. wr_bin' \in Ptr
    BY <1>4, PtrArithmetic DEF WriteTypeOK, Accept
  <2>2. write_count' \in CounterType
    BY <1>4, CountPlusType, RingAssumption DEF WriteTypeOK, Accept
  <2>3. mem' \in [0 .. Depth - 1 -> ByteValue]
    <3>1. write_count \in ByteValue
      BY RingAssumption DEF WriteTypeOK, CounterType, ByteValue
    <3> QED BY <1>4, <3>1 DEF WriteTypeOK, Accept
  <2> QED BY <1>1, <1>2, <1>3, <1>4, <2>1, <2>2, <2>3 DEF WriteTypeOK, Accept
<1>5. CASE Drop
  BY <1>1, <1>2, <1>3, <1>5, RingAssumption DEF WriteTypeOK, Drop
<1>6. CASE NoWrite
  BY <1>1, <1>2, <1>3, <1>6 DEF WriteTypeOK, NoWrite
<1> QED BY <1>4, <1>5, <1>6 DEF WriteDomain

LEMMA FetchType ==
  ASSUME WriteTypeOK, WriteTypeOK', NEW p \in Ptr, Fetch(p)
  PROVE  rd_data' \in ByteValue
<1>1. Slot(p) \in 0 .. Depth - 1
  BY PtrArithmetic
<1>2. mem[Slot(p)] \in ByteValue /\ mem'[Slot(p)] \in ByteValue
  BY <1>1 DEF WriteTypeOK
<1>3. Garbage \in ByteValue
  BY RingAssumption DEF Garbage, ByteValue
<1> QED BY <1>2, <1>3 DEF Fetch

LEMMA ReadDomainType ==
  ASSUME ReadTypeOK, WriteTypeOK, WriteTypeOK', ReadDomain, CaptureWritePointer
  PROVE  ReadTypeOK'
<1>1. /\ wr_gray_rd1' \in Ptr
      /\ wr_gray_rd2' \in Ptr
      /\ dropped_rd1' \in 0 .. MaxDrop
      /\ dropped_rd2' \in 0 .. MaxDrop
  BY DEF ReadTypeOK, WriteTypeOK, ReadDomain, CaptureWritePointer, Sampled
<1>2. Advance(rd_work_bin) \in Ptr /\ Dist(rd_work_bin, rd_bin) \in 0 .. 2 * Depth
  BY PtrArithmetic, RingAssumption DEF ReadTypeOK
<1>3. rd_data' \in ByteValue
  BY <1>2, FetchType DEF ReadTypeOK, ReadDomain, ReadByte, Commit, Abort, NoRead
<1>4. read_count' \in CounterType
  BY <1>2, CountPlusType
  DEF ReadTypeOK, ReadDomain, ReadByte, Commit, Abort, NoRead
<1>5. block' \in Seq(ByteValue)
  <2>1. Append(block, rd_data) \in Seq(ByteValue)
    BY AppendProperties DEF ReadTypeOK
  <2> QED
    BY <2>1, ZeroTypes DEF ReadTypeOK, ReadDomain, ReadByte, Commit, Abort, NoRead
<1> QED
  BY <1>1, <1>2, <1>3, <1>4, <1>5
  DEF ReadTypeOK, ReadDomain, ReadByte, Commit, Abort, NoRead

LEMMA TypeStep == TypeOK /\ [Next]_vars => TypeOK'
<1> SUFFICES ASSUME TypeOK, [Next]_vars PROVE WriteTypeOK' /\ ReadTypeOK'
  BY TypeSplit DEF TypeOK, WriteTypeOK, ReadTypeOK, CounterType
<1>0. WriteTypeOK /\ ReadTypeOK
  BY TypeSplit
<1>1. CASE WriteEdge
  <2>1. ReadTypeOK' /\ rd_bin' \in Ptr
    BY <1>0, <1>1 DEF WriteEdge, readSide, ReadTypeOK
  <2> QED BY <1>0, <1>1, <2>1, WriteDomainType DEF WriteEdge, ReadTypeOK
<1>2. CASE ReadEdge
  <2>1. WriteTypeOK'
    BY <1>0, <1>2 DEF ReadEdge, writeSide, WriteTypeOK
  <2> QED BY <1>0, <1>2, <2>1, ReadDomainType DEF ReadEdge
<1>3. CASE BothEdges
  <2>1. rd_bin' \in Ptr
    BY <1>0, <1>3 DEF BothEdges, ReadDomain, ReadByte, Commit, Abort, NoRead, ReadTypeOK
  <2>2. WriteTypeOK'
    BY <1>0, <1>3, <2>1, WriteDomainType DEF BothEdges, ReadTypeOK
  <2> QED BY <1>0, <1>3, <2>2, ReadDomainType DEF BothEdges
<1>4. CASE Reset
  <2>1. WriteTypeOK'
    BY <1>0, <1>4, ZeroTypes DEF Reset, WriteTypeOK
  <2>2. ReadTypeOK'
    BY <1>0, <1>4, ZeroTypes DEF Reset, ReadTypeOK
  <2> QED BY <2>1, <2>2
<1>5. CASE UNCHANGED vars
  BY <1>0, <1>5 DEF vars, writeSide, readSide, WriteTypeOK, ReadTypeOK
<1> QED BY <1>1, <1>2, <1>3, <1>4, <1>5 DEF Next

LEMMA InitType == Init => TypeOK
<1> SUFFICES ASSUME Init PROVE WriteTypeOK /\ ReadTypeOK
  BY TypeSplit
<1>1. Garbage \in ByteValue
  BY RingAssumption DEF Garbage, ByteValue
<1>2. mem \in [0 .. Depth - 1 -> ByteValue]
  BY <1>1 DEF Init
<1>3. WriteTypeOK
  BY <1>2, ZeroTypes DEF Init, WriteTypeOK
<1>4. ReadTypeOK
  BY <1>1, ZeroTypes DEF Init, ReadTypeOK
<1> QED BY <1>3, <1>4

(* Every register of the ring keeps the range its width gives it.          *)
THEOREM TypeCorrect == Spec => []TypeOK
BY InitType, TypeStep, PTL DEF Spec

(***************************************************************************)
(* The inductive invariant.  PointersInOrder is not inductive by itself:   *)
(* whether the writer may advance depends on what its synchronizer holds,  *)
(* so the invariant also ties the two stages to the read pointers before   *)
(* and after the edges that captured them.                                 *)
(***************************************************************************)
SamplesExplained ==
  /\ rd_gray_wr1 \in Sampled(seen1.old, seen1.new)
  /\ rd_gray_wr2 \in Sampled(seen2.old, seen2.new)

OrderInv == TypeOK /\ PointersInOrder /\ SamplesExplained

(* What both sides of a step need of each other: counted from base, the    *)
(* pointers stand in order and the writer's next position is within a lap. *)
InLap(base) ==
  /\ Dist(rd_bin, base) <= Dist(rd_work_bin, base)
  /\ Dist(rd_work_bin, base) <= Dist(wr_gray_rd2, base)
  /\ Dist(wr_gray_rd2, base) <= Dist(wr_gray_rd1, base)
  /\ Dist(wr_gray_rd1, base) <= Dist(wr_bin, base)
  /\ Dist(wr_bin, base) <= Dist(wr_bin', base)
  /\ Dist(wr_bin', base) <= Depth - 1

LEMMA SeenTypes ==
  ASSUME TypeOK
  PROVE  {seen1.old, seen1.new, seen2.old, seen2.new} \subseteq Ptr
BY DEF TypeOK

(* The writer only advances into room that exists.  With a clean sample of *)
(* the read pointer full is exact up to lateness; with a torn one the      *)
(* reader has moved by at least one, which is the room that is taken.      *)
LEMMA WriterHasRoom ==
  ASSUME OrderInv, Accept
  PROVE  /\ wr_bin' = Advance(wr_bin)
         /\ Dist(wr_bin', seen1.old) = Dist(wr_bin, seen1.old) + 1
         /\ Dist(wr_bin', seen1.old) <= Depth - 1
<1> DEFINE o == seen2.old
<1>1. /\ {wr_bin, wr_bin', rd_gray_wr2, o, seen1.old, seen2.new} \subseteq Ptr
      /\ wr_bin' = Advance(wr_bin)
  BY SeenTypes, PtrArithmetic DEF OrderInv, TypeOK, Accept
<1>2. /\ Dist(seen2.new, o) <= Dist(seen1.old, o)
      /\ Dist(seen1.old, o) <= Dist(wr_bin, o)
      /\ Dist(wr_bin, o) <= Depth - 1
  <2>1. PointersInOrder /\ TypeOK
    BY DEF OrderInv
  <2>2. {rd_bin, rd_work_bin, wr_gray_rd1, wr_gray_rd2, seen1.new} \subseteq Ptr
    BY <2>1, SeenTypes DEF TypeOK
  <2>3. \A p \in Ptr : Dist(p, o) \in 0 .. 2 * Depth - 1
    BY <1>1, PtrArithmetic
  <2> QED BY <1>1, <2>1, <2>2, <2>3, RingAssumption DEF PointersInOrder
<1>3. Dist(wr_bin', o) = Dist(wr_bin, o) + 1
  BY <1>1, <1>2, PtrArithmetic, RingAssumption
<1>4. Dist(wr_bin', seen1.old) = Dist(wr_bin', o) - Dist(seen1.old, o)
  <2>1. Dist(wr_bin, o) \in Nat /\ Dist(seen1.old, o) \in Nat
    BY <1>1, DistNatural
  <2>2. Dist(seen1.old, o) <= Dist(wr_bin', o)
    BY <1>2, <1>3, <2>1
  <2> QED BY <1>1, <2>2, Rebase
<1>5. Dist(wr_bin, seen1.old) = Dist(wr_bin, o) - Dist(seen1.old, o)
  BY <1>1, <1>2, Rebase
<1>6. {Dist(wr_bin, o), Dist(wr_bin', o), Dist(seen1.old, o), Dist(seen2.new, o)}
        \subseteq Nat
  BY <1>1, DistNatural
<1>7. CASE seen2.new = o
  <2>1. rd_gray_wr2 = o
    BY <1>1, <1>7, SampledSteady DEF OrderInv, SamplesExplained
  <2>2. Dist(wr_bin', o) # Depth
    BY <1>1, <2>1, FullMeansHalfTurn, PtrArithmetic DEF Accept
  <2> QED BY <1>1, <1>2, <1>3, <1>4, <1>5, <1>6, <2>2, RingAssumption
<1>8. CASE seen2.new # o
  <2>1. Dist(seen2.new, o) >= 1
    BY <1>1, <1>8, DistNatural
  <2> QED BY <1>1, <1>2, <1>3, <1>4, <1>5, <1>6, <2>1, RingAssumption
<1> QED BY <1>7, <1>8

(* Counted from a later base, the order stays.                             *)
LEMMA RebaseOrder ==
  ASSUME NEW p \in Ptr, NEW q \in Ptr, NEW a \in Ptr, NEW b \in Ptr,
         Dist(a, b) <= Dist(p, b), Dist(p, b) <= Dist(q, b)
  PROVE  Dist(p, a) <= Dist(q, a)
BY RingAssumption DEF Ptr, Dist

(* One edge of the debug clock, seen from the base it leaves behind.       *)
LEMMA WriterStaysInLap ==
  ASSUME OrderInv, WriteDomain, wr_bin' \in Ptr
  PROVE  /\ InLap(seen1.old)
         /\ Dist(seen1.new, seen1.old) <= Dist(rd_bin, seen1.old)
<1> DEFINE o == seen2.old
           n == seen1.old
<1>1. /\ {o, n, seen1.new, seen2.new, rd_bin, rd_work_bin} \subseteq Ptr
      /\ {wr_gray_rd1, wr_gray_rd2, wr_bin} \subseteq Ptr
  BY SeenTypes DEF OrderInv, TypeOK
<1>2. \A p, q \in Ptr : Dist(p, q) \in Nat
  BY DistNatural
<1>3. /\ Dist(n, o) <= Dist(seen1.new, o)
      /\ Dist(seen1.new, o) <= Dist(rd_bin, o)
      /\ Dist(rd_bin, o) <= Dist(rd_work_bin, o)
      /\ Dist(rd_work_bin, o) <= Dist(wr_gray_rd2, o)
      /\ Dist(wr_gray_rd2, o) <= Dist(wr_gray_rd1, o)
      /\ Dist(wr_gray_rd1, o) <= Dist(wr_bin, o)
      /\ Dist(wr_bin, o) <= Depth - 1
  BY DEF OrderInv, PointersInOrder
<1>4. /\ Dist(n, o) <= Dist(rd_bin, o)
      /\ Dist(n, o) <= Dist(rd_work_bin, o)
      /\ Dist(n, o) <= Dist(wr_gray_rd2, o)
      /\ Dist(n, o) <= Dist(wr_gray_rd1, o)
      /\ Dist(n, o) <= Dist(wr_bin, o)
  BY <1>1, <1>2, <1>3
<1>5. /\ Dist(seen1.new, n) <= Dist(rd_bin, n)
      /\ Dist(rd_bin, n) <= Dist(rd_work_bin, n)
      /\ Dist(rd_work_bin, n) <= Dist(wr_gray_rd2, n)
      /\ Dist(wr_gray_rd2, n) <= Dist(wr_gray_rd1, n)
      /\ Dist(wr_gray_rd1, n) <= Dist(wr_bin, n)
  BY <1>1, <1>3, <1>4, RebaseOrder
<1>6. CASE Accept
  BY <1>1, <1>2, <1>5, <1>6, WriterHasRoom, RingAssumption DEF InLap
<1>7. CASE wr_bin' = wr_bin
  <2>1. Dist(wr_bin, n) = Dist(wr_bin, o) - Dist(n, o)
    BY <1>1, <1>4, Rebase
  <2> QED BY <1>1, <1>2, <1>3, <1>5, <1>7, <2>1, RingAssumption DEF InLap
<1> QED BY <1>6, <1>7 DEF WriteDomain, Drop, NoWrite

(* An edge of TCK alone leaves the base where it is.                       *)
LEMMA ReaderInLap ==
  ASSUME OrderInv, wr_bin' = wr_bin
  PROVE  InLap(seen2.old)
<1>1. Dist(wr_bin, seen2.old) \in Nat
  BY SeenTypes, DistNatural DEF OrderInv, TypeOK
<1> QED BY <1>1 DEF OrderInv, PointersInOrder, InLap

(* One edge of TCK keeps the order, whatever the base.                     *)
LEMMA ReaderStaysInOrder ==
  ASSUME TypeOK, TypeOK', NEW b \in Ptr, InLap(b),
         ReadDomain, CaptureWritePointer, wr_bin' \in {wr_bin, Advance(wr_bin)}
  PROVE  /\ Dist(rd_bin, b) <= Dist(rd_bin', b)
         /\ Dist(rd_bin', b) <= Dist(rd_work_bin', b)
         /\ Dist(rd_work_bin', b) <= Dist(wr_gray_rd2', b)
         /\ Dist(wr_gray_rd2', b) <= Dist(wr_gray_rd1', b)
         /\ Dist(wr_gray_rd1', b) <= Dist(wr_bin', b)
         /\ Dist(wr_bin', b) <= Depth - 1
<1>1. /\ {rd_bin, rd_work_bin, wr_gray_rd1, wr_gray_rd2, wr_bin} \subseteq Ptr
      /\ {rd_bin', rd_work_bin', wr_gray_rd1', wr_gray_rd2', wr_bin'} \subseteq Ptr
  BY DEF TypeOK
<1>2. \A p \in Ptr : Dist(p, b) \in Nat
  BY DistNatural
<1>3. wr_gray_rd1' \in {wr_bin, wr_bin'}
  BY <1>1, SampledSteady, SampledAdvance DEF CaptureWritePointer
<1>4. /\ Dist(wr_gray_rd2', b) <= Dist(wr_gray_rd1', b)
      /\ Dist(wr_gray_rd1', b) <= Dist(wr_bin', b)
      /\ Dist(wr_bin', b) <= Depth - 1
      /\ Dist(wr_gray_rd2, b) <= Dist(wr_gray_rd2', b)
  BY <1>1, <1>2, <1>3, RingAssumption DEF InLap, ReadDomain
<1>5. CASE ReadByte
  <2>1. Dist(rd_work_bin, b) # Dist(wr_gray_rd2, b)
    BY <1>1, <1>5, DistInjective DEF ReadByte, rd_valid
  <2>2. Dist(rd_work_bin, b) < Dist(wr_gray_rd2, b)
    BY <1>1, <1>2, <2>1 DEF InLap
  <2>3. Dist(wr_gray_rd2, b) \in 0 .. 2 * Depth - 1
    BY <1>1, PtrArithmetic
  <2>4. Dist(Advance(rd_work_bin), b) = Dist(rd_work_bin, b) + 1
    BY <1>1, <1>2, <2>2, <2>3, PtrArithmetic, RingAssumption
  <2> QED BY <1>1, <1>2, <1>4, <1>5, <2>2, <2>4 DEF ReadByte, InLap
<1>6. CASE Commit
  BY <1>1, <1>2, <1>4, <1>6 DEF Commit, InLap
<1>7. CASE Abort
  BY <1>1, <1>2, <1>4, <1>7 DEF Abort, InLap
<1>8. CASE NoRead
  BY <1>1, <1>2, <1>4, <1>8 DEF NoRead, InLap
<1> QED BY <1>5, <1>6, <1>7, <1>8 DEF ReadDomain

LEMMA WriterAdvances ==
  ASSUME WriteDomain
  PROVE  wr_bin' \in {wr_bin, Advance(wr_bin)}
BY DEF WriteDomain, Accept, Drop, NoWrite

LEMMA SamplesStep ==
  ASSUME TypeOK, SamplesExplained, WriteDomain, CaptureReadPointer
  PROVE  SamplesExplained'
<1>1. seen1' = [old |-> rd_bin, new |-> rd_bin'] /\ seen2' = seen1
  BY DEF CaptureReadPointer, WriteDomain
<1>2. rd_gray_wr1' \in Sampled(rd_bin, rd_bin') /\ rd_gray_wr2' = rd_gray_wr1
  BY DEF CaptureReadPointer, WriteDomain
<1>3. seen1'.old = rd_bin /\ seen1'.new = rd_bin'
  BY <1>1
<1> QED BY <1>1, <1>2, <1>3 DEF SamplesExplained, Sampled

LEMMA OrderStep == OrderInv /\ [Next]_vars => OrderInv'
<1> SUFFICES ASSUME OrderInv, [Next]_vars PROVE OrderInv'
  OBVIOUS
<1>1. TypeOK /\ TypeOK' /\ SamplesExplained /\ PointersInOrder
  BY TypeStep DEF OrderInv
<1>2. wr_bin \in Ptr /\ wr_bin' \in Ptr /\ seen1.old \in Ptr /\ seen2.old \in Ptr
  BY <1>1, SeenTypes DEF TypeOK
<1>3. CASE WriteEdge
  <2>1. /\ InLap(seen1.old)
        /\ Dist(seen1.new, seen1.old) <= Dist(rd_bin, seen1.old)
    BY <1>2, <1>3, WriterStaysInLap DEF WriteEdge
  <2>2. /\ seen2' = seen1
        /\ seen1'.old = rd_bin
        /\ seen1'.new = rd_bin
        /\ rd_bin' = rd_bin
        /\ rd_work_bin' = rd_work_bin
        /\ wr_gray_rd1' = wr_gray_rd1
        /\ wr_gray_rd2' = wr_gray_rd2
    BY <1>3 DEF WriteEdge, WriteDomain, CaptureReadPointer, readSide
  <2>3. /\ Dist(rd_bin, seen1.old) \in Nat
        /\ Dist(wr_gray_rd1, seen1.old) \in Nat
        /\ Dist(wr_bin, seen1.old) \in Nat
        /\ Dist(wr_bin', seen1.old) \in Nat
    BY <1>1, <1>2, DistNatural DEF TypeOK
  <2>4. PointersInOrder'
    BY <2>1, <2>2, <2>3 DEF InLap, PointersInOrder
  <2> QED BY <1>1, <1>3, <2>4, SamplesStep DEF OrderInv, WriteEdge
<1>4. CASE ReadEdge
  <2>1. /\ wr_bin' = wr_bin
        /\ seen1' = seen1
        /\ seen2' = seen2
        /\ SamplesExplained'
    BY <1>1, <1>4 DEF ReadEdge, writeSide, SamplesExplained, Sampled
  <2>2. InLap(seen2.old)
    BY <2>1, ReaderInLap
  <2>3. /\ Dist(rd_bin, seen2.old) \in Nat
        /\ Dist(rd_bin', seen2.old) \in Nat
        /\ Dist(seen1.new, seen2.old) \in Nat
    BY <1>1, <1>2, SeenTypes, DistNatural DEF TypeOK
  <2>4. PointersInOrder'
    BY <1>1, <1>2, <1>4, <2>1, <2>2, <2>3, ReaderStaysInOrder
    DEF ReadEdge, PointersInOrder
  <2> QED BY <1>1, <2>1, <2>4 DEF OrderInv
<1>5. CASE BothEdges
  <2>1. /\ InLap(seen1.old)
        /\ Dist(seen1.new, seen1.old) <= Dist(rd_bin, seen1.old)
    BY <1>2, <1>5, WriterStaysInLap DEF BothEdges
  <2>2. seen2' = seen1 /\ seen1'.old = rd_bin /\ seen1'.new = rd_bin'
    BY <1>5 DEF BothEdges, WriteDomain, CaptureReadPointer
  <2>3. wr_bin' \in {wr_bin, Advance(wr_bin)}
    BY <1>5, WriterAdvances DEF BothEdges
  <2>4. Dist(rd_bin', seen1.old) \in Nat
    BY <1>1, <1>2, DistNatural DEF TypeOK
  <2>5. PointersInOrder'
    BY <1>1, <1>2, <1>5, <2>1, <2>2, <2>3, <2>4, ReaderStaysInOrder
    DEF BothEdges, PointersInOrder
  <2> QED BY <1>1, <1>5, <2>5, SamplesStep DEF OrderInv, BothEdges
<1>6. CASE Reset
  <2>1. SamplesExplained'
    BY <1>6, SampledSteady, ZeroTypes DEF Reset, SamplesExplained, Sampled
  <2>2. PointersInOrder'
    BY <1>6, PtrArithmetic, ZeroTypes, RingAssumption DEF Reset, PointersInOrder
  <2> QED BY <1>1, <2>1, <2>2 DEF OrderInv
<1>7. CASE UNCHANGED vars
  BY <1>1, <1>7
  DEF OrderInv, PointersInOrder, SamplesExplained, Sampled, vars, writeSide, readSide
<1> QED BY <1>3, <1>4, <1>5, <1>6, <1>7 DEF Next

LEMMA OrderInit == Init => OrderInv
<1> SUFFICES ASSUME Init PROVE SamplesExplained /\ PointersInOrder
  BY InitType DEF OrderInv
<1>1. SamplesExplained
  BY SampledSteady, ZeroTypes DEF Init, SamplesExplained, Sampled
<1>2. PointersInOrder
  BY PtrArithmetic, ZeroTypes, RingAssumption DEF Init, PointersInOrder
<1> QED BY <1>1, <1>2

(* Neither side of the ring overtakes the other, although the reader's     *)
(* pointer moves by many places at once and its Gray code may be torn.     *)
THEOREM OrderKept == Spec => []PointersInOrder
<1>1. OrderInv => PointersInOrder
  BY DEF OrderInv
<1> QED BY <1>1, OrderInit, OrderStep, PTL DEF Spec

(***************************************************************************)
(* The content of the ring: the counters, the bytes in memory, and the     *)
(* byte that the reader is offered.                                        *)
(***************************************************************************)
RingInv == OrderInv /\ CountersAgree /\ UncommittedKept /\ NextByteReady

LEMMA CountPlusAdds ==
  ASSUME NEW c \in CounterType, NEW m \in Nat, NEW n \in Nat, m + n <= 2 * Depth
  PROVE  /\ CountPlus(CountPlus(c, m), n) = CountPlus(c, m + n)
         /\ CountPlus(c, 0) = c
BY RingAssumption DEF CounterType, CountPlus

(* What the reader's half of a step may rely on of the writer's half: the  *)
(* bytes between the committed pointer and the new write pointer are in    *)
(* memory, and those before the old write pointer are not being written.   *)
Stored ==
  /\ write_count' = CountPlus(read_count, Dist(wr_bin', rd_bin))
  /\ \A n \in 0 .. Depth - 1 : n < Dist(wr_bin', rd_bin) =>
       mem'[Slot(Ahead(rd_bin, n))] = CountPlus(read_count, n)
  /\ \A n \in 0 .. Depth - 1 : n < Dist(wr_bin, rd_bin) =>
       mem'[Slot(Ahead(rd_bin, n))] = mem[Slot(Ahead(rd_bin, n))]

(* The distances from the committed read pointer itself.                   *)
LEMMA InLapFromCommitted ==
  ASSUME TypeOK, wr_bin' \in Ptr, NEW b \in Ptr, InLap(b)
  PROVE  InLap(rd_bin)
<1>1. /\ {rd_bin, rd_work_bin, wr_gray_rd1, wr_gray_rd2, wr_bin} \subseteq Ptr
  BY DEF TypeOK
<1>2. \A p \in Ptr : Dist(p, b) \in Nat
  BY DistNatural
<1>3. /\ Dist(rd_bin, b) <= Dist(rd_work_bin, b)
      /\ Dist(rd_bin, b) <= Dist(wr_gray_rd2, b)
      /\ Dist(rd_bin, b) <= Dist(wr_gray_rd1, b)
      /\ Dist(rd_bin, b) <= Dist(wr_bin, b)
      /\ Dist(rd_bin, b) <= Dist(wr_bin', b)
  BY <1>1, <1>2 DEF InLap
<1>4. Dist(wr_bin', rd_bin) = Dist(wr_bin', b) - Dist(rd_bin, b)
  BY <1>1, <1>3, Rebase
<1>5. /\ Dist(rd_work_bin, rd_bin) <= Dist(wr_gray_rd2, rd_bin)
      /\ Dist(wr_gray_rd2, rd_bin) <= Dist(wr_gray_rd1, rd_bin)
      /\ Dist(wr_gray_rd1, rd_bin) <= Dist(wr_bin, rd_bin)
      /\ Dist(wr_bin, rd_bin) <= Dist(wr_bin', rd_bin)
  BY <1>1, <1>3, RebaseOrder DEF InLap
<1>6. Dist(rd_bin, rd_bin) = 0 /\ Dist(rd_work_bin, rd_bin) \in Nat
  BY <1>1, PtrArithmetic, DistNatural
<1>7. Dist(wr_bin', rd_bin) <= Depth - 1
  BY <1>1, <1>2, <1>4, RingAssumption DEF InLap
<1> QED BY <1>5, <1>6, <1>7 DEF InLap

(* Drop-newest: a byte is only written into a slot that holds nothing      *)
(* the reader may still want.                                              *)
LEMMA WriterStores ==
  ASSUME TypeOK, CountersAgree, UncommittedKept, WriteDomain, InLap(rd_bin),
         Dist(wr_bin', rd_bin) <= Depth - 1
  PROVE  Stored
<1> DEFINE k == Dist(wr_bin, rd_bin)
<1>1. /\ rd_bin \in Ptr /\ wr_bin \in Ptr
      /\ k \in Nat
      /\ read_count \in CounterType
      /\ mem \in [0 .. Depth - 1 -> ByteValue]
  BY DistNatural DEF TypeOK, CounterType
<1>2. CASE Accept
  <2>1. k + 1 < 2 * Depth
    <3>1. k <= Dist(wr_bin', rd_bin)
      BY DEF InLap
    <3>2. Dist(wr_bin', rd_bin) \in Nat
      BY <1>1, <1>2, PtrArithmetic, DistNatural DEF Accept
    <3> QED BY <1>1, <3>1, <3>2, RingAssumption
  <2>2. Dist(wr_bin', rd_bin) = k + 1
    BY <1>1, <1>2, <2>1, PtrArithmetic, RingAssumption DEF Accept
  <2>3. k \in 0 .. Depth - 2
    BY <1>1, <2>2, RingAssumption
  <2>4. write_count = CountPlus(read_count, k)
    BY DEF CountersAgree
  <2>5. write_count' = CountPlus(read_count, k + 1)
    <3>1. write_count' = CountPlus(CountPlus(read_count, k), 1)
      BY <1>2, <2>4 DEF Accept
    <3>2. k + 1 <= 2 * Depth
      BY <1>1, <2>1, RingAssumption
    <3> QED BY <1>1, <3>1, <3>2, CountPlusAdds
  <2>6. mem' = [mem EXCEPT ![Slot(wr_bin)] = write_count]
    BY <1>2 DEF Accept
  <2>7. Slot(wr_bin) \in 0 .. Depth - 1
    BY <1>1, PtrArithmetic
  <2>8. ASSUME NEW n \in 0 .. Depth - 1, n < k
        PROVE  /\ Slot(Ahead(rd_bin, n)) \in 0 .. Depth - 1
               /\ Slot(Ahead(rd_bin, n)) # Slot(wr_bin)
    <3> DEFINE q == Ahead(rd_bin, n)
    <3>1. q \in Ptr /\ Dist(q, rd_bin) = n
      BY <1>1, AheadArithmetic, RingAssumption
    <3>2. Dist(wr_bin, q) = k - n
      BY <1>1, <2>8, <3>1, Rebase
    <3>3. 0 < Dist(wr_bin, q) /\ Dist(wr_bin, q) < Depth
      BY <1>1, <2>3, <2>8, <3>2, RingAssumption
    <3> QED BY <1>1, <3>1, <3>3, PtrArithmetic
  <2>9. ASSUME NEW n \in 0 .. Depth - 1, n < k
        PROVE  mem'[Slot(Ahead(rd_bin, n))] = mem[Slot(Ahead(rd_bin, n))]
    BY <1>1, <2>6, <2>8, <2>9
  <2>10. mem'[Slot(Ahead(rd_bin, k))] = CountPlus(read_count, k)
    <3>1. Ahead(rd_bin, k) = wr_bin
      BY <1>1, <2>3, AheadArithmetic, RingAssumption
    <3> QED BY <1>1, <2>4, <2>6, <2>7, <3>1
  <2>11. ASSUME NEW n \in 0 .. Depth - 1, n < k + 1
         PROVE  mem'[Slot(Ahead(rd_bin, n))] = CountPlus(read_count, n)
    <3>1. CASE n < k
      BY <2>9, <3>1 DEF UncommittedKept
    <3>2. CASE n = k
      BY <2>10, <3>2
    <3> QED BY <1>1, <2>11, <3>1, <3>2
  <2> QED BY <2>2, <2>5, <2>9, <2>11 DEF Stored
<1>3. CASE UNCHANGED <<mem, wr_bin, write_count>>
  BY <1>3 DEF Stored, CountersAgree, UncommittedKept
<1> QED BY <1>2, <1>3 DEF WriteDomain, Drop, NoWrite

(* The reader's half: a commit moves the base of the count and of the      *)
(* kept bytes together.                                                    *)
LEMMA ReaderCounts ==
  ASSUME TypeOK, InLap(rd_bin), Stored, ReadDomain,
         wr_bin' \in Ptr
  PROVE  CountersAgree' /\ UncommittedKept'
<1> DEFINE k == Dist(rd_work_bin, rd_bin)
<1>1. /\ rd_bin \in Ptr /\ rd_work_bin \in Ptr
      /\ read_count \in CounterType
      /\ k \in Nat
      /\ \A p \in Ptr : Dist(p, rd_bin) \in Nat
  BY DistNatural DEF TypeOK, CounterType
<1>2. k <= Dist(wr_bin', rd_bin) /\ Dist(wr_bin', rd_bin) <= Depth - 1
  <2>1. wr_gray_rd1 \in Ptr /\ wr_gray_rd2 \in Ptr /\ wr_bin \in Ptr
    BY DEF TypeOK
  <2> QED BY <1>1, <2>1, RingAssumption DEF InLap
<1>3. CASE Commit
  <2>1. /\ rd_bin' = rd_work_bin
        /\ read_count' = CountPlus(read_count, k)
    BY <1>3 DEF Commit
  <2>2. Dist(wr_bin', rd_bin') = Dist(wr_bin', rd_bin) - k
    BY <1>1, <1>2, <2>1, Rebase
  <2>3. ASSUME NEW n \in Nat, n <= Dist(wr_bin', rd_bin')
        PROVE  CountPlus(read_count', n) = CountPlus(read_count, k + n)
    BY <1>1, <1>2, <2>1, <2>2, <2>3, CountPlusAdds, RingAssumption
  <2>4. CountersAgree'
    <3>1. Dist(wr_bin', rd_bin') \in Nat
      BY <1>1, <2>1, DistNatural
    <3>2. k + Dist(wr_bin', rd_bin') = Dist(wr_bin', rd_bin)
      BY <1>1, <2>2
    <3> QED BY <2>3, <3>1, <3>2 DEF Stored, CountersAgree
  <2>5. ASSUME NEW n \in 0 .. Depth - 1, n < Dist(wr_bin', rd_bin')
        PROVE  mem'[Slot(Ahead(rd_bin', n))] = CountPlus(read_count', n)
    <3>1. k + n < Dist(wr_bin', rd_bin) /\ k + n \in 0 .. Depth - 1
      BY <1>1, <1>2, <2>2, <2>5, RingAssumption
    <3>2. Ahead(rd_bin, k) = rd_work_bin
      BY <1>1, <3>1, AheadArithmetic, RingAssumption
    <3>3. Ahead(rd_work_bin, n) = Ahead(rd_bin, k + n)
      <4>1. k \in 0 .. 2 * Depth - 1 /\ n \in Nat /\ k + n < 2 * Depth
        BY <1>1, <3>1, RingAssumption
      <4> QED BY <1>1, <3>2, <4>1, AheadArithmetic
    <3>4. CountPlus(read_count', n) = CountPlus(read_count, k + n)
      BY <1>1, <2>2, <2>3, <2>5
    <3> QED BY <2>1, <3>1, <3>3, <3>4 DEF Stored
  <2> QED BY <2>4, <2>5 DEF UncommittedKept
<1>4. CASE UNCHANGED <<rd_bin, read_count>>
  BY <1>4 DEF Stored, CountersAgree, UncommittedKept
<1> QED BY <1>3, <1>4 DEF ReadDomain, ReadByte, Abort, NoRead

(* The prefetched byte: the slot that is read ahead lies before the write  *)
(* pointer the synchronizer has reported, so it is not being written.      *)
LEMMA ReaderFetches ==
  ASSUME TypeOK, UncommittedKept, InLap(rd_bin), Stored, ReadDomain,
         wr_bin' \in Ptr, rd_work_bin' \in Ptr, wr_gray_rd2' \in Ptr,
         Dist(rd_work_bin', rd_bin) <= Dist(wr_gray_rd2', rd_bin)
  PROVE  NextByteReady'
<1> DEFINE n == Dist(rd_work_bin', rd_bin)
<1> SUFFICES ASSUME rd_work_bin' # wr_gray_rd2', ~aborted'
             PROVE  rd_data' = CountPlus(read_count', Dist(rd_work_bin', rd_bin'))
  BY DEF NextByteReady, rd_valid
<1>1. /\ rd_bin \in Ptr
      /\ read_count \in CounterType
      /\ \A p \in Ptr : Dist(p, rd_bin) \in Nat
  BY DistNatural DEF TypeOK, CounterType
<1>2. n < Dist(wr_bin, rd_bin) /\ n \in 0 .. Depth - 1
  <2>1. n < Dist(wr_gray_rd2', rd_bin)
    BY <1>1, DistInjective
  <2>2. wr_gray_rd2' = wr_gray_rd1 /\ wr_gray_rd1 \in Ptr /\ wr_bin \in Ptr
    BY DEF ReadDomain, TypeOK
  <2> QED BY <1>1, <2>1, <2>2, RingAssumption DEF InLap
<1>3. Ahead(rd_bin, n) = rd_work_bin'
  BY <1>1, <1>2, AheadArithmetic, RingAssumption
<1>4. /\ mem[Slot(rd_work_bin')] = CountPlus(read_count, n)
      /\ mem'[Slot(rd_work_bin')] = mem[Slot(rd_work_bin')]
  BY <1>2, <1>3 DEF UncommittedKept, Stored
<1>5. Fetch(rd_work_bin')
  BY DEF ReadDomain, ReadByte, Commit, Abort, NoRead
<1>6. rd_data' = CountPlus(read_count, n)
  BY <1>4, <1>5 DEF Fetch
<1>7. CASE Commit
  <2>1. /\ rd_bin' = rd_work_bin'
        /\ read_count' = CountPlus(read_count, n)
    BY <1>7 DEF Commit
  <2>2. Dist(rd_work_bin', rd_bin') = 0
    BY <2>1, PtrArithmetic
  <2>3. CountPlus(read_count', 0) = CountPlus(read_count, n)
    <3>1. n + 0 <= 2 * Depth
      BY <1>2, RingAssumption
    <3> QED BY <1>1, <1>2, <2>1, <3>1, CountPlusAdds
  <2> QED BY <1>6, <2>2, <2>3
<1>8. CASE UNCHANGED <<rd_bin, read_count>>
  BY <1>6, <1>8
<1> QED BY <1>7, <1>8 DEF ReadDomain, ReadByte, Abort, NoRead

LEMMA RingStep == RingInv /\ [Next]_vars => RingInv'
<1> SUFFICES ASSUME RingInv, [Next]_vars PROVE RingInv'
  OBVIOUS
<1>1. /\ OrderInv /\ OrderInv'
      /\ TypeOK /\ TypeOK'
      /\ CountersAgree /\ UncommittedKept /\ NextByteReady
  BY OrderStep DEF RingInv, OrderInv
<1>2. /\ {wr_bin, wr_bin', rd_bin, rd_work_bin, rd_work_bin'} \subseteq Ptr
      /\ {wr_gray_rd2', seen1.old, seen2.old} \subseteq Ptr
  BY <1>1, SeenTypes DEF TypeOK
<1>3. CASE WriteEdge
  <2>1. InLap(rd_bin)
    BY <1>1, <1>2, <1>3, WriterStaysInLap, InLapFromCommitted DEF WriteEdge
  <2>2. Stored
    BY <1>1, <1>3, <2>1, WriterStores DEF WriteEdge, InLap
  <2>3. UNCHANGED readSide
    BY <1>3 DEF WriteEdge
  <2>4. CountersAgree' /\ UncommittedKept'
    BY <2>2, <2>3 DEF readSide, Stored, CountersAgree, UncommittedKept
  <2>5. NextByteReady'
    BY <1>1, <2>3 DEF readSide, NextByteReady, rd_valid
  <2> QED BY <1>1, <2>4, <2>5 DEF RingInv
<1>4. CASE ReadEdge
  <2>1. UNCHANGED <<mem, wr_bin, write_count>>
    BY <1>4 DEF ReadEdge, writeSide
  <2>2. InLap(rd_bin)
    BY <1>1, <1>2, <2>1, ReaderInLap, InLapFromCommitted
  <2>3. Stored
    BY <1>1, <2>1 DEF Stored, CountersAgree, UncommittedKept
  <2>4. Dist(rd_work_bin', rd_bin) <= Dist(wr_gray_rd2', rd_bin)
    BY <1>1, <1>2, <1>4, <2>1, <2>2, ReaderStaysInOrder DEF ReadEdge
  <2> QED BY <1>1, <1>2, <1>4, <2>2, <2>3, <2>4, ReaderCounts, ReaderFetches
          DEF ReadEdge, RingInv
<1>5. CASE BothEdges
  <2>1. InLap(rd_bin)
    BY <1>1, <1>2, <1>5, WriterStaysInLap, InLapFromCommitted DEF BothEdges
  <2>2. Stored
    BY <1>1, <1>5, <2>1, WriterStores DEF BothEdges, InLap
  <2>3. wr_bin' \in {wr_bin, Advance(wr_bin)}
    BY <1>5, WriterAdvances DEF BothEdges
  <2>4. Dist(rd_work_bin', rd_bin) <= Dist(wr_gray_rd2', rd_bin)
    BY <1>1, <1>2, <1>5, <2>1, <2>3, ReaderStaysInOrder DEF BothEdges
  <2> QED BY <1>1, <1>2, <1>5, <2>1, <2>2, <2>4, ReaderCounts, ReaderFetches
          DEF BothEdges, RingInv
<1>6. CASE Reset
  <2>1. Dist(wr_bin', rd_bin') = 0
    BY <1>6, PtrArithmetic, ZeroTypes DEF Reset
  <2>2. CountersAgree'
    BY <1>6, <2>1, ZeroTypes, CountPlusAdds, RingAssumption DEF Reset, CountersAgree
  <2>3. UncommittedKept'
    BY <2>1 DEF UncommittedKept
  <2>4. NextByteReady'
    BY <1>6 DEF Reset, NextByteReady, rd_valid
  <2> QED BY <1>1, <2>2, <2>3, <2>4 DEF RingInv
<1>7. CASE UNCHANGED vars
  BY <1>1, <1>7 DEF RingInv, CountersAgree, UncommittedKept, NextByteReady,
                    rd_valid, vars, writeSide, readSide
<1> QED BY <1>3, <1>4, <1>5, <1>6, <1>7 DEF Next

LEMMA RingInit == Init => RingInv
<1> SUFFICES ASSUME Init PROVE CountersAgree /\ UncommittedKept /\ NextByteReady
  BY OrderInit DEF RingInv
<1>1. Dist(wr_bin, rd_bin) = 0
  BY PtrArithmetic, ZeroTypes DEF Init
<1>2. CountersAgree
  BY <1>1, ZeroTypes, CountPlusAdds, RingAssumption DEF Init, CountersAgree
<1>3. UncommittedKept
  BY <1>1 DEF UncommittedKept
<1>4. NextByteReady
  BY DEF Init, NextByteReady, rd_valid
<1> QED BY <1>2, <1>3, <1>4

(* The counters the host computes the backlog from differ by exactly the   *)
(* bytes in the ring, also across their wrap.                              *)
THEOREM CountersCorrect == Spec => []CountersAgree
<1>1. RingInv => CountersAgree
  BY DEF RingInv
<1> QED BY <1>1, RingInit, RingStep, PTL DEF Spec

(* A byte that was accepted stays in memory until a commit releases it:    *)
(* an aborted transaction can always be read again.                        *)
THEOREM NothingOverwritten == Spec => []UncommittedKept
<1>1. RingInv => UncommittedKept
  BY DEF RingInv
<1> QED BY <1>1, RingInit, RingStep, PTL DEF Spec

(* Whenever a byte is offered, rd_data is the next byte of the stream: the *)
(* prefetch never reads a slot whose write it could have missed.           *)
THEOREM OfferedByteCorrect == Spec => []NextByteReady
<1>1. RingInv => NextByteReady
  BY DEF RingInv
<1> QED BY <1>1, RingInit, RingStep, PTL DEF Spec

(***************************************************************************)
(* The drop counter crosses into the reader's clock through a registered   *)
(* Gray copy and two stages; each holds an older value than the one before *)
(* it.                                                                     *)
(***************************************************************************)
DropsDelayed ==
  /\ dropped_rd2 <= dropped_rd1
  /\ dropped_rd1 <= dropped_gray
  /\ dropped_gray <= dropped

DropsInv == TypeOK /\ DropsDelayed

LEMMA DropsWriteSide ==
  ASSUME DropsInv, WriteDomain
  PROVE  dropped <= dropped' /\ dropped_gray <= dropped_gray' /\ dropped_gray' <= dropped'
<1>1. dropped \in Int /\ dropped_gray \in Int /\ MaxDrop \in Int
  BY RingAssumption DEF DropsInv, TypeOK
<1>2. dropped_gray <= dropped /\ dropped_gray' = dropped
  BY DEF DropsInv, DropsDelayed, WriteDomain
<1>3. dropped' = dropped \/ dropped' = dropped + 1
  BY DEF WriteDomain, Accept, Drop, NoWrite
<1> QED BY <1>1, <1>2, <1>3

LEMMA DropsStep ==
  ASSUME DropsInv, [Next]_vars
  PROVE  /\ DropsInv'
         /\ dropped_rd2' <= dropped
         /\ dropped_rd2' < dropped_rd2 => dropped' = 0
<1>1. TypeOK /\ TypeOK'
  BY TypeStep DEF DropsInv
<1>2. /\ {dropped, dropped_gray, dropped_rd1, dropped_rd2} \subseteq Int
      /\ {dropped', dropped_gray', dropped_rd1', dropped_rd2'} \subseteq Int
  BY <1>1, RingAssumption DEF TypeOK
<1>3. DropsDelayed
  BY DEF DropsInv
<1>4. CASE WriteEdge
  <2>1. dropped_rd1' = dropped_rd1 /\ dropped_rd2' = dropped_rd2
    BY <1>4 DEF WriteEdge, readSide
  <2> QED
    BY <1>1, <1>2, <1>3, <1>4, <2>1, DropsWriteSide DEF WriteEdge, DropsInv, DropsDelayed
<1>5. CASE ReadEdge
  <2>1. dropped' = dropped /\ dropped_gray' = dropped_gray
    BY <1>5 DEF ReadEdge, writeSide
  <2>2. dropped_rd1' = dropped_gray /\ dropped_rd2' = dropped_rd1
    BY <1>5, <2>1 DEF ReadEdge, ReadDomain, CaptureWritePointer
  <2> QED BY <1>1, <1>2, <1>3, <2>1, <2>2 DEF DropsInv, DropsDelayed
<1>6. CASE BothEdges
  <2>1. dropped_rd1' \in {dropped_gray, dropped_gray'} /\ dropped_rd2' = dropped_rd1
    BY <1>6 DEF BothEdges, ReadDomain, CaptureWritePointer
  <2> QED
    BY <1>1, <1>2, <1>3, <1>6, <2>1, DropsWriteSide DEF BothEdges, DropsInv, DropsDelayed
<1>7. CASE Reset
  BY <1>1, <1>2, <1>7, RingAssumption DEF Reset, DropsInv, DropsDelayed, TypeOK
<1>8. CASE UNCHANGED vars
  BY <1>1, <1>2, <1>3, <1>8 DEF vars, writeSide, readSide, DropsInv, DropsDelayed
<1> QED BY <1>4, <1>5, <1>6, <1>7, <1>8 DEF Next

(* What the host reads of the drop counter was the counter's value at some *)
(* earlier time, and only a reset takes it back.                           *)
THEOREM DropsInOrder == Spec => DropsReportedInOrder
<1>1. Init => DropsInv
  BY InitType, RingAssumption DEF Init, DropsInv, DropsDelayed
<1>2. DropsInv /\ [Next]_vars => DropsInv'
  BY DropsStep
<1>3. DropsInv /\ [Next]_vars
        => [/\ dropped_rd2' <= dropped
            /\ dropped_rd2' < dropped_rd2 => dropped' = 0]_vars
  BY DropsStep
<1> QED BY <1>1, <1>2, <1>3, PTL DEF Spec, DropsReportedInOrder

(***************************************************************************)
(* The ring implements the mailbox.  Its speculative pointer is the length *)
(* of the mailbox's transaction, and the slots between its committed read  *)
(* pointer and its write pointer are the mailbox's unread bytes.           *)
(***************************************************************************)
BlockMeasured == Len(block) = Dist(rd_work_bin, rd_bin)

MailboxInv == RingInv /\ BlockMeasured

Unread == [n \in 1 .. Dist(wr_bin, rd_bin) |-> mem[Slot(Ahead(rd_bin, n - 1))]]

(* The unread bytes are numbered on from read_count.                       *)
LEMMA UnreadNumbered ==
  ASSUME RingInv
  PROVE  /\ Dist(wr_bin, rd_bin) \in 0 .. Depth - 1
         /\ Unread = [n \in 1 .. Dist(wr_bin, rd_bin) |-> CountPlus(read_count, n - 1)]
         /\ Unread \in Seq(Int)
         /\ Len(Unread) = Dist(wr_bin, rd_bin)
<1>1. TypeOK /\ UncommittedKept /\ PointersInOrder /\ OrderInv
  BY DEF RingInv, OrderInv
<1>2. /\ {wr_bin, rd_bin} \subseteq Ptr
      /\ read_count \in CounterType
  BY <1>1 DEF TypeOK, CounterType
<1>3. Dist(wr_bin, rd_bin) \in Nat /\ Dist(wr_bin, rd_bin) <= Depth - 1
  <2> DEFINE o == seen2.old
  <2>1. {o, seen1.old, seen1.new, seen2.new, rd_work_bin, wr_gray_rd1, wr_gray_rd2}
          \subseteq Ptr
    BY <1>1, SeenTypes DEF TypeOK
  <2>2. \A p \in Ptr : Dist(p, o) \in Nat
    BY <2>1, DistNatural
  <2>3. Dist(rd_bin, o) <= Dist(wr_bin, o) /\ Dist(wr_bin, o) <= Depth - 1
    BY <1>1, <1>2, <2>1, <2>2 DEF PointersInOrder
  <2>4. Dist(wr_bin, rd_bin) = Dist(wr_bin, o) - Dist(rd_bin, o)
    BY <1>2, <2>1, <2>3, Rebase
  <2> QED BY <1>2, <2>2, <2>3, <2>4, DistNatural, RingAssumption
<1>4. ASSUME NEW n \in 1 .. Dist(wr_bin, rd_bin)
      PROVE  mem[Slot(Ahead(rd_bin, n - 1))] = CountPlus(read_count, n - 1)
  BY <1>1, <1>3, RingAssumption DEF UncommittedKept
<1>5. Unread = [n \in 1 .. Dist(wr_bin, rd_bin) |-> CountPlus(read_count, n - 1)]
  BY <1>4 DEF Unread
<1>6. ASSUME NEW n \in 1 .. Dist(wr_bin, rd_bin)
      PROVE  CountPlus(read_count, n - 1) \in Int
  BY <1>2, RingAssumption DEF CountPlus, CounterType
<1>7. Unread \in Seq(Int)
  BY <1>3, <1>5, <1>6
<1>8. Len(Unread) = Dist(wr_bin, rd_bin)
  BY <1>3, <1>7, LenProperties DEF Unread
<1> QED BY <1>3, <1>5, <1>7, <1>8, RingAssumption

(* The writer's half of the mailbox's step.                                *)
LEMMA WriterHalf ==
  ASSUME RingInv, WriteDomain, Dist(wr_bin', rd_bin) <= Depth - 1
  PROVE  \E pushed \in {<<>>, <<write_count>>} :
           /\ Promise!Accept(pushed) \/ Promise!DropNewest(pushed)
           /\ Dist(wr_bin', rd_bin) = Dist(wr_bin, rd_bin) + Len(pushed)
<1>1. TypeOK /\ OrderInv
  BY DEF RingInv, OrderInv
<1>2. /\ {wr_bin, rd_bin} \subseteq Ptr
      /\ {dropped} \subseteq Int
  BY <1>1, RingAssumption DEF TypeOK
<1>3. /\ Dist(wr_bin, rd_bin) \in 0 .. Depth - 1
      /\ Len(Unread) = Dist(wr_bin, rd_bin)
  BY UnreadNumbered
<1>4. CASE Accept
  <2>1. wr_bin' = Advance(wr_bin)
    BY <1>4 DEF Accept
  <2>2. Dist(wr_bin', rd_bin) = Dist(wr_bin, rd_bin) + 1
    BY <1>2, <1>3, <2>1, PtrArithmetic, RingAssumption
  <2>3. Promise!Accept(<<write_count>>)
    BY <1>3, <1>4, RingAssumption DEF Promise!Accept, Promise!u32Plus, CountPlus, Accept, Unread
  <2>4. Len(<<write_count>>) = 1
    OBVIOUS
  <2> QED BY <2>2, <2>3, <2>4
<1>5. CASE Drop \/ NoWrite
  <2>1. Promise!DropNewest(<<>>)
    BY <1>2, <1>5 DEF Promise!DropNewest, Drop, NoWrite
  <2>2. Dist(wr_bin', rd_bin) = Dist(wr_bin, rd_bin) + Len(<<>>)
    BY <1>3, <1>5 DEF Drop, NoWrite
  <2> QED BY <2>1, <2>2
<1> QED BY <1>4, <1>5 DEF WriteDomain

(* Numbered bytes stay numbered when some leave at the front and the next  *)
(* one enters at the back.                                                 *)
Numbered(c, k) == [n \in 1 .. k |-> CountPlus(c, n - 1)]

LEMMA NumberedExchange ==
  ASSUME NEW c \in CounterType, NEW k \in 0 .. Depth, NEW r \in 0 .. k,
         NEW pushed \in {<<>>, <<CountPlus(c, k)>>}
  PROVE  Numbered(CountPlus(c, r), k - r + Len(pushed))
           = SubSeq(Numbered(c, k), r + 1, k) \o pushed
<1> DEFINE left == SubSeq(Numbered(c, k), r + 1, k)
           moved == Numbered(CountPlus(c, r), k - r + Len(pushed))
<1>1. Depth \in Nat /\ k \in Nat /\ r \in Nat /\ c \in Int /\ CountMod \in Int
  BY RingAssumption DEF CounterType
<1>2. \A n \in Int : CountPlus(c, n) \in Int
  BY <1>1 DEF CountPlus
<1>3. Numbered(c, k) \in Seq(Int) /\ Len(Numbered(c, k)) = k
  BY <1>1, <1>2 DEF Numbered
<1>4. /\ left \in Seq(Int)
      /\ Len(left) = k - r
      /\ \A n \in 1 .. k - r : left[n] = CountPlus(c, r + n - 1)
  BY <1>1, <1>3, SubSeqProperties DEF Numbered
<1> HIDE DEF left
<1>5. \A n \in 1 .. k - r + 1 : CountPlus(CountPlus(c, r), n - 1) = CountPlus(c, r + n - 1)
  <2> SUFFICES ASSUME NEW n \in 1 .. k - r + 1
               PROVE  CountPlus(CountPlus(c, r), n - 1) = CountPlus(c, r + (n - 1))
    BY <1>1
  <2>1. r \in Nat /\ n - 1 \in Nat /\ r + (n - 1) <= 2 * Depth
    BY <1>1
  <2> QED BY <2>1, CountPlusAdds
<1>6. /\ pushed \in Seq(Int)
      /\ Len(pushed) = 0 \/ Len(pushed) = 1
      /\ Len(pushed) = 1 => pushed[1] = CountPlus(c, k)
  <2>1. CASE pushed = <<>>
    BY <2>1
  <2>2. CASE pushed = <<CountPlus(c, k)>>
    <3>1. CountPlus(c, k) \in Int
      BY <1>1, <1>2
    <3> QED BY <2>2, <3>1
  <2> QED BY <2>1, <2>2
<1> DEFINE whole == left \o pushed
<1>7. /\ whole \in Seq(Int)
      /\ Len(whole) = k - r + Len(pushed)
      /\ \A n \in 1 .. k - r + Len(pushed) :
           whole[n] = IF n <= k - r THEN left[n] ELSE pushed[n - (k - r)]
  <2>1. /\ whole \in Seq(Int)
        /\ Len(whole) = Len(left) + Len(pushed)
        /\ \A n \in 1 .. Len(left) + Len(pushed) :
             whole[n] = IF n <= Len(left) THEN left[n] ELSE pushed[n - Len(left)]
    BY <1>4, <1>6, ConcatProperties
  <2> QED BY <1>4, <2>1
<1> DEFINE m == Len(pushed)
<1> HIDE DEF whole, m
<1>0. m = 0 \/ m = 1
  BY <1>6 DEF m
<1>8. \A n \in 1 .. k - r + m : whole[n] = CountPlus(CountPlus(c, r), n - 1)
  <2> SUFFICES ASSUME NEW n \in 1 .. k - r + m
               PROVE  whole[n] = CountPlus(c, r + n - 1)
    <3>1. k - r \in Int /\ \A n \in 1 .. k - r + m : n \in 1 .. k - r + 1
      BY <1>1, <1>0
    <3> QED BY <1>5, <3>1
  <2>1. CASE n <= k - r
    <3>1. n \in 1 .. k - r /\ n \in 1 .. k - r + m
      BY <1>1, <1>0, <2>1
    <3> QED BY <1>4, <1>7, <3>1 DEF m
  <2>2. CASE ~(n <= k - r)
    <3>1. n = k - r + 1 /\ m = 1
      BY <1>1, <1>0, <2>2
    <3>2. n - (k - r) = 1 /\ r + n - 1 = k
      BY <1>1, <3>1
    <3>3. whole[n] = pushed[1]
      BY <1>7, <2>2, <3>1, <3>2 DEF m
    <3> QED BY <1>6, <3>1, <3>2, <3>3 DEF m
  <2> QED BY <2>1, <2>2
<1>9. whole = [n \in 1 .. k - r + Len(pushed) |-> whole[n]]
  BY <1>7, LenProperties
<1>10. whole = moved
  BY <1>8, <1>9 DEF Numbered, m
<1> QED BY <1>10 DEF whole, left

(* The reader's half of the mailbox's step, and what it removes.           *)
LEMMA ReaderHalf ==
  ASSUME WaitAfterAbort, MailboxInv, RingInv', ReadDomain, InLap(rd_bin)
  PROVE  /\ BlockMeasured'
         /\ \E removed \in 0 .. Len(block) :
              /\ \/ Promise!Take(removed) \/ Promise!Commit(removed)
                 \/ Promise!Abort(removed) \/ Promise!NoRead(removed)
              /\ Dist(wr_bin', rd_bin') = Dist(wr_bin', rd_bin) - removed
              /\ read_count' = CountPlus(read_count, removed)
              /\ available_bytes' \in (available_bytes - removed)
                                        .. (Dist(wr_bin, rd_bin) - removed)
              /\ removed <= Dist(wr_bin, rd_bin)
<1> DEFINE k == Dist(rd_work_bin, rd_bin)
<1>1. TypeOK /\ TypeOK' /\ NextByteReady /\ UncommittedKept
  BY DEF MailboxInv, RingInv, OrderInv
<1>2. /\ {rd_bin, rd_work_bin, wr_gray_rd1, wr_gray_rd2, wr_bin, wr_bin'} \subseteq Ptr
      /\ {rd_bin', rd_work_bin', wr_gray_rd2'} \subseteq Ptr
      /\ read_count \in CounterType
      /\ block \in Seq(ByteValue)
  BY <1>1 DEF TypeOK, CounterType
<1>3. \A p \in Ptr : Dist(p, rd_bin) \in Nat
  BY <1>2, DistNatural
<1>4. /\ k <= Dist(wr_gray_rd2, rd_bin)
      /\ Dist(wr_gray_rd2, rd_bin) <= Dist(wr_gray_rd1, rd_bin)
      /\ Dist(wr_gray_rd1, rd_bin) <= Dist(wr_bin, rd_bin)
      /\ Dist(wr_bin, rd_bin) <= Dist(wr_bin', rd_bin)
      /\ Dist(wr_bin', rd_bin) <= Depth - 1
      /\ wr_gray_rd2' = wr_gray_rd1
      /\ Len(block) = k
  BY DEF InLap, MailboxInv, BlockMeasured, ReadDomain
<1>5. /\ available_bytes = Dist(wr_gray_rd2, rd_bin)
      /\ available_bytes' = Dist(wr_gray_rd1, rd_bin')
  BY <1>4 DEF available_bytes
<1>6. CountPlus(read_count, 0) = read_count
  BY <1>2, CountPlusAdds, RingAssumption
<1>7. CASE ReadByte
  <2>1. /\ rd_valid /\ ~aborted
        /\ rd_work_bin' = Advance(rd_work_bin)
        /\ block' = Append(block, rd_data)
        /\ rd_bin' = rd_bin /\ read_count' = read_count
    BY <1>7 DEF ReadByte
  <2>2. k < Dist(wr_gray_rd2, rd_bin)
    <3>1. k # Dist(wr_gray_rd2, rd_bin)
      BY <1>2, <2>1, DistInjective DEF rd_valid
    <3> QED BY <1>2, <1>3, <1>4, <3>1
  <2>3. Dist(rd_work_bin', rd_bin) = k + 1
    BY SMTT(20), <1>2, <1>3, <1>4, <2>1, <2>2, PtrArithmetic, RingAssumption
  <2>4. BlockMeasured'
    BY <1>2, <1>4, <2>1, <2>3, AppendProperties DEF BlockMeasured, ReadTypeOK
  <2>5. rd_data = Unread[k + 1]
    <3>1. k + 1 \in 1 .. Dist(wr_bin, rd_bin)
      BY <1>2, <1>3, <1>4, <2>2
    <3>2. rd_data = CountPlus(read_count, k)
      BY <1>1, <2>1 DEF NextByteReady
    <3>3. Unread[k + 1] = CountPlus(read_count, (k + 1) - 1)
      BY <3>1, UnreadNumbered DEF MailboxInv
    <3> QED BY <1>2, <1>3, <3>2, <3>3
  <2>6. Promise!Take(0)
    BY <1>4, <1>5, <2>1, <2>2, <2>5 DEF Promise!Take, Unread
  <2>7. available_bytes' \in (available_bytes - 0) .. (Dist(wr_bin, rd_bin) - 0)
    BY <1>2, <1>3, <1>4, <1>5, <2>1
  <2> QED BY <1>2, <1>3, <1>4, <1>6, <2>1, <2>4, <2>6, <2>7
<1>8. CASE Commit
  <2>1. /\ rd_bin' = rd_work_bin /\ rd_work_bin' = rd_work_bin
        /\ read_count' = CountPlus(read_count, k)
        /\ block' = <<>>
    BY <1>8 DEF Commit
  <2>2. Len(<<>>) = 0 /\ Dist(rd_work_bin', rd_bin') = 0
    BY <1>2, <2>1, PtrArithmetic
  <2>3. BlockMeasured'
    BY <2>1, <2>2 DEF BlockMeasured
  <2>4. Promise!Commit(k)
    BY <1>4, <2>1 DEF Promise!Commit, Promise!u32Plus, CountPlus
  <2>5. /\ Dist(wr_bin', rd_bin') = Dist(wr_bin', rd_bin) - k
        /\ Dist(wr_gray_rd1, rd_bin') = Dist(wr_gray_rd1, rd_bin) - k
    BY <1>2, <1>3, <1>4, <2>1, Rebase
  <2>6. available_bytes' \in (available_bytes - k) .. (Dist(wr_bin, rd_bin) - k)
    BY <1>2, <1>3, <1>4, <1>5, <2>5
  <2>7. k \in 0 .. Len(block) /\ k <= Dist(wr_bin, rd_bin)
    BY <1>2, <1>3, <1>4
  <2> QED BY <2>1, <2>3, <2>4, <2>5, <2>6, <2>7
<1>9. CASE Abort
  <2>1. /\ rd_bin' = rd_bin /\ rd_work_bin' = rd_bin
        /\ read_count' = read_count
        /\ block' = <<>>
    BY <1>9 DEF Abort
  <2>2. Len(<<>>) = 0 /\ Dist(rd_work_bin', rd_bin') = 0
    BY <1>2, <2>1, PtrArithmetic
  <2>3. BlockMeasured'
    BY <2>1, <2>2 DEF BlockMeasured
  <2>4. Promise!Abort(0)
    BY <2>1 DEF Promise!Abort
  <2>5. available_bytes' \in (available_bytes - 0) .. (Dist(wr_bin, rd_bin) - 0)
    BY <1>2, <1>3, <1>4, <1>5, <2>1
  <2> QED BY <1>2, <1>3, <1>4, <1>6, <2>1, <2>3, <2>4, <2>5
<1>10. CASE NoRead
  <2>1. rd_bin' = rd_bin /\ rd_work_bin' = rd_work_bin /\ read_count' = read_count
          /\ block' = block
    BY <1>10 DEF NoRead
  <2>2. BlockMeasured'
    BY <1>4, <2>1 DEF BlockMeasured
  <2>3. Promise!NoRead(0)
    BY <2>1 DEF Promise!NoRead
  <2>4. available_bytes' \in (available_bytes - 0) .. (Dist(wr_bin, rd_bin) - 0)
    BY <1>2, <1>3, <1>4, <1>5, <2>1
  <2> QED BY <1>2, <1>3, <1>4, <1>6, <2>1, <2>2, <2>3, <2>4
<1> QED BY <1>7, <1>8, <1>9, <1>10 DEF ReadDomain

LEMMA UnreadAreNumbered ==
  /\ RingInv => Unread = Numbered(read_count, Dist(wr_bin, rd_bin))
  /\ RingInv' => (Unread = Numbered(read_count, Dist(wr_bin, rd_bin)))'
<1>1. RingInv => Unread = Numbered(read_count, Dist(wr_bin, rd_bin))
  BY UnreadNumbered DEF Numbered
<1> QED BY <1>1, PTL

(* What the two halves do to the unread bytes and to what is visible of    *)
(* them.                                                                   *)
LEMMA BytesMove ==
  ASSUME RingInv, RingInv',
         NEW pushed \in {<<>>, <<write_count>>},
         NEW removed \in 0 .. Dist(wr_bin, rd_bin),
         Dist(wr_bin', rd_bin') = Dist(wr_bin, rd_bin) - removed + Len(pushed),
         read_count' = CountPlus(read_count, removed),
         available_bytes' \in (available_bytes - removed)
                                .. (Dist(wr_bin, rd_bin) - removed)
  PROVE  Promise!Exchange(pushed, removed)
<1> DEFINE k == Dist(wr_bin, rd_bin)
<1>1. k \in 0 .. Depth /\ Len(Unread) = k
  BY UnreadNumbered, RingAssumption
<1>2. write_count = CountPlus(read_count, k)
  BY DEF RingInv, CountersAgree
<1>3. read_count \in CounterType
  BY DEF RingInv, OrderInv, TypeOK, CounterType
<1>4. Unread = Numbered(read_count, k) /\ Unread' = Numbered(read_count, k)'
  BY UnreadAreNumbered
<1>5. Numbered(read_count, k)' = Numbered(CountPlus(read_count, removed), k - removed + Len(pushed))
  BY DEF Numbered
<1>6. Unread' = SubSeq(Unread, removed + 1, Len(Unread)) \o pushed
  BY <1>1, <1>2, <1>3, <1>4, <1>5, NumberedExchange
<1> QED BY <1>1, <1>6 DEF Promise!Exchange, Unread

(* Every step of the ring is a step of the mailbox, or leaves it alone.    *)
LEMMA MailboxStep ==
  ASSUME WaitAfterAbort, MailboxInv, [Next]_vars
  PROVE  MailboxInv' /\ [Promise!Next]_(Promise!mailboxVars)
<1>1. RingInv /\ RingInv' /\ BlockMeasured
  BY RingStep DEF MailboxInv
<1>2. OrderInv /\ TypeOK /\ TypeOK' /\ CountersAgree
  BY <1>1 DEF RingInv, OrderInv
<1>3. /\ {wr_bin, wr_bin', rd_bin, rd_work_bin, rd_work_bin', wr_gray_rd2} \subseteq Ptr
      /\ {wr_gray_rd1, seen1.old, seen2.old} \subseteq Ptr
      /\ read_count \in CounterType
      /\ block \in Seq(ByteValue)
  BY <1>2, SeenTypes DEF TypeOK, CounterType
<1>4. /\ Dist(wr_bin, rd_bin) \in Nat /\ Dist(wr_bin', rd_bin) \in Nat
      /\ available_bytes \in Nat
      /\ Dist(rd_work_bin, rd_bin) \in Nat
      /\ Len(block) = Dist(rd_work_bin, rd_bin)
  BY <1>1, <1>3, DistNatural DEF available_bytes, BlockMeasured
<1>5. CountPlus(read_count, 0) = read_count
  BY <1>3, CountPlusAdds, RingAssumption
<1>6. CASE WriteEdge
  <2>1. InLap(rd_bin)
    BY <1>2, <1>3, <1>6, WriterStaysInLap, InLapFromCommitted DEF WriteEdge
  <2>2. UNCHANGED <<rd_bin, rd_work_bin, read_count, wr_gray_rd2, block>>
    BY <1>6 DEF WriteEdge, readSide
  <2>3. BlockMeasured' /\ available_bytes' = available_bytes
    BY <1>1, <2>2 DEF BlockMeasured, available_bytes
  <2>4. PICK pushed \in {<<>>, <<write_count>>} :
          /\ Promise!Accept(pushed) \/ Promise!DropNewest(pushed)
          /\ Dist(wr_bin', rd_bin) = Dist(wr_bin, rd_bin) + Len(pushed)
    BY <1>1, <1>6, <2>1, WriterHalf DEF WriteEdge, InLap
  <2>5. available_bytes <= Dist(wr_bin, rd_bin)
    <3>1. Dist(wr_gray_rd1, rd_bin) \in Nat
      BY <1>3, DistNatural
    <3> QED BY <1>4, <2>1, <3>1 DEF InLap, available_bytes
  <2>6. Promise!Exchange(pushed, 0)
    <3>1. 0 \in 0 .. Dist(wr_bin, rd_bin)
      BY <1>4
    <3>2. Dist(wr_bin', rd_bin') = Dist(wr_bin, rd_bin) - 0 + Len(pushed)
      BY <1>4, <2>2, <2>4
    <3>3. available_bytes' \in (available_bytes - 0) .. (Dist(wr_bin, rd_bin) - 0)
      BY <1>4, <2>3, <2>5
    <3> QED BY <1>1, <1>5, <2>2, <3>1, <3>2, <3>3, BytesMove
  <2>7. Promise!NoRead(0) /\ 0 \in 0 .. Len(block)
    BY <1>4, <2>2 DEF Promise!NoRead
  <2> QED BY <1>1, <2>3, <2>4, <2>6, <2>7 DEF MailboxInv, Promise!Next, Promise!Transfer
<1>7. CASE ReadEdge
  <2>1. UNCHANGED <<mem, wr_bin, write_count, dropped>>
    BY <1>7 DEF ReadEdge, writeSide
  <2>2. InLap(rd_bin)
    BY <1>2, <1>3, <2>1, ReaderInLap, InLapFromCommitted
  <2>3. /\ BlockMeasured'
        /\ \E removed \in 0 .. Len(block) :
             /\ \/ Promise!Take(removed) \/ Promise!Commit(removed)
                \/ Promise!Abort(removed) \/ Promise!NoRead(removed)
             /\ Dist(wr_bin', rd_bin') = Dist(wr_bin', rd_bin) - removed
             /\ read_count' = CountPlus(read_count, removed)
             /\ available_bytes' \in (available_bytes - removed)
                                       .. (Dist(wr_bin, rd_bin) - removed)
             /\ removed <= Dist(wr_bin, rd_bin)
    BY <1>1, <1>7, <2>2, ReaderHalf DEF ReadEdge, MailboxInv
  <2>4. PICK removed \in 0 .. Len(block) :
             /\ \/ Promise!Take(removed) \/ Promise!Commit(removed)
                \/ Promise!Abort(removed) \/ Promise!NoRead(removed)
             /\ Dist(wr_bin', rd_bin') = Dist(wr_bin', rd_bin) - removed
             /\ read_count' = CountPlus(read_count, removed)
             /\ available_bytes' \in (available_bytes - removed)
                                       .. (Dist(wr_bin, rd_bin) - removed)
             /\ removed <= Dist(wr_bin, rd_bin)
    BY <2>3
  <2>5. Promise!DropNewest(<<>>)
    BY SMTT(20), <1>2, <2>1, RingAssumption DEF TypeOK, Promise!DropNewest
  <2>6. Promise!Exchange(<<>>, removed)
    <3>1. removed \in 0 .. Dist(wr_bin, rd_bin)
      BY <1>4, <2>4
    <3>2. Dist(wr_bin', rd_bin') = Dist(wr_bin, rd_bin) - removed + Len(<<>>)
      BY <1>4, <2>1, <2>4, <3>1
    <3> QED BY <1>1, <2>4, <3>1, <3>2, BytesMove
  <2> QED BY <1>1, <2>3, <2>4, <2>5, <2>6 DEF MailboxInv, Promise!Next, Promise!Transfer
<1>8. CASE BothEdges
  <2>1. InLap(rd_bin)
    BY <1>2, <1>3, <1>8, WriterStaysInLap, InLapFromCommitted DEF BothEdges
  <2>2. PICK pushed \in {<<>>, <<write_count>>} :
          /\ Promise!Accept(pushed) \/ Promise!DropNewest(pushed)
          /\ Dist(wr_bin', rd_bin) = Dist(wr_bin, rd_bin) + Len(pushed)
    BY <1>1, <1>8, <2>1, WriterHalf DEF BothEdges, InLap
  <2>3. /\ BlockMeasured'
        /\ \E removed \in 0 .. Len(block) :
             /\ \/ Promise!Take(removed) \/ Promise!Commit(removed)
                \/ Promise!Abort(removed) \/ Promise!NoRead(removed)
             /\ Dist(wr_bin', rd_bin') = Dist(wr_bin', rd_bin) - removed
             /\ read_count' = CountPlus(read_count, removed)
             /\ available_bytes' \in (available_bytes - removed)
                                       .. (Dist(wr_bin, rd_bin) - removed)
             /\ removed <= Dist(wr_bin, rd_bin)
    BY <1>1, <1>8, <2>1, ReaderHalf DEF BothEdges, MailboxInv
  <2>4. PICK removed \in 0 .. Len(block) :
             /\ \/ Promise!Take(removed) \/ Promise!Commit(removed)
                \/ Promise!Abort(removed) \/ Promise!NoRead(removed)
             /\ Dist(wr_bin', rd_bin') = Dist(wr_bin', rd_bin) - removed
             /\ read_count' = CountPlus(read_count, removed)
             /\ available_bytes' \in (available_bytes - removed)
                                       .. (Dist(wr_bin, rd_bin) - removed)
             /\ removed <= Dist(wr_bin, rd_bin)
    BY <2>3
  <2>5. Promise!Exchange(pushed, removed)
    <3>1. removed \in 0 .. Dist(wr_bin, rd_bin)
      BY <1>4, <2>4
    <3>2. Len(pushed) \in Int
      BY EmptySeq
    <3>3. Dist(wr_bin', rd_bin') = Dist(wr_bin, rd_bin) - removed + Len(pushed)
      BY <1>4, <2>2, <2>4, <3>1, <3>2
    <3> QED BY <1>1, <2>4, <3>1, <3>3, BytesMove
  <2> QED BY <1>1, <2>2, <2>3, <2>4, <2>5 DEF MailboxInv, Promise!Next, Promise!Transfer
<1>9. CASE Reset
  <2>1. /\ Dist(wr_bin', rd_bin') = 0 /\ Dist(rd_work_bin', rd_bin') = 0
        /\ available_bytes' = 0
    BY <1>9, PtrArithmetic, ZeroTypes DEF Reset, available_bytes
  <2>2. BlockMeasured'
    BY <1>9, <2>1, EmptySeq DEF Reset, BlockMeasured
  <2>3. Unread' = <<>>
    BY <2>1 DEF Unread
  <2>4. Promise!Reset
    BY <1>9, <2>1, <2>3 DEF Reset, Promise!Reset, Unread
  <2> QED BY <1>1, <2>2, <2>4 DEF MailboxInv, Promise!Next
<1>10. CASE UNCHANGED vars
  BY <1>1, <1>10 DEF vars, writeSide, readSide, MailboxInv, BlockMeasured,
                     Promise!mailboxVars, available_bytes
<1> QED BY <1>6, <1>7, <1>8, <1>9, <1>10 DEF Next

LEMMA MailboxStart == Init => MailboxInv /\ Promise!Init
<1> SUFFICES ASSUME Init PROVE BlockMeasured /\ Promise!Init
  BY RingInit DEF MailboxInv
<1>1. /\ Dist(wr_bin, rd_bin) = 0 /\ Dist(rd_work_bin, rd_bin) = 0
      /\ available_bytes = 0
  BY PtrArithmetic, ZeroTypes DEF Init, available_bytes
<1>2. BlockMeasured
  BY <1>1, EmptySeq DEF Init, BlockMeasured
<1>3. Unread = <<>>
  BY <1>1 DEF Unread
<1> QED BY <1>1, <1>2, <1>3 DEF Init, Promise!Init, Unread

(* The ring keeps the promises of the mailbox when its reader leaves the   *)
(* cycle after an abort idle, as the command engine does.                  *)
THEOREM RingIsMailbox ==
  ASSUME WaitAfterAbort
  PROVE  Spec => ImplementsMailbox
<1>1. Init => MailboxInv /\ Promise!Init
  BY MailboxStart
<1>2. MailboxInv /\ [Next]_vars => MailboxInv' /\ [Promise!Next]_(Promise!mailboxVars)
  BY MailboxStep
<1> QED BY <1>1, <1>2, PTL DEF Spec, ImplementsMailbox, Promise!Spec
=============================================================================
