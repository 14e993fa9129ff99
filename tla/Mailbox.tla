------------------------------ MODULE Mailbox ------------------------------
(***************************************************************************)
(* What the JTAG mailbox promises, whatever hardware or model stands       *)
(* behind it: a first-in first-out byte store of bounded size that drops   *)
(* the newest byte when it cannot take it, and that is read in             *)
(* transactions.  A transaction takes bytes one by one from the front      *)
(* without removing them; Commit removes what was taken, Abort gives it    *)
(* back.  The reader may see the writer's progress late, never early.      *)
(*                                                                         *)
(* This is the reference model tools/jtag/mailbox_model.py at the          *)
(* granularity of one byte.  A byte is represented by its number: the      *)
(* value write_count had when it was accepted.                             *)
(***************************************************************************)
EXTENDS Integers, Sequences

CONSTANTS
  BufferSize,  \* bytes the store can hold (buffer_size)
  CountMod     \* the u32 counters wrap here (2^32), beyond 2 * BufferSize

VARIABLES
  unread,      \* the accepted bytes that no commit has removed yet
  visible,     \* how many of them the reader has been told of
  block,       \* what the current transaction has taken so far
  write_count, \* accepted bytes, modulo CountMod
  read_count,  \* committed bytes, modulo CountMod
  dropped      \* rejected bytes

mailboxVars == <<unread, visible, block, write_count, read_count, dropped>>

(* A u32 counter advanced by n. *)
u32Plus(c, n) == IF c + n >= CountMod THEN c + n - CountMod ELSE c + n

(* The unsigned modular distance of two u32 counters. *)
counter_delta(newer, older) ==
  IF newer >= older THEN newer - older ELSE newer - older + CountMod

Init ==
  /\ unread = <<>>
  /\ visible = 0
  /\ block = <<>>
  /\ write_count = 0
  /\ read_count = 0
  /\ dropped = 0

(***************************************************************************)
(* The writer's half of a step yields the bytes it appends.                *)
(***************************************************************************)
Accept(pushed) ==
  /\ Len(unread) < BufferSize
  /\ pushed = <<write_count>>
  /\ write_count' = u32Plus(write_count, 1)
  /\ UNCHANGED dropped

DropNewest(pushed) ==
  /\ pushed = <<>>
  /\ dropped' >= dropped
  /\ UNCHANGED write_count

(***************************************************************************)
(* The reader's half yields the number of bytes it removes for good.       *)
(***************************************************************************)
Take(removed) ==
  /\ removed = 0
  /\ Len(block) < visible
  /\ block' = Append(block, unread[Len(block) + 1])
  /\ UNCHANGED read_count

Commit(removed) ==
  /\ removed = Len(block)
  /\ block' = <<>>
  /\ read_count' = u32Plus(read_count, Len(block))

Abort(removed) ==
  /\ removed = 0
  /\ block' = <<>>
  /\ UNCHANGED read_count

NoRead(removed) ==
  /\ removed = 0
  /\ UNCHANGED <<block, read_count>>

(***************************************************************************)
(* Bytes enter at the back and leave at the front.  What the reader has    *)
(* been told never shrinks but by its own commits, and never runs ahead of *)
(* what was accepted before.                                               *)
(***************************************************************************)
Exchange(pushed, removed) ==
  /\ unread' = SubSeq(unread, removed + 1, Len(unread)) \o pushed
  /\ visible' \in (visible - removed) .. (Len(unread) - removed)

(* Writer and reader run on unrelated clocks, so one step may be a step of *)
(* either or of both.                                                      *)
Transfer ==
  \E pushed \in {<<>>, <<write_count>>}, removed \in 0 .. Len(block) :
    /\ Accept(pushed) \/ DropNewest(pushed)
    /\ Take(removed) \/ Commit(removed) \/ Abort(removed) \/ NoRead(removed)
    /\ Exchange(pushed, removed)

(* The FPGA reset clears the counters and forgets the content. *)
Reset ==
  /\ unread' = <<>>
  /\ visible' = 0
  /\ block' = <<>>
  /\ write_count' = 0
  /\ read_count' = 0
  /\ dropped' = 0

Next == Transfer \/ Reset

Spec == Init /\ [][Next]_mailboxVars
=============================================================================
