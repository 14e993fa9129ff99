----------------------------- MODULE MCMonitor -----------------------------
(***************************************************************************)
(* The requests of the checked instance: a read that is made again and     *)
(* again, and one request of every other kind.  The data of the last write *)
(* are a5 01 20 20, which looks like the start of a long frame.            *)
(***************************************************************************)
EXTENDS Monitor

Read(a) == [write |-> FALSE, addr |-> a, width |-> FullWidth]
Write(a, data, mask) ==
  [write |-> TRUE, addr |-> a, width |-> FullWidth, wdata |-> data, wmask |-> mask]

MCUsual == Read(PROFILER_STATUS)
MCCatalog ==
  {MCUsual, Read(Word(7)), [Read(CONTROL) EXCEPT !.width = Word(1)], Write(ID, {1}, {1}),
   Write(CONTROL, {1, 9}, {1, 2}), Write(DEMO_PERIOD, {}, 0 .. 31),
   Write(CLEAR_COUNTERS, {0}, 0 .. 31), Write(PROFILER_STATUS, {0}, 0 .. 31),
   Write(CONTROL, SOF \cup {8, 21, 29}, {})}
MCChanges == {SOF, ByteOf(32)}
MCRaises == {{}, {0}}
=============================================================================
