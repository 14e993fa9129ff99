----------------------------- MODULE GrayCode -----------------------------
(***************************************************************************)
(* The reflected binary Gray code as the JTAG ring computes it             *)
(* (bin_to_gray and gray_to_bin of yifpga_jtag_ring_buffer.sv), as tables  *)
(* over all pointers of a given width.                                     *)
(***************************************************************************)
EXTENDS Integers

(* Bit i of a binary value. *)
BinBit(value, i) == (value \div 2^i) % 2

(* (value >> 1) ^ value, bit by bit *)
bin_to_gray(width) ==
  [value \in 0 .. 2^width - 1 |->
    [i \in 0 .. width - 1 |->
      (BinBit(value, i) + BinBit(value, i + 1)) % 2]]

(* From the top bit down, each bit is the xor of its Gray bit with the bit *)
(* above it.                                                               *)
gray_to_bin(width, code) ==
  LET bit[i \in 0 .. width] ==
        IF i = width THEN 0 ELSE (bit[i + 1] + code[i]) % 2
      value[i \in 0 .. width] ==
        IF i = width THEN 0 ELSE value[i + 1] + bit[i] * 2^i
  IN  value[0]
=============================================================================
