---------------------------- MODULE MCJtagRing ----------------------------
(* The ring with ADDR_WIDTH = 2, the smallest its code allows: four bytes, *)
(* three-bit pointers.                                                     *)
EXTENDS JtagRing

G == INSTANCE GrayCode

MCGray == G!bin_to_gray(PtrWidth)

(* The registers hold Gray codes, the model the pointers they decode to.   *)
ASSUME GrayRoundTrip ==
  \A width \in 1 .. 8 : \A p \in 0 .. 2^width - 1 :
    G!gray_to_bin(width, G!bin_to_gray(width)[p]) = p
=============================================================================
