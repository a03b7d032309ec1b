--------------------------- MODULE MCConvolution ---------------------------
(***************************************************************************)
(* Convolution for TLC: outputs of -1 to 5 cells a side, odd and even.     *)
(***************************************************************************)
EXTENDS Convolution

MCSizes == [input : 1 .. 5, kernel : 1 .. 3]
=============================================================================
