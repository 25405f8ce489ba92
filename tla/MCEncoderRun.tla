----------------------------- MODULE MCEncoderRun -----------------------------
(* Mosaics for TLC: of one to three columns and rows, with marks that fit, *)
(* that just fit, and that do not.                                         *)
EXTENDS EncoderRun

Wheel == [kind |-> "wheel", w |-> 2, h |-> 2]
Text  == [kind |-> "text", w |-> 4, h |-> 1]

G(width, cols, rows, mark) ==
  [w |-> width, h |-> 4, ncol |-> cols, nrow |-> rows, mark |-> mark]

EvenMosaics ==
  {G(4, 3, 1, Wheel), G(4, 2, 2, Wheel), G(4, 1, 2, Text), G(8, 2, 1, Text), G(8, 1, 3, Text)}
=============================================================================
