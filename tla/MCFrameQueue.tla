----------------------------- MODULE MCFrameQueue -----------------------------
(* Values of FrameQueue's constants for TLC.                               *)
EXTENDS FrameQueue

TwoLengths == {1, 3}               \* the longer one exceeds a MaxSize of 2
Shrinking  == {1, 2}
=============================================================================
