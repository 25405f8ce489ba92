------------------------------- MODULE MCMosaic -------------------------------
(* Values of Mosaic's constants for TLC.                                   *)
EXTENDS Mosaic

OuterCams == {0, 2}                \* of three slots, the middle one has no camera
=============================================================================
