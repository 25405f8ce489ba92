-------------------------------- MODULE MCCamera --------------------------------
(* Cameras for TLC: without video, with one video stream, behind or before *)
(* another stream, and with two.                                           *)
EXTENDS Camera

SomeInputs == {<<"other">>, <<"video">>, <<"other", "video">>, <<"video", "other">>,
               <<"video", "video", "other">>}
=============================================================================
