------------------------------ MODULE EncoderRun ------------------------------
(***************************************************************************)
(* CameraH264Encoder::run by itself: the frame lines, then turns of the    *)
(* loop over the pictures (module MosaicLayout), each of which ends with   *)
(* the wait for the picture's time (module Pacing).  How it shares the     *)
(* slots with the capture threads is in module Mosaic.                     *)
(***************************************************************************)
EXTENDS MosaicLayout, Pacing

VARIABLES
  epc,              \* where run is
  ipict             \* the slot the loop is at

vars == <<layoutVars, pacingVars, epc, ipict>>

Init ==
  /\ InitLayout
  /\ InitPacing
  /\ epc = "lines"
  /\ ipict = 0

Lines ==
  /\ epc = "lines"
  /\ DrawFrameLines
  /\ epc' = "tiles"
  /\ UNCHANGED <<pacingVars, ipict>>

(* A slot with a new picture is copied, another one passed over. *)
Tile ==
  /\ epc = "tiles"
  /\ ipict \in Picts
  /\ CopyTile(ipict) \/ UNCHANGED layoutVars
  /\ ipict' = ipict + 1
  /\ UNCHANGED <<pacingVars, epc>>

(* All slots seen: wait, send the picture, take the codec's packets; the   *)
(* end when sending fails or THREAD_STATE says so.                         *)
Send ==
  /\ epc = "tiles"
  /\ ipict \notin Picts
  /\ \E d \in 0 .. MaxWork : Pace(d)
  /\ ipict' = 0
  /\ epc' \in {"tiles", "ended"}
  /\ UNCHANGED layoutVars

Next == Lines \/ Tile \/ Send

Spec == Init /\ [][Next]_vars

(* The type invariant. *)
TypeOK ==
  /\ TypeOKLayout
  /\ TypeOKPacing
  /\ epc \in {"lines", "tiles", "ended"}
  /\ ipict \in 0 .. geo.ncol * geo.nrow
=============================================================================
