------------------------------ MODULE LatestFrame ------------------------------
(***************************************************************************)
(* What the mosaic promises of each of its pictures, without buffers,      *)
(* locks or threads: a mailbox for one frame per picture.  Posting         *)
(* replaces whatever is in the box; showing takes the newest frame posted, *)
(* and a frame is shown once at most.                                      *)
(***************************************************************************)
EXTENDS Naturals

CONSTANTS Slots, Cams              \* Cams: the slots that have a camera

VARIABLES
  newest,                          \* number of the last frame posted
  fresh,                           \* it has not been shown yet
  shown                            \* number of the last frame shown

boxVars == <<newest, fresh, shown>>

Init ==
  /\ newest = [s \in Slots |-> 0]
  /\ fresh = [s \in Slots |-> FALSE]
  /\ shown = [s \in Slots |-> 0]

Post(c) ==
  /\ newest' = [newest EXCEPT ![c] = @ + 1]
  /\ fresh' = [fresh EXCEPT ![c] = TRUE]
  /\ UNCHANGED shown

Show(s) ==
  /\ fresh[s]
  /\ shown' = [shown EXCEPT ![s] = newest[s]]
  /\ fresh' = [fresh EXCEPT ![s] = FALSE]
  /\ UNCHANGED newest

Next == (\E c \in Cams : Post(c)) \/ (\E s \in Slots : Show(s))

Spec == Init /\ [][Next]_boxVars
=============================================================================
