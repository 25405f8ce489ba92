--------------------------- MODULE LifecycleProofs ---------------------------
(***************************************************************************)
(* Proofs about Lifecycle, for every number of cameras.                    *)
(***************************************************************************)
EXTENDS Lifecycle, TLAPS

(* No thread exists before main has left its set-up, and a server does     *)
(* when main creates threads.                                              *)
Stages ==
  /\ mpc \in {"start", "open"} => rthread = "none" /\ \A c \in Cams : cthread[c] = "none"
  /\ mpc = "threads" => server = "alive" /\ rthread = "none"

(* While fQuit is down the encoder's callback, once set, leads to a frame  *)
(* source; main raises fQuit only after its last packet.                   *)
Callback ==
  /\ fQuit # 0 => mpc \in {"delete", "sleep", "server", "cameras", "exit"}
  /\ onFrameFunc /\ fQuit = 0 => source = "alive"
  /\ mpc = "callback" => onFrameFunc

(* The frame source is there while the RTSP thread is in its event loop,   *)
(* and after that only if the thread was killed.                           *)
Owner == source = "alive" => rthread \in {"loop", "fetch", "killed"}

(* What main's teardown is past is gone. *)
Cleared ==
  /\ mpc \in {"sleep", "server", "cameras", "exit"} => encoder = "deleted"
  /\ mpc \in {"cameras", "exit"} =>
       server # "alive" /\ \A c \in Cams : c < icam => cam[c] # "alive"
  /\ mpc = "exit" => icam = NCam

(* The inductive invariant. *)
IInv == TypeOK /\ OwnObjectAlive /\ Stages /\ Callback /\ Owner /\ Cleared

(* The program starts in it. *)
LEMMA InitIInv == Init => IInv
<1> USE DEF Init
<1>1. Init => TypeOK
  <2>1. Init => icam \in 0 .. NCam
    BY LifecycleAssumption
  <2>2. "none" \in Objects
    BY DEF Objects
  <2>3. Init => cam \in [Cams -> Objects]
    BY <2>2
  <2>4. Init => cthread \in [Cams -> {"none", "run", "receive", "ending", "dead", "killed"}]
    OBVIOUS
  <2> QED
    BY <2>1, <2>2, <2>3, <2>4 DEF TypeOK
<1>2. Init => OwnObjectAlive /\ Stages
  BY DEF OwnObjectAlive, Stages, running
<1>3. Init => Callback /\ Owner /\ Cleared
  BY DEF Callback, Owner, Cleared
<1> QED
  BY <1>1, <1>2, <1>3 DEF IInv

(* main's set-up keeps it. *)
LEMMA SettingUp ==
  ASSUME IInv,
         NewEncoder \/ OpenCamera \/ NewServer \/ StartCapture \/ StartServer \/ StartFails
  PROVE  IInv'
<1> USE LifecycleAssumption DEF IInv, threadVars, Objects, running, Cams
<1>1. CASE NewEncoder
  BY <1>1 DEF NewEncoder, TypeOK, OwnObjectAlive, Stages, Callback, Owner, Cleared
<1>2. CASE OpenCamera
  BY <1>2 DEF OpenCamera, TypeOK, OwnObjectAlive, Stages, Callback, Owner, Cleared
<1>3. CASE NewServer
  BY <1>3 DEF NewServer, TypeOK, OwnObjectAlive, Stages, Callback, Owner, Cleared
<1>4. CASE StartCapture
  BY <1>4 DEF StartCapture, TypeOK, OwnObjectAlive, Stages, Callback, Owner, Cleared
<1>5. CASE StartServer
  BY <1>5 DEF StartServer, TypeOK, OwnObjectAlive, Stages, Callback, Owner, Cleared
<1>6. CASE StartFails
  BY <1>6 DEF StartFails, TypeOK, OwnObjectAlive, Stages, Callback, Owner, Cleared
<1> QED
  BY <1>1, <1>2, <1>3, <1>4, <1>5, <1>6

(* The encoding loop keeps it. *)
LEMMA Encoding ==
  ASSUME IInv,
         LoopGoesOn \/ NoPacket \/ EncodePacket \/ CallbackReturns \/ EncodingEnds
  PROVE  IInv'
<1> USE LifecycleAssumption DEF IInv, threadVars, Objects, running, Cams
<1>1. CASE LoopGoesOn
  BY <1>1 DEF LoopGoesOn, TypeOK, OwnObjectAlive, Stages, Callback, Owner, Cleared
<1>2. CASE NoPacket
  BY <1>2 DEF NoPacket, TypeOK, OwnObjectAlive, Stages, Callback, Owner, Cleared
<1>3. CASE EncodePacket
  BY <1>3 DEF EncodePacket, TypeOK, OwnObjectAlive, Stages, Callback, Owner, Cleared
<1>4. CASE CallbackReturns
  BY <1>4 DEF CallbackReturns, TypeOK, OwnObjectAlive, Stages, Callback, Owner, Cleared
<1>5. CASE EncodingEnds
  BY <1>5 DEF EncodingEnds, TypeOK, OwnObjectAlive, Stages, Callback, Owner, Cleared
<1> QED
  BY <1>1, <1>2, <1>3, <1>4, <1>5

(* Teardown keeps it: a thread is killed before its object goes. *)
LEMMA TearingDown ==
  ASSUME IInv,
         SignalExit \/ DeleteEncoder \/ Sleep \/ DeleteServer \/ DeleteCamera \/ Exit
  PROVE  IInv'
<1> USE LifecycleAssumption DEF IInv, threadVars, Objects, running, Cams
<1>1. CASE SignalExit
  BY <1>1 DEF SignalExit, TypeOK, OwnObjectAlive, Stages, Callback, Owner, Cleared
<1>2. CASE DeleteEncoder
  BY <1>2 DEF DeleteEncoder, TypeOK, OwnObjectAlive, Stages, Callback, Owner, Cleared
<1>3. CASE Sleep
  BY <1>3 DEF Sleep, TypeOK, OwnObjectAlive, Stages, Callback, Owner, Cleared
<1>4. CASE DeleteServer
  BY <1>4 DEF DeleteServer, killed, TypeOK, OwnObjectAlive, Stages, Callback, Owner, Cleared
<1>5. CASE DeleteCamera
  <2> USE <1>5 DEF DeleteCamera, killed
  <2>1. TypeOK'
    BY DEF TypeOK
  <2>2. OwnObjectAlive'
    BY DEF TypeOK, OwnObjectAlive
  <2>3. Stages' /\ Callback' /\ Owner'
    BY DEF TypeOK, Stages, Callback, Owner
  <2>4. Cleared'
    BY DEF TypeOK, Cleared
  <2> QED
    BY <2>1, <2>2, <2>3, <2>4
<1>6. CASE Exit
  BY <1>6 DEF Exit, TypeOK, OwnObjectAlive, Stages, Callback, Owner, Cleared
<1> QED
  BY <1>1, <1>2, <1>3, <1>4, <1>5, <1>6

(* A capture thread only moves on while it runs. *)
LEMMA Capturing ==
  ASSUME IInv, NEW c \in Cams, Capture(c)
  PROVE  IInv'
<1> USE DEF IInv, mainVars, Objects, running
<1>1. CASE CaptureFrame(c)
  BY <1>1 DEF CaptureFrame, TypeOK, OwnObjectAlive, Stages, Callback, Owner, Cleared
<1>2. CASE ReceiveReturns(c)
  BY <1>2 DEF ReceiveReturns, TypeOK, OwnObjectAlive, Stages, Callback, Owner, Cleared
<1>3. CASE CaptureReturns(c)
  BY <1>3 DEF CaptureReturns, TypeOK, OwnObjectAlive, Stages, Callback, Owner, Cleared
<1>4. CASE CaptureEnds(c)
  BY <1>4 DEF CaptureEnds, TypeOK, OwnObjectAlive, Stages, Callback, Owner, Cleared
<1> QED
  BY <1>1, <1>2, <1>3, <1>4 DEF Capture

(* So does the RTSP thread, which deletes the source only under fQuit. *)
LEMMA Serving ==
  ASSUME IInv, Server
  PROVE  IInv'
<1> USE DEF IInv, mainVars, Objects, running
<1>1. CASE ServerStarts
  BY <1>1 DEF ServerStarts, TypeOK, OwnObjectAlive, Stages, Callback, Owner, Cleared
<1>2. CASE ServerFails
  BY <1>2 DEF ServerFails, TypeOK, OwnObjectAlive, Stages, Callback, Owner, Cleared
<1>3. CASE ServerFetch
  BY <1>3 DEF ServerFetch, TypeOK, OwnObjectAlive, Stages, Callback, Owner, Cleared
<1>4. CASE FetchReturns
  BY <1>4 DEF FetchReturns, TypeOK, OwnObjectAlive, Stages, Callback, Owner, Cleared
<1>5. CASE ServerCloses
  BY <1>5 DEF ServerCloses, TypeOK, OwnObjectAlive, Stages, Callback, Owner, Cleared
<1>6. CASE ServerEnds
  BY <1>6 DEF ServerEnds, TypeOK, OwnObjectAlive, Stages, Callback, Owner, Cleared
<1> QED
  BY <1>1, <1>2, <1>3, <1>4, <1>5, <1>6 DEF Server

(* The invariant holds at every step of the program.                       *)
LEMMA Invariance == Spec => []IInv
<1>1. IInv /\ [Next]_vars => IInv'
  <2> SUFFICES ASSUME IInv, [Next]_vars
               PROVE  IInv'
    OBVIOUS
  <2>1. CASE Main
    BY <2>1, SettingUp, Encoding, TearingDown DEF Main
  <2>2. CASE Server
    BY <2>2, Serving
  <2>3. ASSUME NEW c \in Cams, Capture(c) PROVE IInv'
    BY <2>3, Capturing
  <2>4. CASE UNCHANGED vars
    BY <2>4 DEF vars, IInv, TypeOK, OwnObjectAlive, Stages, Callback, Owner, Cleared, Objects, running
  <2> QED
    BY <2>1, <2>2, <2>3, <2>4 DEF Next
<1> QED
  BY InitIInv, <1>1, PTL DEF Spec

(* The variables keep their types, whatever fails and whoever ends first. *)
THEOREM TypeCorrect == Spec => []TypeOK
BY Invariance, PTL DEF IInv

(* No thread runs on a deleted object (main.cpp:313-330): on every path to *)
(* FINISHED a thread is gone before main deletes what it runs on.          *)
THEOREM ObjectsOutliveThreads == Spec => []OwnObjectAlive
BY Invariance, PTL DEF IInv

(* The callback that the RTSP thread leaves behind in the encoder is never *)
(* called after the frame source has been deleted.                         *)
THEOREM CallbackSafe == Spec => []CallbackTargetAlive
<1>1. IInv => CallbackTargetAlive
  BY DEF IInv, Callback, CallbackTargetAlive
<1> QED
  BY Invariance, <1>1, PTL

(* When main returns, every object that it made is deleted and every       *)
(* thread is gone; the frame source too, unless its thread was killed.     *)
THEOREM ExitsClean == Spec => []CleanExit
<1>1. IInv => CleanExit
  <2> SUFFICES ASSUME IInv, mpc = "exit"
               PROVE  /\ encoder # "alive" /\ server # "alive"
                      /\ \A c \in Cams : cam[c] # "alive" /\ ~running(cthread[c])
                      /\ ~running(rthread)
                      /\ source = "alive" => rthread = "killed"
    BY DEF CleanExit
  <2>1. encoder # "alive" /\ server # "alive"
    BY DEF IInv, Cleared
  <2>2. \A c \in Cams : cam[c] # "alive"
    BY LifecycleAssumption DEF IInv, Cleared, Cams
  <2> QED
    BY <2>1, <2>2 DEF IInv, OwnObjectAlive, Owner, running
<1> QED
  BY Invariance, <1>1, PTL
=============================================================================
