------------------------------- MODULE Lifecycle -------------------------------
(***************************************************************************)
(* The life of the program's objects and threads (main.cpp).  main creates *)
(* the encoder, the cameras and the RTSP server, starts a capture thread   *)
(* per camera and the RTSP thread, and becomes the encoder thread itself   *)
(* (CameraH264Encoder::run).  When any thread ends it raises THREAD_STATE; *)
(* the encoder's loop then ends and main tears everything down: it sets    *)
(* fQuit, deletes the encoder, sleeps a second, kills the threads that are *)
(* still there and deletes their objects.                                  *)
(***************************************************************************)
EXTENDS Integers

CONSTANT NCam                      \* sub_pict_num(): the cameras configured

ASSUME LifecycleAssumption == NCam \in Nat \ {0}

Cams == 0 .. NCam - 1

VARIABLES
  mpc,              \* where main is
  icam,             \* the camera its loops are at
  encoder,          \* the object H264Encoder
  server,           \* the object RTSPServer
  cam,              \* the objects CamCapt[]
  source,           \* the CameraFrameSource of the RTSP thread
  onFrameFunc,      \* the encoder's OnFrameFunc is set; it leads to source
  cthread,          \* the capture threads
  rthread,          \* the RTSP thread
  THREAD_STATE,     \* 1 once some thread has ended
  fQuit             \* CameraRTSPServer::fQuit

vars == <<mpc, icam, encoder, server, cam, source, onFrameFunc, cthread,
          rthread, THREAD_STATE, fQuit>>

threadVars == <<source, onFrameFunc, cthread, rthread>>

Init ==
  /\ mpc = "start"
  /\ icam = 0
  /\ encoder = "none"
  /\ server = "none"
  /\ cam = [c \in Cams |-> "none"]
  /\ source = "none"
  /\ onFrameFunc = FALSE
  /\ cthread = [c \in Cams |-> "none"]
  /\ rthread = "none"
  /\ THREAD_STATE = 0
  /\ fQuit = 0

(***************************************************************************)
(* main: setting up.                                                       *)
(***************************************************************************)

(* new CameraH264Encoder, setup_encoder; not ready(): goto FINISHED        *)
NewEncoder ==
  /\ mpc = "start"
  /\ encoder' = "alive"
  /\ mpc' \in {"open", "finished"}
  /\ UNCHANGED <<icam, server, cam, threadVars, THREAD_STATE, fQuit>>

(* new CameraCapture, initialise; one that is not ready() is deleted again *)
OpenCamera ==
  /\ mpc = "open"
  /\ icam < NCam
  /\ \E opened \in {"alive", "none"} : cam' = [cam EXCEPT ![icam] = opened]
  /\ icam' = icam + 1
  /\ UNCHANGED <<mpc, encoder, server, threadVars, THREAD_STATE, fQuit>>

(* Without a single camera the program ends; with one it has a server. *)
NewServer ==
  /\ mpc = "open"
  /\ icam = NCam
  /\ icam' = 0
  /\ IF \E c \in Cams : cam[c] = "alive"
       THEN server' = "alive" /\ mpc' = "threads"
       ELSE UNCHANGED server /\ mpc' = "finished"
  /\ UNCHANGED <<encoder, cam, threadVars, THREAD_STATE, fQuit>>

(* CreateThread(runCapture) for every camera opened *)
StartCapture ==
  /\ mpc = "threads"
  /\ icam < NCam
  /\ icam' = icam + 1
  /\ cthread' = [cthread EXCEPT ![icam] = IF cam[icam] = "alive" THEN "run" ELSE "none"]
  /\ UNCHANGED <<mpc, encoder, server, cam, source, onFrameFunc, rthread,
                 THREAD_STATE, fQuit>>

(* CreateThread(runRTSPServer), then H264Encoder->run() *)
StartServer ==
  /\ mpc = "threads"
  /\ icam = NCam
  /\ rthread' = "setup"
  /\ mpc' = "loop"
  /\ UNCHANGED <<icam, encoder, server, cam, source, onFrameFunc, cthread,
                 THREAD_STATE, fQuit>>

(* A thread cannot be created: goto FINISHED, THREAD_STATE left as it is.  *)
StartFails ==
  /\ mpc = "threads"
  /\ icam < NCam => cam[icam] = "alive"
  /\ mpc' = "finished"
  /\ UNCHANGED <<icam, encoder, server, cam, threadVars, THREAD_STATE, fQuit>>

(***************************************************************************)
(* main: encoding.                                                         *)
(***************************************************************************)

(* while (true) { if (THREAD_STATE > 0) break; *)
LoopGoesOn ==
  /\ mpc = "loop"
  /\ THREAD_STATE = 0
  /\ mpc' = "encode"
  /\ UNCHANGED <<icam, encoder, server, cam, threadVars, THREAD_STATE, fQuit>>

(* The codec has no (further) packet for this picture: EAGAIN. *)
NoPacket ==
  /\ mpc = "encode"
  /\ mpc' = "loop"
  /\ UNCHANGED <<icam, encoder, server, cam, threadVars, THREAD_STATE, fQuit>>

(* send_packet calls OnFrameFunc, once it is set.  THREAD_STATE may be up  *)
(* by now: it was tested at the head of the loop only.                     *)
EncodePacket ==
  /\ mpc = "encode"
  /\ onFrameFunc
  /\ mpc' = "callback"
  /\ UNCHANGED <<icam, encoder, server, cam, threadVars, THREAD_STATE, fQuit>>

(* The callback returns; the codec may hold another packet. *)
CallbackReturns ==
  /\ mpc = "callback"
  /\ mpc' = "encode"
  /\ UNCHANGED <<icam, encoder, server, cam, threadVars, THREAD_STATE, fQuit>>

(* run() returns, because the loop saw THREAD_STATE or the codec failed;   *)
(* main raises THREAD_STATE itself.                                        *)
EncodingEnds ==
  /\ mpc = "encode" \/ (mpc = "loop" /\ THREAD_STATE > 0)
  /\ mpc' = "finished"
  /\ THREAD_STATE' = 1
  /\ UNCHANGED <<icam, encoder, server, cam, threadVars, fQuit>>

(***************************************************************************)
(* main: from the label FINISHED on.                                       *)
(***************************************************************************)

SignalExit ==
  /\ mpc = "finished"
  /\ fQuit' = IF server = "alive" THEN 1 ELSE fQuit
  /\ mpc' = "delete"
  /\ UNCHANGED <<icam, encoder, server, cam, threadVars, THREAD_STATE>>

DeleteEncoder ==
  /\ mpc = "delete"
  /\ encoder' = "deleted"
  /\ mpc' = "sleep"
  /\ UNCHANGED <<icam, server, cam, threadVars, THREAD_STATE, fQuit>>

(* Sleep(1000): how far the other threads get meanwhile is open. *)
Sleep ==
  /\ mpc = "sleep"
  /\ mpc' = "server"
  /\ UNCHANGED <<icam, encoder, server, cam, threadVars, THREAD_STATE, fQuit>>

running(thread) == thread \notin {"none", "dead", "killed"}

(* TerminateThread, for a thread that exists and is STILL_ACTIVE *)
killed(thread) == IF running(thread) THEN "killed" ELSE thread

(* Faulty: the thread is left running. *)
DeleteServer_NoKill ==
  /\ mpc = "server"
  /\ server' = IF server = "alive" THEN "deleted" ELSE server
  /\ mpc' = "cameras"
  /\ icam' = 0
  /\ UNCHANGED <<encoder, cam, threadVars, THREAD_STATE, fQuit>>

DeleteServer ==
  /\ mpc = "server"
  /\ IF server = "alive"
       THEN server' = "deleted" /\ rthread' = killed(rthread)
       ELSE UNCHANGED <<server, rthread>>
  /\ mpc' = "cameras"
  /\ icam' = 0
  /\ UNCHANGED <<encoder, cam, source, onFrameFunc, cthread, THREAD_STATE, fQuit>>

(* Faulty: a camera whose thread has ended is taken for deleted. *)
DeleteCamera_RunningOnly ==
  /\ mpc = "cameras"
  /\ icam < NCam
  /\ IF cam[icam] = "alive" /\ running(cthread[icam])
       THEN /\ cam' = [cam EXCEPT ![icam] = "deleted"]
            /\ cthread' = [cthread EXCEPT ![icam] = killed(@)]
       ELSE UNCHANGED <<cam, cthread>>
  /\ icam' = icam + 1
  /\ UNCHANGED <<mpc, encoder, server, source, onFrameFunc, rthread,
                 THREAD_STATE, fQuit>>

DeleteCamera ==
  /\ mpc = "cameras"
  /\ icam < NCam
  /\ IF cam[icam] = "alive"
       THEN /\ cam' = [cam EXCEPT ![icam] = "deleted"]
            /\ cthread' = [cthread EXCEPT ![icam] = killed(@)]
       ELSE UNCHANGED <<cam, cthread>>
  /\ icam' = icam + 1
  /\ UNCHANGED <<mpc, encoder, server, source, onFrameFunc, rthread,
                 THREAD_STATE, fQuit>>

Exit ==
  /\ mpc = "cameras"
  /\ icam = NCam
  /\ mpc' = "exit"
  /\ UNCHANGED <<icam, encoder, server, cam, threadVars, THREAD_STATE, fQuit>>

(***************************************************************************)
(* The capture thread of camera c: runCapture.                             *)
(***************************************************************************)

mainVars == <<mpc, icam, encoder, server, cam, fQuit>>

(* capture() delivers a frame: inside the encoder's receive_frame *)
CaptureFrame(c) ==
  /\ cthread[c] = "run"
  /\ cthread' = [cthread EXCEPT ![c] = "receive"]
  /\ UNCHANGED <<mainVars, source, onFrameFunc, rthread, THREAD_STATE>>

ReceiveReturns(c) ==
  /\ cthread[c] = "receive"
  /\ cthread' = [cthread EXCEPT ![c] = "run"]
  /\ UNCHANGED <<mainVars, source, onFrameFunc, rthread, THREAD_STATE>>

(* capture() returns: THREAD_STATE is up, or the camera failed *)
CaptureReturns(c) ==
  /\ cthread[c] = "run"
  /\ cthread' = [cthread EXCEPT ![c] = "ending"]
  /\ UNCHANGED <<mainVars, source, onFrameFunc, rthread, THREAD_STATE>>

(* Faulty: nobody is told. *)
CaptureEnds_Silent(c) ==
  /\ cthread[c] = "ending"
  /\ cthread' = [cthread EXCEPT ![c] = "dead"]
  /\ UNCHANGED <<mainVars, source, onFrameFunc, rthread, THREAD_STATE>>

(* Faulty: the server is told to quit along with the encoder. *)
CaptureEnds_SignalsServer(c) ==
  /\ cthread[c] = "ending"
  /\ cthread' = [cthread EXCEPT ![c] = "dead"]
  /\ THREAD_STATE' = 1
  /\ fQuit' = 1
  /\ UNCHANGED <<mpc, icam, encoder, server, cam, source, onFrameFunc, rthread>>

(* THREAD_STATE = 1; ExitThread *)
CaptureEnds(c) ==
  /\ cthread[c] = "ending"
  /\ cthread' = [cthread EXCEPT ![c] = "dead"]
  /\ THREAD_STATE' = 1
  /\ UNCHANGED <<mainVars, source, onFrameFunc, rthread>>

Capture(c) ==
  CaptureFrame(c) \/ ReceiveReturns(c) \/ CaptureReturns(c) \/ CaptureEnds(c)

(***************************************************************************)
(* The RTSP thread: runRTSPServer.                                         *)
(***************************************************************************)

(* createNew succeeds; the frame source registers itself with the encoder, *)
(* whose parameter sets and bit rate are read.                             *)
ServerStarts ==
  /\ rthread = "setup"
  /\ source' = "alive"
  /\ onFrameFunc' = TRUE
  /\ rthread' = "loop"
  /\ UNCHANGED <<mainVars, cthread, THREAD_STATE>>

(* createNew fails, as when the port is in use: nothing is set up *)
ServerFails ==
  /\ rthread = "setup"
  /\ rthread' = "ending"
  /\ UNCHANGED <<mainVars, source, onFrameFunc, cthread, THREAD_STATE>>

(* The event loop tests fQuit before each step; a step may fetch a packet  *)
(* or the parameter sets from the encoder.                                 *)
ServerFetch ==
  /\ rthread = "loop"
  /\ fQuit = 0
  /\ rthread' = "fetch"
  /\ UNCHANGED <<mainVars, source, onFrameFunc, cthread, THREAD_STATE>>

FetchReturns ==
  /\ rthread = "fetch"
  /\ rthread' = "loop"
  /\ UNCHANGED <<mainVars, source, onFrameFunc, cthread, THREAD_STATE>>

(* The loop ends; Medium::close deletes the frame source.  The encoder is  *)
(* not told.                                                               *)
ServerCloses ==
  /\ rthread = "loop"
  /\ fQuit # 0
  /\ source' = "deleted"
  /\ rthread' = "ending"
  /\ UNCHANGED <<mainVars, onFrameFunc, cthread, THREAD_STATE>>

ServerEnds ==
  /\ rthread = "ending"
  /\ rthread' = "dead"
  /\ THREAD_STATE' = 1
  /\ UNCHANGED <<mainVars, source, onFrameFunc, cthread>>

Server ==
  ServerStarts \/ ServerFails \/ ServerFetch \/ FetchReturns \/ ServerCloses \/ ServerEnds

(***************************************************************************)
(* The specification.                                                      *)
(***************************************************************************)

Main ==
  \/ NewEncoder \/ OpenCamera \/ NewServer
  \/ StartCapture \/ StartServer \/ StartFails
  \/ LoopGoesOn \/ NoPacket \/ EncodePacket \/ CallbackReturns \/ EncodingEnds
  \/ SignalExit \/ DeleteEncoder \/ Sleep \/ DeleteServer \/ DeleteCamera \/ Exit

Next == Main \/ Server \/ \E c \in Cams : Capture(c)

Spec == Init /\ [][Next]_vars

(* main is scheduled, a picture yields finitely many packets, and threads  *)
(* that have left their loops end.  Whether a camera ever answers again,   *)
(* or the event loop turns, is left open.                                  *)
Fairness ==
  /\ WF_vars(Main)
  /\ SF_vars(NoPacket)
  /\ \A c \in Cams : WF_vars(CaptureEnds(c))
  /\ WF_vars(ServerEnds)

FairSpec == Spec /\ Fairness

(***************************************************************************)
(* Properties.                                                             *)
(***************************************************************************)

Objects == {"none", "alive", "deleted"}

(* The type invariant. *)
TypeOK ==
  /\ mpc \in {"start", "open", "threads", "loop", "encode", "callback",
              "finished", "delete", "sleep", "server", "cameras", "exit"}
  /\ icam \in 0 .. NCam
  /\ encoder \in Objects
  /\ server \in Objects
  /\ cam \in [Cams -> Objects]
  /\ source \in Objects
  /\ onFrameFunc \in BOOLEAN
  /\ cthread \in [Cams -> {"none", "run", "receive", "ending", "dead", "killed"}]
  /\ rthread \in {"none", "setup", "loop", "fetch", "ending", "dead", "killed"}
  /\ THREAD_STATE \in {0, 1}
  /\ fQuit \in {0, 1}

(* No thread runs on an object that is gone: a camera is deleted after its *)
(* thread, the server, whose fQuit the event loop reads, after its own.    *)
OwnObjectAlive ==
  /\ \A c \in Cams : running(cthread[c]) => cam[c] = "alive"
  /\ running(rthread) => server = "alive"

(* The encoder calls back into the frame source only while it is there:    *)
(* the RTSP thread deletes it without unregistering the callback, and that *)
(* is safe only because main lets it go after its last packet.             *)
CallbackTargetAlive == mpc = "callback" => source = "alive"

(* The program ends with every object that main made deleted and no thread *)
(* left.  The frame source is the RTSP thread's: it deletes it itself, and *)
(* the source stays only when main killed the thread (main.cpp:317) before *)
(* it came to that (CameraRTSPServer.cpp:83).                              *)
CleanExit ==
  mpc = "exit" =>
    /\ encoder # "alive" /\ server # "alive"
    /\ \A c \in Cams : cam[c] # "alive" /\ ~running(cthread[c])
    /\ ~running(rthread)
    /\ source = "alive" => rthread = "killed"

(* The end of any thread is the end of the program, however the others     *)
(* hang: a camera unplugged, a port in use, an encoder that fails.         *)
EndsTogether ==
  /\ \A c \in Cams : cthread[c] = "ending" ~> mpc = "exit"
  /\ rthread = "ending" ~> mpc = "exit"

(* main waits for the threads to exit (main.cpp:311) before it takes away  *)
(* what they use: none is ever inside a call on a deleted encoder.         *)
EncoderOutlivesCalls ==
  (\E c \in Cams : cthread[c] = "receive") \/ rthread = "fetch" =>
    encoder = "alive"
=============================================================================
