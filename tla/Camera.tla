-------------------------------- MODULE Camera --------------------------------
(***************************************************************************)
(* One CameraCapture: initialise opens the camera and takes what it needs  *)
(* from FFmpeg; capture reads packets, sends them to the decoder, takes    *)
(* the pictures that come out and hands them to the encoder; the           *)
(* destructor gives back what the object has.  What becomes of a picture   *)
(* that was handed over is in module Mosaic, what the threads do to each   *)
(* other in module Lifecycle.                                              *)
(*                                                                         *)
(* FFmpeg is external.  av_read_frame overwrites the packet it is given    *)
(* and av_packet_unref returns the packet's reference to its buffer; a     *)
(* decoder refuses packets (EAGAIN) while pictures wait in it.             *)
(***************************************************************************)
EXTENDS Integers, Sequences

CONSTANTS
  Inputs,           \* the cameras: sequences of the kinds of their streams
  MaxPicture        \* bound: pictures that one packet brings out

ASSUME CameraAssumption ==
  /\ \A s \in Inputs : s \in Seq({"video", "other"})
  /\ MaxPicture \in Nat

VARIABLES
  ipc,              \* where initialise is, then the object
  streams,          \* fInputCtx->streams
  fOutStreamNum,
  fState,
  held,             \* what the object has of FFmpeg
  cpc,              \* where capture is
  packet,           \* the packet: of which stream, with a buffer or not
  waiting,          \* pictures that wait in the decoder
  lost,             \* the kinds of packets whose references nobody has any more (history)
  refused,          \* the decoder has refused a packet (history)
  THREAD_STATE      \* 1 once some thread has ended

objectVars  == <<ipc, streams, fOutStreamNum, fState, held>>
captureVars == <<cpc, packet, waiting, lost, refused>>
vars        == <<objectVars, captureVars, THREAD_STATE>>

Running  == {"head", "packet", "decode", "unref"}
NoPacket == [stream |-> 0, buf |-> FALSE]

(* The constructor; main has set the callback. *)
Init ==
  /\ ipc = "desc" /\ streams \in Inputs /\ fOutStreamNum = 0 /\ fState = 0 /\ held = {}
  /\ cpc = "none" /\ packet = NoPacket /\ waiting = 0 /\ lost = {} /\ refused = FALSE
  /\ THREAD_STATE = 0

(***************************************************************************)
(* initialise                                                              *)
(***************************************************************************)

(* A step that gains what it names, or returns -1. *)
Stage(at, then, gained) ==
  /\ ipc = at
  /\ \/ ipc' = then /\ held' = held \cup gained
     \/ ipc' = "failed" /\ UNCHANGED held
  /\ UNCHANGED <<streams, fOutStreamNum, fState, captureVars, THREAD_STATE>>

(* avformat_open_input frees the context itself when it fails. *)
Open ==
  \/ Stage("desc", "open", {})                    \* no description, or no name
  \/ Stage("open", "info", {"fInputCtx"})
  \/ Stage("info", "video", {})                   \* avformat_find_stream_info

Videos == {n \in DOMAIN streams : streams[n] = "video"}

(* Faulty: the search leaves the number of the last stream it looked at. *)
FindVideo_AnyLast ==
  /\ ipc = "video"
  /\ IF Videos = {} THEN ipc' = "failed" /\ UNCHANGED fOutStreamNum
       ELSE ipc' = "decoder" /\ fOutStreamNum' = Len(streams)
  /\ UNCHANGED <<streams, fState, held, captureVars, THREAD_STATE>>

(* The last video stream is the one. *)
FindVideo ==
  /\ ipc = "video"
  /\ IF Videos = {} THEN ipc' = "failed" /\ UNCHANGED fOutStreamNum
       ELSE /\ ipc' = "decoder"
            /\ fOutStreamNum' \in {n \in Videos : \A m \in Videos : m <= n}
  /\ UNCHANGED <<streams, fState, held, captureVars, THREAD_STATE>>

(* The context is there when opening the decoder fails. *)
OpenDecoder ==
  \/ Stage("decoder", "codec", {"fDecCtx"})       \* avcodec_find_decoder
  \/ Stage("codec", "scaler", {"decoder"})        \* avcodec_open2

(* sws_getCachedContext may fail; nobody asks. *)
MakeScaler ==
  /\ ipc = "scaler"
  /\ ipc' = "frame"
  /\ held' \in {held, held \cup {"fpSwsCtx"}}
  /\ UNCHANGED <<streams, fOutStreamNum, fState, captureVars, THREAD_STATE>>

MakeFrame ==
  \/ Stage("frame", "buffer", {"fFrameOut"})
  \/ Stage("buffer", "finish", {"buffer"})

Finish ==
  /\ ipc = "finish"
  /\ ipc' = "ready"
  /\ fState' = 1
  /\ UNCHANGED <<streams, fOutStreamNum, held, captureVars, THREAD_STATE>>

initialise == Open \/ FindVideo \/ OpenDecoder \/ MakeScaler \/ MakeFrame \/ Finish

(***************************************************************************)
(* capture                                                                 *)
(***************************************************************************)

capturing == UNCHANGED <<objectVars, THREAD_STATE>>

(* runCapture raises THREAD_STATE when capture returns. *)
ends(how) == cpc' = how /\ THREAD_STATE' = 1 /\ UNCHANGED objectVars

Ours == packet.buf /\ packet.stream = fOutStreamNum

(* What is lost with the packet. *)
Lost == IF packet.buf THEN {IF Ours THEN "ours" ELSE "foreign"} ELSE {}

(* An error: capture returns, with its packet and its frame. *)
returns ==
  /\ lost' = lost \cup Lost
  /\ UNCHANGED <<packet, refused>>
  /\ ends("returned")

(* main starts the thread only if ready(). *)
CaptureBegins ==
  /\ ipc = "ready"
  /\ cpc = "none"
  /\ cpc' = "head"
  /\ UNCHANGED <<packet, waiting, lost, refused>>
  /\ capturing

(* THREAD_STATE > 0, or av_read_frame fails: break.  av_packet_free gives  *)
(* the reference back that the packet may still have.                      *)
Break ==
  /\ cpc = "head"
  /\ packet' = NoPacket
  /\ UNCHANGED <<waiting, lost, refused>>
  /\ ends("done")

(* Faulty: THREAD_STATE is not looked at. *)
Read_NoTest ==
  /\ cpc = "head"
  /\ lost' = lost \cup Lost
  /\ packet' \in [stream: DOMAIN streams, buf: BOOLEAN]
  /\ cpc' = "packet"
  /\ UNCHANGED <<waiting, refused>>
  /\ capturing

(* av_read_frame *)
Read ==
  /\ cpc = "head"
  /\ THREAD_STATE = 0
  /\ lost' = lost \cup Lost
  /\ packet' \in [stream: DOMAIN streams, buf: BOOLEAN]
  /\ cpc' = "packet"
  /\ UNCHANGED <<waiting, refused>>
  /\ capturing

(* continue *)
Skip ==
  /\ cpc = "packet"
  /\ ~Ours
  /\ cpc' = "head"
  /\ UNCHANGED <<packet, waiting, lost, refused>>
  /\ capturing

(* avcodec_send_packet: it succeeds, or is refused, which is taken for     *)
(* success, or fails.                                                      *)
Send ==
  /\ cpc = "packet"
  /\ Ours
  /\ \/ /\ IF waiting > 0
             THEN refused' = TRUE /\ UNCHANGED waiting
             ELSE waiting' \in 0 .. MaxPicture /\ UNCHANGED refused
        /\ cpc' = "decode"
        /\ UNCHANGED <<packet, lost>>
        /\ capturing
     \/ returns /\ UNCHANGED waiting

(* Faulty: one picture is taken for every packet. *)
Receive_Once ==
  /\ cpc = "decode"
  /\ waiting > 0
  /\ \/ /\ waiting' = waiting - 1
        /\ cpc' = IF "fpSwsCtx" \in held THEN "unref" ELSE "crash"
        /\ UNCHANGED <<packet, lost, refused>>
        /\ capturing
     \/ returns /\ waiting' = 0

(* avcodec_receive_frame brings a picture, which is scaled, decorated,     *)
(* copied to fDataOut and handed over; or it fails, or the scaling fails.  *)
(* Scaling without a context is undefined.                                 *)
Receive ==
  /\ cpc = "decode"
  /\ waiting > 0
  /\ \/ /\ waiting' = waiting - 1
        /\ cpc' = IF "fpSwsCtx" \in held THEN "decode" ELSE "crash"
        /\ UNCHANGED <<packet, lost, refused>>
        /\ capturing
     \/ returns /\ waiting' = 0

(* EAGAIN: break; or another error. *)
NoMorePictures ==
  /\ cpc = "decode"
  /\ waiting = 0
  /\ \/ /\ cpc' = "unref"
        /\ UNCHANGED <<packet, lost, refused>>
        /\ capturing
     \/ returns
  /\ UNCHANGED waiting

(* Faulty: only the frame is unreferenced. *)
Unref_Frame ==
  /\ cpc = "unref"
  /\ cpc' = "head"
  /\ UNCHANGED <<packet, waiting, lost, refused>>
  /\ capturing

(* Sleep(1), av_packet_unref, av_frame_unref *)
Unref ==
  /\ cpc = "unref"
  /\ packet' = NoPacket
  /\ cpc' = "head"
  /\ UNCHANGED <<waiting, lost, refused>>
  /\ capturing

capture == Break \/ Read \/ Skip \/ Send \/ Receive \/ NoMorePictures \/ Unref

(***************************************************************************)
(* main                                                                    *)
(***************************************************************************)

(* Another thread has ended. *)
OtherEnds ==
  /\ THREAD_STATE = 0
  /\ THREAD_STATE' = 1
  /\ UNCHANGED <<objectVars, captureVars>>

(* Faulty: nothing is freed that initialise had before it failed. *)
finalise_Ready(h) == IF fState = 1 THEN {} ELSE h

(* What the destructor leaves: the decoder goes with its context, the      *)
(* buffer with its frame.                                                  *)
finalise(h) == h \ {"fDecCtx", "decoder", "fInputCtx", "fFrameOut", "buffer", "fpSwsCtx"}

(* delete CamCapt[icam]: at once if it is not ready(), else when the       *)
(* thread has ended or, when some thread has ended, was killed.            *)
Delete ==
  /\ \/ ipc = "failed"
     \/ ipc = "ready" /\ cpc # "crash" /\ (cpc = "none" \/ THREAD_STATE = 1)
  /\ ipc' = "deleted"
  /\ held' = finalise(held)
  /\ IF cpc \in Running THEN cpc' = "killed" /\ lost' = lost \cup Lost
       ELSE UNCHANGED <<cpc, lost>>
  /\ UNCHANGED <<streams, fOutStreamNum, fState, packet, waiting, refused, THREAD_STATE>>

Next == initialise \/ CaptureBegins \/ capture \/ OtherEnds \/ Delete

Spec     == Init /\ [][Next]_vars
FairSpec == Spec /\ WF_vars(capture)

(***************************************************************************)
(* Properties.                                                             *)
(***************************************************************************)

(* The type invariant. *)
TypeOK ==
  /\ ipc \in {"desc", "open", "info", "video", "decoder", "codec", "scaler", "frame",
              "buffer", "finish", "ready", "failed", "deleted"}
  /\ streams \in Inputs
  /\ fOutStreamNum \in 0 .. Len(streams)
  /\ fState \in {0, 1}
  /\ held \subseteq {"fInputCtx", "fDecCtx", "decoder", "fpSwsCtx", "fFrameOut", "buffer"}
  /\ cpc \in Running \cup {"none", "done", "returned", "killed", "crash"}
  /\ packet \in [stream: 0 .. Len(streams), buf: BOOLEAN]
  /\ waiting \in 0 .. MaxPicture
  /\ lost \subseteq {"ours", "foreign"}
  /\ refused \in BOOLEAN
  /\ THREAD_STATE \in {0, 1}

(* ready() promises capture everything it uses without asking, but for the *)
(* scaler, whose making is not looked at; and the packets it waits for are *)
(* of a video stream.                                                      *)
ReadyMeansUsable ==
  fState = 1 =>
    /\ streams[fOutStreamNum] = "video"
    /\ ipc = "ready" => {"fInputCtx", "fDecCtx", "decoder", "fFrameOut", "buffer"} \subseteq held

(* Wherever initialise gave up and whatever capture did, the destructor    *)
(* leaves nothing behind of what the object has.                           *)
FreedWhenDeleted == ipc = "deleted" => held = {}

(* The references of the camera's own packets are given back, but for the  *)
(* one that capture has when it returns for an error or is killed.         *)
OwnPacketsReturned == "ours" \in lost => cpc \in {"returned", "killed"}

(* That the decoder refuses a packet is taken for success, and the packet  *)
(* is then dropped; it never comes to that, since all pictures are taken   *)
(* before the next packet.                                                 *)
NoneRefused == ~refused

(* A capture thread ends once another has, whatever its camera sends, if   *)
(* only FFmpeg's calls return.                                             *)
StopsWhenTold == THREAD_STATE = 1 ~> cpc \notin Running
=============================================================================
