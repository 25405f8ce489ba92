-------------------------------- MODULE Mosaic --------------------------------
(***************************************************************************)
(* Camera frames on their way into the mosaic picture: the capture threads *)
(* (CameraCapture::capture, one per camera) hand their frames to the slots *)
(* of the encoder (CameraH264Encoder::receive_frame); the encoder thread   *)
(* (CameraH264Encoder::run) takes what is new, copies it to its tile of    *)
(* the picture and sends the picture to the codec.                         *)
(*                                                                         *)
(* Frames travel by DataPacket::swap, through three kinds of owners:       *)
(* fDataOut of a camera, fSubPict of a slot and the one pack_in of run(),  *)
(* so that a buffer may wander from camera to camera.  These hold buffer   *)
(* numbers; `mem' is what is in a buffer.  The luma and the chroma plane   *)
(* of a frame are written and read one after the other.                    *)
(***************************************************************************)
EXTENDS Integers

CONSTANTS
  NPict,            \* number of slots: fMosaicCol * fMosaicRow
  Cams,             \* the slots that have a camera and its capture thread
  MaxFrame          \* bound: frames per camera

ASSUME MosaicAssumption ==
  /\ NPict \in Nat \ {0}
  /\ Cams \subseteq 0 .. NPict - 1
  /\ MaxFrame \in Nat

Slots == 0 .. NPict - 1
Bufs  == 0 .. 2 * NPict            \* the slots' own, pack_in's, the cameras' own

VARIABLES
  fDataOut,         \* CameraCapture::fDataOut of each camera
  fSubPict,         \* fSubPict of each slot
  packIn,           \* pack_in
  mem,              \* the buffers' contents
  fSubPictState,    \* fSubPictState of each slot
  slotLock,         \* holder of fSubPictMutex of each slot
  cpc,              \* where each capture thread is
  fFrameCnt,        \* frames each camera has copied out
  posted,           \* frames each slot has received (history)
  epc,              \* where the encoder thread is
  ipict,            \* the slot its loop is at
  tile,             \* the tiles of fSrcFrame
  THREAD_STATE      \* 1 once some thread has ended

vars == <<fDataOut, fSubPict, packIn, mem, fSubPictState, slotLock, cpc,
          fFrameCnt, posted, epc, ipict, tile, THREAD_STATE>>

NoFrame == [cam |-> -1, seq |-> 0]

Init ==
  /\ fSubPict = [s \in Slots |-> s]
  /\ packIn = NPict
  /\ fDataOut = [c \in Cams |-> NPict + 1 + c]
  /\ mem = [b \in Bufs |-> [y |-> NoFrame, uv |-> NoFrame, full |-> b = NPict]]
  /\ fSubPictState = [s \in Slots |-> 0]
  /\ slotLock = [s \in Slots |-> "none"]
  /\ cpc = [c \in Cams |-> "read"]
  /\ fFrameCnt = [c \in Cams |-> 0]
  /\ posted = [s \in Slots |-> 0]
  /\ epc = "loop"
  /\ ipict = 0
  /\ tile = [s \in Slots |-> [y |-> NoFrame, uv |-> NoFrame]]
  /\ THREAD_STATE = 0

(***************************************************************************)
(* The capture thread of camera c.                                         *)
(***************************************************************************)

ownedByEncoder == <<packIn, epc, ipict, tile>>
slotVars       == <<fSubPict, fSubPictState, slotLock, posted>>

(* The thread ends: because another one has (the test at the head of the   *)
(* loop), or because reading, decoding or scaling failed.                  *)
CaptureExit(c) ==
  /\ cpc[c] \in {"read", "decode"}
  /\ cpc' = [cpc EXCEPT ![c] = "done"]
  /\ THREAD_STATE' = 1
  /\ UNCHANGED <<slotVars, ownedByEncoder, fDataOut, mem, fFrameCnt>>

(* av_read_frame brings a packet of the camera's stream for the decoder.   *)
CaptureRead(c) ==
  /\ cpc[c] = "read"
  /\ THREAD_STATE = 0
  /\ cpc' = [cpc EXCEPT ![c] = "decode"]
  /\ UNCHANGED <<slotVars, ownedByEncoder, fDataOut, mem, fFrameCnt, THREAD_STATE>>

(* The decoder has no (further) frame: EAGAIN. *)
CaptureAgain(c) ==
  /\ cpc[c] = "decode"
  /\ cpc' = [cpc EXCEPT ![c] = "read"]
  /\ UNCHANGED <<slotVars, ownedByEncoder, fDataOut, mem, fFrameCnt, THREAD_STATE>>

(* A frame is decoded and scaled; fDataOut.resize, and the first plane of  *)
(* av_image_copy_to_buffer.                                                *)
CaptureLuma(c) ==
  /\ cpc[c] = "decode"
  /\ fFrameCnt[c] < MaxFrame
  /\ cpc' = [cpc EXCEPT ![c] = "chroma"]
  /\ mem' = [mem EXCEPT ![fDataOut[c]] =
               [@ EXCEPT !.y = [cam |-> c, seq |-> fFrameCnt[c] + 1], !.full = TRUE]]
  /\ UNCHANGED <<slotVars, ownedByEncoder, fDataOut, fFrameCnt, THREAD_STATE>>

(* Its second plane, and ++fFrameCnt. *)
CaptureChroma(c) ==
  /\ cpc[c] = "chroma"
  /\ cpc' = [cpc EXCEPT ![c] = "enter"]
  /\ mem' = [mem EXCEPT ![fDataOut[c]] =
               [@ EXCEPT !.uv = [cam |-> c, seq |-> fFrameCnt[c] + 1]]]
  /\ fFrameCnt' = [fFrameCnt EXCEPT ![c] = @ + 1]
  /\ UNCHANGED <<slotVars, ownedByEncoder, fDataOut, THREAD_STATE>>

(* receive_frame, called back by the camera: EnterCriticalSection *)
ReceiveEnter(c) ==
  /\ cpc[c] = "enter"
  /\ slotLock[c] = "none"
  /\ slotLock' = [slotLock EXCEPT ![c] = "cam"]
  /\ cpc' = [cpc EXCEPT ![c] = "swap"]
  /\ UNCHANGED <<ownedByEncoder, fDataOut, mem, fFrameCnt, fSubPict,
                 fSubPictState, posted, THREAD_STATE>>

(* Faulty: the slot takes fDataOut's memory, the camera keeps it too.      *)
ReceiveSwap_NoSwap(c) ==
  /\ cpc[c] = "swap"
  /\ fSubPict' = [fSubPict EXCEPT ![c] = fDataOut[c]]
  /\ fSubPictState' = [fSubPictState EXCEPT ![c] = 1]
  /\ posted' = [posted EXCEPT ![c] = @ + 1]
  /\ cpc' = [cpc EXCEPT ![c] = "leave"]
  /\ UNCHANGED <<ownedByEncoder, fDataOut, mem, fFrameCnt, slotLock, THREAD_STATE>>

(* fSubPict[ipict].swap( *pict ), and the flag *)
ReceiveSwap(c) ==
  /\ cpc[c] = "swap"
  /\ fSubPict' = [fSubPict EXCEPT ![c] = fDataOut[c]]
  /\ fDataOut' = [fDataOut EXCEPT ![c] = fSubPict[c]]
  /\ fSubPictState' = [fSubPictState EXCEPT ![c] = 1]
  /\ posted' = [posted EXCEPT ![c] = @ + 1]
  /\ cpc' = [cpc EXCEPT ![c] = "leave"]
  /\ UNCHANGED <<ownedByEncoder, mem, fFrameCnt, slotLock, THREAD_STATE>>

(* LeaveCriticalSection; the decoder may hold another frame. *)
ReceiveLeave(c) ==
  /\ cpc[c] = "leave"
  /\ slotLock' = [slotLock EXCEPT ![c] = "none"]
  /\ cpc' = [cpc EXCEPT ![c] = "decode"]
  /\ UNCHANGED <<ownedByEncoder, fDataOut, mem, fFrameCnt, fSubPict,
                 fSubPictState, posted, THREAD_STATE>>

Capture(c) ==
  \/ CaptureExit(c) \/ CaptureRead(c) \/ CaptureAgain(c)
  \/ CaptureLuma(c) \/ CaptureChroma(c)
  \/ ReceiveEnter(c) \/ ReceiveSwap(c) \/ ReceiveLeave(c)

(***************************************************************************)
(* The encoder thread.                                                     *)
(***************************************************************************)

ownedByCameras == <<fDataOut, cpc, fFrameCnt, posted>>

(* Faulty: the loop stops before the last slot. *)
EncAdvance_TooShort ==
  IF ipict + 2 >= NPict
    THEN epc' = "send" /\ ipict' = 0
    ELSE epc' = "look" /\ ipict' = ipict + 1

(* The next slot of the for loop, or the end of the loop. *)
EncAdvance ==
  IF ipict + 1 = NPict
    THEN epc' = "send" /\ ipict' = 0
    ELSE epc' = "look" /\ ipict' = ipict + 1

(* while (true) { if (THREAD_STATE > 0) break; ... *)
EncLoop ==
  /\ epc = "loop"
  /\ epc' = IF THREAD_STATE > 0 THEN "done" ELSE "look"
  /\ UNCHANGED <<ownedByCameras, packIn, ipict, tile, mem, fSubPict,
                 fSubPictState, slotLock, THREAD_STATE>>

(* Faulty: the slot is taken whether or not its flag is up. *)
EncLook_Unflagged ==
  /\ epc = "look"
  /\ epc' = "try"
  /\ UNCHANGED <<ownedByCameras, packIn, ipict, tile, mem, fSubPict,
                 fSubPictState, slotLock, THREAD_STATE>>

(* fSubPictState is read without the lock. *)
EncLook ==
  /\ epc = "look"
  /\ IF fSubPictState[ipict] = 1 THEN epc' = "try" /\ UNCHANGED ipict ELSE EncAdvance
  /\ UNCHANGED <<ownedByCameras, packIn, tile, mem, fSubPict, fSubPictState,
                 slotLock, THREAD_STATE>>

(* Faulty: EnterCriticalSection, which waits for a busy slot. *)
EncTry_Waits ==
  /\ epc = "try"
  /\ slotLock[ipict] = "none"
  /\ slotLock' = [slotLock EXCEPT ![ipict] = "enc"]
  /\ epc' = "take"
  /\ UNCHANGED <<ownedByCameras, packIn, ipict, tile, mem, fSubPict,
                 fSubPictState, THREAD_STATE>>

(* TryEnterCriticalSection; a busy slot is tried once more after Sleep(1)  *)
(* and then left for the next round.                                       *)
EncTry ==
  /\ epc \in {"try", "retry"}
  /\ IF slotLock[ipict] = "none"
       THEN /\ slotLock' = [slotLock EXCEPT ![ipict] = "enc"]
            /\ epc' = "take"
            /\ UNCHANGED ipict
       ELSE /\ UNCHANGED slotLock
            /\ IF epc = "try" THEN epc' = "retry" /\ UNCHANGED ipict ELSE EncAdvance
  /\ UNCHANGED <<ownedByCameras, packIn, tile, mem, fSubPict, fSubPictState,
                 THREAD_STATE>>

(* Faulty: pack_in and the slot share the memory. *)
EncTake_NoSwap ==
  /\ epc = "take"
  /\ packIn' = fSubPict[ipict]
  /\ fSubPictState' = [fSubPictState EXCEPT ![ipict] = 0]
  /\ slotLock' = [slotLock EXCEPT ![ipict] = "none"]
  /\ epc' = "luma"
  /\ UNCHANGED <<ownedByCameras, fSubPict, ipict, tile, mem, THREAD_STATE>>

(* pack_in.swap(fSubPict[ipict]), the flag, LeaveCriticalSection *)
EncTake ==
  /\ epc = "take"
  /\ packIn' = fSubPict[ipict]
  /\ fSubPict' = [fSubPict EXCEPT ![ipict] = packIn]
  /\ fSubPictState' = [fSubPictState EXCEPT ![ipict] = 0]
  /\ slotLock' = [slotLock EXCEPT ![ipict] = "none"]
  /\ epc' = "luma"
  /\ UNCHANGED <<ownedByCameras, ipict, tile, mem, THREAD_STATE>>

(* the loop that copies the rows of data[0] to the tile *)
EncLuma ==
  /\ epc = "luma"
  /\ tile' = [tile EXCEPT ![ipict].y = mem[packIn].y]
  /\ epc' = "chroma"
  /\ UNCHANGED <<ownedByCameras, packIn, ipict, mem, fSubPict, fSubPictState,
                 slotLock, THREAD_STATE>>

(* the loop that copies the rows of data[1] *)
EncChroma ==
  /\ epc = "chroma"
  /\ tile' = [tile EXCEPT ![ipict].uv = mem[packIn].uv]
  /\ EncAdvance
  /\ UNCHANGED <<ownedByCameras, packIn, mem, fSubPict, fSubPictState,
                 slotLock, THREAD_STATE>>

(* avcodec_send_frame and the packets it yields (module FrameQueue)        *)
EncSend ==
  /\ epc = "send"
  /\ epc' = "loop"
  /\ UNCHANGED <<ownedByCameras, packIn, ipict, tile, mem, fSubPict,
                 fSubPictState, slotLock, THREAD_STATE>>

(* It fails: run() returns and main raises THREAD_STATE. *)
EncFail ==
  /\ epc = "send"
  /\ epc' = "done"
  /\ THREAD_STATE' = 1
  /\ UNCHANGED <<ownedByCameras, packIn, ipict, tile, mem, fSubPict,
                 fSubPictState, slotLock>>

Encoder ==
  \/ EncLoop \/ EncLook \/ EncTry \/ EncTake \/ EncLuma \/ EncChroma
  \/ EncSend \/ EncFail

Next == Encoder \/ \E c \in Cams : Capture(c)

Spec == Init /\ [][Next]_vars

(* The encoder thread is scheduled.  Of the capture threads nothing is     *)
(* assumed: a camera may stall anywhere, even inside receive_frame.        *)
FairSpec == Spec /\ WF_vars(Encoder)

(***************************************************************************)
(* Properties.                                                             *)
(***************************************************************************)

Frames == [cam: Int, seq: Nat]

(* The type invariant. *)
TypeOK ==
  /\ fDataOut \in [Cams -> Bufs]
  /\ fSubPict \in [Slots -> Bufs]
  /\ packIn \in Bufs
  /\ mem \in [Bufs -> [y: Frames, uv: Frames, full: BOOLEAN]]
  /\ fSubPictState \in [Slots -> {0, 1}]
  /\ slotLock \in [Slots -> {"none", "cam", "enc"}]
  /\ cpc \in [Cams -> {"read", "decode", "chroma", "enter", "swap", "leave", "done"}]
  /\ fFrameCnt \in [Cams -> Nat]
  /\ posted \in [Slots -> Nat]
  /\ epc \in {"loop", "look", "try", "retry", "take", "luma", "chroma", "send", "done"}
  /\ ipict \in Slots
  /\ tile \in [Slots -> [y: Frames, uv: Frames]]
  /\ THREAD_STATE \in {0, 1}

(* No buffer has two owners, though every swap passes one on to a thread   *)
(* of another camera: no two threads ever work on the same memory.         *)
NoAliasing ==
  /\ \A c, d \in Cams : fDataOut[c] = fDataOut[d] => c = d
  /\ \A s, t \in Slots : fSubPict[s] = fSubPict[t] => s = t
  /\ \A c \in Cams, s \in Slots : fDataOut[c] # fSubPict[s]
  /\ packIn \notin {fDataOut[c] : c \in Cams} \cup {fSubPict[s] : s \in Slots}

(* The picture sent to the codec is made of whole frames, each tile of a   *)
(* frame of its own camera, luma and chroma of the same one.               *)
SentPictureWhole ==
  epc = "send" =>
    \A s \in Slots : /\ tile[s].y = tile[s].uv
                     /\ tile[s].y.cam \in {-1, s}

(* A raised flag announces the newest frame of the camera, complete, and   *)
(* one that was not shown before.                                          *)
FlagMeansFresh ==
  \A s \in Slots : fSubPictState[s] = 1 =>
    LET m == mem[fSubPict[s]]
    IN  /\ m.full
        /\ m.y = m.uv
        /\ m.y = [cam |-> s, seq |-> posted[s]]
        /\ tile[s].y.seq < posted[s]

(* A frame that was received is on show, or still flagged, or being copied *)
(* by the encoder: a busy slot or a lost race never makes it forgotten.    *)
NothingForgotten ==
  \A s \in Slots :
    tile[s].uv.seq < posted[s] =>
      fSubPictState[s] = 1 \/ (ipict = s /\ epc \in {"luma", "chroma"})

(* A tile never goes back to an older frame.                               *)
TilesForward ==
  \A s \in Slots : tile'[s].y.seq >= tile[s].y.seq /\ tile'[s].uv.seq >= tile[s].uv.seq

TilesAdvance == [][TilesForward]_vars

(* While the encoder copies out of pack_in, outside any lock, no camera    *)
(* changes that buffer.                                                    *)
PackInStable ==
  [][(epc \in {"luma", "chroma"}) => UNCHANGED packIn /\ mem'[packIn] = mem[packIn]]_vars

(* A camera stalled anywhere, even holding its slot's lock, does not keep  *)
(* the encoder from sending the next picture.                              *)
PictureNotHeldUp == epc = "look" ~> epc = "send"

(* Once a camera keeps out of its slot's lock, the frame it left there is  *)
(* taken, unless the program ends.                                         *)
LastFrameShown ==
  \A c \in Cams :
    <>[](slotLock[c] # "cam") =>
      (fSubPictState[c] = 1 ~> fSubPictState[c] = 0 \/ epc = "done")

(* Each slot is a mailbox for the newest frame: what is shown is what the  *)
(* encoder has taken out of it.                                            *)
shown == [s \in Slots |-> IF ipict = s /\ epc \in {"luma", "chroma"}
                            THEN mem[packIn].y.seq ELSE tile[s].y.seq]

Mailbox == INSTANCE LatestFrame WITH
  newest <- posted, fresh <- [s \in Slots |-> fSubPictState[s] = 1], shown <- shown

(* Buffers, flags, locks and threads implement the mailboxes. *)
ImplementsMailbox == Mailbox!Spec
=============================================================================
