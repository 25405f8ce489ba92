------------------------------ MODULE CameraProofs ------------------------------
EXTENDS Camera, TLAPS

(* What initialise has when it is at each of its stages. *)
HeldSoFar ==
  /\ ipc \in {"codec", "scaler", "frame", "buffer", "finish", "ready"}
       => {"fInputCtx", "fDecCtx"} \subseteq held
  /\ ipc \in {"video", "decoder"} => "fInputCtx" \in held
  /\ ipc \in {"info"} => "fInputCtx" \in held
  /\ ipc \in {"scaler", "frame", "buffer", "finish", "ready"} => "decoder" \in held
  /\ ipc \in {"buffer", "finish", "ready"} => "fFrameOut" \in held
  /\ ipc \in {"finish", "ready"} => "buffer" \in held
  /\ ipc = "deleted" => held = {}

(* The stream is chosen before the decoder is looked for, and fState set   *)
(* at the end.                                                             *)
StreamChosen ==
  /\ ipc \in {"decoder", "codec", "scaler", "frame", "buffer", "finish", "ready"}
       \/ fState = 1
       => fOutStreamNum \in Videos
  /\ fState = 1 => ipc \in {"ready", "deleted"}

(* capture has a packet of its own only while it works on it, and none     *)
(* when it goes for the next; the decoder is then empty.                   *)
PacketInHand ==
  /\ cpc = "head" => ~Ours /\ waiting = 0
  /\ cpc \in {"packet", "unref", "none"} => waiting = 0
  /\ cpc = "none" => ~packet.buf
  /\ cpc # "none" => ipc \in {"ready", "deleted"}
  /\ cpc \in Running => ipc = "ready"

IInv == TypeOK /\ HeldSoFar /\ StreamChosen /\ PacketInHand /\ OwnPacketsReturned /\ NoneRefused

(* The bounds and the streams. *)
LEMMA Bounds ==
  ASSUME streams \in Inputs
  PROVE  MaxPicture \in Nat /\ Len(streams) \in Nat /\ DOMAIN streams = 1 .. Len(streams)
BY CameraAssumption

(* The initial states. *)
LEMMA InitInv == Init => IInv
<1> SUFFICES ASSUME Init PROVE IInv OBVIOUS
<1>1. 0 \in 0 .. Len(streams) /\ 0 \in 0 .. MaxPicture
  BY Bounds DEF Init
<1>2. TypeOK
  BY <1>1 DEF Init, TypeOK, NoPacket, Running
<1>3. QED
  BY <1>2 DEF Init, IInv, HeldSoFar, StreamChosen, PacketInHand, OwnPacketsReturned,
     NoneRefused, NoPacket, Running, Ours

(* initialise keeps the invariant. *)
LEMMA InitialiseInv == IInv /\ initialise => IInv'
<1> SUFFICES ASSUME IInv, initialise PROVE IInv' OBVIOUS
<1> USE DEF IInv, captureVars
<1>1. MaxPicture \in Nat /\ Len(streams) \in Nat /\ DOMAIN streams = 1 .. Len(streams)
  BY Bounds DEF TypeOK
<1>2. /\ cpc = "none" /\ fState = 0 /\ ipc \notin {"ready", "deleted"}
      /\ UNCHANGED <<captureVars, THREAD_STATE, streams>>
  BY DEF initialise, Open, OpenDecoder, MakeFrame, Stage, FindVideo, MakeScaler, Finish,
     PacketInHand, StreamChosen, TypeOK
<1>3. TypeOK'
  <2>1. (ipc \in {"desc", "open", "info", "video", "decoder", "codec", "scaler", "frame",
               "buffer", "finish", "ready", "failed", "deleted"} /\ fState \in {0, 1})'
    BY DEF initialise, Open, OpenDecoder, MakeFrame, Stage, FindVideo, MakeScaler, Finish, TypeOK
  <2>2. held' \subseteq {"fInputCtx", "fDecCtx", "decoder", "fpSwsCtx", "fFrameOut", "buffer"}
    BY DEF initialise, Open, OpenDecoder, MakeFrame, Stage, FindVideo, MakeScaler, Finish, TypeOK
  <2>3. fOutStreamNum' \in 0 .. Len(streams)
    BY <1>1 DEF initialise, Open, OpenDecoder, MakeFrame, Stage, FindVideo, MakeScaler, Finish,
       TypeOK, Videos
  <2>4. QED BY <1>2, <2>1, <2>2, <2>3 DEF TypeOK
<1>4. HeldSoFar'
  BY DEF initialise, Open, OpenDecoder, MakeFrame, Stage, FindVideo, MakeScaler, Finish,
     HeldSoFar
<1>5. StreamChosen'
  BY <1>2 DEF initialise, Open, OpenDecoder, MakeFrame, Stage, FindVideo, MakeScaler, Finish,
     StreamChosen, Videos
<1>6. (PacketInHand /\ OwnPacketsReturned /\ NoneRefused)'
  BY <1>2 DEF PacketInHand, OwnPacketsReturned, NoneRefused, Running
<1>7. QED BY <1>3, <1>4, <1>5, <1>6

(* A step of capture keeps what initialise has done. *)
LEMMA ObjectUnchanged ==
  ASSUME HeldSoFar, StreamChosen, UNCHANGED objectVars
  PROVE  HeldSoFar' /\ StreamChosen'
BY DEF objectVars, HeldSoFar, StreamChosen, Videos

(* capture keeps the invariant. *)
LEMMA CaptureInv == IInv /\ (CaptureBegins \/ capture) => IInv'
<1> SUFFICES ASSUME IInv, CaptureBegins \/ capture PROVE IInv' OBVIOUS
<1> USE DEF IInv, capturing, ends, returns
<1>1. MaxPicture \in Nat /\ Len(streams) \in Nat /\ DOMAIN streams = 1 .. Len(streams)
  BY Bounds DEF TypeOK
<1>2. UNCHANGED objectVars
  BY DEF CaptureBegins, capture, Break, Read, Skip, Send, Receive, NoMorePictures, Unref
<1>3. HeldSoFar' /\ StreamChosen' BY <1>2, ObjectUnchanged
<1>4. ipc = "ready"
  BY DEF CaptureBegins, capture, Break, Read, Skip, Send, Receive, NoMorePictures, Unref,
     PacketInHand, Running
<1> USE <1>4
<1>5. CASE CaptureBegins
  BY <1>2, <1>3, <1>5 DEF CaptureBegins, objectVars, TypeOK, Running, PacketInHand, Ours,
     OwnPacketsReturned, NoneRefused
<1>6. CASE Break
  <2>1. TypeOK' BY <1>1, <1>2, <1>6 DEF Break, objectVars, TypeOK, Running, NoPacket
  <2>2. QED BY <1>2, <1>3, <1>6, <2>1 DEF Break, objectVars, Running, PacketInHand,
            OwnPacketsReturned, NoneRefused
<1>7. CASE Read
  <2>1. "ours" \notin lost' /\ Lost \subseteq {"ours", "foreign"}
    BY <1>7 DEF Read, Lost, PacketInHand, OwnPacketsReturned
  <2>2. TypeOK' BY <1>1, <1>2, <1>7, <2>1 DEF Read, objectVars, TypeOK, Running
  <2>3. QED BY <1>2, <1>3, <1>7, <2>1, <2>2 DEF Read, objectVars, Running, PacketInHand,
            OwnPacketsReturned, NoneRefused
<1>8. CASE Skip
  BY <1>2, <1>3, <1>8 DEF Skip, objectVars, TypeOK, Running, PacketInHand, Ours,
     OwnPacketsReturned, NoneRefused
<1>9. Lost \subseteq {"ours", "foreign"} BY DEF Lost
<1>10. CASE Send
  <2>1. waiting = 0 BY <1>10 DEF Send, PacketInHand
  <2>2. TypeOK' BY <1>1, <1>2, <1>9, <1>10, <2>1 DEF Send, objectVars, TypeOK, Running
  <2>3. QED BY <1>2, <1>3, <1>10, <2>1, <2>2 DEF Send, objectVars, Running, PacketInHand,
            OwnPacketsReturned, NoneRefused
<1>11. CASE Receive
  <2>1. waiting' \in 0 .. MaxPicture BY <1>1, <1>11 DEF Receive, TypeOK
  <2>2. /\ cpc' \in {"decode", "crash", "returned"} /\ lost' \subseteq {"ours", "foreign"}
        /\ UNCHANGED <<packet, refused>> /\ THREAD_STATE' \in {0, 1}
    BY <1>9, <1>11 DEF Receive, TypeOK
  <2>3. TypeOK' BY <1>2, <2>1, <2>2 DEF objectVars, TypeOK, Running
  <2>4. QED BY <1>2, <1>3, <1>11, <2>3 DEF Receive, objectVars, Running, PacketInHand,
            OwnPacketsReturned, NoneRefused
<1>12. CASE NoMorePictures
  <2>1. TypeOK' BY <1>1, <1>2, <1>9, <1>12 DEF NoMorePictures, objectVars, TypeOK, Running
  <2>2. QED BY <1>2, <1>3, <1>12, <2>1 DEF NoMorePictures, objectVars, Running, PacketInHand,
            OwnPacketsReturned, NoneRefused
<1>13. CASE Unref
  <2>1. TypeOK' BY <1>1, <1>2, <1>13 DEF Unref, objectVars, TypeOK, Running, NoPacket
  <2>2. QED BY <1>2, <1>3, <1>13, <2>1 DEF Unref, objectVars, Running, PacketInHand, Ours,
            NoPacket, OwnPacketsReturned, NoneRefused
<1>14. QED BY <1>5, <1>6, <1>7, <1>8, <1>10, <1>11, <1>12, <1>13 DEF capture

(* The end of another thread keeps the invariant. *)
LEMMA OtherInv == IInv /\ OtherEnds => IInv'
BY ObjectUnchanged DEF OtherEnds, IInv, objectVars, captureVars, TypeOK, Running, PacketInHand,
   Ours, OwnPacketsReturned, NoneRefused

(* Deleting the object keeps the invariant. *)
LEMMA DeleteInv == IInv /\ Delete => IInv'
<1> SUFFICES ASSUME IInv, Delete PROVE IInv' OBVIOUS
<1> USE DEF IInv, Delete
<1>1. held' = {} BY DEF finalise, TypeOK
<1>2. Lost \subseteq {"ours", "foreign"} BY DEF Lost
<1>3. TypeOK' BY <1>1, <1>2 DEF TypeOK, Running
<1>4. HeldSoFar' BY <1>1 DEF HeldSoFar
<1>5. StreamChosen' BY DEF StreamChosen, Videos
<1>6. PacketInHand' BY DEF PacketInHand, Running
<1>7. (OwnPacketsReturned /\ NoneRefused)' BY DEF OwnPacketsReturned, NoneRefused, Running
<1>8. QED BY <1>3, <1>4, <1>5, <1>6, <1>7

(* A stuttering step keeps the invariant. *)
LEMMA StutterInv == IInv /\ UNCHANGED vars => IInv'
BY ObjectUnchanged DEF vars, IInv, objectVars, captureVars, TypeOK, Running, PacketInHand,
   Ours, OwnPacketsReturned, NoneRefused

(***************************************************************************)
(* The theorems.                                                           *)
(***************************************************************************)

(* The inductive invariant holds of every camera. *)
THEOREM Invariance == Spec => []IInv
<1>1. Init => IInv BY InitInv
<1>2. IInv /\ [Next]_vars => IInv'
  BY InitialiseInv, CaptureInv, OtherInv, DeleteInv, StutterInv DEF Next
<1>3. QED BY <1>1, <1>2, PTL DEF Spec

(* Every variable of the camera keeps its type. *)
THEOREM TypeCorrect == Spec => []TypeOK
<1>1. IInv => TypeOK BY DEF IInv
<1>2. QED BY <1>1, Invariance, PTL

(* A camera that is ready() has, but for the scaler, what capture uses     *)
(* without asking, and waits for the packets of a video stream.            *)
THEOREM ReadyIsUsable == Spec => []ReadyMeansUsable
<1>1. IInv => ReadyMeansUsable BY DEF IInv, ReadyMeansUsable, HeldSoFar, StreamChosen, Videos
<1>2. QED BY <1>1, Invariance, PTL

(* The destructor leaves nothing behind, wherever initialise gave up.      *)
THEOREM NothingLeftBehind == Spec => []FreedWhenDeleted
<1>1. IInv => FreedWhenDeleted BY DEF IInv, FreedWhenDeleted, HeldSoFar
<1>2. QED BY <1>1, Invariance, PTL

(* Whatever packets come in whatever order, only those of other streams    *)
(* lose their references while capture goes on.                            *)
THEOREM OwnPacketsSafe == Spec => []OwnPacketsReturned
<1>1. IInv => OwnPacketsReturned BY DEF IInv
<1>2. QED BY <1>1, Invariance, PTL

(* The decoder, however many pictures a packet brings out of it, never has *)
(* to refuse one.                                                          *)
THEOREM DecoderNeverFull == Spec => []NoneRefused
<1>1. IInv => NoneRefused BY DEF IInv
<1>2. QED BY <1>1, Invariance, PTL
===============================================================================
