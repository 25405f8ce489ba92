----------------------------- MODULE MosaicProofs -----------------------------
(***************************************************************************)
(* Proofs about Mosaic, for every number of slots, every set of cameras    *)
(* and every number of frames.                                             *)
(***************************************************************************)
EXTENDS Mosaic, TLAPS

(***************************************************************************)
(* The type invariant.                                                     *)
(***************************************************************************)

LEMMA TypeInit == Init => TypeOK
<1> SUFFICES ASSUME Init PROVE TypeOK
  OBVIOUS
<1> USE MosaicAssumption DEF Slots, Bufs, Frames, NoFrame
<1>1. fDataOut \in [Cams -> Bufs] /\ fSubPict \in [Slots -> Bufs] /\ packIn \in Bufs
  BY DEF Init
<1>2. mem \in [Bufs -> [y: Frames, uv: Frames, full: BOOLEAN]]
  BY DEF Init
<1>3. tile \in [Slots -> [y: Frames, uv: Frames]]
  BY DEF Init
<1>4. ipict \in Slots
  BY DEF Init
<1> QED
  BY <1>1, <1>2, <1>3, <1>4 DEF Init, TypeOK

LEMMA AdvanceType ==
  ASSUME TypeOK, EncAdvance
  PROVE  ipict' \in Slots /\ epc' \in {"send", "look"}
  BY MosaicAssumption DEF TypeOK, EncAdvance, Slots

LEMMA TypeStep == TypeOK /\ [Next]_vars => TypeOK'
<1> SUFFICES ASSUME TypeOK, [Next]_vars PROVE TypeOK'
  OBVIOUS
<1>1. ASSUME NEW c \in Cams, Capture(c) PROVE TypeOK'
  <2>0. c \in Slots /\ c \in Int
    BY MosaicAssumption DEF Slots
  <2>1. CASE CaptureExit(c)
    BY <2>1 DEF CaptureExit, slotVars, ownedByEncoder, TypeOK
  <2>2. CASE CaptureRead(c)
    BY <2>2 DEF CaptureRead, slotVars, ownedByEncoder, TypeOK
  <2>3. CASE CaptureAgain(c)
    BY <2>3 DEF CaptureAgain, slotVars, ownedByEncoder, TypeOK
  <2>4. CASE CaptureLuma(c)
    <3>1. [cam |-> c, seq |-> fFrameCnt[c] + 1] \in Frames
      BY <2>0 DEF TypeOK, Frames
    <3>2. mem' \in [Bufs -> [y: Frames, uv: Frames, full: BOOLEAN]]
      BY <2>4, <3>1 DEF CaptureLuma, TypeOK
    <3> QED
      BY <2>4, <3>2 DEF CaptureLuma, slotVars, ownedByEncoder, TypeOK
  <2>5. CASE CaptureChroma(c)
    <3>1. [cam |-> c, seq |-> fFrameCnt[c] + 1] \in Frames
      BY <2>0 DEF TypeOK, Frames
    <3>2. mem' \in [Bufs -> [y: Frames, uv: Frames, full: BOOLEAN]]
      BY <2>5, <3>1 DEF CaptureChroma, TypeOK
    <3> QED
      BY <2>5, <3>2 DEF CaptureChroma, slotVars, ownedByEncoder, TypeOK
  <2>6. CASE ReceiveEnter(c)
    BY <2>0, <2>6 DEF ReceiveEnter, ownedByEncoder, TypeOK
  <2>7. CASE ReceiveSwap(c)
    BY <2>0, <2>7 DEF ReceiveSwap, ownedByEncoder, TypeOK
  <2>8. CASE ReceiveLeave(c)
    BY <2>0, <2>8 DEF ReceiveLeave, ownedByEncoder, TypeOK
  <2> QED
    BY <1>1, <2>1, <2>2, <2>3, <2>4, <2>5, <2>6, <2>7, <2>8 DEF Capture
<1>2. CASE EncLoop
  BY <1>2 DEF EncLoop, ownedByCameras, TypeOK
<1>3. CASE EncLook
  BY <1>3, AdvanceType DEF EncLook, ownedByCameras, TypeOK
<1>4. CASE EncTry
  BY <1>4, AdvanceType DEF EncTry, ownedByCameras, TypeOK
<1>5. CASE EncTake
  BY <1>5 DEF EncTake, ownedByCameras, TypeOK
<1>6. CASE EncLuma
  BY <1>6 DEF EncLuma, ownedByCameras, TypeOK, Frames
<1>7. CASE EncChroma
  BY <1>7, AdvanceType DEF EncChroma, ownedByCameras, TypeOK, Frames
<1>8. CASE EncSend
  BY <1>8 DEF EncSend, ownedByCameras, TypeOK
<1>9. CASE EncFail
  BY <1>9 DEF EncFail, ownedByCameras, TypeOK
<1>10. CASE UNCHANGED vars
  BY <1>10 DEF vars, TypeOK
<1> QED
  BY <1>1, <1>2, <1>3, <1>4, <1>5, <1>6, <1>7, <1>8, <1>9, <1>10 DEF Next, Encoder

(* Every variable keeps its type; in particular the encoder's slot index   *)
(* stays within the slots.                                                 *)
THEOREM TypeCorrect == Spec => []TypeOK
  BY TypeInit, TypeStep, PTL DEF Spec

(***************************************************************************)
(* The inductive invariant.                                                *)
(***************************************************************************)

(* A slot's lock is held where receive_frame and run() say it is. *)
Locking ==
  \A s \in Slots :
    /\ slotLock[s] = "cam" <=> s \in Cams /\ cpc[s] \in {"swap", "leave"}
    /\ slotLock[s] = "enc" <=> epc = "take" /\ ipict = s

(* What a capture thread has written into its buffer so far, and how many  *)
(* of its frames have been received.                                       *)
CapturingBy(c) ==
  /\ cpc[c] = "chroma" =>
       /\ mem[fDataOut[c]].full
       /\ mem[fDataOut[c]].y = [cam |-> c, seq |-> fFrameCnt[c] + 1]
  /\ cpc[c] \in {"enter", "swap"} =>
       /\ mem[fDataOut[c]].full
       /\ mem[fDataOut[c]].y = [cam |-> c, seq |-> fFrameCnt[c]]
       /\ mem[fDataOut[c]].uv = [cam |-> c, seq |-> fFrameCnt[c]]
       /\ posted[c] = fFrameCnt[c] - 1
  /\ cpc[c] \notin {"enter", "swap"} => posted[c] = fFrameCnt[c]

Capturing == \A c \in Cams : CapturingBy(c)

copying(s) == ipict = s /\ epc \in {"luma", "chroma"}

(* The frame the encoder is copying is whole, of the slot's camera, newer  *)
(* than what its tile shows, and the newest unless the flag is up again.   *)
Copying ==
  epc \in {"luma", "chroma"} =>
    LET m == mem[packIn]
    IN  /\ m.y = m.uv
        /\ m.y.cam = ipict
        /\ m.y.seq <= posted[ipict]
        /\ fSubPictState[ipict] = 1 => m.y.seq < posted[ipict]
        /\ fSubPictState[ipict] = 0 => m.y.seq = posted[ipict]
        /\ tile[ipict].uv.seq < m.y.seq
        /\ epc = "luma" => tile[ipict].y.seq < m.y.seq
        /\ epc = "chroma" => tile[ipict].y = m.y

(* A tile shows frames of its own camera that were received, and one whole *)
(* frame unless the encoder is between its two copies.                     *)
Tiles ==
  \A s \in Slots :
    /\ tile[s].y.cam \in {-1, s}
    /\ tile[s].y.seq <= posted[s] /\ tile[s].uv.seq <= posted[s]
    /\ ~(ipict = s /\ epc = "chroma") => tile[s].y = tile[s].uv
    /\ ~copying(s) /\ fSubPictState[s] = 0 => tile[s].y.seq = posted[s]

(* Only the encoder lowers a flag: one it has seen up stays up. *)
FlagSeen == epc \in {"try", "retry", "take"} => fSubPictState[ipict] = 1

IInv ==
  /\ TypeOK
  /\ NoAliasing
  /\ Locking
  /\ Capturing
  /\ FlagMeansFresh
  /\ Copying
  /\ Tiles
  /\ FlagSeen

LEMMA InvInit == Init => IInv
<1> SUFFICES ASSUME Init PROVE IInv
  OBVIOUS
<1>1. TypeOK
  BY TypeInit
<1>2. NoAliasing
  <2>1. \A c \in Cams : fDataOut[c] = NPict + 1 + c /\ c \in Int /\ c >= 0
    BY MosaicAssumption DEF Init
  <2>2. \A s \in Slots : fSubPict[s] = s /\ s \in Int /\ s < NPict
    BY MosaicAssumption DEF Init, Slots
  <2>3. packIn = NPict /\ NPict \in Int
    BY MosaicAssumption DEF Init
  <2>4. \A c, d \in Cams : fDataOut[c] = fDataOut[d] => c = d
    BY <2>1, <2>3
  <2>5. \A s, t \in Slots : fSubPict[s] = fSubPict[t] => s = t
    BY <2>2
  <2>6. \A c \in Cams, s \in Slots : fDataOut[c] # fSubPict[s]
    BY <2>1, <2>2, <2>3
  <2>7. \A c \in Cams : fDataOut[c] # packIn
    BY <2>1, <2>3
  <2>8. \A s \in Slots : fSubPict[s] # packIn
    BY <2>2, <2>3
  <2> QED
    BY <2>4, <2>5, <2>6, <2>7, <2>8 DEF NoAliasing
<1>3. Locking /\ Copying /\ FlagSeen /\ FlagMeansFresh
  BY MosaicAssumption DEF Init, Locking, Copying, FlagSeen, FlagMeansFresh, Slots
<1>4. Capturing
  BY MosaicAssumption DEF Init, Capturing, CapturingBy, Slots
<1>5. Tiles
  BY DEF Init, Tiles, NoFrame
<1> QED
  BY <1>1, <1>2, <1>3, <1>4, <1>5 DEF IInv

(* What a capture thread writes into its own buffer nobody else sees.      *)
LEMMA InvCaptureWrite ==
  ASSUME IInv, TypeOK', NEW c \in Cams, CaptureLuma(c) \/ CaptureChroma(c)
  PROVE  IInv'
<1> USE DEF IInv
<1>1. /\ TypeOK /\ c \in Slots
      /\ UNCHANGED <<fDataOut, fSubPict, packIn, fSubPictState, slotLock, posted,
                     epc, ipict, tile>>
      /\ cpc' = [cpc EXCEPT ![c] = cpc'[c]]
      /\ cpc[c] \in {"decode", "chroma"} /\ cpc'[c] \in {"chroma", "enter"}
      /\ \A b \in Bufs \ {fDataOut[c]} : mem'[b] = mem[b]
      /\ \A d \in Cams \ {c} : fFrameCnt'[d] = fFrameCnt[d]
  BY MosaicAssumption
  DEF CaptureLuma, CaptureChroma, slotVars, ownedByEncoder, TypeOK, Slots
<1>2. /\ \A d \in Cams \ {c} : mem'[fDataOut[d]] = mem[fDataOut[d]] /\ cpc'[d] = cpc[d]
      /\ \A s \in Slots : mem'[fSubPict[s]] = mem[fSubPict[s]]
      /\ mem'[packIn] = mem[packIn]
  BY <1>1 DEF NoAliasing, TypeOK
<1>3. NoAliasing' /\ Locking'
  BY <1>1, <1>2 DEF NoAliasing, Locking, TypeOK
<1>4. Capturing'
  <2>1. CASE CaptureLuma(c)
    <3>1. /\ mem'[fDataOut[c]].y = [cam |-> c, seq |-> fFrameCnt[c] + 1]
          /\ mem'[fDataOut[c]].full /\ fFrameCnt' = fFrameCnt
          /\ cpc[c] = "decode" /\ cpc'[c] = "chroma"
      BY <1>1, <2>1 DEF CaptureLuma, TypeOK
    <3>2. posted'[c] = fFrameCnt'[c]
      BY <1>1, <3>1 DEF Capturing, CapturingBy
    <3> QED
      BY <1>1, <1>2, <3>1, <3>2 DEF Capturing, CapturingBy
  <2>2. CASE CaptureChroma(c)
    <3>1. /\ mem'[fDataOut[c]].y = mem[fDataOut[c]].y
          /\ mem'[fDataOut[c]].full = mem[fDataOut[c]].full
          /\ mem'[fDataOut[c]].uv = [cam |-> c, seq |-> fFrameCnt[c] + 1]
          /\ fFrameCnt'[c] = fFrameCnt[c] + 1 /\ fFrameCnt[c] \in Nat
          /\ cpc[c] = "chroma" /\ cpc'[c] = "enter"
      BY <1>1, <2>2 DEF CaptureChroma, TypeOK
    <3>2. /\ mem[fDataOut[c]].full
          /\ mem[fDataOut[c]].y = [cam |-> c, seq |-> fFrameCnt[c] + 1]
          /\ posted[c] = fFrameCnt[c]
      BY <3>1 DEF Capturing, CapturingBy
    <3>3. posted'[c] = fFrameCnt'[c] - 1
      BY <1>1, <3>1, <3>2
    <3>4. CapturingBy(c)'
      BY <1>1, <3>1, <3>2, <3>3 DEF CapturingBy
    <3>5. ASSUME NEW d \in Cams \ {c} PROVE CapturingBy(d)'
      BY <1>1, <1>2 DEF Capturing, CapturingBy
    <3> QED
      BY <3>4, <3>5 DEF Capturing
  <2> QED
    BY <2>1, <2>2
<1>5. FlagMeansFresh'
  BY <1>1, <1>2 DEF FlagMeansFresh
<1>6. Copying' /\ Tiles' /\ FlagSeen'
  BY <1>1, <1>2 DEF Copying, Tiles, FlagSeen, copying
<1> QED
  BY <1>3, <1>4, <1>5, <1>6

(* receive_frame puts the newest frame into the slot and takes the slot's  *)
(* buffer away.                                                            *)
LEMMA InvReceiveSwap ==
  ASSUME IInv, TypeOK', NEW c \in Cams, ReceiveSwap(c)
  PROVE  IInv'
<1> USE DEF IInv
<1>1. /\ TypeOK /\ c \in Slots
      /\ UNCHANGED <<packIn, mem, slotLock, fFrameCnt, epc, ipict, tile>>
      /\ fSubPict'[c] = fDataOut[c] /\ fDataOut'[c] = fSubPict[c]
      /\ fSubPictState'[c] = 1 /\ posted'[c] = posted[c] + 1 /\ posted[c] \in Nat
      /\ cpc[c] = "swap" /\ cpc'[c] = "leave"
      /\ \A d \in Cams \ {c} : fDataOut'[d] = fDataOut[d] /\ cpc'[d] = cpc[d]
      /\ \A s \in Slots \ {c} : /\ fSubPict'[s] = fSubPict[s] /\ posted'[s] = posted[s]
                                /\ fSubPictState'[s] = fSubPictState[s]
  BY MosaicAssumption DEF ReceiveSwap, ownedByEncoder, TypeOK, Slots
<1>2. /\ mem[fDataOut[c]].full
      /\ mem[fDataOut[c]].y = mem[fDataOut[c]].uv
      /\ mem[fDataOut[c]].y = [cam |-> c, seq |-> posted'[c]]
      /\ fFrameCnt[c] = posted'[c]
  <2>1. posted[c] = fFrameCnt[c] - 1 /\ fFrameCnt[c] \in Nat
    BY <1>1 DEF Capturing, CapturingBy, TypeOK
  <2>2. fFrameCnt[c] = posted'[c]
    BY <1>1, <2>1
  <2> QED
    BY <1>1, <2>2 DEF Capturing, CapturingBy
<1>3. NoAliasing'
  <2>1. \A d \in Cams : fDataOut'[d] = IF d = c THEN fSubPict[c] ELSE fDataOut[d]
    BY <1>1
  <2>2. \A s \in Slots : fSubPict'[s] = IF s = c THEN fDataOut[c] ELSE fSubPict[s]
    BY <1>1
  <2> QED
    BY <1>1, <2>1, <2>2 DEF NoAliasing
<1>4. Locking'
  BY <1>1 DEF Locking
<1>5. Capturing'
  <2>1. \A d \in Cams \ {c} : posted'[d] = posted[d]
    BY <1>1, MosaicAssumption DEF Slots
  <2>2. cpc'[c] = "leave" /\ posted'[c] = fFrameCnt'[c]
    BY <1>1, <1>2
  <2> QED
    BY <1>1, <2>1, <2>2 DEF Capturing, CapturingBy
<1>6. FlagMeansFresh'
  <2>1. tile[c].y.seq < posted'[c]
    BY <1>1 DEF Tiles, TypeOK, Frames
  <2> QED
    BY <1>1, <1>2, <2>1 DEF FlagMeansFresh
<1>7. Copying'
  BY <1>1 DEF Copying, TypeOK, Frames
<1>8. Tiles'
  <2>1. ASSUME NEW s \in Slots
        PROVE  tile[s].y.seq <= posted'[s] /\ tile[s].uv.seq <= posted'[s]
    <3>1. tile[s].y.seq \in Nat /\ tile[s].uv.seq \in Nat
      BY DEF TypeOK, Frames
    <3>2. posted'[s] = posted[s] \/ (posted'[s] = posted[s] + 1 /\ posted[s] \in Nat)
      BY <1>1
    <3> QED
      BY <3>1, <3>2 DEF Tiles, TypeOK
  <2> QED
    BY <1>1, <2>1 DEF Tiles, copying
<1>9. FlagSeen'
  BY <1>1 DEF FlagSeen, TypeOK
<1> QED
  BY <1>3, <1>4, <1>5, <1>6, <1>7, <1>8, <1>9

(* Ending, reading, entering and leaving change no buffer, flag or tile.   *)
LEMMA InvCaptureOther ==
  ASSUME IInv, TypeOK', NEW c \in Cams,
         CaptureExit(c) \/ CaptureRead(c) \/ CaptureAgain(c)
           \/ ReceiveEnter(c) \/ ReceiveLeave(c)
  PROVE  IInv'
<1> USE DEF IInv
<1>1. /\ TypeOK /\ c \in Slots
      /\ UNCHANGED <<packIn, mem, fDataOut, fSubPict, fSubPictState, posted, fFrameCnt,
                     epc, ipict, tile>>
      /\ cpc'[c] # "chroma"
      /\ cpc'[c] \in {"enter", "swap"} <=> cpc[c] \in {"enter", "swap"}
      /\ \A d \in Cams \ {c} : cpc'[d] = cpc[d]
  BY MosaicAssumption
  DEF CaptureExit, CaptureRead, CaptureAgain, ReceiveEnter, ReceiveLeave,
      slotVars, ownedByEncoder, TypeOK, Slots
<1>2. NoAliasing' /\ FlagMeansFresh' /\ Copying' /\ Tiles' /\ FlagSeen'
  BY <1>1 DEF NoAliasing, FlagMeansFresh, Copying, Tiles, FlagSeen, copying
<1>3. Capturing'
  BY <1>1 DEF Capturing, CapturingBy
<1>4. Locking'
  <2>1. CASE CaptureExit(c) \/ CaptureRead(c) \/ CaptureAgain(c)
    BY <1>1, <2>1 DEF CaptureExit, CaptureRead, CaptureAgain, slotVars, Locking, TypeOK
  <2>2. CASE ReceiveEnter(c)
    BY <1>1, <2>2 DEF ReceiveEnter, Locking, TypeOK
  <2>3. CASE ReceiveLeave(c)
    BY <1>1, <2>3 DEF ReceiveLeave, Locking, TypeOK
  <2> QED
    BY <2>1, <2>2, <2>3
<1> QED
  BY <1>2, <1>3, <1>4

(* run() takes the flagged frame and leaves pack_in's buffer in the slot.  *)
LEMMA InvEncTake ==
  ASSUME IInv, TypeOK', EncTake
  PROVE  IInv'
<1> USE DEF IInv
<1>1. /\ TypeOK /\ ipict \in Slots
      /\ UNCHANGED <<fDataOut, cpc, fFrameCnt, posted, ipict, tile, mem>>
      /\ packIn' = fSubPict[ipict] /\ fSubPict'[ipict] = packIn
      /\ fSubPictState[ipict] = 1 /\ fSubPictState'[ipict] = 0 /\ slotLock'[ipict] = "none"
      /\ epc = "take" /\ epc' = "luma"
      /\ \A s \in Slots \ {ipict} : /\ fSubPict'[s] = fSubPict[s]
                                    /\ fSubPictState'[s] = fSubPictState[s]
                                    /\ slotLock'[s] = slotLock[s]
  BY DEF EncTake, ownedByCameras, TypeOK, FlagSeen
<1>2. LET m == mem[packIn']
      IN  m.y = m.uv /\ m.y = [cam |-> ipict, seq |-> posted[ipict]]
            /\ tile[ipict].y.seq < posted[ipict]
  BY <1>1 DEF FlagMeansFresh
<1>3. NoAliasing'
  <2>1. \A s \in Slots : fSubPict'[s] = IF s = ipict THEN packIn ELSE fSubPict[s]
    BY <1>1
  <2> QED
    BY <1>1, <2>1 DEF NoAliasing
<1>4. Locking'
  BY <1>1 DEF Locking
<1>5. Capturing'
  BY <1>1 DEF Capturing, CapturingBy
<1>6. FlagMeansFresh'
  BY <1>1 DEF FlagMeansFresh
<1>7. Copying'
  <2>1. tile[ipict].y = tile[ipict].uv /\ posted[ipict] \in Nat
    BY <1>1 DEF Tiles, TypeOK
  <2> QED
    BY <1>1, <1>2, <2>1 DEF Copying
<1>8. Tiles'
  BY <1>1 DEF Tiles, copying
<1>9. FlagSeen'
  BY <1>1 DEF FlagSeen
<1> QED
  BY <1>3, <1>4, <1>5, <1>6, <1>7, <1>8, <1>9

(* The two copies bring the tile to the frame in pack_in.                  *)
LEMMA InvEncCopy ==
  ASSUME IInv, TypeOK', EncLuma \/ EncChroma
  PROVE  IInv'
<1> USE DEF IInv
<1>1. /\ TypeOK /\ ipict \in Slots
      /\ UNCHANGED <<fDataOut, cpc, fFrameCnt, posted, packIn, fSubPict, fSubPictState,
                     slotLock, mem>>
      /\ \A s \in Slots \ {ipict} : tile'[s] = tile[s]
      /\ epc \in {"luma", "chroma"} /\ epc' \notin {"try", "retry", "take"}
  BY DEF EncLuma, EncChroma, EncAdvance, ownedByCameras, TypeOK
<1>2. /\ mem[packIn].y = mem[packIn].uv
      /\ mem[packIn].y.cam = ipict
      /\ mem[packIn].y.seq <= posted[ipict]
      /\ fSubPictState[ipict] = 1 => mem[packIn].y.seq < posted[ipict]
      /\ fSubPictState[ipict] = 0 => mem[packIn].y.seq = posted[ipict]
      /\ tile[ipict].uv.seq < mem[packIn].y.seq
      /\ epc = "chroma" => tile[ipict].y = mem[packIn].y
  BY <1>1 DEF Copying
<1>3. NoAliasing' /\ Locking' /\ Capturing' /\ FlagSeen'
  BY <1>1 DEF NoAliasing, Locking, Capturing, CapturingBy, FlagSeen
<1>4. tile'[ipict].y = mem[packIn].y
  BY <1>1, <1>2 DEF EncLuma, EncChroma, TypeOK
<1>5. FlagMeansFresh'
  BY <1>1, <1>2, <1>4 DEF FlagMeansFresh
<1>6. Copying' /\ Tiles'
  <2>1. CASE EncLuma
    <3>1. ipict' = ipict /\ epc' = "chroma" /\ tile'[ipict].uv = tile[ipict].uv
      BY <1>1, <2>1 DEF EncLuma, TypeOK
    <3>2. Copying'
      BY <1>1, <1>2, <1>4, <3>1 DEF Copying
    <3>3. Tiles'
      BY <1>1, <1>2, <1>4, <3>1 DEF Tiles, copying
    <3> QED
      BY <3>2, <3>3
  <2>2. CASE EncChroma
    <3>1. epc = "chroma" /\ epc' \in {"send", "look"} /\ tile'[ipict].uv = mem[packIn].uv
      BY <1>1, <2>2 DEF EncChroma, EncAdvance, TypeOK
    <3>2. Copying'
      BY <3>1 DEF Copying
    <3>3. Tiles'
      BY <1>1, <1>2, <1>4, <3>1 DEF Tiles, copying, TypeOK
    <3> QED
      BY <3>2, <3>3
  <2> QED
    BY <2>1, <2>2
<1> QED
  BY <1>3, <1>5, <1>6

(* The encoder's other steps move it from slot to slot. *)
LEMMA InvEncOther ==
  ASSUME IInv, TypeOK',
         EncLoop \/ EncLook \/ EncTry \/ EncSend \/ EncFail \/ UNCHANGED vars
  PROVE  IInv'
<1> USE DEF IInv
<1>1. CASE UNCHANGED vars
  BY <1>1 DEF vars, NoAliasing, Locking, Capturing, CapturingBy, FlagMeansFresh,
              Copying, Tiles, copying, FlagSeen
<1>2. CASE EncLoop \/ EncLook \/ EncTry \/ EncSend \/ EncFail
  <2>1. /\ TypeOK /\ ipict \in Slots
        /\ UNCHANGED <<fDataOut, cpc, fFrameCnt, posted, packIn, fSubPict, fSubPictState,
                       mem, tile>>
        /\ epc \notin {"luma", "chroma", "take"} /\ epc' \notin {"luma", "chroma"}
    BY <1>2 DEF EncLoop, EncLook, EncTry, EncSend, EncFail, EncAdvance, ownedByCameras, TypeOK
  <2>2. NoAliasing' /\ Capturing' /\ FlagMeansFresh' /\ Copying'
    BY <2>1 DEF NoAliasing, Capturing, CapturingBy, FlagMeansFresh, Copying
  <2>3. Tiles'
    BY <2>1 DEF Tiles, copying
  <2>4. FlagSeen'
    BY <1>2, <2>1
    DEF EncLoop, EncLook, EncTry, EncSend, EncFail, EncAdvance, FlagSeen
  <2>5. Locking'
    BY <1>2, <2>1
    DEF EncLoop, EncLook, EncTry, EncSend, EncFail, EncAdvance, Locking, TypeOK
  <2> QED
    BY <2>2, <2>3, <2>4, <2>5
<1> QED
  BY <1>1, <1>2

LEMMA InvStep == IInv /\ [Next]_vars => IInv'
<1> SUFFICES ASSUME IInv, [Next]_vars PROVE IInv'
  OBVIOUS
<1>1. TypeOK'
  BY TypeStep DEF IInv
<1>2. ASSUME NEW c \in Cams, Capture(c) PROVE IInv'
  BY <1>1, <1>2, InvCaptureWrite, InvReceiveSwap, InvCaptureOther DEF Capture
<1> QED
  BY <1>1, <1>2, InvEncTake, InvEncCopy, InvEncOther DEF Next, Encoder

LEMMA Invariance == Spec => []IInv
  BY InvInit, InvStep, PTL DEF Spec

(***************************************************************************)
(* The results.                                                            *)
(***************************************************************************)

(* No buffer ever has two owners, whichever cameras it has wandered to. *)
THEOREM NeverAliased == Spec => []NoAliasing
  BY Invariance, PTL DEF IInv

(* Every picture sent is made of whole frames of the right cameras. *)
THEOREM AlwaysWhole == Spec => []SentPictureWhole
<1>1. IInv => SentPictureWhole
  BY DEF IInv, Tiles, SentPictureWhole
<1> QED
  BY <1>1, Invariance, PTL

(* A flag never announces a stale, mixed or missing frame. *)
THEOREM AlwaysFresh == Spec => []FlagMeansFresh
  BY Invariance, PTL DEF IInv

(* No received frame is forgotten short of a newer one. *)
THEOREM NeverForgotten == Spec => []NothingForgotten
<1>1. IInv => NothingForgotten
  <2> SUFFICES ASSUME IInv, NEW s \in Slots, tile[s].uv.seq < posted[s],
                      fSubPictState[s] # 1, ~copying(s)
               PROVE  FALSE
    BY DEF NothingForgotten, copying
  <2>1. fSubPictState[s] = 0 /\ tile[s].uv.seq \in Nat
    BY DEF IInv, TypeOK, Frames
  <2>2. tile[s].y = tile[s].uv /\ tile[s].y.seq = posted[s]
    BY <2>1 DEF IInv, Tiles, copying
  <2> QED
    BY <2>1, <2>2
<1> QED
  BY <1>1, Invariance, PTL

(* Which variables the capture threads cannot change.                      *)
LEMMA CaptureLeaves ==
  ASSUME TypeOK, NEW c \in Cams, Capture(c)
  PROVE  UNCHANGED <<packIn, epc, ipict, tile>>
  BY DEF Capture, CaptureExit, CaptureRead, CaptureAgain, CaptureLuma, CaptureChroma,
         ReceiveEnter, ReceiveSwap, ReceiveLeave, ownedByEncoder

(* Only the two copies change a tile, and they make it newer.              *)
THEOREM OnlyForward == Spec => TilesAdvance
<1>1. IInv /\ [Next]_vars => [TilesForward]_vars
  <2> SUFFICES ASSUME IInv, Next PROVE TilesForward
    OBVIOUS
  <2>1. TypeOK /\ ipict \in Slots
        /\ \A s \in Slots : tile[s].y.seq \in Nat /\ tile[s].uv.seq \in Nat
    BY DEF IInv, TypeOK, Frames
  <2>2. CASE tile' = tile
    BY <2>1, <2>2 DEF TilesForward
  <2>3. CASE EncLuma \/ EncChroma
    <3>1. /\ mem[packIn].y = mem[packIn].uv /\ mem[packIn].y.seq \in Nat
          /\ tile[ipict].uv.seq < mem[packIn].y.seq
          /\ epc = "luma" => tile[ipict].y.seq < mem[packIn].y.seq
      BY <2>1, <2>3 DEF EncLuma, EncChroma, IInv, Copying, TypeOK, Frames
    <3>2. \A s \in Slots \ {ipict} : tile'[s] = tile[s]
      BY <2>1, <2>3 DEF EncLuma, EncChroma, TypeOK
    <3>3. /\ EncLuma => epc = "luma" /\ tile'[ipict].y = mem[packIn].y
                          /\ tile'[ipict].uv = tile[ipict].uv
          /\ EncChroma => tile'[ipict].uv = mem[packIn].uv /\ tile'[ipict].y = tile[ipict].y
      BY <2>1 DEF EncLuma, EncChroma, TypeOK
    <3>4. tile'[ipict].y.seq >= tile[ipict].y.seq /\ tile'[ipict].uv.seq >= tile[ipict].uv.seq
      BY <2>1, <2>3, <3>1, <3>3
    <3> QED
      BY <2>1, <3>2, <3>4 DEF TilesForward
  <2> QED
    BY <2>1, <2>2, <2>3, CaptureLeaves
    DEF Next, Encoder, EncLoop, EncLook, EncTry, EncTake, EncSend, EncFail
<1> QED
  BY <1>1, Invariance, PTL DEF Spec, TilesAdvance

(* The buffer the encoder copies from is its own. *)
THEOREM OwnBuffer == Spec => PackInStable
<1> DEFINE Stable == epc \in {"luma", "chroma"} =>
                       UNCHANGED packIn /\ mem'[packIn] = mem[packIn]
<1>1. IInv /\ [Next]_vars => [Stable]_vars
  <2> SUFFICES ASSUME IInv, Next, epc \in {"luma", "chroma"}
               PROVE  UNCHANGED packIn /\ mem'[packIn] = mem[packIn]
    OBVIOUS
  <2>1. CASE Encoder
    BY <2>1 DEF Encoder, EncLoop, EncLook, EncTry, EncTake, EncLuma, EncChroma, EncSend, EncFail
  <2>2. ASSUME NEW c \in Cams, Capture(c)
        PROVE  UNCHANGED packIn /\ mem'[packIn] = mem[packIn]
    <3>1. packIn # fDataOut[c] /\ packIn \in Bufs
      BY DEF IInv, NoAliasing, TypeOK
    <3> QED
      BY <2>2, <3>1
      DEF IInv, TypeOK, Capture, CaptureExit, CaptureRead, CaptureAgain, CaptureLuma,
          CaptureChroma, ReceiveEnter, ReceiveSwap, ReceiveLeave, slotVars, ownedByEncoder
  <2> QED
    BY <2>1, <2>2 DEF Next
<1> QED
  BY <1>1, Invariance, PTL DEF Spec, PackInStable

(***************************************************************************)
(* The refinement.                                                         *)
(***************************************************************************)

fresh == [s \in Slots |-> fSubPictState[s] = 1]

LEMMA MailboxInit == Init => Mailbox!Init
<1> SUFFICES ASSUME Init PROVE Mailbox!Init
  OBVIOUS
<1>1. shown = [s \in Slots |-> 0]
  BY DEF Init, shown, NoFrame
<1>2. fresh = [s \in Slots |-> FALSE]
  <2>1. \A s \in Slots : (fSubPictState[s] = 1) = FALSE
    BY DEF Init
  <2> QED
    BY <2>1, Zenon DEF fresh
<1> QED
  BY <1>1, <1>2 DEF Init, Mailbox!Init, fresh

(* receive_frame posts, taking a frame out of its slot shows it, and       *)
(* copying it to the tile does not change what is shown.                   *)
LEMMA MailboxStep == IInv /\ IInv' /\ [Next]_vars => [Mailbox!Next]_<<posted, fresh, shown>>
<1> SUFFICES ASSUME IInv, IInv', [Next]_vars PROVE [Mailbox!Next]_<<posted, fresh, shown>>
  OBVIOUS
<1>0. TypeOK /\ TypeOK' /\ ipict \in Slots
  BY DEF IInv, TypeOK
<1>1. ASSUME NEW c \in Cams, ReceiveSwap(c) PROVE Mailbox!Next
  <2>1. c \in Slots
    BY MosaicAssumption DEF Slots
  <2>2. shown' = shown
    BY <1>1 DEF ReceiveSwap, ownedByEncoder, shown
  <2>3. fresh' = [fresh EXCEPT ![c] = TRUE]
    BY <1>0, <1>1, <2>1 DEF ReceiveSwap, TypeOK, fresh
  <2>4. posted' = [posted EXCEPT ![c] = @ + 1]
    BY <1>1 DEF ReceiveSwap
  <2> QED
    BY <2>2, <2>3, <2>4 DEF Mailbox!Next, Mailbox!Post, fresh
<1>2. CASE EncTake
  <2>1. fSubPictState[ipict] = 1 /\ posted' = posted /\ epc = "take" /\ epc' = "luma"
        /\ ipict' = ipict /\ tile' = tile /\ mem' = mem /\ packIn' = fSubPict[ipict]
    BY <1>0, <1>2 DEF EncTake, ownedByCameras, IInv, FlagSeen
  <2>2. shown' = [shown EXCEPT ![ipict] = posted[ipict]]
    <3>1. mem[fSubPict[ipict]].y = [cam |-> ipict, seq |-> posted[ipict]]
      BY <1>0, <2>1 DEF IInv, FlagMeansFresh
    <3>2. mem'[packIn'].y.seq = posted[ipict]
      BY <2>1, <3>1
    <3> QED
      BY <1>0, <2>1, <3>2 DEF shown
  <2>3. fresh' = [fresh EXCEPT ![ipict] = FALSE]
    <3>1. \A s \in Slots : (fSubPictState'[s] = 1) =
                           IF s = ipict THEN FALSE ELSE fSubPictState[s] = 1
      <4>1. fSubPictState'[ipict] # 1
        BY <1>0, <1>2 DEF EncTake, TypeOK
      <4>2. \A s \in Slots : s # ipict => fSubPictState'[s] = fSubPictState[s]
        BY <1>0, <1>2 DEF EncTake, TypeOK
      <4> QED
        BY <4>1, <4>2, Zenon
    <3>2. fresh' = [s \in Slots |-> IF s = ipict THEN FALSE ELSE fSubPictState[s] = 1]
      BY <3>1, Zenon DEF fresh
    <3> QED
      BY <1>0, <3>2 DEF fresh
  <2> QED
    BY <1>0, <2>1, <2>2, <2>3 DEF Mailbox!Next, Mailbox!Show, fresh
<1>3. ASSUME NEW c \in Cams, Capture(c), ~ReceiveSwap(c)
      PROVE  UNCHANGED <<posted, fresh, shown>>
  <2>1. posted' = posted /\ fSubPictState' = fSubPictState
    BY <1>3 DEF Capture, CaptureExit, CaptureRead, CaptureAgain, CaptureLuma, CaptureChroma,
                ReceiveEnter, ReceiveLeave, slotVars
  <2>2. epc' = epc /\ ipict' = ipict /\ tile' = tile
    BY <1>0, <1>3, CaptureLeaves
  <2>3. epc \in {"luma", "chroma"} => mem'[packIn'] = mem[packIn]
    <3>1. packIn # fDataOut[c] /\ packIn \in Bufs
      BY DEF IInv, NoAliasing, TypeOK
    <3> QED
      BY <1>0, <1>3, <3>1
      DEF TypeOK, Capture, CaptureExit, CaptureRead, CaptureAgain, CaptureLuma,
          CaptureChroma, ReceiveEnter, ReceiveLeave, slotVars, ownedByEncoder
  <2> QED
    BY <2>1, <2>2, <2>3 DEF shown, fresh
<1>4. CASE EncLuma
  BY <1>0, <1>4 DEF EncLuma, ownedByCameras, TypeOK, shown, fresh
<1>5. CASE EncChroma
  <2>1. tile[ipict].y = mem[packIn].y /\ epc = "chroma" /\ epc' \in {"look", "send"}
    BY <1>0, <1>5 DEF EncChroma, EncAdvance, IInv, Copying
  <2>2. \A s \in Slots : tile'[s].y = tile[s].y
    BY <1>0, <1>5 DEF EncChroma, TypeOK
  <2>3. shown' = shown
    BY <1>0, <2>1, <2>2 DEF shown
  <2> QED
    BY <1>5, <2>3 DEF EncChroma, ownedByCameras, fresh
<1>6. CASE EncLoop \/ EncLook \/ EncTry \/ EncSend \/ EncFail
  <2>1. /\ epc \notin {"luma", "chroma"} /\ epc' \notin {"luma", "chroma"}
        /\ UNCHANGED <<posted, fSubPictState, tile>>
    BY <1>6 DEF EncLoop, EncLook, EncTry, EncSend, EncFail, EncAdvance, ownedByCameras
  <2> QED
    BY <2>1 DEF shown, fresh
<1>7. CASE UNCHANGED vars
  BY <1>7 DEF vars, shown, fresh
<1> QED
  BY <1>1, <1>2, <1>3, <1>4, <1>5, <1>6, <1>7 DEF Next, Encoder

(* Buffers that change hands, flags, locks and threads implement one       *)
(* mailbox per picture.                                                    *)
THEOREM Refinement == Spec => ImplementsMailbox
<1>1. IInv /\ IInv' /\ [Next]_vars => [Mailbox!Next]_<<posted, fresh, shown>>
  BY MailboxStep
<1> QED
  BY <1>1, MailboxInit, Invariance, PTL
  DEF Spec, ImplementsMailbox, Mailbox!Spec, Mailbox!boxVars, fresh
=============================================================================
