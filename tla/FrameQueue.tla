------------------------------ MODULE FrameQueue ------------------------------
(***************************************************************************)
(* Encoded packets on their way from the encoder thread to the RTSP thread *)
(* (CameraH264Encoder.cpp send_packet / fetch_packet / release_packet and  *)
(* CameraFrameSource.cpp).                                                 *)
(*                                                                         *)
(* Packets travel by DataPacket::swap: what moves is the ownership of a    *)
(* memory buffer.  `slots' (fvOutQueue), `dataOut' (the static data_out of *)
(* send_packet) and `outPack' (fOutPack) hold buffer numbers, `heap' what  *)
(* is in each buffer: the number `seq' of the last packet copied into it,  *)
(* that packet's length `len', and fSize, `size'.                          *)
(*                                                                         *)
(* The encoder thread runs send_packet, the RTSP thread the live555 event  *)
(* loop, which calls deliverFrame from doGetNextFrame and from the event   *)
(* trigger.  epc and rpc say where each thread is.  A step is what runs    *)
(* between two points at which the other thread can observe or interfere:  *)
(* taking or releasing fOutQueLock, the unlocked empty() of fetch_packet,  *)
(* the event trigger, the copies in and out of a buffer.                   *)
(***************************************************************************)
EXTENDS CircularQueue

CONSTANTS
  PktLens,          \* payload lengths the codec may produce, start code removed
  MaxSize,          \* fMaxSize, the space live555 offers for one frame
  MaxPkt            \* bound: the number of packets the encoder sends

ASSUME FrameQueueAssumption ==
  /\ PktLens \subseteq Nat \ {0}
  /\ MaxSize \in Nat \ {0}
  /\ MaxPkt \in Nat

Bufs == 0 .. Cap + 1               \* one per slot, one for data_out, one for fOutPack

VARIABLES
  ring,             \* fOutQuePos
  slots,            \* fvOutQueue
  dataOut,          \* data_out
  outPack,          \* fOutPack
  heap,             \* the buffers' contents
  lock,             \* holder of fOutQueLock
  epc,              \* the encoder thread inside send_packet
  rpc,              \* the RTSP thread
  onFrameFunc,      \* OnFrameFunc is set
  awaiting,         \* isCurrentlyAwaitingData()
  trigger,          \* the event trigger is raised and not yet handled
  sent,             \* packets send_packet was given
  frame             \* the last frame handed to the downstream object

ringVars == <<ring, slots, dataOut, outPack, heap, lock>>
vars == <<ring, slots, dataOut, outPack, heap, lock, epc, rpc,
          onFrameFunc, awaiting, trigger, sent, frame>>

Least(a, b) == IF a < b THEN a ELSE b
Most(a, b)  == IF a > b THEN a ELSE b

NoPacket == [seq |-> 0, len |-> 0, size |-> 0]

Init ==
  /\ ring = NewQueue
  /\ slots = [i \in Positions |-> i]
  /\ dataOut = Cap
  /\ outPack = Cap + 1
  /\ heap = [b \in Bufs |-> NoPacket]
  /\ lock = "none"
  /\ epc = "idle"
  /\ rpc = "start"
  /\ onFrameFunc = FALSE
  /\ awaiting = FALSE
  /\ trigger = FALSE
  /\ sent = 0
  /\ frame = NoPacket

(***************************************************************************)
(* The encoder thread: send_packet.                                        *)
(***************************************************************************)

(* data_out.copy(ptr, pkt_len).  DataPacket::copy changes fSize only to    *)
(* grow it: a shorter packet keeps the size of a longer one copied into    *)
(* the same buffer before.  A packet with no payload is ignored.           *)
SendCopy(len) ==
  /\ epc = "idle"
  /\ sent < MaxPkt
  /\ sent' = sent + 1
  /\ heap' = [heap EXCEPT ![dataOut] =
                [seq |-> sent + 1, len |-> len, size |-> Most(len, @.size)]]
  /\ epc' = "enter"
  /\ UNCHANGED <<ring, slots, dataOut, outPack, lock, rpc, onFrameFunc,
                 awaiting, trigger, frame>>

SendEnter ==
  /\ epc = "enter"
  /\ lock = "none"
  /\ lock' = "enc"
  /\ epc' = "drop"
  /\ UNCHANGED <<ring, slots, dataOut, outPack, heap, rpc, onFrameFunc,
                 awaiting, trigger, sent, frame>>

(* Faulty: the oldest packet goes although there is room. *)
SendDrop_Always ==
  /\ epc = "drop"
  /\ ring' = pop_front(ring)
  /\ epc' = "push"
  /\ UNCHANGED <<slots, dataOut, outPack, heap, lock, rpc, onFrameFunc,
                 awaiting, trigger, sent, frame>>

(* if (full()) pop_front(): the oldest packet gives way *)
SendDrop ==
  /\ epc = "drop"
  /\ ring' = IF full(ring) THEN pop_front(ring) ELSE ring
  /\ epc' = "push"
  /\ UNCHANGED <<slots, dataOut, outPack, heap, lock, rpc, onFrameFunc,
                 awaiting, trigger, sent, frame>>

(* Faulty: the slot takes data_out's memory, data_out keeps it too.        *)
SendPush_NoSwap ==
  /\ epc = "push"
  /\ ring' = push_back(ring)
  /\ slots' = [slots EXCEPT ![ring'.rear] = dataOut]
  /\ epc' = "leave"
  /\ UNCHANGED <<dataOut, outPack, heap, lock, rpc, onFrameFunc, awaiting,
                 trigger, sent, frame>>

(* fvOutQueue[push_back()].swap(data_out) *)
SendPush ==
  /\ epc = "push"
  /\ ring' = push_back(ring)
  /\ slots' = [slots EXCEPT ![ring'.rear] = dataOut]
  /\ dataOut' = slots[ring'.rear]
  /\ epc' = "leave"
  /\ UNCHANGED <<outPack, heap, lock, rpc, onFrameFunc, awaiting, trigger,
                 sent, frame>>

SendLeave ==
  /\ epc = "leave"
  /\ lock' = "none"
  /\ epc' = "notify"
  /\ UNCHANGED <<ring, slots, dataOut, outPack, heap, rpc, onFrameFunc,
                 awaiting, trigger, sent, frame>>

(* OnFrameFunc(), which is CameraFrameSource::onFrame: triggerEvent.  It   *)
(* is empty until the RTSP thread has created its frame source.            *)
SendNotify ==
  /\ epc = "notify"
  /\ trigger' = (trigger \/ onFrameFunc)
  /\ epc' = "idle"
  /\ UNCHANGED <<ringVars, rpc, onFrameFunc, awaiting, sent, frame>>

(***************************************************************************)
(* The RTSP thread.                                                        *)
(***************************************************************************)

(* The constructor of CameraFrameSource creates the trigger and registers  *)
(* the callback; the encoder thread may be running already.                *)
Register ==
  /\ rpc = "start"
  /\ onFrameFunc' = TRUE
  /\ rpc' = "idle"
  /\ UNCHANGED <<ringVars, epc, awaiting, trigger, sent, frame>>

(* FramedSource::getNextFrame marks the source as awaited and calls        *)
(* doGetNextFrame, whose deliverFrame goes on to fetch_packet.             *)
GetNextFrame ==
  /\ rpc = "idle"
  /\ ~awaiting
  /\ awaiting' = TRUE
  /\ rpc' = "check"
  /\ UNCHANGED <<ringVars, epc, onFrameFunc, trigger, sent, frame>>

(* Faulty: the trigger is consumed without looking for a packet. *)
HandleTrigger_Lost ==
  /\ rpc = "idle"
  /\ trigger
  /\ trigger' = FALSE
  /\ UNCHANGED <<ringVars, epc, rpc, onFrameFunc, awaiting, sent, frame>>

(* The event loop clears the trigger, then calls deliverFrame, which       *)
(* returns at once when nobody awaits a frame.                             *)
HandleTrigger ==
  /\ rpc = "idle"
  /\ trigger
  /\ trigger' = FALSE
  /\ rpc' = IF awaiting THEN "check" ELSE "idle"
  /\ UNCHANGED <<ringVars, epc, onFrameFunc, awaiting, sent, frame>>

(* Faulty: fetch_packet without its test. *)
FetchCheck_Blind ==
  /\ rpc = "check"
  /\ rpc' = "enter"
  /\ UNCHANGED <<ringVars, epc, onFrameFunc, awaiting, trigger, sent, frame>>

(* The empty() of fetch_packet, read without the lock.  On an empty queue  *)
(* deliverFrame returns with the source still awaited.                     *)
FetchCheck ==
  /\ rpc = "check"
  /\ rpc' = IF empty(ring) THEN "idle" ELSE "enter"
  /\ UNCHANGED <<ringVars, epc, onFrameFunc, awaiting, trigger, sent, frame>>

FetchEnter ==
  /\ rpc = "enter"
  /\ lock = "none"
  /\ lock' = "rtsp"
  /\ rpc' = "pop"
  /\ UNCHANGED <<ring, slots, dataOut, outPack, heap, epc, onFrameFunc,
                 awaiting, trigger, sent, frame>>

(* Faulty: the slot keeps the memory that fOutPack now points to. *)
FetchPop_NoSwap ==
  /\ rpc = "pop"
  /\ outPack' = slots[ring.front]
  /\ ring' = pop_front(ring)
  /\ lock' = "none"
  /\ rpc' = "deliver"
  /\ UNCHANGED <<slots, dataOut, heap, epc, onFrameFunc, awaiting, trigger,
                 sent, frame>>

(* fOutPack.swap(fvOutQueue[front()]); pop_front(); leave the section.     *)
(* The packet is taken whether or not one is there.                        *)
FetchPop ==
  /\ rpc = "pop"
  /\ slots' = [slots EXCEPT ![ring.front] = outPack]
  /\ outPack' = slots[ring.front]
  /\ ring' = pop_front(ring)
  /\ lock' = "none"
  /\ rpc' = "deliver"
  /\ UNCHANGED <<dataOut, heap, epc, onFrameFunc, awaiting, trigger, sent,
                 frame>>

(* The rest of deliverFrame: copy at most fMaxSize bytes to fTo and call   *)
(* afterGetting, or close the source when the packet has no memory.        *)
Deliver ==
  /\ rpc = "deliver"
  /\ awaiting' = FALSE
  /\ IF heap[outPack].size > 0
       THEN /\ frame' = [heap[outPack] EXCEPT !.size = Least(@, MaxSize)]
            /\ rpc' = "idle"
       ELSE /\ rpc' = "closed"
            /\ UNCHANGED frame
  /\ UNCHANGED <<ringVars, epc, onFrameFunc, trigger, sent>>

(* The downstream object stops asking (FramedSource::stopGettingFrames).   *)
StopGettingFrames ==
  /\ rpc = "idle"
  /\ awaiting
  /\ awaiting' = FALSE
  /\ UNCHANGED <<ringVars, epc, rpc, onFrameFunc, trigger, sent, frame>>

(***************************************************************************)
(* The specification.                                                      *)
(***************************************************************************)

InSendPacket ==
  SendEnter \/ SendDrop \/ SendPush \/ SendLeave \/ SendNotify

InDeliverFrame == FetchCheck \/ FetchEnter \/ FetchPop \/ Deliver

Encoder == InSendPacket \/ \E len \in PktLens : SendCopy(len)

Rtsp ==
  \/ Register \/ GetNextFrame \/ StopGettingFrames
  \/ HandleTrigger \/ InDeliverFrame

Next == Encoder \/ Rtsp

Spec == Init /\ [][Next]_vars

(* send_packet runs to its end once entered, and the event loop handles a  *)
(* raised trigger and finishes deliverFrame.  EnterCriticalSection lets a  *)
(* waiting thread in sooner or later however often the other one comes     *)
(* back.  Nothing obliges the codec to produce a packet, nor a client to   *)
(* ask for a frame or to stop asking.                                      *)
Fairness ==
  /\ WF_vars(SendDrop \/ SendPush \/ SendLeave \/ SendNotify)
  /\ SF_vars(SendEnter)
  /\ WF_vars(HandleTrigger \/ FetchCheck \/ FetchPop \/ Deliver)
  /\ SF_vars(FetchEnter)

FairSpec == Spec /\ Fairness

(***************************************************************************)
(* Properties.                                                             *)
(***************************************************************************)

Packets == [seq: Nat, len: Nat, size: Nat]

(* The type invariant. *)
TypeOK ==
  /\ ring \in Queue
  /\ slots \in [Positions -> Bufs]
  /\ dataOut \in Bufs
  /\ outPack \in Bufs
  /\ heap \in [Bufs -> Packets]
  /\ lock \in {"none", "enc", "rtsp"}
  /\ epc \in {"idle", "enter", "drop", "push", "leave", "notify"}
  /\ rpc \in {"start", "idle", "check", "enter", "pop", "deliver", "closed"}
  /\ onFrameFunc \in BOOLEAN
  /\ awaiting \in BOOLEAN
  /\ trigger \in BOOLEAN
  /\ sent \in Nat
  /\ frame \in Packets

(* No buffer is reachable through two owners: the encoder never writes     *)
(* into memory the RTSP thread reads, and no memory is freed twice, for    *)
(* all the swapping of send_packet and fetch_packet.                       *)
NoAliasing ==
  /\ \A i, j \in Positions : slots[i] = slots[j] => i = j
  /\ \A i \in Positions : slots[i] \notin {dataOut, outPack}
  /\ dataOut # outPack

(* Packets that have reached the queue, or were dropped from it since. *)
pushed == IF epc \in {"enter", "drop", "push"} THEN sent - 1 ELSE sent

(* The queue holds exactly the newest packets sent, oldest in front: what  *)
(* is thrown away when it is full is never a newer packet than one kept.   *)
QueueHoldsLatest ==
  /\ Consistent(ring)
  /\ \A k \in 0 .. ring.size - 1 :
       heap[slots[position(ring, k)]].seq = pushed - ring.size + 1 + k

(* fetch_packet tests for a packet outside the lock and takes one inside   *)
(* it without testing again; nothing that happens between the two can take *)
(* the packet away, so the source is never closed for want of data.        *)
FetchFindsPacket ==
  /\ rpc = "pop" => ~empty(ring)
  /\ rpc # "closed"

(* A client that waits while a packet is queued is going to be woken: the  *)
(* trigger is up, or the encoder is still on its way to raise it.          *)
NoMissedFrame ==
  rpc = "idle" /\ awaiting /\ ~empty(ring) => trigger \/ epc \in {"leave", "notify"}

(* Frames reach the client in the order they were encoded, none twice.     *)
DeliveredInOrder == [][frame' # frame => frame'.seq > frame.seq]_vars

(* From fetch_packet to the end of the copy the buffer the RTSP thread     *)
(* reads outside the lock does not change, whatever the encoder does.      *)
FrameStableWhileRead ==
  [][rpc = "deliver" => UNCHANGED outPack /\ heap'[outPack] = heap[outPack]]_vars

(* A client that waits while a packet is queued gets a frame, or gives up. *)
ClientServed == awaiting /\ ~empty(ring) ~> ~awaiting

(* The numbers of the queued packets, and of the last one fetched. *)
queued  == [k \in 1 .. ring.size |-> heap[slots[position(ring, k - 1)]].seq]
fetched == IF rpc = "deliver" THEN heap[outPack].seq ELSE frame.seq

(* The queue is the bounded FIFO of LossyFifo.                             *)
Fifo == INSTANCE LossyFifo WITH queue <- queued, last <- pushed, received <- fetched

(* Every behaviour of the two threads is one of the bounded FIFO.          *)
ImplementsFifo == Fifo!Spec

(* live555 asks its discrete framer's source for complete frames only      *)
(* (H264VideoStreamDiscreteFramer.hh:18): what is delivered is the packet. *)
FrameIsWholePacket == frame.size = frame.len
=============================================================================
