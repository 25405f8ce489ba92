--------------------------- MODULE FrameQueueProofs ---------------------------
(***************************************************************************)
(* Proofs about FrameQueue, for every capacity of the queue, every set of  *)
(* packet lengths and every number of packets.                             *)
(***************************************************************************)
EXTENDS FrameQueue, SequenceTheorems, TLAPS

(***************************************************************************)
(* The ring.                                                               *)
(***************************************************************************)

(* A queue stays one of the right shape under either operation, whether or *)
(* not it is consistent.                                                   *)
LEMMA RingType ==
  ASSUME NEW q \in Queue
  PROVE  pop_front(q) \in Queue /\ push_back(q) \in Queue
<1>1. Cap \in Nat \ {0}
  BY CapAssumption
<1>2. \A pos \in Positions : next_pos(pos) \in Positions
  BY <1>1 DEF Positions, next_pos
<1>3. ASSUME NEW r \in Queue PROVE pop_front(r) \in Queue
  <2> DEFINE shorter == [r EXCEPT !.front = next_pos(@), !.size = @ - 1]
  <2>1. next_pos(r.front) \in Positions
    BY <1>2 DEF Queue
  <2>2. r.size > 0 => r.size - 1 \in 0 .. Cap
    BY <1>1 DEF Queue
  <2>3. r.size > 0 => shorter \in Queue
    BY <2>1, <2>2 DEF Queue
  <2> QED
    BY <2>3 DEF pop_front
<1>4. push_back(q) \in Queue
  <2> DEFINE moved  == [q EXCEPT !.rear = next_pos(@)]
             longer == [moved EXCEPT !.size = @ + 1]
  <2>1. moved \in Queue /\ moved.size = q.size
    BY <1>2 DEF Queue
  <2>2. ~full(q) => q.size + 1 \in 0 .. Cap
    BY <1>1 DEF Queue, full
  <2>3. ~full(q) => longer \in Queue
    BY <2>1, <2>2 DEF Queue
  <2> QED
    BY <1>3, <2>1, <2>3 DEF push_back
<1> QED
  BY <1>3, <1>4

(* Popping a consistent queue of at least one element: the element k of    *)
(* the result was the element k + 1, none of them is the popped one.       *)
LEMMA PopFrontKeeps ==
  ASSUME NEW q \in Queue, Consistent(q), ~empty(q)
  PROVE  /\ pop_front(q) \in Queue
         /\ Consistent(pop_front(q))
         /\ pop_front(q).size = q.size - 1
         /\ pop_front(q).rear = q.rear
         /\ \A k \in 0 .. q.size - 2 :
              /\ position(pop_front(q), k) = position(q, k + 1)
              /\ position(q, k + 1) \in Positions
              /\ position(q, k + 1) # q.front
<1> DEFINE p == pop_front(q)
<1>1. /\ q.front \in 0 .. Cap - 1 /\ q.rear \in 0 .. Cap - 1 /\ q.size \in 1 .. Cap
      /\ Cap \in Nat \ {0}
  BY CapAssumption DEF Queue, Positions, empty
<1>2. /\ p.front = next_pos(q.front)
      /\ p.rear = q.rear
      /\ p.size = q.size - 1
  BY <1>1 DEF pop_front, Queue
<1>4. p \in Queue
  BY RingType
<1>5. Consistent(p)
  BY <1>1, <1>2 DEF Consistent, next_pos
<1>6. ASSUME NEW k \in 0 .. q.size - 2
      PROVE  /\ position(p, k) = position(q, k + 1)
             /\ position(q, k + 1) \in Positions
             /\ position(q, k + 1) # q.front
  BY <1>1, <1>2 DEF position, next_pos, Positions
<1> QED
  BY <1>2, <1>4, <1>5, <1>6

(* Pushing to a queue that is not full: the elements keep their places and *)
(* the new one is behind them, in a place none of them had.                *)
LEMMA PushBackKeeps ==
  ASSUME NEW q \in Queue, Consistent(q), ~full(q)
  PROVE  /\ push_back(q) \in Queue
         /\ Consistent(push_back(q))
         /\ push_back(q).size = q.size + 1
         /\ position(push_back(q), q.size) = push_back(q).rear
         /\ \A k \in 0 .. q.size - 1 :
              /\ position(push_back(q), k) = position(q, k)
              /\ position(q, k) \in Positions
              /\ position(q, k) # push_back(q).rear
<1> DEFINE p == push_back(q)
<1>1. /\ q.front \in 0 .. Cap - 1 /\ q.rear \in 0 .. Cap - 1 /\ q.size \in 0 .. Cap - 1
      /\ Cap \in Nat \ {0}
  BY CapAssumption DEF Queue, Positions, full
<1>2. /\ p.front = q.front
      /\ p.rear = next_pos(q.rear)
      /\ p.size = q.size + 1
  BY <1>1 DEF push_back, full, Queue
<1>4. p \in Queue
  BY RingType
<1>5. Consistent(p)
  BY <1>1, <1>2 DEF Consistent, next_pos
<1>6. position(p, q.size) = p.rear
  BY <1>1, <1>2 DEF Consistent, position, next_pos
<1>7. ASSUME NEW k \in 0 .. q.size - 1
      PROVE  /\ position(p, k) = position(q, k)
             /\ position(q, k) \in Positions
             /\ position(q, k) # p.rear
  BY <1>1, <1>2 DEF position, next_pos, Positions, Consistent
<1> QED
  BY <1>2, <1>4, <1>5, <1>6, <1>7

(***************************************************************************)
(* The type invariant.                                                     *)
(***************************************************************************)

LEMMA TypeInit == Init => TypeOK
<1> SUFFICES ASSUME Init PROVE TypeOK
  OBVIOUS
<1>1. ring \in Queue
  BY CapAssumption DEF Init, NewQueue, Queue, Positions
<1>2. /\ slots \in [Positions -> Bufs] /\ dataOut \in Bufs /\ outPack \in Bufs
      /\ heap \in [Bufs -> Packets] /\ frame \in Packets
  BY CapAssumption DEF Init, Positions, Bufs, NoPacket, Packets
<1> QED
  BY <1>1, <1>2 DEF Init, TypeOK

LEMMA TypeStep == TypeOK /\ [Next]_vars => TypeOK'
<1> SUFFICES ASSUME TypeOK, [Next]_vars PROVE TypeOK'
  OBVIOUS
<1> USE CapAssumption, FrameQueueAssumption DEF TypeOK, Packets
<1>1. ASSUME NEW len \in PktLens, SendCopy(len) PROVE TypeOK'
  BY <1>1 DEF SendCopy, Most
<1>2. CASE SendEnter
  BY <1>2 DEF SendEnter
<1>3. CASE SendDrop
  BY <1>3, RingType DEF SendDrop
<1>4. CASE SendPush
  BY <1>4, RingType DEF SendPush, Queue
<1>5. CASE SendLeave
  BY <1>5 DEF SendLeave
<1>6. CASE SendNotify
  BY <1>6 DEF SendNotify, ringVars
<1>7. CASE Register
  BY <1>7 DEF Register, ringVars
<1>8. CASE GetNextFrame
  BY <1>8 DEF GetNextFrame, ringVars
<1>9. CASE StopGettingFrames
  BY <1>9 DEF StopGettingFrames, ringVars
<1>10. CASE HandleTrigger
  BY <1>10 DEF HandleTrigger, ringVars
<1>11. CASE FetchCheck
  BY <1>11 DEF FetchCheck, ringVars
<1>12. CASE FetchEnter
  BY <1>12 DEF FetchEnter
<1>13. CASE FetchPop
  BY <1>13, RingType DEF FetchPop, Queue
<1>14. CASE Deliver
  BY <1>14 DEF Deliver, ringVars, Least
<1>15. CASE UNCHANGED vars
  BY <1>15 DEF vars
<1> QED
  BY <1>1, <1>2, <1>3, <1>4, <1>5, <1>6, <1>7, <1>8, <1>9, <1>10, <1>11,
     <1>12, <1>13, <1>14, <1>15
  DEF Next, Encoder, InSendPacket, Rtsp, InDeliverFrame

(* Every variable keeps its type: in particular the ring's indices stay    *)
(* within the array and its count within the capacity.                     *)
THEOREM TypeCorrect == Spec => []TypeOK
  BY TypeInit, TypeStep, PTL DEF Spec

(***************************************************************************)
(* The inductive invariant.                                                *)
(***************************************************************************)

(* fOutQueLock is held exactly where the code says it is. *)
Locking ==
  /\ lock = "enc" <=> epc \in {"drop", "push", "leave"}
  /\ lock = "rtsp" <=> rpc = "pop"

(* The packet in data_out is the last one sent, until it is in the queue;  *)
(* a buffer that holds a packet has bytes in it.                           *)
InHand ==
  /\ epc \in {"enter", "drop", "push"} =>
       sent > 0 /\ heap[dataOut].seq = sent /\ heap[dataOut].size > 0
  /\ epc = "push" => ~full(ring)
  /\ \A k \in 0 .. ring.size - 1 : heap[slots[position(ring, k)]].size > 0
  /\ rpc = "deliver" => heap[outPack].size > 0

(* The RTSP thread past its unlocked test: a packet is there, or was just  *)
(* dropped by an encoder that still holds the lock and is about to push.   *)
Fetching ==
  /\ rpc = "enter" => ~empty(ring) \/ epc = "push"
  /\ rpc = "pop" => ~empty(ring)
  /\ rpc # "closed"

(* What has been delivered is older than what is being delivered, and that *)
(* is older than everything in the queue.                                  *)
Ordered ==
  /\ frame.seq <= pushed - ring.size
  /\ rpc = "deliver" => /\ frame.seq < heap[outPack].seq
                        /\ heap[outPack].seq <= pushed - ring.size

Waking ==
  /\ rpc # "start" => onFrameFunc
  /\ rpc = "start" => ~awaiting
  /\ NoMissedFrame

IInv ==
  /\ TypeOK
  /\ Locking
  /\ NoAliasing
  /\ QueueHoldsLatest
  /\ InHand
  /\ Fetching
  /\ Ordered
  /\ Waking

LEMMA InvInit == Init => IInv
<1> SUFFICES ASSUME Init PROVE IInv
  OBVIOUS
<1>1. TypeOK
  BY TypeInit
<1>2. NoAliasing
  BY CapAssumption DEF Init, NoAliasing, Positions
<1>3. QueueHoldsLatest
  BY CapAssumption DEF Init, QueueHoldsLatest, Consistent, NewQueue
<1>4. InHand
  BY DEF Init, InHand, NewQueue
<1>5. Ordered
  BY DEF Init, Ordered, pushed, NewQueue, NoPacket
<1>6. Locking /\ Fetching /\ Waking
  BY DEF Init, Locking, Fetching, Waking, NoMissedFrame
<1> QED
  BY <1>1, <1>2, <1>3, <1>4, <1>5, <1>6 DEF IInv

(* The positions of the queued packets are in the array. *)
LEMMA QueuedPositions ==
  ASSUME NEW q \in Queue
  PROVE  \A k \in 0 .. q.size - 1 : position(q, k) \in Positions
  BY CapAssumption DEF Queue, Positions, position

(* Filling data_out touches no queued packet and not the one being read.   *)
LEMMA InvSendCopy ==
  ASSUME IInv, TypeOK', NEW len \in PktLens, SendCopy(len)
  PROVE  IInv'
<1> USE DEF IInv
<1>1. /\ TypeOK /\ TypeOK'
      /\ ring' = ring /\ slots' = slots /\ outPack' = outPack /\ dataOut' = dataOut
      /\ rpc' = rpc /\ frame' = frame /\ epc = "idle" /\ epc' = "enter"
      /\ sent' = sent + 1 /\ pushed' = pushed
  BY DEF SendCopy, pushed, TypeOK
<1>2. /\ heap'[dataOut].seq = sent'
      /\ heap'[dataOut].size > 0
      /\ \A b \in Bufs \ {dataOut} : heap'[b] = heap[b]
  <2>1. len > 0 /\ len \in Nat /\ heap[dataOut].size \in Nat
    BY FrameQueueAssumption DEF TypeOK, Packets
  <2> QED
    BY <2>1 DEF SendCopy, TypeOK, Most
<1>3. heap'[outPack] = heap[outPack]
  BY <1>2 DEF NoAliasing, TypeOK
<1>4. \A k \in 0 .. ring.size - 1 :
        heap'[slots[position(ring, k)]] = heap[slots[position(ring, k)]]
  BY <1>2, QueuedPositions DEF NoAliasing, TypeOK
<1>5. NoAliasing'
  BY <1>1 DEF NoAliasing
<1>6. QueueHoldsLatest'
  BY <1>1, <1>4 DEF QueueHoldsLatest, position, Consistent
<1>7. InHand'
  BY <1>1, <1>2, <1>3, <1>4 DEF InHand, position, TypeOK
<1>8. Ordered'
  BY <1>1, <1>3 DEF Ordered
<1>9. Locking' /\ Fetching' /\ Waking'
  BY <1>1 DEF SendCopy, Locking, Fetching, Waking, NoMissedFrame, empty
<1> QED
  BY <1>1, <1>5, <1>6, <1>7, <1>8, <1>9

(* Dropping the oldest packet of a full queue leaves the newest ones.      *)
LEMMA InvSendDrop ==
  ASSUME IInv, TypeOK', SendDrop
  PROVE  IInv'
<1> USE DEF IInv
<1>1. /\ TypeOK /\ TypeOK'
      /\ slots' = slots /\ outPack' = outPack /\ dataOut' = dataOut /\ heap' = heap
      /\ rpc' = rpc /\ frame' = frame /\ epc = "drop" /\ epc' = "push"
      /\ sent' = sent /\ pushed' = pushed
      /\ ring' = IF full(ring) THEN pop_front(ring) ELSE ring
      /\ rpc # "pop"
  BY DEF SendDrop, pushed, Locking
<1>2. NoAliasing'
  BY <1>1 DEF NoAliasing
<1>3. Locking' /\ Fetching'
  BY <1>1 DEF SendDrop, Locking, Fetching
<1>4. CASE full(ring)
  <2>1. ~empty(ring) /\ ring \in Queue /\ Consistent(ring) /\ ring.size \in Nat
    BY <1>4, CapAssumption DEF full, empty, TypeOK, QueueHoldsLatest, Queue
  <2>2. /\ ring' = pop_front(ring) /\ Consistent(ring') /\ ring'.size = ring.size - 1
        /\ \A k \in 0 .. ring'.size - 1 : position(ring', k) = position(ring, k + 1)
    BY <1>1, <1>4, <2>1, PopFrontKeeps
  <2>3. QueueHoldsLatest'
    BY <1>1, <2>1, <2>2 DEF QueueHoldsLatest, pushed, TypeOK
  <2>4. InHand'
    BY <1>1, <1>4, <2>1, <2>2 DEF InHand, full
  <2>5. Ordered'
    BY <1>1, <2>1, <2>2 DEF Ordered, pushed, TypeOK, Packets
  <2>6. Waking'
    BY <1>1, <2>1, <2>2 DEF SendDrop, Waking, NoMissedFrame, empty
  <2> QED
    BY <1>1, <1>2, <1>3, <2>3, <2>4, <2>5, <2>6
<1>5. CASE ~full(ring)
  <2>1. ring' = ring
    BY <1>1, <1>5
  <2>2. QueueHoldsLatest' /\ InHand' /\ Ordered' /\ Waking'
    BY <1>1, <1>5, <2>1
    DEF SendDrop, QueueHoldsLatest, InHand, Ordered, Waking, NoMissedFrame
  <2> QED
    BY <1>1, <1>2, <1>3, <2>2
<1> QED
  BY <1>4, <1>5

(* Pushing exchanges data_out's buffer for that of a slot nobody uses.     *)
LEMMA InvSendPush ==
  ASSUME IInv, TypeOK', SendPush
  PROVE  IInv'
<1> USE DEF IInv
<1>1. /\ TypeOK /\ TypeOK' /\ ring \in Queue /\ ring.size \in Nat /\ ring' = push_back(ring)
      /\ outPack' = outPack /\ heap' = heap /\ sent' = sent /\ rpc' = rpc /\ frame' = frame
      /\ epc = "push" /\ epc' = "leave" /\ ~full(ring) /\ rpc # "pop"
  BY DEF SendPush, InHand, Locking, TypeOK, Queue
<1>2. pushed = sent - 1 /\ pushed' = sent /\ sent \in Nat
  BY <1>1 DEF pushed, TypeOK
<1>3. /\ Consistent(ring') /\ ring'.size = ring.size + 1 /\ ring'.rear \in Positions
      /\ position(ring', ring.size) = ring'.rear
      /\ \A k \in 0 .. ring.size - 1 :
           /\ position(ring', k) = position(ring, k)
           /\ position(ring, k) \in Positions
           /\ position(ring, k) # ring'.rear
  BY <1>1, PushBackKeeps DEF QueueHoldsLatest, Queue
<1>4. /\ slots'[ring'.rear] = dataOut
      /\ \A i \in Positions \ {ring'.rear} : slots'[i] = slots[i]
      /\ dataOut' = slots[ring'.rear]
  BY <1>3 DEF SendPush, TypeOK
<1>5. NoAliasing'
  BY <1>1, <1>3, <1>4 DEF NoAliasing
<1>6. \A k \in 0 .. ring'.size - 1 :
        slots'[position(ring', k)] =
          IF k = ring.size THEN dataOut ELSE slots[position(ring, k)]
  BY <1>1, <1>3, <1>4
<1>7. heap[dataOut].seq = sent /\ heap[dataOut].size > 0
  BY <1>1 DEF InHand
<1>8. QueueHoldsLatest'
  <2>1. ASSUME NEW k \in 0 .. ring'.size - 1
        PROVE  heap'[slots'[position(ring', k)]].seq = pushed' - ring'.size + 1 + k
    <3>1. CASE k = ring.size
      BY <1>1, <1>2, <1>3, <1>6, <1>7, <3>1
    <3>2. CASE k # ring.size
      BY <1>1, <1>2, <1>3, <1>6, <3>2 DEF QueueHoldsLatest
    <3> QED
      BY <3>1, <3>2
  <2> QED
    BY <1>3, <2>1 DEF QueueHoldsLatest
<1>9. InHand'
  <2>1. ASSUME NEW k \in 0 .. ring'.size - 1
        PROVE  heap'[slots'[position(ring', k)]].size > 0
    BY <1>1, <1>3, <1>6, <1>7 DEF InHand
  <2> QED
    BY <1>1, <2>1 DEF InHand
<1>10. Ordered'
  BY <1>1, <1>2, <1>3 DEF Ordered
<1>11. Locking' /\ Fetching' /\ Waking'
  BY <1>1, <1>3 DEF SendPush, Locking, Fetching, Waking, NoMissedFrame, empty
<1> QED
  BY <1>1, <1>5, <1>8, <1>9, <1>10, <1>11

(* Fetching exchanges the spent buffer for that of the oldest packet.      *)
LEMMA InvFetchPop ==
  ASSUME IInv, TypeOK', FetchPop
  PROVE  IInv'
<1> USE DEF IInv
<1>1. /\ TypeOK /\ TypeOK' /\ ring \in Queue /\ ring.size \in Nat /\ ring.size > 0
      /\ ring' = pop_front(ring) /\ dataOut' = dataOut /\ heap' = heap /\ frame' = frame
      /\ epc' = epc /\ sent' = sent /\ pushed' = pushed /\ ring.front \in Positions
      /\ rpc = "pop" /\ rpc' = "deliver" /\ ~empty(ring)
  BY DEF FetchPop, Fetching, TypeOK, Queue, empty, pushed
<1>2. /\ Consistent(ring') /\ ring'.size = ring.size - 1
      /\ \A k \in 0 .. ring'.size - 1 :
           /\ position(ring', k) = position(ring, k + 1)
           /\ position(ring, k + 1) \in Positions
           /\ position(ring, k + 1) # ring.front
  BY <1>1, PopFrontKeeps DEF QueueHoldsLatest
<1>3. /\ slots'[ring.front] = outPack
      /\ \A i \in Positions \ {ring.front} : slots'[i] = slots[i]
      /\ outPack' = slots[ring.front]
  BY <1>1 DEF FetchPop, TypeOK
<1>4. NoAliasing'
  BY <1>1, <1>3 DEF NoAliasing
<1>5. /\ position(ring, 0) = ring.front
      /\ heap[outPack'].seq = pushed - ring.size + 1
      /\ heap[outPack'].size > 0
  <2>1. position(ring, 0) = ring.front
    BY <1>1, CapAssumption DEF position, Positions
  <2> QED
    BY <1>1, <1>3, <2>1 DEF QueueHoldsLatest, InHand, pushed, TypeOK
<1>6. \A k \in 0 .. ring'.size - 1 :
        slots'[position(ring', k)] = slots[position(ring, k + 1)]
  BY <1>2, <1>3
<1>7. QueueHoldsLatest'
  BY <1>1, <1>2, <1>6 DEF QueueHoldsLatest, pushed, TypeOK
<1>8. InHand'
  BY <1>1, <1>2, <1>5, <1>6 DEF InHand, Locking, FetchPop
<1>9. Ordered'
  BY <1>1, <1>2, <1>5 DEF Ordered, pushed, TypeOK, Packets
<1>10. Locking' /\ Fetching' /\ Waking'
  BY <1>1 DEF FetchPop, Locking, Fetching, Waking, NoMissedFrame
<1> QED
  BY <1>1, <1>4, <1>7, <1>8, <1>9, <1>10

(* Delivering passes the fetched packet on.                                *)
LEMMA InvDeliver ==
  ASSUME IInv, TypeOK', Deliver
  PROVE  IInv'
<1> USE DEF IInv
<1>1. /\ TypeOK /\ TypeOK' /\ UNCHANGED ringVars /\ epc' = epc /\ sent' = sent
      /\ pushed' = pushed /\ rpc = "deliver" /\ rpc' = "idle" /\ ~awaiting'
      /\ onFrameFunc' = onFrameFunc /\ frame'.seq = heap[outPack].seq
  BY DEF Deliver, InHand, pushed, TypeOK, Packets, ringVars
<1>2. NoAliasing' /\ QueueHoldsLatest' /\ InHand' /\ Locking'
  BY <1>1 DEF ringVars, NoAliasing, QueueHoldsLatest, InHand, Locking
<1>3. Ordered'
  BY <1>1 DEF ringVars, Ordered
<1>4. Fetching' /\ Waking'
  BY <1>1 DEF Fetching, Waking, NoMissedFrame
<1> QED
  BY <1>1, <1>2, <1>3, <1>4

(* The other steps leave the ring and the buffers alone.                   *)
LEMMA InvOther ==
  ASSUME IInv, TypeOK',
         SendEnter \/ SendLeave \/ SendNotify \/ Register \/ GetNextFrame
           \/ StopGettingFrames \/ HandleTrigger \/ FetchCheck \/ FetchEnter
           \/ UNCHANGED vars
  PROVE  IInv'
<1> USE DEF IInv
<1>1. /\ UNCHANGED <<ring, slots, dataOut, outPack, heap, sent, frame>> /\ pushed' = pushed
      /\ epc' \in {"enter", "drop", "push"} <=> epc \in {"enter", "drop", "push"}
      /\ epc' = "push" <=> epc = "push"
      /\ rpc' = "deliver" <=> rpc = "deliver"
  BY DEF SendEnter, SendLeave, SendNotify, Register, GetNextFrame, StopGettingFrames,
         HandleTrigger, FetchCheck, FetchEnter, vars, ringVars, pushed
<1>2. NoAliasing' /\ QueueHoldsLatest'
  BY <1>1 DEF NoAliasing, QueueHoldsLatest
<1>3. InHand' /\ Ordered'
  BY <1>1 DEF InHand, Ordered
<1>4. Locking'
  BY DEF SendEnter, SendLeave, SendNotify, Register, GetNextFrame, StopGettingFrames,
         HandleTrigger, FetchCheck, FetchEnter, vars, ringVars, Locking, TypeOK
<1>5. Fetching'
  BY DEF SendEnter, SendLeave, SendNotify, Register, GetNextFrame, StopGettingFrames,
         HandleTrigger, FetchCheck, FetchEnter, vars, ringVars, Locking, Fetching, empty
<1>6. Waking'
  <2>1. CASE SendEnter \/ SendLeave
    BY <2>1 DEF SendEnter, SendLeave, Waking, NoMissedFrame, empty
  <2>2. CASE SendNotify
    <3>1. rpc = "idle" /\ awaiting => trigger'
      BY <2>2 DEF SendNotify, Waking, TypeOK
    <3> QED
      BY <2>2, <3>1 DEF SendNotify, ringVars, Waking, NoMissedFrame
  <2>3. CASE Register \/ GetNextFrame \/ StopGettingFrames
    BY <2>3 DEF Register, GetNextFrame, StopGettingFrames, ringVars, Waking, NoMissedFrame, empty
  <2>4. CASE HandleTrigger \/ FetchCheck \/ FetchEnter
    BY <2>4 DEF HandleTrigger, FetchCheck, FetchEnter, ringVars, Waking, NoMissedFrame, empty
  <2>5. CASE UNCHANGED vars
    BY <2>5 DEF vars, Waking, NoMissedFrame, empty
  <2> QED
    BY <2>1, <2>2, <2>3, <2>4, <2>5
<1> QED
  BY <1>2, <1>3, <1>4, <1>5, <1>6

LEMMA InvStep == IInv /\ [Next]_vars => IInv'
<1> SUFFICES ASSUME IInv, [Next]_vars PROVE IInv'
  OBVIOUS
<1>1. TypeOK'
  BY TypeStep DEF IInv
<1> QED
  BY <1>1, InvSendCopy, InvSendDrop, InvSendPush, InvFetchPop, InvDeliver, InvOther
  DEF Next, Encoder, InSendPacket, Rtsp, InDeliverFrame

LEMMA Invariance == Spec => []IInv
  BY InvInit, InvStep, PTL DEF Spec

(***************************************************************************)
(* The results.                                                            *)
(***************************************************************************)

(* No buffer ever has two owners. *)
THEOREM NeverAliased == Spec => []NoAliasing
  BY Invariance, PTL DEF IInv

(* The queue always holds the newest packets, in order. *)
THEOREM AlwaysLatest == Spec => []QueueHoldsLatest
  BY Invariance, PTL DEF IInv

(* The unlocked test of fetch_packet is enough. *)
THEOREM AlwaysFinds == Spec => []FetchFindsPacket
<1>1. IInv => FetchFindsPacket
  BY DEF IInv, Fetching, FetchFindsPacket
<1> QED
  BY <1>1, Invariance, PTL

(* No wake-up of a waiting client is lost. *)
THEOREM NeverMissed == Spec => []NoMissedFrame
<1>1. IInv => NoMissedFrame
  BY DEF IInv, Waking
<1> QED
  BY <1>1, Invariance, PTL

(* Frames are delivered in the order they were encoded. *)
THEOREM InOrder == Spec => DeliveredInOrder
<1>1. IInv /\ [Next]_vars => [frame' # frame => frame'.seq > frame.seq]_vars
  <2> SUFFICES ASSUME IInv, Next, frame' # frame PROVE frame'.seq > frame.seq
    BY DEF vars
  <2>1. Deliver
    BY DEF Next, Encoder, InSendPacket, Rtsp, InDeliverFrame, SendCopy, SendEnter, SendDrop,
           SendPush, SendLeave, SendNotify, Register, GetNextFrame, StopGettingFrames,
           HandleTrigger, FetchCheck, FetchEnter, FetchPop
  <2>2. heap[outPack].seq > frame.seq /\ heap[outPack] \in Packets
    BY <2>1 DEF Deliver, IInv, Ordered, TypeOK, Packets
  <2> QED
    BY <2>1, <2>2 DEF Deliver, Packets
<1> QED
  BY <1>1, Invariance, PTL DEF Spec, DeliveredInOrder

(* The buffer being read is left alone. *)
THEOREM StableWhileRead == Spec => FrameStableWhileRead
<1> DEFINE Stable == rpc = "deliver" => UNCHANGED outPack /\ heap'[outPack] = heap[outPack]
<1>1. IInv /\ [Next]_vars => [Stable]_vars
  <2> SUFFICES ASSUME IInv, Next, rpc = "deliver"
               PROVE  UNCHANGED outPack /\ heap'[outPack] = heap[outPack]
    OBVIOUS
  <2>1. ASSUME NEW len \in PktLens, SendCopy(len)
        PROVE  UNCHANGED outPack /\ heap'[outPack] = heap[outPack]
    BY <2>1 DEF SendCopy, IInv, NoAliasing, TypeOK
  <2> QED
    BY <2>1 DEF Next, Encoder, InSendPacket, Rtsp, InDeliverFrame, SendEnter, SendDrop, SendPush,
           SendLeave, SendNotify, Register, GetNextFrame, StopGettingFrames,
           HandleTrigger, FetchCheck, FetchEnter, FetchPop, Deliver, ringVars
<1> QED
  BY <1>1, Invariance, PTL DEF Spec, FrameStableWhileRead

(***************************************************************************)
(* The refinement.                                                         *)
(***************************************************************************)

(* By the invariant, the queue is a run of consecutive numbers.            *)
Numbered ==
  /\ ring.size \in Nat /\ pushed \in Int
  /\ queued = [k \in 1 .. ring.size |-> pushed - ring.size + k]
  /\ queued \in Seq(Int)
  /\ Len(queued) = ring.size

LEMMA QueuedNumbers == IInv => Numbered
<1> SUFFICES ASSUME IInv PROVE Numbered
  OBVIOUS
<1>1. ring.size \in Nat /\ pushed \in Int
  BY CapAssumption DEF IInv, TypeOK, Queue, pushed
<1>2. ASSUME NEW k \in 1 .. ring.size
      PROVE  heap[slots[position(ring, k - 1)]].seq = pushed - ring.size + k
  <2>1. k - 1 \in 0 .. ring.size - 1
    BY <1>1
  <2>2. heap[slots[position(ring, k - 1)]].seq = pushed - ring.size + 1 + (k - 1)
    BY <2>1 DEF IInv, QueueHoldsLatest
  <2> QED
    BY <1>1, <2>2
<1>3. queued = [k \in 1 .. ring.size |-> pushed - ring.size + k]
  BY <1>2 DEF queued
<1> QED
  BY <1>1, <1>3 DEF Numbered

(* Without its first element a run of numbers is a run again.              *)
LEMMA TailOfRun ==
  ASSUME NEW s \in Seq(Int), NEW n \in Nat, NEW from \in Int, n > 0, Len(s) = n,
         s = [k \in 1 .. n |-> from - n + k]
  PROVE  Tail(s) = [k \in 1 .. n - 1 |-> from - (n - 1) + k]
<1> DEFINE run == [k \in 1 .. n - 1 |-> from - (n - 1) + k]
<1>1. s # << >>
  OBVIOUS
<1>2. /\ Tail(s) \in Seq(Int)
      /\ Len(Tail(s)) = n - 1
      /\ \A k \in 1 .. n - 1 : Tail(s)[k] = s[k + 1]
  BY <1>1, HeadTailProperties
<1>3. run \in Seq(Int) /\ Len(run) = n - 1
  OBVIOUS
<1>4. \A k \in 1 .. n - 1 : s[k + 1] = run[k]
  OBVIOUS
<1>5. \A k \in 1 .. n - 1 : Tail(s)[k] = run[k]
  BY <1>2, <1>4
<1> HIDE DEF run
<1>6. Tail(s) = run
  BY <1>2, <1>3, <1>5, SeqEqual
<1> QED
  BY <1>6 DEF run

(* The initial states are the initial state of the FIFO.                   *)
LEMMA FifoInit == Init => Fifo!Init
  BY DEF Init, Fifo!Init, queued, fetched, pushed, NewQueue, NoPacket

(* Pushing is sending, dropping drops the oldest, popping receives it; no  *)
(* other step is seen.                                                     *)
LEMMA FifoStep == IInv /\ IInv' /\ [Next]_vars => [Fifo!Next]_<<queued, pushed, fetched>>
<1> SUFFICES ASSUME IInv, IInv', [Next]_vars PROVE [Fifo!Next]_<<queued, pushed, fetched>>
  OBVIOUS
<1>0. /\ ring.size \in Nat /\ ring'.size \in Nat /\ pushed \in Int /\ pushed' \in Int
      /\ queued = [k \in 1 .. ring.size |-> pushed - ring.size + k]
      /\ queued' = [k \in 1 .. ring'.size |-> pushed' - ring'.size + k]
      /\ queued \in Seq(Int) /\ queued' \in Seq(Int)
      /\ Len(queued) = ring.size /\ Len(queued') = ring'.size
  <2>1. IInv' => Numbered'
    BY QueuedNumbers, PTL
  <2> QED
    BY <2>1, QueuedNumbers DEF Numbered
<1>1. CASE SendPush
  <2>1. /\ ring \in Queue /\ ~full(ring) /\ Consistent(ring) /\ ring' = push_back(ring)
        /\ epc = "push" /\ pushed' = pushed + 1 /\ fetched' = fetched
    BY <1>1 DEF SendPush, IInv, InHand, TypeOK, QueueHoldsLatest, pushed, fetched
  <2>2. ring'.size = ring.size + 1 /\ ring.size < Cap
    BY <2>1, PushBackKeeps, CapAssumption DEF full, Queue
  <2>3. queued' = Append(queued, pushed')
    BY <1>0, <2>1, <2>2
  <2> QED
    BY <1>0, <2>1, <2>2, <2>3 DEF Fifo!Next, Fifo!Send
<1>2. CASE SendDrop
  <2>1. CASE full(ring)
    <3>1. /\ ring \in Queue /\ ~empty(ring) /\ Consistent(ring) /\ ring' = pop_front(ring)
          /\ pushed' = pushed /\ fetched' = fetched
      BY <1>2, <2>1, CapAssumption
      DEF SendDrop, IInv, TypeOK, QueueHoldsLatest, pushed, fetched, full, empty
    <3>2. ring'.size = ring.size - 1 /\ ring.size = Cap
      BY <2>1, <3>1, PopFrontKeeps DEF full
    <3>3. queued' = Tail(queued)
      BY <1>0, <3>1, <3>2, CapAssumption, TailOfRun
    <3> QED
      BY <1>0, <3>1, <3>2, <3>3 DEF Fifo!Next, Fifo!DropOldest
  <2>2. CASE ~full(ring)
    BY <1>2, <2>2 DEF SendDrop, queued, pushed, fetched
  <2> QED
    BY <2>1, <2>2
<1>3. CASE FetchPop
  <2>1. /\ ring \in Queue /\ ~empty(ring) /\ Consistent(ring) /\ ring' = pop_front(ring)
        /\ pushed' = pushed /\ rpc' = "deliver" /\ ring.front \in Positions
    BY <1>3 DEF FetchPop, IInv, TypeOK, QueueHoldsLatest, Fetching, pushed, Queue
  <2>2. ring'.size = ring.size - 1 /\ ring.size > 0
    BY <1>0, <2>1, PopFrontKeeps DEF empty
  <2>3. fetched' = queued[1]
    <3>1. position(ring, 0) = ring.front
      BY <2>1, CapAssumption DEF position, Positions
    <3> QED
      BY <1>0, <1>3, <2>1, <2>2, <3>1 DEF FetchPop, fetched, queued
  <2>4. queued' = Tail(queued)
    <3>1. Tail(queued) = [k \in 1 .. ring.size - 1 |-> pushed - (ring.size - 1) + k]
      BY <1>0, <2>2, TailOfRun
    <3> QED
      BY <1>0, <2>1, <2>2, <3>1
  <2>5. queued # << >> /\ fetched' = Head(queued)
    BY <1>0, <2>2, <2>3
  <2> QED
    BY <2>1, <2>4, <2>5 DEF Fifo!Next, Fifo!Receive
<1>4. ASSUME NEW len \in PktLens, SendCopy(len)
      PROVE  UNCHANGED <<queued, pushed, fetched>>
  <2>1. ring' = ring /\ pushed' = pushed
    BY <1>4 DEF SendCopy, pushed, IInv, TypeOK
  <2>2. heap'[outPack] = heap[outPack]
    BY <1>4 DEF SendCopy, IInv, NoAliasing, TypeOK
  <2> QED
    BY <1>0, <1>4, <2>1, <2>2 DEF SendCopy, fetched
<1>5. CASE Deliver
  <2>1. fetched' = fetched
    BY <1>5 DEF Deliver, fetched, IInv, InHand, TypeOK, Packets
  <2> QED
    BY <1>5, <2>1 DEF Deliver, ringVars, queued, pushed
<1>6. CASE SendEnter \/ SendLeave \/ SendNotify \/ Register \/ GetNextFrame
             \/ StopGettingFrames \/ HandleTrigger \/ FetchCheck \/ FetchEnter
             \/ UNCHANGED vars
  BY <1>6 DEF SendEnter, SendLeave, SendNotify, Register, GetNextFrame, StopGettingFrames,
         HandleTrigger, FetchCheck, FetchEnter, vars, ringVars, queued, pushed, fetched
<1> QED
  BY <1>1, <1>2, <1>3, <1>4, <1>5, <1>6
  DEF Next, Encoder, InSendPacket, Rtsp, InDeliverFrame

(* The two threads, their lock and their buffers implement the bounded     *)
(* FIFO that drops only its oldest packet, and only when it is full.       *)
THEOREM Refinement == Spec => ImplementsFifo
<1>1. IInv /\ IInv' /\ [Next]_vars => [Fifo!Next]_<<queued, pushed, fetched>>
  BY FifoStep
<1> QED
  BY <1>1, FifoInit, Invariance, PTL DEF Spec, ImplementsFifo, Fifo!Spec, Fifo!fifoVars
=============================================================================
