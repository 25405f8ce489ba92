------------------------------- MODULE LossyFifo -------------------------------
(***************************************************************************)
(* What the encoder's output queue promises the RTSP side, without arrays, *)
(* indices, locks or threads: packets numbered in the order they were sent *)
(* pass through a bounded queue.  Only the oldest queued packet is ever    *)
(* thrown away, and only while the queue is full; what is received is the  *)
(* oldest packet still queued.                                             *)
(***************************************************************************)
EXTENDS Naturals, Sequences

CONSTANT Cap                       \* how many packets can wait

VARIABLES
  queue,                           \* numbers of the waiting packets
  last,                            \* number of the last packet sent
  received                         \* number of the last packet received

fifoVars == <<queue, last, received>>

Init == queue = << >> /\ last = 0 /\ received = 0

Send ==
  /\ Len(queue) < Cap
  /\ last' = last + 1
  /\ queue' = Append(queue, last')
  /\ UNCHANGED received

DropOldest ==
  /\ Len(queue) = Cap
  /\ queue' = Tail(queue)
  /\ UNCHANGED <<last, received>>

Receive ==
  /\ queue # << >>
  /\ received' = Head(queue)
  /\ queue' = Tail(queue)
  /\ UNCHANGED last

Next == Send \/ DropOldest \/ Receive

Spec == Init /\ [][Next]_fifoVars
=============================================================================
