---------------------------- MODULE CircularQueue ----------------------------
(***************************************************************************)
(* The index arithmetic of TCircularQueue<sz> (CameraH264Encoder.h:28-91). *)
(* The class holds no elements: push_back and pop_front return the array   *)
(* position the caller is to use.  A queue is the record of its three      *)
(* mutable members fDataFront, fDataRear and fDataSize.                    *)
(***************************************************************************)
EXTENDS Integers

CONSTANT Cap                      \* fBuffSize, the template parameter sz

ASSUME CapAssumption == Cap \in Nat \ {0}

Positions == 0 .. Cap - 1

Queue == [front: Positions, rear: Positions, size: 0 .. Cap]

NewQueue == [front |-> 0, rear |-> Cap - 1, size |-> 0]

full(q)  == q.size = Cap
empty(q) == q.size = 0

(* ++pos, wrapped to 0 at the end of the array *)
next_pos(pos) == IF pos + 1 = Cap THEN 0 ELSE pos + 1

pop_front(q) ==
  IF q.size > 0
    THEN [q EXCEPT !.front = next_pos(@), !.size = @ - 1]
    ELSE q

(* On a full queue the code calls pop_front and does not count the new     *)
(* element: the size becomes Cap - 1.                                      *)
push_back(q) ==
  LET moved == [q EXCEPT !.rear = next_pos(@)]
  IN  IF full(q) THEN pop_front(moved) ELSE [moved EXCEPT !.size = @ + 1]

(* The array position of the k-th element from the front, k from 0.        *)
position(q, k) ==
  IF q.front + k >= Cap THEN q.front + k - Cap ELSE q.front + k

(* What every caller relies on: rear is the position of the last element.  *)
Consistent(q) ==
  q.front + q.size - 1 = q.rear
    \/ q.front + q.size - 1 = q.rear + Cap
    \/ q.front + q.size - 1 = q.rear - Cap
=============================================================================
