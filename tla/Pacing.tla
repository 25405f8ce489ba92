-------------------------------- MODULE Pacing --------------------------------
(***************************************************************************)
(* How CameraH264Encoder::run spaces its pictures.  The time since the     *)
(* last measurement is compared with the interval, and if it is shorter    *)
(* the thread sleeps, for as long as the time that has passed.             *)
(*                                                                         *)
(* Times are in milliseconds, which is what std::clock counts on Windows;  *)
(* it gives up, with -1, when its range is exhausted.                      *)
(***************************************************************************)
EXTENDS Integers

CONSTANTS
  fFrameIntvl,      \* the interval of the frame rate
  ClockRange,       \* clock_t ends here
  MaxWork,          \* bound: time that a turn of the loop takes besides
  MaxTime           \* bound: when the model ends

ASSUME PacingAssumption ==
  /\ fFrameIntvl \in Nat /\ fFrameIntvl >= 2
  /\ ClockRange \in Nat \ {0} /\ MaxWork \in Nat /\ MaxTime \in Nat

VARIABLES
  now,              \* the time
  clk_pre,
  work,             \* what the last turn took besides sleeping (history)
  gap, gap_pre      \* time between the last two pictures, and before (history)

pacingVars == <<now, clk_pre, work, gap, gap_pre>>

clock(t) == IF t < ClockRange THEN t ELSE -1

InitPacing ==
  /\ now = 0
  /\ clk_pre = clock(0) - fFrameIntvl
  /\ work = 0
  /\ gap = 1 /\ gap_pre = 1

(* Faulty: without the millisecond that intvl adds. *)
nap_NoIntvl(clk_cur) ==
  LET msec == clk_cur - clk_pre
  IN  IF msec > 0 /\ msec < fFrameIntvl THEN msec ELSE 0

(* Faulty: the whole interval is added to the time that has passed. *)
nap_Whole(clk_cur) ==
  LET msec == clk_cur - clk_pre + 1
  IN  IF msec > 0 /\ msec < fFrameIntvl THEN msec + fFrameIntvl ELSE 0

(* clk_cur - clk_pre + intvl, intvl being one millisecond *)
nap(clk_cur) ==
  LET msec == clk_cur - clk_pre + 1
  IN  IF msec > 0 /\ msec < fFrameIntvl THEN msec ELSE 0

(* The turn took d; then it sleeps and sends its picture. *)
Pace(d) ==
  LET clk_cur == clock(now + d)
  IN  /\ now < MaxTime
      /\ now' = now + d + nap(clk_cur)
      /\ clk_pre' = clk_cur
      /\ work' = d
      /\ gap' = d + nap(clk_cur)
      /\ gap_pre' = gap

(***************************************************************************)
(* Properties.                                                             *)
(***************************************************************************)

(* The type invariant. *)
TypeOKPacing ==
  /\ now \in Nat /\ work \in Nat /\ gap \in Nat /\ gap_pre \in Nat
  /\ clk_pre \in -fFrameIntvl .. ClockRange

(* "send the picture at time interval" (CameraH264Encoder.cpp:372): at     *)
(* least a picture is never held back for a whole interval beyond what its *)
(* turn took, not even when the clock's range is exhausted.                *)
NeverHeldBack == gap <= work + fFrameIntvl - 1

(* Nor are two pictures in a row sent without any time between: a thread   *)
(* without work does not spin.                                             *)
NeverSpins == gap + gap_pre > 0
=============================================================================
