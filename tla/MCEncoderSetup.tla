---------------------------- MODULE MCEncoderSetup ----------------------------
(* Packets for TLC: any few bytes, and two units behind start codes of all *)
(* kinds.  103 and 104 are the first bytes of libx264's SPS and PPS.       *)
EXTENDS EncoderSetup, SequencesExt

Zeros(n)  == [i \in 1 .. n |-> 0]
Units     == {<<103>>, <<103, 9>>, <<103, 0>>, <<104>>, <<104, 0, 9>>, <<9>>}
Coded     == {Zeros(n) \o <<1>> \o u : n \in 2 .. 5, u \in Units}
TwoUnits  == {a \o b : a \in Coded, b \in Coded}
AnyPacket == BoundedSeq({0, 1, 103, 104}, 5) \cup TwoUnits
=============================================================================
