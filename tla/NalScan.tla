-------------------------------- MODULE NalScan --------------------------------
(***************************************************************************)
(* How CameraH264Encoder::setup_encoder takes the parameter sets out of a  *)
(* packet of the codec: find_next_nal, one turn of its loop per action,    *)
(* is called for the beginning and for the end of each NAL unit, and the   *)
(* units of type 7 and 8 are copied to fSPSNAL and fPPSNAL.                *)
(*                                                                         *)
(* A pointer is an index of the packet; pkt_end is the index after its     *)
(* last byte.  FFmpeg pads what it hands out with zeros, which is what a   *)
(* read behind the packet finds.                                           *)
(***************************************************************************)
EXTENDS Integers, Sequences

CONSTANT Packets                   \* the packets the codec may hand out

Byte == 0 .. 255
SPS  == 7
PPS  == 8

ASSUME PacketsAssumption == Packets \subseteq Seq(Byte)

VARIABLES
  pkt,              \* the packet
  nal,              \* what is searched for: the "begin" or "end" of a unit
  start,            \* where this search began
  p,                \* where find_next_nal is
  pbgn,             \* the first byte of the unit
  sets              \* fSPSNAL and fPPSNAL, by their type

nalVars == <<pkt, nal, start, p, pbgn, sets>>

at(i)   == IF i <= Len(pkt) THEN pkt[i] ELSE 0
pkt_end == Len(pkt) + 1

InitNal ==
  /\ pkt = <<>>
  /\ nal = "none"
  /\ start = 1 /\ p = 1 /\ pbgn = 1
  /\ sets = [t \in {SPS, PPS} |-> <<>>]

(***************************************************************************)
(* find_next_nal                                                           *)
(***************************************************************************)

(* A start code of three or four bytes, the fourth perhaps behind the end. *)
Starts(i) ==
  /\ at(i) = 0 /\ at(i + 1) = 0
  /\ at(i + 2) = 1 \/ (at(i + 2) = 0 /\ at(i + 3) = 1)

(* Faulty: three bytes are skipped after a single zero. *)
skip_Three(i) == IF at(i) # 0 THEN 1 ELSE 3

(* Faulty: nothing is skipped there. *)
skip_Stuck(i) == IF at(i) # 0 THEN 1 ELSE IF at(i + 1) # 0 THEN 2 ELSE 0

(* How far a place without a start code lets the search advance. *)
skip(i) == IF at(i) # 0 THEN 1 ELSE IF at(i + 1) # 0 THEN 2 ELSE 3

(* Faulty: up to the last byte. *)
AtEnd_LastByte == p >= pkt_end

AtEnd == p > pkt_end - 3

Advance ==
  /\ nal # "none"
  /\ ~AtEnd /\ ~Starts(p)
  /\ p' = p + skip(p)
  /\ UNCHANGED <<pkt, nal, start, pbgn, sets>>

(* It returns: the place of a start code, or the end. *)
Returns == nal # "none" /\ (AtEnd \/ Starts(p))
found   == IF AtEnd THEN pkt_end ELSE p

(***************************************************************************)
(* The loop over the units of a packet.                                    *)
(***************************************************************************)

search(what, i) == nal' = what /\ start' = i /\ p' = i

ParsePacket(k) ==
  /\ nal = "none"
  /\ pkt' = k /\ pbgn' = 1
  /\ search("begin", 1)
  /\ UNCHANGED sets

(* Skip the zeros and the one. *)
NalBegins ==
  /\ Returns /\ nal = "begin"
  /\ found < pkt_end
  /\ pbgn' = found + (IF at(found + 2) = 1 THEN 3 ELSE 4)
  /\ search("end", pbgn')
  /\ UNCHANGED <<pkt, sets>>

(* DataPacket::copy, which does not shrink what is there. *)
copy(old, new) == new \o SubSeq(old, Len(new) + 1, Len(old))

(* Faulty: the unit is taken with the first zero of the next start code. *)
NalEnds_OneMore ==
  /\ Returns /\ nal = "end"
  /\ sets' = [t \in DOMAIN sets |->
                IF at(pbgn) % 32 = t /\ found < pkt_end
                  THEN copy(sets[t], SubSeq(pkt, pbgn, found)) ELSE sets[t]]
  /\ IF found < pkt_end THEN search("begin", found) ELSE nal' = "none" /\ UNCHANGED <<start, p>>
  /\ UNCHANGED <<pkt, pbgn>>

(* The unit is copied if it is a parameter set; the next one is looked for *)
(* from its end on, if the packet goes on.                                 *)
NalEnds ==
  /\ Returns /\ nal = "end"
  /\ sets' = [t \in DOMAIN sets |->
                IF at(pbgn) % 32 = t THEN copy(sets[t], SubSeq(pkt, pbgn, found - 1)) ELSE sets[t]]
  /\ IF found < pkt_end THEN search("begin", found) ELSE nal' = "none" /\ UNCHANGED <<start, p>>
  /\ UNCHANGED <<pkt, pbgn>>

NoMoreNals ==
  /\ Returns /\ nal = "begin"
  /\ found = pkt_end
  /\ nal' = "none"
  /\ UNCHANGED <<pkt, start, p, pbgn, sets>>

Parse == Advance \/ NalBegins \/ NalEnds \/ NoMoreNals

(***************************************************************************)
(* What a packet is made of, without regard to how it is searched.         *)
(***************************************************************************)

Code(i) == i + 2 <= Len(pkt) /\ at(i) = 0 /\ at(i + 1) = 0 /\ at(i + 2) = 1
Codes   == {i \in 1 .. Len(pkt) : Code(i)}

(* The unit behind the start code i: up to the next one, which may have a  *)
(* leading zero of its own.                                                *)
NalOf(i) ==
  LET ends == {pkt_end} \cup {j - (IF at(j - 1) = 0 /\ j - 1 >= i + 3 THEN 1 ELSE 0) :
                                j \in {c \in Codes : c >= i + 3}}
  IN  SubSeq(pkt, i + 3, (CHOOSE e \in ends : \A f \in ends : e <= f) - 1)

NalsOfType(t) == {NalOf(i) : i \in {c \in Codes : at(c + 3) % 32 = t}}

FourZeros == \E i \in 1 .. Len(pkt) - 3 : \A j \in i .. i + 3 : pkt[j] = 0

(***************************************************************************)
(* Properties.                                                             *)
(***************************************************************************)

(* The type invariant: among others, no pointer ever runs over the end of  *)
(* the packet, although three bytes are skipped at a time and the fourth   *)
(* byte of a start code is looked for behind it.                           *)
TypeOKNal ==
  /\ pkt \in Seq(Byte)
  /\ nal \in {"none", "begin", "end"}
  /\ start \in 1 .. pkt_end
  /\ p \in start .. pkt_end
  /\ pbgn \in 1 .. pkt_end
  /\ sets \in [{SPS, PPS} -> Seq(Byte)]

(* "Simply lookup "0x000001" pattern" (CameraH264Encoder.cpp:502): the     *)
(* search runs past a start code only if two more zeros precede it.  The   *)
(* steps of two and three bytes lose no other, in particular none of the   *)
(* codes of three and four bytes that libx264 writes.                      *)
MissedOnlyBehindZeros ==
  nal # "none" =>
    \A i \in start .. (IF Returns THEN found ELSE p) - 1 :
      Code(i) => i - 2 >= start /\ at(i - 1) = 0 /\ at(i - 2) = 0
=============================================================================
