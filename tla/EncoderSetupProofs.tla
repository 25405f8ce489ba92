-------------------------- MODULE EncoderSetupProofs --------------------------
(***************************************************************************)
(* Proofs about setup_encoder and the search for start codes, for every    *)
(* set of packets a codec may hand out, of any length and content.         *)
(***************************************************************************)
EXTENDS EncoderSetup, TLAPS

(* The loop invariant of find_next_nal: what lies behind it it has not     *)
(* missed, up to codes behind a run of zeros.                              *)
Searched ==
  \A i \in start .. p - 1 : Code(i) => i - 2 >= start /\ at(i - 1) = 0 /\ at(i - 2) = 0

(* What is held at each place of setup_encoder. *)
Holding ==
  /\ spc = "fEncoder"  => held = {"fOutQueLock"}
  /\ spc = "fEncCtx"   => held = {"fOutQueLock", "fEncoder"}
  /\ spc = "codec"     => held = {"fOutQueLock", "fEncoder", "fEncCtx"}
  /\ spc = "fSrcFrame" => held = {"fOutQueLock", "fEncoder", "fEncCtx", "codec"}
  /\ spc = "buffer"    => held = {"fOutQueLock", "fEncoder", "fEncCtx", "codec", "fSrcFrame"}
  /\ spc = "pkt"       => held = {"fOutQueLock", "fEncoder", "fEncCtx", "codec", "fSrcFrame",
                                  "buffer"}
  /\ spc \in {"send", "receive", "parse"} => held = Resources \ {"fSubPictMutex"}
  /\ spc = "ready" => held = Resources /\ ~SetsMissing
  /\ spc = "deleted" => held \subseteq {"pkt"}
  /\ fState = 1 => spc \in {"ready", "deleted"}

IInv == TypeOK /\ Searched /\ Holding

(***************************************************************************)
(* The search.                                                             *)
(***************************************************************************)

(* A byte of a packet, or the padding behind it, is a byte.                *)
LEMMA AtType == ASSUME pkt \in Seq(Byte), NEW i \in Int, i >= 1 PROVE at(i) \in Byte
<1>1. CASE i <= Len(pkt)
  <2>1. pkt[i] \in Byte
    BY <1>1
  <2>2. QED  BY <1>1, <2>1 DEF at
<1>2. CASE ~(i <= Len(pkt))
  BY <1>2 DEF at, Byte
<1>3. QED  BY <1>1, <1>2

(* A turn of the loop of find_next_nal keeps to the packet, and what it    *)
(* skips holds no start code but one behind a run of zeros.                *)
LEMMA AdvanceSearches ==
  ASSUME TypeOKNal, Searched, Advance PROVE TypeOKNal' /\ Searched'
<1> USE DEF TypeOKNal, Advance, AtEnd, pkt_end
<1>1. p \in Int /\ start \in Int /\ 1 <= start /\ start <= p /\ p <= Len(pkt) - 2
      /\ Len(pkt) \in Nat
  OBVIOUS
<1>2. p' \in {p + 1, p + 2, p + 3}
  BY <1>1 DEF skip
<1>3. TypeOKNal'
  BY <1>1, <1>2
<1>4. at(p) \in Byte /\ at(p + 1) \in Byte /\ at(p + 2) \in Byte
  BY <1>1, AtType
<1>5. ASSUME NEW i \in start .. p' - 1, Code(i), i >= p
      PROVE i = p + 2 /\ at(p) = 0 /\ at(p + 1) = 0
  <2>1. i # p
    BY <1>1, <1>5 DEF Code, Starts, skip
  <2>2. i \in {p, p + 1, p + 2}
    BY <1>1, <1>2, <1>5
  <2>3. i # p + 1
    <3>1. SUFFICES ASSUME i = p + 1 PROVE FALSE
      OBVIOUS
    <3>2. p' # p + 1 /\ at(p + 1) = 0
      BY <1>1, <1>5, <3>1 DEF Code
    <3>3. at(p) = 0
      BY <1>1, <3>2 DEF skip
    <3>4. at(p + 2) = 0 /\ at(p + 3) = 1
      BY <1>1, <1>5, <3>1 DEF Code
    <3>5. QED  BY <3>2, <3>3, <3>4 DEF Starts
  <2>4. i = p + 2 /\ p' = p + 3
    BY <1>1, <1>2, <1>5, <2>1, <2>2, <2>3
  <2>5. QED  BY <1>1, <2>4 DEF skip
<1>6. Searched'
  <2>1. SUFFICES ASSUME NEW i \in start .. p' - 1, Code(i)
                 PROVE i - 2 >= start /\ at(i - 1) = 0 /\ at(i - 2) = 0
    BY <1>1 DEF Searched, Code, at
  <2>2. CASE i < p
    BY <1>1, <2>1, <2>2 DEF Searched
  <2>3. CASE i >= p
    <3>1. i = p + 2 /\ at(p) = 0 /\ at(p + 1) = 0
      BY <1>5, <2>1, <2>3
    <3>2. i - 1 = p + 1 /\ i - 2 = p
      BY <1>1, <3>1
    <3>3. QED  BY <1>1, <3>1, <3>2
  <2>4. QED  BY <1>1, <2>2, <2>3
<1>7. QED  BY <1>3, <1>6

(* A search begins with nothing behind it.                                 *)
LEMMA SearchBegins ==
  ASSUME NEW what, NEW i \in Int, search(what, i) PROVE Searched'
BY DEF search, Searched

(* The whole loop over the units of a packet keeps the invariant.          *)
LEMMA ParseSearches ==
  ASSUME TypeOKNal, Searched, Parse PROVE TypeOKNal' /\ Searched'
<1> USE DEF TypeOKNal
<1>0. p \in Int /\ start \in Int /\ 1 <= start /\ start <= p /\ p <= Len(pkt) + 1
      /\ Len(pkt) \in Nat /\ pbgn \in Int /\ 1 <= pbgn
  BY DEF pkt_end
<1>1. CASE Advance
  BY <1>1, AdvanceSearches
<1>2. CASE NalBegins
  <2>1. found = p /\ p <= Len(pkt) - 2 /\ Starts(p)
    BY <1>0, <1>2 DEF NalBegins, Returns, found, AtEnd, pkt_end
  <2>2. at(p + 2) # 1 => at(p + 3) = 1
    BY <2>1 DEF Starts
  <2>3. pbgn' \in 1 .. pkt_end
    BY <1>0, <1>2, <2>1, <2>2 DEF NalBegins, pkt_end, at
  <2>4. TypeOKNal'
    BY <1>2, <2>3, <1>0 DEF NalBegins, search, pkt_end
  <2>5. QED  BY <1>2, <2>3, <2>4, SearchBegins DEF NalBegins, pkt_end
<1>3. CASE NalEnds
  <2>1. found \in 1 .. pkt_end
    BY <1>0 DEF found, pkt_end
  <2>2. SubSeq(pkt, pbgn, found - 1) \in Seq(Byte)
    BY <1>0, <2>1 DEF pkt_end
  <2>3. \A t \in {SPS, PPS} : copy(sets[t], SubSeq(pkt, pbgn, found - 1)) \in Seq(Byte)
    BY <2>2 DEF copy
  <2>4. sets' \in [{SPS, PPS} -> Seq(Byte)]
    BY <1>3, <2>3 DEF NalEnds
  <2>5. CASE found < pkt_end
    BY <1>0, <1>3, <2>1, <2>4, <2>5, SearchBegins DEF NalEnds, search, pkt_end
  <2>6. CASE ~(found < pkt_end)
    BY <1>0, <1>3, <2>4, <2>6 DEF NalEnds, pkt_end, Searched, Code, at
  <2>7. QED  BY <2>5, <2>6
<1>4. CASE NoMoreNals
  BY <1>4 DEF NoMoreNals, pkt_end, Searched, Code, at
<1>5. QED  BY <1>1, <1>2, <1>3, <1>4 DEF Parse

(* Nothing of the search changes.                                          *)
LEMMA NalUnchanged ==
  ASSUME TypeOKNal, Searched, UNCHANGED nalVars PROVE TypeOKNal' /\ Searched'
BY DEF TypeOKNal, Searched, nalVars, pkt_end, Code, at

(***************************************************************************)
(* The set-up.                                                             *)
(***************************************************************************)

LEMMA InitInv == Init => IInv
<1>1. SUFFICES ASSUME Init PROVE IInv
  OBVIOUS
<1>2. <<>> \in Seq(Byte) /\ Len(<<>>) = 0
  OBVIOUS
<1>3. TypeOKNal
  BY <1>1, <1>2 DEF Init, InitNal, TypeOKNal, pkt_end
<1>4. Searched
  BY <1>1 DEF Init, InitNal, Searched
<1>5. QED
  BY <1>1, <1>3, <1>4, MaxPacketsAssumption DEF Init, IInv, TypeOK, Holding, Resources

(* A step of the set-up keeps the invariant.                               *)
LEMMA StepInv == ASSUME IInv, [Next]_vars PROVE IInv'
<1> USE PacketsAssumption, MaxPacketsAssumption DEF IInv, TypeOK
<1>1. CASE AcquireAll
  <2>1. TypeOKNal' /\ Searched'
    BY <1>1, NalUnchanged DEF AcquireAll, Acquire
  <2>2. Holding'
    BY <1>1 DEF AcquireAll, Acquire, Holding, Resources
  <2>3. QED  BY <1>1, <2>1, <2>2 DEF AcquireAll, Acquire, Resources
<1>2. CASE SendPicture
  BY <1>2, NalUnchanged DEF SendPicture, Holding
<1>3. CASE NothingReceived
  BY <1>3, NalUnchanged DEF NothingReceived, Holding
<1>4. CASE ReceivePacket
  <2>1. received' \in 0 .. MaxPackets
    BY <1>4 DEF ReceivePacket
  <2>2. PICK k \in Packets :
          IF Len(k) < 4 THEN UNCHANGED <<nalVars, spc>> ELSE ParsePacket(k) /\ spc' = "parse"
    BY <1>4 DEF ReceivePacket
  <2>3. CASE Len(k) < 4
    BY <1>4, <2>1, <2>2, <2>3, NalUnchanged DEF ReceivePacket, Holding, SetsMissing, nalVars
  <2>4. CASE ~(Len(k) < 4)
    <3>1. TypeOKNal'
      BY <2>2, <2>4 DEF ParsePacket, search, TypeOKNal, pkt_end
    <3>2. Searched'
      BY <2>2, <2>4, SearchBegins DEF ParsePacket
    <3>3. QED  BY <1>4, <2>1, <2>2, <2>4, <3>1, <3>2 DEF ReceivePacket, Holding
  <2>5. QED  BY <2>3, <2>4
<1>5. CASE ParseStep
  BY <1>5, ParseSearches DEF ParseStep, Holding, setupVars
<1>6. CASE SendPacket
  <2>1. TypeOKNal' /\ Searched'
    BY <1>6 DEF SendPacket, TypeOKNal, Searched, pkt_end
  <2>2. QED  BY <1>6, <2>1 DEF SendPacket, Holding
<1>7. CASE MakeSlots
  BY <1>7, NalUnchanged DEF MakeSlots, Holding, Resources, SetsMissing, nalVars
<1>8. CASE finalise
  BY <1>8, NalUnchanged DEF finalise, close_encoder, Holding, Resources
<1>9. CASE UNCHANGED vars
  BY <1>9, NalUnchanged DEF vars, setupVars, Holding, SetsMissing, nalVars
<1>10. QED
  BY <1>1, <1>2, <1>3, <1>4, <1>5, <1>6, <1>7, <1>8, <1>9 DEF Next

(* The inductive invariant holds of every packet and every failure.       *)
THEOREM Invariance == Spec => []IInv
<1>1. Init => IInv
  BY InitInv
<1>2. IInv /\ [Next]_vars => IInv'
  BY StepInv
<1>3. QED  BY <1>1, <1>2, PTL DEF Spec

(***************************************************************************)
(* The properties.                                                         *)
(***************************************************************************)

(* The state is well typed; no pointer leaves the packet.                  *)
THEOREM TypeCorrect == Spec => []TypeOK
<1>1. IInv => TypeOK
  BY DEF IInv
<1>2. QED  BY <1>1, Invariance, PTL

(* In packets of every length and content find_next_nal misses no start    *)
(* code but one that two more zeros precede.                               *)
THEOREM NothingElseMissed == Spec => []MissedOnlyBehindZeros
<1>1. IInv => MissedOnlyBehindZeros
  <2>1. SUFFICES ASSUME IInv, nal # "none",
                        NEW i \in start .. (IF Returns THEN found ELSE p) - 1, Code(i)
                 PROVE i - 2 >= start /\ at(i - 1) = 0 /\ at(i - 2) = 0
    BY DEF MissedOnlyBehindZeros
  <2>2. i \in start .. p - 1
    BY <2>1 DEF IInv, TypeOK, TypeOKNal, found, AtEnd, Code, pkt_end
  <2>3. QED  BY <2>1, <2>2 DEF IInv, Searched
<1>2. QED  BY <1>1, Invariance, PTL

(* Once ready() holds everything run() relies on is there.                 *)
THEOREM ReadyIsUsable == Spec => []ReadyMeansUsable
<1>1. IInv => ReadyMeansUsable
  BY DEF IInv, Holding, SetsMissing, ReadyMeansUsable
<1>2. QED  BY <1>1, Invariance, PTL

(* After any failure the destructor leaves nothing but the packet.         *)
THEOREM NothingElseLeaks == Spec => []OnlyPacketLeaks
<1>1. IInv => OnlyPacketLeaks
  BY DEF IInv, Holding, OnlyPacketLeaks
<1>2. QED  BY <1>1, Invariance, PTL

(***************************************************************************)
(* The parameter sets.                                                     *)
(***************************************************************************)

(* What is told as a parameter set if X are the units that were it. *)
Whole(X, v) ==
  /\ X = {} => v = <<>>
  /\ \A n \in X : n # <<>> /\ X = {n} => v = n

(* The start codes whose units have been taken from the packet. *)
Taken == {c \in Codes : /\ nal = "begin" => c < start
                        /\ nal = "end" => c + 3 < pbgn}

TakenOfType(t) == {NalOf(i) : i \in {c \in Taken : at(c + 3) % 32 = t}}

(* The search has passed over no start code, and a unit begins behind one. *)
Exact ==
  /\ \A i \in start .. p - 1 : ~Starts(i)
  /\ nal = "end" => start = pbgn /\ pbgn > 3 /\ Code(pbgn - 3)

(* In a packet without a run of zeros the search is exact, and the sets    *)
(* are whole up to the unit that it is at.                                 *)
Collected ==
  /\ spc = "parse" /\ ~FourZeros =>
       Exact /\ \A t \in {SPS, PPS} : Whole(holds[t] \cup TakenOfType(t), sets[t])
  /\ spc # "parse" => \A t \in {SPS, PPS} : Whole(holds[t], sets[t])

(* One more unit is copied over what there is. *)
LEMMA CopyWhole ==
  ASSUME NEW X, NEW v \in Seq(Byte), NEW n \in Seq(Byte), Whole(X, v)
  PROVE  Whole(X \cup {n}, copy(v, n))
<1>1. SUFFICES ASSUME n # <<>>, X \subseteq {n} PROVE copy(v, n) = n
  BY DEF Whole
<1>2. v = <<>> \/ v = n
  BY <1>1 DEF Whole
<1>3. SubSeq(v, Len(n) + 1, Len(v)) = <<>>
  BY <1>2
<1>4. n \o <<>> = n
  OBVIOUS
<1>5. QED  BY <1>3, <1>4 DEF copy

(* A parameter set of which nothing can be said. *)
LEMMA UnknownWhole == ASSUME NEW X, NEW v PROVE Whole(X \cup {<<>>}, v)
BY DEF Whole

(* The place of a byte that is not zero lies in the packet. *)
LEMMA NotBehind == ASSUME NEW i \in Int, at(i) # 0 PROVE i <= Len(pkt)
BY DEF at

(* A code is a place to stop at. *)
LEMMA CodeStarts == ASSUME NEW i \in Int, Code(i) PROVE Starts(i)
BY DEF Code, Starts

(* A turn of the loop of find_next_nal passes over no start code. *)
LEMMA AdvanceExact ==
  ASSUME TypeOKNal, ~FourZeros, Exact, Advance PROVE Exact'
<1> USE DEF TypeOKNal
<1>1. p \in Int /\ start \in Int /\ 1 <= start /\ start <= p /\ p <= Len(pkt) - 2
      /\ Len(pkt) \in Nat
  BY DEF Advance, AtEnd, pkt_end
<1>2. p' = p + skip(p) /\ ~Starts(p) /\ pkt' = pkt /\ start' = start /\ pbgn' = pbgn
      /\ nal' = nal
  BY DEF Advance
<1>3. ASSUME NEW i \in start .. p' - 1, Starts(i), i >= p PROVE FALSE
  <2>1. i # p
    BY <1>2, <1>3
  <2>2. at(p) = 0 /\ at(p + 1) = 0 /\ p' = p + 3 /\ i \in {p + 1, p + 2}
    <3>1. i + 0 = i /\ i > p
      BY <1>1, <1>3, <2>1
    <3>2. at(p) = 0
      BY <1>1, <1>2, <1>3, <3>1 DEF skip
    <3>3. at(p + 1) = 0
      <4>1. SUFFICES ASSUME at(p + 1) # 0 PROVE FALSE
        OBVIOUS
      <4>2. i = p + 1
        BY <1>1, <1>2, <1>3, <3>1, <3>2, <4>1 DEF skip
      <4>3. QED  BY <1>3, <4>1, <4>2 DEF Starts
    <3>4. p' = p + 3
      BY <1>2, <3>2, <3>3 DEF skip
    <3>5. QED  BY <1>1, <1>3, <3>1, <3>2, <3>3, <3>4
  <2>3. at(p + 2) = 0 /\ at(p + 3) = 0 /\ p + 3 <= Len(pkt)
    <3>1. CASE i = p + 1
      <4>1. at(p + 2) = 0
        BY <3>1, <1>1, <1>3 DEF Starts
      <4>2. at(p + 3) # 1
        BY <1>2, <2>2, <4>1 DEF Starts
      <4>3. at(p + 3) = 0 /\ at(p + 4) = 1
        BY <3>1, <1>1, <1>3, <4>2 DEF Starts
      <4>4. p + 4 <= Len(pkt)
        BY <1>1, <4>3, NotBehind
      <4>5. QED  BY <1>1, <4>1, <4>3, <4>4
    <3>2. CASE i = p + 2
      <4>1. at(p + 2) = 0 /\ at(p + 3) = 0 /\ (at(p + 4) = 1 \/ at(p + 5) = 1)
        BY <3>2, <1>1, <1>3 DEF Starts
      <4>2. p + 4 <= Len(pkt) \/ p + 5 <= Len(pkt)
        BY <1>1, <4>1, NotBehind
      <4>3. QED  BY <1>1, <4>1, <4>2
    <3>3. QED  BY <2>2, <3>1, <3>2
  <2>4. \A j \in p .. p + 3 : pkt[j] = 0
    BY <1>1, <2>2, <2>3 DEF at
  <2>5. p \in 1 .. Len(pkt) - 3
    BY <1>1, <2>3
  <2>6. QED  BY <2>4, <2>5 DEF FourZeros
<1>4. \A i : Starts(i)' <=> Starts(i)
  BY <1>2 DEF Starts, at
<1>5. \A i : Code(i)' <=> Code(i)
  BY <1>2 DEF Code, at
<1>6. ASSUME NEW i \in start .. p' - 1 PROVE ~Starts(i)
  <2>1. CASE i < p
    BY <1>1, <1>6, <2>1 DEF Exact
  <2>2. QED  BY <1>1, <1>3, <1>6, <2>1
<1>7. QED
  BY <1>2, <1>4, <1>5, <1>6 DEF Exact

(* While the packet stays, so do its codes and its units.                  *)
LEMMA SamePacket ==
  ASSUME pkt' = pkt
  PROVE  /\ \A i : at(i)' = at(i) /\ (Code(i)' <=> Code(i)) /\ (Starts(i)' <=> Starts(i))
         /\ Codes' = Codes
         /\ \A i : NalOf(i)' = NalOf(i)
         /\ FourZeros' <=> FourZeros
<1>1. \A i : at(i)' = at(i)
  BY DEF at
<1>2. \A i : (Code(i)' <=> Code(i)) /\ (Starts(i)' <=> Starts(i))
  BY <1>1 DEF Code, Starts
<1>3. Codes' = Codes
  BY <1>2 DEF Codes
<1>4. \A i : NalOf(i)' = NalOf(i)
  <2> DEFINE end(i, j) == j - (IF at(j - 1) = 0 /\ j - 1 >= i + 3 THEN 1 ELSE 0)
             ends(i)   == {pkt_end} \cup {end(i, j) : j \in {c \in Codes : c >= i + 3}}
  <2>1. \A i, j : end(i, j)' = end(i, j)
    BY <1>1
  <2>2. pkt_end' = pkt_end
    BY DEF pkt_end
  <2> HIDE DEF end
  <2>3. \A i : ends(i)' = ends(i)
    BY <1>3, <2>1, <2>2, Zenon
  <2>4. \A i : NalOf(i) = SubSeq(pkt, i + 3, (CHOOSE e \in ends(i) : \A f \in ends(i) : e <= f) - 1)
    BY DEF NalOf, end
  <2>5. \A i : NalOf(i)' = SubSeq(pkt', i + 3, (CHOOSE e \in ends(i)' : \A f \in ends(i)' : e <= f) - 1)
    BY DEF NalOf, end
  <2> HIDE DEF ends
  <2>6. QED  BY <2>3, <2>4, <2>5
<1>5. QED  BY <1>1, <1>2, <1>3, <1>4 DEF FourZeros

(* The units of the codes taken so far stay if these codes do.             *)
LEMMA SameTaken ==
  ASSUME pkt' = pkt, Taken' = Taken, NEW t PROVE TakenOfType(t)' = TakenOfType(t)
BY SamePacket DEF TakenOfType

(* Where a search that is exact has come to the end no code is left.       *)
LEMMA NoneLeft ==
  ASSUME TypeOKNal, Exact, AtEnd, NEW c \in Codes PROVE c < start
<1>1. c \in Int /\ c + 2 <= Len(pkt) /\ Starts(c)
  BY CodeStarts DEF Codes, Code
<1>2. p \in Int /\ start \in Int /\ p > Len(pkt) - 2 /\ Len(pkt) \in Nat
  BY DEF TypeOKNal, AtEnd, pkt_end
<1>3. QED  BY <1>1, <1>2 DEF Exact

(* The end of the unit that is searched for is the one that it has. *)
LEMMA UnitEnds ==
  ASSUME TypeOKNal, Exact, Returns, nal = "end"
  PROVE  SubSeq(pkt, pbgn, found - 1) = NalOf(pbgn - 3)
<1> DEFINE endsAt(k) == {pkt_end} \cup {j - (IF at(j - 1) = 0 /\ j - 1 >= k THEN 1 ELSE 0) :
                                          j \in {c \in Codes : c >= k}}
           first(S) == CHOOSE e \in S : \A f \in S : e <= f
           lead(j)  == IF at(j - 1) = 0 /\ j - 1 >= pbgn THEN 1 ELSE 0
           ends     == endsAt(pbgn)
<1>1. /\ p \in Int /\ start \in Int /\ 1 <= start /\ start <= p /\ pbgn = start
      /\ Len(pkt) \in Nat
  BY DEF TypeOKNal, Exact, pkt_end
<1>2. AtEnd <=> p > Len(pkt) - 2
  BY <1>1 DEF AtEnd, pkt_end
<1>3. \A i \in start .. p - 1 : ~Starts(i)
  BY DEF Exact
<1>4. found \in ends
  <2>1. CASE AtEnd
    BY <2>1 DEF found
  <2>2. CASE ~AtEnd
    <3>1. found = p /\ Starts(p) /\ p <= Len(pkt) - 2
      BY <1>1, <1>2, <2>2 DEF found, Returns
    <3>2. CASE at(p + 2) = 1
      <4>1. p \in Codes
        BY <1>1, <3>1, <3>2 DEF Codes, Code, Starts
      <4>2. lead(p) = 0
        <5>1. SUFFICES ASSUME at(p - 1) = 0, p - 1 >= pbgn PROVE FALSE
          BY <1>1
        <5>2. Starts(p - 1)
          BY <1>1, <3>1, <3>2, <5>1 DEF Starts
        <5>3. QED  BY <1>1, <1>3, <5>1, <5>2
      <4>3. p >= pbgn /\ p - lead(p) = p
        BY <1>1, <4>2
      <4>4. QED  BY <3>1, <4>1, <4>3
    <3>3. CASE at(p + 2) # 1
      <4>1. at(p) = 0 /\ at(p + 1) = 0 /\ at(p + 2) = 0 /\ at(p + 3) = 1
        BY <3>1, <3>3 DEF Starts
      <4>2. p + 3 <= Len(pkt)
        BY <1>1, <4>1, NotBehind
      <4>3. p + 1 \in Codes
        BY <1>1, <4>1, <4>2 DEF Codes, Code
      <4>4. p + 1 >= pbgn /\ (p + 1) - lead(p + 1) = p
        BY <1>1, <4>1
      <4>5. QED  BY <3>1, <4>3, <4>4
    <3>4. QED  BY <3>2, <3>3
  <2>3. QED  BY <2>1, <2>2
<1>5. ASSUME NEW f \in ends PROVE found <= f /\ f \in Int
  <2>1. found <= pkt_end /\ found \in Int
    BY <1>1, <1>2 DEF found, AtEnd, pkt_end
  <2>2. CASE f = pkt_end
    BY <1>1, <2>1, <2>2 DEF pkt_end
  <2>3. CASE f # pkt_end
    <3>1. PICK j \in Codes : j >= pbgn /\ f = j - lead(j)
      BY <2>3
    <3>2. j \in Int /\ j + 2 <= Len(pkt) /\ Code(j) /\ Starts(j)
      BY CodeStarts DEF Codes, Code
    <3>3. f >= pbgn /\ f <= j /\ f \in Int
      BY <1>1, <3>1, <3>2
    <3>4. Starts(f)
      <4>1. CASE lead(j) = 0
        BY <3>1, <3>2, <4>1
      <4>2. CASE lead(j) # 0
        <5>1. f = j - 1 /\ at(j - 1) = 0
          BY <3>1, <4>2
        <5>2. at(j) = 0 /\ at(j + 1) = 0 /\ at(j + 2) = 1
          BY <3>2 DEF Code
        <5>3. at(f) = 0 /\ at(f + 1) = 0 /\ at(f + 2) = 0 /\ at(f + 3) = 1
          BY <3>2, <5>1, <5>2
        <5>4. QED  BY <5>3 DEF Starts
      <4>3. QED  BY <4>1, <4>2
    <3>5. f >= p
      BY <1>1, <1>3, <3>3, <3>4
    <3>6. ~AtEnd
      BY <1>1, <1>2, <3>2, <3>3, <3>5
    <3>7. QED  BY <3>3, <3>5, <3>6 DEF found
  <2>4. QED  BY <2>2, <2>3
<1>6. first(ends) = found
  <2>1. found \in Int
    BY <1>4, <1>5
  <2>2. \A e \in ends : (\A f \in ends : e <= f) => e = found
    BY <1>4, <1>5, <2>1
  <2>3. QED  BY <1>4, <1>5, <2>2
<1>7. (pbgn - 3) + 3 = pbgn
  BY <1>1
<1>8. \A i : NalOf(i) = SubSeq(pkt, i + 3, first(endsAt(i + 3)) - 1)
  BY DEF NalOf
<1> HIDE DEF first, endsAt
<1>9. QED  BY <1>6, <1>7, <1>8

(* Every turn of the loops that take the units from a packet keeps what    *)
(* was collected whole; only the end of a unit adds one.                   *)
LEMMA ParseCollects ==
  ASSUME TypeOKNal, TypeOKNal', ~FourZeros, Parse, holds' = holds, Exact,
         \A t \in {SPS, PPS} : Whole(holds[t] \cup TakenOfType(t), sets[t])
  PROVE  /\ Exact'
         /\ \A t \in {SPS, PPS} : Whole(holds'[t] \cup TakenOfType(t)', sets'[t])
<1>0. /\ p \in Int /\ start \in Int /\ 1 <= start /\ start <= p /\ p <= Len(pkt) + 1
      /\ Len(pkt) \in Nat /\ pbgn \in Int /\ 1 <= pbgn
      /\ AtEnd <=> p > Len(pkt) - 2
      /\ nal = "end" => start = pbgn /\ pbgn > 3 /\ Code(pbgn - 3)
  BY DEF TypeOKNal, pkt_end, AtEnd, Exact
<1>a. pkt' = pkt
  BY DEF Parse, Advance, NalBegins, NalEnds, NoMoreNals
<1>b. \A c \in Codes : c \in Int /\ Code(c) /\ c >= 1
  BY DEF Codes
<1>c. \A c \in Codes : c >= start => c >= p
  BY <1>0, <1>b, CodeStarts DEF Exact
<1>d. ASSUME sets' = sets, Taken' = Taken
      PROVE  \A t \in {SPS, PPS} : Whole(holds'[t] \cup TakenOfType(t)', sets'[t])
  BY <1>a, <1>d, SameTaken
<1>1. CASE Advance
  <2>1. Taken' = Taken /\ sets' = sets
    BY <1>1, <1>a, SamePacket DEF Advance, Taken
  <2>2. QED  BY <1>1, <1>d, <2>1, AdvanceExact
<1>2. CASE NalBegins
  <2>0. ~AtEnd
    BY <1>0, <1>2 DEF NalBegins, found, pkt_end
  <2>1. found = p /\ p <= Len(pkt) - 2 /\ Starts(p)
    BY <1>0, <1>2, <2>0 DEF NalBegins, Returns, found
  <2>2. nal = "begin" /\ nal' = "end" /\ start' = pbgn' /\ p' = pbgn' /\ sets' = sets
    BY <1>2 DEF NalBegins, search
  <2>3. \A c \in Codes : c < start <=> c < p
    BY <1>0, <1>b, <1>c
  <2>4. /\ pbgn' \in {p + 3, p + 4} /\ Code(pbgn' - 3)
        /\ \A c \in Codes : c + 3 < pbgn' <=> c < p
    <3>1. CASE at(p + 2) = 1
      <4>1. pbgn' = p + 3 /\ pbgn' - 3 = p
        BY <1>0, <1>2, <2>1, <3>1 DEF NalBegins
      <4>2. Code(p)
        BY <1>0, <2>1, <3>1 DEF Starts, Code
      <4>3. QED  BY <1>0, <1>b, <4>1, <4>2
    <3>2. CASE at(p + 2) # 1
      <4>1. pbgn' = p + 4 /\ pbgn' - 3 = p + 1
        BY <1>0, <1>2, <2>1, <3>2 DEF NalBegins
      <4>2. at(p) = 0 /\ at(p + 1) = 0 /\ at(p + 2) = 0 /\ at(p + 3) = 1
        BY <2>1, <3>2 DEF Starts
      <4>3. p + 3 <= Len(pkt)
        BY <1>0, <4>2, NotBehind
      <4>4. Code(p + 1)
        BY <1>0, <4>2, <4>3 DEF Code
      <4>5. ~Code(p)
        BY <3>2 DEF Code
      <4>6. QED  BY <1>0, <1>b, <4>1, <4>4, <4>5
    <3>3. QED  BY <3>1, <3>2
  <2>5. Taken' = Taken
    BY <2>2, <2>3, <2>4, <1>a, SamePacket DEF Taken
  <2>6. Exact'
    <3>1. PICK k \in Int : k = pbgn'
      BY <1>0, <2>4
    <3>2. k > 3 /\ Code(k - 3)
      BY <1>0, <2>4, <3>1
    <3>3. Code(k - 3)'
      BY <1>a, <3>2, SamePacket
    <3>4. Code(pbgn - 3)'
      BY <3>1, <3>3
    <3>5. start' .. p' - 1 = {}
      <4>1. k \in Int /\ start' = k /\ p' = k
        BY <2>2, <3>1
      <4>2. k .. k - 1 = {}
        OBVIOUS
      <4>3. QED  BY <4>1, <4>2
    <3>6. start' = pbgn' /\ pbgn' > 3
      BY <2>2, <3>1, <3>2
    <3>7. QED  BY <3>4, <3>5, <3>6 DEF Exact
  <2>7. QED  BY <1>d, <2>2, <2>5, <2>6
<1>3. CASE NalEnds
  <2>1. nal = "end" /\ start = pbgn /\ pbgn > 3 /\ Code(pbgn - 3) /\ Returns
    BY <1>0, <1>3 DEF NalEnds
  <2>2. pbgn - 3 \in Codes /\ (pbgn - 3) + 3 = pbgn
    BY <1>0, <2>1 DEF Codes, Code
  <2>3. \A c \in Codes : c >= pbgn - 3 => c = pbgn - 3 \/ c >= p
    <3>1. SUFFICES ASSUME NEW c \in Codes, c \in {pbgn - 2, pbgn - 1} PROVE FALSE
      BY <1>0, <1>b, <1>c, <2>1
    <3>2. at(pbgn - 1) = 1
      BY <1>0, <2>1 DEF Code
    <3>3. at(c) = 0 /\ at(c + 1) = 0
      BY <1>b DEF Code
    <3>4. QED  BY <1>0, <3>1, <3>2, <3>3
  <2>4. /\ Taken' = Taken \cup {pbgn - 3}
        /\ Exact'
    <3>1. Taken = {c \in Codes : c + 3 < pbgn}
      BY <2>1 DEF Taken
    <3>2. CASE found < pkt_end
      <4>1. found = p /\ nal' = "begin" /\ start' = p /\ p' = p
        BY <1>3, <3>2, <1>0 DEF NalEnds, search, found, pkt_end
      <4>2. Taken' = {c \in Codes : c < p}
        BY <1>a, <4>1, SamePacket DEF Taken
      <4>3. \A c \in Codes : c < p <=> (c + 3 < pbgn \/ c = pbgn - 3)
        BY <1>0, <1>b, <2>1, <2>3
      <4>4. Exact'
        BY <1>0, <4>1 DEF Exact
      <4>5. QED  BY <2>2, <3>1, <4>2, <4>3, <4>4
    <3>3. CASE ~(found < pkt_end)
      <4>1. AtEnd
        BY <1>0, <3>3 DEF found, pkt_end
      <4>2. nal' = "none" /\ start' = start /\ p' = p
        BY <1>3, <3>3 DEF NalEnds
      <4>3. Taken' = Codes
        BY <1>a, <4>2, SamePacket DEF Taken
      <4>4. \A c \in Codes : c < pbgn
        BY <2>1, <4>1, NoneLeft
      <4>5. \A c \in Codes : c + 3 < pbgn \/ c = pbgn - 3
        BY <1>0, <1>b, <2>1, <2>3, <4>4
      <4>6. Exact'
        BY <1>a, <4>2, SamePacket DEF Exact
      <4>7. QED  BY <2>2, <3>1, <4>3, <4>5, <4>6
    <3>4. QED  BY <3>2, <3>3
  <2>5. ASSUME NEW t \in {SPS, PPS} PROVE Whole(holds'[t] \cup TakenOfType(t)', sets'[t])
    <3> DEFINE unit == SubSeq(pkt, pbgn, found - 1)
    <3>1. unit = NalOf(pbgn - 3)
      BY <2>1, UnitEnds
    <3>2. TakenOfType(t)' = {NalOf(i) : i \in {c \in Taken \cup {pbgn - 3} : at(c + 3) % 32 = t}}
      BY <1>a, <2>4, SamePacket DEF TakenOfType
    <3>3. Whole(holds[t] \cup TakenOfType(t), sets[t])
      OBVIOUS
    <3>4. sets'[t] = IF at(pbgn) % 32 = t THEN copy(sets[t], unit) ELSE sets[t]
      BY <1>3 DEF NalEnds, TypeOKNal
    <3>5. CASE at(pbgn) % 32 = t
      <4>1. holds'[t] \cup TakenOfType(t)' = (holds[t] \cup TakenOfType(t)) \cup {unit}
        BY <2>2, <3>1, <3>2, <3>5 DEF TakenOfType
      <4>2. unit \in Seq(Byte) /\ sets[t] \in Seq(Byte)
        BY <1>0 DEF TypeOKNal, found, pkt_end
      <4>3. Whole((holds[t] \cup TakenOfType(t)) \cup {unit}, copy(sets[t], unit))
        BY <3>3, <4>2, CopyWhole
      <4>4. QED  BY <3>4, <3>5, <4>1, <4>3
    <3>6. CASE at(pbgn) % 32 # t
      <4>1. TakenOfType(t)' = TakenOfType(t)
        BY <2>2, <3>2, <3>6 DEF TakenOfType
      <4>2. QED  BY <3>3, <3>4, <3>6, <4>1
    <3>7. QED  BY <3>5, <3>6
  <2>6. QED  BY <2>4, <2>5
<1>4. CASE NoMoreNals
  <2>1. AtEnd /\ nal = "begin" /\ nal' = "none" /\ sets' = sets /\ start' = start /\ p' = p
    BY <1>0, <1>4 DEF NoMoreNals, found, pkt_end
  <2>2. Taken' = Taken
    BY <1>a, <2>1, SamePacket, NoneLeft DEF Taken
  <2>3. Exact'
    BY <1>a, <2>1, SamePacket DEF Exact
  <2>4. QED  BY <1>d, <2>1, <2>2, <2>3
<1>5. QED  BY <1>1, <1>2, <1>3, <1>4 DEF Parse

(* Every step of the set-up keeps what was collected whole.                *)
LEMMA StepCollects == ASSUME IInv, IInv', Collected, [Next]_vars PROVE Collected'
<1> USE DEF IInv, TypeOK
<1>1. ASSUME UNCHANGED <<sets, holds>>, spc # "parse", spc' # "parse" PROVE Collected'
  BY <1>1 DEF Collected
<1>2. CASE AcquireAll \/ SendPicture \/ NothingReceived \/ MakeSlots \/ finalise
  <2>1. UNCHANGED <<sets, holds>> /\ spc # "parse" /\ spc' # "parse"
    BY <1>2 DEF AcquireAll, Acquire, SendPicture, NothingReceived, MakeSlots, finalise, nalVars
  <2>2. QED  BY <1>1, <2>1
<1>3. CASE ReceivePacket
  <2>1. PICK k \in Packets :
          IF Len(k) < 4 THEN UNCHANGED <<nalVars, spc>> ELSE ParsePacket(k) /\ spc' = "parse"
    BY <1>3 DEF ReceivePacket
  <2>2. spc = "receive" /\ holds' = holds /\ sets' = sets
    BY <1>3, <2>1 DEF ReceivePacket, ParsePacket, nalVars
  <2>3. CASE Len(k) < 4
    BY <1>1, <2>1, <2>2, <2>3
  <2>4. CASE ~(Len(k) < 4)
    <3>1. nal' = "begin" /\ start' = 1 /\ p' = 1 /\ spc' = "parse"
      BY <2>1, <2>4 DEF ParsePacket, search
    <3>2. Taken' = {}
      BY <3>1 DEF Taken, Codes
    <3>3. Exact'
      BY <3>1 DEF Exact
    <3>4. \A t : TakenOfType(t)' = {}
      BY <3>2 DEF TakenOfType
    <3>5. QED  BY <2>2, <3>1, <3>3, <3>4 DEF Collected
  <2>5. QED  BY <2>3, <2>4
<1>4. CASE ParseStep
  <2>1. spc = "parse" /\ spc' = "parse" /\ holds' = holds /\ Parse
    BY <1>4 DEF ParseStep, setupVars
  <2>2. pkt' = pkt
    BY <2>1 DEF Parse, Advance, NalBegins, NalEnds, NoMoreNals
  <2>3. FourZeros' <=> FourZeros
    BY <2>2, SamePacket
  <2>4. QED  BY <2>1, <2>3, ParseCollects DEF Collected
<1>5. CASE SendPacket
  <2>1. spc = "parse" /\ nal = "none" /\ spc' = "receive" /\ sets' = sets
    BY <1>5 DEF SendPacket
  <2>2. ASSUME NEW t \in {SPS, PPS} PROVE Whole(holds'[t], sets'[t])
    <3>1. holds'[t] = holds[t] \cup IF FourZeros THEN {<<>>} ELSE NalsOfType(t)
      BY <1>5 DEF SendPacket
    <3>2. CASE FourZeros
      BY <2>1, <3>1, <3>2, UnknownWhole
    <3>3. CASE ~FourZeros
      <4>1. NalsOfType(t) = TakenOfType(t)
        BY <2>1 DEF NalsOfType, TakenOfType, Taken
      <4>2. QED  BY <2>1, <3>1, <3>3, <4>1 DEF Collected
    <3>4. QED  BY <3>2, <3>3
  <2>3. QED  BY <2>1, <2>2 DEF Collected
<1>6. CASE UNCHANGED vars
  <2>1. pkt' = pkt /\ UNCHANGED <<nal, start, p, pbgn, sets, spc, holds>>
    BY <1>6 DEF vars, nalVars, setupVars
  <2>2. Taken' = Taken /\ (FourZeros' <=> FourZeros) /\ (Exact' <=> Exact)
    BY <2>1, SamePacket DEF Taken, Exact
  <2>3. \A t : TakenOfType(t)' = TakenOfType(t)
    BY <2>1, <2>2, SameTaken
  <2>4. QED  BY <2>1, <2>2, <2>3 DEF Collected
<1>7. QED
  BY <1>2, <1>3, <1>4, <1>5, <1>6 DEF Next

(* What the RTSP server tells its clients is, for packets of every number, *)
(* length and content, the parameter set that the codec wrote, whole, if   *)
(* it always wrote the same and no run of zeros hid a start code.          *)
THEOREM SetsToldWhole == Spec => []ParameterSetsWhole
<1>1. Init => Collected
  BY DEF Init, InitNal, Collected, Whole
<1>2. IInv /\ IInv' /\ Collected /\ [Next]_vars => Collected'
  BY StepCollects
<1>3. Collected => ParameterSetsWhole
  <2>1. SUFFICES ASSUME Collected, spc # "parse", NEW t \in {SPS, PPS},
                        NEW n \in holds[t] \cup {<<>>},
                        n # <<>> \/ holds[t] = {}, holds[t] \subseteq {n}
                 PROVE  sets[t] = n
    BY DEF ParameterSetsWhole
  <2>2. Whole(holds[t], sets[t])
    BY <2>1 DEF Collected
  <2>3. QED  BY <2>1, <2>2 DEF Whole
<1>4. QED  BY <1>1, <1>2, <1>3, Invariance, PTL DEF Spec
==============================================================================
