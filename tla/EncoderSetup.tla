----------------------------- MODULE EncoderSetup -----------------------------
(***************************************************************************)
(* CameraH264Encoder::setup_encoder: it takes what it needs from FFmpeg,   *)
(* one thing after the other, any of which may fail; then it sends         *)
(* pictures to the codec until the packets that come back have yielded     *)
(* both parameter sets (module NalScan); then it makes the mosaic's slots  *)
(* and is ready.  main deletes the encoder, whether it got ready or not.   *)
(***************************************************************************)
EXTENDS NalScan

CONSTANT MaxPackets                \* bound: packets the codec hands out

ASSUME MaxPacketsAssumption == MaxPackets \in Nat

VARIABLES
  spc,              \* where setup_encoder is
  fState,
  held,             \* what the encoder has allocated or initialised
  received,         \* number of packets handed out
  holds             \* the parameter sets in the packets so far (history)

setupVars == <<spc, fState, held, received, holds>>
vars      == <<nalVars, setupVars>>

(* The constructor has initialised fOutQueLock. *)
Init ==
  /\ InitNal
  /\ spc = "fEncoder"
  /\ fState = 0
  /\ held = {"fOutQueLock"}
  /\ received = 0
  /\ holds = [t \in {SPS, PPS} |-> {}]

(* One thing is allocated or opened, or setup_encoder returns. *)
Acquire(what, then) ==
  /\ spc = what
  /\ \/ spc' = then /\ held' = held \cup {what}
     \/ spc' = "failed" /\ UNCHANGED held
  /\ UNCHANGED <<nalVars, fState, received, holds>>

AcquireAll ==
  \/ Acquire("fEncoder", "fEncCtx")
  \/ Acquire("fEncCtx", "codec")
  \/ Acquire("codec", "fSrcFrame")
  \/ Acquire("fSrcFrame", "buffer")
  \/ Acquire("buffer", "pkt")
  \/ Acquire("pkt", "send")

(* Faulty: one of the parameter sets is enough. *)
SetsMissing_Both == sets[SPS] = <<>> /\ sets[PPS] = <<>>

(* fPPSNAL.empty() || fSPSNAL.empty() *)
SetsMissing == sets[SPS] = <<>> \/ sets[PPS] = <<>>

(* The codec takes the picture, or has no room for it now, or fails. *)
SendPicture ==
  /\ spc = "send"
  /\ SetsMissing
  /\ spc' \in {"receive", "failed"}
  /\ UNCHANGED <<nalVars, fState, held, received, holds>>

(* No packet, or an error: the outer loop goes on. *)
NothingReceived ==
  /\ spc = "receive"
  /\ spc' = "send"
  /\ UNCHANGED <<nalVars, fState, held, received, holds>>

(* A packet of less than four bytes is passed over. *)
ReceivePacket ==
  /\ spc = "receive"
  /\ received < MaxPackets
  /\ \E k \in Packets :
       IF Len(k) < 4 THEN UNCHANGED <<nalVars, spc>> ELSE ParsePacket(k) /\ spc' = "parse"
  /\ received' = received + 1
  /\ UNCHANGED <<fState, held, holds>>

ParseStep ==
  /\ spc = "parse"
  /\ Parse
  /\ UNCHANGED setupVars

(* The packet goes on to send_packet (module FrameQueue).  The history     *)
(* notes its parameter sets; of a packet with a run of zeros that no codec *)
(* writes nothing can be said.                                             *)
SendPacket ==
  /\ spc = "parse"
  /\ nal = "none"
  /\ spc' = "receive"
  /\ holds' = [t \in {SPS, PPS} |-> holds[t] \cup IF FourZeros THEN {<<>>} ELSE NalsOfType(t)]
  /\ pkt' = <<>> /\ start' = 1 /\ p' = 1 /\ pbgn' = 1
  /\ UNCHANGED <<nal, sets, fState, held, received>>

(* The slots and their locks. *)
MakeSlots ==
  /\ spc = "send"
  /\ ~SetsMissing
  /\ held' = held \cup {"fSubPictMutex"}
  /\ fState' = 1
  /\ spc' = "ready"
  /\ UNCHANGED <<nalVars, received, holds>>

(* Faulty: the frame is not freed. *)
close_encoder_KeepsFrame(h) == h \ {"fEncCtx", "codec"}

(* The codec goes with its context, the buffer with its frame. *)
close_encoder(h) == h \ {"fEncCtx", "codec", "fSrcFrame", "buffer"}

(* delete H264Encoder; the codec fEncoder is a constant of FFmpeg's. *)
finalise ==
  /\ spc \in {"ready", "failed"}
  /\ held' = close_encoder(held) \ {"fEncoder", "fOutQueLock", "fSubPictMutex"}
  /\ spc' = "deleted"
  /\ UNCHANGED <<nalVars, fState, received, holds>>

Next ==
  \/ AcquireAll
  \/ SendPicture \/ NothingReceived \/ ReceivePacket \/ ParseStep \/ SendPacket
  \/ MakeSlots \/ finalise

Spec     == Init /\ [][Next]_vars
FairSpec == Spec /\ WF_vars(ParseStep)

(***************************************************************************)
(* Properties.                                                             *)
(***************************************************************************)

Resources == {"fEncoder", "fEncCtx", "codec", "fSrcFrame", "buffer", "pkt",
              "fOutQueLock", "fSubPictMutex"}

(* The type invariant. *)
TypeOK ==
  /\ TypeOKNal
  /\ spc \in Resources \cup {"send", "receive", "parse", "ready", "failed", "deleted"}
  /\ fState \in {0, 1}
  /\ held \subseteq Resources
  /\ received \in 0 .. MaxPackets
  /\ DOMAIN holds = {SPS, PPS}

(* ready() promises run(), receive_frame and the RTSP server everything    *)
(* they use without asking: codec, frame with its buffer, the slots'       *)
(* locks, and both parameter sets (CameraRTSPServer.cpp:63).               *)
ReadyMeansUsable ==
  fState = 1 /\ spc # "deleted" =>
    held = Resources /\ \A t \in {SPS, PPS} : sets[t] # <<>>

(* Wherever setup_encoder gave up, the destructor frees what it had        *)
(* allocated; only the packet, a local variable, is never freed.           *)
OnlyPacketLeaks == spc = "deleted" => held \subseteq {"pkt"}

(* What clients are told to decode the stream with is a parameter set that *)
(* the codec wrote, all of it and nothing else, if it always wrote the     *)
(* same; and there is none if it wrote none.                               *)
ParameterSetsWhole ==
  spc \notin {"parse", "deleted"} =>
    \A t \in {SPS, PPS} : \A n \in holds[t] \cup {<<>>} :
      n # <<>> \/ holds[t] = {} => (holds[t] \subseteq {n} => sets[t] = n)

(* The search for units comes to an end in every packet: each turn of each *)
(* loop goes forward.                                                      *)
ParsingEnds == spc = "parse" ~> nal = "none"
=============================================================================
