----------------------------- MODULE StartupProofs -----------------------------
(***************************************************************************)
(* Proofs about module Startup and the module Config in it, for every size *)
(* of mosaic, every list of names and values, and all arguments.           *)
(***************************************************************************)
EXTENDS Startup, FiniteSets, WellFoundedInduction, TLAPS

(***************************************************************************)
(* The inductive invariant.                                                *)
(***************************************************************************)

(* The map holds what is left of the file, and the file what was read. *)
Leftover ==
  /\ file = [i \in DOMAIN file |-> file[i]]
  /\ param_list = [i \in DOMAIN param_list |-> file[i]]
  /\ rpc = "read" => DOMAIN file \subseteq 1 .. line - 1

(* What is no longer in the map was known and correct. *)
Accounted ==
  rpc \notin {"read", "unread"} =>
    \A i \in DOMAIN file \ DOMAIN param_list :
      Recognised(FileKeys[i]) /\ Acceptable(FileKeys[i], file[i])

(* What a loop has gone past is not for it, and nothing of the first       *)
(* loop's is left for the second.                                          *)
PassedBy ==
  /\ rpc = "general" => \A i \in DOMAIN param_list : i < it => ~IsGeneral(FileKeys[i])
  /\ rpc \in {"cameras", "ignored"} =>
       \A i \in DOMAIN param_list :
         ~IsGeneral(FileKeys[i]) /\ (i < it => ~IsCamera(FileKeys[i]))

(* What each result means. *)
Result ==
  /\ rpc = "ok" => DOMAIN param_list = {}
  /\ rpc = "ignored" => it = End /\ DOMAIN param_list # {}
  /\ rpc = "error" => /\ it \in DOMAIN param_list
                      /\ Recognised(key) /\ ~Acceptable(key, value)

ConfigInv ==
  TypeOKConfig /\ ParamsAgree /\ Leftover /\ Accounted /\ PassedBy /\ Result /\ ErrorNamesCulprit

(* The encoder has been told the size before the cameras are opened, and   *)
(* only configured cameras within the mosaic are.                          *)
SetUp ==
  /\ mpc \in {"params", "cameras", "threads"} =>
       encoder.width = param.fSubPictWidth /\ encoder.height = param.fSubPictHeight
  /\ mpc \notin {"cameras", "threads", "finished"} => opened = {}
  /\ mpc = "threads" => opened # {}
  /\ \A c \in opened : c < param.fSubPictNum /\ fCamDesc[c].name # 0

IInv == ConfigInv /\ TypeOK /\ SetUp

(***************************************************************************)
(* The constants and the map.                                              *)
(***************************************************************************)

(* What the assumptions say of one name. *)
LEMMA KeyTyped ==
  /\ MaxCol \in Nat /\ MaxCol >= 2 /\ MaxRow \in Nat /\ MaxRow >= 2
  /\ Len(FileKeys) \in Nat /\ Keys = 1 .. Len(FileKeys) /\ End \in Nat /\ End \notin Keys
  /\ \A i \in Keys : /\ FileKeys[i].name \in STRING
                     /\ FileKeys[i].vals \subseteq Values
  /\ \A i \in Keys : i < End
<1> DEFINE Name == [sec: {"top", "encoder", "cam", "cam?"}, cam: Nat,
                    name: STRING, vals: SUBSET Values]
<1>1. \A k \in Name : k.name \in STRING /\ k.vals \subseteq Values
  OBVIOUS
<1>2. /\ FileKeys \in Seq(Name)
      /\ MaxCol \in Nat /\ MaxCol >= 2 /\ MaxRow \in Nat /\ MaxRow >= 2
  BY ConfigAssumption, Zenon
<1> HIDE DEF Name
<1>3. Keys = 1 .. Len(FileKeys) /\ Len(FileKeys) \in Nat /\ \A i \in Keys : FileKeys[i] \in Name
  BY <1>2 DEF Keys
<1>4. QED
  BY <1>1, <1>2, <1>3 DEF End

(* A set of positions has a first one. *)
LEMMA FirstOf ==
  ASSUME NEW S, S \subseteq Nat, S # {}
  PROVE  \E k \in S : \A j \in S : k <= j
<1>1. \E k \in S : \A j \in S : ~(<<j, k>> \in OpToRel(<, Nat))
  BY NatLessThanWellFounded, WFMin, Zenon
<1>2. PICK k \in S : \A j \in S : ~(<<j, k>> \in OpToRel(<, Nat))
  BY <1>1
<1>3. ASSUME NEW j \in S PROVE k <= j
  <2>1. j \in Nat /\ k \in Nat
    OBVIOUS
  <2>2. ~(j < k)
    BY <1>2, <2>1 DEF OpToRel
  <2>3. QED
    BY <2>1, <2>2
<1>4. QED
  BY <1>3

(* from is the first position from i on. *)
LEMMA FromIs ==
  ASSUME NEW list, DOMAIN list \subseteq Keys, NEW i \in Nat, i <= End
  PROVE  /\ from(list, i) \in DOMAIN list \cup {End}
         /\ from(list, i) >= i
         /\ \A j \in DOMAIN list : j >= i => from(list, i) <= j
<1> DEFINE S == {k \in DOMAIN list \cup {End} : k >= i}
           First(k) == k >= i /\ \A j \in DOMAIN list : j >= i => k <= j
<1>1. S \subseteq Nat /\ End \in S
  BY KeyTyped
<1>2. PICK k \in S : \A j \in S : k <= j
  BY <1>1, FirstOf
<1>3. k \in DOMAIN list \cup {End} /\ First(k)
  BY <1>2
<1>4. from(list, i) = CHOOSE x \in DOMAIN list \cup {End} : First(x)
  BY DEF from
<1> HIDE DEF First
<1>5. from(list, i) \in DOMAIN list \cup {End} /\ First(from(list, i))
  BY <1>3, <1>4
<1>6. QED
  BY <1>5 DEF First

(* The iterators. *)
LEMMA Iterators ==
  ASSUME NEW list, DOMAIN list \subseteq Keys
  PROVE  /\ begin(list) \in DOMAIN list \cup {End}
         /\ \A j \in DOMAIN list : ~(j < begin(list))
         /\ \A i \in DOMAIN list :
              /\ next(list, i) \in DOMAIN list \cup {End}
              /\ \A j \in DOMAIN list : j < next(list, i) => j <= i
<1>1. /\ begin(list) \in DOMAIN list \cup {End}
      /\ \A j \in DOMAIN list : j >= 1 => begin(list) <= j
  <2>1. 1 \in Nat /\ 1 <= End
    BY KeyTyped DEF End
  <2>2. QED
    BY <2>1, FromIs DEF begin
<1>2. ASSUME NEW i \in DOMAIN list
      PROVE  /\ next(list, i) \in DOMAIN list \cup {End}
             /\ \A j \in DOMAIN list : j >= i + 1 => next(list, i) <= j
  <2>1. i + 1 \in Nat /\ i + 1 <= End
    BY KeyTyped DEF End
  <2>2. QED
    BY <2>1, FromIs DEF next
<1>3. QED
  BY <1>1, <1>2, KeyTyped

(* What is left when one parameter is erased. *)
LEMMA Erase ==
  ASSUME NEW list, NEW i
  PROVE  /\ DOMAIN erase(list, i) = DOMAIN list \ {i}
         /\ \A j \in DOMAIN list \ {i} : erase(list, i)[j] = list[j]
         /\ erase(list, i) = [j \in DOMAIN erase(list, i) |-> list[j]]
BY DEF erase, Restrict

(***************************************************************************)
(* The setters.                                                            *)
(***************************************************************************)

(* A product of two numbers in their ranges. *)
LEMMA Product ==
  ASSUME NEW a \in Nat, NEW b \in Nat, NEW x \in 1 .. a, NEW y \in 1 .. b
  PROVE  x * y \in 1 .. a * b
<1>1. x * y \in Int /\ a * b \in Int
  OBVIOUS
<1>2. x * y >= 1 * y
  OBVIOUS
<1>3. x * y <= a * y /\ a * y <= a * b
  OBVIOUS
<1>4. QED
  BY <1>1, <1>2, <1>3

(* A general parameter leaves them all in their ranges, and the number of  *)
(* pictures that of the mosaic.                                            *)
LEMMA SetGeneral ==
  ASSUME NEW p \in Params, p.fSubPictNum = p.fMosaicCol * p.fMosaicRow,
         NEW name \in GeneralNames, NEW n \in Int
  PROVE  LET q == set_general(p, name, n)
         IN  /\ q \in Params
             /\ q.fSubPictNum = q.fMosaicCol * q.fMosaicRow
             /\ name \notin SizeNames => /\ q.fSubPictWidth = p.fSubPictWidth
                                         /\ q.fSubPictHeight = p.fSubPictHeight
<1>1. CASE name \in SizeNames
  <2>1. roundUp4(n) \in Int
    BY DEF roundUp4
  <2>2. CASE name = "subpict_width"
    BY <2>1, <2>2 DEF set_general, Params, SizeNames
  <2>3. CASE name = "subpict_height"
    BY <2>1, <2>3 DEF set_general, Params, SizeNames
  <2>4. QED
    BY <1>1, <2>2, <2>3 DEF SizeNames
<1>2. CASE name = "mosaic_col"
  <2>1. clamp(n, 1, MaxCol) \in 1 .. MaxCol /\ p.fMosaicRow \in 1 .. MaxRow
    BY KeyTyped DEF clamp, Params
  <2>2. clamp(n, 1, MaxCol) * p.fMosaicRow \in 1 .. MaxCol * MaxRow
    BY <2>1, KeyTyped, Product
  <2>3. set_general(p, name, n) = set_mosaic_col(p, n)
    BY <1>2 DEF set_general
  <2>4. QED
    BY <1>2, <2>1, <2>2, <2>3 DEF set_mosaic_col, Params
<1>3. CASE name = "mosaic_row"
  <2>1. clamp(n, 1, MaxRow) \in 1 .. MaxRow /\ p.fMosaicCol \in 1 .. MaxCol
    BY KeyTyped DEF clamp, Params
  <2>2. p.fMosaicCol * clamp(n, 1, MaxRow) \in 1 .. MaxCol * MaxRow
    BY <2>1, KeyTyped, Product
  <2>3. set_general(p, name, n) = set_mosaic_row(p, n)
    BY <1>3 DEF set_general
  <2>4. QED
    BY <1>3, <2>1, <2>2, <2>3 DEF set_mosaic_row, Params
<1>4. CASE name = "RTSP_port"
  BY <1>4 DEF set_general, set_RTSP_port, Params
<1>5. CASE name = "HTTP_port"
  BY <1>5 DEF set_general, set_HTTP_port, Params
<1>6. QED
  BY <1>1, <1>2, <1>3, <1>4, <1>5 DEF GeneralNames

(* A camera's parameter leaves its size alone. *)
LEMMA SetCam ==
  ASSUME NEW d \in CameraDesc, NEW name \in CameraNames, NEW n \in Int
  PROVE  LET e == set_cam(d, name, n)
         IN  e \in CameraDesc /\ e.width = d.width /\ e.height = d.height
<1>1. CASE name \in OptionNames
  <2>1. set_cam(d, name, n) = [d EXCEPT !.options = set_cam_option(@, name, n = 1)]
    BY <1>1 DEF set_cam, OptionNames
  <2>2. set_cam_option(d.options, name, n = 1) \in SUBSET PictOptions
    <3>1. d.options \subseteq PictOptions /\ name \in PictOptions
      BY <1>1 DEF CameraDesc, PictOptions
    <3>2. CASE n = 1
      BY <3>1, <3>2 DEF set_cam_option
    <3>3. CASE n # 1
      BY <3>1, <3>3 DEF set_cam_option
    <3>4. QED
      BY <3>2, <3>3
  <2>3. QED
    BY <2>1, <2>2 DEF CameraDesc
<1>2. CASE name = "frame_rate"
  <2>1. clamp(n, 10, 30) \in 10 .. 30
    BY DEF clamp
  <2>2. QED
    BY <1>2, <2>1 DEF set_cam, CameraDesc, OptionNames
<1>3. CASE name = "buff_size"
  BY <1>3 DEF set_cam, CameraDesc, OptionNames
<1>4. CASE name \in {"name", "device_num", "pin_name", "pixel_format", "pict_label"}
  BY <1>4 DEF set_cam, CameraDesc, OptionNames
<1>5. QED
  BY <1>1, <1>2, <1>3, <1>4 DEF CameraNames

(* The encoder's own parameters leave the rest alone. *)
LEMMA SetEncoder ==
  ASSUME NEW p \in Params, NEW name \in EncoderNames, NEW n \in Int
  PROVE  LET q == set_encoder(p, name, n)
         IN  /\ q \in Params
             /\ q.fSubPictNum = p.fSubPictNum
             /\ q.fMosaicCol = p.fMosaicCol /\ q.fMosaicRow = p.fMosaicRow
             /\ q.fSubPictWidth = p.fSubPictWidth /\ q.fSubPictHeight = p.fSubPictHeight
<1>1. CASE name = "name"
  BY <1>1 DEF set_encoder, Params
<1>2. CASE name = "frame_rate"
  BY <1>2 DEF set_encoder, Params
<1>3. CASE name = "bit_rate"
  BY <1>3 DEF set_encoder, Params
<1>4. QED
  BY <1>1, <1>2, <1>3 DEF EncoderNames

(***************************************************************************)
(* read_from_file keeps the invariant.                                     *)
(***************************************************************************)

(* The initial parameters. *)
LEMMA InitConfigInv == InitConfig => ConfigInv
<1> SUFFICES ASSUME InitConfig PROVE ConfigInv OBVIOUS
<1>1. /\ file = NoParams /\ param_list = NoParams /\ rpc = "read" /\ line = 1
      /\ it = End /\ curr_it = End /\ fEncParam = {}
  BY DEF InitConfig
<1>2. DOMAIN NoParams = {} /\ NoParams = [i \in DOMAIN NoParams |-> NoParams[i]]
  BY DEF NoParams
<1>3. param \in Params /\ param.fSubPictNum = param.fMosaicCol * param.fMosaicRow
  <2>1. 4 <= MaxCol * MaxRow /\ MaxCol * MaxRow \in Nat
    <3>1. 2 * 2 <= MaxCol * 2 /\ MaxCol * 2 <= MaxCol * MaxRow
      BY KeyTyped
    <3>2. QED
      BY <3>1, KeyTyped
  <2>2. QED
    BY <2>1, KeyTyped DEF InitConfig, Params
<1>4. /\ fCamDesc \in [Cams -> CameraDesc]
      /\ \A c \in Cams : /\ fCamDesc[c].width = param.fSubPictWidth
                          /\ fCamDesc[c].height = param.fSubPictHeight
  BY DEF InitConfig, CameraDesc, PictOptions, OptionNames
<1>5. TypeOKConfig
  <2>1. 1 \in 1 .. End /\ End \in 1 .. End
    BY KeyTyped DEF End
  <2>2. QED
    BY <1>1, <1>2, <1>3, <1>4, <2>1 DEF TypeOKConfig
<1>6. Leftover
  BY <1>1, <1>2 DEF Leftover
<1>7. QED
  BY <1>1, <1>3, <1>4, <1>5, <1>6
     DEF ConfigInv, ParamsAgree, Accounted, PassedBy, Result, ErrorNamesCulprit

(* A line of the file, or the end of it. *)
LEMMA ReadParamInv == ConfigInv /\ read_param => ConfigInv'
<1> SUFFICES ASSUME ConfigInv, read_param PROVE ConfigInv' OBVIOUS
<1> USE DEF ConfigInv
<1>1. rpc = "read" /\ UNCHANGED paramVars
  BY DEF read_param, ReadLine, ReadMissing, ReadFails, ReadDone
<1>2. /\ (param \in Params)' /\ (fEncParam \subseteq Options)'
      /\ (fCamDesc \in [Cams -> CameraDesc])' /\ ParamsAgree'
  BY <1>1 DEF TypeOKConfig, ParamsAgree, paramVars
<1>3. CASE ReadLine
  <2>1. /\ line \in Keys /\ line + 1 \in 1 .. End
        /\ line' = line + 1 /\ UNCHANGED <<rpc, param_list, it, curr_it>>
    BY <1>3, KeyTyped DEF ReadLine, TypeOKConfig, End
  <2>2. /\ file' = [i \in DOMAIN file' |-> file'[i]]
        /\ DOMAIN file' \subseteq Keys /\ DOMAIN file' \subseteq 1 .. line
        /\ \A i \in DOMAIN file' : file'[i] \in Values
        /\ \A i \in DOMAIN file : i \in DOMAIN file' /\ file'[i] = file[i]
    <3>1. /\ DOMAIN file \subseteq Keys /\ DOMAIN file \subseteq 1 .. line - 1
          /\ file = [i \in DOMAIN file |-> file[i]]
          /\ \A i \in DOMAIN file : file[i] \in Values
      BY <1>1 DEF TypeOKConfig, Leftover
    <3>2. CASE UNCHANGED file
      BY <3>1, <3>2, <2>1, KeyTyped
    <3>3. CASE file' # file
      <4>1. PICK v \in FileKeys[line].vals :
              file' = [i \in DOMAIN file \cup {line} |-> IF i = line THEN v ELSE file[i]]
        BY <1>3, <3>3 DEF ReadLine
      <4>2. v \in Values /\ line \notin DOMAIN file
        BY <2>1, <3>1, KeyTyped
      <4>3. QED
        BY <2>1, <3>1, <4>1, <4>2, KeyTyped
    <3>4. QED
      BY <3>2, <3>3
  <2>3. param_list = [i \in DOMAIN param_list |-> file'[i]] /\ DOMAIN param_list \subseteq DOMAIN file'
    BY <2>2 DEF TypeOKConfig, Leftover
  <2>4. TypeOKConfig'
    BY <1>2, <2>1, <2>2, <2>3 DEF TypeOKConfig
  <2>5. Leftover'
    BY <2>1, <2>2, <2>3, KeyTyped DEF Leftover
  <2>6. QED
    BY <1>1, <1>2, <2>1, <2>4, <2>5 DEF Accounted, PassedBy, Result, ErrorNamesCulprit
<1>4. CASE ReadMissing
  <2>1. file = NoParams /\ DOMAIN file = {} /\ DOMAIN param_list = {}
    <3>1. DOMAIN file = {} /\ DOMAIN param_list = {}
      <4>1. DOMAIN file \subseteq 1 .. line - 1 /\ DOMAIN param_list \subseteq DOMAIN file
        BY <1>1 DEF TypeOKConfig, Leftover
      <4>2. line = 1
        BY <1>4 DEF ReadMissing
      <4>3. 1 .. line - 1 = {}
        BY <4>2
      <4>4. QED
        BY <4>1, <4>3
    <3>2. QED
      BY <3>1 DEF Leftover, NoParams
  <2>2. line' = End /\ rpc' = "general" /\ UNCHANGED <<file, param_list, it, curr_it>>
    BY <1>4 DEF ReadMissing
  <2>3. TypeOKConfig' /\ Leftover'
    BY <1>2, <2>2, KeyTyped DEF TypeOKConfig, Leftover, End
  <2>4. QED
    BY <1>2, <2>1, <2>2, <2>3 DEF Accounted, PassedBy, Result, ErrorNamesCulprit
<1>5. CASE ReadFails
  <2>1. rpc' = "unread" /\ UNCHANGED <<line, file, param_list, it, curr_it>>
    BY <1>5 DEF ReadFails
  <2>2. TypeOKConfig' /\ Leftover'
    BY <1>2, <2>1 DEF TypeOKConfig, Leftover
  <2>3. QED
    BY <1>2, <2>1, <2>2 DEF Accounted, PassedBy, Result, ErrorNamesCulprit
<1>6. CASE ReadDone
  <2>1. /\ rpc' = "general" /\ param_list' = file /\ UNCHANGED <<line, file>>
        /\ it' = begin(file) /\ curr_it' = begin(file)
    BY <1>6 DEF ReadDone
  <2>2. /\ begin(file) \in DOMAIN file \cup {End}
        /\ \A j \in DOMAIN file : ~(j < begin(file))
    BY Iterators DEF TypeOKConfig
  <2>3. begin(file) \in 1 .. End
    BY <2>2, KeyTyped DEF TypeOKConfig, End
  <2>4. TypeOKConfig'
    BY <1>2, <2>1, <2>2, <2>3 DEF TypeOKConfig
  <2>5. Leftover'
    BY <2>1 DEF Leftover
  <2>6. QED
    BY <1>2, <2>1, <2>2, <2>4, <2>5 DEF Accounted, PassedBy, Result, ErrorNamesCulprit
<1>7. QED
  BY <1>3, <1>4, <1>5, <1>6 DEF read_param

(* The parameter the iterator is at. *)
LEMMA AtKey ==
  ASSUME ConfigInv, it < End
  PROVE  /\ it \in DOMAIN param_list /\ it \in DOMAIN file /\ it \in Keys
         /\ key.name \in STRING
         /\ value = file[it] /\ value \in Values /\ value.n \in Int
<1>1. it \in DOMAIN param_list /\ it \in DOMAIN file /\ it \in Keys
  BY KeyTyped DEF ConfigInv, TypeOKConfig
<1>2. value = file[it] /\ value \in Values
  BY <1>1 DEF ConfigInv, TypeOKConfig, Leftover, value
<1>3. QED
  BY <1>1, <1>2, KeyTyped DEF key, Values

(* The map and the iterator when its parameter is erased. *)
LEMMA ErasedIs ==
  ASSUME ConfigInv, it < End, erased(it), UNCHANGED <<file, rpc, line, curr_it>>
  PROVE  /\ DOMAIN param_list' = DOMAIN param_list \ {it}
         /\ it' \in DOMAIN param_list' \cup {End}
         /\ \A j \in DOMAIN param_list' : ~(j < it')
         /\ Leftover'
<1>1. /\ DOMAIN param_list' = DOMAIN param_list \ {it}
      /\ \A j \in DOMAIN param_list' : param_list'[j] = param_list[j]
      /\ param_list' = [j \in DOMAIN param_list' |-> param_list[j]]
  BY Erase DEF erased
<1>2. DOMAIN param_list' \subseteq Keys
  BY <1>1 DEF ConfigInv, TypeOKConfig
<1>3. /\ it' \in DOMAIN param_list' \cup {End}
      /\ \A j \in DOMAIN param_list' : ~(j < it')
  BY <1>2, Iterators DEF erased
<1>4. \A j \in DOMAIN param_list' : param_list[j] = file[j]
  BY <1>1 DEF ConfigInv, Leftover
<1>5. Leftover'
  BY <1>1, <1>4 DEF ConfigInv, Leftover
<1>6. QED
  BY <1>1, <1>3, <1>5

(* A parameter of the first loop is set and erased. *)
LEMMA GeneralApplyInv == ConfigInv /\ GeneralApply => ConfigInv'
<1> SUFFICES ASSUME ConfigInv, GeneralApply PROVE ConfigInv' OBVIOUS
<1>1. /\ rpc = "general" /\ it < End /\ erased(it) /\ UNCHANGED <<file, rpc, line, curr_it>>
      /\ IsGeneral(key) /\ Acceptable(key, value)
  BY DEF GeneralApply
<1>2. /\ it \in DOMAIN param_list /\ it \in DOMAIN file /\ key.name \in STRING
      /\ value = file[it] /\ value.n \in Int
  BY <1>1, AtKey
<1>3. /\ DOMAIN param_list' = DOMAIN param_list \ {it}
      /\ it' \in DOMAIN param_list' \cup {End}
      /\ \A j \in DOMAIN param_list' : ~(j < it')
      /\ Leftover'
  BY <1>1, ErasedIs
<1>4. /\ param \in Params /\ param.fSubPictNum = param.fMosaicCol * param.fMosaicRow
      /\ fEncParam \subseteq Options /\ fCamDesc \in [Cams -> CameraDesc]
      /\ \A c \in Cams : /\ fCamDesc[c].width = param.fSubPictWidth
                          /\ fCamDesc[c].height = param.fSubPictHeight
  BY DEF ConfigInv, TypeOKConfig, ParamsAgree
<1>5. /\ param' \in Params /\ param'.fSubPictNum = param'.fMosaicCol * param'.fMosaicRow
      /\ fEncParam' \subseteq Options /\ fCamDesc' \in [Cams -> CameraDesc]
      /\ \A c \in Cams : /\ fCamDesc'[c].width = param'.fSubPictWidth
                          /\ fCamDesc'[c].height = param'.fSubPictHeight
  <2>1. CASE key.sec = "top"
    <3>1. /\ key.name \in GeneralNames /\ param' = set_general(param, key.name, value.n)
          /\ UNCHANGED fEncParam
          /\ fCamDesc' = IF key.name \in SizeNames THEN set_cam_sizes(fCamDesc, param') ELSE fCamDesc
      BY <1>1, <2>1 DEF GeneralApply, IsGeneral
    <3>2. /\ param' \in Params /\ param'.fSubPictNum = param'.fMosaicCol * param'.fMosaicRow
          /\ key.name \notin SizeNames => /\ param'.fSubPictWidth = param.fSubPictWidth
                                          /\ param'.fSubPictHeight = param.fSubPictHeight
      BY <1>2, <1>4, <3>1, SetGeneral
    <3>3. CASE key.name \in SizeNames
      <4>1. param'.fSubPictWidth \in Int /\ param'.fSubPictHeight \in Int
        BY <3>2 DEF Params
      <4>2. fCamDesc' = [c \in Cams |-> [fCamDesc[c] EXCEPT !.width = param'.fSubPictWidth,
                                                           !.height = param'.fSubPictHeight]]
        BY <3>1, <3>3 DEF set_cam_sizes
      <4>3. \A c \in Cams : /\ fCamDesc'[c] \in CameraDesc
                            /\ fCamDesc'[c].width = param'.fSubPictWidth
                            /\ fCamDesc'[c].height = param'.fSubPictHeight
        BY <1>4, <4>1, <4>2 DEF CameraDesc
      <4>4. QED
        BY <1>4, <3>1, <3>2, <4>2, <4>3
    <3>4. CASE key.name \notin SizeNames
      BY <1>4, <3>1, <3>2, <3>4
    <3>5. QED
      BY <3>3, <3>4
  <2>2. CASE key.sec # "top" /\ key.name \in EncoderNames
    <3>1. param' = set_encoder(param, key.name, value.n) /\ UNCHANGED <<fEncParam, fCamDesc>>
      BY <2>2 DEF GeneralApply
    <3>2. /\ param' \in Params /\ param'.fSubPictNum = param.fSubPictNum
          /\ param'.fMosaicCol = param.fMosaicCol /\ param'.fMosaicRow = param.fMosaicRow
          /\ param'.fSubPictWidth = param.fSubPictWidth /\ param'.fSubPictHeight = param.fSubPictHeight
      BY <1>2, <1>4, <2>2, <3>1, SetEncoder
    <3>3. QED
      BY <1>4, <3>1, <3>2
  <2>3. CASE key.sec # "top" /\ key.name \notin EncoderNames
    <3>1. /\ fEncParam' = set_encoder_param(fEncParam, key.name, value.n)
          /\ UNCHANGED <<param, fCamDesc>>
      BY <2>3 DEF GeneralApply
    <3>2. fEncParam' \subseteq Options
      BY <1>2, <1>4, <3>1 DEF set_encoder_param, Options
    <3>3. QED
      BY <1>4, <3>1, <3>2
  <2>4. QED
    BY <2>1, <2>2, <2>3
<1>6. TypeOKConfig'
  BY <1>1, <1>3, <1>5 DEF ConfigInv, TypeOKConfig
<1>7. Accounted'
  BY <1>1, <1>2, <1>3 DEF ConfigInv, Accounted, Recognised, key
<1>8. PassedBy'
  BY <1>1, <1>3 DEF PassedBy
<1>9. QED
  BY <1>1, <1>3, <1>5, <1>6, <1>7, <1>8 DEF ConfigInv, ParamsAgree, Result, ErrorNamesCulprit

(* A parameter of a camera is set and erased. *)
LEMMA CameraApplyInv == ConfigInv /\ CameraApply => ConfigInv'
<1> SUFFICES ASSUME ConfigInv, CameraApply PROVE ConfigInv' OBVIOUS
<1>1. /\ rpc = "cameras" /\ it < End /\ erased(it) /\ UNCHANGED <<file, rpc, line, curr_it>>
      /\ IsCamera(key) /\ Acceptable(key, value) /\ UNCHANGED <<param, fEncParam>>
  BY DEF CameraApply
<1>2. /\ it \in DOMAIN param_list /\ it \in DOMAIN file
      /\ value = file[it] /\ value.n \in Int
  BY <1>1, AtKey
<1>3. /\ DOMAIN param_list' = DOMAIN param_list \ {it}
      /\ it' \in DOMAIN param_list' \cup {End}
      /\ \A j \in DOMAIN param_list' : ~(j < it')
      /\ Leftover'
  BY <1>1, ErasedIs
<1>4. /\ fCamDesc' \in [Cams -> CameraDesc]
      /\ \A c \in Cams : fCamDesc'[c].width = fCamDesc[c].width
                          /\ fCamDesc'[c].height = fCamDesc[c].height
  <2>1. fCamDesc \in [Cams -> CameraDesc]
    BY DEF ConfigInv, TypeOKConfig
  <2>2. CASE key.cam \in Cams
    <3>1. key.name \in CameraNames
      BY <1>1 DEF IsCamera, Acceptable
    <3>2. fCamDesc' = [fCamDesc EXCEPT ![key.cam] = set_cam(fCamDesc[key.cam], key.name, value.n)]
      BY <2>2 DEF CameraApply
    <3> DEFINE e == set_cam(fCamDesc[key.cam], key.name, value.n)
    <3>3. /\ e \in CameraDesc
          /\ e.width = fCamDesc[key.cam].width /\ e.height = fCamDesc[key.cam].height
      BY <1>2, <2>1, <2>2, <3>1, SetCam
    <3>4. QED
      BY <2>1, <2>2, <3>2, <3>3
  <2>3. CASE key.cam \notin Cams
    BY <2>1, <2>3 DEF CameraApply
  <2>4. QED
    BY <2>2, <2>3
<1>5. TypeOKConfig' /\ ParamsAgree'
  BY <1>1, <1>3, <1>4 DEF ConfigInv, TypeOKConfig, ParamsAgree
<1>6. Accounted'
  BY <1>1, <1>2, <1>3 DEF ConfigInv, Accounted, Recognised, key
<1>7. PassedBy'
  BY <1>1, <1>3 DEF ConfigInv, PassedBy
<1>8. QED
  BY <1>1, <1>3, <1>5, <1>6, <1>7 DEF ConfigInv, Result, ErrorNamesCulprit

(* A parameter that is refused. *)
LEMMA RefusedInv == ConfigInv /\ (GeneralError \/ CameraError) => ConfigInv'
<1> SUFFICES ASSUME ConfigInv, GeneralError \/ CameraError PROVE ConfigInv' OBVIOUS
<1>1. /\ rpc \in {"general", "cameras"} /\ it < End /\ rpc' = "error"
      /\ UNCHANGED <<line, file, param_list, it, paramVars>>
      /\ Recognised(key) /\ ~Acceptable(key, value)
  BY DEF GeneralError, CameraError, Recognised
<1>2. /\ it \in DOMAIN param_list /\ it \in DOMAIN file /\ it \in Keys /\ value = file[it]
      /\ curr_it' = it \/ curr_it' = curr_it
  BY <1>1, AtKey DEF GeneralError, CameraError
<1>3. TypeOKConfig' /\ ParamsAgree' /\ Leftover'
  BY <1>1, <1>2, KeyTyped DEF ConfigInv, TypeOKConfig, ParamsAgree, Leftover, paramVars, End
<1>4. Accounted' /\ PassedBy' /\ Result'
  BY <1>1, <1>2 DEF ConfigInv, Accounted, PassedBy, Result, key, value
<1>5. ErrorNamesCulprit'
  <2>1. CASE curr_it' = it
    BY <1>1, <1>2, <2>1 DEF ErrorNamesCulprit, key, value
  <2>2. CASE curr_it' # it
    <3>1. key.sec = "cam" /\ key.name \in OptionNames
      BY <2>2 DEF GeneralError, CameraError
    <3>2. ~file[it].ok
      BY <1>1, <1>2, <3>1 DEF Acceptable
    <3>3. QED
      BY <1>1, <1>2, <3>1, <3>2 DEF ErrorNamesCulprit, key
  <2>3. QED
    BY <2>1, <2>2
<1>6. QED
  BY <1>3, <1>4, <1>5 DEF ConfigInv

(* A parameter that is passed by. *)
LEMMA SkipInv == ConfigInv /\ (GeneralSkip \/ CameraSkip) => ConfigInv'
<1> SUFFICES ASSUME ConfigInv, GeneralSkip \/ CameraSkip PROVE ConfigInv' OBVIOUS
<1>1. /\ it < End /\ it' = next(param_list, it)
      /\ UNCHANGED <<rpc, line, file, param_list, curr_it, paramVars>>
      /\ \/ rpc = "general" /\ ~IsGeneral(key)
         \/ rpc = "cameras" /\ ~IsCamera(key)
  BY DEF GeneralSkip, CameraSkip
<1>2. it \in DOMAIN param_list
  BY <1>1, AtKey
<1>3. /\ it' \in DOMAIN param_list \cup {End}
      /\ \A j \in DOMAIN param_list : j < it' => j <= it
  BY <1>1, <1>2, Iterators DEF ConfigInv, TypeOKConfig
<1>4. TypeOKConfig' /\ ParamsAgree' /\ Leftover' /\ Accounted'
  BY <1>1, <1>3 DEF ConfigInv, TypeOKConfig, ParamsAgree, Leftover, Accounted, paramVars
<1>5. PassedBy'
  <2>1. \A j \in DOMAIN param_list : j < it' => j < it \/ j = it
    BY <1>2, <1>3, KeyTyped DEF ConfigInv, TypeOKConfig
  <2>2. QED
    BY <1>1, <2>1 DEF ConfigInv, PassedBy, key
<1>6. QED
  BY <1>1, <1>4, <1>5 DEF ConfigInv, Result, ErrorNamesCulprit

(* The end of a loop. *)
LEMMA LoopEndInv == ConfigInv /\ (GeneralEnd \/ CamerasEnd) => ConfigInv'
<1> SUFFICES ASSUME ConfigInv, GeneralEnd \/ CamerasEnd PROVE ConfigInv' OBVIOUS
<1>1. it = End /\ UNCHANGED <<line, file, param_list, paramVars>> /\ DOMAIN param_list \subseteq Keys
  BY DEF GeneralEnd, CamerasEnd, ConfigInv, TypeOKConfig
<1>2. \A j \in DOMAIN param_list : j < it
  BY <1>1, KeyTyped
<1>3. ParamsAgree'
  BY <1>1 DEF ConfigInv, ParamsAgree, paramVars
<1>4. CASE GeneralEnd
  <2>1. /\ rpc = "general" /\ rpc' = "cameras"
        /\ it' = begin(param_list) /\ curr_it' = begin(param_list)
    BY <1>4 DEF GeneralEnd
  <2>2. /\ begin(param_list) \in DOMAIN param_list \cup {End}
        /\ \A j \in DOMAIN param_list : ~(j < begin(param_list))
    BY <1>1, Iterators
  <2>3. begin(param_list) \in 1 .. End
    BY <1>1, <2>2, KeyTyped DEF End
  <2>4. TypeOKConfig' /\ Leftover' /\ Accounted'
    BY <1>1, <2>1, <2>2, <2>3 DEF ConfigInv, TypeOKConfig, Leftover, Accounted, paramVars
  <2>5. PassedBy'
    BY <1>1, <1>2, <2>1, <2>2 DEF ConfigInv, PassedBy
  <2>6. QED
    BY <1>3, <2>1, <2>4, <2>5 DEF ConfigInv, Result, ErrorNamesCulprit
<1>5. CASE CamerasEnd
  <2>1. /\ rpc = "cameras" /\ UNCHANGED <<it, curr_it>>
        /\ rpc' = IF param_list = NoParams THEN "ok" ELSE "ignored"
    BY <1>5 DEF CamerasEnd
  <2>2. TypeOKConfig' /\ Leftover' /\ Accounted' /\ PassedBy'
    BY <1>1, <2>1 DEF ConfigInv, TypeOKConfig, Leftover, Accounted, PassedBy, paramVars
  <2>3. /\ param_list = NoParams => DOMAIN param_list = {}
        /\ DOMAIN param_list = {} => param_list = NoParams
    BY DEF ConfigInv, Leftover, NoParams
  <2>4. Result' /\ ErrorNamesCulprit'
    BY <1>1, <2>1, <2>3 DEF Result, ErrorNamesCulprit
  <2>5. QED
    BY <1>3, <2>2, <2>4 DEF ConfigInv
<1>6. QED
  BY <1>4, <1>5

(* So does every step of read_from_file. *)
LEMMA ReadInv == ConfigInv /\ read_from_file => ConfigInv'
BY ReadParamInv, GeneralApplyInv, CameraApplyInv, RefusedInv, SkipInv, LoopEndInv
   DEF read_from_file

(* Reading leaves the parameters' user alone. *)
LEMMA ConfigStutter == ConfigInv /\ UNCHANGED configVars => ConfigInv'
<1> SUFFICES ASSUME ConfigInv, UNCHANGED configVars PROVE ConfigInv' OBVIOUS
<1>1. UNCHANGED <<rpc, line, file, param_list, it, curr_it, param, fEncParam, fCamDesc>>
  BY DEF configVars, readVars, paramVars
<1>2. TypeOKConfig' /\ ParamsAgree' /\ Leftover'
  BY <1>1 DEF ConfigInv, TypeOKConfig, ParamsAgree, Leftover
<1>3. Accounted' /\ PassedBy'
  BY <1>1 DEF ConfigInv, Accounted, PassedBy
<1>4. Result' /\ ErrorNamesCulprit'
  BY <1>1 DEF ConfigInv, Result, ErrorNamesCulprit, key, value
<1>5. QED
  BY <1>2, <1>3, <1>4 DEF ConfigInv

(***************************************************************************)
(* main keeps the invariant.                                               *)
(***************************************************************************)

(* The initial states. *)
LEMMA InitInv == Init => IInv
<1> SUFFICES ASSUME Init PROVE IInv OBVIOUS
<1>1. ConfigInv /\ TypeOKConfig
  BY InitConfigInv DEF Init, ConfigInv
<1>2. /\ argv \in ArgLists /\ idx = 1 /\ fParamFileName = "config.txt" /\ mpc = "args"
      /\ encoder = NoEncoder /\ icam = 0 /\ opened = {}
  BY DEF Init
<1>3. Len(argv) \in Nat
  BY <1>2, StartupAssumption
<1>4. MaxCol * MaxRow \in Nat
  BY KeyTyped
<1>5. encoder \in [slots: Int, width: Int, height: Int, frameRate: Int, bitRate: Int,
                  option: SUBSET Options, openedWith: SUBSET Options]
  BY <1>2 DEF NoEncoder
<1>6. idx \in 1 .. Len(argv) + 1 /\ icam \in 0 .. MaxCol * MaxRow
  BY <1>2, <1>3, <1>4
<1>7. TypeOK
  BY <1>1, <1>2, <1>5, <1>6 DEF TypeOK
<1>8. SetUp
  BY <1>2 DEF SetUp
<1>9. QED
  BY <1>1, <1>7, <1>8 DEF IInv

(* The arguments. *)
LEMMA ArgsInv == IInv /\ (ArgPassedOver \/ ArgTaken \/ ArgMissing \/ ArgsDone) => IInv'
<1> SUFFICES ASSUME IInv, ArgPassedOver \/ ArgTaken \/ ArgMissing \/ ArgsDone PROVE IInv'
  OBVIOUS
<1>1. /\ mpc = "args" /\ mpc' \in {"args", "usage", "config"}
      /\ UNCHANGED <<configVars, argv, encoder, icam, opened>>
      /\ \/ idx <= Len(argv) /\ idx' = idx + 1 /\ UNCHANGED fParamFileName
         \/ idx < Len(argv) /\ idx' = idx + 2 /\ fParamFileName' = argv[idx + 1]
         \/ UNCHANGED <<idx, fParamFileName>>
  BY DEF ArgPassedOver, ArgTaken, ArgMissing, ArgsDone
<1>2. argv \in ArgLists /\ Len(argv) \in Nat /\ DOMAIN argv = 1 .. Len(argv)
  BY StartupAssumption DEF IInv, TypeOK
<1>3. idx' \in 1 .. Len(argv) + 1
  BY <1>1, <1>2 DEF IInv, TypeOK
<1>4. fParamFileName' \in {"config.txt"} \cup {argv[i] : i \in DOMAIN argv}
  <2>1. CASE UNCHANGED fParamFileName
    BY <2>1 DEF IInv, TypeOK
  <2>2. CASE idx < Len(argv) /\ fParamFileName' = argv[idx + 1]
    <3>1. idx + 1 \in DOMAIN argv
      BY <1>2, <2>2 DEF IInv, TypeOK
    <3>2. QED
      BY <2>2, <3>1
  <2>3. QED
    BY <1>1, <2>1, <2>2
<1>5. ConfigInv' /\ TypeOKConfig'
  BY <1>1, ConfigStutter DEF IInv, ConfigInv
<1>6. TypeOK'
  BY <1>1, <1>3, <1>4, <1>5 DEF IInv, TypeOK
<1>7. SetUp'
  BY <1>1 DEF IInv, SetUp
<1>8. QED
  BY <1>5, <1>6, <1>7 DEF IInv

(* Reading, and its result. *)
LEMMA ConfigInvKept == IInv /\ (ReadConfig \/ ConfigRead) => IInv'
<1> SUFFICES ASSUME IInv, ReadConfig \/ ConfigRead PROVE IInv' OBVIOUS
<1>1. /\ mpc = "config" /\ mpc' \in {"config", "encoder", "refused"}
      /\ UNCHANGED <<argv, idx, fParamFileName, encoder, icam, opened>>
      /\ read_from_file \/ UNCHANGED configVars
  BY DEF ReadConfig, ConfigRead, mainVars
<1>2. ConfigInv' /\ TypeOKConfig'
  BY <1>1, ReadInv, ConfigStutter DEF IInv, ConfigInv
<1>3. TypeOK'
  BY <1>1, <1>2 DEF IInv, TypeOK
<1>4. opened = {}
  BY <1>1 DEF IInv, SetUp
<1>5. SetUp'
  BY <1>1, <1>4 DEF SetUp
<1>6. QED
  BY <1>2, <1>3, <1>5 DEF IInv

(* The encoder is made, told the picture's size, and given its parameters. *)
LEMMA EncoderInv == IInv /\ (NewEncoder \/ SetupEncoder \/ SetEncoderParams) => IInv'
<1> SUFFICES ASSUME IInv, NewEncoder \/ SetupEncoder \/ SetEncoderParams PROVE IInv' OBVIOUS
<1> DEFINE EncoderType == [slots: Int, width: Int, height: Int, frameRate: Int, bitRate: Int,
                           option: SUBSET Options, openedWith: SUBSET Options]
<1>1. /\ mpc \in {"encoder", "setup", "params"}
      /\ mpc' \in {"setup", "params", "cameras", "finished"}
      /\ UNCHANGED <<configVars, argv, idx, fParamFileName, icam, opened>>
  BY DEF NewEncoder, SetupEncoder, SetEncoderParams
<1>2. UNCHANGED <<param, fCamDesc>>
  BY <1>1 DEF configVars, paramVars
<1>3. /\ encoder \in EncoderType /\ fEncParam \in SUBSET Options
      /\ param.fSubPictWidth \in Int /\ param.fSubPictHeight \in Int
      /\ param.fOutFrameRate \in Int /\ param.fOutBitRate \in Int
  BY DEF IInv, TypeOK, TypeOKConfig, Params
<1>4. /\ encoder' \in EncoderType
      /\ mpc' \in {"params", "cameras"} =>
           encoder'.width = param.fSubPictWidth /\ encoder'.height = param.fSubPictHeight
  <2>1. CASE NewEncoder
    <3>1. /\ mpc' = "setup"
          /\ encoder' = [slots |-> 2 * 2, width |-> 640, height |-> 480, frameRate |-> 15,
                        bitRate |-> 5242880, option |-> {}, openedWith |-> {}]
      BY <2>1 DEF NewEncoder
    <3>2. QED
      BY <3>1
  <2>2. CASE SetupEncoder
    <3>1. encoder' = [encoder EXCEPT
            !.width = param.fSubPictWidth, !.height = param.fSubPictHeight,
            !.frameRate = param.fOutFrameRate, !.bitRate = param.fOutBitRate,
            !.openedWith = encoder.option]
      BY <2>2 DEF SetupEncoder
    <3>2. encoder.option \in SUBSET Options
      BY <1>3
    <3>3. QED
      BY <1>3, <3>1, <3>2
  <2>3. CASE SetEncoderParams
    <3>1. /\ mpc = "params" /\ encoder' = [encoder EXCEPT !.option = fEncParam]
      BY <2>3 DEF SetEncoderParams
    <3>2. encoder.width = param.fSubPictWidth /\ encoder.height = param.fSubPictHeight
      BY <3>1 DEF IInv, SetUp
    <3>3. QED
      BY <1>3, <3>1, <3>2
  <2>4. QED
    BY <2>1, <2>2, <2>3
<1>5. ConfigInv' /\ TypeOKConfig'
  BY <1>1, ConfigStutter DEF IInv, ConfigInv
<1>6. TypeOK'
  BY <1>1, <1>4, <1>5 DEF IInv, TypeOK
<1>7. opened = {}
  BY <1>1 DEF IInv, SetUp
<1>8. SetUp'
  BY <1>1, <1>2, <1>4, <1>7 DEF SetUp
<1>9. QED
  BY <1>5, <1>6, <1>8 DEF IInv

(* A camera is opened or not. *)
LEMMA OpenCameraInv == IInv /\ OpenCamera => IInv'
<1> SUFFICES ASSUME IInv, OpenCamera PROVE IInv' OBVIOUS
<1>1. /\ mpc = "cameras" /\ icam < param.fSubPictNum /\ icam' = icam + 1
      /\ fCamDesc' = [fCamDesc EXCEPT ![icam].options = @ \cup edges(icam)]
      /\ UNCHANGED opened \/ (fCamDesc[icam].name # 0 /\ opened' = opened \cup {icam})
      /\ UNCHANGED <<rpc, line, file, param_list, it, curr_it, param, fEncParam,
                     argv, idx, fParamFileName, mpc, encoder>>
  BY DEF OpenCamera, readVars
<1>2. /\ icam \in Cams /\ icam + 1 \in 0 .. MaxCol * MaxRow
      /\ fCamDesc \in [Cams -> CameraDesc]
  <2>a. MaxCol * MaxRow \in Nat
    BY KeyTyped
  <2>b. icam \in Nat
    BY DEF IInv, TypeOK
  <2>c. param.fSubPictNum \in 1 .. MaxCol * MaxRow
    BY DEF IInv, TypeOKConfig, TypeOK, Params
  <2>1. icam \in Nat /\ param.fSubPictNum \in Nat /\ param.fSubPictNum <= MaxCol * MaxRow
        /\ MaxCol * MaxRow \in Nat
    BY <2>a, <2>b, <2>c
  <2>2. QED
    BY <1>1, <2>1 DEF Cams, IInv, TypeOK, TypeOKConfig
<1>3. edges(icam) \subseteq PictOptions
  BY DEF edges, PictOptions
<1>4. /\ fCamDesc' \in [Cams -> CameraDesc]
      /\ \A c \in Cams : /\ fCamDesc'[c].width = fCamDesc[c].width
                          /\ fCamDesc'[c].height = fCamDesc[c].height
                          /\ fCamDesc'[c].name = fCamDesc[c].name
  <2>1. fCamDesc[icam].options \cup edges(icam) \in SUBSET PictOptions
    BY <1>2, <1>3 DEF CameraDesc
  <2>2. /\ [fCamDesc[icam] EXCEPT !.options = fCamDesc[icam].options \cup edges(icam)] \in CameraDesc
        /\ fCamDesc' = [fCamDesc EXCEPT ![icam] =
             [fCamDesc[icam] EXCEPT !.options = fCamDesc[icam].options \cup edges(icam)]]
    BY <1>1, <1>2, <2>1 DEF CameraDesc
  <2>3. QED
    BY <1>2, <2>2 DEF CameraDesc
<1>5. ConfigInv' /\ TypeOKConfig'
  <2>1. TypeOKConfig' /\ ParamsAgree' /\ Leftover'
    BY <1>1, <1>4 DEF IInv, ConfigInv, TypeOKConfig, ParamsAgree, Leftover
  <2>2. Accounted' /\ PassedBy'
    BY <1>1 DEF IInv, ConfigInv, Accounted, PassedBy
  <2>3. Result' /\ ErrorNamesCulprit'
    BY <1>1 DEF IInv, ConfigInv, Result, ErrorNamesCulprit, key, value
  <2>4. QED
    BY <2>1, <2>2, <2>3 DEF ConfigInv
<1>6. opened' \subseteq Cams /\ opened \subseteq Cams
  BY <1>1, <1>2 DEF IInv, TypeOK
<1>7. TypeOK'
  BY <1>1, <1>2, <1>5, <1>6 DEF IInv, TypeOK
<1>8. SetUp'
  BY <1>1, <1>2, <1>4, <1>6 DEF IInv, SetUp
<1>9. QED
  BY <1>5, <1>7, <1>8 DEF IInv

(* The server is made if there is a camera. *)
LEMMA NewServerInv == IInv /\ NewServer => IInv'
<1> SUFFICES ASSUME IInv, NewServer PROVE IInv' OBVIOUS
<1>1. /\ mpc = "cameras" /\ mpc' = IF opened = {} THEN "finished" ELSE "threads"
      /\ UNCHANGED <<configVars, argv, idx, fParamFileName, encoder, icam, opened>>
  BY DEF NewServer
<1>2. UNCHANGED <<param, fCamDesc>>
  BY <1>1 DEF configVars, paramVars
<1>3. ConfigInv' /\ TypeOKConfig'
  BY <1>1, ConfigStutter DEF IInv, ConfigInv
<1>4. TypeOK'
  BY <1>1, <1>3 DEF IInv, TypeOK
<1>5. SetUp'
  BY <1>1, <1>2 DEF IInv, SetUp
<1>6. QED
  BY <1>3, <1>4, <1>5 DEF IInv

(* Nothing happens. *)
LEMMA StutterInv == IInv /\ UNCHANGED vars => IInv'
<1> SUFFICES ASSUME IInv, UNCHANGED vars PROVE IInv' OBVIOUS
<1>1. UNCHANGED <<configVars, argv, idx, fParamFileName, mpc, encoder, icam, opened>>
  BY DEF vars, mainVars
<1>2. UNCHANGED <<param, fCamDesc>>
  BY <1>1 DEF configVars, paramVars
<1>3. ConfigInv' /\ TypeOKConfig'
  BY <1>1, ConfigStutter DEF IInv, ConfigInv
<1>4. TypeOK'
  BY <1>1, <1>3 DEF IInv, TypeOK
<1>5. SetUp'
  BY <1>1, <1>2 DEF IInv, SetUp
<1>6. QED
  BY <1>3, <1>4, <1>5 DEF IInv

(***************************************************************************)
(* What was set stays set.                                                 *)
(***************************************************************************)

(* A legal value that has left the map is where it belongs. *)
Kept ==
  rpc \notin {"read", "unread"} =>
    \A i \in DOMAIN file \ DOMAIN param_list :
      Legal(FileKeys[i], file[i].n) => InForce(FileKeys[i], file[i].n)

(* What a general parameter changes. *)
LEMMA GeneralFields ==
  ASSUME NEW p \in Params, NEW name \in GeneralNames, NEW n \in Int
  PROVE  LET q == set_general(p, name, n)
         IN  /\ q.fSubPictWidth  = IF name = "subpict_width" THEN roundUp4(n) ELSE p.fSubPictWidth
             /\ q.fSubPictHeight = IF name = "subpict_height" THEN roundUp4(n) ELSE p.fSubPictHeight
             /\ q.fMosaicCol = IF name = "mosaic_col" THEN clamp(n, 1, MaxCol) ELSE p.fMosaicCol
             /\ q.fMosaicRow = IF name = "mosaic_row" THEN clamp(n, 1, MaxRow) ELSE p.fMosaicRow
             /\ q.fRTSPUDPPort  = IF name = "RTSP_port" THEN n ELSE p.fRTSPUDPPort
             /\ q.fRTSPHTTPPort = IF name = "HTTP_port" THEN n ELSE p.fRTSPHTTPPort
             /\ q.fEncName = p.fEncName
             /\ q.fOutFrameRate = p.fOutFrameRate
             /\ q.fOutBitRate = p.fOutBitRate
<1>1. CASE name = "subpict_width"
  BY <1>1 DEF set_general, Params
<1>2. CASE name = "subpict_height"
  BY <1>2 DEF set_general, Params
<1>3. CASE name = "mosaic_col"
  BY <1>3 DEF set_general, set_mosaic_col, Params
<1>4. CASE name = "mosaic_row"
  BY <1>4 DEF set_general, set_mosaic_row, Params
<1>5. CASE name = "RTSP_port"
  BY <1>5 DEF set_general, set_RTSP_port, Params
<1>6. CASE name = "HTTP_port"
  BY <1>6 DEF set_general, set_HTTP_port, Params
<1>7. QED
  BY <1>1, <1>2, <1>3, <1>4, <1>5, <1>6 DEF GeneralNames, SizeNames

(* What one of the encoder's does. *)
LEMMA EncoderFields ==
  ASSUME NEW p \in Params, NEW name \in EncoderNames, NEW n \in Int
  PROVE  LET q == set_encoder(p, name, n)
         IN  /\ q.fEncName      = IF name = "name" THEN n ELSE p.fEncName
             /\ q.fOutFrameRate = IF name = "frame_rate" THEN n ELSE p.fOutFrameRate
             /\ q.fOutBitRate   = IF name = "bit_rate" THEN n ELSE p.fOutBitRate
             /\ q.fSubPictWidth = p.fSubPictWidth /\ q.fSubPictHeight = p.fSubPictHeight
             /\ q.fMosaicCol = p.fMosaicCol /\ q.fMosaicRow = p.fMosaicRow
             /\ q.fRTSPUDPPort = p.fRTSPUDPPort /\ q.fRTSPHTTPPort = p.fRTSPHTTPPort
<1>1. CASE name = "name"
  BY <1>1 DEF set_encoder, Params
<1>2. CASE name = "frame_rate"
  BY <1>2 DEF set_encoder, Params
<1>3. CASE name = "bit_rate"
  BY <1>3 DEF set_encoder, Params
<1>4. QED
  BY <1>1, <1>2, <1>3 DEF EncoderNames

(* What a camera's does. *)
LEMMA CameraFields ==
  ASSUME NEW d \in CameraDesc, NEW name \in CameraNames, NEW n \in Int
  PROVE  LET e == set_cam(d, name, n)
         IN  /\ e.name         = IF name = "name" THEN n ELSE d.name
             /\ e.device_num   = IF name = "device_num" THEN n ELSE d.device_num
             /\ e.pin_name     = IF name = "pin_name" THEN n ELSE d.pin_name
             /\ e.pixel_format = IF name = "pixel_format" THEN n ELSE d.pixel_format
             /\ e.pict_label   = IF name = "pict_label" THEN n ELSE d.pict_label
             /\ e.rtbuffsize   = IF name = "buff_size"
                                   THEN IF n > 1 /\ n < 102400 THEN 102400 ELSE n ELSE d.rtbuffsize
             /\ e.frame_rate   = IF name = "frame_rate" THEN clamp(n, 10, 30) ELSE d.frame_rate
             /\ \A o \in OptionNames :
                  o \in e.options <=> IF o = name THEN n = 1 ELSE o \in d.options
<1>1. CASE name \in OptionNames
  <2>1. set_cam(d, name, n) = [d EXCEPT !.options = set_cam_option(@, name, n = 1)]
    BY <1>1 DEF set_cam, OptionNames
  <2>2. \A o \in OptionNames :
          o \in set_cam_option(d.options, name, n = 1)
            <=> IF o = name THEN n = 1 ELSE o \in d.options
    <3>1. CASE n = 1
      BY <3>1 DEF set_cam_option
    <3>2. CASE n # 1
      BY <3>2 DEF set_cam_option
    <3>3. QED
      BY <3>1, <3>2
  <2>3. QED
    BY <1>1, <2>1, <2>2 DEF CameraDesc, OptionNames
<1>2. CASE name = "frame_rate"
  BY <1>2 DEF set_cam, CameraDesc, OptionNames
<1>3. CASE name = "buff_size"
  BY <1>3 DEF set_cam, CameraDesc, OptionNames
<1>4. CASE name = "name"
  BY <1>4 DEF set_cam, CameraDesc, OptionNames
<1>5. CASE name = "device_num"
  BY <1>5 DEF set_cam, CameraDesc, OptionNames
<1>6. CASE name = "pin_name"
  BY <1>6 DEF set_cam, CameraDesc, OptionNames
<1>7. CASE name = "pixel_format"
  BY <1>7 DEF set_cam, CameraDesc, OptionNames
<1>8. CASE name = "pict_label"
  BY <1>8 DEF set_cam, CameraDesc, OptionNames
<1>9. QED
  BY <1>1, <1>2, <1>3, <1>4, <1>5, <1>6, <1>7, <1>8 DEF CameraNames

(* What it means that a general parameter is legal. *)
LEMMA LegalGeneral ==
  ASSUME NEW k, NEW n \in Int, k.sec = "top", Legal(k, n)
  PROVE  /\ k.name \in SizeNames => n % 4 = 0
         /\ k.name = "mosaic_col" => n \in 1 .. MaxCol
         /\ k.name = "mosaic_row" => n \in 1 .. MaxRow
<1>1. k.name \in SizeNames => n % 4 = 0
  BY DEF Legal
<1>2. k.name = "mosaic_col" => n \in 1 .. MaxCol
  BY KeyTyped DEF Legal
<1>3. k.name = "mosaic_row" => n \in 1 .. MaxRow
  BY KeyTyped DEF Legal
<1>4. QED
  BY <1>1, <1>2, <1>3

(* A legal size is taken as it is. *)
LEMMA LegalUnchanged == \A n \in Int : n % 4 = 0 => roundUp4(n) = n
BY DEF roundUp4

(* The names are distinct. *)
LEMMA Distinct ==
  ASSUME NEW i \in Keys, NEW j \in Keys, i # j, FileKeys[i].sec = FileKeys[j].sec,
         FileKeys[i].name = FileKeys[j].name
  PROVE  /\ FileKeys[i].sec \in {"cam", "cam?"}
         /\ FileKeys[i].cam # FileKeys[j].cam
BY NamesAssumption DEF Keys

(* If the parameter is set and the others are left, nothing is lost. *)
LEMMA KeptWhenErased ==
  ASSUME Kept, rpc \in {"general", "cameras"}, UNCHANGED <<rpc, file>>,
         DOMAIN param_list' = DOMAIN param_list \ {it},
         NEW this, NEW n, this = FileKeys[it], n = file[it].n,
         Legal(this, n) => InForce(this, n)',
         \A j \in DOMAIN file \ {it} : \A m :
           InForce(FileKeys[j], m) /\ Legal(FileKeys[j], m) => InForce(FileKeys[j], m)'
  PROVE  Kept'
<1> SUFFICES ASSUME NEW j \in DOMAIN file \ DOMAIN param_list', Legal(FileKeys[j], file[j].n)
             PROVE  InForce(FileKeys[j], file[j].n)'
  BY DEF Kept
<1>1. PICK m : m = file[j].n
  OBVIOUS
<1>2. InForce(FileKeys[j], m)'
  <2>1. CASE j = it
    <3>1. FileKeys[j] = this /\ m = n
      BY <1>1, <2>1
    <3>2. QED
      BY <1>1, <3>1
  <2>2. CASE j # it
    <3>1. InForce(FileKeys[j], file[j].n)
      BY <2>2 DEF Kept
    <3>2. QED
      BY <1>1, <2>2, <3>1
  <2>3. QED
    BY <2>1, <2>2
<1>3. QED
  BY <1>1, <1>2

(* The first loop sets a parameter and no other. *)
LEMMA GeneralApplyKept == ConfigInv /\ Kept /\ GeneralApply => Kept'
<1> SUFFICES ASSUME ConfigInv, Kept, GeneralApply PROVE Kept' OBVIOUS
<1>1. /\ rpc = "general" /\ it < End /\ erased(it) /\ UNCHANGED <<file, rpc, line, curr_it>>
      /\ IsGeneral(key) /\ Acceptable(key, value)
  BY DEF GeneralApply
<1>2. /\ it \in DOMAIN param_list /\ it \in DOMAIN file /\ it \in Keys
      /\ value = file[it] /\ value.n \in Int /\ key = FileKeys[it]
  BY <1>1, AtKey DEF key
<1>3. DOMAIN param_list' = DOMAIN param_list \ {it}
  BY <1>1, ErasedIs
<1>4. param \in Params /\ fCamDesc \in [Cams -> CameraDesc] /\ DOMAIN file \subseteq Keys
  BY DEF ConfigInv, TypeOKConfig
<1> PICK this : this = key
  OBVIOUS
<1> PICK n \in Int : n = value.n
  BY <1>2
<1> DEFINE k(j) == FileKeys[j]
<1>5. /\ Legal(this, n) => InForce(this, n)'
      /\ \A j \in DOMAIN file \ {it} : \A m :
           InForce(k(j), m) /\ Legal(k(j), m) => InForce(k(j), m)'
  <2>1. CASE this.sec = "top"
    <3>1. /\ this.name \in GeneralNames /\ param' = set_general(param, this.name, n)
          /\ UNCHANGED fEncParam
          /\ fCamDesc' = IF this.name \in SizeNames THEN set_cam_sizes(fCamDesc, param') ELSE fCamDesc
      BY <1>1, <2>1 DEF GeneralApply, IsGeneral
    <3>2. /\ param'.fSubPictWidth  = IF this.name = "subpict_width" THEN roundUp4(n)
                                       ELSE param.fSubPictWidth
          /\ param'.fSubPictHeight = IF this.name = "subpict_height" THEN roundUp4(n)
                                       ELSE param.fSubPictHeight
          /\ param'.fMosaicCol = IF this.name = "mosaic_col" THEN clamp(n, 1, MaxCol)
                                   ELSE param.fMosaicCol
          /\ param'.fMosaicRow = IF this.name = "mosaic_row" THEN clamp(n, 1, MaxRow)
                                   ELSE param.fMosaicRow
          /\ param'.fRTSPUDPPort  = IF this.name = "RTSP_port" THEN n ELSE param.fRTSPUDPPort
          /\ param'.fRTSPHTTPPort = IF this.name = "HTTP_port" THEN n ELSE param.fRTSPHTTPPort
          /\ param'.fEncName = param.fEncName
          /\ param'.fOutFrameRate = param.fOutFrameRate
          /\ param'.fOutBitRate = param.fOutBitRate
      BY <1>2, <1>4, <3>1, GeneralFields
    <3>3. \A c \in Cams :
            /\ fCamDesc'[c].name = fCamDesc[c].name
            /\ fCamDesc'[c].device_num = fCamDesc[c].device_num
            /\ fCamDesc'[c].pin_name = fCamDesc[c].pin_name
            /\ fCamDesc'[c].pixel_format = fCamDesc[c].pixel_format
            /\ fCamDesc'[c].pict_label = fCamDesc[c].pict_label
            /\ fCamDesc'[c].rtbuffsize = fCamDesc[c].rtbuffsize
            /\ fCamDesc'[c].frame_rate = fCamDesc[c].frame_rate
            /\ fCamDesc'[c].options = fCamDesc[c].options
      BY <1>4, <3>1 DEF set_cam_sizes, CameraDesc
    <3>4. ASSUME Legal(this, n) PROVE InForce(this, n)'
      <4>1. CASE this.name \in SizeNames
        <5>1. n % 4 = 0
          BY <2>1, <3>4, <4>1, LegalGeneral
        <5>2. QED
          BY <1>2, <2>1, <3>2, <4>1, <5>1, LegalUnchanged DEF InForce, SizeNames
      <4>2. CASE this.name = "mosaic_col"
        <5>1. n \in 1 .. MaxCol
          BY <2>1, <3>4, <4>2, LegalGeneral
        <5>2. clamp(n, 1, MaxCol) = n
          BY <1>2, <5>1, KeyTyped DEF clamp
        <5>3. QED
          BY <2>1, <3>2, <4>2, <5>2 DEF InForce
      <4>3. CASE this.name = "mosaic_row"
        <5>1. n \in 1 .. MaxRow
          BY <2>1, <3>4, <4>3, LegalGeneral
        <5>2. clamp(n, 1, MaxRow) = n
          BY <1>2, <5>1, KeyTyped DEF clamp
        <5>3. QED
          BY <2>1, <3>2, <4>3, <5>2 DEF InForce
      <4>4. CASE this.name \in {"RTSP_port", "HTTP_port"}
        BY <2>1, <3>2, <4>4 DEF InForce
      <4>5. QED
        BY <3>1, <4>1, <4>2, <4>3, <4>4 DEF GeneralNames
    <3>5. ASSUME NEW j \in DOMAIN file \ {it}, NEW m, InForce(k(j), m), Legal(k(j), m)
          PROVE  InForce(k(j), m)'
      <4>1. CASE k(j).sec = "top"
        <5>1. k(j).name # this.name
          BY <1>2, <1>4, <2>1, <4>1, Distinct
        <5>2. QED
          BY <3>2, <3>5, <4>1, <5>1 DEF InForce
      <4>2. CASE k(j).sec = "encoder"
        BY <3>1, <3>2, <3>5, <4>2 DEF InForce
      <4>3. CASE k(j).sec = "cam"
        <5>1. k(j).cam \in Cams
          BY <3>5, <4>3 DEF Legal
        <5>2. QED
          BY <3>3, <3>5, <4>3, <5>1 DEF InForce
      <4>4. QED
        BY <4>1, <4>2, <4>3 DEF InForce
    <3>6. QED
      BY <3>4, <3>5
  <2>2. CASE this.sec = "encoder" /\ this.name \in EncoderNames
    <3>1. param' = set_encoder(param, this.name, n) /\ UNCHANGED <<fEncParam, fCamDesc>>
      BY <2>2 DEF GeneralApply
    <3>2. /\ param'.fEncName      = IF this.name = "name" THEN n ELSE param.fEncName
          /\ param'.fOutFrameRate = IF this.name = "frame_rate" THEN n ELSE param.fOutFrameRate
          /\ param'.fOutBitRate   = IF this.name = "bit_rate" THEN n ELSE param.fOutBitRate
          /\ param'.fSubPictWidth = param.fSubPictWidth
          /\ param'.fSubPictHeight = param.fSubPictHeight
          /\ param'.fMosaicCol = param.fMosaicCol /\ param'.fMosaicRow = param.fMosaicRow
          /\ param'.fRTSPUDPPort = param.fRTSPUDPPort /\ param'.fRTSPHTTPPort = param.fRTSPHTTPPort
      BY <1>2, <1>4, <2>2, <3>1, EncoderFields
    <3>3. InForce(this, n)'
      BY <2>2, <3>2 DEF InForce
    <3>4. ASSUME NEW j \in DOMAIN file \ {it}, NEW m, InForce(k(j), m) PROVE InForce(k(j), m)'
      <4>1. CASE k(j).sec = "encoder"
        <5>1. k(j).name # this.name
          BY <1>2, <1>4, <2>2, <4>1, Distinct
        <5>2. QED
          BY <3>1, <3>2, <3>4, <4>1, <5>1 DEF InForce
      <4>2. CASE k(j).sec # "encoder"
        <5>1. CASE k(j).sec = "top"
          BY <3>2, <3>4, <5>1 DEF InForce
        <5>2. CASE k(j).sec = "cam"
          BY <3>1, <3>4, <5>2 DEF InForce
        <5>3. QED
          BY <4>2, <5>1, <5>2 DEF InForce
      <4>3. QED
        BY <4>1, <4>2
    <3>5. QED
      BY <3>3, <3>4
  <2>3. CASE this.sec = "encoder" /\ this.name \notin EncoderNames
    <3>1. /\ fEncParam' = set_encoder_param(fEncParam, this.name, n)
          /\ UNCHANGED <<param, fCamDesc>>
      BY <2>3 DEF GeneralApply
    <3>2. /\ [name |-> this.name, val |-> n] \in fEncParam'
          /\ \A name, m : name # this.name /\ [name |-> name, val |-> m] \in fEncParam
                            => [name |-> name, val |-> m] \in fEncParam'
      BY <3>1 DEF set_encoder_param
    <3>3. InForce(this, n)'
      BY <2>3, <3>2 DEF InForce, EncoderNames
    <3>4. ASSUME NEW j \in DOMAIN file \ {it}, NEW m, InForce(k(j), m) PROVE InForce(k(j), m)'
      <4>1. CASE k(j).sec = "encoder"
        <5>1. k(j).name # this.name
          BY <1>2, <1>4, <2>3, <4>1, Distinct
        <5>2. QED
          BY <3>1, <3>2, <3>4, <4>1, <5>1 DEF InForce
      <4>2. CASE k(j).sec # "encoder"
        <5>1. CASE k(j).sec = "top"
          BY <3>1, <3>4, <5>1 DEF InForce
        <5>2. CASE k(j).sec = "cam"
          BY <3>1, <3>4, <5>2 DEF InForce
        <5>3. QED
          BY <4>2, <5>1, <5>2 DEF InForce
      <4>3. QED
        BY <4>1, <4>2
    <3>5. QED
      BY <3>3, <3>4
  <2>4. QED
    BY <1>1, <2>1, <2>2, <2>3 DEF IsGeneral
<1>6. QED
  BY <1>1, <1>2, <1>3, <1>5, KeptWhenErased

(* So does the second. *)
LEMMA CameraApplyKept == ConfigInv /\ Kept /\ CameraApply => Kept'
<1> SUFFICES ASSUME ConfigInv, Kept, CameraApply PROVE Kept' OBVIOUS
<1>1. /\ rpc = "cameras" /\ it < End /\ erased(it) /\ UNCHANGED <<file, rpc, line, curr_it>>
      /\ IsCamera(key) /\ Acceptable(key, value) /\ UNCHANGED <<param, fEncParam>>
  BY DEF CameraApply
<1>2. /\ it \in DOMAIN param_list /\ it \in DOMAIN file /\ it \in Keys
      /\ value = file[it] /\ value.n \in Int /\ key = FileKeys[it]
  BY <1>1, AtKey DEF key
<1>3. DOMAIN param_list' = DOMAIN param_list \ {it}
  BY <1>1, ErasedIs
<1>4. fCamDesc \in [Cams -> CameraDesc] /\ DOMAIN file \subseteq Keys
  BY DEF ConfigInv, TypeOKConfig
<1>5. key.sec = "cam" /\ key.name \in CameraNames
  BY <1>1 DEF IsCamera, Acceptable
<1> PICK this : this = key
  OBVIOUS
<1> PICK n \in Int : n = value.n
  BY <1>2
<1> DEFINE k(j) == FileKeys[j]
<1>6. /\ Legal(this, n) => InForce(this, n)'
      /\ \A j \in DOMAIN file \ {it} : \A m :
           InForce(k(j), m) /\ Legal(k(j), m) => InForce(k(j), m)'
  <2>1. CASE this.cam \in Cams
    <3> DEFINE d == fCamDesc[this.cam]
               e == set_cam(d, this.name, n)
    <3>1. fCamDesc' = [fCamDesc EXCEPT ![this.cam] = e]
      BY <2>1 DEF CameraApply
    <3>2. fCamDesc'[this.cam] = e /\ \A c \in Cams \ {this.cam} : fCamDesc'[c] = fCamDesc[c]
      BY <1>4, <2>1, <3>1
    <3>3. /\ e.name         = IF this.name = "name" THEN n ELSE d.name
          /\ e.device_num   = IF this.name = "device_num" THEN n ELSE d.device_num
          /\ e.pin_name     = IF this.name = "pin_name" THEN n ELSE d.pin_name
          /\ e.pixel_format = IF this.name = "pixel_format" THEN n ELSE d.pixel_format
          /\ e.pict_label   = IF this.name = "pict_label" THEN n ELSE d.pict_label
          /\ e.rtbuffsize   = IF this.name = "buff_size"
                                THEN IF n > 1 /\ n < 102400 THEN 102400 ELSE n ELSE d.rtbuffsize
          /\ e.frame_rate   = IF this.name = "frame_rate" THEN clamp(n, 10, 30) ELSE d.frame_rate
          /\ \A o \in OptionNames :
               o \in e.options <=> IF o = this.name THEN n = 1 ELSE o \in d.options
      BY <1>2, <1>4, <1>5, <2>1, CameraFields
    <3> HIDE DEF e
    <3>4. ASSUME Legal(this, n) PROVE InForce(this, n)'
      <4>1. /\ this.name = "frame_rate" => n \in 10 .. 30
            /\ this.name = "buff_size" => n >= 102400
        BY <1>5, <3>4 DEF Legal
      <4>2. this.name = "frame_rate" => clamp(n, 10, 30) = n
        BY <1>2, <4>1 DEF clamp
      <4>3. this.name = "buff_size" => ~(n < 102400)
        BY <1>2, <4>1
      <4>4. QED
        BY <1>5, <3>2, <3>3, <4>2, <4>3 DEF InForce, OptionNames
    <3>5. ASSUME NEW j \in DOMAIN file \ {it}, NEW m, InForce(k(j), m), Legal(k(j), m)
          PROVE  InForce(k(j), m)'
      <4>1. CASE k(j).sec = "cam" /\ k(j).cam = this.cam
        <5>1. k(j).name # this.name
          BY <1>2, <1>4, <1>5, <4>1, Distinct
        <5>2. QED
          BY <3>2, <3>3, <3>5, <4>1, <5>1 DEF InForce
      <4>2. CASE k(j).sec = "cam" /\ k(j).cam # this.cam
        <5>1. k(j).cam \in Cams
          BY <3>5, <4>2 DEF Legal
        <5>2. QED
          BY <3>2, <3>5, <4>2, <5>1 DEF InForce
      <4>3. CASE k(j).sec # "cam"
        BY <1>1, <3>5, <4>3 DEF InForce
      <4>4. QED
        BY <4>1, <4>2, <4>3
    <3>6. QED
      BY <3>4, <3>5
  <2>2. CASE this.cam \notin Cams
    <3>1. UNCHANGED fCamDesc
      BY <2>2 DEF CameraApply
    <3>2. ~Legal(this, n)
      BY <1>5, <2>2 DEF Legal
    <3>3. ASSUME NEW j, NEW m, InForce(k(j), m) PROVE InForce(k(j), m)'
      <4>1. CASE k(j).sec \in {"top", "encoder"}
        BY <1>1, <3>3, <4>1 DEF InForce
      <4>2. CASE k(j).sec = "cam"
        BY <3>1, <3>3, <4>2 DEF InForce
      <4>3. QED
        BY <4>1, <4>2 DEF InForce
    <3>4. QED
      BY <3>2, <3>3
  <2>3. QED
    BY <2>1, <2>2
<1>7. QED
  BY <1>1, <1>2, <1>3, <1>6, KeptWhenErased

(* The rest of read_from_file sets nothing. *)
LEMMA ReadKept == ConfigInv /\ Kept /\ read_from_file => Kept'
<1> SUFFICES ASSUME ConfigInv, Kept, read_from_file PROVE Kept' OBVIOUS
<1>1. CASE UNCHANGED paramVars
  <2>1. ASSUME NEW k, NEW n, InForce(k, n) PROVE InForce(k, n)'
    <3>1. UNCHANGED <<param, fEncParam, fCamDesc>>
      BY <1>1 DEF paramVars
    <3>2. CASE k.sec = "top"
      BY <2>1, <3>1, <3>2 DEF InForce
    <3>3. CASE k.sec = "encoder"
      BY <2>1, <3>1, <3>3 DEF InForce
    <3>4. CASE k.sec = "cam"
      BY <2>1, <3>1, <3>4 DEF InForce
    <3>5. QED
      BY <3>2, <3>3, <3>4 DEF InForce
  <2>2. CASE read_param
    <3>1. rpc' \in {"read", "unread"} \/ DOMAIN file' \ DOMAIN param_list' = {}
      <4>1. CASE ReadLine
        BY <4>1 DEF ReadLine
      <4>2. CASE ReadMissing
        <5>1. rpc = "read" /\ line = 1 /\ UNCHANGED file
          BY <4>2 DEF ReadMissing
        <5>2. DOMAIN file \subseteq 1 .. 0
          BY <5>1 DEF ConfigInv, Leftover
        <5>3. QED
          BY <5>1, <5>2
      <4>3. CASE ReadFails
        BY <4>3 DEF ReadFails
      <4>4. CASE ReadDone
        BY <4>4 DEF ReadDone
      <4>5. QED
        BY <2>2, <4>1, <4>2, <4>3, <4>4 DEF read_param
    <3>2. QED
      BY <3>1 DEF Kept
  <2>3. CASE \/ GeneralError \/ GeneralSkip \/ GeneralEnd
             \/ CameraError \/ CameraSkip \/ CamerasEnd
    <3>1. UNCHANGED <<file, param_list>> /\ rpc \notin {"read", "unread"}
      BY <2>3 DEF GeneralError, GeneralSkip, GeneralEnd, CameraError, CameraSkip, CamerasEnd
    <3>2. QED
      BY <2>1, <3>1 DEF Kept
  <2>4. QED
    BY <2>2, <2>3, GeneralApplyKept, CameraApplyKept DEF read_from_file
<1>2. CASE paramVars' # paramVars
  <2>1. GeneralApply \/ CameraApply
    BY <1>2 DEF read_from_file, read_param, ReadLine, ReadMissing, ReadFails, ReadDone,
                GeneralError, GeneralSkip, GeneralEnd, CameraError, CameraSkip, CamerasEnd
  <2>2. QED
    BY <2>1, GeneralApplyKept, CameraApplyKept
<1>3. QED
  BY <1>1, <1>2

(* The edges that main marks are options of another name. *)
LEMMA OpenCameraKept == IInv /\ Kept /\ OpenCamera => Kept'
<1> SUFFICES ASSUME IInv, Kept, OpenCamera PROVE Kept' OBVIOUS
<1>1. /\ UNCHANGED <<rpc, file, param_list, param, fEncParam>>
      /\ fCamDesc' = [fCamDesc EXCEPT ![icam].options = @ \cup edges(icam)]
  BY DEF OpenCamera, readVars
<1>2. fCamDesc \in [Cams -> CameraDesc]
  BY DEF IInv, TypeOK, TypeOKConfig
<1>3. \A o \in OptionNames : o \notin edges(icam)
  BY DEF edges, OptionNames
<1>4. \A c \in Cams :
        /\ fCamDesc'[c].name = fCamDesc[c].name
        /\ fCamDesc'[c].device_num = fCamDesc[c].device_num
        /\ fCamDesc'[c].pin_name = fCamDesc[c].pin_name
        /\ fCamDesc'[c].pixel_format = fCamDesc[c].pixel_format
        /\ fCamDesc'[c].pict_label = fCamDesc[c].pict_label
        /\ fCamDesc'[c].rtbuffsize = fCamDesc[c].rtbuffsize
        /\ fCamDesc'[c].frame_rate = fCamDesc[c].frame_rate
        /\ \A o \in OptionNames : o \in fCamDesc'[c].options <=> o \in fCamDesc[c].options
  BY <1>1, <1>2, <1>3 DEF CameraDesc
<1>5. ASSUME NEW k, NEW n, InForce(k, n), Legal(k, n) PROVE InForce(k, n)'
  <2>1. CASE k.sec = "cam"
    <3>1. k.cam \in Cams
      BY <1>5, <2>1 DEF Legal
    <3>2. QED
      BY <1>4, <1>5, <2>1, <3>1 DEF InForce
  <2>2. CASE k.sec # "cam"
    BY <1>1, <1>5, <2>2 DEF InForce
  <2>3. QED
    BY <2>1, <2>2
<1>6. QED
  BY <1>1, <1>5 DEF Kept

(***************************************************************************)
(* The theorems.                                                           *)
(***************************************************************************)

(* The invariant of main and of the configuration it reads. *)
THEOREM Invariance == Spec => []IInv
<1>1. IInv /\ [Next]_vars => IInv'
  BY ArgsInv, ConfigInvKept, EncoderInv, OpenCameraInv, NewServerInv, StutterInv DEF Next
<1>2. QED
  BY InitInv, <1>1, PTL DEF Spec

(* Whatever the file says, the parameters stay in their ranges: the mosaic *)
(* within the arrays of cameras, no camera opened outside them.            *)
THEOREM TypeCorrect == Spec => []TypeOK
<1>1. IInv => TypeOK
  BY DEF IInv
<1>2. QED
  BY <1>1, Invariance, PTL

(* The number of pictures is that of the mosaic, the cameras' size the     *)
(* encoder's, after every setter.                                          *)
THEOREM AlwaysAgree == Spec => []ParamsAgree
<1>1. IInv => ParamsAgree
  BY DEF IInv, ConfigInv
<1>2. QED
  BY <1>1, Invariance, PTL

(* Though the loops of read_from_file erase from the map and start again,  *)
(* exactly the files of known, correct parameters are accepted.            *)
THEOREM AcceptedExactly == Spec => []AcceptedIffKnownAndCorrect
<1>1. ASSUME IInv PROVE AcceptedIffKnownAndCorrect
  <2>1. /\ Accounted /\ PassedBy /\ Result /\ DOMAIN param_list \subseteq DOMAIN file
        /\ DOMAIN param_list \subseteq Keys
        /\ \A i \in DOMAIN param_list : param_list[i] = file[i]
    BY <1>1 DEF IInv, ConfigInv, TypeOKConfig, Leftover
  <2>2. CASE rpc = "ok"
    <3>1. DOMAIN param_list = {}
      BY <2>1, <2>2 DEF Result
    <3>2. QED
      BY <2>1, <2>2, <3>1 DEF Accounted, AcceptedIffKnownAndCorrect, Correct
  <2>3. CASE rpc = "ignored"
    <3>1. PICK i \in DOMAIN param_list : ~IsGeneral(FileKeys[i]) /\ ~IsCamera(FileKeys[i])
      BY <2>1, <2>3, KeyTyped DEF Result, PassedBy
    <3>2. i \in DOMAIN file /\ ~Recognised(FileKeys[i])
      BY <2>1, <3>1 DEF Recognised
    <3>3. QED
      BY <2>3, <3>2 DEF AcceptedIffKnownAndCorrect
  <2>4. CASE rpc = "error"
    <3>1. it \in DOMAIN file /\ Recognised(FileKeys[it]) /\ ~Acceptable(FileKeys[it], file[it])
      BY <2>1, <2>4 DEF Result, key, value
    <3>2. QED
      BY <2>4, <3>1 DEF AcceptedIffKnownAndCorrect, Correct
  <2>5. QED
    BY <2>2, <2>3, <2>4 DEF AcceptedIffKnownAndCorrect
<1>2. QED
  BY <1>1, Invariance, PTL

(* Every legal value of an accepted file is in force: no later parameter   *)
(* undoes an earlier one, in the loops, the setters or main.               *)
THEOREM AllInForce == Spec => []EverythingInForce
<1>1. Init => Kept
  BY DEF Init, InitConfig, Kept
<1>2. IInv /\ Kept /\ [Next]_vars => Kept'
  <2> SUFFICES ASSUME IInv, Kept, [Next]_vars PROVE Kept' OBVIOUS
  <2>1. CASE ReadConfig
    BY <2>1, ReadKept DEF ReadConfig, IInv
  <2>2. CASE OpenCamera
    BY <2>2, OpenCameraKept
  <2>3. CASE UNCHANGED configVars
    BY <2>3 DEF configVars, readVars, paramVars, Kept, InForce
  <2>4. QED
    BY <2>1, <2>2, <2>3
       DEF Next, vars, ArgPassedOver, ArgTaken, ArgMissing, ArgsDone, ConfigRead, NewEncoder,
           SetupEncoder, SetEncoderParams, NewServer
<1>3. ASSUME IInv, Kept PROVE EverythingInForce
  <2> SUFFICES ASSUME rpc = "ok", NEW i \in DOMAIN file, Legal(FileKeys[i], file[i].n)
               PROVE  InForce(FileKeys[i], file[i].n)
    BY DEF EverythingInForce
  <2>1. i \in DOMAIN file \ DOMAIN param_list
    BY <1>3 DEF IInv, ConfigInv, Result
  <2>2. QED
    BY <1>3, <2>1 DEF Kept, IInv, ConfigInv, Result
<1>4. QED
  BY <1>1, <1>2, <1>3, Invariance, PTL DEF Spec

(* The message about a refused value names it, unless an option is wrong.  *)
THEOREM NamesCulprit == Spec => []ErrorNamesCulprit
<1>1. IInv => ErrorNamesCulprit
  BY DEF IInv, ConfigInv
<1>2. QED
  BY <1>1, Invariance, PTL

(* Every camera that goes on to the threads is configured, lies within the *)
(* mosaic and delivers pictures of the encoder's size.                     *)
THEOREM CamerasFit == Spec => []CamerasFitEncoder
<1>1. ASSUME IInv PROVE CamerasFitEncoder
  BY <1>1 DEF IInv, ConfigInv, ParamsAgree, TypeOK, SetUp, CamerasFitEncoder
<1>2. QED
  BY <1>1, Invariance, PTL
=============================================================================
