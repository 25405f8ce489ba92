-------------------------------- MODULE Config --------------------------------
(***************************************************************************)
(* The configuration: the static members of GlobalParam, their setters and *)
(* GlobalParam::read_from_file, which reads the parameter file into a map  *)
(* and goes through it twice, first for the general and the encoder's      *)
(* parameters, then for the cameras'.  A parameter is erased from the map  *)
(* once it is set, and the iterator starts again from the beginning.       *)
(*                                                                         *)
(* The map is sorted by name.  FileKeys lists the names a file may hold,   *)
(* in that order, with their section (top: outside all sections) and the   *)
(* values they may have; a value is what str2int and its like make of the  *)
(* text: whether it is acceptable, and the number (for a text, any number  *)
(* that stands for it).                                                    *)
(***************************************************************************)
EXTENDS Integers, Sequences, FiniteSets, Functions

CONSTANTS
  MaxCol, MaxRow,   \* MAX_SUBPICT_COL, MAX_SUBPICT_ROW
  FileKeys,         \* the names a file may hold, in the order of the map
  MaxLines          \* bound: parameters in a file

Values == [ok: BOOLEAN, n: Int]

ASSUME ConfigAssumption ==
  /\ MaxCol \in Nat /\ MaxCol >= 2
  /\ MaxRow \in Nat /\ MaxRow >= 2
  /\ FileKeys \in Seq([sec: {"top", "encoder", "cam", "cam?"}, cam: Nat,
                       name: STRING, vals: SUBSET Values])
  /\ MaxLines \in Nat

(* No name is listed twice. *)
ASSUME NamesAssumption ==
  \A i, j \in DOMAIN FileKeys :
    /\ FileKeys[i].sec = FileKeys[j].sec
    /\ FileKeys[i].name = FileKeys[j].name
    /\ FileKeys[i].sec \in {"cam", "cam?"} => FileKeys[i].cam = FileKeys[j].cam
    => i = j

Keys == DOMAIN FileKeys
End  == Len(FileKeys) + 1          \* param_list.end()
Cams == 0 .. MaxCol * MaxRow - 1

VARIABLES
  rpc,              \* where read_from_file is
  line,             \* the name read_param is at
  file,             \* all that read_param put in the map (history)
  param_list,       \* the map
  it,               \* the iterator of the loops
  curr_it,          \* the iterator that PARAM_ERROR reports
  param,            \* the general parameters
  fEncParam,        \* the encoder's parameters
  fCamDesc          \* the cameras' parameters

readVars  == <<rpc, line, file, param_list, it, curr_it>>
paramVars == <<param, fEncParam, fCamDesc>>
configVars == <<readVars, paramVars>>

NoParams == [i \in {} |-> 0]

InitConfig ==
  /\ rpc = "read"
  /\ line = 1
  /\ file = NoParams
  /\ param_list = NoParams
  /\ it = End
  /\ curr_it = End
  /\ param = [fSubPictWidth |-> 640, fSubPictHeight |-> 480,
              fMosaicCol |-> 2, fMosaicRow |-> 2, fSubPictNum |-> 4,
              fEncName |-> 0, fOutFrameRate |-> 15, fOutBitRate |-> 5242880,
              fRTSPUDPPort |-> 554, fRTSPHTTPPort |-> 80]
  /\ fEncParam = {}
  /\ fCamDesc = [c \in Cams |->
       [name |-> 0, device_num |-> 0, pin_name |-> 0, pixel_format |-> 0,
        pict_label |-> 0, rtbuffsize |-> 1228800, frame_rate |-> 20,
        options |-> {"time_stamp"}, width |-> 640, height |-> 480]]

(***************************************************************************)
(* The map.                                                                *)
(***************************************************************************)

(* The first position of the map from i on; End when there is none.        *)
from(list, i) ==
  CHOOSE k \in DOMAIN list \cup {End} :
    /\ k >= i
    /\ \A j \in DOMAIN list : j >= i => k <= j

begin(list)   == from(list, 1)
next(list, i) == from(list, i + 1)
erase(list, i) == Restrict(list, DOMAIN list \ {i})

(***************************************************************************)
(* The setters.                                                            *)
(***************************************************************************)

clamp(n, lo, hi) == IF n < lo THEN lo ELSE IF n > hi THEN hi ELSE n

(* (n + 3) & ~3 *)
roundUp4(n) == (n + 3) - ((n + 3) % 4)

set_mosaic_col(p, c) ==
  LET col == clamp(c, 1, MaxCol)
  IN  [p EXCEPT !.fMosaicCol = col, !.fSubPictNum = col * p.fMosaicRow]

set_mosaic_row(p, r) ==
  LET row == clamp(r, 1, MaxRow)
  IN  [p EXCEPT !.fMosaicRow = row, !.fSubPictNum = p.fMosaicCol * row]

(* A port that is out of range is replaced by the default, which the next  *)
(* statement overwrites.                                                   *)
set_RTSP_port(p, num) == [p EXCEPT !.fRTSPUDPPort = num]
set_HTTP_port(p, num) == [p EXCEPT !.fRTSPHTTPPort = num]

SizeNames    == {"subpict_width", "subpict_height"}
GeneralNames == SizeNames \cup {"mosaic_col", "mosaic_row", "RTSP_port", "HTTP_port"}

set_general(p, name, n) ==
  CASE name = "subpict_width"  -> [p EXCEPT !.fSubPictWidth = roundUp4(n)]
    [] name = "subpict_height" -> [p EXCEPT !.fSubPictHeight = roundUp4(n)]
    [] name = "mosaic_col"     -> set_mosaic_col(p, n)
    [] name = "mosaic_row"     -> set_mosaic_row(p, n)
    [] name = "RTSP_port"      -> set_RTSP_port(p, n)
    [] name = "HTTP_port"      -> set_HTTP_port(p, n)

(* Every camera takes over the size of the pictures. *)
set_cam_sizes(desc, p) ==
  [c \in Cams |-> [desc[c] EXCEPT !.width = p.fSubPictWidth, !.height = p.fSubPictHeight]]

EncoderNames == {"name", "frame_rate", "bit_rate"}

set_encoder(p, name, n) ==
  CASE name = "name"       -> [p EXCEPT !.fEncName = n]
    [] name = "frame_rate" -> [p EXCEPT !.fOutFrameRate = n]
    [] name = "bit_rate"   -> [p EXCEPT !.fOutBitRate = n]

(* Any other parameter of the encoder; a name is listed once.              *)
set_encoder_param(list, name, n) ==
  {p \in list : p.name # name} \cup {[name |-> name, val |-> n]}

(* Faulty: whatever the parameter, the options are rebuilt from it alone.  *)
set_cam_option_Only(options, name, on) == IF on THEN {name} ELSE {}

(* set_cam_option and clr_cam_option *)
set_cam_option(options, name, on) == IF on THEN options \cup {name} ELSE options \ {name}

OptionNames == {"spin_wheel", "time_stamp"}
CameraNames == OptionNames \cup
  {"name", "device_num", "pin_name", "pixel_format", "pict_label", "buff_size", "frame_rate"}

set_cam(desc, name, n) ==
  CASE name = "name"         -> [desc EXCEPT !.name = n]
    [] name = "device_num"   -> [desc EXCEPT !.device_num = n]
    [] name = "pin_name"     -> [desc EXCEPT !.pin_name = n]
    [] name = "pixel_format" -> [desc EXCEPT !.pixel_format = n]
    [] name = "pict_label"   -> [desc EXCEPT !.pict_label = n]
    [] name = "buff_size"    -> [desc EXCEPT !.rtbuffsize =
                                   IF n > 1 /\ n < 102400 THEN 102400 ELSE n]
    [] name = "frame_rate"   -> [desc EXCEPT !.frame_rate = clamp(n, 10, 30)]
    [] name \in OptionNames  -> [desc EXCEPT !.options = set_cam_option(@, name, n = 1)]

(***************************************************************************)
(* read_param: the file becomes a map.                                     *)
(***************************************************************************)

(* The file does not hold this name, or it does with one of its values.    *)
ReadLine ==
  /\ rpc = "read"
  /\ line < End
  /\ \/ UNCHANGED file
     \/ /\ Cardinality(DOMAIN file) < MaxLines
        /\ \E v \in FileKeys[line].vals : file' = [i \in DOMAIN file \cup {line} |->
                                                    IF i = line THEN v ELSE file[i]]
  /\ line' = line + 1
  /\ UNCHANGED <<rpc, param_list, it, curr_it, paramVars>>

(* A file that cannot be opened is an empty one, without an error. *)
ReadMissing ==
  /\ rpc = "read"
  /\ line = 1
  /\ line' = End
  /\ rpc' = "general"
  /\ UNCHANGED <<file, param_list, it, curr_it, paramVars>>

(* A syntax error: read_from_file fails. *)
ReadFails ==
  /\ rpc = "read"
  /\ rpc' = "unread"
  /\ UNCHANGED <<line, file, param_list, it, curr_it, paramVars>>

ReadDone ==
  /\ rpc = "read"
  /\ line = End
  /\ rpc' = "general"
  /\ param_list' = file
  /\ it' = begin(file)
  /\ curr_it' = begin(file)
  /\ UNCHANGED <<line, file, paramVars>>

(***************************************************************************)
(* read_from_file: the two loops.                                          *)
(***************************************************************************)

key   == FileKeys[it]
value == param_list[it]

(* What the first loop deals with, what the second one does: any name that *)
(* starts with cam_, unless what follows the camera's number is unknown.   *)
IsGeneral(k) == k.sec = "encoder" \/ (k.sec = "top" /\ k.name \in GeneralNames)
IsCamera(k)  == k.sec = "cam?" \/ (k.sec = "cam" /\ k.name \in CameraNames)

(* Neither loop accepts a value that does not convert, nor a camera name   *)
(* without a number (cam?).                                                *)
Acceptable(k, v) == v.ok /\ k.sec # "cam?"

(* Faulty: the iterator moves on from the beginning at once. *)
erased_Skips(i) ==
  /\ param_list' = erase(param_list, i)
  /\ it' = IF param_list' = NoParams THEN End ELSE next(param_list', begin(param_list'))

(* param_list.erase(it); it = param_list.begin() *)
erased(i) ==
  /\ param_list' = erase(param_list, i)
  /\ it' = begin(param_list')

(* One turn of the first loop: set and erase, *)
GeneralApply ==
  /\ rpc = "general"
  /\ it < End
  /\ IsGeneral(key) /\ Acceptable(key, value)
  /\ IF key.sec = "top"
       THEN /\ param' = set_general(param, key.name, value.n)
            /\ fCamDesc' = IF key.name \in SizeNames
                             THEN set_cam_sizes(fCamDesc, param') ELSE fCamDesc
            /\ UNCHANGED fEncParam
       ELSE /\ IF key.name \in EncoderNames
                 THEN /\ param' = set_encoder(param, key.name, value.n)
                      /\ UNCHANGED fEncParam
                 ELSE /\ fEncParam' = set_encoder_param(fEncParam, key.name, value.n)
                      /\ UNCHANGED param
            /\ UNCHANGED fCamDesc
  /\ erased(it)
  /\ UNCHANGED <<rpc, line, file, curr_it>>

(* Faulty: the iterator is not kept for the message. *)
GeneralError_NoCurr ==
  /\ rpc = "general"
  /\ it < End
  /\ IsGeneral(key) /\ ~Acceptable(key, value)
  /\ rpc' = "error"
  /\ UNCHANGED <<line, file, param_list, it, curr_it, paramVars>>

(* or give up, *)
GeneralError ==
  /\ rpc = "general"
  /\ it < End
  /\ IsGeneral(key) /\ ~Acceptable(key, value)
  /\ curr_it' = it
  /\ rpc' = "error"
  /\ UNCHANGED <<line, file, param_list, it, paramVars>>

(* or go on to the next one, *)
GeneralSkip ==
  /\ rpc = "general"
  /\ it < End
  /\ ~IsGeneral(key)
  /\ it' = next(param_list, it)
  /\ UNCHANGED <<rpc, line, file, param_list, curr_it, paramVars>>

(* until the end; then the second loop begins. *)
GeneralEnd ==
  /\ rpc = "general"
  /\ it = End
  /\ rpc' = "cameras"
  /\ it' = begin(param_list)
  /\ curr_it' = begin(param_list)
  /\ UNCHANGED <<line, file, param_list, paramVars>>

(* Faulty: a parameter of a camera that does not exist stays in the map.   *)
CameraApply_KeepsUnknown ==
  /\ rpc = "cameras"
  /\ it < End
  /\ IsCamera(key) /\ Acceptable(key, value)
  /\ IF key.cam \in Cams
       THEN /\ fCamDesc' = [fCamDesc EXCEPT ![key.cam] = set_cam(@, key.name, value.n)]
            /\ erased(it)
       ELSE /\ it' = begin(param_list)
            /\ UNCHANGED <<fCamDesc, param_list>>
  /\ UNCHANGED <<rpc, line, file, curr_it, param, fEncParam>>

(* The same for the cameras.  The setters refuse a number of a camera that *)
(* does not exist with a warning; the parameter counts as set.             *)
CameraApply ==
  /\ rpc = "cameras"
  /\ it < End
  /\ IsCamera(key) /\ Acceptable(key, value)
  /\ fCamDesc' = IF key.cam \in Cams
                   THEN [fCamDesc EXCEPT ![key.cam] = set_cam(@, key.name, value.n)]
                   ELSE fCamDesc
  /\ erased(it)
  /\ UNCHANGED <<rpc, line, file, curr_it, param, fEncParam>>

(* curr_it is not set when the value of an option is refused. *)
CameraError ==
  /\ rpc = "cameras"
  /\ it < End
  /\ IsCamera(key) /\ ~Acceptable(key, value)
  /\ curr_it' = IF key.sec = "cam" /\ key.name \in OptionNames THEN curr_it ELSE it
  /\ rpc' = "error"
  /\ UNCHANGED <<line, file, param_list, it, paramVars>>

CameraSkip ==
  /\ rpc = "cameras"
  /\ it < End
  /\ ~IsCamera(key)
  /\ it' = next(param_list, it)
  /\ UNCHANGED <<rpc, line, file, param_list, curr_it, paramVars>>

(* What is left over is listed as ignored, and the file refused. *)
CamerasEnd ==
  /\ rpc = "cameras"
  /\ it = End
  /\ rpc' = IF param_list = NoParams THEN "ok" ELSE "ignored"
  /\ UNCHANGED <<line, file, param_list, it, curr_it, paramVars>>

read_param == ReadLine \/ ReadMissing \/ ReadFails \/ ReadDone

read_from_file ==
  \/ read_param
  \/ GeneralApply \/ GeneralError \/ GeneralSkip \/ GeneralEnd
  \/ CameraApply \/ CameraError \/ CameraSkip \/ CamerasEnd

(***************************************************************************)
(* Properties.                                                             *)
(***************************************************************************)

PictOptions == OptionNames \cup {"First_col", "Last_col", "First_row", "Last_row"}

CameraDesc ==
  [name: Int, device_num: Int, pin_name: Int, pixel_format: Int, pict_label: Int,
   rtbuffsize: Int, frame_rate: 10 .. 30, options: SUBSET PictOptions, width: Int, height: Int]

Params ==
  [fSubPictWidth: Int, fSubPictHeight: Int,
   fMosaicCol: 1 .. MaxCol, fMosaicRow: 1 .. MaxRow, fSubPictNum: 1 .. MaxCol * MaxRow,
   fEncName: Int, fOutFrameRate: Int, fOutBitRate: Int,
   fRTSPUDPPort: Int, fRTSPHTTPPort: Int]

Options == [name: STRING, val: Int]

(* The type invariant: among others, the mosaic never has more columns and *)
(* rows than the arrays of cameras allow for, whatever the file says.      *)
TypeOKConfig ==
  /\ rpc \in {"read", "unread", "general", "cameras", "error", "ignored", "ok"}
  /\ line \in 1 .. End
  /\ DOMAIN file \subseteq Keys /\ \A i \in DOMAIN file : file[i] \in Values
  /\ DOMAIN param_list \subseteq DOMAIN file
  /\ it \in DOMAIN param_list \cup {End}
  /\ curr_it \in 1 .. End
  /\ param \in Params
  /\ fEncParam \subseteq Options
  /\ fCamDesc \in [Cams -> CameraDesc]

(* The parameters that are set one by one agree: the number of pictures is *)
(* that of the mosaic, and every camera is to deliver the size of picture  *)
(* that the encoder is told to expect.                                     *)
ParamsAgree ==
  /\ param.fSubPictNum = param.fMosaicCol * param.fMosaicRow
  /\ \A c \in Cams : /\ fCamDesc[c].width = param.fSubPictWidth
                      /\ fCamDesc[c].height = param.fSubPictHeight

(* A value in its legal range, of a parameter of something that exists.    *)
Legal(k, n) ==
  /\ k.sec = "top" =>
       /\ k.name \in SizeNames => n % 4 = 0
       /\ k.name = "mosaic_col" => n \in 1 .. MaxCol
       /\ k.name = "mosaic_row" => n \in 1 .. MaxRow
       /\ k.name \in {"RTSP_port", "HTTP_port"} => n \in 10 .. 65535
  /\ k.sec = "cam" =>
       /\ k.cam \in Cams
       /\ k.name = "frame_rate" => n \in 10 .. 30
       /\ k.name = "buff_size" => n >= 102400

(* What it means that such a value is in force. *)
InForce(k, n) ==
  /\ k.sec = "top" =>
       /\ k.name = "subpict_width"  => param.fSubPictWidth = n
       /\ k.name = "subpict_height" => param.fSubPictHeight = n
       /\ k.name = "mosaic_col"     => param.fMosaicCol = n
       /\ k.name = "mosaic_row"     => param.fMosaicRow = n
       /\ k.name = "RTSP_port"      => param.fRTSPUDPPort = n
       /\ k.name = "HTTP_port"      => param.fRTSPHTTPPort = n
  /\ k.sec = "encoder" =>
       /\ k.name = "name"           => param.fEncName = n
       /\ k.name = "frame_rate"     => param.fOutFrameRate = n
       /\ k.name = "bit_rate"       => param.fOutBitRate = n
       /\ k.name \notin EncoderNames => [name |-> k.name, val |-> n] \in fEncParam
  /\ k.sec = "cam" =>
       /\ k.name = "name"           => fCamDesc[k.cam].name = n
       /\ k.name = "device_num"     => fCamDesc[k.cam].device_num = n
       /\ k.name = "pin_name"       => fCamDesc[k.cam].pin_name = n
       /\ k.name = "pixel_format"   => fCamDesc[k.cam].pixel_format = n
       /\ k.name = "pict_label"     => fCamDesc[k.cam].pict_label = n
       /\ k.name = "buff_size"      => fCamDesc[k.cam].rtbuffsize = n
       /\ k.name = "frame_rate"     => fCamDesc[k.cam].frame_rate = n
       /\ k.name \in OptionNames    => (k.name \in fCamDesc[k.cam].options <=> n = 1)

(* Once a file is accepted, every legal value in it is in force: no        *)
(* parameter was passed over and none undone by a later one.               *)
EverythingInForce ==
  rpc = "ok" =>
    \A i \in DOMAIN file :
      Legal(FileKeys[i], file[i].n) => InForce(FileKeys[i], file[i].n)

Recognised(k) == IsGeneral(k) \/ IsCamera(k)

Correct(i) == Recognised(FileKeys[i]) => Acceptable(FileKeys[i], file[i])

(* A file is accepted when each of its parameters is known and its value   *)
(* converts, and in no other case.                                         *)
AcceptedIffKnownAndCorrect ==
  rpc \in {"ok", "error", "ignored"} =>
    (rpc = "ok" <=> \A i \in DOMAIN file : Recognised(FileKeys[i]) /\ Correct(i))

(* "invalid parameter value: '%s' = '%s'!" (GlobalParam.cpp:321) names the *)
(* parameter that was refused, out of the map as it is then, unless the    *)
(* file has an option whose value is refused: then curr_it is left behind. *)
ErrorNamesCulprit ==
  rpc = "error" =>
    \/ curr_it \in DOMAIN param_list /\ ~Acceptable(FileKeys[curr_it], param_list[curr_it])
    \/ \E i \in DOMAIN file : FileKeys[i].name \in OptionNames /\ ~file[i].ok
=============================================================================
