------------------------------- MODULE Startup -------------------------------
(***************************************************************************)
(* main.cpp from its arguments to the threads: it looks for the name of    *)
(* the configuration file, reads it (module Config), makes and sets up the *)
(* encoder, opens the cameras and makes the RTSP server.  What happens     *)
(* afterwards is in module Lifecycle.                                      *)
(***************************************************************************)
EXTENDS Config

CONSTANT ArgLists                  \* the arguments main may be called with

ASSUME StartupAssumption == \A args \in ArgLists : args \in Seq(STRING)

VARIABLES
  argv,             \* the arguments after the program's name
  idx,              \* the loop's position in them
  fParamFileName,   \* the file to read
  mpc,              \* where main is
  encoder,          \* the parts of H264Encoder that depend on the configuration
  icam,             \* the camera the loop is at
  opened            \* the cameras with an object, CamCapt[] # nullptr

mainVars == <<argv, idx, fParamFileName, mpc, encoder, icam, opened>>
vars     == <<configVars, mainVars>>

NoEncoder == [slots |-> 0, width |-> 0, height |-> 0, frameRate |-> 0, bitRate |-> 0,
              option |-> {}, openedWith |-> {}]

Init ==
  /\ InitConfig
  /\ argv \in ArgLists
  /\ idx = 1
  /\ fParamFileName = "config.txt"
  /\ mpc = "args"
  /\ encoder = NoEncoder
  /\ icam = 0
  /\ opened = {}

(***************************************************************************)
(* The arguments.  strcmp returns 0 for -l, which counts as false.         *)
(***************************************************************************)

strcmp(a, b) == IF a = b THEN 0 ELSE 1

ArgPassedOver ==
  /\ mpc = "args"
  /\ idx <= Len(argv)
  /\ strcmp(argv[idx], "-l") = 0
  /\ idx' = idx + 1
  /\ UNCHANGED <<configVars, argv, fParamFileName, mpc, encoder, icam, opened>>

ArgTaken ==
  /\ mpc = "args"
  /\ idx < Len(argv)
  /\ strcmp(argv[idx], "-l") # 0
  /\ fParamFileName' = argv[idx + 1]
  /\ idx' = idx + 2
  /\ UNCHANGED <<configVars, argv, mpc, encoder, icam, opened>>

(* The option lacks its value: cmd_usage, return -1 *)
ArgMissing ==
  /\ mpc = "args"
  /\ idx = Len(argv)
  /\ strcmp(argv[idx], "-l") # 0
  /\ mpc' = "usage"
  /\ UNCHANGED <<configVars, argv, idx, fParamFileName, encoder, icam, opened>>

ArgsDone ==
  /\ mpc = "args"
  /\ idx > Len(argv)
  /\ mpc' = "config"
  /\ UNCHANGED <<configVars, argv, idx, fParamFileName, encoder, icam, opened>>

(***************************************************************************)
(* The configuration.                                                      *)
(***************************************************************************)

ReadConfig == mpc = "config" /\ read_from_file /\ UNCHANGED mainVars

ConfigRead ==
  /\ mpc = "config"
  /\ rpc \in {"ok", "error", "ignored", "unread"}
  /\ mpc' = IF rpc = "ok" THEN "encoder" ELSE "refused"
  /\ UNCHANGED <<configVars, argv, idx, fParamFileName, encoder, icam, opened>>

(***************************************************************************)
(* The encoder.                                                            *)
(***************************************************************************)

(* The constructor, with its defaults of 2 columns and 2 rows. *)
NewEncoder ==
  /\ mpc = "encoder"
  /\ encoder' = [slots |-> 2 * 2, width |-> 640, height |-> 480,
                 frameRate |-> 15, bitRate |-> 5242880, option |-> {}, openedWith |-> {}]
  /\ mpc' = "setup"
  /\ UNCHANGED <<configVars, argv, idx, fParamFileName, icam, opened>>

(* Faulty: the size of the pictures is left at its default. *)
SetupEncoder_DefaultSize ==
  /\ mpc = "setup"
  /\ encoder' = [encoder EXCEPT
       !.frameRate = param.fOutFrameRate, !.bitRate = param.fOutBitRate,
       !.openedWith = encoder.option]
  /\ mpc' \in {"params", "finished"}
  /\ UNCHANGED <<configVars, argv, idx, fParamFileName, icam, opened>>

(* It is told the size of the pictures and the rates; setup_encoder opens  *)
(* the codec with the options the encoder has.  It may not get ready().    *)
SetupEncoder ==
  /\ mpc = "setup"
  /\ encoder' = [encoder EXCEPT
       !.width = param.fSubPictWidth, !.height = param.fSubPictHeight,
       !.frameRate = param.fOutFrameRate, !.bitRate = param.fOutBitRate,
       !.openedWith = encoder.option]
  /\ mpc' \in {"params", "finished"}
  /\ UNCHANGED <<configVars, argv, idx, fParamFileName, icam, opened>>

(* The loop that passes it the configured parameters. *)
SetEncoderParams ==
  /\ mpc = "params"
  /\ encoder' = [encoder EXCEPT !.option = fEncParam]
  /\ mpc' = "cameras"
  /\ UNCHANGED <<configVars, argv, idx, fParamFileName, icam, opened>>

(***************************************************************************)
(* The cameras.                                                            *)
(***************************************************************************)

(* The edges of the mosaic that picture i lies on.  The last row is looked *)
(* for with the column.                                                    *)
edges(i) ==
  LET icol == i % param.fMosaicCol
      irow == i \div param.fMosaicCol
  IN  {IF icol = 0 THEN "First_col"
         ELSE IF icol + 1 = param.fMosaicCol THEN "Last_col" ELSE "none",
       IF irow = 0 THEN "First_row"
         ELSE IF icol + 1 = param.fMosaicRow THEN "Last_row" ELSE "none"} \ {"none"}

(* A camera with a name is opened; it stays if it gets ready(). *)
OpenCamera ==
  /\ mpc = "cameras"
  /\ icam < param.fSubPictNum
  /\ fCamDesc' = [fCamDesc EXCEPT ![icam].options = @ \cup edges(icam)]
  /\ \/ UNCHANGED opened
     \/ fCamDesc[icam].name # 0 /\ opened' = opened \cup {icam}
  /\ icam' = icam + 1
  /\ UNCHANGED <<readVars, param, fEncParam, argv, idx, fParamFileName, mpc, encoder>>

(* Without a camera the program ends; else it makes the RTSP server. *)
NewServer ==
  /\ mpc = "cameras"
  /\ icam = param.fSubPictNum
  /\ mpc' = IF opened = {} THEN "finished" ELSE "threads"
  /\ UNCHANGED <<configVars, argv, idx, fParamFileName, encoder, icam, opened>>

Next ==
  \/ ArgPassedOver \/ ArgTaken \/ ArgMissing \/ ArgsDone
  \/ ReadConfig \/ ConfigRead
  \/ NewEncoder \/ SetupEncoder \/ SetEncoderParams \/ OpenCamera \/ NewServer

Spec == Init /\ [][Next]_vars

(* read_from_file is a sequential program: it goes on as long as it can.   *)
FairSpec == Spec /\ WF_vars(ReadConfig)

(***************************************************************************)
(* Properties.                                                             *)
(***************************************************************************)

(* The type invariant. *)
TypeOK ==
  /\ TypeOKConfig
  /\ argv \in ArgLists
  /\ idx \in 1 .. Len(argv) + 1
  /\ fParamFileName \in {"config.txt"} \cup {argv[i] : i \in DOMAIN argv}
  /\ mpc \in {"args", "usage", "config", "refused", "encoder", "setup", "params", "cameras",
              "threads", "finished"}
  /\ encoder \in [slots: Int, width: Int, height: Int, frameRate: Int, bitRate: Int,
                   option: SUBSET Options, openedWith: SUBSET Options]
  /\ icam \in 0 .. MaxCol * MaxRow
  /\ opened \subseteq Cams

(* When the threads start, every open camera is one that the configuration *)
(* names, within the mosaic, and delivers pictures of the size that the    *)
(* encoder copies (run() only warns about another size).                   *)
CamerasFitEncoder ==
  mpc = "threads" =>
    /\ opened # {}
    /\ \A c \in opened : /\ c < param.fSubPictNum
                         /\ fCamDesc[c].name # 0
                         /\ fCamDesc[c].width = encoder.width
                         /\ fCamDesc[c].height = encoder.height

(* "the column and row of the combined picture array" (config.txt:12) is   *)
(* what mosaic_col and mosaic_row set: each camera that is opened has a    *)
(* slot in the encoder's arrays, where receive_frame puts its frames.      *)
SlotForEveryCamera == \A c \in opened : c < encoder.slots

(* Reading the configuration ends, though its loops start again after      *)
(* every parameter.                                                        *)
ReadingEnds == mpc = "config" ~> rpc \in {"ok", "error", "ignored", "unread"}
=============================================================================
