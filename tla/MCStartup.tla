------------------------------ MODULE MCStartup ------------------------------
(* Arguments and configuration files for TLC; the names are in the order   *)
(* of the map.                                                             *)
EXTENDS Startup

good(S) == {[ok |-> TRUE, n |-> n] : n \in S}
bad     == {[ok |-> FALSE, n |-> 0]}

top(name, S)    == [sec |-> "top", cam |-> 0, name |-> name, vals |-> S]
enc(name, S)    == [sec |-> "encoder", cam |-> 0, name |-> name, vals |-> S]
cam(c, name, S) == [sec |-> "cam", cam |-> c, name |-> name, vals |-> S]

(* No argument, one that is passed over, one that is taken, one too few.   *)
Calls  == {<<>>, <<"-l", "a.txt">>, <<"x", "a.txt">>, <<"-l">>}
NoArgs == {<<>>}

(* Every name there is, with values below, in and above its range, and     *)
(* ones that do not convert.  cam_9 is one camera too many; cam_1.zoom and *)
(* zoom are not known.                                                     *)
SomeKeys == <<
  top("HTTP_port", good({8080}) \cup bad),
  top("RTSP_port", good({8554})),
  cam(0, "frame_rate", good({5, 25}) \cup bad),
  cam(0, "name", good({1})),
  cam(0, "spin_wheel", good({0, 1}) \cup bad),
  cam(0, "time_stamp", good({0})),
  cam(1, "buff_size", good({2000, 204800})),
  cam(1, "device_num", good({1}) \cup bad),
  cam(1, "name", good({2})),
  cam(1, "pict_label", good({2})),
  cam(1, "pin_name", good({3})),
  cam(1, "pixel_format", good({4})),
  cam(1, "zoom", good({1})),
  cam(5, "name", good({3})),
  cam(9, "buff_size", good({2000})),
  [sec |-> "cam?", cam |-> 0, name |-> "name", vals |-> good({1})],
  enc("bit_rate", good({2000000})),
  enc("frame_rate", good({25}) \cup bad),
  enc("name", good({7})),
  enc("preset", good({1})),
  top("mosaic_col", good({0, 1, 3, 5})),
  top("mosaic_row", good({1, 3}) \cup bad),
  top("subpict_height", good({240})),
  top("subpict_width", good({317})),
  top("zoom", good({1})) >>

(* A mosaic wider than the default one, with a camera at its far end. *)
WideKeys == << cam(4, "name", good({1})), top("mosaic_col", good({3})) >>
=============================================================================
