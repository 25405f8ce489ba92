----------------------------- MODULE MosaicLayout -----------------------------
(***************************************************************************)
(* Where pixels go.  CameraCapture::process_frame draws a dark border and  *)
(* a mark into a camera's picture; CameraH264Encoder::run draws the lines  *)
(* of the frame once and then copies pictures into the mosaic, line by     *)
(* line.  main decides which edges of a picture lie on the outside of the  *)
(* mosaic (edges).                                                         *)
(*                                                                         *)
(* FFmpeg stores a line of n pixels in linesize(n) bytes.  A plane is a    *)
(* function of indices; luma is plane 0, chroma, of half as many lines, is *)
(* plane 1.                                                                *)
(***************************************************************************)
EXTENDS Integers

CONSTANTS
  Align,            \* MEM_ALIGN
  Geometries        \* the mosaics: size of pictures, columns, rows, mark

(* Heights are multiples of four (GlobalParam::set_sub_pict_height); two   *)
(* suffices here.                                                          *)
ASSUME LayoutAssumption ==
  /\ Align \in Nat /\ Align > 0
  /\ \A g \in Geometries :
       /\ {g.w, g.h, g.ncol, g.nrow} \subseteq Nat
       /\ g.w > 0 /\ g.h > 0 /\ g.h % 2 = 0 /\ g.ncol > 0 /\ g.nrow > 0
       /\ {g.mark.w, g.mark.h} \subseteq Nat

VARIABLES
  geo,              \* the mosaic that is made
  pic,              \* fSrcFrame->data
  outside,          \* indices written outside the luma plane (history)
  frame_cnt         \* the pictures that were copied, frame_cnt[i] > 0

layoutVars == <<geo, pic, outside, frame_cnt>>

(* What a byte may be: of the pattern that setup_encoder fills the mosaic  *)
(* with, of a border, of a mark, or of a camera.                           *)
Dummy  == <<"dummy">>
Dark   == <<"dark">>
Marked == <<"mark">>
Pixel(i, pl, x, y) == <<"pixel", i, pl, x, y>>

Planes      == {0, 1}
Picts       == 0 .. geo.ncol * geo.nrow - 1
linesize(n) == ((n + Align - 1) \div Align) * Align
lines(pl)   == IF pl = 0 THEN geo.h ELSE geo.h \div 2
CL          == linesize(geo.w)                  \* frame->linesize
SL          == linesize(geo.ncol * geo.w)       \* fSrcFrame->linesize
Size(pl)    == geo.nrow * lines(pl) * SL

pict_col(i) == i % geo.ncol
pict_row(i) == i \div geo.ncol

(***************************************************************************)
(* main: the edges of picture i on the outside.  The last row is looked    *)
(* for with the column.                                                    *)
(***************************************************************************)

(* Faulty: the last column is looked for with the number of rows. *)
edges_Rows(i) ==
  {IF pict_col(i) = 0 THEN "First_col"
     ELSE IF pict_col(i) + 1 = geo.nrow THEN "Last_col" ELSE "none",
   IF pict_row(i) = 0 THEN "First_row"
     ELSE IF pict_col(i) + 1 = geo.nrow THEN "Last_row" ELSE "none"} \ {"none"}

edges(i) ==
  {IF pict_col(i) = 0 THEN "First_col"
     ELSE IF pict_col(i) + 1 = geo.ncol THEN "Last_col" ELSE "none",
   IF pict_row(i) = 0 THEN "First_row"
     ELSE IF pict_col(i) + 1 = geo.nrow THEN "Last_row" ELSE "none"} \ {"none"}

(***************************************************************************)
(* process_frame                                                           *)
(***************************************************************************)

(* The border at the edges that are not outside. *)
Border(i) ==
  {n \in 0 .. CL * geo.h - 1 :
     \/ n % CL = 0 /\ "First_col" \notin edges(i)
     \/ n % CL = CL - 1 /\ "Last_col" \notin edges(i)
     \/ n \div CL = 0 /\ "First_row" \notin edges(i)
     \/ n \div CL = geo.h - 1 /\ "Last_row" \notin edges(i)}

(* Faulty: the mark begins one line too low. *)
y_shift_Below(i) == IF "First_row" \in edges(i) THEN 1 ELSE geo.h - geo.mark.h

(* The corner of the spin wheel or of the time stamp, which does not begin *)
(* to the left of the picture.                                             *)
y_shift(i) == IF "First_row" \in edges(i) THEN 1 ELSE geo.h - geo.mark.h - 1
x_shift(i) ==
  LET right == CL - geo.mark.w - 1
  IN  IF "First_col" \in edges(i) \/ (geo.mark.kind = "text" /\ right < 1) THEN 1 ELSE right

Mark(i) == {(y_shift(i) + iy) * CL + x_shift(i) + ix :
              ix \in 0 .. geo.mark.w - 1, iy \in 0 .. geo.mark.h - 1}

(* The picture that a camera hands over. *)
picture(i) ==
  [pl \in Planes |-> [n \in 0 .. CL * lines(pl) - 1 |->
     IF pl = 0 /\ n \in Mark(i) THEN Marked
       ELSE IF pl = 0 /\ n \in Border(i) THEN Dark
       ELSE Pixel(i, pl, n % CL, n \div CL)]]

(***************************************************************************)
(* The mosaic.                                                             *)
(***************************************************************************)

(* setup_encoder fills it with a pattern. *)
InitLayout ==
  /\ geo \in Geometries
  /\ pic = [pl \in Planes |-> [n \in 0 .. Size(pl) - 1 |-> Dummy]]
  /\ outside = {}
  /\ frame_cnt = {}

(* Faulty: one line more than there are. *)
FrameLines_OneMore ==
  UNION {{(iy + pict_row(i) * geo.h) * SL : iy \in {y \in 0 .. geo.h : pict_col(i) # 0}}
    \cup {(iy + pict_row(i) * geo.h) * SL - 1 :
            iy \in {y \in 0 .. geo.h : pict_col(i) # geo.ncol - 1}} : i \in Picts}

(* "Draw the frame line": frame->linesize is still 0, so that every line   *)
(* is at the left of the mosaic or one byte before.                        *)
FrameLines ==
  UNION {{(iy + pict_row(i) * geo.h) * SL : iy \in {y \in 0 .. geo.h - 1 : pict_col(i) # 0}}
    \cup {(iy + pict_row(i) * geo.h) * SL - 1 :
            iy \in {y \in 0 .. geo.h - 1 : pict_col(i) # geo.ncol - 1}} : i \in Picts}

DrawFrameLines ==
  /\ pic' = [pic EXCEPT ![0] = [n \in DOMAIN @ |-> IF n \in FrameLines THEN Dark ELSE @[n]]]
  /\ outside' = outside \cup (FrameLines \ DOMAIN pic[0])
  /\ UNCHANGED <<geo, frame_cnt>>

(* Faulty: both planes are moved down by the height of the luma. *)
origin_LumaHeight(i, pl) == pict_row(i) * geo.h * SL + pict_col(i) * CL

(* Where line 0 of picture i begins in plane pl. *)
origin(i, pl) == pict_row(i) * lines(pl) * SL + pict_col(i) * CL

(* linesize bytes of each line are copied: byte n of the plane is then     *)
(* byte ix of line iy, if these are in the picture.                        *)
CopyTile(i) ==
  /\ pic' = [pl \in Planes |-> [n \in DOMAIN pic[pl] |->
       LET d  == n - origin(i, pl)
           iy == d \div SL
           ix == d % SL
       IN  IF d >= 0 /\ iy < lines(pl) /\ ix < CL
             THEN picture(i)[pl][iy * CL + ix] ELSE pic[pl][n]]]
  /\ outside' = outside \cup
       ((origin(i, 0) + (geo.h - 1) * SL .. origin(i, 0) + (geo.h - 1) * SL + CL - 1)
          \ DOMAIN pic[0])
  /\ frame_cnt' = frame_cnt \cup {i}
  /\ UNCHANGED geo

(***************************************************************************)
(* Properties.                                                             *)
(***************************************************************************)

Aligned  == geo.w % Align = 0
MarkFits == geo.mark.w + 2 <= geo.w /\ geo.mark.h + 2 <= geo.h

(* Byte x of line y of picture i, where it belongs in the mosaic.          *)
place(i, pl, x, y) == (pict_row(i) * lines(pl) + y) * SL + pict_col(i) * geo.w + x

Shows(i, pl, x, y) == pic[pl][place(i, pl, x, y)]

Shown(i) ==
  \A pl \in Planes : \A x \in 0 .. geo.w - 1, y \in 0 .. lines(pl) - 1 :
    Shows(i, pl, x, y) = picture(i)[pl][y * CL + x]

Untouched(i) ==
  \A pl \in Planes : \A x \in 0 .. geo.w - 1, y \in 0 .. lines(pl) - 1 :
    Shows(i, pl, x, y) \in {Dummy, Dark}

(* The type invariant. *)
TypeOKLayout ==
  /\ geo \in Geometries
  /\ DOMAIN pic = Planes
  /\ \A pl \in Planes : DOMAIN pic[pl] = 0 .. Size(pl) - 1
  /\ frame_cnt \subseteq Picts

(* Every picture that was copied is seen in its own place, in luma and     *)
(* chroma alike, and has left every other place alone, if the width is a   *)
(* multiple of the alignment.                                              *)
TilesInPlace ==
  Aligned => \A i \in Picts : IF i \in frame_cnt THEN Shown(i) ELSE Untouched(i)

(* Nothing is written outside the plane but for one byte before it by the  *)
(* frame lines, when there are several columns.                            *)
OneByteOutside == Aligned => outside \subseteq (IF geo.ncol > 1 THEN {-1} ELSE {})

(* "set frame" (CameraCapture.cpp:195): on the mosaic the left, right and  *)
(* upper edges of a picture are dark where another picture adjoins and     *)
(* only there, but for the right edge of a single column.  A mark that     *)
(* does not fit may cover an edge.                                         *)
FramedWhereTilesMeet ==
  Aligned /\ MarkFits =>
    \A i \in frame_cnt :
      /\ \A y \in 1 .. geo.h - 2 :
           /\ Shows(i, 0, 0, y) = Dark <=> pict_col(i) # 0
           /\ Shows(i, 0, geo.w - 1, y) = Dark
                <=> pict_col(i) # geo.ncol - 1 \/ geo.ncol = 1
      /\ \A x \in 1 .. geo.w - 2 : Shows(i, 0, x, 0) = Dark <=> pict_row(i) # 0

(* A mark that fits between the borders of a picture stays there.          *)
MarkInside ==
  Aligned /\ MarkFits =>
    \A i \in Picts : \A n \in Mark(i) : n % CL \in 1 .. CL - 2 /\ n \div CL \in 1 .. geo.h - 2
=============================================================================
