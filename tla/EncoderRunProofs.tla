--------------------------- MODULE EncoderRunProofs ---------------------------
EXTENDS EncoderRun, TLAPS

(***************************************************************************)
(* Arithmetic: an index of a plane determines its line and its column.     *)
(***************************************************************************)

(* A number has one quotient and one remainder. *)
LEMMA Unique ==
  ASSUME NEW S \in Nat, NEW p \in Int, NEW q \in Int, NEW a \in 0 .. S - 1, NEW b \in 0 .. S - 1,
         p * S + a = q * S + b
  PROVE  p = q /\ a = b
<1>1. ASSUME p < q PROVE FALSE
  <2>1. q - p >= 1 BY <1>1
  <2>2. (q - p) * S >= S BY <2>1
  <2>3. (q - p) * S = q * S - p * S OBVIOUS
  <2>4. QED BY <2>2, <2>3
<1>2. ASSUME q < p PROVE FALSE
  <2>1. p - q >= 1 BY <1>2
  <2>2. (p - q) * S >= S BY <2>1
  <2>3. (p - q) * S = p * S - q * S OBVIOUS
  <2>4. QED BY <2>2, <2>3
<1>3. p = q BY <1>1, <1>2
<1>4. QED BY <1>3

(* Division of a natural number. *)
LEMMA Divided ==
  ASSUME NEW n \in Int, NEW S \in Nat, S > 0
  PROVE  /\ n \div S \in Int /\ n % S \in 0 .. S - 1
         /\ n = (n \div S) * S + (n % S)
         /\ n >= 0 => n \div S >= 0
OBVIOUS

(* Quotient and remainder of a number that is given as one. *)
LEMMA DivMod ==
  ASSUME NEW S \in Nat, S > 0, NEW q \in Int, NEW a \in 0 .. S - 1
  PROVE  (q * S + a) \div S = q /\ (q * S + a) % S = a
<1> DEFINE n == q * S + a
<1>1. n \in Int OBVIOUS
<1>2. /\ n \div S \in Int /\ n % S \in 0 .. S - 1
      /\ n = (n \div S) * S + (n % S)
  BY <1>1, Divided
<1>3. QED BY <1>2, Unique

(* Lines below line r of l lines each begin at r * l. *)
LEMMA Times ==
  ASSUME NEW r \in Nat, NEW n \in Nat, NEW l \in Nat, r < n
  PROVE  r * l \in Nat /\ r * l + l <= n * l
<1>1. (n - r) * l >= l OBVIOUS
<1>2. (n - r) * l = n * l - r * l OBVIOUS
<1>3. QED BY <1>1, <1>2

(* A line of a multiple of the alignment is stored without padding. *)
LEMMA NoPadding ==
  ASSUME NEW n \in Nat, n % Align = 0
  PROVE  linesize(n) = n
<1>1. Align \in Nat /\ Align > 0 BY LayoutAssumption
<1>2. n \div Align \in Int /\ n = (n \div Align) * Align BY <1>1, Divided
<1>3. n + Align - 1 = (n \div Align) * Align + (Align - 1) BY <1>1, <1>2
<1>4. (n + Align - 1) \div Align = n \div Align BY <1>1, <1>2, <1>3, DivMod
<1>5. QED BY <1>2, <1>4 DEF linesize

(***************************************************************************)
(* Geometry.                                                               *)
(***************************************************************************)

(* The sizes of a mosaic. *)
LEMMA Sizes ==
  ASSUME geo \in Geometries
  PROVE  /\ geo.w \in Nat /\ geo.w > 0 /\ geo.h \in Nat /\ geo.h > 0
         /\ geo.ncol \in Nat /\ geo.ncol > 0 /\ geo.nrow \in Nat /\ geo.nrow > 0
         /\ \A pl \in Planes : lines(pl) \in Nat
         /\ lines(0) = geo.h
BY LayoutAssumption DEF lines, Planes

(* If the width is aligned, pictures adjoin in a line of the mosaic. *)
LEMMA Adjoin ==
  ASSUME geo \in Geometries, Aligned
  PROVE  /\ CL = geo.w /\ SL = geo.ncol * geo.w
         /\ SL \in Nat /\ SL > 0
<1>1. /\ geo.w \in Nat /\ geo.w > 0 /\ geo.ncol \in Nat /\ geo.ncol > 0
      /\ Align \in Nat /\ Align > 0
  BY Sizes, LayoutAssumption
<1>2. CL = geo.w BY <1>1, NoPadding DEF Aligned, CL
<1>3. geo.ncol * geo.w \in Nat /\ geo.ncol * geo.w > 0 BY <1>1
<1> DEFINE k == geo.w \div Align
<1>4. k \in Int /\ geo.w = k * Align + 0 BY <1>1, Divided DEF Aligned
<1>5. geo.ncol * k \in Int /\ geo.ncol * geo.w = (geo.ncol * k) * Align + 0 BY <1>1, <1>4
<1>6. (geo.ncol * geo.w) % Align = 0
  <2> DEFINE n == geo.ncol * geo.w
             q == geo.ncol * k
  <2>1. q \in Int /\ n = q * Align + 0 BY <1>5
  <2>2. 0 \in 0 .. Align - 1 BY <1>1
  <2> HIDE DEF n, q
  <2>3. n % Align = 0 BY <1>1, <2>1, <2>2, DivMod
  <2>4. QED BY <2>3 DEF n
<1>7. SL = geo.ncol * geo.w BY <1>3, <1>6, NoPadding DEF SL
<1>8. QED BY <1>2, <1>3, <1>7

(* The column and the row of a picture. *)
LEMMA Positions ==
  ASSUME geo \in Geometries, NEW i \in Picts
  PROVE  /\ pict_col(i) \in 0 .. geo.ncol - 1 /\ pict_row(i) \in 0 .. geo.nrow - 1
         /\ i = pict_row(i) * geo.ncol + pict_col(i)
<1>1. /\ geo.ncol \in Nat /\ geo.ncol > 0 /\ geo.nrow \in Nat /\ geo.nrow > 0
  BY Sizes
<1>2. i \in Int /\ i >= 0 /\ i < geo.ncol * geo.nrow BY <1>1 DEF Picts
<1> DEFINE r == pict_row(i)
           c == pict_col(i)
<1>3. r \in Int /\ c \in 0 .. geo.ncol - 1 /\ i = r * geo.ncol + c /\ r >= 0
  BY <1>1, <1>2, Divided DEF pict_row, pict_col
<1>4. ASSUME r >= geo.nrow PROVE FALSE
  <2>1. (r - geo.nrow) * geo.ncol >= 0 BY <1>1, <1>3, <1>4
  <2>2. (r - geo.nrow) * geo.ncol = r * geo.ncol - geo.ncol * geo.nrow BY <1>1, <1>3
  <2>3. QED BY <1>1, <1>2, <1>3, <2>1, <2>2
<1>5. QED BY <1>1, <1>3, <1>4

(* Line y of picture i and its bytes are in the mosaic. *)
LEMMA Within ==
  ASSUME geo \in Geometries, Aligned, NEW i \in Picts, NEW pl \in Planes,
         NEW x \in 0 .. geo.w - 1, NEW y \in 0 .. lines(pl) - 1
  PROVE  /\ pict_row(i) * lines(pl) + y \in Nat
         /\ pict_row(i) * lines(pl) + y < geo.nrow * lines(pl)
         /\ pict_col(i) * geo.w + x \in 0 .. SL - 1
         /\ place(i, pl, x, y) \in 0 .. Size(pl) - 1
<1> DEFINE L == lines(pl)
           r == pict_row(i)
           c == pict_col(i)
           line == r * L + y
           col == c * geo.w + x
           N == geo.nrow * L
           S == SL
<1>1. /\ geo.w \in Nat /\ geo.ncol \in Nat /\ geo.nrow \in Nat /\ L \in Nat
      /\ r \in 0 .. geo.nrow - 1 /\ c \in 0 .. geo.ncol - 1
  BY Sizes, Positions
<1>2. S = geo.ncol * geo.w /\ S \in Nat BY Adjoin
<1>3. line \in Nat /\ line < N /\ N \in Nat
  <2>1. r * L \in Nat /\ r * L + L <= N BY <1>1, Times
  <2>2. N \in Nat /\ y \in 0 .. L - 1 BY <1>1
  <2> HIDE DEF L, r, N
  <2>3. QED BY <2>1, <2>2, <1>1
<1>4. col \in 0 .. S - 1
  <2>1. c * geo.w \in Nat /\ c * geo.w + geo.w <= S BY <1>1, <1>2, Times
  <2> HIDE DEF c, S
  <2>2. QED BY <2>1, <1>1, <1>2
<1>5. line * S + col \in 0 .. (N * S) - 1
  <2> HIDE DEF line, col, N, S
  <2>1. line * S \in Nat /\ line * S + S <= N * S BY <1>2, <1>3, Times
  <2>2. QED BY <2>1, <1>2, <1>3, <1>4
<1>6. place(i, pl, x, y) = line * S + col
  <2>1. line * S \in Int BY <1>2, <1>3
  <2>2. c * geo.w \in Int BY <1>1
  <2> HIDE DEF line, S
  <2>3. line * S + c * geo.w + x = line * S + (c * geo.w + x) BY <2>1, <2>2
  <2>4. QED BY <2>3 DEF place, line, S
<1>7. Size(pl) = N * S BY DEF Size
<1>8. QED BY <1>3, <1>4, <1>5, <1>6, <1>7

(* Where byte x of line y of picture j lies for the copy of picture i.     *)
LEMMA Apart ==
  ASSUME geo \in Geometries, Aligned, NEW i \in Picts, NEW j \in Picts, NEW pl \in Planes,
         NEW x \in 0 .. geo.w - 1, NEW y \in 0 .. lines(pl) - 1,
         NEW d, d = place(j, pl, x, y) - origin(i, pl)
  PROVE  /\ i = j => d >= 0 /\ d \div SL = y /\ d % SL = x
         /\ d >= 0 /\ d \div SL < lines(pl) /\ d % SL < CL => i = j
<1> DEFINE L == lines(pl)
           S == SL
           ri == pict_row(i)
           ci == pict_col(i)
           rj == pict_row(j)
           cj == pict_col(j)
<1>1. /\ geo.w \in Nat /\ geo.w > 0 /\ geo.ncol \in Nat /\ geo.nrow \in Nat /\ L \in Nat
      /\ ri \in 0 .. geo.nrow - 1 /\ ci \in 0 .. geo.ncol - 1
      /\ rj \in 0 .. geo.nrow - 1 /\ cj \in 0 .. geo.ncol - 1
      /\ i = ri * geo.ncol + ci /\ j = rj * geo.ncol + cj
  BY Sizes, Positions
<1>2. CL = geo.w /\ S = geo.ncol * geo.w /\ S \in Nat /\ S > 0 BY Adjoin
<1>3. place(j, pl, x, y) = (rj * L + y) * S + (cj * geo.w + x)
  <2>1. (rj * L + y) * S \in Int /\ cj * geo.w \in Int BY <1>1, <1>2
  <2>2. place(j, pl, x, y) = (rj * L + y) * S + cj * geo.w + x BY DEF place
  <2> HIDE DEF L, S, rj, cj
  <2>3. QED BY <2>1, <2>2
<1>4. origin(i, pl) = (ri * L) * S + ci * geo.w BY <1>2 DEF origin
<1>5. ri * L \in Int /\ (ri * L) * S \in Int /\ ci * geo.w \in Int BY <1>1, <1>2
<1>6. d \in Int
  <2>1. place(j, pl, x, y) \in Int BY Within
  <2>2. origin(i, pl) \in Int BY <1>4, <1>5
  <2>3. QED BY <2>1, <2>2
<1>7. ASSUME i = j PROVE d >= 0 /\ d \div SL = y /\ d % SL = x
  <2>1. (ri * L + y) * S = (ri * L) * S + y * S /\ y * S \in Nat BY <1>1, <1>2, <1>5
  <2>2. d = y * S + x
    <3>1. d = ((ri * L) * S + y * S + (ci * geo.w + x)) - ((ri * L) * S + ci * geo.w)
      BY <1>3, <1>4, <1>7, <2>1
    <3> HIDE DEF L, S, ri, ci
    <3>2. QED BY <3>1, <1>5, <2>1
  <2>3. x \in 0 .. S - 1
    <3>1. geo.ncol > 0 BY <1>1
    <3>2. S >= geo.w BY <1>1, <1>2, <3>1
    <3>3. QED BY <1>1, <1>2, <3>2
  <2>0. y \in Int BY <1>1
  <2>4. d \div S = y /\ d % S = x
    <3>1. ASSUME NEW s \in Nat, s > 0, x \in 0 .. s - 1
          PROVE  (y * s + x) \div s = y /\ (y * s + x) % s = x
      BY <2>0, <3>1, DivMod
    <3> HIDE DEF S
    <3>2. QED BY <1>2, <2>2, <2>3, <3>1
  <2>5. QED BY <2>1, <2>2, <2>4 DEF S
<1>8. ASSUME d >= 0, d \div SL < L, d % SL < CL PROVE i = j
  <2> DEFINE iy == d \div S
             ix == d % S
  <2>1. iy \in Nat /\ iy < L /\ ix \in 0 .. geo.w - 1 /\ d = iy * S + ix
    <3>1. /\ iy \in Int /\ ix \in 0 .. S - 1 /\ d = iy * S + ix /\ iy >= 0
      <4>1. ASSUME NEW s \in Nat, s > 0
            PROVE  /\ d \div s \in Int /\ d % s \in 0 .. s - 1
                   /\ d = (d \div s) * s + (d % s) /\ d \div s >= 0
        BY <1>6, <1>8, <4>1, Divided
      <4> HIDE DEF S
      <4>2. /\ d \div S \in Int /\ d % S \in 0 .. S - 1
            /\ d = (d \div S) * S + (d % S) /\ d \div S >= 0
        BY <1>2, <4>1
      <4>3. QED BY <4>2
    <3>2. iy < L /\ ix < geo.w BY <1>2, <1>8
    <3> HIDE DEF S, L, iy, ix
    <3>3. QED BY <1>1, <3>1, <3>2
  <2>2. iy \in 0 .. L - 1 /\ L \in Int BY <2>1, <1>1
  <2> HIDE DEF iy, ix
  <2>3. place(j, pl, x, y) = place(i, pl, ix, iy)
    <3>1. place(i, pl, ix, iy) = (ri * L + iy) * S + (ci * geo.w + ix)
      <4>1. (ri * L + iy) * S \in Int /\ ci * geo.w \in Int BY <1>1, <1>2, <2>1
      <4>2. place(i, pl, ix, iy) = (ri * L + iy) * S + ci * geo.w + ix BY DEF place
      <4> HIDE DEF L, S, ri, ci
      <4>3. QED BY <4>1, <4>2, <2>1
    <3>2. (ri * L + iy) * S = (ri * L) * S + iy * S /\ iy * S \in Int
      BY <1>1, <1>2, <1>5, <2>1
    <3>3. place(i, pl, ix, iy) = origin(i, pl) + d
      <4> HIDE DEF L, S, ri, ci
      <4>1. QED BY <3>1, <3>2, <1>4, <1>5, <2>1
    <3>4. place(j, pl, x, y) \in Int /\ origin(i, pl) \in Int BY Within, <1>4, <1>5
    <3>5. QED BY <3>3, <3>4
  <2>4. /\ rj * L + y \in Nat /\ cj * geo.w + x \in 0 .. S - 1
        /\ ri * L + iy \in Nat /\ ci * geo.w + ix \in 0 .. S - 1
    BY <2>1, <2>2, Within
  <2>5. place(i, pl, ix, iy) = (ri * L + iy) * S + (ci * geo.w + ix)
    <3>1. (ri * L + iy) * S \in Int /\ ci * geo.w \in Int BY <1>1, <1>2, <2>1
    <3>2. place(i, pl, ix, iy) = (ri * L + iy) * S + ci * geo.w + ix BY DEF place
    <3> HIDE DEF L, S, ri, ci
    <3>3. QED BY <3>1, <3>2, <2>1
  <2>6. rj * L + y = ri * L + iy /\ cj * geo.w + x = ci * geo.w + ix
    <3> DEFINE p == rj * L + y
               q == ri * L + iy
               a == cj * geo.w + x
               b == ci * geo.w + ix
    <3>1. p * S + a = q * S + b BY <1>3, <2>3, <2>5
    <3>2. p \in Int /\ q \in Int /\ a \in 0 .. S - 1 /\ b \in 0 .. S - 1 BY <2>4
    <3> HIDE DEF p, q, a, b, S
    <3>3. p = q /\ a = b BY <1>2, <3>1, <3>2, Unique
    <3>4. QED BY <3>3 DEF p, q, a, b
  <2>7. rj = ri
    <3>1. y \in 0 .. L - 1 BY <1>1
    <3>2. ri \in Int /\ rj \in Int BY <1>1
    <3> HIDE DEF L, S, ri, ci, rj, cj
    <3>3. QED BY <1>1, <2>2, <2>6, <3>1, <3>2, Unique
  <2>8. cj = ci
    <3> HIDE DEF L, S, ri, ci, rj, cj
    <3>1. QED BY <1>1, <2>1, <2>6, Unique
  <2>9. QED BY <1>1, <2>7, <2>8
<1>9. QED BY <1>7, <1>8

(***************************************************************************)
(* The inductive invariant.                                                *)
(***************************************************************************)

(* Until the lines are drawn the mosaic is the pattern. *)
NothingYet ==
  epc = "lines" =>
    /\ frame_cnt = {}
    /\ \A pl \in Planes : \A n \in 0 .. Size(pl) - 1 : pic[pl][n] = Dummy

(* Two pictures without time between are measured at the same time. *)
SameTime == gap = 0 => clk_pre = clock(now)

IInv == TypeOK /\ NothingYet /\ TilesInPlace /\ OneByteOutside
        /\ SameTime /\ NeverHeldBack /\ NeverSpins

(* What a turn sleeps is less than the interval. *)
LEMMA Nap ==
  ASSUME NEW c \in Int, clk_pre \in Int
  PROVE  /\ nap(c) \in 0 .. fFrameIntvl - 1
         /\ c = clk_pre => nap(c) = 1
BY PacingAssumption DEF nap

(* The initial states. *)
LEMMA InitInv == Init => IInv
<1> SUFFICES ASSUME Init PROVE IInv OBVIOUS
<1> USE DEF Init, InitLayout, InitPacing
<1>1. TypeOK
  <2>1. TypeOKLayout BY DEF TypeOKLayout
  <2>2. TypeOKPacing BY PacingAssumption DEF TypeOKPacing, clock
  <2>3. 0 \in 0 .. geo.ncol * geo.nrow BY Sizes
  <2>4. QED BY <2>1, <2>2, <2>3 DEF TypeOK
<1>2. NothingYet BY DEF NothingYet
<1>3. TilesInPlace
  <2> SUFFICES ASSUME Aligned, NEW i \in Picts PROVE Untouched(i) BY DEF TilesInPlace
  <2> SUFFICES ASSUME NEW pl \in Planes, NEW x \in 0 .. geo.w - 1, NEW y \in 0 .. lines(pl) - 1
               PROVE  Shows(i, pl, x, y) = Dummy
    BY DEF Untouched
  <2>1. place(i, pl, x, y) \in 0 .. Size(pl) - 1 BY Within
  <2>2. QED BY <2>1 DEF Shows
<1>4. OneByteOutside BY DEF OneByteOutside
<1>5. SameTime /\ NeverHeldBack /\ NeverSpins
  BY PacingAssumption DEF SameTime, NeverHeldBack, NeverSpins
<1>6. QED BY <1>1, <1>2, <1>3, <1>4, <1>5 DEF IInv

(* The frame lines lie in the plane but for the byte before it. *)
LEMMA LinesInside ==
  ASSUME geo \in Geometries, Aligned
  PROVE  FrameLines \ (0 .. Size(0) - 1) \subseteq (IF geo.ncol > 1 THEN {-1} ELSE {})
<1> SUFFICES ASSUME NEW n \in FrameLines, n \notin 0 .. Size(0) - 1
             PROVE  n = -1 /\ geo.ncol > 1
  OBVIOUS
<1>1. PICK i \in Picts, y \in 0 .. geo.h - 1 :
        \/ n = (y + pict_row(i) * geo.h) * SL
        \/ n = (y + pict_row(i) * geo.h) * SL - 1 /\ pict_col(i) # geo.ncol - 1
  BY DEF FrameLines
<1> DEFINE line == y + pict_row(i) * geo.h
           S == SL
           N == geo.nrow * geo.h
<1>2. /\ geo.h \in Nat /\ geo.w \in Nat /\ geo.w > 0 /\ geo.nrow \in Nat
      /\ geo.ncol \in Nat /\ geo.ncol > 0 /\ lines(0) = geo.h
  BY Sizes
<1>3. pict_row(i) \in 0 .. geo.nrow - 1 /\ pict_col(i) \in 0 .. geo.ncol - 1
  BY Positions
<1>4. line \in Nat /\ line < N /\ N \in Nat
  <2>1. 0 \in Planes /\ 0 \in 0 .. geo.w - 1 /\ y \in 0 .. lines(0) - 1 BY <1>2 DEF Planes
  <2>2. /\ pict_row(i) * lines(0) + y \in Nat
        /\ pict_row(i) * lines(0) + y < geo.nrow * lines(0)
    BY <2>1, Within
  <2>3. pict_row(i) * geo.h \in Int /\ N \in Nat BY <1>2, <1>3
  <2>4. QED BY <1>2, <2>2, <2>3
<1>5. S \in Nat /\ S > 0 BY Adjoin
<1>6. Size(0) = N * S BY <1>2 DEF Size
<1>7. line * S \in Nat /\ line * S + S <= N * S
  <2> HIDE DEF line, S, N
  <2>1. QED BY <1>4, <1>5, Times
<1> DEFINE from == line * S
           size == N * S
<1>8. from \in Nat /\ from < size /\ n \notin 0 .. size - 1 /\ size \in Nat
  <2>1. size \in Nat BY <1>4, <1>5
  <2> HIDE DEF line, S, N
  <2>2. QED BY <2>1, <1>5, <1>6, <1>7
<1>9. n = from \/ (n = from - 1 /\ pict_col(i) # geo.ncol - 1) BY <1>1
<1>10. n = from - 1 /\ from = 0 /\ pict_col(i) # geo.ncol - 1
  <2> HIDE DEF from, size
  <2>1. QED BY <1>8, <1>9
<1>11. QED BY <1>2, <1>3, <1>10

(* What is copied lies in the plane. *)
LEMMA TileInside ==
  ASSUME geo \in Geometries, Aligned, NEW i \in Picts,
         NEW n \in origin(i, 0) + (geo.h - 1) * SL .. origin(i, 0) + (geo.h - 1) * SL + CL - 1
  PROVE  n \in 0 .. Size(0) - 1
<1> DEFINE S == SL
           x == n - (origin(i, 0) + (geo.h - 1) * S)
<1>1. /\ geo.h \in Nat /\ geo.h > 0 /\ geo.w \in Nat /\ lines(0) = geo.h BY Sizes
<1>2. CL = geo.w /\ S \in Nat BY Adjoin
<1>3. pict_row(i) \in Int /\ pict_col(i) \in Int BY Sizes, Positions
<1>4. /\ pict_row(i) * geo.h \in Int /\ pict_row(i) * geo.h * S \in Int
      /\ pict_col(i) * geo.w \in Int /\ (geo.h - 1) * S \in Int
  BY <1>1, <1>2, <1>3
<1>5. origin(i, 0) = pict_row(i) * geo.h * S + pict_col(i) * geo.w BY <1>1, <1>2 DEF origin
<1>6. x \in 0 .. geo.w - 1 /\ n = origin(i, 0) + (geo.h - 1) * S + x
  <2> DEFINE o == origin(i, 0)
             t == (geo.h - 1) * S
  <2>1. o \in Int /\ t \in Int BY <1>4, <1>5
  <2>2. n \in o + t .. o + t + geo.w - 1 BY <1>2
  <2> HIDE DEF o, t
  <2>3. n - (o + t) \in 0 .. geo.w - 1 /\ n = o + t + (n - (o + t)) BY <2>1, <2>2, <1>1
  <2>4. QED BY <2>3 DEF o, t
<1>7. place(i, 0, x, geo.h - 1) \in 0 .. Size(0) - 1
  <2>1. 0 \in Planes /\ geo.h - 1 \in 0 .. lines(0) - 1 BY <1>1 DEF Planes
  <2> HIDE DEF x
  <2>2. QED BY <1>6, <2>1, Within
<1>8. (pict_row(i) * geo.h + (geo.h - 1)) * S = pict_row(i) * geo.h * S + (geo.h - 1) * S
  <2> DEFINE p == pict_row(i) * geo.h
             q == geo.h - 1
  <2>1. p \in Int /\ q \in Int BY <1>1, <1>4
  <2> HIDE DEF p, q, S
  <2>2. (p + q) * S = p * S + q * S BY <1>2, <2>1
  <2>3. QED BY <2>2 DEF p, q
<1>9. place(i, 0, x, geo.h - 1) = n
  <2>1. place(i, 0, x, geo.h - 1)
          = (pict_row(i) * geo.h + (geo.h - 1)) * S + pict_col(i) * geo.w + x
    BY <1>1 DEF place
  <2> HIDE DEF x, S
  <2>2. QED BY <2>1, <1>8, <1>6, <1>5, <1>4
<1>10. QED BY <1>7, <1>9

(* Drawing the frame lines keeps the invariant. *)
LEMMA LinesInv == IInv /\ Lines => IInv'
<1> SUFFICES ASSUME IInv, Lines PROVE IInv' OBVIOUS
<1> USE DEF IInv, Lines, DrawFrameLines, layoutVars, pacingVars
<1>1. geo \in Geometries /\ geo' = geo /\ frame_cnt' = {} /\ DOMAIN pic = Planes
  BY DEF TypeOK, TypeOKLayout, NothingYet
<1>2. /\ DOMAIN pic' = Planes
      /\ \A pl \in Planes : DOMAIN pic'[pl] = DOMAIN pic[pl]
      /\ \A pl \in Planes : \A n \in 0 .. Size(pl) - 1 : pic'[pl][n] \in {Dummy, Dark}
  BY <1>1 DEF Planes, TypeOK, TypeOKLayout, NothingYet
<1>3. /\ Size(0)' = Size(0) /\ \A pl \in Planes : Size(pl)' = Size(pl)
      /\ Picts' = Picts /\ Aligned' = Aligned
      /\ \A pl \in Planes : lines(pl)' = lines(pl)
  BY <1>1 DEF Size, lines, SL, Picts, Aligned
<1>4. TypeOK'
  BY <1>1, <1>2, <1>3 DEF TypeOK, TypeOKLayout, TypeOKPacing, Picts
<1>5. NothingYet' BY DEF NothingYet
<1>6. TilesInPlace'
  <2> SUFFICES ASSUME Aligned, NEW i \in Picts PROVE Untouched(i)'
    BY <1>1, <1>3 DEF TilesInPlace
  <2> SUFFICES ASSUME NEW pl \in Planes, NEW x \in 0 .. geo.w - 1, NEW y \in 0 .. lines(pl) - 1
               PROVE  Shows(i, pl, x, y)' \in {Dummy, Dark}
    BY <1>1, <1>3 DEF Untouched
  <2>1. place(i, pl, x, y)' = place(i, pl, x, y)
    BY <1>1 DEF place, lines, pict_row, pict_col, SL
  <2>2. place(i, pl, x, y) \in 0 .. Size(pl) - 1 BY <1>1, Within
  <2>3. QED BY <1>2, <2>1, <2>2 DEF Shows
<1>7. OneByteOutside'
  <2> SUFFICES ASSUME Aligned PROVE outside' \subseteq (IF geo.ncol > 1 THEN {-1} ELSE {})
    BY <1>1, <1>3 DEF OneByteOutside
  <2>1. DOMAIN pic[0] = 0 .. Size(0) - 1 BY DEF TypeOK, TypeOKLayout, Planes
  <2>2. FrameLines \ DOMAIN pic[0] \subseteq (IF geo.ncol > 1 THEN {-1} ELSE {})
    BY <1>1, <2>1, LinesInside
  <2>3. QED BY <2>2 DEF OneByteOutside
<1>8. (SameTime /\ NeverHeldBack /\ NeverSpins)' BY DEF SameTime, NeverHeldBack, NeverSpins, clock
<1>9. QED BY <1>4, <1>5, <1>6, <1>7, <1>8

(* Copying a picture keeps every picture in its place. *)
LEMMA CopyKeepsTiles ==
  ASSUME TypeOKLayout, TilesInPlace, NEW i \in Picts, CopyTile(i)
  PROVE  TilesInPlace'
<1> SUFFICES ASSUME Aligned', NEW j \in Picts'
             PROVE  IF j \in frame_cnt' THEN Shown(j)' ELSE Untouched(j)'
  BY DEF TilesInPlace
<1>1. geo \in Geometries /\ geo' = geo /\ frame_cnt' = frame_cnt \cup {i}
  BY DEF CopyTile, TypeOKLayout
<1>2. Aligned /\ j \in Picts BY <1>1 DEF Aligned, Picts
<1>3. ASSUME NEW pl \in Planes, NEW x \in 0 .. geo.w - 1, NEW y \in 0 .. lines(pl) - 1
      PROVE  Shows(j, pl, x, y)'
               = IF i = j THEN picture(i)[pl][y * CL + x] ELSE Shows(j, pl, x, y)
  <2> DEFINE n == place(j, pl, x, y)
             d == n - origin(i, pl)
  <2>1. n' = n BY <1>1 DEF place, lines, pict_row, pict_col, SL
  <2>2. n \in DOMAIN pic[pl] BY <1>1, <1>2, Within DEF TypeOKLayout
  <2> HIDE DEF n
  <2>3. pic'[pl][n] = IF d >= 0 /\ d \div SL < lines(pl) /\ d % SL < CL
                        THEN picture(i)[pl][(d \div SL) * CL + (d % SL)] ELSE pic[pl][n]
    BY <2>2 DEF CopyTile
  <2>4. /\ i = j => d >= 0 /\ d \div SL = y /\ d % SL = x
        /\ d >= 0 /\ d \div SL < lines(pl) /\ d % SL < CL => i = j
    BY <1>1, <1>2, Apart DEF n
  <2>5. CL = geo.w BY <1>1, <1>2, Adjoin
  <2>6. y < lines(pl) /\ x < geo.w BY <1>1, Sizes
  <2>7. CASE i = j BY <2>1, <2>3, <2>4, <2>5, <2>6, <2>7 DEF Shows, n
  <2>8. CASE i # j BY <2>1, <2>3, <2>4, <2>8 DEF Shows, n
  <2>9. QED BY <2>7, <2>8
<1>4. /\ CL' = CL /\ picture(j)' = picture(j)
      /\ \A pl \in Planes : lines(pl)' = lines(pl)
  BY <1>1 DEF CL, picture, lines, Mark, Border, edges, y_shift, x_shift, pict_col, pict_row
<1>5. CASE j = i
  <2>1. Shown(j)' BY <1>1, <1>3, <1>4, <1>5 DEF Shown
  <2>2. QED BY <1>1, <1>5, <2>1
<1>6. CASE j # i /\ j \in frame_cnt
  <2>1. Shown(j) BY <1>2, <1>6 DEF TilesInPlace
  <2>2. Shown(j)' BY <1>1, <1>3, <1>4, <1>6, <2>1 DEF Shown
  <2>3. QED BY <1>1, <1>6, <2>2
<1>7. CASE j # i /\ j \notin frame_cnt
  <2>1. Untouched(j) BY <1>2, <1>7 DEF TilesInPlace
  <2>2. Untouched(j)' BY <1>1, <1>3, <1>4, <1>7, <2>1 DEF Untouched
  <2>3. QED BY <1>1, <1>7, <2>2
<1>8. QED BY <1>5, <1>6, <1>7

(* What is said of the layout depends on the layout alone. *)
LEMMA LayoutUnchanged ==
  ASSUME UNCHANGED layoutVars
  PROVE  /\ TypeOKLayout' = TypeOKLayout
         /\ TilesInPlace => TilesInPlace'
         /\ OneByteOutside' = OneByteOutside
<1>1. geo' = geo /\ pic' = pic /\ outside' = outside /\ frame_cnt' = frame_cnt
  BY DEF layoutVars
<1>2. /\ Picts' = Picts /\ Aligned' = Aligned /\ CL' = CL
      /\ \A pl \in Planes : Size(pl)' = Size(pl) /\ lines(pl)' = lines(pl)
  BY <1>1 DEF Size, lines, SL, CL, Picts, Aligned
<1>3. TypeOKLayout' = TypeOKLayout BY <1>1, <1>2 DEF TypeOKLayout
<1>4. OneByteOutside' = OneByteOutside BY <1>1, <1>2 DEF OneByteOutside
<1>5. ASSUME NEW i \in Picts
      PROVE  /\ Shown(i) => Shown(i)'
             /\ Untouched(i) => Untouched(i)'
  <2>1. ASSUME NEW pl \in Planes, NEW x \in 0 .. geo.w - 1, NEW y \in 0 .. lines(pl) - 1
        PROVE  Shows(i, pl, x, y)' = Shows(i, pl, x, y)
    BY <1>1 DEF Shows, place, lines, pict_row, pict_col, SL
  <2>2. picture(i)' = picture(i)
    BY <1>1 DEF CL, picture, lines, Mark, Border, edges, y_shift, x_shift, pict_col, pict_row
  <2>3. QED BY <1>1, <1>2, <2>1, <2>2 DEF Shown, Untouched
<1>6. TilesInPlace => TilesInPlace' BY <1>1, <1>2, <1>5 DEF TilesInPlace
<1>7. QED BY <1>3, <1>4, <1>6

(* Copying a picture keeps the invariant. *)
LEMMA TileInv == IInv /\ Tile => IInv'
<1> SUFFICES ASSUME IInv, Tile PROVE IInv' OBVIOUS
<1>1. /\ geo \in Geometries /\ geo' = geo /\ ipict \in Picts /\ epc = "tiles" /\ epc' = epc
      /\ UNCHANGED pacingVars /\ ipict' = ipict + 1 /\ TypeOKLayout /\ TypeOKPacing
  BY DEF IInv, Tile, TypeOK, TypeOKLayout, CopyTile, layoutVars
<1>2. /\ \A pl \in Planes : Size(pl)' = Size(pl)
      /\ Picts' = Picts /\ Aligned' = Aligned
  BY <1>1 DEF Size, lines, SL, Picts, Aligned
<1>3. NothingYet' BY <1>1 DEF NothingYet
<1>4. (SameTime /\ NeverHeldBack /\ NeverSpins)'
  BY <1>1 DEF IInv, pacingVars, SameTime, NeverHeldBack, NeverSpins, clock
<1>5. /\ TypeOKPacing' /\ epc' \in {"lines", "tiles", "ended"}
      /\ (ipict \in 0 .. geo.ncol * geo.nrow)'
  <2>1. TypeOKPacing' BY <1>1 DEF TypeOKPacing, pacingVars
  <2>2. geo.ncol * geo.nrow \in Nat BY <1>1, Sizes
  <2>3. QED BY <1>1, <2>1, <2>2 DEF Picts
<1>6. CASE CopyTile(ipict)
  <2>1. TypeOKLayout'
    BY <1>1, <1>2, <1>6 DEF TypeOKLayout, CopyTile
  <2>2. TilesInPlace' BY <1>1, <1>6, CopyKeepsTiles DEF IInv
  <2>3. OneByteOutside'
    <3> SUFFICES ASSUME Aligned PROVE outside' \subseteq (IF geo.ncol > 1 THEN {-1} ELSE {})
      BY <1>1, <1>2 DEF OneByteOutside
    <3>1. DOMAIN pic[0] = 0 .. Size(0) - 1 BY <1>1 DEF TypeOKLayout, Planes
    <3>2. outside' = outside BY <1>1, <1>6, <3>1, TileInside DEF CopyTile
    <3>3. QED BY <3>2 DEF IInv, OneByteOutside
  <2>4. QED BY <1>3, <1>4, <1>5, <2>1, <2>2, <2>3 DEF IInv, TypeOK
<1>7. CASE UNCHANGED layoutVars
  <2>1. TypeOKLayout' BY <1>1, <1>2, <1>7 DEF TypeOKLayout, layoutVars
  <2>2. (TilesInPlace /\ OneByteOutside)'
    BY <1>7, LayoutUnchanged DEF IInv
  <2>3. QED BY <1>3, <1>4, <1>5, <2>1, <2>2 DEF IInv, TypeOK
<1>8. QED BY <1>6, <1>7 DEF Tile

(* Waiting and sending keep the invariant. *)
LEMMA SendInv == IInv /\ Send => IInv'
<1> SUFFICES ASSUME IInv, Send PROVE IInv' OBVIOUS
<1>1. /\ UNCHANGED layoutVars /\ epc = "tiles" /\ epc' \in {"tiles", "ended"} /\ ipict' = 0
      /\ TypeOKLayout /\ TypeOKPacing
  BY DEF IInv, Send, TypeOK
<1>2. (TypeOKLayout /\ TilesInPlace /\ OneByteOutside)'
  BY <1>1, LayoutUnchanged DEF IInv
<1>3. (ipict \in 0 .. geo.ncol * geo.nrow)'
  BY <1>1, Sizes DEF TypeOKLayout, layoutVars
<1>4. NothingYet' BY <1>1 DEF NothingYet
<1>5. (TypeOKPacing /\ SameTime /\ NeverHeldBack /\ NeverSpins)'
  <2>1. PICK d \in 0 .. MaxWork : Pace(d) BY DEF Send
  <2> DEFINE c == clock(now + d)
             z == nap(c)
  <2>2. now \in Nat /\ d \in Nat /\ gap \in Nat /\ clk_pre \in Int /\ clk_pre \in -fFrameIntvl .. ClockRange
    BY <1>1, <2>1, PacingAssumption DEF TypeOKPacing
  <2>3. c \in -1 .. ClockRange /\ c \in Int BY <2>2, PacingAssumption DEF clock
  <2>4. z \in 0 .. fFrameIntvl - 1 /\ (c = clk_pre => z = 1) BY <2>2, <2>3, Nap
  <2>5. /\ now' = now + d + z /\ clk_pre' = c /\ work' = d /\ gap' = d + z /\ gap_pre' = gap
    BY <2>1 DEF Pace
  <2> HIDE DEF z
  <2>6. TypeOKPacing'
    <3> HIDE DEF c
    <3>1. QED BY <2>2, <2>3, <2>4, <2>5, PacingAssumption DEF TypeOKPacing
  <2>7. NeverHeldBack' BY <2>2, <2>4, <2>5, PacingAssumption DEF NeverHeldBack
  <2>8. ASSUME gap' = 0 PROVE d = 0 /\ z = 0 /\ now' = now /\ clk_pre' = clock(now)
    BY <2>2, <2>4, <2>5, <2>8, PacingAssumption
  <2>9. SameTime' BY <2>8 DEF SameTime, clock
  <2>10. ASSUME gap = 0, gap' = 0 PROVE FALSE
    <3>1. clk_pre = clock(now) BY <2>10 DEF IInv, SameTime
    <3>2. c = clock(now) BY <2>8, <2>10, <2>5
    <3>3. QED BY <2>4, <2>8, <2>10, <3>1, <3>2
  <2>11. NeverSpins'
    <3>1. gap' \in Nat BY <2>2, <2>4, <2>5, PacingAssumption
    <3>2. QED BY <2>2, <2>5, <2>10, <3>1 DEF NeverSpins
  <2>12. QED BY <2>6, <2>7, <2>9, <2>11
<1>6. QED BY <1>1, <1>2, <1>3, <1>4, <1>5 DEF IInv, TypeOK

(* A stuttering step keeps the invariant. *)
LEMMA StutterInv == IInv /\ UNCHANGED vars => IInv'
<1> SUFFICES ASSUME IInv, UNCHANGED vars PROVE IInv' OBVIOUS
<1>1. (TypeOKLayout /\ TilesInPlace /\ OneByteOutside)'
  BY LayoutUnchanged DEF vars, IInv, TypeOK
<1>2. TypeOKPacing' BY DEF vars, pacingVars, IInv, TypeOK, TypeOKPacing
<1>3. (SameTime /\ NeverHeldBack /\ NeverSpins)'
  BY DEF vars, pacingVars, IInv, SameTime, NeverHeldBack, NeverSpins, clock
<1>4. NothingYet' BY DEF vars, layoutVars, IInv, NothingYet, Size, lines, SL
<1>5. (epc \in {"lines", "tiles", "ended"} /\ ipict \in 0 .. geo.ncol * geo.nrow)'
  BY DEF vars, layoutVars, IInv, TypeOK
<1>6. QED BY <1>1, <1>2, <1>3, <1>4, <1>5 DEF IInv, TypeOK

(***************************************************************************)
(* The theorems.                                                           *)
(***************************************************************************)

(* The inductive invariant holds of every mosaic and every clock. *)
THEOREM Invariance == Spec => []IInv
<1>1. Init => IInv BY InitInv
<1>2. IInv /\ [Next]_vars => IInv' BY LinesInv, TileInv, SendInv, StutterInv DEF Next
<1>3. QED BY <1>1, <1>2, PTL DEF Spec

(* Every variable of run's model keeps its type. *)
THEOREM TypeCorrect == Spec => []TypeOK
<1>1. IInv => TypeOK BY DEF IInv
<1>2. QED BY <1>1, Invariance, PTL

(* The pictures of run's mosaic lie in their own places, whatever the      *)
(* number and the size of the pictures, if their width is aligned.         *)
THEOREM PicturesInPlace == Spec => []TilesInPlace
<1>1. IInv => TilesInPlace BY DEF IInv
<1>2. QED BY <1>1, Invariance, PTL

(* Of all that run writes, only the frame lines' first byte misses the     *)
(* mosaic.                                                                 *)
THEOREM NothingElseOutside == Spec => []OneByteOutside
<1>1. IInv => OneByteOutside BY DEF IInv
<1>2. QED BY <1>1, Invariance, PTL

(* Whatever the interval, the work and the end of the clock's range, the   *)
(* pacing of run never sleeps for a whole interval.                        *)
THEOREM SleepsLessThanInterval == Spec => []NeverHeldBack
<1>1. IInv => NeverHeldBack BY DEF IInv
<1>2. QED BY <1>1, Invariance, PTL

(* Nor does run send two pictures in a row without any time between.       *)
THEOREM AlwaysPaced == Spec => []NeverSpins
<1>1. IInv => NeverSpins BY DEF IInv
<1>2. QED BY <1>1, Invariance, PTL

(***************************************************************************)
(* Borders and marks.                                                      *)
(***************************************************************************)

(* A byte of a picture's luma is dark if it is of the border and not of    *)
(* the mark.                                                               *)
LEMMA DarkByte ==
  ASSUME geo \in Geometries, NEW i \in Picts, NEW n \in 0 .. CL * geo.h - 1, n \notin Mark(i)
  PROVE  picture(i)[0][n] = Dark <=> n \in Border(i)
<1>1. lines(0) = geo.h BY Sizes
<1>2. picture(i)[0][n] = IF n \in Border(i) THEN Dark ELSE Pixel(i, 0, n % CL, n \div CL)
  BY <1>1 DEF picture, Planes
<1>3. Pixel(i, 0, n % CL, n \div CL) # Dark
  <2>1. Pixel(i, 0, n % CL, n \div CL)[1] = "pixel" /\ Dark[1] = "dark" BY DEF Pixel, Dark
  <2>2. "pixel" # "dark" OBVIOUS
  <2>3. QED BY <2>1, <2>2
<1>4. QED BY <1>2, <1>3

(* A mark that fits keeps away from all edges. *)
LEMMA MarkAway ==
  ASSUME geo \in Geometries, Aligned, MarkFits, NEW i \in Picts, NEW n \in Mark(i)
  PROVE  n % CL \in 1 .. CL - 2 /\ n \div CL \in 1 .. geo.h - 2
<1>1. /\ geo.mark.w \in Nat /\ geo.mark.h \in Nat /\ geo.w \in Nat /\ geo.h \in Nat
      /\ geo.w > 0 /\ CL = geo.w
  BY LayoutAssumption, Adjoin
<1>2. PICK ix \in 0 .. geo.mark.w - 1, iy \in 0 .. geo.mark.h - 1 :
        n = (y_shift(i) + iy) * CL + x_shift(i) + ix
  BY DEF Mark
<1>3. x_shift(i) + ix \in 1 .. CL - 2 BY <1>1 DEF x_shift, MarkFits
<1>4. y_shift(i) + iy \in 1 .. geo.h - 2 BY <1>1 DEF y_shift, MarkFits
<1> DEFINE x == x_shift(i) + ix
           y == y_shift(i) + iy
<1>5. x \in 1 .. CL - 2 /\ y \in 1 .. geo.h - 2 /\ x_shift(i) \in Int
  BY <1>1, <1>3, <1>4 DEF x_shift
<1>6. n = y * CL + x
  <2>1. y * CL \in Int BY <1>1, <1>5
  <2>2. QED BY <1>2, <1>5, <2>1
<1>7. n \div CL = y /\ n % CL = x
  <2> HIDE DEF x, y
  <2>1. CL \in Nat /\ CL > 0 /\ y \in Int /\ x \in 0 .. CL - 1 BY <1>1, <1>5
  <2>2. QED BY <1>6, <2>1, DivMod
<1>8. QED BY <1>5, <1>7

(* Marks that fit stay between the borders, in every mosaic. *)
THEOREM MarksFit == Spec => []MarkInside
<1>1. IInv => MarkInside
  BY MarkAway DEF IInv, TypeOK, TypeOKLayout, MarkInside
<1>2. QED  BY <1>1, Invariance, PTL

(* What is on the edges of a picture. *)
LEMMA Framed ==
  ASSUME geo \in Geometries, Aligned, MarkFits, NEW i \in Picts,
         NEW x \in 0 .. geo.w - 1, NEW y \in 0 .. geo.h - 1
  PROVE  /\ x = 0 /\ y \in 1 .. geo.h - 2
               => (picture(i)[0][y * CL + x] = Dark <=> pict_col(i) # 0)
         /\ x = geo.w - 1 /\ y \in 1 .. geo.h - 2
               => (picture(i)[0][y * CL + x] = Dark
                     <=> pict_col(i) # geo.ncol - 1 \/ geo.ncol = 1)
         /\ y = 0 /\ x \in 1 .. geo.w - 2
               => (picture(i)[0][y * CL + x] = Dark <=> pict_row(i) # 0)
<1> DEFINE n == y * CL + x
<1>1. /\ geo.w \in Nat /\ geo.h \in Nat /\ CL = geo.w /\ geo.w >= 2 /\ geo.h >= 2
      /\ geo.ncol \in Nat /\ geo.ncol > 0
  BY LayoutAssumption, Adjoin DEF MarkFits
<1>2. n \div CL = y /\ n % CL = x
  <2>1. CL \in Nat /\ CL > 0 /\ y \in Int /\ x \in 0 .. CL - 1 BY <1>1
  <2>2. QED BY <2>1, DivMod
<1>3. n \in 0 .. CL * geo.h - 1
  <2>1. y * geo.w \in Nat /\ y * geo.w + geo.w <= geo.h * geo.w BY <1>1, Times
  <2>2. geo.h * geo.w = geo.w * geo.h BY <1>1
  <2>3. QED BY <1>1, <2>1, <2>2
<1>4. pict_col(i) \in 0 .. geo.ncol - 1 /\ pict_row(i) \in Nat BY Positions, Sizes
<1>5. /\ "First_col" \in edges(i) <=> pict_col(i) = 0
      /\ "Last_col" \in edges(i) <=> pict_col(i) # 0 /\ pict_col(i) + 1 = geo.ncol
      /\ "First_row" \in edges(i) <=> pict_row(i) = 0
  BY DEF edges
<1> HIDE DEF n
<1>6. n \in Border(i) <=> \/ x = 0 /\ "First_col" \notin edges(i)
                          \/ x = CL - 1 /\ "Last_col" \notin edges(i)
                          \/ y = 0 /\ "First_row" \notin edges(i)
                          \/ y = geo.h - 1 /\ "Last_row" \notin edges(i)
  BY <1>2, <1>3 DEF Border
<1>7. ASSUME x \in {0, geo.w - 1} \/ y = 0
      PROVE  picture(i)[0][n] = Dark <=> n \in Border(i)
  <2>1. n \notin Mark(i) BY <1>1, <1>2, <1>7, MarkAway
  <2>2. QED BY <1>3, <2>1, DarkByte
<1>8. x = 0 /\ y \in 1 .. geo.h - 2 => (picture(i)[0][n] = Dark <=> pict_col(i) # 0)
  BY <1>1, <1>5, <1>6, <1>7
<1>9. x = geo.w - 1 /\ y \in 1 .. geo.h - 2
        => (picture(i)[0][n] = Dark <=> pict_col(i) # geo.ncol - 1 \/ geo.ncol = 1)
  BY <1>1, <1>4, <1>5, <1>6, <1>7
<1>10. y = 0 /\ x \in 1 .. geo.w - 2 => (picture(i)[0][n] = Dark <=> pict_row(i) # 0)
  BY <1>1, <1>5, <1>6, <1>7
<1>11. QED BY <1>8, <1>9, <1>10 DEF n

(* Left, right and upper edges are dark just where pictures meet, in every *)
(* mosaic.                                                                 *)
THEOREM FramedRight == Spec => []FramedWhereTilesMeet
<1>1. ASSUME IInv, Aligned, MarkFits, NEW i \in frame_cnt
      PROVE  /\ \A y \in 1 .. geo.h - 2 :
                  /\ Shows(i, 0, 0, y) = Dark <=> pict_col(i) # 0
                  /\ Shows(i, 0, geo.w - 1, y) = Dark
                       <=> pict_col(i) # geo.ncol - 1 \/ geo.ncol = 1
             /\ \A x \in 1 .. geo.w - 2 : Shows(i, 0, x, 0) = Dark <=> pict_row(i) # 0
  <2>1. geo \in Geometries /\ i \in Picts BY <1>1 DEF IInv, TypeOK, TypeOKLayout
  <2>2. /\ geo.w \in Nat /\ geo.w > 0 /\ geo.h \in Nat /\ geo.h > 0
        /\ lines(0) = geo.h /\ 0 \in Planes
    BY <2>1, Sizes DEF Planes
  <2>3. Shown(i) BY <1>1, <2>1 DEF IInv, TilesInPlace
  <2>4. \A x \in 0 .. geo.w - 1, y \in 0 .. geo.h - 1 :
          Shows(i, 0, x, y) = picture(i)[0][y * CL + x]
    BY <2>2, <2>3 DEF Shown
  <2>5. ASSUME NEW y \in 1 .. geo.h - 2
        PROVE  /\ Shows(i, 0, 0, y) = Dark <=> pict_col(i) # 0
               /\ Shows(i, 0, geo.w - 1, y) = Dark
                    <=> pict_col(i) # geo.ncol - 1 \/ geo.ncol = 1
    <3>1. y \in 0 .. geo.h - 1 /\ 0 \in 0 .. geo.w - 1 /\ geo.w - 1 \in 0 .. geo.w - 1
      BY <2>2
    <3>2. Shows(i, 0, 0, y) = Dark <=> pict_col(i) # 0
      BY <1>1, <2>1, <2>4, <3>1, Framed
    <3>3. Shows(i, 0, geo.w - 1, y) = Dark <=> pict_col(i) # geo.ncol - 1 \/ geo.ncol = 1
      BY <1>1, <2>1, <2>4, <3>1, Framed
    <3>4. QED BY <3>2, <3>3
  <2>6. ASSUME NEW x \in 1 .. geo.w - 2
        PROVE  Shows(i, 0, x, 0) = Dark <=> pict_row(i) # 0
    <3>1. x \in 0 .. geo.w - 1 /\ 0 \in 0 .. geo.h - 1 BY <2>2
    <3>2. QED BY <1>1, <2>1, <2>4, <3>1, Framed
  <2>7. QED BY <2>5, <2>6
<1>2. IInv => FramedWhereTilesMeet BY <1>1 DEF FramedWhereTilesMeet
<1>3. QED  BY <1>2, Invariance, PTL
===============================================================================
