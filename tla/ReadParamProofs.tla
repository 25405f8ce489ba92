---------------------------- MODULE ReadParamProofs ----------------------------
(***************************************************************************)
(* Proofs about read_param and its string utilities, for files of any      *)
(* number of lines of any length.                                          *)
(***************************************************************************)
EXTENDS ParamText, FiniteSetTheorems, TLAPS

(***************************************************************************)
(* Induction and recursion up to a number, over sets and functions.        *)
(***************************************************************************)

(* A set of positions has a first one. *)
LEMMA FirstOf ==
  ASSUME NEW S, S \subseteq Nat, S # {}
  PROVE  \E k \in S : \A j \in S : k <= j
<1>1. \E k \in S : \A j \in S : ~(<<j, k>> \in OpToRel(<, Nat))
  BY NatLessThanWellFounded, WFMin, Zenon
<1>2. PICK k \in S : \A j \in S : ~(<<j, k>> \in OpToRel(<, Nat))
  BY <1>1
<1>3. ASSUME NEW j \in S PROVE k <= j
  <2>1. j \in Nat /\ k \in Nat
    OBVIOUS
  <2>2. ~(j < k)
    BY <1>2, <2>1 DEF OpToRel
  <2>3. QED  BY <2>1, <2>2
<1>4. QED  BY <1>3

(* A set of positions of a text has a last one. *)
LEMMA LastOf ==
  ASSUME NEW N \in Nat, NEW S, S \subseteq 0 .. N, S # {}
  PROVE  \E k \in S : \A j \in S : k >= j
<1> DEFINE T == {N - k : k \in S}
<1>1. T \subseteq Nat /\ T # {}
  OBVIOUS
<1>2. PICK m \in T : \A j \in T : m <= j
  BY <1>1, FirstOf
<1>3. PICK k \in S : m = N - k
  OBVIOUS
<1>4. ASSUME NEW j \in S PROVE k >= j
  <2>1. m <= N - j
    BY <1>2
  <2>2. QED  BY <1>3, <2>1
<1>5. QED  BY <1>4

LEMMA Induct ==
  ASSUME NEW N \in Nat, NEW P, 0 \in P, \A n \in 1 .. N : n - 1 \in P => n \in P
  PROVE  0 .. N \subseteq P
<1> DEFINE S == {n \in 0 .. N : n \notin P}
<1>1. SUFFICES ASSUME S # {} PROVE FALSE
  OBVIOUS
<1>2. S \subseteq Nat
  OBVIOUS
<1>3. PICK k \in S : \A j \in S : k <= j
  BY <1>1, <1>2, FirstOf
<1>4. k # 0 /\ k \in 1 .. N /\ k - 1 \in 0 .. N
  OBVIOUS
<1>5. k - 1 \in P
  BY <1>3, <1>4
<1>6. QED  BY <1>4, <1>5

(* What a definition by recursion goes by: a step for each number, from    *)
(* what came before.                                                       *)
Steps(N, S) == [(1 .. N) \X S -> S]
Follows(g, N, a, h) == g[0] = a /\ \A n \in 1 .. N : g[n] = h[<<n, g[n - 1]>>]

(* A function that is defined by recursion from 0 to N exists.             *)
LEMMA Recursion ==
  ASSUME NEW N \in Nat, NEW S, NEW a \in S, NEW h \in Steps(N, S)
  PROVE  \E g \in [0 .. N -> S] : Follows(g, N, a, h)
<1> USE DEF Steps, Follows
<1> DEFINE Upto(n) == \E g \in [0 .. n -> S] :
                        g[0] = a /\ \A k \in 1 .. n : g[k] = h[<<k, g[k - 1]>>]
           P == {n \in 0 .. N : Upto(n)}
<1>1. Upto(0)
  <2> DEFINE c == [k \in 0 .. 0 |-> a]
  <2>1. c \in [0 .. 0 -> S] /\ c[0] = a
    OBVIOUS
  <2> HIDE DEF c
  <2>2. c[0] = a /\ \A k \in 1 .. 0 : c[k] = h[<<k, c[k - 1]>>]
    BY <2>1
  <2>3. QED  BY <2>1, <2>2
<1>2. ASSUME NEW n \in 1 .. N, Upto(n - 1) PROVE Upto(n)
  <2>1. PICK g \in [0 .. n - 1 -> S] :
               g[0] = a /\ \A k \in 1 .. n - 1 : g[k] = h[<<k, g[k - 1]>>]
    BY <1>2
  <2> DEFINE f == [k \in 0 .. n |-> IF k = n THEN h[<<n, g[n - 1]>>] ELSE g[k]]
  <2>2. g[n - 1] \in S
    OBVIOUS
  <2>3. f \in [0 .. n -> S]
    BY <2>2
  <2>4. f[0] = a
    BY <2>1
  <2>5. ASSUME NEW k \in 1 .. n PROVE f[k] = h[<<k, f[k - 1]>>]
    <3>1. f[k - 1] = g[k - 1]
      OBVIOUS
    <3>2. CASE k = n
      <4>1. f[k] = h[<<n, g[n - 1]>>]
        BY <3>2
      <4>2. QED  BY <3>1, <3>2, <4>1
    <3>3. CASE k # n
      <4>1. k \in 1 .. n - 1 /\ f[k] = g[k]
        BY <3>3
      <4>2. QED  BY <2>1, <3>1, <4>1
    <3>4. QED  BY <3>2, <3>3
  <2>6. QED  BY <2>3, <2>4, <2>5
<1> HIDE DEF Upto
<1>3. 0 \in P /\ \A n \in 1 .. N : n - 1 \in P => n \in P
  BY <1>1, <1>2
<1> HIDE DEF P
<1>4. 0 .. N \subseteq P
  BY <1>3, Induct
<1>5. N \in P
  BY <1>4
<1>6. QED  BY <1>5 DEF P, Upto

(***************************************************************************)
(* The string utilities.                                                   *)
(***************************************************************************)

(* The characters that read_param asks for. *)
LEMMA Characters ==
  /\ Space \in Char /\ Open \in Char /\ Close \in Char /\ Semicolon \in Char
  /\ "." \in Char
  /\ Semicolon # Space /\ Semicolon # "=" /\ "=" # Space /\ Open # Close /\ Open # Space
  /\ Semicolon # Open /\ Semicolon # Close /\ "=" # Open /\ "=" # Close
<1>1. {"/", "*", "=", ".", Space, Open, Close, Semicolon, Quote} \subseteq Char
  BY ReadParamAssumption, Zenon
<1>2. Space \in Char /\ Open \in Char /\ Close \in Char /\ Semicolon \in Char /\ "." \in Char
  BY <1>1, Zenon
<1>3. /\ Semicolon # Space /\ Semicolon # "=" /\ "=" # Space /\ Open # Close /\ Open # Space
      /\ Semicolon # Open /\ Semicolon # Close /\ "=" # Open /\ "=" # Close
  BY Zenon DEF Space, Open, Close, Semicolon
<1>4. QED  BY <1>2, <1>3, Zenon

(* A text in terms of its characters. *)
LEMMA TextIs ==
  ASSUME NEW s \in Text
  PROVE  /\ Len(s) \in Nat /\ DOMAIN s = 1 .. Len(s)
         /\ \A k \in 1 .. Len(s) : s[k] \in Char
BY DEF Text

LEMMA NoText == <<>> \in Text /\ Len(<<>>) = 0
BY DEF Text

LEMMA SubText ==
  ASSUME NEW s \in Text, NEW i \in Int, NEW j \in Int, 1 <= i, j <= Len(s)
  PROVE  /\ SubSeq(s, i, j) \in Text
         /\ Len(SubSeq(s, i, j)) = IF i <= j THEN j - i + 1 ELSE 0
         /\ \A k \in 1 .. Len(SubSeq(s, i, j)) : SubSeq(s, i, j)[k] = s[k + i - 1]
<1> USE DEF Text
<1>1. CASE i <= j
  BY <1>1
<1>2. CASE ~(i <= j)
  BY <1>2
<1>3. QED  BY <1>1, <1>2

LEMMA JoinAssoc ==
  ASSUME NEW s \in Text, NEW t \in Text, NEW u \in Text PROVE (s \o t) \o u = s \o (t \o u)
BY DEF Text

LEMMA JoinText ==
  ASSUME NEW s \in Text, NEW t \in Text
  PROVE  /\ s \o t \in Text
         /\ Len(s \o t) = Len(s) + Len(t)
         /\ \A k \in 1 .. Len(s) : (s \o t)[k] = s[k]
         /\ \A k \in 1 .. Len(t) : (s \o t)[Len(s) + k] = t[k]
BY DEF Text

(* find_last is the last place of c up to i, if there is one. *)
LEMMA FindLastIs ==
  ASSUME NEW s, NEW c, NEW i \in Nat
  PROVE  /\ find_last(s, c, i) \in 0 .. i
         /\ find_last(s, c, i) # 0 => s[find_last(s, c, i)] = c
         /\ \A j \in find_last(s, c, i) + 1 .. i : s[j] # c
<1> DEFINE Last1(k) == s[k] = c /\ \A j \in k + 1 .. i : s[j] # c
           S == {k \in 1 .. i : s[k] = c}
<1>1. CASE S = {}
  BY <1>1 DEF find_last
<1>2. CASE S # {}
  <2>1. PICK k \in S : \A j \in S : k >= j
    <3>1. S \subseteq 0 .. i
      OBVIOUS
    <3> HIDE DEF S
    <3>2. QED  BY <1>2, <3>1, LastOf
  <2>2. k \in 1 .. i /\ s[k] = c /\ \A j \in k + 1 .. i : s[j] # c
    BY <2>1
  <2>3. Last1(k)
    BY <2>2
  <2>4. find_last(s, c, i) = CHOOSE x \in 1 .. i : Last1(x)
    BY <2>2 DEF find_last
  <2> HIDE DEF Last1, S
  <2>5. find_last(s, c, i) \in 1 .. i /\ Last1(find_last(s, c, i))
    BY <2>2, <2>3, <2>4
  <2>6. QED  BY <2>5 DEF Last1
<1>3. QED  BY <1>1, <1>2

(* find2 is the first place of cd from i on, if there is one. *)
LEMMA Find2Is ==
  ASSUME NEW s \in Text, NEW c, NEW d, NEW i \in Nat, i >= 1
  PROVE  LET f == find2(s, c, d, i)
             There(k) == k \in i .. Len(s) - 1 /\ s[k] = c /\ s[k + 1] = d
         IN  \/ f = 0 /\ \A k \in Int : ~There(k)
             \/ There(f) /\ \A k \in Int : There(k) => f <= k
<1> DEFINE f == find2(s, c, d, i)
           There(k) == k \in i .. Len(s) - 1 /\ s[k] = c /\ s[k + 1] = d
           Ks == {k \in i .. Len(s) - 1 : s[k] = c /\ s[k + 1] = d}
           First1(k) == \A j \in Ks : k <= j
<1>1. f = IF Ks = {} THEN 0 ELSE CHOOSE k \in Ks : First1(k)
  BY DEF find2
<1>2. \A k \in Int : There(k) <=> k \in Ks
  OBVIOUS
<1>3. CASE Ks = {}
  BY <1>1, <1>2, <1>3
<1>4. CASE Ks # {}
  <2>1. Ks \subseteq Nat
    BY TextIs
  <2>2. PICK m \in Ks : \A j \in Ks : m <= j
    <3> HIDE DEF Ks
    <3>1. QED  BY <1>4, <2>1, FirstOf
  <2> HIDE DEF Ks
  <2>3. First1(m)
    BY <2>2
  <2> HIDE DEF First1, f
  <2>4. f \in Ks /\ First1(f)
    BY <1>1, <1>4, <2>2, <2>3
  <2>5. f \in Int /\ There(f) /\ \A k \in Int : There(k) => f <= k
    BY <1>2, <2>1, <2>4 DEF First1
  <2>6. QED  BY <2>5 DEF f
<1>5. QED  BY <1>3, <1>4

(***************************************************************************)
(* Comments.                                                               *)
(***************************************************************************)

(* A comment that is closed.  As in the code its end may share the star    *)
(* with its beginning.                                                     *)
HasBlock(s) ==
  \E i, j \in 1 .. Len(s) - 1 :
    i <= j /\ s[i] = "/" /\ s[i + 1] = "*" /\ s[j] = "*" /\ s[j + 1] = "/"

HasLine(s) == \E i \in 1 .. Len(s) - 1 : s[i] = "/" /\ s[i + 1] = "/"

(* A part of a text has no comment that the text has not.                  *)
LEMMA PartHasNoMore ==
  ASSUME NEW s \in Text, NEW a \in Int, NEW b \in Int, 1 <= a, b <= Len(s)
  PROVE  /\ HasBlock(SubSeq(s, a, b)) => HasBlock(s)
         /\ HasLine(SubSeq(s, a, b)) => HasLine(s)
<1> DEFINE t == SubSeq(s, a, b)
<1>0. Len(s) \in Nat /\ Len(t) \in Nat
  BY SubText, TextIs
<1>1. \A k \in 1 .. Len(t) - 1 : /\ k + a - 1 \in 1 .. Len(s) - 1
                                 /\ t[k] = s[k + a - 1] /\ t[k + 1] = s[(k + a - 1) + 1]
  <2>1. SUFFICES ASSUME NEW k \in 1 .. Len(t) - 1
                 PROVE  /\ k + a - 1 \in 1 .. Len(s) - 1
                        /\ t[k] = s[k + a - 1] /\ t[k + 1] = s[(k + a - 1) + 1]
    OBVIOUS
  <2>2. a <= b /\ Len(t) = b - a + 1
    BY <1>0, SubText
  <2>3. k + a - 1 \in 1 .. Len(s) - 1 /\ k \in 1 .. Len(t) /\ k + 1 \in 1 .. Len(t)
        /\ (k + 1) + a - 1 = (k + a - 1) + 1
    BY <1>0, <2>2
  <2>4. t[k] = s[k + a - 1] /\ t[k + 1] = s[(k + 1) + a - 1]
    BY <2>3, SubText
  <2>5. QED  BY <2>3, <2>4
<1> HIDE DEF t
<1>2. ASSUME HasBlock(t) PROVE HasBlock(s)
  <2>1. PICK i, j \in 1 .. Len(t) - 1 :
          i <= j /\ t[i] = "/" /\ t[i + 1] = "*" /\ t[j] = "*" /\ t[j + 1] = "/"
    BY <1>2 DEF HasBlock
  <2>2. i + a - 1 <= j + a - 1
    BY <1>0, <2>1
  <2>3. QED  BY <1>1, <2>1, <2>2 DEF HasBlock
<1>3. ASSUME HasLine(t) PROVE HasLine(s)
  BY <1>1, <1>3 DEF HasLine
<1>4. QED  BY <1>2, <1>3 DEF t

stars(s) == find_last(s, "*", Len(s))

(* What is erased is a comment that is closed, and a star with it.         *)
LEMMA ErasedIs ==
  ASSUME NEW s \in Text
  PROVE  /\ erased(s) \in Text
         /\ ~HasBlock(s) => erased(s) = s
         /\ HasBlock(s) => stars(erased(s)) < stars(s)
         /\ stars(s) \in Nat /\ stars(erased(s)) \in Nat
<1> DEFINE pos  == find2(s, "/", "*", 1)
           pos2 == IF pos = 0 THEN 0 ELSE find2(s, "*", "/", pos)
           Opens(k)  == k \in 1 .. Len(s) - 1 /\ s[k] = "/" /\ s[k + 1] = "*"
           Closes(k) == k \in pos .. Len(s) - 1 /\ s[k] = "*" /\ s[k + 1] = "/"
           t == upto(s, pos - 1) \o from(s, pos + pos2 + 1)
<1>0. Len(s) \in Nat
  BY TextIs
<1>1. \/ pos = 0 /\ \A k \in Int : ~Opens(k)
      \/ Opens(pos) /\ \A k \in Int : Opens(k) => pos <= k
  BY Find2Is
<1>2. pos # 0 => \/ pos2 = 0 /\ \A k \in Int : ~Closes(k)
                 \/ Closes(pos2) /\ \A k \in Int : Closes(k) => pos2 <= k
  <2>1. SUFFICES ASSUME pos # 0
                 PROVE  \/ pos2 = 0 /\ \A k \in Int : ~Closes(k)
                        \/ Closes(pos2) /\ \A k \in Int : Closes(k) => pos2 <= k
    OBVIOUS
  <2>2. pos \in Nat /\ pos >= 1
    BY <1>0, <1>1, <2>1
  <2>3. pos2 = find2(s, "*", "/", pos)
    BY <2>1
  <2> HIDE DEF pos, pos2
  <2>4. QED  BY <2>2, <2>3, Find2Is
<1>3. erased(s) = IF pos2 = 0 THEN s ELSE t
  BY DEF erased
<1>4. stars(s) \in Nat
  BY <1>0, FindLastIs DEF stars
<1> HIDE DEF pos, pos2
<1>5. CASE pos2 = 0
  <2>1. ~HasBlock(s)
    <3>1. SUFFICES ASSUME NEW i \in 1 .. Len(s) - 1, NEW j \in 1 .. Len(s) - 1, i <= j,
                          s[i] = "/", s[i + 1] = "*", s[j] = "*", s[j + 1] = "/"
                   PROVE  FALSE
      BY DEF HasBlock
    <3>2. Opens(i)
      BY <3>1
    <3>3. pos \in Int /\ pos >= 1 /\ pos <= i
      BY <1>0, <1>1, <3>2
    <3>4. Closes(j)
      BY <1>0, <3>1, <3>3
    <3>5. QED  BY <1>0, <1>2, <1>5, <3>3, <3>4
  <2>2. QED  BY <1>3, <1>4, <1>5, <2>1
<1>6. CASE pos2 # 0
  <2>1. pos # 0
    BY <1>6 DEF pos2
  <2>2. /\ pos \in 1 .. Len(s) - 1 /\ s[pos] = "/" /\ s[pos + 1] = "*"
        /\ pos2 \in pos .. Len(s) - 1 /\ s[pos2] = "*" /\ s[pos2 + 1] = "/"
    BY <1>1, <1>2, <1>6, <2>1
  <2>3. pos2 >= pos + 1
    <3>1. pos2 # pos
      BY <2>2
    <3>2. QED  BY <1>0, <2>2, <3>1
  <2>4. HasBlock(s)
    BY <1>0, <2>2 DEF HasBlock
  <2> DEFINE u == upto(s, pos - 1)
             w == from(s, pos + pos2 + 1)
  <2>5. /\ u \in Text /\ Len(u) = pos - 1
        /\ \A k \in 1 .. Len(u) : u[k] = s[k]
    <3>1. 1 \in Int /\ pos - 1 \in Int /\ 1 <= 1 /\ pos - 1 <= Len(s)
      BY <1>0, <2>2
    <3>2. /\ u \in Text /\ Len(u) = IF 1 <= pos - 1 THEN (pos - 1) - 1 + 1 ELSE 0
          /\ \A k \in 1 .. Len(u) : u[k] = s[k + 1 - 1]
      BY <3>1, SubText DEF upto
    <3>3. QED  BY <1>0, <2>2, <3>2
  <2>6. /\ w \in Text
        /\ \A k \in 1 .. Len(w) : w[k] = s[k + (pos + pos2)]
        /\ Len(w) = IF pos + pos2 + 1 <= Len(s) THEN Len(s) - (pos + pos2) ELSE 0
    <3>1. pos + pos2 + 1 \in Int /\ Len(s) \in Int /\ 1 <= pos + pos2 + 1 /\ Len(s) <= Len(s)
      BY <1>0, <2>2
    <3>2. /\ w \in Text
          /\ Len(w) = IF pos + pos2 + 1 <= Len(s) THEN Len(s) - (pos + pos2 + 1) + 1 ELSE 0
          /\ \A k \in 1 .. Len(w) : w[k] = s[k + (pos + pos2 + 1) - 1]
      BY <3>1, SubText DEF from
    <3>3. \A k \in Int : k + (pos + pos2 + 1) - 1 = k + (pos + pos2)
      BY <1>0, <2>2
    <3>4. QED  BY <1>0, <2>2, <3>2, <3>3
  <2>7. /\ t \in Text /\ Len(t) = Len(u) + Len(w)
        /\ \A k \in 1 .. Len(u) : t[k] = u[k]
        /\ \A k \in 1 .. Len(w) : t[Len(u) + k] = w[k]
    BY <2>5, <2>6, JoinText
  <2>8. Len(u) \in Nat /\ Len(w) \in Nat /\ Len(t) \in Nat
    BY <2>5, <2>6, <2>7, TextIs
  <2> HIDE DEF t, u, w
  <2> DEFINE l == stars(t)
             m == stars(s)
  <2>9. /\ l \in 0 .. Len(t) /\ (l # 0 => t[l] = "*")
        /\ m \in 0 .. Len(s) /\ \A j \in m + 1 .. Len(s) : s[j] # "*"
    BY <1>0, <2>8, FindLastIs DEF stars
  <2> HIDE DEF l, m
  <2>10. m >= pos + 1
    <3>1. SUFFICES ASSUME m < pos + 1 PROVE FALSE
      BY <1>0, <2>2, <2>9
    <3>2. pos + 1 \in m + 1 .. Len(s)
      BY <1>0, <2>2, <2>9, <3>1
    <3>3. QED  BY <2>2, <2>9, <3>2
  <2>11. l < m
    <3>1. CASE l <= Len(u)
      BY <1>0, <2>2, <2>5, <2>9, <2>10, <3>1
    <3>2. CASE l > Len(u)
      <4>1. PICK k \in 1 .. Len(w) : l = Len(u) + k
        <5>1. l - Len(u) \in 1 .. Len(w) /\ l = Len(u) + (l - Len(u))
          BY <2>7, <2>8, <2>9, <3>2
        <5>2. QED  BY <5>1
      <4>2. l # 0
        BY <2>8, <2>9, <3>2
      <4>3. s[k + (pos + pos2)] = "*"
        BY <2>6, <2>7, <2>9, <4>1, <4>2
      <4>4. k + (pos + pos2) <= Len(s)
        BY <1>0, <2>2, <2>6, <4>1
      <4>5. k + (pos + pos2) <= m
        <5>1. SUFFICES ASSUME k + (pos + pos2) > m PROVE FALSE
          BY <1>0, <2>2, <2>8, <2>9
        <5>2. k + (pos + pos2) \in m + 1 .. Len(s)
          BY <1>0, <2>2, <2>8, <2>9, <4>4, <5>1
        <5>3. QED  BY <2>9, <4>3, <5>2
      <4>6. QED  BY <1>0, <2>2, <2>5, <2>8, <2>9, <4>1, <4>5
    <3>3. QED  BY <2>8, <2>9, <3>1, <3>2
  <2>12. erased(s) = t
    BY <1>3, <1>6
  <2>13. QED  BY <1>4, <2>4, <2>7, <2>8, <2>9, <2>11, <2>12 DEF l, m
<1>7. QED  BY <1>5, <1>6

(* Each turn takes one comment; after as many as there are stars none is   *)
(* left.                                                                   *)
LEMMA WithoutBlocksIs ==
  ASSUME NEW s \in Text PROVE without_blocks(s) \in Text /\ ~HasBlock(without_blocks(s))
<1> DEFINE N == stars(s)
           h == [x \in (1 .. N) \X Text |-> erased(x[2])]
           Rec(g) == g = [n \in 0 .. N |-> IF n = 0 THEN s ELSE erased(g[n - 1])]
           left == CHOOSE g : Rec(g)
<1>1. N \in Nat
  BY ErasedIs
<1>2. h \in Steps(N, Text)
  BY ErasedIs DEF Steps
<1>3. \E g : Rec(g)
  <2> HIDE DEF N, h
  <2>1. PICK g \in [0 .. N -> Text] : Follows(g, N, s, h)
    <3>1. s \in Text
      OBVIOUS
    <3>2. QED  BY <1>1, <1>2, <3>1, Recursion, Zenon
  <2>2. ASSUME NEW n \in 0 .. N PROVE g[n] = IF n = 0 THEN s ELSE erased(g[n - 1])
    <3>1. CASE n = 0
      BY <2>1, <3>1 DEF Follows
    <3>2. CASE n # 0
      <4>1. n \in 1 .. N /\ n - 1 \in 0 .. N
        BY <1>1, <3>2
      <4>2. g[n - 1] \in Text
        BY <4>1
      <4>3. h[<<n, g[n - 1]>>] = erased(g[n - 1])
        BY <4>1, <4>2 DEF h
      <4>4. QED  BY <2>1, <3>2, <4>1, <4>3 DEF Follows
    <3>3. QED  BY <3>1, <3>2
  <2>3. g = [n \in 0 .. N |-> g[n]]
    OBVIOUS
  <2>4. QED  BY <2>2, <2>3
<1>4. Rec(left)
  BY <1>3
<1>5. without_blocks(s) = left[N]
  BY DEF without_blocks, stars
<1> HIDE DEF N, left
<1>6. left[0] = s /\ \A n \in 1 .. N : left[n] = erased(left[n - 1])
  <2>1. \A n \in 0 .. N : left[n] = IF n = 0 THEN s ELSE erased(left[n - 1])
    BY <1>4
  <2>2. QED  BY <1>1, <2>1
<1> DEFINE P == {n \in 0 .. N : /\ left[n] \in Text
                                /\ ~HasBlock(left[n]) \/ stars(left[n]) + n <= N}
<1>7. 0 \in P
  BY <1>1, <1>6 DEF N
<1>8. ASSUME NEW n \in 1 .. N, n - 1 \in P PROVE n \in P
  <2>1. left[n - 1] \in Text /\ left[n] = erased(left[n - 1])
    BY <1>6, <1>8
  <2>2. CASE ~HasBlock(left[n - 1])
    BY <1>8, <2>1, <2>2, ErasedIs
  <2>3. CASE HasBlock(left[n - 1])
    <3>1. stars(left[n - 1]) + (n - 1) <= N
      BY <1>8, <2>3
    <3>2. /\ left[n] \in Text /\ stars(left[n]) < stars(left[n - 1])
          /\ stars(left[n]) \in Nat /\ stars(left[n - 1]) \in Nat
      BY <2>1, <2>3, ErasedIs
    <3>3. stars(left[n]) + n <= N
      BY <1>1, <3>1, <3>2
    <3>4. QED  BY <3>2, <3>3
  <2>4. QED  BY <2>2, <2>3
<1> HIDE DEF P
<1>9. N \in P
  <2>1. 0 .. N \subseteq P
    BY <1>1, <1>7, <1>8, Induct
  <2>2. QED  BY <1>1, <2>1
<1>10. left[N] \in Text /\ (~HasBlock(left[N]) \/ stars(left[N]) + N <= N)
  BY <1>9 DEF P
<1>11. ~HasBlock(left[N])
  <2>1. SUFFICES ASSUME HasBlock(left[N]) PROVE FALSE
    OBVIOUS
  <2>2. stars(erased(left[N])) < stars(left[N]) /\ stars(left[N]) \in Nat
        /\ stars(erased(left[N])) \in Nat
    BY <1>10, <2>1, ErasedIs
  <2>3. QED  BY <1>1, <1>10, <2>1, <2>2
<1>12. QED  BY <1>5, <1>10, <1>11

(* No comment is left of either kind.                                      *)
LEMMA RemoveCommentsIs ==
  ASSUME NEW s \in Text
  PROVE  LET t == remove_comments(s) IN t \in Text /\ ~HasBlock(t) /\ ~HasLine(t)
<1> DEFINE w   == without_blocks(s)
           pos == find2(w, "/", "/", 1)
           Slashes(k) == k \in 1 .. Len(w) - 1 /\ w[k] = "/" /\ w[k + 1] = "/"
<1>1. w \in Text /\ ~HasBlock(w)
  BY WithoutBlocksIs
<1>2. remove_comments(s) = IF pos = 0 THEN w ELSE upto(w, pos - 1)
  BY DEF remove_comments
<1> HIDE DEF w
<1>3. Len(w) \in Nat
  BY <1>1, TextIs
<1>4. \/ pos = 0 /\ \A k \in Int : ~Slashes(k)
      \/ Slashes(pos) /\ \A k \in Int : Slashes(k) => pos <= k
  BY <1>1, Find2Is
<1> HIDE DEF pos
<1>5. CASE pos = 0
  <2>1. ~HasLine(w)
    BY <1>3, <1>4, <1>5 DEF HasLine
  <2>2. QED  BY <1>1, <1>2, <1>5, <2>1
<1>6. CASE pos # 0
  <2> DEFINE t == SubSeq(w, 1, pos - 1)
  <2>1. pos \in 1 .. Len(w) - 1
    BY <1>4, <1>6
  <2>2. 1 \in Int /\ pos - 1 \in Int /\ 1 <= 1 /\ pos - 1 <= Len(w)
    BY <1>3, <2>1
  <2>3. t \in Text /\ ~HasBlock(t)
    BY <1>1, <2>2, SubText, PartHasNoMore
  <2>4. /\ Len(t) = IF 1 <= pos - 1 THEN (pos - 1) - 1 + 1 ELSE 0
        /\ \A k \in 1 .. Len(t) : t[k] = w[k + 1 - 1]
    BY <1>1, <2>2, SubText
  <2> HIDE DEF t
  <2>5. Len(t) = pos - 1 /\ \A k \in 1 .. Len(t) : t[k] = w[k]
    BY <1>3, <2>1, <2>4
  <2>6. ~HasLine(t)
    <3>1. SUFFICES ASSUME NEW k \in 1 .. Len(t) - 1, t[k] = "/", t[k + 1] = "/" PROVE FALSE
      BY DEF HasLine
    <3>2. k \in 1 .. Len(t) /\ k + 1 \in 1 .. Len(t)
      BY <1>3, <2>1, <2>5, <3>1
    <3>3. Slashes(k)
      BY <1>3, <2>1, <2>5, <3>1, <3>2
    <3>4. QED  BY <1>3, <1>4, <1>6, <2>1, <2>5, <3>3
  <2>7. remove_comments(s) = t
    BY <1>2, <1>6 DEF t, upto
  <2>8. QED  BY <2>3, <2>6, <2>7
<1>7. QED  BY <1>5, <1>6

(* What strtrim leaves is a part of the text without white space at its    *)
(* ends; it is empty only if there is nothing but white space.             *)
LEMMA TrimIs ==
  ASSUME NEW s \in Text
  PROVE  LET t == strtrim(s)
         IN  /\ t \in Text
             /\ HasBlock(t) => HasBlock(s)
             /\ HasLine(t) => HasLine(s)
             /\ t = <<>> <=> \A k \in 1 .. Len(s) : s[k] = Space
             /\ t # <<>> => t[1] # Space /\ t[Len(t)] # Space
<1> DEFINE Ks == {k \in DOMAIN s : s[k] # Space}
           First1(k) == \A j \in Ks : k <= j
           Last1(k)  == \A j \in Ks : k >= j
           a == CHOOSE k \in Ks : First1(k)
           b == CHOOSE k \in Ks : Last1(k)
<1>0. Len(s) \in Nat
  BY TextIs
<1>a. Ks = {k \in 1 .. Len(s) : s[k] # Space}
  BY TextIs
<1>1. strtrim(s) = IF Ks = {} THEN <<>> ELSE SubSeq(s, a, b)
  BY DEF strtrim
<1>2. CASE Ks = {}
  <2>1. <<>> \in Text /\ ~HasBlock(<<>>) /\ ~HasLine(<<>>)
    BY DEF Text, HasBlock, HasLine
  <2>2. \A k \in 1 .. Len(s) : s[k] = Space
    BY <1>a, <1>2
  <2> HIDE DEF Ks
  <2>3. QED  BY <1>1, <1>2, <2>1, <2>2
<1>3. CASE Ks # {}
  <2>1. Ks \subseteq Nat /\ Ks \subseteq 0 .. Len(s) /\ \A k \in Ks : k \in 1 .. Len(s) /\ s[k] # Space
    <3> HIDE DEF Ks
    <3>1. QED  BY <1>0, <1>a
  <2> HIDE DEF Ks
  <2>2. (\E k \in Ks : First1(k)) /\ (\E k \in Ks : Last1(k))
    BY <1>0, <1>3, <2>1, FirstOf, LastOf
  <2> HIDE DEF First1, Last1
  <2>3. a \in Ks /\ First1(a) /\ b \in Ks /\ Last1(b)
    BY <2>2
  <2>4. a \in 1 .. Len(s) /\ b \in 1 .. Len(s) /\ a <= b /\ s[a] # Space /\ s[b] # Space
    BY <2>1, <2>3 DEF First1
  <2> HIDE DEF a, b
  <2> DEFINE t == SubSeq(s, a, b)
  <2>5. a \in Int /\ b \in Int /\ 1 <= a /\ b <= Len(s)
    BY <1>0, <2>4
  <2>6. /\ t \in Text
        /\ HasBlock(t) => HasBlock(s)
        /\ HasLine(t) => HasLine(s)
        /\ Len(t) = IF a <= b THEN b - a + 1 ELSE 0
        /\ \A k \in 1 .. Len(t) : t[k] = s[k + a - 1]
    BY <2>5, SubText, PartHasNoMore
  <2> HIDE DEF t
  <2>7. Len(t) = b - a + 1 /\ Len(t) >= 1 /\ Len(t) \in Nat /\ t # <<>>
    BY <1>0, <2>4, <2>6, TextIs
  <2>8. t[1] = s[a] /\ t[Len(t)] = s[b]
    <3>1. 1 \in 1 .. Len(t) /\ Len(t) \in 1 .. Len(t) /\ 1 + a - 1 = a /\ Len(t) + a - 1 = b
      BY <2>5, <2>7
    <3>2. t[1] = s[1 + a - 1] /\ t[Len(t)] = s[Len(t) + a - 1]
      BY <2>6, <3>1
    <3>3. QED  BY <3>1, <3>2
  <2>9. strtrim(s) = t
    BY <1>1, <1>3 DEF t
  <2>10. QED  BY <2>4, <2>6, <2>7, <2>8, <2>9
<1>4. QED  BY <1>2, <1>3

(* What read_param appends to buff is a text without comments.             *)
LEMMA StripIs ==
  ASSUME NEW s \in Text
  PROVE  strip(s) \in Text /\ ~HasBlock(strip(s)) /\ ~HasLine(strip(s))
BY RemoveCommentsIs, TrimIs DEF strip

LEMMA StripNothing == strip(<<>>) = <<>>
<1>1. find_last(<<>>, "*", 0) = 0
  BY DEF find_last
<1> DEFINE left == CHOOSE g : g = [n \in 0 .. 0 |-> IF n = 0 THEN <<>> ELSE erased(g[n - 1])]
<1>2. without_blocks(<<>>) = left[0]
  BY <1>1 DEF without_blocks
<1>3. left = [n \in 0 .. 0 |-> IF n = 0 THEN <<>> ELSE erased(left[n - 1])]
  <2> DEFINE g == [n \in 0 .. 0 |-> <<>>]
  <2>1. g = [n \in 0 .. 0 |-> IF n = 0 THEN <<>> ELSE erased(g[n - 1])]
    OBVIOUS
  <2> HIDE DEF g
  <2>2. QED  BY <2>1
<1>4. without_blocks(<<>>) = <<>>
  BY <1>2, <1>3
<1>5. find2(<<>>, "/", "/", 1) = 0
  BY DEF find2
<1>6. remove_comments(<<>>) = <<>>
  BY <1>4, <1>5 DEF remove_comments
<1>7. strtrim(<<>>) = <<>>
  BY DEF strtrim
<1>8. QED  BY <1>6, <1>7 DEF strip

(* What strip leaves of a line, and so every piece that read_param puts    *)
(* into buff, has neither a closed comment nor one to the end of the line  *)
(* (misc.cpp): that an erased comment takes what follows along never       *)
(* leaves another one behind.                                              *)
THEOREM CommentsGone ==
  \A s \in Text : strip(s) \in Text /\ ~HasBlock(strip(s)) /\ ~HasLine(strip(s))
BY StripIs

(***************************************************************************)
(* Brackets.                                                               *)
(***************************************************************************)

weight(c) == IF c = Open THEN 1 ELSE IF c = Close THEN -1 ELSE 0

LEMMA WeightIs == ASSUME NEW c PROVE weight(c) \in Int
BY DEF weight

(* What opened counts up to each character. *)
counted(s) ==
  CHOOSE g : g = [k \in 0 .. Len(s) |-> IF k = 0 THEN 0 ELSE g[k - 1] + weight(s[k])]

(* The sums of integers exist. *)
LEMMA SumsExist ==
  ASSUME NEW N \in Nat, NEW w \in [1 .. N -> Int]
  PROVE  \E g \in [0 .. N -> Int] : g[0] = 0 /\ \A n \in 1 .. N : g[n] = g[n - 1] + w[n]
<1> DEFINE h == [x \in (1 .. N) \X Int |-> x[2] + w[x[1]]]
<1>1. h \in Steps(N, Int) /\ 0 \in Int
  BY DEF Steps
<1>2. ASSUME NEW n \in 1 .. N, NEW i \in Int PROVE h[<<n, i>>] = i + w[n]
  OBVIOUS
<1> HIDE DEF h
<1>3. PICK g \in [0 .. N -> Int] : Follows(g, N, 0, h)
  BY <1>1, Recursion, Zenon
<1>4. ASSUME NEW n \in 1 .. N PROVE g[n] = g[n - 1] + w[n]
  <2>1. g[n - 1] \in Int
    OBVIOUS
  <2>2. QED  BY <1>2, <1>3, <2>1 DEF Follows
<1>5. QED  BY <1>3, <1>4 DEF Follows

LEMMA CountedIs ==
  ASSUME NEW s \in Text
  PROVE  /\ counted(s) \in [0 .. Len(s) -> Int]
         /\ counted(s)[0] = 0
         /\ \A k \in 1 .. Len(s) : counted(s)[k] = counted(s)[k - 1] + weight(s[k])
         /\ opened(s) = counted(s)[Len(s)]
         /\ opened(s) \in Int
<1> DEFINE N == Len(s)
           w == [k \in 1 .. N |-> weight(s[k])]
           Rec(g) == g = [k \in 0 .. N |-> IF k = 0 THEN 0 ELSE g[k - 1] + weight(s[k])]
           c == counted(s)
<1>1. N \in Nat
  BY TextIs
<1>2. w \in [1 .. N -> Int]
  BY WeightIs
<1>3. \E g : Rec(g)
  <2>1. PICK g \in [0 .. N -> Int] : g[0] = 0 /\ \A n \in 1 .. N : g[n] = g[n - 1] + w[n]
    <3> HIDE DEF w, N
    <3>1. QED  BY <1>1, <1>2, SumsExist
  <2>2. \A n \in 1 .. N : w[n] = weight(s[n])
    OBVIOUS
  <2> HIDE DEF N, w
  <2>3. \A n \in 0 .. N : g[n] = IF n = 0 THEN 0 ELSE g[n - 1] + weight(s[n])
    BY <1>1, <2>1, <2>2
  <2>4. g = [n \in 0 .. N |-> g[n]]
    OBVIOUS
  <2>5. QED  BY <2>3, <2>4
<1>4. Rec(c)
  BY <1>3 DEF counted
<1>5. opened(s) = c[N]
  BY DEF opened, counted, weight
<1> HIDE DEF N, c
<1>6. /\ c[0] = 0 /\ \A k \in 1 .. N : c[k] = c[k - 1] + weight(s[k])
      /\ c = [k \in 0 .. N |-> c[k]]
  <2>1. \A k \in 0 .. N : c[k] = IF k = 0 THEN 0 ELSE c[k - 1] + weight(s[k])
    BY <1>4
  <2>2. c = [k \in 0 .. N |-> c[k]]
    BY <1>4
  <2> HIDE DEF Rec
  <2>3. c[0] = 0
    BY <1>1, <2>1
  <2>4. \A k \in 1 .. N : c[k] = c[k - 1] + weight(s[k])
    BY <1>1, <2>1
  <2>5. QED  BY <2>2, <2>3, <2>4
<1> DEFINE P == {k \in 0 .. N : c[k] \in Int}
<1>7. 0 .. N \subseteq P
  <2>1. 0 \in P
    BY <1>1, <1>6
  <2>2. ASSUME NEW k \in 1 .. N, k - 1 \in P PROVE k \in P
    <3>1. weight(s[k]) \in Int
      BY WeightIs
    <3>2. c[k - 1] \in Int /\ c[k] = c[k - 1] + weight(s[k])
      BY <1>6, <2>2
    <3>3. QED  BY <1>1, <3>1, <3>2
  <2> HIDE DEF P
  <2>3. QED  BY <1>1, <2>1, <2>2, Induct
<1>8. \A k \in 0 .. N : c[k] \in Int
  BY <1>7
<1>9. c \in [0 .. N -> Int]
  BY <1>6, <1>8
<1>10. N \in 0 .. N
  BY <1>1
<1>11. c[N] \in Int
  BY <1>8, <1>10
<1> HIDE DEF P
<1>12. QED  BY <1>5, <1>6, <1>9, <1>11 DEF N, c

(* The brackets of two texts, one after the other.                         *)
LEMMA OpenedJoins ==
  ASSUME NEW s \in Text, NEW t \in Text PROVE opened(s \o t) = opened(s) + opened(t)
<1> DEFINE u == s \o t
           a == counted(s)
           b == counted(t)
           c == counted(u)
<1>1. /\ u \in Text /\ Len(s) \in Nat /\ Len(t) \in Nat /\ Len(u) = Len(s) + Len(t)
      /\ \A k \in 1 .. Len(s) : u[k] = s[k]
      /\ \A k \in 1 .. Len(t) : u[Len(s) + k] = t[k]
  BY JoinText, TextIs
<1> HIDE DEF u
<1>2. /\ a \in [0 .. Len(s) -> Int] /\ a[0] = 0
      /\ \A k \in 1 .. Len(s) : a[k] = a[k - 1] + weight(s[k])
      /\ opened(s) = a[Len(s)]
  BY CountedIs
<1>3. /\ b \in [0 .. Len(t) -> Int] /\ b[0] = 0
      /\ \A k \in 1 .. Len(t) : b[k] = b[k - 1] + weight(t[k])
      /\ opened(t) = b[Len(t)]
  BY CountedIs
<1>4. /\ c \in [0 .. Len(u) -> Int] /\ c[0] = 0
      /\ \A k \in 1 .. Len(u) : c[k] = c[k - 1] + weight(u[k])
      /\ opened(u) = c[Len(u)]
  BY <1>1, CountedIs
<1> HIDE DEF a, b, c
<1>5. \A k \in 0 .. Len(s) : c[k] = a[k]
  <2> DEFINE P == {k \in 0 .. Len(s) : c[k] = a[k]}
  <2>1. 0 \in P
    BY <1>1, <1>2, <1>4
  <2>2. ASSUME NEW k \in 1 .. Len(s), k - 1 \in P PROVE k \in P
    BY <1>1, <1>2, <1>4, <2>2
  <2> HIDE DEF P
  <2>3. 0 .. Len(s) \subseteq P
    BY <1>1, <2>1, <2>2, Induct
  <2>4. QED  BY <2>3 DEF P
<1>6. \A k \in 0 .. Len(t) : c[Len(s) + k] = a[Len(s)] + b[k]
  <2> DEFINE P == {k \in 0 .. Len(t) : c[Len(s) + k] = a[Len(s)] + b[k]}
  <2>1. 0 \in P
    BY <1>1, <1>2, <1>3, <1>5
  <2>2. ASSUME NEW k \in 1 .. Len(t), k - 1 \in P PROVE k \in P
    <3>1. /\ Len(s) + k \in 1 .. Len(u) /\ (Len(s) + k) - 1 = Len(s) + (k - 1)
          /\ k - 1 \in 0 .. Len(t)
      BY <1>1
    <3>2. c[Len(s) + k] = c[Len(s) + (k - 1)] + weight(t[k])
      BY <1>1, <1>4, <3>1
    <3>3. c[Len(s) + (k - 1)] = a[Len(s)] + b[k - 1]
      BY <2>2
    <3>4. b[k - 1] \in Int /\ a[Len(s)] \in Int
      BY <1>1, <1>2, <1>3, <3>1
    <3>7. weight(t[k]) \in Int
      BY WeightIs
    <3>5. b[k] = b[k - 1] + weight(t[k])
      BY <1>3
    <3>6. QED  BY <3>2, <3>3, <3>4, <3>5, <3>7
  <2> HIDE DEF P
  <2>3. 0 .. Len(t) \subseteq P
    BY <1>1, <2>1, <2>2, Induct
  <2>4. QED  BY <2>3 DEF P
<1>7. QED  BY <1>1, <1>2, <1>3, <1>4, <1>6 DEF u

(* The brackets of the first n lines of a file.                            *)
LEMMA OpenedInIs ==
  ASSUME NEW m \in Nat, \A n \in 1 .. m : file.lines[n] \in Text
  PROVE  /\ openedIn(m) \in Int
         /\ m = 0 => openedIn(m) = 0
         /\ m > 0 => openedIn(m) = openedIn(m - 1) + opened(strip(file.lines[m]))
<1> DEFINE w(n) == opened(strip(file.lines[n]))
           Rec(i, g) == g = [k \in 0 .. i |-> IF k = 0 THEN 0 ELSE g[k - 1] + w(k)]
           sum(i) == CHOOSE g : Rec(i, g)
<1>1. \A n \in 1 .. m : w(n) \in Int
  BY StripIs, CountedIs
<1>2. \A i : openedIn(i) = sum(i)[i]
  BY DEF openedIn
<1> HIDE DEF w
<1>3. ASSUME NEW i \in 0 .. m
      PROVE  sum(i)[0] = 0 /\ \A n \in 1 .. i : sum(i)[n] = sum(i)[n - 1] + w(n)
  <2> DEFINE v == [n \in 1 .. i |-> w(n)]
  <2>1. v \in [1 .. i -> Int] /\ i \in Nat /\ \A n \in 1 .. i : v[n] = w(n)
    BY <1>1
  <2> HIDE DEF v
  <2>2. PICK g \in [0 .. i -> Int] : g[0] = 0 /\ \A n \in 1 .. i : g[n] = g[n - 1] + v[n]
    BY <2>1, SumsExist
  <2>3. \A n \in 0 .. i : g[n] = IF n = 0 THEN 0 ELSE g[n - 1] + w(n)
    BY <2>1, <2>2
  <2>4. g = [n \in 0 .. i |-> g[n]]
    OBVIOUS
  <2>5. Rec(i, g)
    BY <2>3, <2>4
  <2>6. Rec(i, sum(i))
    BY <2>5
  <2> HIDE DEF sum
  <2>7. \A n \in 0 .. i : sum(i)[n] = IF n = 0 THEN 0 ELSE sum(i)[n - 1] + w(n)
    BY <2>6
  <2>8. QED  BY <2>1, <2>7
<1> HIDE DEF sum
<1>4. ASSUME NEW i \in 0 .. m PROVE \A n \in 0 .. i : sum(i)[n] \in Int
  <2> DEFINE P == {n \in 0 .. i : sum(i)[n] \in Int}
  <2>1. 0 \in P
    BY <1>3
  <2>2. ASSUME NEW n \in 1 .. i, n - 1 \in P PROVE n \in P
    <3>1. w(n) \in Int /\ sum(i)[n - 1] \in Int
      BY <1>1, <2>2
    <3>2. QED  BY <1>3, <3>1
  <2> HIDE DEF P
  <2>3. 0 .. i \subseteq P
    BY <2>1, <2>2, Induct
  <2>4. QED  BY <2>3 DEF P
<1>5. CASE m = 0
  BY <1>2, <1>3, <1>4, <1>5
<1>6. CASE m > 0
  <2> DEFINE P == {n \in 0 .. m - 1 : sum(m)[n] = sum(m - 1)[n]}
  <2>0. m - 1 \in 0 .. m /\ m \in 0 .. m /\ m - 1 \in Nat
    BY <1>6
  <2>1. 0 \in P
    BY <1>3, <2>0
  <2>2. ASSUME NEW n \in 1 .. m - 1, n - 1 \in P PROVE n \in P
    <3>1. n \in 1 .. m /\ sum(m)[n - 1] = sum(m - 1)[n - 1]
      BY <2>2
    <3>2. sum(m)[n] = sum(m)[n - 1] + w(n) /\ sum(m - 1)[n] = sum(m - 1)[n - 1] + w(n)
      BY <1>3, <2>0, <3>1
    <3>3. QED  BY <3>1, <3>2
  <2> HIDE DEF P
  <2>3. m - 1 \in P
    <3>1. 0 .. m - 1 \subseteq P
      BY <2>0, <2>1, <2>2, Induct
    <3>2. QED  BY <2>0, <3>1
  <2>4. sum(m)[m - 1] = sum(m - 1)[m - 1]
    BY <2>3 DEF P
  <2>5. sum(m)[m] = sum(m)[m - 1] + w(m)
    BY <1>3, <1>6, <2>0
  <2>6. sum(m)[m] \in Int
    BY <1>4, <2>0
  <2>7. QED  BY <1>2, <1>6, <2>4, <2>5, <2>6 DEF w
<1>7. QED  BY <1>5, <1>6

(***************************************************************************)
(* The parts between semicolons.                                           *)
(***************************************************************************)

(* What strsplit has made of the characters so far. *)
splitOf(s) ==
  CHOOSE g : g = [k \in 0 .. Len(s) |-> IF k = 0 THEN << <<>> >> ELSE extended[<<g[k - 1], s[k]>>]]


LEMMA ExtendedIs ==
  ASSUME NEW ps \in SomeParts, NEW c \in Char
  PROVE  /\ extended[<<ps, c>>] \in SomeParts
         /\ c = Semicolon => /\ Len(extended[<<ps, c>>]) = Len(ps) + 1
                             /\ extended[<<ps, c>>] = Append(ps, <<>>)
         /\ c # Semicolon => /\ Len(extended[<<ps, c>>]) = Len(ps)
                             /\ extended[<<ps, c>>] = [ps EXCEPT ![Len(ps)] = Append(@, c)]
<1>0. ps \in Seq(Text) /\ ps # <<>> /\ Len(ps) \in Nat /\ Len(ps) >= 1
  BY DEF SomeParts
<1>1. extended[<<ps, c>>] = IF c = Semicolon THEN Append(ps, <<>>)
                          ELSE [ps EXCEPT ![Len(ps)] = Append(@, c)]
  BY <1>0 DEF extended
<1>2. CASE c = Semicolon
  <2>1. <<>> \in Text
    BY DEF Text
  <2>2. Append(ps, <<>>) \in Seq(Text) /\ Len(Append(ps, <<>>)) = Len(ps) + 1
    BY <1>0, <2>1
  <2>3. Append(ps, <<>>) # <<>>
    BY <1>0, <2>2
  <2>4. QED  BY <1>1, <1>2, <2>2, <2>3 DEF SomeParts
<1>3. CASE c # Semicolon
  <2> DEFINE qs == [ps EXCEPT ![Len(ps)] = Append(@, c)]
  <2>1. Append(ps[Len(ps)], c) \in Text
    <3>1. ps[Len(ps)] \in Text
      BY <1>0
    <3>2. QED  BY <3>1 DEF Text
  <2>2. qs \in Seq(Text) /\ Len(qs) = Len(ps)
    BY <1>0, <2>1
  <2>3. qs # <<>>
    BY <1>0, <2>2
  <2>4. QED  BY <1>1, <1>3, <2>2, <2>3 DEF SomeParts
<1>4. QED  BY <1>2, <1>3

LEMMA SplitOfIs ==
  ASSUME NEW s \in Text
  PROVE  /\ \A k \in 0 .. Len(s) : splitOf(s)[k] \in SomeParts
         /\ splitOf(s)[0] = << <<>> >>
         /\ \A k \in 1 .. Len(s) : splitOf(s)[k] = extended[<<splitOf(s)[k - 1], s[k]>>]
         /\ strsplit(s) = IF s = <<>> THEN <<>> ELSE splitOf(s)[Len(s)]
<1> DEFINE N == Len(s)
           e == << <<>> >>
           h == [x \in (1 .. N) \X SomeParts |-> extended[<<x[2], s[x[1]]>>]]
           Rec(g) == g = [k \in 0 .. N |-> IF k = 0 THEN e ELSE extended[<<g[k - 1], s[k]>>]]
           c == splitOf(s)
<1>1. N \in Nat /\ \A k \in 1 .. N : s[k] \in Char
  BY TextIs
<1>2. h \in Steps(N, SomeParts)
  BY <1>1, ExtendedIs DEF Steps
<1>3. e \in SomeParts
  BY DEF SomeParts, Text
<1> HIDE DEF e
<1>4. \E g : Rec(g)
  <2> HIDE DEF N, h
  <2>1. PICK g \in [0 .. N -> SomeParts] : Follows(g, N, e, h)
    <3>1. e \in SomeParts
      BY <1>3
    <3>2. QED  BY <1>1, <1>2, <3>1, Recursion, Zenon
  <2>2. ASSUME NEW n \in 0 .. N
        PROVE  g[n] = IF n = 0 THEN e ELSE extended[<<g[n - 1], s[n]>>]
    <3>1. CASE n = 0
      BY <2>1, <3>1 DEF Follows
    <3>2. CASE n # 0
      <4>1. n \in 1 .. N /\ n - 1 \in 0 .. N
        BY <1>1, <3>2
      <4>2. g[n - 1] \in SomeParts
        BY <4>1
      <4>3. h[<<n, g[n - 1]>>] = extended[<<g[n - 1], s[n]>>]
        BY <4>1, <4>2 DEF h
      <4>4. QED  BY <2>1, <3>2, <4>1, <4>3 DEF Follows
    <3>3. QED  BY <3>1, <3>2
  <2>3. g = [n \in 0 .. N |-> g[n]]
    OBVIOUS
  <2>4. QED  BY <2>2, <2>3
<1>5. Rec(c)
  BY <1>4 DEF splitOf, e
<1>6. strsplit(s) = IF s = <<>> THEN <<>> ELSE c[N]
  BY DEF strsplit, splitOf
<1> HIDE DEF N, c
<1>7. c[0] = e /\ \A k \in 1 .. N : c[k] = extended[<<c[k - 1], s[k]>>]
  <2>1. \A k \in 0 .. N : c[k] = IF k = 0 THEN e ELSE extended[<<c[k - 1], s[k]>>]
    BY <1>5
  <2>2. \A k \in 1 .. N : k \in 0 .. N /\ k # 0
    BY <1>1
  <2>3. 0 \in 0 .. N
    BY <1>1
  <2> HIDE DEF Rec
  <2>4. QED  BY <2>1, <2>2, <2>3
<1> DEFINE P == {k \in 0 .. N : c[k] \in SomeParts}
<1>8. 0 .. N \subseteq P
  <2>1. 0 \in P
    BY <1>1, <1>3, <1>7
  <2>2. ASSUME NEW k \in 1 .. N, k - 1 \in P PROVE k \in P
    <3>1. c[k - 1] \in SomeParts /\ s[k] \in Char /\ k \in 0 .. N
      BY <1>1, <2>2
    <3>2. c[k] = extended[<<c[k - 1], s[k]>>]
      BY <1>7
    <3>3. c[k] \in SomeParts
      BY <3>1, <3>2, ExtendedIs
    <3>4. QED  BY <3>1, <3>3
  <2> HIDE DEF P
  <2>3. QED  BY <1>1, <2>1, <2>2, Induct
<1>9. \A k \in 0 .. N : c[k] \in SomeParts
  BY <1>8
<1>10. QED  BY <1>6, <1>7, <1>9 DEF N, c, e

(* Of a text with anything in it there are parts, and a single one is all  *)
(* of it.                                                                  *)
LEMMA StrsplitIs ==
  ASSUME NEW s \in Text
  PROVE  /\ strsplit(s) \in Seq(Text)
         /\ s # <<>> => Len(strsplit(s)) >= 1
         /\ Len(strsplit(s)) = 1 => strsplit(s)[1] = s
<1> DEFINE c == splitOf(s)
<1>1. Len(s) \in Nat /\ \A k \in 1 .. Len(s) : s[k] \in Char
  BY TextIs
<1>2. /\ \A k \in 0 .. Len(s) : c[k] \in SomeParts
      /\ c[0] = << <<>> >>
      /\ \A k \in 1 .. Len(s) : c[k] = extended[<<c[k - 1], s[k]>>]
      /\ strsplit(s) = IF s = <<>> THEN <<>> ELSE c[Len(s)]
  BY SplitOfIs
<1> HIDE DEF c
<1> DEFINE Whole1(k) == Len(c[k]) = 1 => /\ c[k][1] \in Text /\ Len(c[k][1]) = k
                                         /\ \A j \in 1 .. k : c[k][1][j] = s[j]
           P == {k \in 0 .. Len(s) : Whole1(k)}
<1>3. 0 \in P
  <2>1. Whole1(0)
    BY <1>2 DEF Text
  <2>2. QED  BY <1>1, <2>1
<1>4. ASSUME NEW k \in 1 .. Len(s), k - 1 \in P PROVE k \in P
  <2>1. SUFFICES ASSUME Len(c[k]) = 1
                 PROVE  /\ c[k][1] \in Text /\ Len(c[k][1]) = k
                        /\ \A j \in 1 .. k : c[k][1][j] = s[j]
    OBVIOUS
  <2>2. /\ k - 1 \in 0 .. Len(s) /\ c[k - 1] \in SomeParts /\ s[k] \in Char
        /\ c[k] = extended[<<c[k - 1], s[k]>>]
    BY <1>1, <1>2
  <2> DEFINE ps == c[k - 1]
             qs == c[k]
             t  == ps[1]
  <2>3. Len(ps) \in Nat /\ Len(ps) >= 1 /\ ps \in Seq(Text)
    BY <2>2 DEF SomeParts
  <2>4. s[k] # Semicolon /\ Len(ps) = 1 /\ qs = [ps EXCEPT ![Len(ps)] = Append(@, s[k])]
    <3>1. ps \in SomeParts /\ s[k] \in Char /\ qs = extended[<<ps, s[k]>>] /\ Len(qs) = 1
      BY <2>1, <2>2
    <3> HIDE DEF ps, qs
    <3>2. s[k] = Semicolon => Len(qs) = Len(ps) + 1
      BY <3>1, ExtendedIs
    <3>3. s[k] # Semicolon => /\ Len(qs) = Len(ps)
                              /\ qs = [ps EXCEPT ![Len(ps)] = Append(@, s[k])]
      BY <3>1, ExtendedIs
    <3>4. s[k] # Semicolon
      BY <2>3, <3>1, <3>2
    <3>5. QED  BY <3>1, <3>3, <3>4
  <2>5. t \in Text /\ Len(t) = k - 1 /\ \A j \in 1 .. k - 1 : t[j] = s[j]
    BY <1>4, <2>4
  <2>6. qs[1] = Append(t, s[k])
    BY <2>3, <2>4
  <2> HIDE DEF ps, qs, t
  <2>7. /\ Append(t, s[k]) \in Text /\ Len(Append(t, s[k])) = k
        /\ \A j \in 1 .. k : Append(t, s[k])[j] = s[j]
    BY <2>2, <2>5 DEF Text
  <2>8. QED  BY <2>6, <2>7 DEF qs
<1> HIDE DEF P
<1>5. Len(s) \in P
  <2>1. 0 .. Len(s) \subseteq P
    BY <1>1, <1>3, <1>4, Induct
  <2>2. QED  BY <1>1, <2>1
<1>6. Whole1(Len(s))
  BY <1>5 DEF P
<1>7. CASE s = <<>>
  <2>1. strsplit(s) = <<>>
    BY <1>2, <1>7
  <2>2. <<>> \in Seq(Text) /\ Len(<<>>) = 0
    OBVIOUS
  <2>3. strsplit(s) \in Seq(Text) /\ Len(strsplit(s)) = 0
    BY <2>1, <2>2
  <2>4. QED  BY <1>7, <2>3
<1>8. CASE s # <<>>
  <2>1. strsplit(s) = c[Len(s)] /\ c[Len(s)] \in SomeParts
    BY <1>1, <1>2, <1>8
  <2>2. strsplit(s) \in Seq(Text) /\ Len(strsplit(s)) >= 1
    BY <2>1 DEF SomeParts
  <2>3. ASSUME Len(strsplit(s)) = 1 PROVE strsplit(s)[1] = s
    <3> DEFINE u == strsplit(s)[1]
    <3>1. u \in Text /\ Len(u) = Len(s) /\ \A j \in 1 .. Len(s) : u[j] = s[j]
      BY <1>6, <2>1, <2>3
    <3> HIDE DEF u
    <3>2. u = s
      BY <3>1 DEF Text
    <3>3. QED  BY <3>2 DEF u
  <2>4. QED  BY <2>2, <2>3
<1>9. QED  BY <1>7, <1>8

(* An expression with the name of the group in front. *)
prefixed(t) == (pre_delim \o <<".">>) \o strtrim(t) \o <<Semicolon>>

(* What str is after each of the expressions. *)
expansion(es) ==
  CHOOSE g : g = [k \in 0 .. Len(es) - 1 |->
                    IF k = 0 THEN <<>> ELSE g[k - 1] \o prefixed(es[k])]

LEMMA PrefixedIs ==
  ASSUME NEW t \in Text, pre_delim \in Text
  PROVE  prefixed(t) \in Text /\ prefixed(t) # <<>>
<1> DEFINE pre == pre_delim \o <<".">>
           u == strtrim(t)
<1>1. pre \in Text
  BY Characters DEF Text
<1>2. u \in Text
  BY TrimIs
<1> HIDE DEF pre, u
<1>3. pre \o u \in Text
  BY <1>1, <1>2, JoinText
<1>4. <<Semicolon>> \in Text /\ Len(<<Semicolon>>) = 1
  BY Characters DEF Text
<1>5. /\ pre \o u \o <<Semicolon>> \in Text
      /\ Len(pre \o u \o <<Semicolon>>) = Len(pre \o u) + 1
  BY <1>3, <1>4, JoinText
<1>6. Len(pre \o u) \in Nat
  BY <1>3, TextIs
<1>7. pre \o u \o <<Semicolon>> # <<>>
  BY <1>5, <1>6
<1>8. QED  BY <1>5, <1>7 DEF prefixed, pre, u

LEMMA ExpansionIs ==
  ASSUME NEW es \in Seq(Text), Len(es) >= 1, pre_delim \in Text
  PROVE  /\ \A k \in 0 .. Len(es) - 1 : expansion(es)[k] \in Text
         /\ expansion(es)[0] = <<>>
         /\ \A k \in 1 .. Len(es) - 1 :
              expansion(es)[k] = expansion(es)[k - 1] \o prefixed(es[k])
         /\ expanded(es) = expansion(es)[Len(es) - 1]
<1> DEFINE N == Len(es) - 1
           e == <<>>
           h == [x \in (1 .. N) \X Text |-> x[2] \o prefixed(es[x[1]])]
           Rec(g) == g = [k \in 0 .. N |-> IF k = 0 THEN e ELSE g[k - 1] \o prefixed(es[k])]
           c == expansion(es)
<1>1. N \in Nat /\ \A k \in 1 .. N : es[k] \in Text
  OBVIOUS
<1>2. /\ \A k \in 1 .. N : prefixed(es[k]) \in Text
      /\ e \in Text
  BY <1>1, PrefixedIs, NoText
<1>3. expanded(es) = c[N]
  BY DEF expanded, expansion, prefixed
<1> HIDE DEF e
<1>4. h \in Steps(N, Text)
  BY <1>2, JoinText DEF Steps
<1>5. \E g : Rec(g)
  <2> HIDE DEF N, h
  <2>1. PICK g \in [0 .. N -> Text] : Follows(g, N, e, h)
    <3>1. e \in Text
      BY <1>2
    <3>2. QED  BY <1>1, <1>4, <3>1, Recursion, Zenon
  <2>2. ASSUME NEW n \in 0 .. N PROVE g[n] = IF n = 0 THEN e ELSE g[n - 1] \o prefixed(es[n])
    <3>1. CASE n = 0
      BY <2>1, <3>1 DEF Follows
    <3>2. CASE n # 0
      <4>1. n \in 1 .. N /\ n - 1 \in 0 .. N
        BY <1>1, <3>2
      <4>2. g[n - 1] \in Text
        BY <4>1
      <4>3. h[<<n, g[n - 1]>>] = g[n - 1] \o prefixed(es[n])
        BY <4>1, <4>2 DEF h
      <4>4. QED  BY <2>1, <3>2, <4>1, <4>3 DEF Follows
    <3>3. QED  BY <3>1, <3>2
  <2>3. g = [n \in 0 .. N |-> g[n]]
    OBVIOUS
  <2>4. QED  BY <2>2, <2>3
<1>6. Rec(c)
  BY <1>5 DEF expansion, e
<1> HIDE DEF N, c
<1>7. c[0] = e /\ \A k \in 1 .. N : c[k] = c[k - 1] \o prefixed(es[k])
  <2>1. \A k \in 0 .. N : c[k] = IF k = 0 THEN e ELSE c[k - 1] \o prefixed(es[k])
    BY <1>6
  <2>2. \A k \in 1 .. N : k \in 0 .. N /\ k # 0
    BY <1>1
  <2>3. 0 \in 0 .. N
    BY <1>1
  <2> HIDE DEF Rec
  <2>4. QED  BY <2>1, <2>2, <2>3
<1> DEFINE P == {k \in 0 .. N : c[k] \in Text}
<1>8. 0 .. N \subseteq P
  <2>1. 0 \in P
    BY <1>1, <1>2, <1>7
  <2>2. ASSUME NEW k \in 1 .. N, k - 1 \in P PROVE k \in P
    <3>1. c[k - 1] \in Text /\ prefixed(es[k]) \in Text /\ k \in 0 .. N
      BY <1>1, <1>2, <2>2
    <3>2. c[k] = c[k - 1] \o prefixed(es[k])
      BY <1>7
    <3>3. c[k] \in Text
      BY <3>1, <3>2, JoinText
    <3>4. QED  BY <3>1, <3>3
  <2> HIDE DEF P
  <2>3. QED  BY <1>1, <2>1, <2>2, Induct
<1>9. \A k \in 0 .. N : c[k] \in Text
  BY <1>8
<1>10. QED  BY <1>3, <1>7, <1>9 DEF N, c, e

(* What the expressions of a group become: a text, with something in it if *)
(* there is one at all.                                                    *)
LEMMA ExpandedIs ==
  ASSUME NEW es \in Seq(Text), Len(es) >= 1, pre_delim \in Text
  PROVE  expanded(es) \in Text /\ (Len(es) >= 2 => expanded(es) # <<>>)
<1> DEFINE N == Len(es) - 1
           c == expansion(es)
<1>1. N \in 0 .. N /\ N \in Nat /\ (Len(es) >= 2 => N \in 1 .. N /\ N - 1 \in 0 .. N)
  OBVIOUS
<1>2. /\ \A k \in 0 .. N : c[k] \in Text
      /\ \A k \in 1 .. N : c[k] = c[k - 1] \o prefixed(es[k])
      /\ expanded(es) = c[N]
  BY ExpansionIs
<1>3. ASSUME Len(es) >= 2 PROVE c[N] # <<>>
  <2>1. es[N] \in Text
    BY <1>1, <1>3
  <2> DEFINE t == prefixed(es[N])
  <2>2. t \in Text /\ t # <<>>
    BY <2>1, PrefixedIs
  <2> HIDE DEF t, c
  <2>3. c[N] = c[N - 1] \o t /\ c[N - 1] \in Text
    BY <1>1, <1>2, <1>3 DEF t
  <2>4. Len(t) >= 1 /\ Len(t) \in Nat /\ Len(c[N - 1]) \in Nat
    BY <2>2, <2>3 DEF Text
  <2>5. Len(c[N]) = Len(c[N - 1]) + Len(t)
    BY <2>2, <2>3, JoinText
  <2>6. QED  BY <2>4, <2>5
<1> HIDE DEF N, c
<1>4. QED  BY <1>1, <1>2, <1>3

(***************************************************************************)
(* The positions that read_param looks for in buff.                        *)
(***************************************************************************)

(* A position in a text from which on everything is taken, or none is.     *)
LEMMA FromIs ==
  ASSUME NEW s \in Text, NEW i \in Nat, i >= 1 PROVE from(s, i) \in Text
BY SubText, TextIs DEF from

LEMMA UptoIs ==
  ASSUME NEW s \in Text, NEW i \in Int, i <= Len(s)
  PROVE  /\ upto(s, i) \in Text
         /\ Len(upto(s, i)) = IF 1 <= i THEN i ELSE 0
         /\ \A k \in 1 .. i : upto(s, i)[k] = s[k]
<1>1. 1 \in Int /\ 1 <= 1
  OBVIOUS
<1>2. /\ upto(s, i) \in Text
      /\ Len(upto(s, i)) = IF 1 <= i THEN i - 1 + 1 ELSE 0
      /\ \A k \in 1 .. Len(upto(s, i)) : upto(s, i)[k] = s[k + 1 - 1]
  BY <1>1, SubText DEF upto
<1> HIDE DEF upto
<1>3. QED  BY <1>2

(* The first place of c from i on, if there is one. *)
LEMMA FindIs ==
  ASSUME NEW s \in Text, NEW c, NEW i \in Nat, i >= 1
  PROVE  find(s, c, i) # 0 => find(s, c, i) \in i .. Len(s) /\ s[find(s, c, i)] = c
<1> DEFINE First1(k) == s[k] = c /\ \A j \in i .. k - 1 : s[j] # c
           S == {k \in i .. Len(s) : s[k] = c}
<1>1. CASE S = {}
  BY <1>1 DEF find
<1>2. CASE S # {}
  <2>1. PICK k \in S : \A j \in S : k <= j
    <3>1. S \subseteq Nat
      BY TextIs
    <3> HIDE DEF S
    <3>2. QED  BY <1>2, <3>1, FirstOf
  <2>2. k \in i .. Len(s) /\ s[k] = c /\ \A j \in i .. k - 1 : s[j] # c
    BY <2>1, TextIs
  <2>3. First1(k)
    BY <2>2
  <2>4. find(s, c, i) = CHOOSE x \in i .. Len(s) : First1(x)
    BY <2>2 DEF find
  <2> HIDE DEF First1, S
  <2>5. find(s, c, i) \in i .. Len(s) /\ First1(find(s, c, i))
    BY <2>2, <2>3, <2>4
  <2>6. QED  BY <2>5 DEF First1
<1>3. QED  BY <1>1, <1>2

(* The place of the first of some characters, or the end. *)
LEMMA FirstOrEnd ==
  ASSUME NEW N \in Nat, NEW a \in Nat, NEW Ks, Ks \subseteq a .. N
  PROVE  LET k1 == IF Ks = {} THEN N + 1 ELSE CHOOSE k \in Ks : \A j \in Ks : k <= j
         IN  k1 \in Ks \cup {N + 1}
<1> DEFINE First1(k) == \A j \in Ks : k <= j
<1>1. CASE Ks = {}
  BY <1>1
<1>2. CASE Ks # {}
  <2>1. Ks \subseteq Nat
    OBVIOUS
  <2>2. PICK k \in Ks : First1(k)
    BY <1>2, <2>1, FirstOf
  <2> HIDE DEF First1
  <2>3. (CHOOSE x \in Ks : First1(x)) \in Ks
    BY <2>2
  <2>4. QED  BY <1>2, <2>3 DEF First1
<1>3. QED  BY <1>1, <1>2

LEMMA BeforeIs ==
  ASSUME NEW b \in Text, NEW i \in Nat, i >= 1, i <= Len(b) + 1
  PROVE  before(b, i) \in 0 .. Len(b) /\ (before(b, i) # 0 => b[before(b, i)] = Open)
<1> DEFINE e == IF i = 1 THEN Len(b) ELSE i - 1
<1>1. e \in Nat /\ e <= Len(b) /\ before(b, i) = find_last(b, Open, e)
  BY TextIs DEF before
<1> HIDE DEF e
<1>2. QED  BY <1>1, FindLastIs

(* The loop over the groups is at an opening bracket: the positions it     *)
(* goes by, and what they delimit.                                         *)
LEMMA GroupIs ==
  ASSUME buff \in Text, pos_1 \in 1 .. Len(buff), buff[pos_1] = Open
  PROVE  /\ pos_2 \in pos_1 + 1 .. Len(buff) + 1
         /\ pos_3 # 0 => pos_3 \in pos_1 + 1 .. Len(buff) /\ buff[pos_3] = "="
         /\ pos_4 \in 0 .. pos_1 - 1
         /\ pre_delim \in Text
         /\ rest \in Text
         /\ exprs \in Seq(Text)
<1>1. Len(buff) \in Nat /\ pos_1 \in Nat
  BY TextIs
<1>2. pos_2 \in pos_1 + 1 .. Len(buff) + 1
  <2> DEFINE Ks == {k \in pos_1 + 1 .. Len(buff) :
                      buff[k] = Close /\ opened(SubSeq(buff, pos_1, k)) = 0}
  <2>1. Ks \subseteq pos_1 + 1 .. Len(buff)
    OBVIOUS
  <2>2. pos_2 = IF Ks = {} THEN Len(buff) + 1 ELSE CHOOSE k \in Ks : \A j \in Ks : k <= j
    BY DEF pos_2
  <2> HIDE DEF Ks, pos_2
  <2>3. pos_1 + 1 \in Nat
    BY <1>1
  <2>4. pos_2 \in Ks \cup {Len(buff) + 1}
    BY <1>1, <2>1, <2>2, <2>3, FirstOrEnd
  <2>5. QED  BY <1>1, <2>1, <2>4
<1>3. pos_3 # 0 => pos_3 \in pos_1 + 1 .. Len(buff) /\ buff[pos_3] = "="
  <2>1. pos_3 # 0 => pos_3 \in pos_1 .. Len(buff) /\ buff[pos_3] = "="
    BY <1>1, FindIs DEF pos_3
  <2>2. "=" # Open
    BY Characters
  <2>3. pos_3 # 0 => pos_3 # pos_1
    BY <2>1, <2>2, Zenon
  <2>4. QED  BY <1>1, <2>1, <2>3
<1>4. pos_4 \in 0 .. pos_1 - 1
  <2>1. pos_4 \in 0 .. pos_1 /\ (pos_4 # 0 => buff[pos_4] = Semicolon)
    BY <1>1, FindLastIs DEF pos_4
  <2>2. Semicolon # Open
    BY Characters
  <2>3. pos_4 # 0 => pos_4 # pos_1
    BY <2>1, <2>2
  <2>4. QED  BY <1>1, <2>1, <2>3
<1>5. pre_delim \in Text
  <2>1. SubSeq(buff, pos_4 + 1, pos_1 - 1) \in Text
    BY <1>1, <1>4, SubText
  <2>2. QED  BY <2>1, TrimIs DEF pre_delim
<1>6. rest \in Text
  <2> DEFINE Ks   == {k \in pos_2 + 1 .. Len(buff) : buff[k] # Space}
             next == IF Ks = {} THEN Len(buff) + 1 ELSE CHOOSE k \in Ks : \A j \in Ks : k <= j
             i    == IF next \in Ks /\ buff[next] = Semicolon THEN next + 1 ELSE next
  <2>1. rest = from(buff, i)
    BY DEF rest
  <2>2. Ks \subseteq pos_2 + 1 .. Len(buff) /\ pos_2 + 1 \in Nat
    BY <1>1, <1>2
  <2>3. next \in Ks \cup {Len(buff) + 1}
    <3> HIDE DEF Ks
    <3>1. QED  BY <1>1, <2>2, FirstOrEnd
  <2> HIDE DEF Ks, next
  <2>4. next \in Nat /\ next >= 1
    BY <1>1, <1>2, <2>2, <2>3
  <2>5. i \in Nat /\ i >= 1
    BY <2>4
  <2> HIDE DEF i
  <2>6. QED  BY <2>1, <2>5, FromIs
<1>7. exprs \in Seq(Text)
  <2>1. SubSeq(buff, pos_1 + 1, pos_2 - 1) \in Text
    BY <1>1, <1>2, SubText
  <2>2. QED  BY <2>1, StrsplitIs DEF exprs
<1>8. QED  BY <1>2, <1>3, <1>4, <1>5, <1>6, <1>7

(* What is in the brackets of a group has an equal sign in it: there are   *)
(* expressions, and when they are complete then one at least comes before  *)
(* the last, which is blank.                                               *)
LEMMA ExprsIs ==
  ASSUME buff \in Text, pos_1 \in 1 .. Len(buff), buff[pos_1] = Open, IsGroup
  PROVE  /\ pos_2 >= pos_1 + 2
         /\ Len(SubSeq(buff, pos_1 + 1, pos_2 - 1)) >= 1
         /\ Len(exprs) >= 1
         /\ Complete(exprs) => Len(exprs) >= 2
<1> DEFINE t == SubSeq(buff, pos_1 + 1, pos_2 - 1)
<1>1. Len(buff) \in Nat /\ pos_1 \in Nat
  BY TextIs
<1>2. /\ pos_2 \in pos_1 + 1 .. Len(buff) + 1 /\ pos_3 \in pos_1 + 1 .. Len(buff)
      /\ buff[pos_3] = "=" /\ pos_3 < pos_2
  <2>1. pos_3 # 0 /\ pos_2 > pos_3
    BY DEF IsGroup
  <2>2. pos_2 \in pos_1 + 1 .. Len(buff) + 1
    BY GroupIs
  <2>3. pos_3 \in pos_1 + 1 .. Len(buff) /\ buff[pos_3] = "="
    BY <2>1, GroupIs, Zenon
  <2>4. QED  BY <1>1, <2>1, <2>2, <2>3
<1>3. /\ t \in Text /\ Len(t) = pos_2 - 1 - pos_1
      /\ \A k \in 1 .. Len(t) : t[k] = buff[k + (pos_1 + 1) - 1]
  BY <1>1, <1>2, SubText
<1> HIDE DEF t
<1>4. Len(t) >= 1 /\ pos_2 >= pos_1 + 2
  BY <1>1, <1>2, <1>3
<1>5. pos_3 - pos_1 \in 1 .. Len(t) /\ t[pos_3 - pos_1] = buff[pos_3]
  <2>1. pos_3 - pos_1 \in 1 .. Len(t) /\ (pos_3 - pos_1) + (pos_1 + 1) - 1 = pos_3
    BY <1>1, <1>2, <1>3
  <2>2. QED  BY <1>3, <2>1
<1>6. exprs = strsplit(t)
  BY DEF exprs, t
<1>7. t # <<>>
  BY <1>4
<1>8. /\ strsplit(t) \in Seq(Text) /\ Len(strsplit(t)) >= 1
      /\ Len(strsplit(t)) = 1 => strsplit(t)[1] = t
  BY <1>3, <1>7, StrsplitIs
<1>9. ASSUME Complete(exprs), Len(exprs) = 1 PROVE FALSE
  <2>1. Last(exprs) = t
    BY <1>6, <1>8, <1>9 DEF Last
  <2>2. strtrim(t) = <<>>
    BY <1>9, <2>1 DEF Complete
  <2>3. \A k \in 1 .. Len(t) : t[k] = Space
    BY <1>3, <2>2, TrimIs
  <2>4. buff[pos_3] = Space
    BY <1>5, <2>3
  <2>5. buff[pos_3] = "="
    BY <1>2
  <2>6. "=" # Space
    BY Characters
  <2>7. QED  BY <2>4, <2>5, <2>6, Zenon
<1>10. Len(exprs) \in Nat /\ Len(exprs) >= 1
  <2>1. exprs \in Seq(Text) /\ Len(exprs) >= 1
    BY <1>6, <1>8, Zenon
  <2>2. QED  BY <2>1
<1>11. Complete(exprs) => Len(exprs) >= 2
  <2> DEFINE n == Len(exprs)
  <2>0. n \in Nat /\ n >= 1
    BY <1>10
  <2> HIDE DEF n
  <2>1. n # 1 => n >= 2
    BY <2>0
  <2>2. QED  BY <1>9, <2>1, Zenon DEF n
<1>12. QED  BY <1>4, <1>10, <1>11 DEF t

(***************************************************************************)
(* Types.                                                                  *)
(***************************************************************************)

(* With the types of TypeOK: the strings are texts, and read_param only    *)
(* looks for groups in one with something in it.                           *)
ReaderInv ==
  /\ TypeOK
  /\ buff \in Text /\ str \in Text /\ parts \in Seq(Text)
  /\ rpc \in {"more", "group"} => buff # <<>>

LEMMA FileIs ==
  ASSUME file \in Files
  PROVE  file.lines \in Seq(Text) /\ file.newline \in BOOLEAN /\ Len(file.lines) \in Nat
<1>1. file.lines \in Seq(Text) /\ file.newline \in BOOLEAN
  BY ReadParamAssumption, Zenon
<1>2. QED  BY <1>1

(* What getline leaves in its string. *)
LEMMA GetlineIs ==
  ASSUME file \in Files, lineno \in 0 .. Len(file.lines) + 1, NEW old \in Text
  PROVE  /\ getline(old) \in Text
         /\ lineno < Len(file.lines) => getline(old) = file.lines[lineno + 1]
<1>1. file.lines \in Seq(Text) /\ Len(file.lines) \in Nat
  BY FileIs
<1>2. CASE lineno < Len(file.lines)
  <2>1. lineno + 1 \in 1 .. Len(file.lines)
    BY <1>1, <1>2
  <2>2. file.lines[lineno + 1] \in Text
    BY <1>1, <2>1
  <2>3. QED  BY <1>2, <2>2 DEF getline
<1>3. CASE ~(lineno < Len(file.lines))
  <2>1. getline(old) = IF good(lineno) THEN <<>> ELSE old
    BY <1>3 DEF getline
  <2>2. QED  BY <1>3, <2>1, NoText
<1>4. QED  BY <1>2, <1>3

LEMMA TakenIs ==
  ASSUME file \in Files, lineno \in 0 .. Len(file.lines) + 1, taken, file' = file
  PROVE  /\ lineno' \in 0 .. Len(file'.lines) + 1
         /\ lineno <= Len(file.lines) => lineno' = lineno + 1
BY FileIs DEF taken

(* The last opening bracket of buff. *)
LEMMA LastOpenIs ==
  ASSUME buff' \in Text, pos_1' = find_last(buff', Open, Len(buff'))
  PROVE  pos_1' \in 0 .. Len(buff') /\ (pos_1' # 0 => buff'[pos_1'] = Open)
<1> DEFINE b == buff'
           i == pos_1'
<1>1. b \in Text /\ i = find_last(b, Open, Len(b)) /\ Len(b) \in Nat
  BY TextIs
<1> HIDE DEF b, i
<1>2. i \in 0 .. Len(b) /\ (i # 0 => b[i] = Open)
  BY <1>1, FindLastIs
<1>3. QED  BY <1>2 DEF b, i

LEMMA ReaderInit == Init => ReaderInv
<1> SUFFICES ASSUME Init PROVE ReaderInv
  OBVIOUS
<1>1. /\ file \in Files /\ rpc = "line" /\ lineno = 0 /\ nbracket = 0 /\ pos_1 = 0
      /\ buff = <<>> /\ str = <<>> /\ parts = <<>> /\ paramList = <<>>
  BY DEF Init
<1>2. Len(file.lines) \in Nat
  BY <1>1, FileIs
<1>3. DOMAIN paramList = {}
  BY <1>1
<1>4. TypeOK
  BY <1>1, <1>2, <1>3, NoText DEF TypeOK
<1>5. parts \in Seq(Text)
  BY <1>1
<1>6. QED  BY <1>1, <1>4, <1>5, NoText DEF ReaderInv

LEMMA ReadLineKeeps == ReaderInv /\ ReadLine => ReaderInv'
<1> SUFFICES ASSUME ReaderInv, ReadLine PROVE ReaderInv'
  OBVIOUS
<1>1. /\ TypeOK /\ buff \in Text /\ str \in Text /\ parts \in Seq(Text)
  BY DEF ReaderInv
<1>2. /\ taken /\ buff' = strip(getline(buff)) /\ nbracket' = opened(buff')
      /\ rpc' = IF buff' = <<>> THEN "line"
                  ELSE IF nbracket' < 0 THEN "error"
                  ELSE IF nbracket' = 0 THEN "group" ELSE "more"
      /\ pos_1' = find_last(buff', Open, Len(buff'))
      /\ file' = file /\ str' = str /\ parts' = parts /\ paramList' = paramList
  BY DEF ReadLine
<1>3. file \in Files /\ lineno \in 0 .. Len(file.lines) + 1
  BY <1>1 DEF TypeOK
<1>4. lineno' \in 0 .. Len(file'.lines) + 1
  BY <1>2, <1>3, TakenIs
<1>5. buff' \in Text
  BY <1>1, <1>2, <1>3, GetlineIs, StripIs
<1>6. nbracket' \in Int
  <2> DEFINE b == buff'
  <2>1. opened(b) \in Int
    <3>1. b \in Text
      BY <1>5
    <3> HIDE DEF b
    <3>2. QED  BY <3>1, CountedIs
  <2>2. QED  BY <1>2, <2>1
<1>7. pos_1' \in 0 .. Len(buff') /\ (pos_1' # 0 => buff'[pos_1'] = Open)
  BY <1>2, <1>5, LastOpenIs
<1>8. /\ rpc' \in {"line", "more", "group", "pairs", "ok", "error"}
      /\ rpc' \in {"more", "group"} => buff' # <<>>
  BY <1>2
<1>9. TypeOK'
  BY <1>1, <1>2, <1>3, <1>4, <1>6, <1>7, <1>8 DEF TypeOK
<1>10. QED  BY <1>1, <1>2, <1>5, <1>8, <1>9 DEF ReaderInv

LEMMA ReadMoreKeeps == ReaderInv /\ ReadMore => ReaderInv'
<1> SUFFICES ASSUME ReaderInv, ReadMore PROVE ReaderInv'
  OBVIOUS
<1>1. /\ TypeOK /\ buff \in Text /\ str \in Text /\ parts \in Seq(Text)
      /\ rpc \in {"more", "group"} => buff # <<>>
  BY DEF ReaderInv
<1>2. /\ rpc = "more" /\ taken
      /\ file' = file /\ parts' = parts /\ paramList' = paramList
  BY DEF ReadMore
<1>3. file \in Files /\ lineno \in 0 .. Len(file.lines) + 1 /\ nbracket \in Int
  BY <1>1 DEF TypeOK
<1>4. lineno' \in 0 .. Len(file'.lines) + 1
  BY <1>2, <1>3, TakenIs
<1>5. CASE /\ rpc' = "error"
           /\ buff' = buff /\ str' = str /\ nbracket' = nbracket /\ pos_1' = pos_1
  <2>1. TypeOK'
    BY <1>1, <1>2, <1>3, <1>4, <1>5 DEF TypeOK
  <2>2. QED  BY <1>1, <1>2, <1>5, <2>1 DEF ReaderInv
<1>6. CASE /\ str' = strip(getline(str))
           /\ buff' = buff \o str'
           /\ nbracket' = nbracket + opened(str')
           /\ rpc' = IF nbracket' = 0 THEN "group" ELSE "more"
           /\ pos_1' = find_last(buff', Open, Len(buff'))
  <2> DEFINE t == strip(getline(str))
  <2>1. t \in Text
    BY <1>1, <1>3, GetlineIs, StripIs
  <2>2. str' = t /\ buff' = buff \o t /\ nbracket' = nbracket + opened(t)
    BY <1>6
  <2> HIDE DEF t
  <2>3. opened(t) \in Int
    BY <2>1, CountedIs
  <2>4. buff \o t \in Text /\ Len(buff \o t) = Len(buff) + Len(t)
    BY <1>1, <2>1, JoinText
  <2>5. buff' \in Text /\ buff' # <<>>
    <3>1. buff # <<>> /\ Len(buff) \in Nat /\ Len(buff) >= 1 /\ Len(t) \in Nat
      BY <1>1, <1>2, <2>1 DEF Text
    <3>2. Len(buff \o t) >= 1
      BY <2>4, <3>1
    <3>3. buff \o t # <<>>
      BY <3>2, NoText
    <3>4. QED  BY <2>2, <2>4, <3>3
  <2>6. pos_1' \in 0 .. Len(buff') /\ (pos_1' # 0 => buff'[pos_1'] = Open)
    BY <1>6, <2>5, LastOpenIs
  <2>7. nbracket' \in Int
    BY <1>3, <2>2, <2>3
  <2>8. rpc' \in {"line", "more", "group", "pairs", "ok", "error"}
    BY <1>6
  <2>9. TypeOK'
    BY <1>1, <1>2, <1>3, <1>4, <2>6, <2>7, <2>8 DEF TypeOK
  <2>10. QED  BY <1>1, <1>2, <2>1, <2>2, <2>5, <2>9 DEF ReaderInv
<1>7. QED  BY <1>5, <1>6 DEF ReadMore

(* What the steps of the loop over the groups begin with. *)
LEMMA AtGroup ==
  ASSUME ReaderInv, rpc = "group", pos_1 # 0
  PROVE  /\ buff \in Text /\ str \in Text /\ parts \in Seq(Text) /\ buff # <<>>
         /\ pos_1 \in 1 .. Len(buff) /\ buff[pos_1] = Open
         /\ Len(buff) \in Nat /\ pos_1 \in Nat
<1>1. /\ TypeOK /\ buff \in Text /\ str \in Text /\ parts \in Seq(Text) /\ buff # <<>>
  BY DEF ReaderInv
<1>2. pos_1 \in 0 .. Len(buff) /\ buff[pos_1] = Open
  BY <1>1 DEF TypeOK
<1>3. Len(buff) \in Nat
  BY <1>1, TextIs
<1>4. QED  BY <1>1, <1>2, <1>3

LEMMA PassOverKeeps == ReaderInv /\ PassOver => ReaderInv'
<1> SUFFICES ASSUME ReaderInv, PassOver PROVE ReaderInv'
  OBVIOUS
<1>1. /\ rpc = "group" /\ pos_1 # 0 /\ pos_1' = before(buff, pos_1)
      /\ file' = file /\ rpc' = rpc /\ lineno' = lineno /\ buff' = buff /\ str' = str
      /\ nbracket' = nbracket /\ parts' = parts /\ paramList' = paramList
  BY DEF PassOver
<1>2. /\ buff \in Text /\ pos_1 \in Nat /\ pos_1 >= 1 /\ pos_1 <= Len(buff) + 1
  BY <1>1, AtGroup
<1>3. before(buff, pos_1) \in 0 .. Len(buff)
      /\ (before(buff, pos_1) # 0 => buff[before(buff, pos_1)] = Open)
  BY <1>2, BeforeIs
<1>4. pos_1' \in 0 .. Len(buff') /\ (pos_1' # 0 => buff'[pos_1'] = Open)
  BY <1>1, <1>3
<1>5. TypeOK'
  BY <1>1, <1>4 DEF ReaderInv, TypeOK
<1>6. QED  BY <1>1, <1>5 DEF ReaderInv

LEMMA UnwrapKeeps == ReaderInv /\ Unwrap => ReaderInv'
<1> SUFFICES ASSUME ReaderInv, Unwrap PROVE ReaderInv'
  OBVIOUS
<1> DEFINE a == upto(buff, pos_1 - 1)
           b == SubSeq(buff, pos_1 + 1, pos_2 - 1)
           c == from(buff, pos_2 + 1)
           u == a \o b \o c
<1>1. /\ rpc = "group" /\ pos_1 # 0 /\ IsGroup /\ buff' = u
      /\ pos_1' = before(buff', pos_1)
      /\ file' = file /\ rpc' = rpc /\ lineno' = lineno /\ str' = str
      /\ nbracket' = nbracket /\ parts' = parts /\ paramList' = paramList
  BY DEF Unwrap
<1>2. /\ buff \in Text /\ pos_1 \in 1 .. Len(buff) /\ buff[pos_1] = Open
      /\ Len(buff) \in Nat /\ pos_1 \in Nat
  BY <1>1, AtGroup
<1>3. pos_2 \in pos_1 + 1 .. Len(buff) + 1
  BY <1>2, GroupIs
<1>4. a \in Text /\ Len(a) = pos_1 - 1
  <2>1. pos_1 - 1 \in Int /\ pos_1 - 1 <= Len(buff)
    BY <1>2
  <2>2. /\ upto(buff, pos_1 - 1) \in Text
        /\ Len(upto(buff, pos_1 - 1)) = IF 1 <= pos_1 - 1 THEN pos_1 - 1 ELSE 0
    BY <1>2, <2>1, UptoIs
  <2>3. QED  BY <1>2, <2>2
<1>5. b \in Text /\ Len(b) >= 1 /\ Len(b) \in Nat
  <2>1. pos_1 + 1 \in Int /\ pos_2 - 1 \in Int /\ 1 <= pos_1 + 1 /\ pos_2 - 1 <= Len(buff)
    BY <1>2, <1>3
  <2>2. b \in Text
    BY <1>2, <2>1, SubText
  <2>3. Len(b) >= 1
    BY <1>1, <1>2, ExprsIs
  <2>4. QED  BY <2>2, <2>3, TextIs
<1>6. c \in Text /\ Len(c) \in Nat
  <2>1. pos_2 + 1 \in Nat /\ pos_2 + 1 >= 1
    BY <1>2, <1>3
  <2>2. c \in Text
    BY <1>2, <2>1, FromIs
  <2>3. QED  BY <2>2, TextIs
<1> HIDE DEF a, b, c
<1>7. u \in Text /\ Len(u) = pos_1 - 1 + Len(b) + Len(c)
  <2>1. a \o b \in Text /\ Len(a \o b) = Len(a) + Len(b)
    BY <1>4, <1>5, JoinText
  <2>2. (a \o b) \o c \in Text /\ Len((a \o b) \o c) = Len(a \o b) + Len(c)
    BY <1>6, <2>1, JoinText
  <2>3. QED  BY <1>4, <2>1, <2>2
<1> HIDE DEF u
<1>8. Len(u) \in Nat /\ pos_1 <= Len(u) /\ u # <<>>
  <2>1. Len(u) \in Nat /\ pos_1 <= Len(u)
    BY <1>2, <1>5, <1>6, <1>7
  <2>2. u # <<>>
    BY <1>2, <2>1, NoText
  <2>3. QED  BY <2>1, <2>2
<1>9. before(u, pos_1) \in 0 .. Len(u)
      /\ (before(u, pos_1) # 0 => u[before(u, pos_1)] = Open)
  <2>1. pos_1 >= 1 /\ pos_1 <= Len(u) + 1
    BY <1>2, <1>8
  <2>2. QED  BY <1>2, <1>7, <2>1, BeforeIs
<1>10. pos_1' = before(u, pos_1)
  BY <1>1
<1>11. pos_1' \in 0 .. Len(buff') /\ (pos_1' # 0 => buff'[pos_1'] = Open)
  BY <1>1, <1>9, <1>10
<1>12. TypeOK'
  BY <1>1, <1>11 DEF ReaderInv, TypeOK
<1>13. QED  BY <1>1, <1>7, <1>8, <1>12 DEF ReaderInv

LEMMA ExpandKeeps == ReaderInv /\ Expand => ReaderInv'
<1> SUFFICES ASSUME ReaderInv, Expand PROVE ReaderInv'
  OBVIOUS
<1> DEFINE es == exprs
           a  == upto(buff, pos_4)
           x  == expanded(es)
           r  == rest
           p4 == pos_4
           u  == a \o x \o r
<1>1. /\ rpc = "group" /\ pos_1 # 0 /\ IsGroup /\ Complete(es) /\ str' = x
      /\ buff' = a \o str' \o r
      /\ pos_1' = IF p4 = 0 THEN 0 ELSE before(buff', p4)
      /\ file' = file /\ rpc' = rpc /\ lineno' = lineno
      /\ nbracket' = nbracket /\ parts' = parts /\ paramList' = paramList
  BY DEF Expand
<1>2. /\ buff \in Text /\ pos_1 \in 1 .. Len(buff) /\ buff[pos_1] = Open
      /\ Len(buff) \in Nat /\ pos_1 \in Nat
  BY <1>1, AtGroup
<1>3. p4 \in 0 .. pos_1 - 1 /\ pre_delim \in Text /\ r \in Text /\ es \in Seq(Text)
  BY <1>2, GroupIs
<1>4. Len(es) >= 2
  BY <1>1, <1>2, ExprsIs
<1>5. x \in Text /\ x # <<>>
  <2> HIDE DEF es
  <2>1. Len(es) >= 1 /\ pre_delim \in Text /\ es \in Seq(Text)
    BY <1>3, <1>4
  <2>2. QED  BY <1>4, <2>1, ExpandedIs
<1>6. a \in Text /\ Len(a) = p4
  <2>1. p4 \in Int /\ p4 <= Len(buff)
    BY <1>2, <1>3
  <2>2. a \in Text /\ Len(a) = IF 1 <= p4 THEN p4 ELSE 0
    BY <1>2, <2>1, UptoIs
  <2>3. QED  BY <1>2, <1>3, <2>2
<1> HIDE DEF a, x, r, p4, es
<1>7. /\ u \in Text /\ Len(u) = p4 + Len(x) + Len(r)
      /\ Len(x) \in Nat /\ Len(x) >= 1 /\ Len(r) \in Nat
  <2>1. a \o x \in Text /\ Len(a \o x) = Len(a) + Len(x)
    BY <1>5, <1>6, JoinText
  <2>2. (a \o x) \o r \in Text /\ Len((a \o x) \o r) = Len(a \o x) + Len(r)
    BY <1>3, <2>1, JoinText
  <2>3. Len(x) \in Nat /\ Len(x) >= 1 /\ Len(r) \in Nat
    BY <1>3, <1>5 DEF Text
  <2>4. QED  BY <1>6, <2>1, <2>2, <2>3
<1>8. buff' = u
  BY <1>1
<1> HIDE DEF u
<1>9. p4 \in Nat /\ p4 <= Len(u) /\ Len(u) \in Nat /\ u # <<>>
  <2>1. p4 \in Nat /\ p4 <= Len(u) /\ Len(u) \in Nat /\ Len(u) >= 1
    BY <1>2, <1>3, <1>7
  <2>2. u # <<>>
    BY <2>1, NoText
  <2>3. QED  BY <2>1, <2>2
<1>10. pos_1' \in 0 .. Len(u) /\ (pos_1' # 0 => u[pos_1'] = Open)
  <2>1. CASE p4 = 0
    <3>1. pos_1' = 0
      BY <1>1, <2>1
    <3>2. QED  BY <1>9, <3>1
  <2>2. CASE p4 # 0
    <3>1. pos_1' = before(u, p4)
      BY <1>1, <1>8, <2>2
    <3>2. p4 >= 1 /\ p4 <= Len(u) + 1
      BY <1>9, <2>2
    <3>3. before(u, p4) \in 0 .. Len(u) /\ (before(u, p4) # 0 => u[before(u, p4)] = Open)
      BY <1>7, <1>9, <3>2, BeforeIs
    <3>4. QED  BY <3>1, <3>3
  <2>3. QED  BY <2>1, <2>2
<1>11. pos_1' \in 0 .. Len(buff') /\ (pos_1' # 0 => buff'[pos_1'] = Open)
  BY <1>8, <1>10
<1>12. TypeOK'
  BY <1>1, <1>11 DEF ReaderInv, TypeOK
<1>13. QED  BY <1>1, <1>5, <1>7, <1>8, <1>9, <1>12 DEF ReaderInv

(* Split only looks at the last part of a text with something in it. *)
LEMMA SplitKeeps == ReaderInv /\ Split => ReaderInv'
<1> SUFFICES ASSUME ReaderInv, Split PROVE ReaderInv'
  OBVIOUS
<1>1. /\ rpc = "group"
      /\ \/ rpc' = "error" /\ parts' = parts
         \/ rpc' = "pairs" /\ parts' = Front(strsplit(buff))
      /\ file' = file /\ lineno' = lineno /\ buff' = buff /\ str' = str
      /\ nbracket' = nbracket /\ pos_1' = pos_1 /\ paramList' = paramList
  BY DEF Split
<1>2. buff \in Text /\ buff # <<>> /\ parts \in Seq(Text)
  BY <1>1 DEF ReaderInv
<1>3. Front(strsplit(buff)) \in Seq(Text)
  <2> DEFINE ps == strsplit(buff)
  <2>1. ps \in Seq(Text) /\ Len(ps) >= 1
    BY <1>2, StrsplitIs
  <2> HIDE DEF ps
  <2>2. Front(ps) \in Seq(Text)
    BY <2>1 DEF Front
  <2>3. QED  BY <2>2 DEF ps
<1>4. parts' \in Seq(Text)
  BY <1>1, <1>2, <1>3
<1>5. TypeOK'
  BY <1>1 DEF ReaderInv, TypeOK
<1>6. QED  BY <1>1, <1>2, <1>4, <1>5 DEF ReaderInv

LEMMA TakePairKeeps == ReaderInv /\ TakePair => ReaderInv'
<1> SUFFICES ASSUME ReaderInv, TakePair PROVE ReaderInv'
  OBVIOUS
<1>a. /\ rpc = "pairs" /\ parts # <<>>
      /\ file' = file /\ lineno' = lineno /\ buff' = buff /\ str' = strtrim(Head(parts))
      /\ nbracket' = nbracket /\ pos_1' = pos_1
  BY DEF TakePair
<1>b. Head(parts) \in Text
  BY <1>a DEF ReaderInv
<1>1. /\ rpc = "pairs" /\ parts # <<>>
      /\ file' = file /\ lineno' = lineno /\ buff' = buff /\ str' \in Text
      /\ nbracket' = nbracket /\ pos_1' = pos_1
  BY <1>a, <1>b, TrimIs
<1>2. CASE rpc' = "error" /\ parts' = parts /\ paramList' = paramList
  BY <1>1, <1>2 DEF ReaderInv, TypeOK
<1>3. CASE /\ IsPair /\ rpc' = rpc /\ parts' = Tail(parts)
           /\ paramList' = [n \in DOMAIN paramList \cup {paramName} |->
                              IF n = paramName THEN paramVal ELSE paramList[n]]
  <2> DEFINE v == paramVal
             m == paramName
             p == [n \in DOMAIN paramList \cup {m} |-> IF n = m THEN v ELSE paramList[n]]
  <2>1. v # <<>>
    BY <1>3 DEF IsPair
  <2>2. \A n \in DOMAIN paramList : paramList[n] # <<>>
    BY DEF ReaderInv, TypeOK
  <2>3. paramList' = p
    BY <1>3
  <2> HIDE DEF v, m
  <2>4. DOMAIN p = DOMAIN paramList \cup {m} /\ \A n \in DOMAIN p : p[n] # <<>>
    BY <2>1, <2>2
  <2> HIDE DEF p
  <2>5. \A n \in DOMAIN paramList' : paramList'[n] # <<>>
    BY <2>3, <2>4
  <2>6. Tail(parts) \in Seq(Text)
    BY <1>1 DEF ReaderInv
  <2>7. TypeOK'
    BY <1>1, <1>3, <2>5 DEF ReaderInv, TypeOK
  <2>8. QED  BY <1>1, <1>3, <2>6, <2>7 DEF ReaderInv
<1>4. QED  BY <1>2, <1>3 DEF TakePair

(* The steps that leave the strings as they are. *)
LEMMA OthersKeep ==
  ReaderInv /\ (ReadEnds \/ ExpandFails \/ NoMorePairs \/ UNCHANGED vars) => ReaderInv'
<1> SUFFICES ASSUME ReaderInv, ReadEnds \/ ExpandFails \/ NoMorePairs \/ UNCHANGED vars
             PROVE  ReaderInv'
  OBVIOUS
<1>1. /\ file' = file /\ lineno' = lineno /\ buff' = buff /\ str' = str
      /\ nbracket' = nbracket /\ pos_1' = pos_1 /\ parts' = parts /\ paramList' = paramList
      /\ rpc' \in {"ok", "error", "line"} \/ rpc' = rpc
  BY DEF ReadEnds, ExpandFails, NoMorePairs, vars
<1>2. TypeOK'
  BY <1>1 DEF ReaderInv, TypeOK
<1>3. QED  BY <1>1, <1>2 DEF ReaderInv

LEMMA ReaderStep == ReaderInv /\ [Next]_vars => ReaderInv'
BY ReadLineKeeps, ReadMoreKeeps, PassOverKeeps, UnwrapKeeps, ExpandKeeps, SplitKeeps,
   TakePairKeeps, OthersKeep DEF Next

LEMMA ReaderAlways == Spec => []ReaderInv
BY ReaderInit, ReaderStep, PTL DEF Spec

(* The type invariant of read_param: in every file the loop over the       *)
(* groups (misc.cpp) always is at an opening bracket within buff, whatever *)
(* was cut out of buff or put in before, and no value in the result is     *)
(* empty.                                                                  *)
THEOREM TypeCorrect == Spec => []TypeOK
<1>1. ReaderInv => TypeOK
  BY DEF ReaderInv
<1>2. QED  BY <1>1, ReaderAlways, PTL

(* The vectors of parts that back() is called on.                          *)
PartsToLookAt ==
  rpc = "group" => /\ strsplit(buff) # <<>>
                   /\ pos_1 # 0 /\ IsGroup => exprs # <<>>

(* back() of an empty vector would be undefined: read_param calls it on    *)
(* the expressions of a group and on the parts of what was read, and there *)
(* always are some (misc.cpp).                                             *)
THEOREM NeverOfNoParts == Spec => []PartsToLookAt
<1>1. ReaderInv => PartsToLookAt
  <2> SUFFICES ASSUME ReaderInv, rpc = "group"
               PROVE  /\ strsplit(buff) # <<>>
                      /\ pos_1 # 0 /\ IsGroup => exprs # <<>>
    BY DEF PartsToLookAt
  <2>1. strsplit(buff) # <<>>
    <3>1. buff \in Text /\ buff # <<>>
      BY DEF ReaderInv
    <3>2. Len(strsplit(buff)) >= 1
      BY <3>1, StrsplitIs
    <3>3. QED  BY <3>2
  <2>2. ASSUME pos_1 # 0, IsGroup PROVE exprs # <<>>
    <3>1. Len(exprs) >= 1
      BY <2>2, AtGroup, ExprsIs
    <3> DEFINE es == exprs
    <3> HIDE DEF es
    <3>2. Len(es) >= 1 => es # <<>>
      OBVIOUS
    <3>3. QED  BY <3>1, <3>2 DEF es
  <2>3. QED  BY <2>1, <2>2
<1>2. QED  BY <1>1, ReaderAlways, PTL

(***************************************************************************)
(* Brackets.                                                               *)
(***************************************************************************)

(* The lines that were taken, and that there are. *)
linesRead == IF lineno < Len(file.lines) THEN lineno ELSE Len(file.lines)

(* While brackets are open nbracket is their number, and in a file that    *)
(* ends in a line end it also is that of all the lines so far; otherwise   *)
(* these match.                                                            *)
BracketsCounted ==
  /\ rpc = "more" => nbracket = opened(buff)
  /\ file.newline =>
       /\ rpc \in {"line", "group", "pairs", "ok"} => openedIn(linesRead) = 0
       /\ rpc = "ok" => lineno > Len(file.lines)
       /\ rpc = "more" => lineno <= Len(file.lines) /\ openedIn(lineno) = nbracket

LEMMA OpenedUpto ==
  ASSUME file \in Files
  PROVE  /\ openedIn(0) = 0
         /\ \A m \in 1 .. Len(file.lines) :
              openedIn(m) = openedIn(m - 1) + opened(strip(file.lines[m]))
<1>1. file.lines \in Seq(Text) /\ Len(file.lines) \in Nat
  BY FileIs
<1>2. openedIn(0) = 0
  <2>1. \A n \in 1 .. 0 : file.lines[n] \in Text
    OBVIOUS
  <2>2. 0 \in Nat
    OBVIOUS
  <2>3. QED  BY <2>1, <2>2, OpenedInIs
<1>3. ASSUME NEW m \in 1 .. Len(file.lines)
      PROVE  openedIn(m) = openedIn(m - 1) + opened(strip(file.lines[m]))
  <2>1. m \in Nat /\ m > 0 /\ \A n \in 1 .. m : file.lines[n] \in Text
    BY <1>1
  <2>2. QED  BY <2>1, OpenedInIs
<1>4. QED  BY <1>2, <1>3

LEMMA OpenedNothing == opened(<<>>) = 0
<1> DEFINE e == <<>>
<1>1. e \in Text /\ Len(e) = 0
  BY NoText
<1> HIDE DEF e
<1>2. opened(e) = counted(e)[Len(e)] /\ counted(e)[0] = 0
  BY <1>1, CountedIs
<1>3. opened(e) = 0
  BY <1>1, <1>2
<1>4. QED  BY <1>3 DEF e

(* Only the file says what its lines open. *)
LEMMA OpenedKept ==
  ASSUME file' = file, NEW n, n = linesRead' PROVE openedIn(linesRead)' = openedIn(n)
BY DEF openedIn

LEMMA OpenedKept2 ==
  ASSUME file' = file, NEW n, n = lineno' PROVE openedIn(lineno)' = openedIn(n)
BY DEF openedIn

LEMMA CountInit == Init => BracketsCounted
<1> SUFFICES ASSUME Init PROVE BracketsCounted
  OBVIOUS
<1>1. file \in Files /\ rpc = "line" /\ lineno = 0
  BY DEF Init
<1>2. Len(file.lines) \in Nat
  BY <1>1, FileIs
<1>3. linesRead = 0
  BY <1>1, <1>2 DEF linesRead
<1>4. openedIn(linesRead) = 0
  BY <1>1, <1>3, OpenedUpto
<1>5. QED  BY <1>1, <1>4 DEF BracketsCounted

(* One more line that there is. *)
LEMMA OneMoreLine ==
  ASSUME ReaderInv, taken, file' = file, lineno < Len(file.lines), NEW old \in Text
  PROVE  /\ lineno' = lineno + 1 /\ linesRead' = lineno + 1
         /\ lineno' <= Len(file'.lines) /\ linesRead = lineno
         /\ getline(old) = file.lines[lineno + 1]
         /\ openedIn(lineno + 1) = openedIn(lineno) + opened(strip(getline(old)))
<1>1. file \in Files /\ lineno \in 0 .. Len(file.lines) + 1
  BY DEF ReaderInv, TypeOK
<1>2. Len(file.lines) \in Nat
  BY <1>1, FileIs
<1>3. lineno' = lineno + 1
  BY <1>1, <1>2, TakenIs
<1>4. getline(old) = file.lines[lineno + 1]
  BY <1>1, GetlineIs
<1>5. lineno + 1 \in 1 .. Len(file.lines) /\ (lineno + 1) - 1 = lineno
  BY <1>1, <1>2
<1>6. openedIn(lineno + 1) = openedIn(lineno) + opened(strip(file.lines[lineno + 1]))
  <2> DEFINE m == lineno + 1
  <2>1. m \in 1 .. Len(file.lines) /\ m - 1 = lineno
    BY <1>5
  <2> HIDE DEF m
  <2>2. openedIn(m) = openedIn(m - 1) + opened(strip(file.lines[m]))
    BY <1>1, <2>1, OpenedUpto
  <2>3. openedIn(m) = openedIn(lineno) + opened(strip(file.lines[m]))
    BY <2>1, <2>2
  <2>4. QED  BY <2>3 DEF m
<1>7. linesRead' = lineno + 1 /\ lineno' <= Len(file'.lines) /\ linesRead = lineno
  BY <1>1, <1>2, <1>3 DEF linesRead
<1>8. QED  BY <1>3, <1>4, <1>6, <1>7

LEMMA ReadLineCounts == ReaderInv /\ BracketsCounted /\ ReadLine => BracketsCounted'
<1> SUFFICES ASSUME ReaderInv, BracketsCounted, ReadLine PROVE BracketsCounted'
  OBVIOUS
<1>1. /\ rpc = "line" /\ good(lineno) /\ taken /\ file' = file
      /\ buff' = strip(getline(buff)) /\ nbracket' = opened(buff')
      /\ rpc' = IF buff' = <<>> THEN "line"
                  ELSE IF nbracket' < 0 THEN "error"
                  ELSE IF nbracket' = 0 THEN "group" ELSE "more"
  BY DEF ReadLine
<1>2. /\ file \in Files /\ lineno \in 0 .. Len(file.lines) + 1 /\ buff \in Text
  BY DEF ReaderInv, TypeOK
<1>3. Len(file.lines) \in Nat
  BY <1>2, FileIs
<1>4. rpc' = "more" => nbracket' = opened(buff')
  BY <1>1
<1>5. ASSUME file'.newline
      PROVE  /\ rpc' \in {"line", "group", "pairs", "ok"} => openedIn(linesRead)' = 0
             /\ rpc' = "ok" => lineno' > Len(file'.lines)
             /\ rpc' = "more" => lineno' <= Len(file'.lines) /\ openedIn(lineno)' = nbracket'
  <2>1. openedIn(linesRead) = 0
    BY <1>1, <1>5 DEF BracketsCounted
  <2>2. rpc' # "ok" /\ rpc' # "pairs"
    BY <1>1
  <2>3. CASE lineno < Len(file.lines)
    <3>1. /\ lineno' = lineno + 1 /\ linesRead' = lineno + 1
          /\ lineno' <= Len(file'.lines) /\ linesRead = lineno
          /\ openedIn(lineno + 1) = openedIn(lineno) + opened(buff')
      BY <1>1, <1>2, <2>3, OneMoreLine
    <3>2. buff' \in Text
      BY <1>1, <1>2, GetlineIs, StripIs
    <3>3. opened(buff') \in Int
      <4> DEFINE b == buff'
      <4>1. b \in Text
        BY <3>2
      <4> HIDE DEF b
      <4>2. opened(b) \in Int
        BY <4>1, CountedIs
      <4>3. QED  BY <4>2 DEF b
    <3>4. openedIn(lineno + 1) = nbracket'
      BY <1>1, <2>1, <3>1, <3>3
    <3>5. openedIn(linesRead)' = nbracket' /\ openedIn(lineno)' = nbracket'
      BY <1>1, <3>1, <3>4, OpenedKept, OpenedKept2
    <3>6. rpc' = "line" => nbracket' = 0
      BY <1>1, OpenedNothing
    <3>7. rpc' = "group" => nbracket' = 0
      BY <1>1
    <3>8. QED  BY <2>2, <3>1, <3>5, <3>6, <3>7
  <2>4. CASE ~(lineno < Len(file.lines))
    <3>1. lineno = Len(file.lines)
      BY <1>1, <2>4 DEF good
    <3>2. getline(buff) = <<>>
      BY <1>1, <2>4 DEF getline
    <3>3. rpc' = "line"
      BY <1>1, <3>2, StripNothing
    <3>4. lineno' = lineno + 1
      BY <1>1, <1>2, <1>3, <3>1, TakenIs
    <3>5. linesRead' = Len(file.lines) /\ linesRead = Len(file.lines)
      BY <1>1, <1>3, <3>1, <3>4 DEF linesRead
    <3>6. openedIn(linesRead)' = 0
      BY <1>1, <2>1, <3>5, OpenedKept
    <3>7. QED  BY <3>3, <3>6
  <2>5. QED  BY <2>3, <2>4
<1>6. QED  BY <1>4, <1>5 DEF BracketsCounted

LEMMA ReadMoreCounts == ReaderInv /\ BracketsCounted /\ ReadMore => BracketsCounted'
<1> SUFFICES ASSUME ReaderInv, BracketsCounted, ReadMore PROVE BracketsCounted'
  OBVIOUS
<1>1. rpc = "more" /\ taken /\ file' = file /\ nbracket = opened(buff)
  BY DEF ReadMore, BracketsCounted
<1>2. /\ file \in Files /\ lineno \in 0 .. Len(file.lines) + 1
      /\ buff \in Text /\ str \in Text /\ nbracket \in Int
  BY DEF ReaderInv, TypeOK
<1>3. Len(file.lines) \in Nat
  BY <1>2, FileIs
<1>4. CASE rpc' = "error"
  BY <1>4 DEF BracketsCounted
<1>5. CASE /\ ~(~good(lineno') /\ getline(str) = <<>>)
           /\ str' = strip(getline(str))
           /\ buff' = buff \o str'
           /\ nbracket' = nbracket + opened(str')
           /\ rpc' = IF nbracket' = 0 THEN "group" ELSE "more"
  <2> DEFINE t == strip(getline(str))
  <2>1. t \in Text
    BY <1>2, GetlineIs, StripIs
  <2>2. buff' = buff \o t /\ nbracket' = nbracket + opened(t)
    BY <1>5
  <2> HIDE DEF t
  <2>3. opened(buff \o t) = opened(buff) + opened(t)
    BY <1>2, <2>1, OpenedJoins
  <2>4. nbracket' = opened(buff')
    BY <1>1, <2>2, <2>3
  <2>5. ASSUME file'.newline
        PROVE  /\ rpc' \in {"line", "group", "pairs", "ok"} => openedIn(linesRead)' = 0
               /\ rpc' = "ok" => lineno' > Len(file'.lines)
               /\ rpc' = "more" => lineno' <= Len(file'.lines) /\ openedIn(lineno)' = nbracket'
    <3>1. file.newline /\ lineno <= Len(file.lines) /\ openedIn(lineno) = nbracket
      BY <1>1, <2>5 DEF BracketsCounted
    <3>2. lineno # Len(file.lines)
      <4>1. SUFFICES ASSUME lineno = Len(file.lines) PROVE FALSE
        OBVIOUS
      <4>2. lineno' = Len(file'.lines) + 1
        BY <1>1, <1>2, <4>1, TakenIs
      <4>3. ~good(lineno')
        BY <1>1, <1>3, <4>2 DEF good
      <4>4. getline(str) = <<>>
        BY <1>3, <3>1, <4>1 DEF getline, good
      <4>5. QED  BY <1>5, <4>3, <4>4
    <3>3. lineno < Len(file.lines)
      BY <1>2, <1>3, <3>1, <3>2
    <3>4. /\ lineno' = lineno + 1 /\ linesRead' = lineno + 1
          /\ lineno' <= Len(file'.lines)
          /\ openedIn(lineno + 1) = openedIn(lineno) + opened(t)
      BY <1>1, <1>2, <3>3, OneMoreLine DEF t
    <3>5. openedIn(lineno + 1) = nbracket'
      BY <2>2, <3>1, <3>4
    <3>6. openedIn(linesRead)' = nbracket' /\ openedIn(lineno)' = nbracket'
      BY <1>1, <3>4, <3>5, OpenedKept, OpenedKept2
    <3>7. rpc' \in {"group", "more"} /\ (rpc' = "group" => nbracket' = 0)
      BY <1>5
    <3>8. QED  BY <3>4, <3>6, <3>7
  <2>6. rpc' = "more" => nbracket' = opened(buff')
    BY <2>4
  <2>7. QED  BY <2>5, <2>6 DEF BracketsCounted
<1>6. QED  BY <1>4, <1>5 DEF ReadMore

LEMMA OthersCount ==
  ReaderInv /\ BracketsCounted /\ [Next]_vars =>
    ReadLine \/ ReadMore \/ BracketsCounted'
<1> SUFFICES ASSUME ReaderInv, BracketsCounted, [Next]_vars, ~ReadLine, ~ReadMore
             PROVE  BracketsCounted'
  OBVIOUS
<1>1. /\ file' = file /\ lineno' = lineno
      /\ \/ rpc = "line" /\ rpc' = "ok" /\ ~good(lineno)
         \/ rpc \in {"group", "pairs"} /\ rpc' \in {"group", "pairs", "line", "error"}
         \/ rpc' = rpc /\ nbracket' = nbracket /\ buff' = buff
  BY DEF Next, ReadEnds, PassOver, Unwrap, Expand, ExpandFails, Split, TakePair, NoMorePairs, vars
<1>2. file \in Files /\ lineno \in 0 .. Len(file.lines) + 1
  BY DEF ReaderInv, TypeOK
<1>3. Len(file.lines) \in Nat
  BY <1>2, FileIs
<1>4. linesRead' = linesRead
  BY <1>1 DEF linesRead
<1>5. openedIn(linesRead)' = openedIn(linesRead) /\ openedIn(lineno)' = openedIn(lineno)
  BY <1>1, <1>4, OpenedKept, OpenedKept2
<1>6. CASE rpc = "line" /\ rpc' = "ok" /\ ~good(lineno)
  <2>1. file.newline => lineno > Len(file.lines)
    BY <1>2, <1>3, <1>6 DEF good
  <2>2. file.newline => openedIn(linesRead) = 0
    BY <1>6 DEF BracketsCounted
  <2>3. QED  BY <1>1, <1>5, <1>6, <2>1, <2>2 DEF BracketsCounted
<1>7. CASE rpc \in {"group", "pairs"} /\ rpc' \in {"group", "pairs", "line", "error"}
  <2>1. file.newline => openedIn(linesRead) = 0
    BY <1>7 DEF BracketsCounted
  <2>2. QED  BY <1>1, <1>5, <1>7, <2>1 DEF BracketsCounted
<1>8. CASE rpc' = rpc /\ nbracket' = nbracket /\ buff' = buff
  BY <1>1, <1>5, <1>8 DEF BracketsCounted
<1>9. QED  BY <1>1, <1>6, <1>7, <1>8

LEMMA CountStep == ReaderInv /\ BracketsCounted /\ [Next]_vars => BracketsCounted'
BY ReadLineCounts, ReadMoreCounts, OthersCount

LEMMA CountAlways == Spec => []BracketsCounted
BY CountInit, CountStep, ReaderAlways, PTL DEF Spec

(* A file that ends in a line end is only accepted if its brackets match,  *)
(* however many lines a group takes and however they are commented: the    *)
(* brackets that read_param counts while it appends lines (misc.cpp) are   *)
(* those of the lines.                                                     *)
THEOREM AcceptedBalanced == Spec => []BalancedIfAccepted
<1>1. ReaderInv /\ BracketsCounted => BalancedIfAccepted
  <2> SUFFICES ASSUME ReaderInv, BracketsCounted, rpc = "ok", file.newline
               PROVE  openedIn(Len(file.lines)) = 0
    BY DEF BalancedIfAccepted
  <2>1. lineno > Len(file.lines) /\ openedIn(linesRead) = 0
    BY DEF BracketsCounted
  <2>2. Len(file.lines) \in Nat /\ lineno \in Nat
    BY FileIs DEF ReaderInv, TypeOK
  <2>3. linesRead = Len(file.lines)
    BY <2>1, <2>2 DEF linesRead
  <2>4. QED  BY <2>1, <2>3
<1>2. QED  BY <1>1, ReaderAlways, CountAlways, PTL

(* Groups are only looked for in a text whose brackets match, in whatever  *)
(* file (misc.cpp).                                                        *)
THEOREM GroupsFromBalanced ==
  Spec => [][rpc # "group" /\ rpc' = "group" => opened(buff') = 0]_vars
<1>1. ReaderInv /\ BracketsCounted /\ [Next]_vars =>
        [rpc # "group" /\ rpc' = "group" => opened(buff') = 0]_vars
  <2> SUFFICES ASSUME ReaderInv, BracketsCounted, Next, rpc # "group", rpc' = "group"
               PROVE  opened(buff') = 0
    OBVIOUS
  <2>1. ReadLine \/ ReadMore
    BY DEF Next, ReadEnds, PassOver, Unwrap, Expand, ExpandFails, Split, TakePair, NoMorePairs
  <2>2. CASE ReadLine
    BY <2>2 DEF ReadLine
  <2>3. CASE ReadMore
    <3> DEFINE t == strip(getline(str))
    <3>1. /\ rpc = "more" /\ buff' = buff \o t /\ nbracket' = nbracket + opened(t)
          /\ nbracket' = 0
      BY <2>3 DEF ReadMore
    <3>2. buff \in Text /\ str \in Text /\ file \in Files /\ lineno \in 0 .. Len(file.lines) + 1
      BY DEF ReaderInv, TypeOK
    <3>3. t \in Text
      BY <3>2, GetlineIs, StripIs
    <3> HIDE DEF t
    <3>4. opened(buff \o t) = opened(buff) + opened(t)
      BY <3>2, <3>3, OpenedJoins
    <3>5. nbracket = opened(buff)
      BY <3>1 DEF BracketsCounted
    <3>6. QED  BY <3>1, <3>4, <3>5
  <2>4. QED  BY <2>1, <2>2, <2>3
<1>2. QED  BY <1>1, ReaderAlways, CountAlways, PTL DEF Spec

(***************************************************************************)
(* What parts of a text come from.                                         *)
(***************************************************************************)

(* What strtrim leaves is the text from some place on. *)
LEMMA TrimShifts ==
  ASSUME NEW s \in Text
  PROVE  \E d \in Nat : /\ d + Len(strtrim(s)) <= Len(s)
                        /\ \A j \in 1 .. Len(strtrim(s)) : strtrim(s)[j] = s[d + j]
<1> DEFINE Ks == {k \in DOMAIN s : s[k] # Space}
           First1(k) == \A j \in Ks : k <= j
           Last1(k)  == \A j \in Ks : k >= j
           a == CHOOSE k \in Ks : First1(k)
           b == CHOOSE k \in Ks : Last1(k)
<1>1. Len(s) \in Nat /\ Ks \subseteq 1 .. Len(s)
  BY TextIs
<1>2. strtrim(s) = IF Ks = {} THEN <<>> ELSE SubSeq(s, a, b)
  BY DEF strtrim
<1> HIDE DEF Ks
<1>3. CASE Ks = {}
  <2>1. strtrim(s) = <<>> /\ Len(<<>>) = 0
    BY <1>2, <1>3
  <2>2. 0 \in Nat /\ 0 + Len(strtrim(s)) <= Len(s)
        /\ \A j \in 1 .. Len(strtrim(s)) : strtrim(s)[j] = s[0 + j]
    BY <1>1, <2>1
  <2>3. QED  BY <2>2
<1>4. CASE Ks # {}
  <2>1. Ks \subseteq Nat /\ Ks \subseteq 0 .. Len(s)
    BY <1>1
  <2>2. (\E k \in Ks : First1(k)) /\ (\E k \in Ks : Last1(k))
    BY <1>1, <1>4, <2>1, FirstOf, LastOf
  <2> HIDE DEF First1, Last1
  <2>3. a \in Ks /\ First1(a) /\ b \in Ks /\ Last1(b)
    BY <2>2
  <2>4. a \in 1 .. Len(s) /\ b \in 1 .. Len(s) /\ a <= b
    BY <1>1, <2>3 DEF First1
  <2> HIDE DEF a, b
  <2> DEFINE t == SubSeq(s, a, b)
             d == a - 1
  <2>5. a \in Int /\ b \in Int /\ 1 <= a /\ b <= Len(s)
    BY <1>1, <2>4
  <2>6. /\ Len(t) = IF a <= b THEN b - a + 1 ELSE 0
        /\ \A k \in 1 .. Len(t) : t[k] = s[k + a - 1]
    BY <2>5, SubText
  <2> HIDE DEF t
  <2>7. /\ d \in Nat /\ d + Len(t) <= Len(s)
        /\ \A j \in 1 .. Len(t) : t[j] = s[d + j]
    <3>1. d \in Nat /\ Len(t) = b - a + 1
      BY <2>4, <2>6
    <3>2. ASSUME NEW j \in 1 .. Len(t) PROVE t[j] = s[d + j]
      <4>1. j + a - 1 = d + j
        BY <2>5, <3>1
      <4>2. QED  BY <2>6, <4>1
    <3>3. QED  BY <1>1, <2>4, <3>1, <3>2
  <2>8. strtrim(s) = t
    BY <1>2, <1>4 DEF t
  <2>9. QED  BY <2>7, <2>8
<1>5. QED  BY <1>3, <1>4

(* The first part stays when a last one is added or gets longer. *)
LEMMA FirstStays ==
  ASSUME NEW ps \in Seq(Text), Len(ps) >= 1, NEW e, NEW x
  PROVE  /\ Append(ps, e)[1] = ps[1]
         /\ [ps EXCEPT ![Len(ps)] = Append(@, x)][1] =
              IF Len(ps) = 1 THEN Append(ps[1], x) ELSE ps[1]
<1>1. Append(ps, e)[1] = ps[1]
  OBVIOUS
<1>2. [ps EXCEPT ![Len(ps)] = Append(@, x)][1] =
        IF Len(ps) = 1 THEN Append(ps[1], x) ELSE ps[1]
  OBVIOUS
<1>3. QED  BY <1>1, <1>2

(* The first part of a text goes up to its first semicolon.                *)
LEMMA FirstPart ==
  ASSUME NEW s \in Text, s # <<>>
  PROVE  /\ Len(strsplit(s)[1]) <= Len(s)
         /\ \A j \in 1 .. Len(strsplit(s)[1]) : strsplit(s)[1][j] = s[j] /\ s[j] # Semicolon
<1> DEFINE c == splitOf(s)
<1>1. Len(s) \in Nat /\ \A k \in 1 .. Len(s) : s[k] \in Char
  BY TextIs
<1>2. /\ \A k \in 0 .. Len(s) : c[k] \in SomeParts
      /\ c[0] = << <<>> >>
      /\ \A k \in 1 .. Len(s) : c[k] = extended[<<c[k - 1], s[k]>>]
      /\ strsplit(s) = IF s = <<>> THEN <<>> ELSE c[Len(s)]
  BY SplitOfIs
<1> HIDE DEF c
<1> DEFINE Begins(u, k) == /\ u \in Text /\ Len(u) <= k
                           /\ \A j \in 1 .. Len(u) : u[j] = s[j] /\ s[j] # Semicolon
           Right(k) == Begins(c[k][1], k) /\ (Len(c[k]) = 1 => Len(c[k][1]) = k)
           P == {k \in 0 .. Len(s) : Right(k)}
<1>3. 0 \in P
  <2>1. c[0][1] = <<>>
    BY <1>2
  <2>2. Right(0)
    BY <2>1, NoText
  <2>3. QED  BY <1>1, <2>2
<1>4. ASSUME NEW k \in 1 .. Len(s), k - 1 \in P PROVE k \in P
  <2> DEFINE ps == c[k - 1]
             qs == c[k]
             t  == ps[1]
             x  == s[k]
  <2>1. ps \in SomeParts /\ x \in Char /\ qs = extended[<<ps, x>>] /\ k - 1 \in 0 .. Len(s)
    BY <1>1, <1>2
  <2>2. Len(ps) \in Nat /\ Len(ps) >= 1 /\ ps \in Seq(Text)
    BY <2>1 DEF SomeParts
  <2>3. Begins(t, k - 1) /\ (Len(ps) = 1 => Len(t) = k - 1)
    BY <1>4
  <2>4. /\ x = Semicolon => Len(qs) = Len(ps) + 1 /\ qs = Append(ps, <<>>)
        /\ x # Semicolon => Len(qs) = Len(ps) /\ qs = [ps EXCEPT ![Len(ps)] = Append(@, x)]
    <3> HIDE DEF ps, qs, x, Begins
    <3>1. QED  BY <2>1, ExtendedIs
  <2> HIDE DEF ps, qs, t, x
  <2>5. CASE x = Semicolon \/ Len(ps) # 1
    <3>1. qs[1] = t /\ Len(qs) # 1
      <4>1. CASE x = Semicolon
        BY <2>2, <2>4, <4>1, FirstStays DEF t
      <4>2. CASE x # Semicolon /\ Len(ps) # 1
        BY <2>2, <2>4, <4>2, FirstStays DEF t
      <4>3. QED  BY <2>5, <4>1, <4>2
    <3>2. Begins(t, k)
      BY <1>1, <2>3, TextIs
    <3>3. Begins(qs[1], k)
      BY <3>1, <3>2
    <3>4. QED  BY <3>1, <3>3 DEF qs
  <2>6. CASE x # Semicolon /\ Len(ps) = 1
    <3>1. qs[1] = Append(t, x)
      BY <2>2, <2>4, <2>6, FirstStays DEF t
    <3>2. t \in Text /\ Len(t) = k - 1 /\ \A j \in 1 .. k - 1 : t[j] = s[j] /\ s[j] # Semicolon
      BY <2>3, <2>6
    <3> DEFINE v == Append(t, x)
    <3>3. /\ v \in Text /\ Len(v) = k
          /\ \A j \in 1 .. k - 1 : v[j] = t[j]
          /\ v[k] = x
      BY <2>1, <3>2 DEF Text
    <3> HIDE DEF v
    <3>4. \A j \in 1 .. k : v[j] = s[j] /\ s[j] # Semicolon
      <4>1. \A j \in 1 .. k : j = k \/ j \in 1 .. k - 1
        BY <1>1
      <4>2. QED  BY <2>6, <3>2, <3>3, <4>1 DEF x
    <3>5. Begins(v, k) /\ Len(v) = k
      BY <3>3, <3>4
    <3>6. Begins(qs[1], k) /\ Len(qs[1]) = k
      BY <3>1, <3>5 DEF v
    <3>7. QED  BY <3>6 DEF qs
  <2>7. QED  BY <2>5, <2>6
<1> HIDE DEF P
<1>5. Len(s) \in P
  <2>1. 0 .. Len(s) \subseteq P
    BY <1>1, <1>3, <1>4, Induct
  <2>2. QED  BY <1>1, <2>1
<1>6. Begins(c[Len(s)][1], Len(s))
  BY <1>5 DEF P
<1>7. strsplit(s) = c[Len(s)]
  BY <1>2
<1>8. QED  BY <1>6, <1>7

(* What the expressions become begins with the first of them.              *)
LEMMA ExpandedBegins ==
  ASSUME NEW es \in Seq(Text), Len(es) >= 2, pre_delim \in Text
  PROVE  \E tail \in Text : expanded(es) = prefixed(es[1]) \o tail
<1> DEFINE N == Len(es) - 1
           c == expansion(es)
           y == prefixed(es[1])
<1>1. /\ N \in 1 .. N /\ N \in Nat /\ Len(es) >= 1
      /\ es[1] \in Text /\ \A k \in 1 .. N : es[k] \in Text
  OBVIOUS
<1>2. /\ \A k \in 0 .. N : c[k] \in Text
      /\ c[0] = <<>>
      /\ \A k \in 1 .. N : c[k] = c[k - 1] \o prefixed(es[k])
      /\ expanded(es) = c[N]
  BY <1>1, ExpansionIs
<1>3. \A k \in 1 .. N : prefixed(es[k]) \in Text
  BY <1>1, PrefixedIs
<1>4. y \in Text
  BY <1>1, PrefixedIs
<1> HIDE DEF N, c, y
<1> DEFINE P == {k \in 0 .. N : k >= 1 => \E tail \in Text : c[k] = y \o tail}
<1>5. 0 \in P
  BY <1>1
<1>a. \A k \in 1 .. N : /\ k \in 0 .. N /\ prefixed(es[k]) \in Text
                        /\ c[k] = c[k - 1] \o prefixed(es[k])
  <2>1. ASSUME NEW k \in 1 .. N PROVE k \in 0 .. N
    BY <1>1
  <2>2. QED  BY <1>2, <1>3, <2>1
<1>6. ASSUME NEW k \in 1 .. N, k - 1 \in P PROVE k \in P
  <2> DEFINE p == prefixed(es[k])
             b == c[k - 1]
  <2>1. p \in Text /\ c[k] = b \o p /\ k \in 0 .. N
    <3> HIDE DEF P
    <3>1. QED  BY <1>a
  <2> HIDE DEF p, b
  <2>2. CASE k = 1
    <3>1. b = <<>> /\ p = y
      BY <1>2, <2>2 DEF b, p, y
    <3>2. c[k] = y \o <<>>
      BY <1>4, <2>1, <3>1 DEF Text
    <3>3. QED  BY <2>1, <3>2, NoText
  <2>3. CASE k # 1
    <3>1. k - 1 >= 1
      BY <2>3
    <3>2. PICK tail \in Text : b = y \o tail
      BY <1>6, <3>1 DEF b
    <3> HIDE DEF P
    <3>a. c[k] = b \o p /\ p \in Text
      BY <2>1
    <3>b. tail \o p \in Text
      BY <3>2, <3>a DEF Text
    <3>c. (y \o tail) \o p = y \o (tail \o p)
      BY <1>4, <3>2, <3>a, JoinAssoc
    <3> USE DEF P
    <3>3. c[k] = y \o (tail \o p) /\ tail \o p \in Text
      BY <3>2, <3>a, <3>b, <3>c
    <3>4. QED  BY <2>1, <3>3
  <2>4. QED  BY <2>2, <2>3
<1> HIDE DEF P
<1>7. N \in P
  <2>1. 0 .. N \subseteq P
    BY <1>1, <1>5, <1>6, Induct
  <2>2. QED  BY <1>1, <2>1
<1>8. \E tail \in Text : c[N] = y \o tail
  <2>1. N >= 1
    BY <1>1
  <2>2. QED  BY <1>7, <2>1 DEF P
<1>9. QED  BY <1>2, <1>8 DEF y

(***************************************************************************)
(* Opening brackets that come before the second semicolon.  The loop over  *)
(* the groups starts again from the end of buff when it is at its begin;   *)
(* then there are fewer of these.                                          *)
(***************************************************************************)

OneSemicolon(s, k) == \A i, j \in 1 .. k : s[i] = Semicolon /\ s[j] = Semicolon => i = j

Early(s) == {k \in 1 .. Len(s) : s[k] = Open /\ OneSemicolon(s, k)}

LEMMA EarlyIs ==
  ASSUME NEW s \in Text
  PROVE  IsFiniteSet(Early(s)) /\ Cardinality(Early(s)) \in Nat
<1>1. Len(s) \in Nat
  BY TextIs
<1>2. IsFiniteSet(1 .. Len(s))
  BY <1>1, FS_Interval
<1>3. Early(s) \in SUBSET (1 .. Len(s))
  BY DEF Early
<1>4. IsFiniteSet(Early(s))
  BY <1>2, <1>3, FS_Subset
<1>5. QED  BY <1>4, FS_CardinalityType

(* When each early bracket was one before there are no more of them; there *)
(* are fewer when one of those before is gone.                             *)
LEMMA NoMoreEarly ==
  ASSUME NEW s \in Text, NEW t \in Text, NEW f \in Injection(Early(s), Early(t))
  PROVE  /\ Cardinality(Early(s)) <= Cardinality(Early(t))
         /\ \A k \in Early(t) : (\A j \in Early(s) : f[j] # k)
                                  => Cardinality(Early(s)) < Cardinality(Early(t))
<1>1. /\ IsFiniteSet(Early(s)) /\ Cardinality(Early(s)) \in Nat
      /\ IsFiniteSet(Early(t)) /\ Cardinality(Early(t)) \in Nat
  BY EarlyIs
<1>2. /\ Cardinality(Early(s)) <= Cardinality(Early(t))
      /\ Cardinality(Early(s)) = Cardinality(Early(t)) <=> f \in Surjection(Early(s), Early(t))
  BY <1>1, FS_Injection
<1>3. ASSUME NEW k \in Early(t), \A j \in Early(s) : f[j] # k
      PROVE  Cardinality(Early(s)) # Cardinality(Early(t))
  BY <1>2, <1>3 DEF Surjection
<1>4. QED  BY <1>1, <1>2, <1>3

(* What was made of buff, in terms of it: a way back for each bracket that *)
(* is early.                                                               *)
LEMMA EarlyWayBack ==
  ASSUME NEW s \in Text, NEW t \in Text, NEW f,
         \A k \in Early(s) : f[k] \in Early(t),
         \A j, k \in Early(s) : j < k => f[j] < f[k],
         DOMAIN f = Early(s)
  PROVE  /\ Cardinality(Early(s)) <= Cardinality(Early(t))
         /\ \A k \in Early(t) : (\A j \in Early(s) : f[j] # k)
                                  => Cardinality(Early(s)) < Cardinality(Early(t))
<1> DEFINE g == [k \in Early(s) |-> f[k]]
<1>1. Early(s) \subseteq Nat /\ Early(t) \subseteq Nat
  BY DEF Early
<1>2. g \in [Early(s) -> Early(t)]
  OBVIOUS
<1>3. ASSUME NEW j \in Early(s), NEW k \in Early(s), g[j] = g[k] PROVE j = k
  <2>1. j \in Nat /\ k \in Nat /\ f[j] \in Nat /\ f[k] \in Nat /\ f[j] = f[k]
    BY <1>1, <1>3
  <2>2. ~(j < k) /\ ~(k < j)
    BY <2>1
  <2>3. QED  BY <2>1, <2>2
<1>4. g \in Injection(Early(s), Early(t))
  BY <1>2, <1>3 DEF Injection, IsInjective
<1>5. \A k \in Early(s) : g[k] = f[k]
  OBVIOUS
<1> HIDE DEF g
<1>6. QED  BY <1>4, <1>5, NoMoreEarly

(* Brackets and what they are taken from: the bracket at p goes, and the   *)
(* one at q, which closes it or is behind the end.                         *)
LEMMA UnwrappedEarly ==
  ASSUME NEW b \in Text, NEW p \in 1 .. Len(b), NEW q \in p + 1 .. Len(b) + 1,
         b[p] = Open, q <= Len(b) => b[q] = Close,
         NEW u \in Text, Len(u) = IF q <= Len(b) THEN Len(b) - 2 ELSE Len(b) - 1,
         \A k \in 1 .. Len(u) : u[k] = IF k < p THEN b[k] ELSE IF k < q - 1 THEN b[k + 1]
                                                            ELSE b[k + 2]
  PROVE  /\ Cardinality(Early(u)) <= Cardinality(Early(b))
         /\ p = 1 => Cardinality(Early(u)) < Cardinality(Early(b))
<1> DEFINE back(k) == IF k < p THEN k ELSE IF k < q - 1 THEN k + 1 ELSE k + 2
           f == [k \in Early(u) |-> back(k)]
<1>1. Len(b) \in Nat /\ Len(u) \in Nat
  BY TextIs
<1>2. \A k \in 1 .. Len(u) : back(k) \in 1 .. Len(b) /\ u[k] = b[back(k)] /\ back(k) # p
  BY <1>1
<1>3. \A j, k \in 1 .. Len(u) : j < k => back(j) < back(k)
  BY <1>1
<1>4. ASSUME NEW k \in 1 .. Len(u), NEW i \in 1 .. back(k), b[i] = Semicolon
      PROVE  \E j \in 1 .. k : i = back(j)
  <2>a. i \in 1 .. Len(b)
    <3>1. back(k) \in 1 .. Len(b)
      BY <1>2
    <3> HIDE DEF back
    <3>2. QED  BY <1>1, <3>1
  <2>b. i # p
    BY <1>4, Characters, Zenon
  <2>c. q <= Len(b) => i # q
    BY <1>4, Characters, Zenon
  <2>1. i # p /\ i # q /\ i \in 1 .. Len(b)
    BY <1>1, <2>a, <2>b, <2>c
  <2>2. CASE i < p
    <3>1. i \in 1 .. k /\ i = back(i)
      BY <1>1, <1>4, <2>2
    <3>2. QED  BY <3>1
  <2>3. CASE i > p /\ i < q
    <3>1. i - 1 \in 1 .. k /\ i = back(i - 1)
      BY <1>1, <1>4, <2>3
    <3>2. QED  BY <3>1
  <2>4. CASE i > q
    <3>1. i - 2 \in 1 .. k /\ i = back(i - 2)
      BY <1>1, <1>4, <2>4
    <3>2. QED  BY <3>1
  <2>5. i < p \/ (i > p /\ i < q) \/ i > q
    BY <1>1, <2>1
  <2>6. QED  BY <2>2, <2>3, <2>4, <2>5
<1>5. ASSUME NEW k \in Early(u) PROVE back(k) \in Early(b)
  <2>1. k \in 1 .. Len(u) /\ u[k] = Open /\ OneSemicolon(u, k)
    BY DEF Early
  <2>2. back(k) \in 1 .. Len(b) /\ b[back(k)] = Open
    BY <1>2, <2>1
  <2>3. OneSemicolon(b, back(k))
    <3>1. SUFFICES ASSUME NEW i \in 1 .. back(k), NEW j \in 1 .. back(k),
                          b[i] = Semicolon, b[j] = Semicolon
                   PROVE  i = j
      BY DEF OneSemicolon
    <3>2. PICK i1 \in 1 .. k : i = back(i1)
      BY <1>4, <2>1, <3>1
    <3>3. PICK j1 \in 1 .. k : j = back(j1)
      BY <1>4, <2>1, <3>1
    <3>4. i1 \in 1 .. Len(u) /\ j1 \in 1 .. Len(u)
      BY <1>1, <2>1
    <3> HIDE DEF back
    <3>5. u[i1] = Semicolon /\ u[j1] = Semicolon
      BY <1>2, <3>1, <3>2, <3>3, <3>4
    <3>6. i1 = j1
      BY <2>1, <3>5 DEF OneSemicolon
    <3>7. QED  BY <3>2, <3>3, <3>6
  <2> HIDE DEF back
  <2>4. QED  BY <2>2, <2>3 DEF Early
<1> HIDE DEF back
<1>6. /\ DOMAIN f = Early(u)
      /\ \A k \in Early(u) : f[k] \in Early(b) /\ f[k] # p /\ k \in 1 .. Len(u)
      /\ \A j, k \in Early(u) : j < k => f[j] < f[k]
  <2>1. \A k \in Early(u) : f[k] = back(k) /\ k \in 1 .. Len(u)
    BY DEF Early
  <2>2. DOMAIN f = Early(u)
    OBVIOUS
  <2> HIDE DEF f
  <2>3. QED  BY <1>2, <1>3, <1>5, <2>1, <2>2
<1> HIDE DEF f
<1>7. /\ Cardinality(Early(u)) <= Cardinality(Early(b))
      /\ \A k \in Early(b) : (\A j \in Early(u) : f[j] # k)
                               => Cardinality(Early(u)) < Cardinality(Early(b))
  BY <1>6, EarlyWayBack
<1>8. p = 1 => p \in Early(b)
  <2>1. ASSUME p = 1 PROVE OneSemicolon(b, p)
    BY <2>1 DEF OneSemicolon
  <2>2. QED  BY <2>1 DEF Early
<1>9. QED  BY <1>6, <1>7, <1>8

(* A group and what its first expression becomes: m characters of the name *)
(* from c on, a point, and n characters from a on, up to a semicolon.      *)
IsExpanded(u, b, p, q, c, m, a, n) ==
  /\ b \in Text /\ p \in 1 .. Len(b) /\ q \in 1 .. p - 1
  /\ b[p] = Open /\ b[q] = Semicolon
  /\ c \in Nat /\ m \in Nat /\ q <= c /\ c + m < p
  /\ a \in Nat /\ n \in Nat /\ p <= a /\ a + n <= Len(b)
  /\ \A k \in q + 1 .. a + n : b[k] # Semicolon
  /\ u \in Text /\ Len(u) >= q + m + n + 2
  /\ \A k \in 1 .. q : u[k] = b[k]
  /\ \A k \in 1 .. m : u[q + k] = b[c + k]
  /\ u[q + m + 1] # Open
  /\ \A k \in 1 .. n : u[q + m + 1 + k] = b[a + k]
  /\ u[q + m + n + 2] = Semicolon

LEMMA ExpandedEarly ==
  ASSUME NEW u, NEW b, NEW p, NEW q, NEW c, NEW m, NEW a, NEW n,
         IsExpanded(u, b, p, q, c, m, a, n)
  PROVE  /\ Cardinality(Early(u)) <= Cardinality(Early(b))
         /\ q = 1 => Cardinality(Early(u)) < Cardinality(Early(b))
<1>0. /\ b \in Text /\ p \in 1 .. Len(b) /\ q \in 1 .. p - 1
      /\ b[p] = Open /\ b[q] = Semicolon
      /\ c \in Nat /\ m \in Nat /\ q <= c /\ c + m < p
      /\ a \in Nat /\ n \in Nat /\ p <= a /\ a + n <= Len(b)
      /\ \A k \in q + 1 .. a + n : b[k] # Semicolon
      /\ u \in Text /\ Len(u) >= q + m + n + 2
      /\ \A k \in 1 .. q : u[k] = b[k]
      /\ \A k \in 1 .. m : u[q + k] = b[c + k]
      /\ u[q + m + 1] # Open
      /\ \A k \in 1 .. n : u[q + m + 1 + k] = b[a + k]
      /\ u[q + m + n + 2] = Semicolon
  BY DEF IsExpanded
<1> DEFINE back(k) == IF k <= q THEN k ELSE IF k <= q + m THEN c + (k - q) ELSE a + (k - (q + m + 1))
           f == [k \in Early(u) |-> back(k)]
<1>1. Len(b) \in Nat /\ Len(u) \in Nat /\ q \in Nat /\ p \in Nat
  BY <1>0, TextIs
<1>2. \A k \in Early(u) : k \in 1 .. Len(u) /\ u[k] = Open /\ OneSemicolon(u, k)
  BY DEF Early
<1>3. ASSUME NEW k \in Early(u)
      PROVE  k \in 1 .. q + m + n + 1 /\ k # q + m + 1
  <2>1. k # q + m + 1
    BY <1>0, <1>2
  <2>2. ASSUME k > q + m + n + 2 PROVE FALSE
    <3>0. k \in Nat
      BY <1>0, <1>2
    <3>1. q \in 1 .. k /\ q + m + n + 2 \in 1 .. k /\ q # q + m + n + 2
      BY <1>0, <1>1, <2>2, <3>0
    <3>2. u[q] = Semicolon /\ u[q + m + n + 2] = Semicolon
      BY <1>0, <1>1
    <3>3. OneSemicolon(u, k)
      BY <1>0, <1>2
    <3>4. QED  BY <3>1, <3>2, <3>3 DEF OneSemicolon
  <2>3. k # q + m + n + 2
    BY <1>0, <1>2, Characters, Zenon
  <2>4. k \in 1 .. Len(u)
    BY <1>0, <1>2
  <2>5. QED  BY <1>0, <1>1, <2>1, <2>2, <2>3, <2>4
<1>4. ASSUME NEW k \in Early(u)
      PROVE  /\ back(k) \in 1 .. a + n /\ back(k) \in 1 .. Len(b) /\ b[back(k)] = u[k]
             /\ back(k) # p /\ (k > q => back(k) > q)
  <2>1. k \in 1 .. q + m + n + 1 /\ k # q + m + 1
    BY <1>0, <1>3
  <2>2. CASE k <= q
    BY <1>0, <1>1, <2>1, <2>2
  <2>3. CASE k > q /\ k <= q + m
    <3>1. k - q \in 1 .. m /\ q + (k - q) = k
      BY <1>0, <1>1, <2>1, <2>3
    <3>2. u[q + (k - q)] = b[c + (k - q)]
      BY <1>0, <3>1
    <3>3. back(k) = c + (k - q)
      BY <1>0, <1>1, <2>1, <2>3
    <3> DEFINE x == k - q
    <3>a. x \in 1 .. m /\ b[c + x] = u[k] /\ back(k) = c + x
      BY <3>1, <3>2, <3>3
    <3> HIDE DEF back, x
    <3>4. b[back(k)] = u[k]
      BY <3>a
    <3>5. /\ back(k) \in 1 .. a + n /\ back(k) \in 1 .. Len(b)
          /\ back(k) # p /\ back(k) > q
      BY <1>0, <1>1, <3>a
    <3>6. QED  BY <3>4, <3>5
  <2>4. CASE k > q + m
    <3>1. k - (q + m + 1) \in 1 .. n /\ q + m + 1 + (k - (q + m + 1)) = k
      BY <1>0, <1>1, <2>1, <2>4
    <3>2. u[q + m + 1 + (k - (q + m + 1))] = b[a + (k - (q + m + 1))]
      BY <1>0, <3>1
    <3>3. back(k) = a + (k - (q + m + 1))
      BY <1>0, <1>1, <2>1, <2>4
    <3> DEFINE x == k - (q + m + 1)
    <3>a. x \in 1 .. n /\ b[a + x] = u[k] /\ back(k) = a + x
      BY <3>1, <3>2, <3>3
    <3> HIDE DEF back, x
    <3>4. b[back(k)] = u[k]
      BY <3>a
    <3>5. /\ back(k) \in 1 .. a + n /\ back(k) \in 1 .. Len(b)
          /\ back(k) # p /\ back(k) > q
      BY <1>0, <1>1, <3>a
    <3>6. QED  BY <3>4, <3>5
  <2>5. QED  BY <1>0, <1>1, <2>1, <2>2, <2>3, <2>4
<1>5. ASSUME NEW j \in Early(u), NEW k \in Early(u), j < k PROVE back(j) < back(k)
  <2>1. j \in 1 .. q + m + n + 1 /\ j # q + m + 1 /\ k \in 1 .. q + m + n + 1 /\ k # q + m + 1
    BY <1>0, <1>3
  <2>2. QED  BY <1>0, <1>1, <1>5, <2>1
<1>6. ASSUME NEW k \in Early(u) PROVE back(k) \in Early(b)
  <2>1. /\ back(k) \in 1 .. a + n /\ back(k) \in 1 .. Len(b) /\ b[back(k)] = Open
        /\ k > q => back(k) > q
        /\ k \in Nat /\ (k <= q => back(k) = k)
    <3>1. k <= q => back(k) = k
      OBVIOUS
    <3>2. k \in Nat
      BY <1>0, <1>2
    <3> HIDE DEF back
    <3>3. QED  BY <1>0, <1>2, <1>4, <3>1, <3>2
  <2> HIDE DEF back
  <2>2. ASSUME NEW i \in 1 .. back(k), b[i] = Semicolon
        PROVE  i \in 1 .. k /\ u[i] = Semicolon
    <3>1. i \in 1 .. a + n
      BY <1>0, <1>1, <2>1
    <3>2. i <= q
      BY <1>0, <1>1, <2>2, <3>1
    <3>3. i \in 1 .. q /\ i <= k
      BY <1>0, <1>1, <2>1, <3>1, <3>2
    <3>4. u[i] = b[i]
      BY <1>0, <3>3
    <3>5. QED  BY <2>1, <2>2, <3>3, <3>4
  <2>3. OneSemicolon(u, k)
    BY <1>0, <1>2
  <2>4. OneSemicolon(b, back(k))
    BY <2>2, <2>3 DEF OneSemicolon
  <2>5. QED  BY <2>1, <2>4 DEF Early
<1>7. /\ DOMAIN f = Early(u)
      /\ \A k \in Early(u) : f[k] \in Early(b) /\ f[k] # p
      /\ \A j, k \in Early(u) : j < k => f[j] < f[k]
  <2>1. \A k \in Early(u) : back(k) # p
    BY <1>4
  <2> HIDE DEF back
  <2>2. DOMAIN f = Early(u) /\ \A k \in Early(u) : f[k] = back(k)
    OBVIOUS
  <2> HIDE DEF f
  <2>3. QED  BY <1>5, <1>6, <2>1, <2>2
<1> HIDE DEF f
<1>8. /\ Cardinality(Early(u)) <= Cardinality(Early(b))
      /\ \A k \in Early(b) : (\A j \in Early(u) : f[j] # k)
                               => Cardinality(Early(u)) < Cardinality(Early(b))
  BY <1>0, <1>7, EarlyWayBack
<1>9. ASSUME q = 1 PROVE p \in Early(b)
  <2>1. \A i \in 1 .. p : b[i] = Semicolon => i = 1
    <3>1. ASSUME NEW i \in 1 .. p, i # 1 PROVE b[i] # Semicolon
      <4>1. i \in q + 1 .. a + n
        BY <1>0, <1>1, <1>9, <3>1
      <4>2. QED  BY <1>0, <4>1
    <3>2. QED  BY <1>0, <3>1
  <2>2. OneSemicolon(b, p)
    BY <2>1 DEF OneSemicolon
  <2>3. QED  BY <1>0, <2>2 DEF Early
<1>10. QED  BY <1>7, <1>8, <1>9

(***************************************************************************)
(* Reading gets on.                                                        *)
(***************************************************************************)

(* How far it still is until the next line. *)
stage == IF rpc = "more" THEN 5
         ELSE IF rpc = "group" /\ pos_1 # 0 THEN 4
         ELSE IF rpc = "group" THEN 3
         ELSE IF rpc = "pairs" THEN 2
         ELSE IF rpc = "line" THEN 1 ELSE 0

early == Cardinality(Early(buff))

(* What becomes less in the loop over the groups, and in that over the     *)
(* parts.                                                                  *)
FewerGroups == early' < early \/ (early' <= early /\ pos_1' < pos_1)
FewerParts  == Len(parts') < Len(parts)

(* What becomes less at the end of the file, while brackets are open.      *)
CloserMatch ==
  \/ unmatched(nbracket') < unmatched(nbracket)
  \/ nbracket' = nbracket /\ str # <<>> /\ str' = <<>>

(* There are only so many lines, stages, brackets, positions and parts.    *)
Forward ==
  \/ lineno' > lineno
  \/ /\ lineno' = lineno
     /\ \/ stage' < stage
        \/ stage = 5 /\ stage' = 5 /\ CloserMatch
        \/ stage = 4 /\ stage' = 4 /\ FewerGroups
        \/ stage = 2 /\ stage' = 2 /\ FewerParts

LEMMA BeforeIsLess ==
  ASSUME NEW b \in Text, NEW i \in Nat, i > 1 PROVE before(b, i) \in 0 .. i - 1
<1>1. before(b, i) = find_last(b, Open, i - 1) /\ i - 1 \in Nat
  BY DEF before
<1>2. QED  BY <1>1, FindLastIs

LEMMA FromLen ==
  ASSUME NEW s \in Text, NEW i \in Nat, i >= 1
  PROVE  /\ Len(from(s, i)) = IF i <= Len(s) THEN Len(s) - i + 1 ELSE 0
         /\ \A k \in 1 .. Len(from(s, i)) : from(s, i)[k] = s[k + i - 1]
<1>1. Len(s) \in Int /\ Len(s) <= Len(s) /\ 1 <= i /\ i \in Int
  BY TextIs
<1>2. QED  BY <1>1, SubText DEF from

(* The bracket that closes a group is one. *)
LEMMA ClosesGroup ==
  ASSUME buff \in Text, pos_1 \in 1 .. Len(buff)
  PROVE  pos_2 <= Len(buff) => buff[pos_2] = Close
<1> DEFINE Ks == {k \in pos_1 + 1 .. Len(buff) :
                    buff[k] = Close /\ opened(SubSeq(buff, pos_1, k)) = 0}
<1>1. pos_2 = IF Ks = {} THEN Len(buff) + 1 ELSE CHOOSE k \in Ks : \A j \in Ks : k <= j
  BY DEF pos_2
<1>2. Ks \subseteq pos_1 + 1 .. Len(buff) /\ Len(buff) \in Nat /\ pos_1 + 1 \in Nat
  BY TextIs
<1>3. \A k \in Ks : buff[k] = Close
  OBVIOUS
<1> HIDE DEF Ks, pos_2
<1>4. pos_2 \in Ks \cup {Len(buff) + 1}
  BY <1>1, <1>2, FirstOrEnd
<1>5. QED  BY <1>2, <1>3, <1>4

(* Taking brackets away leaves fewer groups, or what comes earlier.        *)
LEMMA UnwrapFewer == ReaderInv /\ Unwrap => FewerGroups
<1> SUFFICES ASSUME ReaderInv, Unwrap PROVE FewerGroups
  OBVIOUS
<1> DEFINE b == buff
           p == pos_1
           q == pos_2
           x == upto(buff, pos_1 - 1)
           y == SubSeq(buff, pos_1 + 1, pos_2 - 1)
           z == from(buff, pos_2 + 1)
           u == x \o y \o z
<1>1. rpc = "group" /\ pos_1 # 0 /\ buff' = u /\ pos_1' = before(buff', pos_1)
  BY DEF Unwrap
<1>2. /\ b \in Text /\ p \in 1 .. Len(b) /\ b[p] = Open /\ Len(b) \in Nat /\ p \in Nat
  BY <1>1, AtGroup
<1>3. q \in p + 1 .. Len(b) + 1 /\ (q <= Len(b) => b[q] = Close)
  BY <1>2, GroupIs, ClosesGroup
<1>4. x \in Text /\ Len(x) = p - 1 /\ \A k \in 1 .. p - 1 : x[k] = b[k]
  <2>1. p - 1 \in Int /\ p - 1 <= Len(b)
    BY <1>2
  <2>2. /\ upto(b, p - 1) \in Text
        /\ Len(upto(b, p - 1)) = IF 1 <= p - 1 THEN p - 1 ELSE 0
        /\ \A k \in 1 .. p - 1 : upto(b, p - 1)[k] = b[k]
    BY <1>2, <2>1, UptoIs
  <2>3. QED  BY <1>2, <2>2
<1>5. y \in Text /\ Len(y) = q - p - 1 /\ \A k \in 1 .. q - p - 1 : y[k] = b[k + p]
  <2>1. p + 1 \in Int /\ q - 1 \in Int /\ 1 <= p + 1 /\ q - 1 <= Len(b)
    BY <1>2, <1>3
  <2>2. /\ y \in Text /\ Len(y) = IF p + 1 <= q - 1 THEN (q - 1) - (p + 1) + 1 ELSE 0
        /\ \A k \in 1 .. Len(y) : y[k] = b[k + (p + 1) - 1]
    BY <1>2, <2>1, SubText
  <2> HIDE DEF y, b, p, q
  <2>3. Len(y) = q - p - 1 /\ \A k \in 1 .. Len(y) : k + (p + 1) - 1 = k + p
    BY <1>2, <1>3, <2>2
  <2>4. QED  BY <2>2, <2>3
<1>6. /\ z \in Text /\ Len(z) = IF q < Len(b) THEN Len(b) - q ELSE 0
      /\ \A k \in 1 .. Len(z) : z[k] = b[k + q]
  <2>1. q + 1 \in Nat /\ q + 1 >= 1
    BY <1>2, <1>3
  <2>2. /\ z \in Text /\ Len(z) = IF q + 1 <= Len(b) THEN Len(b) - (q + 1) + 1 ELSE 0
        /\ \A k \in 1 .. Len(z) : z[k] = b[k + (q + 1) - 1]
    BY <1>2, <2>1, FromIs, FromLen
  <2> HIDE DEF z, b, p, q
  <2>3. Len(z) \in Nat
    BY <2>2, TextIs
  <2>4. \A k \in 1 .. Len(z) : k + (q + 1) - 1 = k + q
    BY <1>2, <1>3, <2>3
  <2>5. QED  BY <1>2, <1>3, <2>2, <2>4
<1> HIDE DEF x, y, z, b, p, q
<1>7. /\ u \in Text /\ Len(u) = IF q <= Len(b) THEN Len(b) - 2 ELSE Len(b) - 1
      /\ \A k \in 1 .. Len(u) : u[k] = IF k < p THEN b[k] ELSE IF k < q - 1 THEN b[k + 1]
                                                            ELSE b[k + 2]
  <2> DEFINE v == x \o y
  <2>1. /\ v \in Text /\ Len(v) = Len(x) + Len(y)
        /\ \A k \in 1 .. Len(x) : v[k] = x[k]
        /\ \A k \in 1 .. Len(y) : v[Len(x) + k] = y[k]
    BY <1>4, <1>5, JoinText
  <2> HIDE DEF v
  <2>2. /\ v \o z \in Text /\ Len(v \o z) = Len(v) + Len(z)
        /\ \A k \in 1 .. Len(v) : (v \o z)[k] = v[k]
        /\ \A k \in 1 .. Len(z) : (v \o z)[Len(v) + k] = z[k]
    BY <1>6, <2>1, JoinText
  <2>3. u = v \o z
    BY DEF v
  <2> HIDE DEF u
  <2>4. Len(v) = q - 2 /\ Len(u) = IF q <= Len(b) THEN Len(b) - 2 ELSE Len(b) - 1
    <3>1. Len(v) = (p - 1) + (q - p - 1)
      BY <1>4, <1>5, <2>1
    <3>2. Len(u) = Len(v) + IF q < Len(b) THEN Len(b) - q ELSE 0
      BY <1>6, <2>2, <2>3
    <3>3. q \in Nat /\ q <= Len(b) + 1 /\ p \in Nat /\ Len(b) \in Nat
      BY <1>2, <1>3
    <3>4. Len(v) = q - 2
      BY <3>1, <3>3
    <3>5. Len(u) = IF q <= Len(b) THEN Len(b) - 2 ELSE Len(b) - 1
      <4>1. CASE q < Len(b)
        BY <3>2, <3>3, <3>4, <4>1
      <4>2. CASE q >= Len(b)
        BY <3>2, <3>3, <3>4, <4>2
      <4>3. QED  BY <3>3, <4>1, <4>2
    <3>6. QED  BY <3>4, <3>5
  <2>5. ASSUME NEW k \in 1 .. Len(u)
        PROVE  u[k] = IF k < p THEN b[k] ELSE IF k < q - 1 THEN b[k + 1] ELSE b[k + 2]
    <3>1. k \in Nat /\ k >= 1
      BY <1>2, <1>3, <2>4
    <3>2. CASE k < p
      <4>1. k \in 1 .. p - 1 /\ k \in 1 .. Len(x) /\ k \in 1 .. Len(v)
        BY <1>2, <1>3, <1>4, <2>4, <3>1, <3>2
      <4>2. QED  BY <1>4, <2>1, <2>2, <2>3, <3>2, <4>1
    <3>3. CASE k >= p /\ k < q - 1
      <4> DEFINE i == k - (p - 1)
      <4>1. /\ i \in 1 .. Len(y) /\ i \in 1 .. q - p - 1 /\ i + p = k + 1
            /\ Len(x) + i = k /\ k \in 1 .. Len(v) /\ ~(k < p)
        BY <1>2, <1>3, <1>4, <1>5, <2>4, <3>1, <3>3
      <4> HIDE DEF i
      <4>2. v[Len(x) + i] = y[i] /\ y[i] = b[i + p]
        BY <1>5, <2>1, <4>1
      <4>3. u[k] = b[k + 1]
        BY <2>2, <2>3, <4>1, <4>2
      <4>4. QED  BY <3>3, <4>1, <4>3
    <3>4. CASE k >= q - 1
      <4> DEFINE i == k - (q - 2)
      <4>1. /\ i \in 1 .. Len(z) /\ i + q = k + 2 /\ Len(v) + i = k
            /\ ~(k < p) /\ ~(k < q - 1)
        BY <1>2, <1>3, <1>6, <2>4, <3>1, <3>4
      <4> HIDE DEF i
      <4>2. (v \o z)[Len(v) + i] = z[i] /\ z[i] = b[i + q]
        BY <1>6, <2>2, <4>1
      <4>3. QED  BY <2>3, <4>1, <4>2
    <3>5. QED  BY <1>2, <1>3, <3>1, <3>2, <3>3, <3>4
  <2>6. QED  BY <2>2, <2>3, <2>4, <2>5
<1> HIDE DEF u
<1>8. /\ Cardinality(Early(u)) <= Cardinality(Early(b))
      /\ p = 1 => Cardinality(Early(u)) < Cardinality(Early(b))
  BY <1>2, <1>3, <1>7, UnwrappedEarly
<1>9. p > 1 => before(u, p) \in 0 .. p - 1
  BY <1>2, <1>7, BeforeIsLess
<1>10. early = Cardinality(Early(b)) /\ early' = Cardinality(Early(u))
  BY <1>1 DEF early, b
<1>11. pos_1 = p /\ pos_1' = before(u, p)
  BY <1>1 DEF p
<1>12. QED  BY <1>2, <1>8, <1>9, <1>10, <1>11 DEF FewerGroups

(* The characters of an expression with the name of the group in front. *)
LEMMA PrefixedAt ==
  ASSUME NEW t \in Text, pre_delim \in Text
  PROVE  LET m == Len(pre_delim)
             n == Len(strtrim(t))
             w == prefixed(t)
         IN  /\ w \in Text /\ Len(w) = m + n + 2
             /\ \A k \in 1 .. m : w[k] = pre_delim[k]
             /\ w[m + 1] # Open
             /\ \A k \in 1 .. n : w[m + 1 + k] = strtrim(t)[k]
             /\ w[m + n + 2] = Semicolon
<1> DEFINE d == pre_delim
           e == strtrim(t)
           o == <<".">>
           s == <<Semicolon>>
           v == d \o o
           y == v \o e
           w == y \o s
           m == Len(d)
           n == Len(e)
<1>1. d \in Text /\ e \in Text /\ m \in Nat /\ n \in Nat
  BY TrimIs, TextIs
<1>2. /\ o \in Text /\ Len(o) = 1 /\ o[1] # Open
      /\ s \in Text /\ Len(s) = 1 /\ s[1] = Semicolon
  <2>1. "." \in Char /\ Semicolon \in Char
    BY Characters
  <2>2. "." # Open
    BY Zenon DEF Open
  <2>3. o[1] # Open
    BY <2>2, Zenon
  <2>4. o \in Text /\ Len(o) = 1 /\ s \in Text /\ Len(s) = 1 /\ s[1] = Semicolon
    BY <2>1 DEF Text
  <2>5. QED  BY <2>3, <2>4
<1> HIDE DEF d, e, o, s
<1>3. /\ v \in Text /\ Len(v) = m + 1
      /\ \A k \in 1 .. m : v[k] = d[k]
      /\ v[m + 1] = o[1]
  <2>1. /\ v \in Text /\ Len(v) = Len(d) + Len(o)
        /\ \A k \in 1 .. Len(d) : v[k] = d[k]
        /\ \A k \in 1 .. Len(o) : v[Len(d) + k] = o[k]
    BY <1>1, <1>2, JoinText
  <2> HIDE DEF v
  <2>2. 1 \in 1 .. Len(o)
    BY <1>2
  <2>3. QED  BY <1>2, <2>1, <2>2
<1> HIDE DEF v
<1>4. /\ y \in Text /\ Len(y) = m + 1 + n
      /\ \A k \in 1 .. m + 1 : y[k] = v[k]
      /\ \A k \in 1 .. n : y[m + 1 + k] = e[k]
  <2>1. /\ y \in Text /\ Len(y) = Len(v) + Len(e)
        /\ \A k \in 1 .. Len(v) : y[k] = v[k]
        /\ \A k \in 1 .. Len(e) : y[Len(v) + k] = e[k]
    BY <1>1, <1>3, JoinText
  <2> HIDE DEF y
  <2>2. QED  BY <1>1, <1>3, <2>1
<1> HIDE DEF y
<1>5. /\ w \in Text /\ Len(w) = m + n + 2
      /\ \A k \in 1 .. m + 1 + n : w[k] = y[k]
      /\ w[m + n + 2] = Semicolon
  <2>1. /\ w \in Text /\ Len(w) = Len(y) + Len(s)
        /\ \A k \in 1 .. Len(y) : w[k] = y[k]
        /\ \A k \in 1 .. Len(s) : w[Len(y) + k] = s[k]
    BY <1>2, <1>4, JoinText
  <2> HIDE DEF w
  <2>2. 1 \in 1 .. Len(s) /\ Len(y) + 1 = m + n + 2
    BY <1>1, <1>2, <1>4
  <2>3. w[Len(y) + 1] = Semicolon
    BY <1>2, <2>1, <2>2
  <2>4. QED  BY <1>1, <1>2, <1>4, <2>1, <2>2, <2>3
<1> HIDE DEF w
<1>6. \A k \in 1 .. m : w[k] = d[k]
  <2>1. \A k \in 1 .. m : k \in 1 .. m + 1 /\ k \in 1 .. m + 1 + n
    BY <1>1
  <2>2. QED  BY <1>3, <1>4, <1>5, <2>1
<1>7. w[m + 1] # Open
  <2>1. m + 1 \in 1 .. m + 1 /\ m + 1 \in 1 .. m + 1 + n
    BY <1>1
  <2>2. w[m + 1] = o[1]
    BY <1>3, <1>4, <1>5, <2>1
  <2>3. QED  BY <1>2, <2>2
<1>8. \A k \in 1 .. n : w[m + 1 + k] = e[k]
  <2>1. \A k \in 1 .. n : m + 1 + k \in 1 .. m + 1 + n
    BY <1>1
  <2>2. QED  BY <1>4, <1>5, <2>1
<1>9. prefixed(t) = w
  BY DEF prefixed, w, y, v, d, o, e, s
<1>10. QED  BY <1>5, <1>6, <1>7, <1>8, <1>9 DEF m, n, d, e

(* Where the name of a group comes from.                                   *)
LEMMA NameFrom ==
  ASSUME buff \in Text, pos_1 \in 1 .. Len(buff), pos_4 \in 0 .. pos_1 - 1
  PROVE  \E c \in Nat : /\ pos_4 <= c /\ c + Len(pre_delim) < pos_1
                        /\ \A k \in 1 .. Len(pre_delim) : pre_delim[k] = buff[c + k]
<1> DEFINE b == buff
           p == pos_1
           q == pos_4
           s == SubSeq(b, q + 1, p - 1)
           d == pre_delim
<1>1. Len(b) \in Nat /\ p \in Nat /\ q \in Nat /\ b \in Text
  BY TextIs
<1>2. /\ s \in Text /\ Len(s) = IF q + 1 <= p - 1 THEN (p - 1) - (q + 1) + 1 ELSE 0
      /\ \A k \in 1 .. Len(s) : s[k] = b[k + (q + 1) - 1]
  BY <1>1, SubText
<1>3. d = strtrim(s)
  BY DEF pre_delim
<1> HIDE DEF s, d
<1>4. PICK i \in Nat : /\ i + Len(d) <= Len(s)
                       /\ \A j \in 1 .. Len(d) : d[j] = s[i + j]
  BY <1>2, <1>3, TrimShifts
<1>5. Len(d) \in Nat
  BY <1>2, <1>3, TrimIs, TextIs
<1> HIDE DEF b, p, q
<1>6. Len(s) = p - 1 - q
  BY <1>1, <1>2 DEF p, q
<1>7. q + i \in Nat /\ q <= q + i /\ q + i + Len(d) < p
  BY <1>1, <1>4, <1>5, <1>6
<1>8. ASSUME NEW k \in 1 .. Len(d) PROVE d[k] = b[(q + i) + k]
  <2>1. i + k \in 1 .. Len(s) /\ (i + k) + (q + 1) - 1 = (q + i) + k
    BY <1>1, <1>4, <1>5, <1>6
  <2>2. QED  BY <1>2, <1>4, <2>1
<1> DEFINE c == q + i
<1>9. c \in Nat /\ q <= c /\ c + Len(d) < p /\ \A k \in 1 .. Len(d) : d[k] = b[c + k]
  BY <1>7, <1>8
<1> HIDE DEF c
<1>10. QED  BY <1>9 DEF b, p, q, d

(* Where the first expression of a group comes from: from the bracket on   *)
(* there is no semicolon before its end.                                   *)
LEMMA FirstFrom ==
  ASSUME buff \in Text, pos_1 \in 1 .. Len(buff), buff[pos_1] = Open, IsGroup
  PROVE  LET e == strtrim(exprs[1])
         IN  \E a \in Nat : /\ pos_1 <= a /\ a + Len(e) <= Len(buff)
                            /\ \A k \in 1 .. Len(e) : e[k] = buff[a + k]
                            /\ \A k \in pos_1 + 1 .. a + Len(e) : buff[k] # Semicolon
<1> DEFINE b == buff
           p == pos_1
           q == pos_2
           t == SubSeq(b, p + 1, q - 1)
           f == strsplit(t)[1]
           e == strtrim(f)
<1>1. Len(b) \in Nat /\ p \in Nat /\ b \in Text
  BY TextIs
<1>2. q \in p + 1 .. Len(b) + 1 /\ Len(t) >= 1
  BY GroupIs, ExprsIs
<1>3. /\ t \in Text /\ Len(t) = q - 1 - p
      /\ \A k \in 1 .. Len(t) : t[k] = b[k + (p + 1) - 1]
  BY <1>1, <1>2, SubText
<1>4. exprs[1] = f
  BY DEF exprs
<1> HIDE DEF b, p, q, t
<1>5. t # <<>> /\ Len(t) \in Nat
  BY <1>2, <1>3, TextIs
<1>6. /\ Len(f) <= Len(t)
      /\ \A j \in 1 .. Len(f) : f[j] = t[j] /\ t[j] # Semicolon
  BY <1>3, <1>5, FirstPart
<1>7. f \in Text /\ Len(f) \in Nat
  <2>1. strsplit(t) \in Seq(Text) /\ Len(strsplit(t)) >= 1
    BY <1>3, <1>5, StrsplitIs
  <2>2. f \in Text
    BY <2>1
  <2> HIDE DEF f
  <2>3. QED  BY <2>2, TextIs
<1> HIDE DEF f
<1>8. PICK i \in Nat : i + Len(e) <= Len(f) /\ \A j \in 1 .. Len(e) : e[j] = f[i + j]
  BY <1>7, TrimShifts
<1>9. Len(e) \in Nat
  BY <1>7, TrimIs, TextIs
<1> HIDE DEF e
<1> DEFINE a == p + i
<1>10. a \in Nat /\ p <= a /\ a + Len(e) <= Len(b)
  BY <1>1, <1>2, <1>3, <1>6, <1>7, <1>8, <1>9
<1>11. \A j \in 1 .. Len(f) : f[j] = b[p + j] /\ b[p + j] # Semicolon
  <2>1. ASSUME NEW j \in 1 .. Len(f) PROVE j \in 1 .. Len(t) /\ j + (p + 1) - 1 = p + j
    BY <1>1, <1>5, <1>6, <1>7
  <2>2. QED  BY <1>3, <1>6, <2>1
<1>12. ASSUME NEW k \in 1 .. Len(e) PROVE e[k] = b[a + k]
  <2>1. i + k \in 1 .. Len(f) /\ p + (i + k) = a + k
    BY <1>1, <1>7, <1>8, <1>9
  <2>2. QED  BY <1>8, <1>11, <2>1
<1>13. ASSUME NEW k \in p + 1 .. a + Len(e) PROVE b[k] # Semicolon
  <2>1. k - p \in 1 .. Len(f) /\ p + (k - p) = k
    BY <1>1, <1>7, <1>8, <1>9
  <2>2. QED  BY <1>11, <2>1
<1> HIDE DEF a
<1>14. QED  BY <1>4, <1>10, <1>12, <1>13 DEF b, p, e

(* The first statement of what a group becomes, after what came before it. *)
LEMMA ExpandFewer == ReaderInv /\ Expand /\ pos_1' # 0 => FewerGroups
<1> SUFFICES ASSUME ReaderInv, Expand, pos_1' # 0 PROVE FewerGroups
  OBVIOUS
<1> DEFINE b  == buff
           p  == pos_1
           q  == pos_4
           d  == pre_delim
           es == exprs
           f  == es[1]
           e  == strtrim(f)
           w  == prefixed(f)
           x  == expanded(es)
           r  == rest
           y  == upto(b, q)
           u  == y \o x \o r
           m  == Len(d)
           n  == Len(e)
<1>1. /\ rpc = "group" /\ pos_1 # 0 /\ IsGroup /\ Complete(es) /\ buff' = u
      /\ pos_1' = IF q = 0 THEN 0 ELSE before(u, q)
  <2>1. str' = x /\ buff' = y \o str' \o r
    BY DEF Expand
  <2>2. buff' = u
    BY <2>1
  <2>3. QED  BY <2>2 DEF Expand
<1>2. /\ b \in Text /\ p \in 1 .. Len(b) /\ b[p] = Open /\ Len(b) \in Nat /\ p \in Nat
  BY <1>1, AtGroup
<1>3. q \in 0 .. p - 1 /\ d \in Text /\ r \in Text /\ es \in Seq(Text)
  BY <1>2, GroupIs
<1>4. q # 0 /\ q \in 1 .. p - 1 /\ pos_1' = before(u, q)
  BY <1>1, <1>3
<1>5. Len(es) >= 2
  BY <1>1, <1>2, ExprsIs
<1>6. f \in Text
  <2> HIDE DEF es
  <2>1. QED  BY <1>3, <1>5
<1>7. b[q] = Semicolon /\ \A k \in q + 1 .. p : b[k] # Semicolon
  <2>1. /\ q # 0 => b[q] = Semicolon
        /\ \A k \in q + 1 .. p : b[k] # Semicolon
    BY <1>2, FindLastIs DEF pos_4
  <2>2. QED  BY <1>4, <2>1
<1>8. /\ w \in Text /\ Len(w) = m + n + 2
      /\ \A k \in 1 .. m : w[k] = d[k]
      /\ w[m + 1] # Open
      /\ \A k \in 1 .. n : w[m + 1 + k] = e[k]
      /\ w[m + n + 2] = Semicolon
  BY <1>3, <1>6, PrefixedAt
<1>9. PICK c \in Nat : q <= c /\ c + m < p /\ \A k \in 1 .. m : d[k] = b[c + k]
  BY <1>2, <1>3, NameFrom
<1>10. PICK a \in Nat : /\ p <= a /\ a + n <= Len(b)
                        /\ \A k \in 1 .. n : e[k] = b[a + k]
                        /\ \A k \in p + 1 .. a + n : b[k] # Semicolon
  BY <1>1, <1>2, FirstFrom
<1>11. PICK tail \in Text : x = w \o tail
  <2> HIDE DEF es
  <2>1. es \in Seq(Text) /\ Len(es) >= 2 /\ pre_delim \in Text
    BY <1>3, <1>5
  <2>2. \E tail \in Text : expanded(es) = prefixed(es[1]) \o tail
    BY <2>1, ExpandedBegins
  <2>3. QED  BY <2>2
<1>12. y \in Text /\ Len(y) = q /\ \A k \in 1 .. q : y[k] = b[k]
  <2>1. q \in Int /\ q <= Len(b)
    BY <1>2, <1>4
  <2>2. /\ y \in Text /\ Len(y) = IF 1 <= q THEN q ELSE 0
        /\ \A k \in 1 .. q : y[k] = b[k]
    BY <1>2, <2>1, UptoIs
  <2>3. QED  BY <1>4, <2>2
<1>13. m \in Nat /\ n \in Nat
  <2>1. e \in Text
    BY <1>6, TrimIs
  <2>2. QED  BY <1>3, <2>1, TextIs
<1> HIDE DEF b, p, q, d, es, f, e, w, x, r, y, m, n
<1>14. /\ u \in Text /\ Len(u) >= q + m + n + 2
       /\ \A k \in 1 .. q : u[k] = b[k]
       /\ \A k \in 1 .. m + n + 2 : u[q + k] = w[k]
  <2> DEFINE g == y \o x
  <2>1. /\ x \in Text /\ Len(x) = Len(w) + Len(tail)
        /\ \A k \in 1 .. Len(w) : x[k] = w[k]
    BY <1>8, <1>11, JoinText
  <2>2. /\ g \in Text /\ Len(g) = Len(y) + Len(x)
        /\ \A k \in 1 .. Len(y) : g[k] = y[k]
        /\ \A k \in 1 .. Len(x) : g[Len(y) + k] = x[k]
    BY <1>12, <2>1, JoinText
  <2> HIDE DEF g
  <2>3. /\ g \o r \in Text /\ Len(g \o r) = Len(g) + Len(r)
        /\ \A k \in 1 .. Len(g) : (g \o r)[k] = g[k]
    BY <1>3, <2>2, JoinText
  <2>4. u = g \o r
    BY DEF g
  <2> HIDE DEF u
  <2>5. Len(tail) \in Nat /\ Len(r) \in Nat /\ q \in Nat
    BY <1>2, <1>3, TextIs
  <2>6. Len(x) = m + n + 2 + Len(tail) /\ Len(g) = q + Len(x) /\ Len(u) = Len(g) + Len(r)
    BY <1>8, <1>12, <2>1, <2>2, <2>3, <2>4
  <2>7. ASSUME NEW k \in 1 .. q PROVE u[k] = b[k]
    <3>1. k \in 1 .. Len(g) /\ k \in 1 .. Len(y)
      BY <1>12, <1>13, <2>5, <2>6
    <3>2. QED  BY <1>12, <2>2, <2>3, <2>4, <3>1
  <2>8. ASSUME NEW k \in 1 .. m + n + 2 PROVE u[q + k] = w[k]
    <3>1. k \in 1 .. Len(w) /\ k \in 1 .. Len(x) /\ q + k \in 1 .. Len(g) /\ Len(y) + k = q + k
      BY <1>8, <1>12, <1>13, <2>5, <2>6
    <3>2. u[q + k] = g[q + k] /\ g[q + k] = x[k] /\ x[k] = w[k]
      BY <2>1, <2>2, <2>3, <2>4, <3>1
    <3>3. QED  BY <3>2
  <2>9. Len(u) >= q + m + n + 2
    BY <1>13, <2>5, <2>6
  <2>10. QED  BY <2>3, <2>4, <2>7, <2>8, <2>9
<1> HIDE DEF u
<1>15. /\ \A k \in 1 .. m : u[q + k] = b[c + k]
       /\ u[q + m + 1] # Open
       /\ \A k \in 1 .. n : u[q + m + 1 + k] = b[a + k]
       /\ u[q + m + n + 2] = Semicolon
  <2>0. q \in Nat
    BY <1>2, <1>3
  <2>1. ASSUME NEW k \in 1 .. m PROVE u[q + k] = b[c + k]
    <3>1. k \in 1 .. m + n + 2
      BY <1>13
    <3>2. QED  BY <1>8, <1>9, <1>14, <3>1
  <2>2. u[q + m + 1] # Open
    <3>1. m + 1 \in 1 .. m + n + 2 /\ q + (m + 1) = q + m + 1
      BY <1>13, <2>0
    <3>2. u[q + (m + 1)] = w[m + 1]
      BY <1>14, <3>1
    <3>3. QED  BY <1>8, <3>1, <3>2
  <2>3. ASSUME NEW k \in 1 .. n PROVE u[q + m + 1 + k] = b[a + k]
    <3>1. m + 1 + k \in 1 .. m + n + 2 /\ q + (m + 1 + k) = q + m + 1 + k
      BY <1>13, <2>0
    <3>2. u[q + (m + 1 + k)] = w[m + 1 + k]
      BY <1>14, <3>1
    <3>3. QED  BY <1>8, <1>10, <3>1, <3>2
  <2>4. u[q + m + n + 2] = Semicolon
    <3>1. m + n + 2 \in 1 .. m + n + 2 /\ q + (m + n + 2) = q + m + n + 2
      BY <1>13, <2>0
    <3>2. u[q + (m + n + 2)] = w[m + n + 2]
      BY <1>14, <3>1
    <3>3. QED  BY <1>8, <3>1, <3>2
  <2>5. QED  BY <2>1, <2>2, <2>3, <2>4
<1>16. \A k \in q + 1 .. a + n : b[k] # Semicolon
  <2>1. ASSUME NEW k \in q + 1 .. a + n PROVE k \in q + 1 .. p \/ k \in p + 1 .. a + n
    BY <1>2, <1>4, <1>10, <1>13
  <2>2. QED  BY <1>7, <1>10, <2>1
<1>17. /\ Cardinality(Early(u)) <= Cardinality(Early(b))
       /\ q = 1 => Cardinality(Early(u)) < Cardinality(Early(b))
  <2>1. /\ b \in Text /\ p \in 1 .. Len(b) /\ q \in 1 .. p - 1
        /\ b[p] = Open /\ b[q] = Semicolon
        /\ c \in Nat /\ m \in Nat /\ q <= c /\ c + m < p
        /\ a \in Nat /\ n \in Nat /\ p <= a /\ a + n <= Len(b)
    BY <1>2, <1>4, <1>7, <1>9, <1>10, <1>13
  <2>2. IsExpanded(u, b, p, q, c, m, a, n)
    BY <1>14, <1>15, <1>16, <2>1 DEF IsExpanded
  <2>3. QED  BY <2>2, ExpandedEarly
<1>18. q > 1 => before(u, q) \in 0 .. q - 1
  <2>1. q \in Nat
    BY <1>2, <1>4
  <2>2. QED  BY <1>14, <2>1, BeforeIsLess
<1>19. early = Cardinality(Early(b)) /\ early' = Cardinality(Early(u))
  BY <1>1 DEF early, b
<1>20. pos_1 = p /\ pos_1' = before(u, q)
  BY <1>4 DEF p
<1>21. QED  BY <1>2, <1>4, <1>17, <1>18, <1>19, <1>20 DEF FewerGroups

(* A line is taken, or the file is at its end. *)
LEMMA LinesForward ==
  ReaderInv /\ (ReadLine \/ ReadMore) => Stuck \/ Forward
<1> SUFFICES ASSUME ReaderInv, ReadLine \/ ReadMore PROVE Stuck \/ Forward
  OBVIOUS
<1>1. /\ taken /\ file' = file
      /\ rpc = "line" => good(lineno)
      /\ rpc = "line" \/ rpc = "more"
  BY DEF ReadLine, ReadMore
<1>2. file \in Files /\ lineno \in 0 .. Len(file.lines) + 1
  BY DEF ReaderInv, TypeOK
<1>3. Len(file.lines) \in Nat
  BY <1>2, FileIs
<1>4. CASE lineno <= Len(file.lines)
  <2>1. lineno' = lineno + 1
    BY <1>1, <1>2, <1>4, TakenIs
  <2>2. lineno' > lineno
    BY <1>2, <1>3, <2>1
  <2>3. QED  BY <2>2 DEF Forward
<1>5. CASE lineno > Len(file.lines)
  <2>1. lineno' = lineno
    BY <1>1, <1>5 DEF taken
  <2>2. ~good(lineno)
    BY <1>2, <1>3, <1>5 DEF good
  <2>3. rpc = "more"
    BY <1>1, <2>2
  <2>4. getline(str) = str
    BY <1>2, <1>3, <1>5, <2>2 DEF getline
  <2>5. CASE str # <<>>
    <3> DEFINE u == strip(str)
    <3>1. /\ str' = u /\ nbracket' = nbracket + opened(u)
          /\ rpc' = IF nbracket' = 0 THEN "group" ELSE "more"
      BY <2>3, <2>4, <2>5 DEF ReadLine, ReadMore
    <3>2. CASE rpc' # "more"
      <4>1. rpc' = "group"
        BY <3>1, <3>2
      <4>2. stage = 5 /\ stage' \in {3, 4}
        BY <2>3, <4>1 DEF stage
      <4>3. QED  BY <2>1, <4>2 DEF Forward
    <3>3. CASE rpc' = "more" /\ ~Stuck
      <4>1. stage = 5 /\ stage' = 5
        BY <2>3, <3>3 DEF stage
      <4>2. nbracket \in Int
        BY DEF ReaderInv, TypeOK
      <4>3. CASE u = <<>>
        <5>1. opened(u) = 0
          BY <4>3, OpenedNothing
        <5>2. nbracket' = nbracket
          BY <3>1, <4>2, <5>1
        <5>3. QED  BY <2>1, <2>5, <3>1, <4>1, <4>3, <5>2 DEF Forward, CloserMatch
      <4>4. CASE u # <<>>
        <5>1. ~(unmatched(nbracket + opened(u)) >= unmatched(nbracket))
          BY <2>2, <2>3, <3>3, <4>4 DEF Stuck
        <5>2. opened(u) \in Int
          BY StripIs, CountedIs DEF ReaderInv
        <5>3. unmatched(nbracket') < unmatched(nbracket)
          BY <3>1, <4>2, <5>1, <5>2 DEF unmatched
        <5>4. QED  BY <2>1, <4>1, <5>3 DEF Forward, CloserMatch
      <4>5. QED  BY <4>3, <4>4
    <3>4. QED  BY <3>1, <3>2, <3>3
  <2>6. CASE str = <<>>
    <3>1. ~good(lineno') /\ getline(str) = <<>>
      <4>1. ~good(lineno')
        BY <2>1, <2>2
      <4>2. QED  BY <2>4, <2>6, <4>1
    <3>2. rpc' = "error"
      BY <2>3, <3>1 DEF ReadLine, ReadMore
    <3>3. stage = 5 /\ stage' = 0
      BY <2>3, <3>2 DEF stage
    <3>4. QED  BY <2>1, <3>3 DEF Forward
  <2>7. QED  BY <2>5, <2>6
<1>6. QED  BY <1>2, <1>3, <1>4, <1>5

LEMMA GroupsForward ==
  ReaderInv /\ (PassOver \/ Unwrap \/ Expand \/ ExpandFails) => Stuck \/ Forward
<1> SUFFICES ASSUME ReaderInv, PassOver \/ Unwrap \/ Expand \/ ExpandFails
             PROVE  Stuck \/ Forward
  OBVIOUS
<1>1. rpc = "group" /\ pos_1 # 0 /\ lineno' = lineno
  BY DEF PassOver, Unwrap, Expand, ExpandFails
<1>2. stage = 4
  BY <1>1 DEF stage
<1>3. ASSUME rpc' = rpc, pos_1' # 0 => FewerGroups PROVE Forward
  <2>1. CASE pos_1' = 0
    <3>1. stage' = 3
      BY <1>1, <1>3, <2>1 DEF stage
    <3>2. QED  BY <1>1, <1>2, <3>1 DEF Forward
  <2>2. CASE pos_1' # 0
    <3>1. stage' = 4
      BY <1>1, <1>3, <2>2 DEF stage
    <3>2. QED  BY <1>1, <1>2, <1>3, <2>2, <3>1 DEF Forward
  <2>3. QED  BY <2>1, <2>2
<1>4. CASE PassOver
  <2>1. /\ ~IsGroup /\ pos_1' = before(buff, pos_1)
        /\ rpc' = rpc /\ buff' = buff
    BY <1>4 DEF PassOver
  <2>2. CASE pos_1 = 1
    BY <1>1, <2>1, <2>2 DEF Stuck
  <2>3. CASE pos_1 # 1
    <3>1. buff \in Text /\ pos_1 \in Nat /\ pos_1 > 1
      BY <1>1, <2>3, AtGroup
    <3>2. pos_1' < pos_1
      BY <2>1, <3>1, BeforeIsLess
    <3>3. early' <= early
      <4>1. early' = early
        BY <2>1 DEF early
      <4>2. early \in Nat
        BY <3>1, EarlyIs DEF early
      <4>3. QED  BY <4>1, <4>2
    <3>4. FewerGroups
      BY <3>2, <3>3 DEF FewerGroups
    <3>5. QED  BY <1>3, <2>1, <3>4
  <2>4. QED  BY <2>2, <2>3
<1>5. CASE Unwrap
  <2>1. rpc' = rpc
    BY <1>5 DEF Unwrap
  <2>2. QED  BY <1>3, <1>5, <2>1, UnwrapFewer
<1>6. CASE Expand
  <2>1. rpc' = rpc
    BY <1>6 DEF Expand
  <2>2. QED  BY <1>3, <1>6, <2>1, ExpandFewer
<1>7. CASE ExpandFails
  <2>1. rpc' = "error"
    BY <1>7 DEF ExpandFails
  <2>2. stage' = 0
    BY <2>1 DEF stage
  <2>3. QED  BY <1>1, <1>2, <2>2 DEF Forward
<1>8. QED  BY <1>4, <1>5, <1>6, <1>7

LEMMA PartsForward ==
  ReaderInv /\ (ReadEnds \/ Split \/ TakePair \/ NoMorePairs) => Forward
<1> SUFFICES ASSUME ReaderInv, ReadEnds \/ Split \/ TakePair \/ NoMorePairs PROVE Forward
  OBVIOUS
<1>1. lineno' = lineno
  BY DEF ReadEnds, Split, TakePair, NoMorePairs
<1>2. CASE TakePair /\ rpc' = rpc
  <2>1. rpc = "pairs" /\ parts # <<>> /\ parts' = Tail(parts) /\ parts \in Seq(Text)
    BY <1>2 DEF TakePair, ReaderInv
  <2>2. Len(parts') < Len(parts)
    BY <2>1
  <2>3. stage = 2 /\ stage' = 2
    BY <1>2, <2>1 DEF stage
  <2>4. QED  BY <1>1, <2>2, <2>3 DEF Forward, FewerParts
<1>3. CASE TakePair /\ rpc' # rpc
  <2>1. rpc = "pairs" /\ rpc' = "error"
    BY <1>3 DEF TakePair
  <2>2. stage = 2 /\ stage' = 0
    BY <2>1 DEF stage
  <2>3. QED  BY <1>1, <2>2 DEF Forward
<1>4. CASE ReadEnds
  <2>1. rpc = "line" /\ rpc' = "ok"
    BY <1>4 DEF ReadEnds
  <2>2. stage = 1 /\ stage' = 0
    BY <2>1 DEF stage
  <2>3. QED  BY <1>1, <2>2 DEF Forward
<1>5. CASE Split
  <2>1. rpc = "group" /\ pos_1 = 0 /\ rpc' \in {"error", "pairs"}
    BY <1>5 DEF Split
  <2>2. stage = 3 /\ stage' \in {0, 2}
    BY <2>1 DEF stage
  <2>3. QED  BY <1>1, <2>2 DEF Forward
<1>6. CASE NoMorePairs
  <2>1. rpc = "pairs" /\ rpc' = "line"
    BY <1>6 DEF NoMorePairs
  <2>2. stage = 2 /\ stage' = 1
    BY <2>1 DEF stage
  <2>3. QED  BY <1>1, <2>2 DEF Forward
<1>7. QED  BY <1>2, <1>3, <1>4, <1>5, <1>6

(* Whatever the file, each step of read_param (misc.cpp) that does not     *)
(* begin at one of the two places of Stuck gets on: it takes a line, or    *)
(* comes to a later stage of what was read, or leaves the loop over the    *)
(* groups with fewer brackets before the second semicolon or at a bracket  *)
(* further to the front, or the loop over the parts with fewer of these,   *)
(* or, at the end of the file, comes nearer to matching brackets.          *)
(* So reading cannot go on for ever but there.                             *)
THEOREM AlwaysForward == Spec => [][Stuck \/ Forward]_vars
<1>1. ReaderInv /\ [Next]_vars => [Stuck \/ Forward]_vars
  BY LinesForward, GroupsForward, PartsForward DEF Next
<1>2. QED  BY <1>1, ReaderAlways, PTL DEF Spec

(***************************************************************************)
(* A text and its parts.                                                   *)
(***************************************************************************)

LEMMA SameText ==
  ASSUME NEW s \in Text, NEW t \in Text, Len(s) = Len(t), \A k \in 1 .. Len(s) : s[k] = t[k]
  PROVE  s = t
BY DEF Text

LEMMA JoinNothing ==
  ASSUME NEW s \in Text PROVE s \o <<>> = s /\ <<>> \o s = s
BY DEF Text

LEMMA OneChar ==
  ASSUME NEW x \in Char PROVE <<x>> \in Text /\ Len(<<x>>) = 1 /\ <<x>>[1] = x
BY DEF Text

(* A text is what comes up to a position and what comes after it. *)
LEMMA TextJoins ==
  ASSUME NEW s \in Text, NEW i \in 0 .. Len(s)
  PROVE  /\ upto(s, i) \in Text /\ Len(upto(s, i)) = i
         /\ \A k \in 1 .. i : upto(s, i)[k] = s[k]
         /\ from(s, i + 1) \in Text /\ Len(from(s, i + 1)) = Len(s) - i
         /\ \A k \in 1 .. Len(s) - i : from(s, i + 1)[k] = s[i + k]
         /\ s = upto(s, i) \o from(s, i + 1)
<1> DEFINE a == upto(s, i)
           b == from(s, i + 1)
<1>1. Len(s) \in Nat /\ i \in Nat
  BY TextIs
<1>2. /\ a \in Text /\ Len(a) = i /\ \A k \in 1 .. i : a[k] = s[k]
  <2>1. i \in Int /\ i <= Len(s)
    BY <1>1
  <2>2. /\ a \in Text /\ Len(a) = (IF 1 <= i THEN i ELSE 0) /\ \A k \in 1 .. i : a[k] = s[k]
    BY <2>1, UptoIs
  <2> HIDE DEF a
  <2>3. QED  BY <1>1, <2>2
<1>3. /\ b \in Text /\ Len(b) = Len(s) - i /\ \A k \in 1 .. Len(s) - i : b[k] = s[i + k]
  <2>1. i + 1 \in Nat /\ i + 1 >= 1
    BY <1>1
  <2>2. /\ b \in Text /\ Len(b) = IF i + 1 <= Len(s) THEN Len(s) - (i + 1) + 1 ELSE 0
        /\ \A k \in 1 .. Len(b) : b[k] = s[k + (i + 1) - 1]
    BY <2>1, FromIs, FromLen
  <2> HIDE DEF b
  <2>3. Len(b) = Len(s) - i
    BY <1>1, <2>2
  <2>4. ASSUME NEW k \in 1 .. Len(s) - i PROVE b[k] = s[i + k]
    <3>1. k + (i + 1) - 1 = i + k
      BY <1>1
    <3>2. QED  BY <2>2, <2>3, <3>1
  <2>5. QED  BY <2>2, <2>3, <2>4
<1> HIDE DEF a, b
<1>4. /\ a \o b \in Text /\ Len(a \o b) = Len(s)
      /\ \A k \in 1 .. i : (a \o b)[k] = a[k]
      /\ \A k \in 1 .. Len(s) - i : (a \o b)[i + k] = b[k]
  <2>1. /\ a \o b \in Text /\ Len(a \o b) = Len(a) + Len(b)
        /\ \A k \in 1 .. Len(a) : (a \o b)[k] = a[k]
        /\ \A k \in 1 .. Len(b) : (a \o b)[Len(a) + k] = b[k]
    BY <1>2, <1>3, JoinText
  <2>2. QED  BY <1>1, <1>2, <1>3, <2>1
<1> DEFINE u == a \o b
<1> HIDE DEF u
<1>5. ASSUME NEW k \in 1 .. Len(s) PROVE u[k] = s[k]
  <2>1. CASE k <= i
    BY <1>1, <1>2, <1>4, <2>1 DEF u
  <2>2. CASE k > i
    <3>1. k - i \in 1 .. Len(s) - i /\ i + (k - i) = k
      BY <1>1, <2>2
    <3>2. QED  BY <1>3, <1>4, <3>1 DEF u
  <2>3. QED  BY <1>1, <2>1, <2>2
<1>6. s = u
  BY <1>4, <1>5, SameText DEF u
<1>7. QED  BY <1>2, <1>3, <1>6 DEF u, a, b

(* Its parts are what strsplit has made of all its characters. *)
LEMMA CutAll ==
  ASSUME NEW s \in Text PROVE cut(s) = splitOf(s)[Len(s)]
<1>1. CASE s = <<>>
  <2>1. Len(s) = 0
    BY <1>1
  <2>2. splitOf(s)[0] = << <<>> >>
    BY SplitOfIs
  <2>3. QED  BY <1>1, <2>1, <2>2 DEF cut
<1>2. CASE s # <<>>
  BY <1>2, SplitOfIs DEF cut
<1>3. QED  BY <1>1, <1>2

LEMMA CutIs ==
  ASSUME NEW s \in Text
  PROVE  /\ cut(s) \in Seq(Text) /\ Len(cut(s)) \in Nat /\ Len(cut(s)) >= 1
         /\ \A i \in 1 .. Len(cut(s)) : cut(s)[i] \in Text
         /\ s # <<>> => strsplit(s) = cut(s)
         /\ s = <<>> => cut(s) = << <<>> >>
<1>1. Len(s) \in 0 .. Len(s)
  BY TextIs
<1>2. cut(s) \in SomeParts
  BY <1>1, CutAll, SplitOfIs
<1>3. s # <<>> => strsplit(s) = cut(s)
  BY DEF cut
<1>4. s = <<>> => cut(s) = << <<>> >>
  BY DEF cut
<1>5. cut(s) \in Seq(Text) /\ Len(cut(s)) \in Nat /\ Len(cut(s)) >= 1
  BY <1>2 DEF SomeParts
<1>6. \A i \in 1 .. Len(cut(s)) : cut(s)[i] \in Text
  BY <1>5
<1>7. QED  BY <1>3, <1>4, <1>5, <1>6

(* One more character, part by part. *)
LEMMA ExtendedAt ==
  ASSUME NEW ps \in SomeParts, NEW x \in Char
  PROVE  LET e == extended[<<ps, x>>]
         IN  /\ e \in SomeParts
             /\ x = Semicolon => /\ Len(e) = Len(ps) + 1
                                 /\ \A i \in 1 .. Len(ps) : e[i] = ps[i]
                                 /\ e[Len(ps) + 1] = <<>>
             /\ x # Semicolon => /\ Len(e) = Len(ps)
                                 /\ \A i \in 1 .. Len(ps) - 1 : e[i] = ps[i]
                                 /\ e[Len(ps)] = Append(ps[Len(ps)], x)
<1> DEFINE e == extended[<<ps, x>>]
<1>1. /\ e \in SomeParts
      /\ x = Semicolon => e = Append(ps, <<>>)
      /\ x # Semicolon => e = [ps EXCEPT ![Len(ps)] = Append(@, x)]
  BY ExtendedIs
<1>2. ps \in Seq(Text) /\ Len(ps) \in Nat /\ Len(ps) >= 1
  BY DEF SomeParts
<1> DEFINE z == <<>>
<1> HIDE DEF e, z
<1>3. CASE x = Semicolon
  <2>1. e = Append(ps, z)
    BY <1>1, <1>3 DEF z
  <2>2. /\ Len(e) = Len(ps) + 1
        /\ \A i \in 1 .. Len(ps) : e[i] = ps[i]
        /\ e[Len(ps) + 1] = z
    BY <1>2, <2>1
  <2>3. QED  BY <1>1, <1>3, <2>2 DEF e, z
<1>4. CASE x # Semicolon
  <2>1. e = [ps EXCEPT ![Len(ps)] = Append(@, x)]
    BY <1>1, <1>4
  <2>2. /\ Len(e) = Len(ps)
        /\ \A i \in 1 .. Len(ps) - 1 : e[i] = ps[i]
        /\ e[Len(ps)] = Append(ps[Len(ps)], x)
    BY <1>2, <2>1
  <2>3. QED  BY <1>1, <1>4, <2>2 DEF e
<1>5. QED  BY <1>3, <1>4

(* The parts of two texts, one after the other: the last part of the first *)
(* goes on with the first of the second.                                   *)
IsGlued(g, a, b) ==
  /\ Len(g) = Len(a) + Len(b) - 1
  /\ \A i \in 1 .. Len(a) - 1 : g[i] = a[i]
  /\ g[Len(a)] = a[Len(a)] \o b[1]
  /\ \A i \in 2 .. Len(b) : g[Len(a) + i - 1] = b[i]

LEMMA GlueStep ==
  ASSUME NEW a \in SomeParts, NEW ps \in SomeParts, NEW qs \in SomeParts, NEW x \in Char,
         IsGlued(qs, a, ps)
  PROVE  IsGlued(extended[<<qs, x>>], a, extended[<<ps, x>>])
<1> DEFINE e == extended[<<ps, x>>]
           f == extended[<<qs, x>>]
           A == Len(a)
           P == Len(ps)
<1>1. /\ A \in Nat /\ A >= 1 /\ P \in Nat /\ P >= 1 /\ a[A] \in Text /\ ps[1] \in Text
      /\ Len(qs) \in Nat
  BY DEF SomeParts
<1>2. /\ Len(qs) = A + P - 1
      /\ \A i \in 1 .. A - 1 : qs[i] = a[i]
      /\ qs[A] = a[A] \o ps[1]
      /\ \A i \in 2 .. P : qs[A + i - 1] = ps[i]
  BY DEF IsGlued
<1>3. /\ x = Semicolon => /\ Len(e) = P + 1
                          /\ \A i \in 1 .. P : e[i] = ps[i]
                          /\ e[P + 1] = <<>>
      /\ x # Semicolon => /\ Len(e) = P
                          /\ \A i \in 1 .. P - 1 : e[i] = ps[i]
                          /\ e[P] = Append(ps[P], x)
  BY ExtendedAt
<1>4. /\ x = Semicolon => /\ Len(f) = Len(qs) + 1
                          /\ \A i \in 1 .. Len(qs) : f[i] = qs[i]
                          /\ f[Len(qs) + 1] = <<>>
      /\ x # Semicolon => /\ Len(f) = Len(qs)
                          /\ \A i \in 1 .. Len(qs) - 1 : f[i] = qs[i]
                          /\ f[Len(qs)] = Append(qs[Len(qs)], x)
  BY ExtendedAt
<1> DEFINE z == <<>>
<1> HIDE DEF e, f, A, P, z
<1>5. CASE x = Semicolon
  <2>1. /\ Len(e) = P + 1 /\ Len(f) = A + P
        /\ \A i \in 1 .. P : e[i] = ps[i]
        /\ \A i \in 1 .. A + P - 1 : f[i] = qs[i]
        /\ e[P + 1] = z /\ f[A + P] = z
    <3>1. Len(qs) + 1 = A + P /\ Len(qs) = A + P - 1
      BY <1>1, <1>2
    <3>2. QED  BY <1>3, <1>4, <1>5, <3>1 DEF z
  <2>2. Len(f) = A + Len(e) - 1
    BY <1>1, <2>1
  <2>3. \A i \in 1 .. A - 1 : f[i] = a[i]
    BY <1>1, <1>2, <2>1
  <2>4. f[A] = a[A] \o e[1]
    <3>1. A \in 1 .. A + P - 1 /\ 1 \in 1 .. P
      BY <1>1
    <3>2. f[A] = qs[A] /\ e[1] = ps[1]
      BY <2>1, <3>1
    <3>3. QED  BY <1>2, <3>2
  <2>5. ASSUME NEW i \in 2 .. Len(e) PROVE f[A + i - 1] = e[i]
    <3>1. CASE i = P + 1
      <4>1. A + i - 1 = A + P
        BY <1>1, <3>1
      <4>2. QED  BY <2>1, <3>1, <4>1
    <3>2. CASE i # P + 1
      <4>1. i \in 2 .. P /\ i \in 1 .. P /\ A + i - 1 \in 1 .. A + P - 1
        BY <1>1, <2>1, <3>2
      <4>2. QED  BY <1>2, <2>1, <4>1
    <3>3. QED  BY <3>1, <3>2
  <2>6. QED  BY <2>2, <2>3, <2>4, <2>5 DEF IsGlued, e, f, A
<1>6. CASE x # Semicolon
  <2>1. /\ Len(e) = P /\ Len(f) = A + P - 1
        /\ \A i \in 1 .. P - 1 : e[i] = ps[i]
        /\ \A i \in 1 .. A + P - 2 : f[i] = qs[i]
        /\ e[P] = Append(ps[P], x) /\ f[A + P - 1] = Append(qs[A + P - 1], x)
    <3>1. Len(qs) = A + P - 1 /\ Len(qs) - 1 = A + P - 2
      BY <1>1, <1>2
    <3>2. QED  BY <1>3, <1>4, <1>6, <3>1
  <2>2. Len(f) = A + Len(e) - 1
    BY <1>1, <2>1
  <2>3. \A i \in 1 .. A - 1 : f[i] = a[i]
    BY <1>1, <1>2, <2>1
  <2>4. f[A] = a[A] \o e[1]
    <3>1. CASE P = 1
      <4>0. A + P - 1 = A
        BY <1>1, <3>1
      <4>a. f[A] = Append(qs[A], x) /\ e[1] = Append(ps[1], x)
        BY <2>1, <3>1, <4>0
      <4>1. f[A] = Append(a[A] \o ps[1], x) /\ e[1] = Append(ps[1], x)
        BY <1>2, <4>a
      <4>2. ASSUME NEW s \in Text, NEW t \in Text PROVE Append(s \o t, x) = s \o Append(t, x)
        BY DEF Text
      <4>3. QED  BY <1>1, <4>1, <4>2
    <3>2. CASE P # 1
      <4>1. A \in 1 .. A + P - 2 /\ 1 \in 1 .. P - 1
        BY <1>1, <3>2
      <4>2. QED  BY <1>2, <2>1, <4>1
    <3>3. QED  BY <3>1, <3>2
  <2>5. ASSUME NEW i \in 2 .. Len(e) PROVE f[A + i - 1] = e[i]
    <3>1. CASE i = P
      <4>1. A + i - 1 = A + P - 1 /\ i \in 2 .. P
        BY <1>1, <2>1, <3>1
      <4>2. qs[A + P - 1] = ps[P]
        BY <1>2, <3>1, <4>1
      <4>3. QED  BY <2>1, <3>1, <4>1, <4>2
    <3>2. CASE i # P
      <4>1. i \in 2 .. P /\ i \in 1 .. P - 1 /\ A + i - 1 \in 1 .. A + P - 2
        BY <1>1, <2>1, <3>2
      <4>2. QED  BY <1>2, <2>1, <4>1
    <3>3. QED  BY <3>1, <3>2
  <2>6. QED  BY <2>2, <2>3, <2>4, <2>5 DEF IsGlued, e, f, A
<1>7. QED  BY <1>5, <1>6 DEF e, f

LEMMA GlueIs ==
  ASSUME NEW s \in Text, NEW t \in Text PROVE IsGlued(cut(s \o t), cut(s), cut(t))
<1> DEFINE u == s \o t
           a == splitOf(s)
           b == splitOf(t)
           c == splitOf(u)
           S == Len(s)
           T == Len(t)
<1>1. /\ u \in Text /\ S \in Nat /\ T \in Nat /\ Len(u) = S + T
      /\ \A k \in 1 .. S : u[k] = s[k] /\ s[k] \in Char
      /\ \A k \in 1 .. T : u[S + k] = t[k] /\ t[k] \in Char
  BY JoinText, TextIs
<1> HIDE DEF u
<1>2. /\ \A k \in 0 .. S : a[k] \in SomeParts
      /\ a[0] = << <<>> >>
      /\ \A k \in 1 .. S : a[k] = extended[<<a[k - 1], s[k]>>]
  BY SplitOfIs
<1>3. /\ \A k \in 0 .. T : b[k] \in SomeParts
      /\ b[0] = << <<>> >>
      /\ \A k \in 1 .. T : b[k] = extended[<<b[k - 1], t[k]>>]
  BY SplitOfIs
<1>4. /\ \A k \in 0 .. Len(u) : c[k] \in SomeParts
      /\ c[0] = << <<>> >>
      /\ \A k \in 1 .. Len(u) : c[k] = extended[<<c[k - 1], u[k]>>]
  BY <1>1, SplitOfIs
<1>5. cut(u) = c[S + T] /\ cut(s) = a[S] /\ cut(t) = b[T]
  BY <1>1, CutAll
<1> DEFINE e == << <<>> >>
<1>6. Len(e) = 1 /\ e[1] = <<>>
  OBVIOUS
<1>a. a[0] = e /\ b[0] = e /\ c[0] = e
  BY <1>2, <1>3, <1>4
<1> HIDE DEF a, b, c, S, T, e
<1>7. c[S] = a[S]
  <2> DEFINE P == {k \in 0 .. S : c[k] = a[k]}
  <2>1. 0 \in P
    BY <1>1, <1>a
  <2>2. ASSUME NEW k \in 1 .. S, k - 1 \in P PROVE k \in P
    <3>1. k \in 1 .. Len(u) /\ k \in 0 .. S
      BY <1>1
    <3>2. c[k] = extended[<<c[k - 1], u[k]>>] /\ a[k] = extended[<<a[k - 1], s[k]>>]
          /\ u[k] = s[k] /\ c[k - 1] = a[k - 1]
      BY <1>1, <1>2, <1>4, <2>2, <3>1
    <3>3. QED  BY <3>1, <3>2
  <2> HIDE DEF P
  <2>3. 0 .. S \subseteq P
    BY <1>1, <2>1, <2>2, Induct
  <2>4. S \in P
    BY <1>1, <2>3
  <2>5. QED  BY <2>4 DEF P
<1>8. a[S] \in SomeParts
  BY <1>1, <1>2
<1> DEFINE P == {k \in 0 .. T : IsGlued(c[S + k], a[S], b[k])}
<1>9. 0 \in P
  <2>1. a[S] \in Seq(Text) /\ Len(a[S]) \in Nat /\ Len(a[S]) >= 1 /\ a[S][Len(a[S])] \in Text
    BY <1>8 DEF SomeParts
  <2>2. a[S][Len(a[S])] \o <<>> = a[S][Len(a[S])]
    BY <2>1, JoinNothing
  <2>3. IsGlued(a[S], a[S], e)
    BY <1>6, <2>1, <2>2 DEF IsGlued
  <2>4. c[S + 0] = a[S] /\ b[0] = e
    BY <1>1, <1>7, <1>a
  <2>5. IsGlued(c[S + 0], a[S], b[0])
    BY <2>3, <2>4
  <2>6. QED  BY <1>1, <2>5
<1>10. ASSUME NEW k \in 1 .. T, k - 1 \in P PROVE k \in P
  <2>1. /\ S + k \in 1 .. Len(u) /\ S + k - 1 = S + (k - 1) /\ S + (k - 1) \in 0 .. Len(u)
        /\ k \in 0 .. T /\ k - 1 \in 0 .. T
    BY <1>1
  <2> DEFINE ps == b[k - 1]
             qs == c[S + (k - 1)]
             x  == t[k]
  <2>2. /\ ps \in SomeParts /\ qs \in SomeParts /\ x \in Char
        /\ b[k] = extended[<<ps, x>>] /\ c[S + k] = extended[<<qs, x>>]
    <3> DEFINE n == S + k
    <3>a. n \in 1 .. Len(u) /\ n - 1 = S + (k - 1) /\ u[n] = x
      BY <1>1, <2>1
    <3>b. c[n - 1] = qs
      BY <3>a
    <3> HIDE DEF n
    <3>c. c[n] = extended[<<c[n - 1], u[n]>>]
      BY <1>4, <3>a
    <3>d. c[n] = extended[<<qs, x>>]
      BY <3>a, <3>b, <3>c
    <3>3. b[k] = extended[<<ps, x>>]
      BY <1>3
    <3>4. ps \in SomeParts /\ qs \in SomeParts /\ x \in Char
      BY <1>1, <1>3, <1>4, <2>1
    <3> HIDE DEF ps, qs, x
    <3>5. QED  BY <3>d, <3>3, <3>4 DEF n
  <2>3. IsGlued(qs, a[S], ps)
    BY <1>10
  <2> HIDE DEF ps, qs, x
  <2>4. IsGlued(c[S + k], a[S], b[k])
    BY <1>8, <2>2, <2>3, GlueStep
  <2>5. QED  BY <2>1, <2>4
<1> HIDE DEF P
<1>11. T \in P
  <2>1. 0 .. T \subseteq P
    BY <1>1, <1>9, <1>10, Induct
  <2>2. QED  BY <1>1, <2>1
<1>12. QED  BY <1>5, <1>11 DEF P, u

InPart(ps, x) == \E i \in 1 .. Len(ps) : Has(ps[i], x)

LEMMA ExtendedHas ==
  ASSUME NEW ps \in SomeParts, NEW y \in Char, NEW x, x # Semicolon
  PROVE  InPart(extended[<<ps, y>>], x) <=> InPart(ps, x) \/ y = x
<1> DEFINE e == extended[<<ps, y>>]
           P == Len(ps)
<1>1. /\ P \in Nat /\ P >= 1 /\ \A i \in 1 .. P : ps[i] \in Text
  <2>1. ps \in Seq(Text) /\ ps # <<>>
    BY DEF SomeParts
  <2>2. QED  BY <2>1
<1>2. /\ y = Semicolon => /\ Len(e) = P + 1
                          /\ \A i \in 1 .. P : e[i] = ps[i]
                          /\ e[P + 1] = <<>>
      /\ y # Semicolon => /\ Len(e) = P
                          /\ \A i \in 1 .. P - 1 : e[i] = ps[i]
                          /\ e[P] = Append(ps[P], y)
  BY ExtendedAt
<1> DEFINE z == <<>>
<1>3. ~Has(z, x)
  BY DEF Has
<1> HIDE DEF e, P, z
<1>4. CASE y = Semicolon
  <2>1. Len(e) = P + 1 /\ (\A i \in 1 .. P : e[i] = ps[i]) /\ e[P + 1] = z
    BY <1>2, <1>4 DEF z
  <2>2. ASSUME InPart(e, x) PROVE InPart(ps, x)
    <3>1. PICK i \in 1 .. P + 1 : Has(e[i], x)
      BY <2>1, <2>2 DEF InPart
    <3>2. i # P + 1
      BY <1>3, <2>1, <3>1
    <3>3. i \in 1 .. P
      BY <1>1, <3>2
    <3>4. QED  BY <2>1, <3>1, <3>3 DEF InPart, P
  <2>3. ASSUME InPart(ps, x) PROVE InPart(e, x)
    <3>1. PICK i \in 1 .. P : Has(ps[i], x)
      BY <2>3 DEF InPart, P
    <3>2. i \in 1 .. P + 1 /\ e[i] = ps[i]
      BY <1>1, <2>1
    <3>3. QED  BY <2>1, <3>1, <3>2 DEF InPart
  <2>4. QED  BY <1>4, <2>2, <2>3 DEF e
<1>5. CASE y # Semicolon
  <2>1. Len(e) = P /\ (\A i \in 1 .. P - 1 : e[i] = ps[i]) /\ e[P] = Append(ps[P], y)
    BY <1>2, <1>5
  <2>2. Has(Append(ps[P], y), x) <=> Has(ps[P], x) \/ y = x
    <3>1. ps[P] \in Text
      BY <1>1
    <3>2. ASSUME NEW t \in Text PROVE Has(Append(t, y), x) <=> Has(t, x) \/ y = x
      <4>1. /\ Len(Append(t, y)) = Len(t) + 1 /\ Len(t) \in Nat
            /\ \A k \in 1 .. Len(t) : Append(t, y)[k] = t[k]
            /\ Append(t, y)[Len(t) + 1] = y
        BY DEF Text
      <4> DEFINE v == Append(t, y)
      <4> HIDE DEF v
      <4>2. \A k \in 1 .. Len(v) : k \in 1 .. Len(t) \/ k = Len(t) + 1
        BY <4>1 DEF v
      <4>3. Len(t) + 1 \in 1 .. Len(v) /\ \A k \in 1 .. Len(t) : k \in 1 .. Len(v)
        BY <4>1 DEF v
      <4>4. QED  BY <4>1, <4>2, <4>3 DEF Has, v
    <3>3. QED  BY <3>1, <3>2
  <2>3. \A i \in 1 .. P : i = P \/ i \in 1 .. P - 1
    BY <1>1
  <2>4. P \in 1 .. P /\ \A i \in 1 .. P - 1 : i \in 1 .. P
    BY <1>1
  <2>5. InPart(ps, x) <=> \E i \in 1 .. P : Has(ps[i], x)
    BY DEF InPart, P
  <2>6. InPart(e, x) <=> \E i \in 1 .. P : Has(e[i], x)
    BY <2>1 DEF InPart
  <2>7. QED  BY <2>1, <2>2, <2>3, <2>4, <2>5, <2>6 DEF e
<1>6. QED  BY <1>4, <1>5

(* A text has the characters that its parts have, besides the semicolons.  *)
LEMMA PartsHave ==
  ASSUME NEW s \in Text, NEW x, x # Semicolon
  PROVE  InPart(cut(s), x) <=> Has(s, x)
<1> DEFINE c == splitOf(s)
           N == Len(s)
<1>1. N \in Nat /\ \A k \in 1 .. N : s[k] \in Char
  BY TextIs
<1>2. /\ \A k \in 0 .. N : c[k] \in SomeParts
      /\ c[0] = << <<>> >>
      /\ \A k \in 1 .. N : c[k] = extended[<<c[k - 1], s[k]>>]
  BY SplitOfIs
<1>3. ~InPart(c[0], x)
  BY <1>2 DEF InPart, Has
<1> HIDE DEF c, N
<1> DEFINE P == {k \in 0 .. N : InPart(c[k], x) <=> \E j \in 1 .. k : s[j] = x}
<1>4. 0 \in P
  BY <1>1, <1>3
<1>5. ASSUME NEW k \in 1 .. N, k - 1 \in P PROVE k \in P
  <2>1. c[k - 1] \in SomeParts /\ s[k] \in Char /\ c[k] = extended[<<c[k - 1], s[k]>>]
        /\ k \in 0 .. N
    BY <1>1, <1>2
  <2>2. InPart(c[k - 1], x) <=> \E j \in 1 .. k - 1 : s[j] = x
    BY <1>5
  <2> HIDE DEF P
  <2>3. InPart(c[k], x) <=> InPart(c[k - 1], x) \/ s[k] = x
    BY <2>1, ExtendedHas
  <2>4. (\E j \in 1 .. k : s[j] = x) <=> (\E j \in 1 .. k - 1 : s[j] = x) \/ s[k] = x
    OBVIOUS
  <2>5. QED  BY <2>1, <2>2, <2>3, <2>4 DEF P
<1> HIDE DEF P
<1>6. N \in P
  <2>1. 0 .. N \subseteq P
    BY <1>1, <1>4, <1>5, Induct
  <2>2. QED  BY <1>1, <2>1
<1>7. InPart(c[N], x) <=> \E j \in 1 .. N : s[j] = x
  BY <1>6 DEF P
<1>8. QED  BY <1>7, CutAll DEF c, N, Has

(* A text without a semicolon is one part. *)
LEMMA CutNone ==
  ASSUME NEW s \in Text, ~Has(s, Semicolon)
  PROVE  Len(cut(s)) = 1 /\ cut(s)[1] = s
<1> DEFINE c == splitOf(s)
           N == Len(s)
<1>1. N \in Nat /\ \A k \in 1 .. N : s[k] \in Char /\ s[k] # Semicolon
  BY TextIs DEF Has
<1>2. /\ \A k \in 0 .. N : c[k] \in SomeParts
      /\ c[0] = << <<>> >>
      /\ \A k \in 1 .. N : c[k] = extended[<<c[k - 1], s[k]>>]
  BY SplitOfIs
<1>3. Len(c[0]) = 1
  BY <1>2
<1> HIDE DEF c, N
<1> DEFINE P == {k \in 0 .. N : Len(c[k]) = 1}
<1>4. 0 \in P
  BY <1>1, <1>3
<1>5. ASSUME NEW k \in 1 .. N, k - 1 \in P PROVE k \in P
  <2>1. /\ c[k - 1] \in SomeParts /\ s[k] \in Char /\ c[k] = extended[<<c[k - 1], s[k]>>]
        /\ k \in 0 .. N /\ s[k] # Semicolon
    BY <1>1, <1>2
  <2> DEFINE ps == c[k - 1]
             x  == s[k]
  <2>a. ps \in SomeParts /\ x \in Char /\ x # Semicolon /\ c[k] = extended[<<ps, x>>]
    BY <2>1
  <2> HIDE DEF ps, x
  <2>b. Len(c[k]) = Len(ps)
    BY <2>a, ExtendedAt
  <2>2. Len(c[k]) = Len(c[k - 1])
    BY <2>b DEF ps
  <2>3. QED  BY <1>5, <2>1, <2>2
<1> HIDE DEF P
<1>6. N \in P
  <2>1. 0 .. N \subseteq P
    BY <1>1, <1>4, <1>5, Induct
  <2>2. QED  BY <1>1, <2>1
<1>7. Len(cut(s)) = 1
  BY <1>6, CutAll DEF P, c, N
<1>8. cut(s)[1] = s
  <2>1. CASE s = <<>>
    BY <2>1, CutIs
  <2>2. CASE s # <<>>
    <3>1. strsplit(s) = cut(s)
      BY <2>2, CutIs
    <3>2. QED  BY <1>7, <3>1, StrsplitIs
  <2>3. QED  BY <2>1, <2>2
<1>9. QED  BY <1>7, <1>8

(* The parts on both sides of a semicolon. *)
IsAfter(g, a, b) ==
  /\ Len(g) = Len(a) + Len(b)
  /\ \A i \in 1 .. Len(a) : g[i] = a[i]
  /\ \A i \in 1 .. Len(b) : g[Len(a) + i] = b[i]

LEMMA CutJoins ==
  ASSUME NEW s \in Text, NEW t \in Text
  PROVE  IsAfter(cut(s \o (<<Semicolon>> \o t)), cut(s), cut(t))
<1> DEFINE o == <<Semicolon>>
           u == o \o t
           C == cut(o)
           A == cut(s)
           B == cut(t)
           U == cut(u)
           G == cut(s \o u)
<1>1. o \in Text /\ Len(o) = 1 /\ o[1] = Semicolon /\ Semicolon \in Char
  BY Characters, OneChar
<1> DEFINE z == <<>>
<1>2. Len(C) = 2 /\ C[1] = z /\ C[2] = z
  <2> HIDE DEF o
  <2>1. /\ C = splitOf(o)[1]
        /\ splitOf(o)[0] = << <<>> >> /\ splitOf(o)[0] \in SomeParts
        /\ splitOf(o)[1] = extended[<<splitOf(o)[0], Semicolon>>]
    <3>1. 0 \in 0 .. Len(o) /\ 1 \in 1 .. Len(o) /\ 1 - 1 = 0
      BY <1>1
    <3>2. splitOf(o)[1] = extended[<<splitOf(o)[1 - 1], o[1]>>]
      BY <1>1, <3>1, SplitOfIs
    <3>3. QED  BY <1>1, <3>1, <3>2, CutAll, SplitOfIs
  <2> DEFINE p == splitOf(o)[0]
  <2>2. Len(p) = 1 /\ p[1] = z
    BY <2>1
  <2> HIDE DEF p, z, C
  <2>3. p \in SomeParts /\ C = extended[<<p, Semicolon>>]
    BY <2>1 DEF p
  <2>4. /\ Len(C) = Len(p) + 1
        /\ \A i \in 1 .. Len(p) : C[i] = p[i]
        /\ C[Len(p) + 1] = z
    BY <1>1, <2>3, ExtendedAt DEF z
  <2>5. QED  BY <2>2, <2>4
<1>3. u \in Text
  BY <1>1, JoinText
<1>4. IsGlued(U, C, B) /\ IsGlued(G, A, U)
  BY <1>1, <1>3, GlueIs
<1>5. /\ Len(A) \in Nat /\ Len(A) >= 1 /\ A[Len(A)] \in Text
      /\ Len(B) \in Nat /\ Len(B) >= 1 /\ B[1] \in Text
  <2>1. /\ Len(A) \in Nat /\ Len(A) >= 1 /\ \A i \in 1 .. Len(A) : A[i] \in Text
        /\ Len(B) \in Nat /\ Len(B) >= 1 /\ \A i \in 1 .. Len(B) : B[i] \in Text
    BY CutIs
  <2> HIDE DEF A, B
  <2>2. QED  BY <2>1
<1>6. z \o B[1] = B[1] /\ A[Len(A)] \o z = A[Len(A)]
  BY <1>5, JoinNothing
<1> HIDE DEF o, u, C, A, B, U, G, z
<1>7. Len(U) = Len(B) + 1 /\ U[1] = z /\ \A i \in 1 .. Len(B) : U[i + 1] = B[i]
  <2>1. /\ Len(U) = 2 + Len(B) - 1
        /\ \A i \in 1 .. 1 : U[i] = C[i]
        /\ U[2] = C[2] \o B[1]
        /\ \A i \in 2 .. Len(B) : U[2 + i - 1] = B[i]
    BY <1>2, <1>4 DEF IsGlued
  <2>2. ASSUME NEW i \in 1 .. Len(B) PROVE U[i + 1] = B[i]
    <3>1. CASE i = 1
      BY <1>2, <1>6, <2>1, <3>1
    <3>2. CASE i # 1
      <4>1. i \in 2 .. Len(B) /\ 2 + i - 1 = i + 1
        BY <1>5, <3>2
      <4>2. QED  BY <2>1, <4>1
    <3>3. QED  BY <3>1, <3>2
  <2>3. U[1] = z
    BY <1>2, <2>1
  <2>4. QED  BY <1>5, <2>1, <2>2, <2>3
<1>8. /\ Len(G) = Len(A) + Len(U) - 1
      /\ \A i \in 1 .. Len(A) - 1 : G[i] = A[i]
      /\ G[Len(A)] = A[Len(A)] \o U[1]
      /\ \A i \in 2 .. Len(U) : G[Len(A) + i - 1] = U[i]
  BY <1>4 DEF IsGlued
<1>9. Len(G) = Len(A) + Len(B)
  BY <1>5, <1>7, <1>8
<1>10. ASSUME NEW i \in 1 .. Len(A) PROVE G[i] = A[i]
  <2>1. i = Len(A) \/ i \in 1 .. Len(A) - 1
    BY <1>5
  <2>2. G[Len(A)] = A[Len(A)]
    BY <1>6, <1>7, <1>8
  <2>3. QED  BY <1>8, <2>1, <2>2
<1>11. ASSUME NEW i \in 1 .. Len(B) PROVE G[Len(A) + i] = B[i]
  <2>1. i + 1 \in 2 .. Len(U) /\ Len(A) + (i + 1) - 1 = Len(A) + i
    BY <1>5, <1>7
  <2> DEFINE j == i + 1
  <2>2. j \in 2 .. Len(U) /\ Len(A) + j - 1 = Len(A) + i /\ U[j] = B[i]
    BY <1>7, <2>1
  <2> HIDE DEF j
  <2>3. G[Len(A) + j - 1] = U[j]
    BY <1>8, <2>2
  <2>4. QED  BY <2>2, <2>3
<1>12. IsAfter(G, A, B)
  BY <1>9, <1>10, <1>11 DEF IsAfter
<1>13. QED  BY <1>12 DEF G, A, B, u, o

(* A text at one of its characters. *)
LEMMA JoinsAt ==
  ASSUME NEW s \in Text, NEW k \in 1 .. Len(s)
  PROVE  /\ upto(s, k - 1) \in Text /\ from(s, k + 1) \in Text /\ <<s[k]>> \in Text
         /\ s = upto(s, k - 1) \o (<<s[k]>> \o from(s, k + 1))
<1> DEFINE a == upto(s, k - 1)
           b == from(s, k + 1)
           o == <<s[k]>>
           t == from(s, k)
<1>1. Len(s) \in Nat /\ k \in Nat
  BY TextIs
<1>2. o \in Text /\ Len(o) = 1 /\ o[1] = s[k]
  BY TextIs, OneChar
<1>3. /\ a \in Text /\ t \in Text /\ s = a \o t
      /\ Len(t) = Len(s) - (k - 1) /\ \A i \in 1 .. Len(s) - (k - 1) : t[i] = s[(k - 1) + i]
  <2> DEFINE j == k - 1
  <2>1. j \in 0 .. Len(s) /\ j + 1 = k
    BY <1>1
  <2> HIDE DEF j
  <2>2. /\ upto(s, j) \in Text
        /\ from(s, j + 1) \in Text /\ Len(from(s, j + 1)) = Len(s) - j
        /\ \A i \in 1 .. Len(s) - j : from(s, j + 1)[i] = s[j + i]
        /\ s = upto(s, j) \o from(s, j + 1)
    BY <2>1, TextJoins
  <2>3. from(s, j + 1) = t
    BY <2>1
  <2> HIDE DEF t
  <2>4. /\ upto(s, j) \in Text /\ t \in Text /\ s = upto(s, j) \o t
        /\ Len(t) = Len(s) - j /\ \A i \in 1 .. Len(s) - j : t[i] = s[j + i]
    BY <2>2, <2>3
  <2>5. QED  BY <2>4 DEF j
<1>4. /\ b \in Text /\ Len(b) = Len(s) - k /\ \A i \in 1 .. Len(s) - k : b[i] = s[k + i]
  <2>1. k \in 0 .. Len(s)
    BY <1>1
  <2>2. QED  BY <2>1, TextJoins
<1> HIDE DEF a, b, o, t
<1>5. t = o \o b
  <2>1. /\ o \o b \in Text /\ Len(o \o b) = Len(o) + Len(b)
        /\ \A i \in 1 .. Len(o) : (o \o b)[i] = o[i]
        /\ \A i \in 1 .. Len(b) : (o \o b)[Len(o) + i] = b[i]
    BY <1>2, <1>4, JoinText
  <2> DEFINE u == o \o b
  <2> HIDE DEF u
  <2>2. Len(u) = Len(t)
    BY <1>1, <1>2, <1>3, <1>4, <2>1 DEF u
  <2>3. ASSUME NEW i \in 1 .. Len(t) PROVE t[i] = u[i]
    <3>1. t[i] = s[(k - 1) + i]
      BY <1>3
    <3>2. CASE i = 1
      <4>1. (k - 1) + i = k /\ i \in 1 .. Len(o)
        BY <1>1, <1>2, <3>2
      <4>2. QED  BY <1>2, <2>1, <3>1, <3>2, <4>1 DEF u
    <3>3. CASE i # 1
      <4> DEFINE j == i - 1
      <4>1. j \in 1 .. Len(b) /\ j \in 1 .. Len(s) - k /\ Len(o) + j = i /\ k + j = (k - 1) + i
        BY <1>1, <1>2, <1>3, <1>4, <3>3
      <4> HIDE DEF j
      <4>2. (o \o b)[Len(o) + j] = b[j] /\ b[j] = s[k + j]
        BY <1>4, <2>1, <4>1
      <4>3. QED  BY <3>1, <4>1, <4>2 DEF u
    <3>4. QED  BY <3>2, <3>3
  <2>4. QED  BY <1>3, <2>1, <2>2, <2>3, SameText DEF u
<1>6. QED  BY <1>2, <1>3, <1>4, <1>5 DEF a, b, o

(* A text at one of its semicolons. *)
LEMMA CutAt ==
  ASSUME NEW s \in Text, NEW k \in 1 .. Len(s), s[k] = Semicolon
  PROVE  IsAfter(cut(s), cut(upto(s, k - 1)), cut(from(s, k + 1)))
<1> DEFINE a == upto(s, k - 1)
           b == from(s, k + 1)
<1>1. a \in Text /\ b \in Text /\ s = a \o (<<s[k]>> \o b)
  BY JoinsAt
<1> HIDE DEF a, b
<1>2. s = a \o (<<Semicolon>> \o b)
  BY <1>1
<1>3. IsAfter(cut(a \o (<<Semicolon>> \o b)), cut(a), cut(b))
  BY <1>1, CutJoins
<1>4. QED  BY <1>2, <1>3 DEF a, b

(***************************************************************************)
(* An assignment.                                                          *)
(***************************************************************************)

(* The characters from i to j are white space up to a and after c. *)
Ends(s, i, j, a, c) ==
  /\ a \in i .. j /\ c \in a .. j
  /\ s[a] # Space /\ s[c] # Space
  /\ \A k \in i .. a - 1 : s[k] = Space
  /\ \A k \in c + 1 .. j : s[k] = Space

LEMMA SubSub ==
  ASSUME NEW s \in Text, NEW i \in 1 .. Len(s), NEW j \in i .. Len(s),
         NEW a \in 1 .. j - i + 1, NEW b \in Int, b <= j - i + 1
  PROVE  SubSeq(SubSeq(s, i, j), a, b) = SubSeq(s, i + a - 1, i + b - 1)
<1> DEFINE t == SubSeq(s, i, j)
           u == SubSeq(t, a, b)
           v == SubSeq(s, i + a - 1, i + b - 1)
<1>1. Len(s) \in Nat /\ i \in Int /\ j \in Int /\ a \in Int /\ 1 <= i /\ j <= Len(s) /\ 1 <= a
  BY TextIs
<1>2. t \in Text /\ Len(t) = j - i + 1 /\ \A k \in 1 .. Len(t) : t[k] = s[k + i - 1]
  <2>1. t \in Text /\ Len(t) = (IF i <= j THEN j - i + 1 ELSE 0) /\ \A k \in 1 .. Len(t) : t[k] = s[k + i - 1]
    BY <1>1, SubText
  <2> HIDE DEF t
  <2>2. QED  BY <1>1, <2>1
<1> HIDE DEF t
<1>3. /\ u \in Text /\ Len(u) = IF a <= b THEN b - a + 1 ELSE 0
      /\ \A k \in 1 .. Len(u) : u[k] = t[k + a - 1]
  BY <1>1, <1>2, SubText
<1>4. /\ v \in Text /\ Len(v) = IF i + a - 1 <= i + b - 1 THEN (i + b - 1) - (i + a - 1) + 1 ELSE 0
      /\ \A k \in 1 .. Len(v) : v[k] = s[k + (i + a - 1) - 1]
  <2>1. i + a - 1 \in Int /\ i + b - 1 \in Int /\ 1 <= i + a - 1 /\ i + b - 1 <= Len(s)
    BY <1>1
  <2>2. QED  BY <2>1, SubText
<1> HIDE DEF u, v
<1>5. Len(u) = Len(v)
  BY <1>1, <1>3, <1>4
<1>6. ASSUME NEW k \in 1 .. Len(u) PROVE u[k] = v[k]
  <2>1. k + a - 1 \in 1 .. Len(t) /\ (k + a - 1) + i - 1 = k + (i + a - 1) - 1
    BY <1>1, <1>2, <1>3
  <2> DEFINE m == k + a - 1
  <2>2. m \in 1 .. Len(t) /\ m + i - 1 = k + (i + a - 1) - 1 /\ u[k] = t[m]
    BY <1>3, <2>1
  <2> HIDE DEF m
  <2>3. t[m] = s[m + i - 1]
    BY <1>2, <2>2
  <2>4. QED  BY <1>4, <1>5, <2>2, <2>3
<1>7. u = v
  BY <1>3, <1>4, <1>5, <1>6, SameText
<1>8. QED  BY <1>7 DEF u, v, t

(* strtrim takes the ends off. *)
LEMMA TrimOff ==
  ASSUME NEW s \in Text, NEW a \in 1 .. Len(s), NEW c \in a .. Len(s),
         s[a] # Space, s[c] # Space,
         \A k \in 1 .. a - 1 : s[k] = Space, \A k \in c + 1 .. Len(s) : s[k] = Space
  PROVE  strtrim(s) = SubSeq(s, a, c)
<1> DEFINE Ks == {k \in DOMAIN s : s[k] # Space}
           First1(k) == \A j \in Ks : k <= j
           Last1(k)  == \A j \in Ks : k >= j
<1>1. Len(s) \in Nat /\ Ks = {k \in 1 .. Len(s) : s[k] # Space}
  BY TextIs
<1>2. a \in Ks /\ c \in Ks /\ \A k \in Ks : k \in Int /\ a <= k /\ k <= c
  <2>1. a \in Ks /\ c \in Ks
    BY <1>1
  <2>2. ASSUME NEW k \in Ks PROVE k \in Int /\ a <= k /\ k <= c
    BY <1>1, <2>2
  <2>3. QED  BY <2>1, <2>2
<1>3. strtrim(s) = IF Ks = {} THEN <<>>
                     ELSE SubSeq(s, CHOOSE k \in Ks : First1(k), CHOOSE k \in Ks : Last1(k))
  BY DEF strtrim
<1> HIDE DEF Ks
<1>4. (CHOOSE k \in Ks : First1(k)) = a
  <2>1. First1(a) /\ \A k \in Ks : First1(k) => k = a
    BY <1>2
  <2> HIDE DEF First1
  <2>2. QED  BY <1>2, <2>1
<1>5. (CHOOSE k \in Ks : Last1(k)) = c
  <2>1. Last1(c) /\ \A k \in Ks : Last1(k) => k = c
    BY <1>2
  <2> HIDE DEF Last1
  <2>2. QED  BY <1>2, <2>1
<1>6. QED  BY <1>2, <1>3, <1>4, <1>5

LEMMA TrimPart ==
  ASSUME NEW s \in Text, NEW i \in 1 .. Len(s), NEW j \in i .. Len(s), NEW a, NEW c,
         Ends(s, i, j, a, c)
  PROVE  strtrim(SubSeq(s, i, j)) = SubSeq(s, a, c)
<1> DEFINE t == SubSeq(s, i, j)
           A == a - i + 1
           C == c - i + 1
<1>1. /\ Len(s) \in Nat /\ i \in Int /\ j \in Int /\ 1 <= i /\ j <= Len(s)
      /\ a \in i .. j /\ c \in a .. j
  BY TextIs DEF Ends
<1>2. t \in Text /\ Len(t) = j - i + 1 /\ \A k \in 1 .. Len(t) : t[k] = s[k + i - 1]
  <2>1. t \in Text /\ Len(t) = (IF i <= j THEN j - i + 1 ELSE 0) /\ \A k \in 1 .. Len(t) : t[k] = s[k + i - 1]
    BY <1>1, SubText
  <2> HIDE DEF t
  <2>2. QED  BY <1>1, <2>1
<1> HIDE DEF t
<1>3. A \in 1 .. Len(t) /\ C \in A .. Len(t) /\ A + i - 1 = a /\ C + i - 1 = c
  BY <1>1, <1>2
<1> HIDE DEF A, C
<1>4. t[A] # Space /\ t[C] # Space
  <2>1. C \in 1 .. Len(t)
    BY <1>1, <1>2, <1>3
  <2>2. t[A] = s[A + i - 1] /\ t[C] = s[C + i - 1]
    BY <1>2, <1>3, <2>1
  <2>3. QED  BY <1>3, <2>2 DEF Ends
<1>5. ASSUME NEW k \in 1 .. A - 1 PROVE t[k] = Space
  <2>1. k \in 1 .. Len(t) /\ k + i - 1 \in i .. a - 1
    BY <1>1, <1>2, <1>3
  <2>2. QED  BY <1>2, <2>1 DEF Ends
<1>6. ASSUME NEW k \in C + 1 .. Len(t) PROVE t[k] = Space
  <2>1. k \in 1 .. Len(t) /\ k + i - 1 \in c + 1 .. j
    BY <1>1, <1>2, <1>3
  <2>2. QED  BY <1>2, <2>1 DEF Ends
<1>7. strtrim(t) = SubSeq(t, A, C)
  BY <1>2, <1>3, <1>4, <1>5, <1>6, TrimOff
<1>8. SubSeq(t, A, C) = SubSeq(s, i + A - 1, i + C - 1)
  <2>1. A \in 1 .. j - i + 1 /\ C \in Int /\ C <= j - i + 1
    BY <1>1, <1>2, <1>3
  <2>2. QED  BY <2>1, SubSub DEF t
<1>9. i + A - 1 = a /\ i + C - 1 = c
  BY <1>1, <1>2, <1>3
<1>10. QED  BY <1>7, <1>8, <1>9 DEF t

LEMMA TrimPartEnds ==
  ASSUME NEW s \in Text, NEW i \in 1 .. Len(s) + 1, NEW j \in 0 .. Len(s),
         strtrim(SubSeq(s, i, j)) # <<>>
  PROVE  i <= j /\ \E a, c \in i .. j : Ends(s, i, j, a, c)
<1> DEFINE t  == SubSeq(s, i, j)
           Ks == {k \in i .. j : s[k] # Space}
<1>1. Len(s) \in Nat /\ i \in Int /\ j \in Int /\ 1 <= i /\ j <= Len(s)
  BY TextIs
<1>2. /\ t \in Text /\ Len(t) = IF i <= j THEN j - i + 1 ELSE 0
      /\ \A k \in 1 .. Len(t) : t[k] = s[k + i - 1]
  BY <1>1, SubText
<1>3. ~ \A k \in 1 .. Len(t) : t[k] = Space
  <2>1. strtrim(t) # <<>>
    BY DEF t
  <2> HIDE DEF t
  <2>2. strtrim(t) = <<>> <=> \A k \in 1 .. Len(t) : t[k] = Space
    BY <1>2, TrimIs
  <2>3. QED  BY <2>1, <2>2
<1> HIDE DEF t
<1>4. PICK m \in 1 .. Len(t) : t[m] # Space
  BY <1>3
<1>5. m + i - 1 \in Ks
  BY <1>1, <1>2, <1>4
<1>6. Ks \subseteq Nat /\ Ks \subseteq 0 .. Len(s) /\ Ks # {}
  BY <1>1, <1>5
<1> HIDE DEF Ks
<1>7. PICK a \in Ks : \A k \in Ks : a <= k
  BY <1>6, FirstOf
<1>8. PICK c \in Ks : \A k \in Ks : c >= k
  BY <1>1, <1>6, LastOf
<1>9. Ends(s, i, j, a, c)
  <2>1. a \in i .. j /\ c \in a .. j /\ s[a] # Space /\ s[c] # Space
    BY <1>1, <1>7, <1>8 DEF Ks
  <2>2. ASSUME NEW k \in i .. a - 1 PROVE s[k] = Space
    <3>1. k \in i .. j /\ ~(a <= k)
      BY <1>1, <2>1
    <3>2. QED  BY <1>7, <3>1 DEF Ks
  <2>3. ASSUME NEW k \in c + 1 .. j PROVE s[k] = Space
    <3>1. k \in i .. j /\ ~(c >= k)
      BY <1>1, <2>1
    <3>2. QED  BY <1>8, <3>1 DEF Ks
  <2>4. QED  BY <2>1, <2>2, <2>3 DEF Ends
<1>10. a \in i .. j /\ c \in i .. j /\ i <= j
  BY <1>1, <1>9 DEF Ends
<1>11. QED  BY <1>9, <1>10

(* The characters of an assignment: the equal sign at k, the name from a   *)
(* to c and the value, with its quotation marks, from e to f.              *)
AsgAt(u, k, a, c, e, f) ==
  /\ u \in Text /\ ~Has(u, Open) /\ ~Has(u, Close) /\ ~Has(u, Semicolon)
  /\ k \in 1 .. Len(u) /\ u[k] = Equal
  /\ \A j \in 1 .. k - 1 : u[j] # Equal
  /\ Ends(u, 1, k - 1, a, c) /\ Ends(u, k + 1, Len(u), e, f)

LEMMA AsgPlaces ==
  ASSUME NEW u, NEW n, NEW v, IsAsg(u, n, v)
  PROVE  \E k, a, c, e, f \in Int :
           /\ AsgAt(u, k, a, c, e, f)
           /\ n = SubSeq(u, a, c) /\ v = unquoted(SubSeq(u, e, f)) /\ v # <<>>
<1>1. u \in Text /\ ~Has(u, Open) /\ ~Has(u, Close) /\ ~Has(u, Semicolon)
  BY DEF IsAsg
<1>2. PICK k \in 1 .. Len(u) :
        /\ u[k] = Equal /\ \A j \in 1 .. k - 1 : u[j] # Equal
        /\ strtrim(upto(u, k - 1)) = n /\ n # <<>>
        /\ unquoted(strtrim(from(u, k + 1))) = v /\ v # <<>>
  BY DEF IsAsg
<1>3. Len(u) \in Nat /\ k \in Int
  BY <1>1, TextIs
<1>4. PICK a, c \in 1 .. k - 1 : Ends(u, 1, k - 1, a, c)
  <2> DEFINE j == k - 1
  <2>1. 1 \in 1 .. Len(u) + 1 /\ j \in 0 .. Len(u)
    BY <1>2, <1>3
  <2>2. strtrim(SubSeq(u, 1, j)) # <<>>
    BY <1>2 DEF upto
  <2> HIDE DEF j
  <2>3. \E a, c \in 1 .. j : Ends(u, 1, j, a, c)
    BY <1>1, <2>1, <2>2, TrimPartEnds
  <2>4. QED  BY <2>3 DEF j
<1>5. strtrim(from(u, k + 1)) # <<>>
  BY <1>2 DEF unquoted
<1>6. k + 1 <= Len(u) /\ \E e, f \in k + 1 .. Len(u) : Ends(u, k + 1, Len(u), e, f)
  <2> DEFINE j == k + 1
             m == Len(u)
  <2>1. j \in 1 .. Len(u) + 1 /\ m \in 0 .. Len(u)
    BY <1>2, <1>3
  <2>2. strtrim(SubSeq(u, j, m)) # <<>>
    BY <1>5 DEF from
  <2> HIDE DEF j, m
  <2>3. j <= m /\ \E e, f \in j .. m : Ends(u, j, m, e, f)
    BY <1>1, <2>1, <2>2, TrimPartEnds
  <2>4. QED  BY <2>3 DEF j, m
<1>7. PICK e, f \in k + 1 .. Len(u) : Ends(u, k + 1, Len(u), e, f)
  BY <1>6
<1>8. n = SubSeq(u, a, c)
  <2> DEFINE j == k - 1
  <2>1. 1 \in 1 .. Len(u) /\ j \in 1 .. Len(u)
    BY <1>2, <1>3, <1>4 DEF Ends
  <2>2. Ends(u, 1, j, a, c)
    BY <1>4
  <2>a. n = strtrim(SubSeq(u, 1, j))
    BY <1>2 DEF upto
  <2>b. u \in Text
    BY <1>1
  <2> HIDE DEF j
  <2>3. ASSUME NEW x, NEW y, Ends(u, 1, j, x, y) PROVE strtrim(SubSeq(u, 1, j)) = SubSeq(u, x, y)
    BY <2>1, <2>3, <2>b, TrimPart
  <2>4. QED  BY <2>2, <2>a, <2>3
<1>9. strtrim(from(u, k + 1)) = SubSeq(u, e, f)
  <2> DEFINE j == k + 1
             m == Len(u)
  <2>1. j \in 1 .. Len(u) /\ m \in j .. Len(u)
    BY <1>2, <1>3, <1>6
  <2>2. Ends(u, j, m, e, f) /\ from(u, k + 1) = SubSeq(u, j, m)
    BY <1>7 DEF from
  <2> HIDE DEF j, m
  <2>3. strtrim(SubSeq(u, j, m)) = SubSeq(u, e, f)
    BY <1>1, <2>1, <2>2, TrimPart
  <2>4. QED  BY <2>2, <2>3
<1>10. v = unquoted(SubSeq(u, e, f)) /\ v # <<>>
  BY <1>2, <1>9
<1>11. AsgAt(u, k, a, c, e, f)
  BY <1>1, <1>2, <1>4, <1>7 DEF AsgAt
<1>12. k \in Int /\ a \in Int /\ c \in Int /\ e \in Int /\ f \in Int
  BY <1>3, <1>4, <1>7
<1>13. QED  BY <1>8, <1>10, <1>11, <1>12

LEMMA PlacesAsg ==
  ASSUME NEW u, NEW k, NEW a, NEW c, NEW e, NEW f, AsgAt(u, k, a, c, e, f),
         NEW v, v = unquoted(SubSeq(u, e, f)), v # <<>>
  PROVE  IsAsg(u, SubSeq(u, a, c), v)
<1>1. /\ u \in Text /\ k \in 1 .. Len(u)
      /\ Ends(u, 1, k - 1, a, c) /\ Ends(u, k + 1, Len(u), e, f)
  BY DEF AsgAt
<1>2. Len(u) \in Nat /\ k \in Int /\ a \in Int /\ c \in Int /\ 1 <= a /\ a <= c /\ c <= k - 1
      /\ k + 1 <= Len(u)
  BY <1>1, TextIs DEF Ends
<1>3. strtrim(upto(u, k - 1)) = SubSeq(u, a, c)
  <2> DEFINE j == k - 1
  <2>1. 1 \in 1 .. Len(u) /\ j \in 1 .. Len(u)
    BY <1>1, <1>2
  <2>2. Ends(u, 1, j, a, c)
    BY <1>1
  <2> HIDE DEF j
  <2>3. strtrim(SubSeq(u, 1, j)) = SubSeq(u, a, c)
    BY <1>1, <2>1, <2>2, TrimPart
  <2>4. QED  BY <2>3 DEF j, upto
<1>4. strtrim(from(u, k + 1)) = SubSeq(u, e, f)
  <2> DEFINE j == k + 1
             m == Len(u)
  <2>1. j \in 1 .. Len(u) /\ m \in j .. Len(u)
    BY <1>1, <1>2
  <2>2. Ends(u, j, m, e, f)
    BY <1>1
  <2> HIDE DEF j, m
  <2>3. strtrim(SubSeq(u, j, m)) = SubSeq(u, e, f)
    BY <1>1, <2>1, <2>2, TrimPart
  <2>4. QED  BY <2>3 DEF j, m, from
<1>5. SubSeq(u, a, c) # <<>>
  <2>1. Len(SubSeq(u, a, c)) = c - a + 1
    <3>1. Len(SubSeq(u, a, c)) = IF a <= c THEN c - a + 1 ELSE 0
      <4>1. c <= Len(u)
        BY <1>1, <1>2
      <4>2. QED  BY <1>1, <1>2, <4>1, SubText
    <3>2. QED  BY <1>2, <3>1
  <2> DEFINE w == SubSeq(u, a, c)
             z == <<>>
  <2>2. Len(z) = 0 /\ Len(w) = c - a + 1
    BY <2>1
  <2> HIDE DEF w, z
  <2>3. w # z
    BY <1>2, <2>2
  <2>4. QED  BY <2>3 DEF w, z
<1>6. QED  BY <1>1, <1>3, <1>4, <1>5 DEF AsgAt, IsAsg

(* A part of two texts, one after the other. *)
LEMMA SubJoin ==
  ASSUME NEW s \in Text, NEW t \in Text, NEW a \in 1 .. Len(t), NEW b \in a .. Len(t)
  PROVE  /\ SubSeq(s \o t, Len(s) + a, Len(s) + b) = SubSeq(t, a, b)
         /\ SubSeq(s \o t, 1, Len(s) + b) = s \o SubSeq(t, 1, b)
<1> DEFINE g == s \o t
           S == Len(s)
           x == SubSeq(g, S + a, S + b)
           y == SubSeq(t, a, b)
           w == SubSeq(g, 1, S + b)
           h == SubSeq(t, 1, b)
           d == s \o h
<1>1. /\ g \in Text /\ Len(g) = S + Len(t) /\ S \in Nat /\ Len(t) \in Nat
      /\ \A k \in 1 .. S : g[k] = s[k]
      /\ \A k \in 1 .. Len(t) : g[S + k] = t[k]
  BY JoinText, TextIs
<1>2. a \in Int /\ b \in Int /\ 1 <= a /\ a <= b /\ b <= Len(t)
  BY <1>1
<1>3. /\ y \in Text /\ Len(y) = IF a <= b THEN b - a + 1 ELSE 0
      /\ \A k \in 1 .. Len(y) : y[k] = t[k + a - 1]
  BY <1>2, SubText
<1>4. /\ h \in Text /\ Len(h) = IF 1 <= b THEN b - 1 + 1 ELSE 0
      /\ \A k \in 1 .. Len(h) : h[k] = t[k + 1 - 1]
  BY <1>2, SubText
<1>5. /\ d \in Text /\ Len(d) = S + Len(h)
      /\ \A k \in 1 .. S : d[k] = s[k]
      /\ \A k \in 1 .. Len(h) : d[S + k] = h[k]
  BY <1>4, JoinText
<1> HIDE DEF g, S, y, h, d
<1>6. /\ x \in Text /\ Len(x) = IF S + a <= S + b THEN (S + b) - (S + a) + 1 ELSE 0
      /\ \A k \in 1 .. Len(x) : x[k] = g[k + (S + a) - 1]
  <2>1. S + a \in Int /\ S + b \in Int /\ 1 <= S + a /\ S + b <= Len(g)
    BY <1>1, <1>2
  <2>2. QED  BY <1>1, <2>1, SubText
<1>7. /\ w \in Text /\ Len(w) = IF 1 <= S + b THEN (S + b) - 1 + 1 ELSE 0
      /\ \A k \in 1 .. Len(w) : w[k] = g[k + 1 - 1]
  <2>1. 1 \in Int /\ S + b \in Int /\ 1 <= 1 /\ S + b <= Len(g)
    BY <1>1, <1>2
  <2>2. QED  BY <1>1, <2>1, SubText
<1> HIDE DEF x, w
<1>8. x = y
  <2>1. Len(x) = b - a + 1 /\ Len(y) = b - a + 1
    BY <1>1, <1>2, <1>3, <1>6
  <2>2. ASSUME NEW k \in 1 .. Len(x) PROVE x[k] = y[k]
    <3> DEFINE m == k + a - 1
    <3>1. m \in 1 .. Len(t) /\ k + (S + a) - 1 = S + m /\ k \in 1 .. Len(y)
      BY <1>1, <1>2, <2>1
    <3>2. y[k] = t[m]
      BY <1>3, <3>1
    <3> HIDE DEF m
    <3>3. x[k] = g[S + m] /\ g[S + m] = t[m]
      BY <1>1, <1>6, <3>1
    <3>4. QED  BY <3>2, <3>3
  <2>3. QED  BY <1>3, <1>6, <2>1, <2>2, SameText
<1>9. w = d
  <2>1. Len(w) = S + b /\ Len(d) = S + b /\ Len(h) = b
    BY <1>1, <1>2, <1>4, <1>5, <1>7
  <2>2. ASSUME NEW k \in 1 .. Len(w) PROVE w[k] = d[k]
    <3>1. w[k] = g[k] /\ k \in Int
      <4>1. k + 1 - 1 = k /\ k \in Int
        BY <2>1
      <4>2. QED  BY <1>7, <4>1
    <3>2. CASE k <= S
      <4>1. k \in 1 .. S
        BY <1>1, <2>1, <3>2
      <4>2. QED  BY <1>1, <1>5, <3>1, <4>1
    <3>3. CASE ~(k <= S)
      <4> DEFINE m == k - S
      <4>1. m \in 1 .. Len(h) /\ m \in 1 .. Len(t) /\ S + m = k /\ m + 1 - 1 = m
        BY <1>1, <1>2, <2>1, <3>1, <3>3
      <4> HIDE DEF m
      <4>2. d[S + m] = h[m] /\ h[m] = t[m + 1 - 1] /\ g[S + m] = t[m]
        BY <1>1, <1>4, <1>5, <4>1
      <4>3. QED  BY <3>1, <4>1, <4>2
    <3>4. QED  BY <3>2, <3>3
  <2>3. QED  BY <1>5, <1>7, <2>1, <2>2, SameText
<1>10. QED  BY <1>8, <1>9 DEF x, y, w, d, g, S, h

(* An assignment with no white space around it. *)
AsgTight(s, n, v) ==
  \E k, c, e, f \in Int : /\ AsgAt(s, k, 1, c, e, f)
                          /\ n = SubSeq(s, 1, c) /\ v = unquoted(SubSeq(s, e, f))

LEMMA AsgTrimmed ==
  ASSUME NEW u, NEW n, NEW v, IsAsg(u, n, v)
  PROVE  strtrim(u) \in Text /\ IsAsg(strtrim(u), n, v) /\ AsgTight(strtrim(u), n, v)
<1>1. PICK k, a, c, e, f \in Int : /\ AsgAt(u, k, a, c, e, f)
                                   /\ n = SubSeq(u, a, c)
                                   /\ v = unquoted(SubSeq(u, e, f)) /\ v # <<>>
  BY AsgPlaces
<1> DEFINE t == strtrim(u)
           N == Len(u)
<1>2. /\ u \in Text /\ ~Has(u, Open) /\ ~Has(u, Close) /\ ~Has(u, Semicolon)
      /\ k \in 1 .. N /\ u[k] = Equal
      /\ \A j \in 1 .. k - 1 : u[j] # Equal
      /\ Ends(u, 1, k - 1, a, c) /\ Ends(u, k + 1, N, e, f)
  BY <1>1 DEF AsgAt
<1>3. N \in Nat
  BY <1>2, TextIs
<1>4. /\ a \in 1 .. k - 1 /\ c \in a .. k - 1 /\ u[a] # Space /\ u[c] # Space
      /\ \A i \in 1 .. a - 1 : u[i] = Space
      /\ \A i \in c + 1 .. k - 1 : u[i] = Space
  BY <1>2 DEF Ends
<1>5. /\ e \in k + 1 .. N /\ f \in e .. N /\ u[e] # Space /\ u[f] # Space
      /\ \A i \in k + 1 .. e - 1 : u[i] = Space
      /\ \A i \in f + 1 .. N : u[i] = Space
  BY <1>2 DEF Ends
<1>6. 1 <= a /\ a <= c /\ c < k /\ k < e /\ e <= f /\ f <= N
  BY <1>1, <1>3, <1>4, <1>5
<1>7. t = SubSeq(u, a, f)
  <2>1. a \in 1 .. Len(u) /\ f \in a .. Len(u)
    BY <1>1, <1>3, <1>6
  <2>2. QED  BY <1>2, <1>4, <1>5, <2>1, TrimOff
<1>8. t \in Text /\ Len(t) = f - a + 1 /\ \A i \in 1 .. Len(t) : t[i] = u[i + a - 1]
  <2>1. a \in Int /\ f \in Int /\ 1 <= a /\ f <= Len(u)
    BY <1>1, <1>6
  <2>2. /\ SubSeq(u, a, f) \in Text
        /\ Len(SubSeq(u, a, f)) = IF a <= f THEN f - a + 1 ELSE 0
        /\ \A i \in 1 .. Len(SubSeq(u, a, f)) : SubSeq(u, a, f)[i] = u[i + a - 1]
    BY <1>2, <2>1, SubText
  <2>3. a <= f
    BY <1>1, <1>6
  <2> HIDE DEF t
  <2>4. QED  BY <1>7, <2>2, <2>3
<1> DEFINE K == k - a + 1
           C == c - a + 1
           E == e - a + 1
           F == f - a + 1
<1> HIDE DEF t, N
<1>9. /\ K \in Int /\ C \in Int /\ E \in Int /\ F \in Int
      /\ 1 <= C /\ C < K /\ K < E /\ E <= F /\ F = Len(t)
      /\ K + a - 1 = k /\ C + a - 1 = c /\ E + a - 1 = e /\ F + a - 1 = f /\ 1 + a - 1 = a
  <2>1. Len(t) = f - a + 1
    BY <1>8
  <2>2. K \in Int /\ C \in Int /\ E \in Int /\ F \in Int
    BY <1>1
  <2>3. K + a - 1 = k /\ C + a - 1 = c /\ E + a - 1 = e /\ F + a - 1 = f /\ 1 + a - 1 = a
    BY <1>1
  <2>4. 1 <= C /\ C < K /\ K < E /\ E <= F
    BY <1>1, <1>6
  <2>5. QED  BY <2>1, <2>2, <2>3, <2>4
<1> HIDE DEF K, C, E, F
<1>10. /\ 1 \in 1 .. Len(t) /\ K \in 1 .. Len(t) /\ C \in 1 .. Len(t)
       /\ E \in 1 .. Len(t) /\ F \in 1 .. Len(t)
  BY <1>9
<1>11. /\ t[1] = u[1 + a - 1] /\ t[K] = u[K + a - 1] /\ t[C] = u[C + a - 1]
       /\ t[E] = u[E + a - 1] /\ t[F] = u[F + a - 1]
  BY <1>8, <1>10
<1>12. t[1] # Space /\ t[K] = Equal /\ t[C] # Space /\ t[E] # Space /\ t[F] # Space
  BY <1>2, <1>4, <1>5, <1>9, <1>11
<1>13. ASSUME NEW i \in 1 .. Len(t)
       PROVE  i + a - 1 \in 1 .. N /\ t[i] = u[i + a - 1] /\ i \in Int
  <2>1. t[i] = u[i + a - 1]
    BY <1>8
  <2>2. Len(t) = f - a + 1
    BY <1>8
  <2>3. i \in Int /\ 1 <= i /\ i <= f - a + 1
    BY <2>2
  <2>4. QED  BY <1>1, <1>3, <1>6, <2>1, <2>3
<1>14. ~Has(t, Open) /\ ~Has(t, Close) /\ ~Has(t, Semicolon)
  BY <1>2, <1>13 DEF Has, N
<1>15. ASSUME NEW i \in 1 .. K - 1 PROVE t[i] # Equal
  <2>1. i \in 1 .. Len(t) /\ i + a - 1 \in 1 .. k - 1
    BY <1>1, <1>6, <1>9
  <2>2. QED  BY <1>2, <1>13, <2>1
<1>16. Ends(t, 1, K - 1, 1, C)
  <2>1. 1 \in 1 .. K - 1 /\ C \in 1 .. K - 1
    BY <1>9
  <2>2. ASSUME NEW i \in 1 .. 1 - 1 PROVE t[i] = Space
    OBVIOUS
  <2>3. ASSUME NEW i \in C + 1 .. K - 1 PROVE t[i] = Space
    <3>1. i \in 1 .. Len(t) /\ i + a - 1 \in c + 1 .. k - 1
      BY <1>1, <1>6, <1>9
    <3>2. QED  BY <1>4, <1>13, <3>1
  <2>4. QED  BY <1>12, <2>1, <2>2, <2>3 DEF Ends
<1>17. Ends(t, K + 1, Len(t), E, F)
  <2>1. E \in K + 1 .. Len(t) /\ F \in E .. Len(t)
    BY <1>9
  <2>2. ASSUME NEW i \in K + 1 .. E - 1 PROVE t[i] = Space
    <3>1. i \in 1 .. Len(t) /\ i + a - 1 \in k + 1 .. e - 1
      BY <1>1, <1>6, <1>9
    <3>2. QED  BY <1>5, <1>13, <3>1
  <2>3. ASSUME NEW i \in F + 1 .. Len(t) PROVE t[i] = Space
    BY <1>9
  <2>4. QED  BY <1>12, <2>1, <2>2, <2>3 DEF Ends
<1>18. AsgAt(t, K, 1, C, E, F)
  BY <1>8, <1>10, <1>12, <1>14, <1>15, <1>16, <1>17 DEF AsgAt
<1>19. SubSeq(t, 1, C) = n /\ SubSeq(t, E, F) = SubSeq(u, e, f)
  <2>a. Len(t) = f - a + 1 /\ N = Len(u)
    BY <1>8 DEF N
  <2>1. /\ a \in 1 .. Len(u) /\ f \in a .. Len(u)
        /\ 1 \in 1 .. f - a + 1 /\ C \in Int /\ C <= f - a + 1
        /\ E \in 1 .. f - a + 1 /\ F \in Int /\ F <= f - a + 1
    BY <1>1, <1>3, <1>6, <1>9, <2>a
  <2>2. /\ SubSeq(SubSeq(u, a, f), 1, C) = SubSeq(u, a + 1 - 1, a + C - 1)
        /\ SubSeq(SubSeq(u, a, f), E, F) = SubSeq(u, a + E - 1, a + F - 1)
    BY <1>2, <2>1, SubSub
  <2>3. a + 1 - 1 = a /\ a + C - 1 = c /\ a + E - 1 = e /\ a + F - 1 = f
    BY <1>1, <1>9
  <2>4. QED  BY <1>1, <1>7, <2>2, <2>3
<1>20. v = unquoted(SubSeq(t, E, F))
  BY <1>1, <1>19
<1>21. IsAsg(t, n, v)
  <2>1. IsAsg(t, SubSeq(t, 1, C), v)
    BY <1>1, <1>18, <1>20, PlacesAsg
  <2>2. QED  BY <1>19, <2>1
<1>22. AsgTight(t, n, v)
  BY <1>9, <1>18, <1>19, <1>20 DEF AsgTight
<1>23. QED  BY <1>8, <1>21, <1>22 DEF t

(* What stands in front of an assignment belongs to the name.              *)
LEMMA AsgPrefixed ==
  ASSUME NEW t, NEW n, NEW v, IsAsg(t, n, v), NEW p \in Text, Len(p) >= 1, p[1] # Space,
         ~Has(p, Open), ~Has(p, Close), ~Has(p, Semicolon), ~Has(p, Equal)
  PROVE  IsAsg(p \o strtrim(t), p \o n, v)
<1> DEFINE s == strtrim(t)
           u == p \o s
           P == Len(p)
<1>1. s \in Text
  BY AsgTrimmed
<1>2. PICK k, c, e, f \in Int : /\ AsgAt(s, k, 1, c, e, f)
                                /\ n = SubSeq(s, 1, c)
                                /\ v = unquoted(SubSeq(s, e, f))
  <2>1. AsgTight(s, n, v)
    BY AsgTrimmed
  <2> HIDE DEF s
  <2>2. QED  BY <2>1 DEF AsgTight
<1>3. v # <<>>
  BY DEF IsAsg
<1> HIDE DEF s
<1>4. /\ ~Has(s, Open) /\ ~Has(s, Close) /\ ~Has(s, Semicolon)
      /\ k \in 1 .. Len(s) /\ s[k] = Equal
      /\ \A j \in 1 .. k - 1 : s[j] # Equal
      /\ Ends(s, 1, k - 1, 1, c) /\ Ends(s, k + 1, Len(s), e, f)
  BY <1>2 DEF AsgAt
<1>5. /\ c \in 1 .. k - 1 /\ s[c] # Space
      /\ \A i \in c + 1 .. k - 1 : s[i] = Space
  BY <1>4 DEF Ends
<1>6. /\ e \in k + 1 .. Len(s) /\ f \in e .. Len(s) /\ s[e] # Space /\ s[f] # Space
      /\ \A i \in k + 1 .. e - 1 : s[i] = Space
      /\ \A i \in f + 1 .. Len(s) : s[i] = Space
  BY <1>4 DEF Ends
<1>7. /\ u \in Text /\ Len(u) = P + Len(s) /\ P \in Nat /\ Len(s) \in Nat
      /\ \A i \in 1 .. P : u[i] = p[i]
      /\ \A i \in 1 .. Len(s) : u[P + i] = s[i]
  BY <1>1, JoinText, TextIs
<1>8. P >= 1 /\ 1 <= c /\ c < k /\ k < e /\ e <= f /\ f <= Len(s)
  BY <1>2, <1>5, <1>6, <1>7
<1>9. /\ SubSeq(u, P + e, P + f) = SubSeq(s, e, f)
      /\ SubSeq(u, 1, P + c) = p \o n
  <2>1. e \in 1 .. Len(s) /\ f \in e .. Len(s) /\ 1 \in 1 .. Len(s) /\ c \in 1 .. Len(s)
    BY <1>2, <1>7, <1>8
  <2>2. SubSeq(p \o s, Len(p) + e, Len(p) + f) = SubSeq(s, e, f)
    BY <1>1, <2>1, SubJoin
  <2>3. SubSeq(p \o s, 1, Len(p) + c) = p \o SubSeq(s, 1, c)
    BY <1>1, <2>1, SubJoin
  <2>4. QED  BY <1>2, <2>2, <2>3
<1> DEFINE K == P + k
           C == P + c
           E == P + e
           F == P + f
<1>10. /\ K \in Int /\ C \in Int /\ E \in Int /\ F \in Int
       /\ P < C /\ C < K /\ K < E /\ E <= F /\ F <= Len(u)
       /\ K - P = k /\ C - P = c /\ E - P = e /\ F - P = f
  BY <1>2, <1>7, <1>8
<1>11. u[1] # Space /\ u[K] = Equal /\ u[C] # Space /\ u[E] # Space /\ u[F] # Space
  <2>1. 1 \in 1 .. P /\ k \in 1 .. Len(s) /\ c \in 1 .. Len(s) /\ e \in 1 .. Len(s) /\ f \in 1 .. Len(s)
    BY <1>2, <1>7, <1>8
  <2>2. u[1] = p[1] /\ u[P + k] = s[k] /\ u[P + c] = s[c] /\ u[P + e] = s[e] /\ u[P + f] = s[f]
    BY <1>7, <2>1
  <2>3. QED  BY <1>4, <1>5, <1>6, <2>2
<1> HIDE DEF u, P, K, C, E, F
<1>12. ASSUME NEW i \in 1 .. Len(u)
       PROVE  /\ i \in Int
              /\ i <= P => i \in 1 .. P /\ u[i] = p[i]
              /\ ~(i <= P) => i - P \in 1 .. Len(s) /\ u[i] = s[i - P]
  <2>1. i \in Int /\ 1 <= i /\ i <= P + Len(s)
    BY <1>7
  <2>2. i <= P => i \in 1 .. P /\ u[i] = p[i]
    BY <1>7, <2>1
  <2>3. ASSUME ~(i <= P) PROVE i - P \in 1 .. Len(s) /\ u[i] = s[i - P]
    <3> DEFINE j == i - P
    <3>1. j \in 1 .. Len(s) /\ P + j = i
      BY <1>7, <2>1, <2>3
    <3> HIDE DEF j
    <3>2. j \in 1 .. Len(s) /\ u[i] = s[j]
      BY <1>7, <3>1
    <3>3. QED  BY <3>2 DEF j
  <2>4. QED  BY <2>1, <2>2, <2>3
<1>13. ASSUME NEW x, ~Has(p, x), ~Has(s, x) PROVE ~Has(u, x)
  BY <1>12, <1>13 DEF Has, P
<1>14. ~Has(u, Open) /\ ~Has(u, Close) /\ ~Has(u, Semicolon)
  BY <1>4, <1>13
<1>15. ASSUME NEW i \in 1 .. K - 1 PROVE u[i] # Equal
  <2>1. i \in 1 .. Len(u)
    BY <1>7, <1>10
  <2>2. CASE i <= P
    BY <1>12, <2>1, <2>2 DEF Has, P
  <2>3. CASE ~(i <= P)
    <3>1. i - P \in 1 .. k - 1
      <4>1. i \in Int /\ 1 <= i /\ i <= K - 1
        BY <1>10
      <4>2. QED  BY <1>2, <1>7, <1>10, <2>3, <4>1
    <3>2. QED  BY <1>4, <1>12, <2>1, <2>3, <3>1
  <2>4. QED  BY <2>2, <2>3
<1>16. ASSUME NEW i \in Int, NEW j \in Int, i \in P + 1 .. Len(u), j = i - P
       PROVE  u[i] = s[j]
  <2>1. i \in 1 .. Len(u) /\ ~(i <= P)
    BY <1>7, <1>16
  <2>2. QED  BY <1>12, <1>16, <2>1
<1>17. Ends(u, 1, K - 1, 1, C)
  <2>1. 1 \in 1 .. K - 1 /\ C \in 1 .. K - 1
    BY <1>7, <1>10
  <2>2. ASSUME NEW i \in 1 .. 1 - 1 PROVE u[i] = Space
    OBVIOUS
  <2>3. ASSUME NEW i \in C + 1 .. K - 1 PROVE u[i] = Space
    <3> DEFINE j == i - P
    <3>1. i \in Int /\ C + 1 <= i /\ i <= K - 1
      BY <1>10
    <3>2. i \in P + 1 .. Len(u) /\ j \in Int /\ j \in c + 1 .. k - 1
      BY <1>2, <1>7, <1>10, <3>1
    <3> HIDE DEF j
    <3>3. u[i] = s[j]
      BY <1>16, <3>1, <3>2 DEF j
    <3>4. QED  BY <1>5, <3>2, <3>3
  <2>4. QED  BY <1>11, <2>1, <2>2, <2>3 DEF Ends
<1>18. Ends(u, K + 1, Len(u), E, F)
  <2>1. E \in K + 1 .. Len(u) /\ F \in E .. Len(u)
    BY <1>7, <1>10
  <2>2. ASSUME NEW i \in K + 1 .. E - 1 PROVE u[i] = Space
    <3> DEFINE j == i - P
    <3>1. i \in Int /\ K + 1 <= i /\ i <= E - 1
      BY <1>10
    <3>2. i \in P + 1 .. Len(u) /\ j \in Int /\ j \in k + 1 .. e - 1
      BY <1>2, <1>7, <1>10, <3>1
    <3> HIDE DEF j
    <3>3. u[i] = s[j]
      BY <1>16, <3>1, <3>2 DEF j
    <3>4. QED  BY <1>6, <3>2, <3>3
  <2>3. ASSUME NEW i \in F + 1 .. Len(u) PROVE u[i] = Space
    <3> DEFINE j == i - P
    <3>1. i \in Int /\ F + 1 <= i /\ i <= Len(u)
      BY <1>7, <1>10
    <3>2. i \in P + 1 .. Len(u) /\ j \in Int /\ j \in f + 1 .. Len(s)
      BY <1>2, <1>7, <1>10, <3>1
    <3> HIDE DEF j
    <3>3. u[i] = s[j]
      BY <1>16, <3>1, <3>2 DEF j
    <3>4. QED  BY <1>6, <3>2, <3>3
  <2>4. QED  BY <1>11, <2>1, <2>2, <2>3 DEF Ends
<1>19. AsgAt(u, K, 1, C, E, F)
  <2>1. K \in 1 .. Len(u)
    BY <1>7, <1>10
  <2>2. QED  BY <1>7, <1>11, <1>14, <1>15, <1>17, <1>18, <2>1 DEF AsgAt
<1>20. v = unquoted(SubSeq(u, E, F)) /\ SubSeq(u, 1, C) = p \o n
  BY <1>2, <1>9 DEF C, E, F
<1>21. IsAsg(u, SubSeq(u, 1, C), v)
  BY <1>3, <1>19, <1>20, PlacesAsg
<1>22. QED  BY <1>20, <1>21 DEF u, s

(* The first place of a character. *)
LEMMA FindFirst ==
  ASSUME NEW s \in Text, NEW c, NEW k \in 1 .. Len(s), s[k] = c, \A j \in 1 .. k - 1 : s[j] # c
  PROVE  find(s, c, 1) = k
<1> DEFINE First1(i) == s[i] = c /\ \A j \in 1 .. i - 1 : s[j] # c
<1>1. Len(s) \in Nat
  BY TextIs
<1>2. find(s, c, 1) = CHOOSE i \in 1 .. Len(s) : First1(i)
  BY DEF find
<1>3. First1(k) /\ \A i \in 1 .. Len(s) : First1(i) => i = k
  BY <1>1
<1> HIDE DEF First1
<1>4. QED  BY <1>2, <1>3

(* The part that is next is taken for what it says. *)
LEMMA AsgTaken ==
  ASSUME parts \in Seq(Text), parts # <<>>, NEW n, NEW v, IsAsg(Head(parts), n, v)
  PROVE  equal # 0 /\ paramName = n /\ paramVal = v /\ v # <<>>
<1> DEFINE t == strtrim(Head(parts))
<1>1. t \in Text /\ IsAsg(t, n, v)
  BY AsgTrimmed
<1>2. equal = find(t, "=", 1) /\ paramName = strtrim(upto(t, equal - 1)) /\ text = strtrim(from(t, equal + 1))
  BY DEF equal, paramName, text
<1> HIDE DEF t
<1>3. PICK k \in 1 .. Len(t) :
        /\ t[k] = Equal /\ \A j \in 1 .. k - 1 : t[j] # Equal
        /\ strtrim(upto(t, k - 1)) = n /\ n # <<>>
        /\ unquoted(strtrim(from(t, k + 1))) = v /\ v # <<>>
  BY <1>1 DEF IsAsg
<1>4. find(t, Equal, 1) = k
  BY <1>1, <1>3, FindFirst
<1>5. equal = k
  BY <1>2, <1>4, Zenon DEF Equal
<1>6. equal # 0
  <2>1. k # 0
    BY <1>1, TextIs
  <2>2. QED  BY <1>5, <2>1
<1>7. paramName = n /\ text = strtrim(from(t, k + 1))
  BY <1>2, <1>3, <1>5
<1>8. paramVal = unquoted(text)
  BY DEF paramVal, unquoted
<1>9. QED  BY <1>3, <1>6, <1>7, <1>8

(***************************************************************************)
(* What a text says.                                                       *)
(***************************************************************************)

(* A text that says the pairs ps, each one once. *)
Told(s, ps) ==
  \E m, turn, group, name, val, around :
    /\ Block(s, m, turn, group, name, val, around)
    /\ Pairing(ps, m, turn, name, val, around)

(* What each statement has of brackets. *)
LEMMA OpeningHas ==
  ASSUME NEW u \in Text, NEW g, NEW n, NEW v, Opening(u, g, n, v)
  PROVE  Has(u, Open) /\ ~Has(u, Close)
<1>1. PICK k \in 1 .. Len(u) :
        /\ u[k] = Open
        /\ ~Has(upto(u, k - 1), Close)
        /\ IsAsg(from(u, k + 1), n, v)
  BY DEF Opening
<1> DEFINE w == upto(u, k - 1)
           x == from(u, k + 1)
<1>2. Len(u) \in Nat /\ k \in Int
  BY TextIs
<1>3. Len(w) = k - 1 /\ \A i \in 1 .. k - 1 : w[i] = u[i]
  <2> DEFINE j == k - 1
  <2>1. j \in 0 .. Len(u)
    BY <1>2
  <2> HIDE DEF j
  <2>2. Len(upto(u, j)) = j /\ \A i \in 1 .. j : upto(u, j)[i] = u[i]
    BY <2>1, TextJoins
  <2>3. QED  BY <2>2 DEF j
<1>4. Len(x) = Len(u) - k /\ \A i \in 1 .. Len(u) - k : x[i] = u[k + i]
  <2>1. k \in 0 .. Len(u)
    BY <1>2
  <2>2. QED  BY <2>1, TextJoins
<1>5. ~Has(w, Close) /\ ~Has(x, Close)
  BY <1>1 DEF IsAsg
<1> HIDE DEF w, x
<1>6. Has(u, Open)
  BY <1>1 DEF Has
<1>7. ASSUME NEW j \in 1 .. Len(u), u[j] = Close PROVE FALSE
  <2>1. CASE j < k
    <3>1. j \in 1 .. k - 1
      BY <1>2, <2>1
    <3>2. QED  BY <1>3, <1>5, <1>7, <3>1 DEF Has
  <2>2. CASE j = k
    BY <1>1, <1>7, <2>2, Characters
  <2>3. CASE j > k
    <3> DEFINE i == j - k
    <3>1. i \in 1 .. Len(u) - k /\ k + i = j
      BY <1>2, <2>3
    <3> HIDE DEF i
    <3>2. x[i] = u[j] /\ i \in 1 .. Len(x)
      BY <1>4, <3>1
    <3>3. QED  BY <1>5, <1>7, <3>2 DEF Has
  <2>4. QED  BY <1>2, <2>1, <2>2, <2>3
<1>8. QED  BY <1>6, <1>7 DEF Has

LEMMA SaysHas ==
  ASSUME NEW u \in Text, NEW turn, NEW g, NEW n, NEW v, Says(u, turn, g, n, v)
  PROVE  /\ turn \in {-1, 0, 1}
         /\ turn = 0 => IsAsg(u, n, v)
         /\ turn = 1 => Opening(u, g, n, v)
         /\ turn = -1 => Closing(u)
         /\ Has(u, Open) <=> turn = 1
         /\ Has(u, Close) <=> turn = -1
<1>1. CASE turn = 0
  <2>1. IsAsg(u, n, v)
    BY <1>1 DEF Says
  <2>2. ~Has(u, Open) /\ ~Has(u, Close)
    BY <2>1 DEF IsAsg
  <2>3. QED  BY <1>1, <2>1, <2>2
<1>2. CASE turn = 1
  <2>1. Opening(u, g, n, v)
    BY <1>2 DEF Says
  <2>2. Has(u, Open) /\ ~Has(u, Close)
    BY <2>1, OpeningHas
  <2>3. QED  BY <1>2, <2>1, <2>2
<1>3. CASE turn = -1
  <2>1. Closing(u)
    BY <1>3 DEF Says
  <2>2. PICK k \in 1 .. Len(u) : u[k] = Close /\ \A j \in 1 .. Len(u) : j # k => u[j] = Space
    BY <2>1 DEF Closing
  <2>3. Open # Space /\ Open # Close
    BY Characters
  <2>4. Has(u, Close) /\ ~Has(u, Open)
    BY <2>2, <2>3 DEF Has
  <2>5. QED  BY <1>3, <2>1, <2>4
<1>4. QED  BY <1>1, <1>2, <1>3 DEF Says

(* The parts before position q, which is 0 or has a semicolon. *)
ahead(s, q) == IF q = 0 THEN <<>> ELSE cut(upto(s, q - 1))

LEMMA CutAfter ==
  ASSUME NEW s \in Text, NEW q \in 0 .. Len(s), q # 0 => s[q] = Semicolon, NEW t \in Text
  PROVE  /\ Len(ahead(s, q)) \in Nat
         /\ upto(s, q) \o t \in Text
         /\ IsAfter(cut(upto(s, q) \o t), ahead(s, q), cut(t))
<1>1. Len(s) \in Nat
  BY TextIs
<1>2. CASE q = 0
  <2> DEFINE z == <<>>
             a == upto(s, 0)
  <2>1. 0 \in 0 .. Len(s)
    BY <1>1
  <2>2. a = z
    <3>1. upto(s, 0) \in Text /\ Len(upto(s, 0)) = 0
      BY <2>1, TextJoins
    <3> HIDE DEF a
    <3>2. a \in Text /\ Len(a) = 0
      BY <3>1 DEF a
    <3>3. QED  BY <3>2 DEF Text
  <2>3. a \o t = t
    BY <2>2, JoinNothing
  <2>4. Len(z) = 0
    OBVIOUS
  <2>5. ahead(s, q) = z /\ upto(s, q) = a
    BY <1>2 DEF ahead
  <2> HIDE DEF z, a
  <2>6. Len(cut(t)) \in Nat
    BY CutIs
  <2> DEFINE c == cut(t)
  <2> HIDE DEF c
  <2>7. IsAfter(c, z, c)
    BY <2>4, <2>6 DEF IsAfter, c
  <2>8. upto(s, q) \o t = t
    BY <2>3, <2>5
  <2>9. IsAfter(cut(upto(s, q) \o t), ahead(s, q), cut(t))
    <3>1. IsAfter(cut(t), z, cut(t))
      BY <2>7 DEF c
    <3>2. QED  BY <2>5, <2>8, <3>1, Zenon
  <2>10. Len(ahead(s, q)) \in Nat
    BY <2>4, <2>5
  <2>11. QED  BY <2>8, <2>9, <2>10
<1>3. CASE q # 0
  <2> DEFINE j == q - 1
             a == upto(s, j)
             o == <<Semicolon>>
             b == upto(s, q)
             d == a \o o
  <2>1. j \in 0 .. Len(s) /\ j + 1 = q /\ j \in Int /\ q \in Int
    BY <1>1, <1>3
  <2>2. o \in Text /\ Len(o) = 1 /\ o[1] = Semicolon
    BY Characters, OneChar
  <2> HIDE DEF j, o
  <2>3. a \in Text /\ Len(a) = j /\ \A k \in 1 .. j : a[k] = s[k]
    BY <2>1, TextJoins
  <2>4. b \in Text /\ Len(b) = q /\ \A k \in 1 .. q : b[k] = s[k]
    BY TextJoins
  <2> HIDE DEF a, b
  <2>5. /\ d \in Text /\ Len(d) = Len(a) + Len(o)
        /\ \A k \in 1 .. Len(a) : d[k] = a[k]
        /\ \A k \in 1 .. Len(o) : d[Len(a) + k] = o[k]
    BY <2>2, <2>3, JoinText
  <2> HIDE DEF d
  <2>6. b = d
    <3>1. Len(b) = Len(d)
      BY <2>1, <2>2, <2>3, <2>4, <2>5
    <3>2. ASSUME NEW k \in 1 .. Len(b) PROVE b[k] = d[k]
      <4>1. CASE k = q
        <5>1. 1 \in 1 .. Len(o) /\ Len(a) + 1 = q
          BY <2>1, <2>2, <2>3
        <5>2. d[q] = Semicolon
          BY <2>2, <2>5, <5>1
        <5>3. QED  BY <1>3, <2>4, <4>1, <5>2
      <4>2. CASE k # q
        <5>1. k \in 1 .. j /\ k \in 1 .. Len(a)
          BY <2>1, <2>3, <2>4, <4>2
        <5>2. QED  BY <2>3, <2>4, <2>5, <5>1
      <4>3. QED  BY <4>1, <4>2
    <3>3. QED  BY <2>4, <2>5, <3>1, <3>2, SameText
  <2>7. b \o t = a \o (o \o t)
    <3>1. b \o t = (a \o o) \o t
      BY <2>6 DEF d
    <3>2. (a \o o) \o t = a \o (o \o t)
      BY <2>2, <2>3, JoinAssoc
    <3>3. QED  BY <3>1, <3>2
  <2>8. IsAfter(cut(a \o (o \o t)), cut(a), cut(t))
    BY <2>3, CutJoins DEF o
  <2>9. ahead(s, q) = cut(a)
    BY <1>3 DEF ahead, a, j
  <2>10. Len(cut(a)) \in Nat
    BY <2>3, CutIs
  <2>11. b \o t \in Text
    BY <2>4, JoinText
  <2>12. QED  BY <2>7, <2>8, <2>9, <2>10, <2>11 DEF b
<1>4. QED  BY <1>2, <1>3

(***************************************************************************)
(* What becomes of a group.                                                *)
(***************************************************************************)

(* What may stand in front of a name. *)
InFront(p) ==
  /\ p \in Text /\ Len(p) >= 1 /\ p[1] # Space
  /\ ~Has(p, Open) /\ ~Has(p, Close) /\ ~Has(p, Semicolon) /\ ~Has(p, Equal)

prefix == pre_delim \o <<".">>

(* The first part of g is an assignment, the others are those of c. *)
BeginsWith(g, n, v, c) ==
  /\ Len(g) = Len(c) + 1 /\ IsAsg(g[1], n, v)
  /\ \A i \in 1 .. Len(c) : g[i + 1] = c[i]

LEMMA PrefixedCut ==
  ASSUME NEW e \in Text, NEW n, NEW v, IsAsg(e, n, v), InFront(prefix), pre_delim \in Text,
         NEW t \in Text
  PROVE  BeginsWith(cut(prefixed(e) \o t), prefix \o n, v, cut(t))
<1> DEFINE u == strtrim(e)
           w == prefix \o u
           o == <<Semicolon>>
<1>1. IsAsg(w, prefix \o n, v)
  BY AsgPrefixed DEF InFront
<1>2. w \in Text /\ ~Has(w, Semicolon)
  BY <1>1 DEF IsAsg
<1>3. o \in Text
  BY Characters, OneChar
<1>4. prefixed(e) = w \o o
  BY DEF prefixed, prefix
<1> HIDE DEF w, o
<1>5. prefixed(e) \o t = w \o (o \o t)
  BY <1>2, <1>3, <1>4, JoinAssoc
<1>6. IsAfter(cut(w \o (o \o t)), cut(w), cut(t))
  BY <1>2, CutJoins DEF o
<1>7. Len(cut(w)) = 1 /\ cut(w)[1] = w
  BY <1>2, CutNone
<1>8. Len(cut(t)) \in Nat
  BY CutIs
<1> DEFINE g == cut(w \o (o \o t))
           c == cut(t)
           a == cut(w)
<1>9. IsAfter(g, a, c) /\ Len(a) = 1 /\ a[1] = w /\ Len(c) \in Nat
  BY <1>6, <1>7, <1>8
<1> HIDE DEF g, c, a
<1>10. Len(g) = Len(c) + 1 /\ g[1] = w
  BY <1>9 DEF IsAfter
<1>11. ASSUME NEW i \in 1 .. Len(c) PROVE g[i + 1] = c[i]
  <2>1. g[Len(a) + i] = c[i]
    BY <1>9 DEF IsAfter
  <2>2. Len(a) + i = i + 1
    BY <1>9
  <2>3. QED  BY <2>1, <2>2
<1>12. BeginsWith(g, prefix \o n, v, c)
  <2>1. IsAsg(g[1], prefix \o n, v)
    BY <1>1, <1>10
  <2>2. QED  BY <1>10, <1>11, <2>1 DEF BeginsWith
<1>13. QED  BY <1>5, <1>12 DEF g, c

(* The first k parts of g are assignments, the others are those of c. *)
Begin(g, k, name, val, c) ==
  /\ Len(g) = k + Len(c)
  /\ \A i \in 1 .. k : IsAsg(g[i], prefix \o name[i], val[i])
  /\ \A i \in 1 .. Len(c) : g[k + i] = c[i]

LEMMA OneMore ==
  ASSUME NEW k \in Nat, k >= 1, NEW g, NEW name, NEW val, NEW b, NEW c, Len(c) \in Nat,
         Begin(g, k - 1, name, val, b), BeginsWith(b, prefix \o name[k], val[k], c)
  PROVE  Begin(g, k, name, val, c)
<1> DEFINE j == k - 1
<1>1. j \in Nat /\ j + 1 = k
  OBVIOUS
<1>2. Begin(g, j, name, val, b)
  OBVIOUS
<1> HIDE DEF j
<1>3. /\ Len(g) = j + Len(b)
      /\ \A i \in 1 .. j : IsAsg(g[i], prefix \o name[i], val[i])
      /\ \A i \in 1 .. Len(b) : g[j + i] = b[i]
  BY <1>2 DEF Begin
<1>4. /\ Len(b) = Len(c) + 1 /\ IsAsg(b[1], prefix \o name[k], val[k])
      /\ \A i \in 1 .. Len(c) : b[i + 1] = c[i]
  BY DEF BeginsWith
<1>5. Len(g) = k + Len(c)
  BY <1>1, <1>3, <1>4
<1>6. g[k] = b[1]
  <2>1. 1 \in 1 .. Len(b)
    BY <1>4
  <2>2. g[j + 1] = b[1]
    BY <1>3, <2>1
  <2>3. QED  BY <1>1, <2>2
<1>7. ASSUME NEW i \in 1 .. k PROVE IsAsg(g[i], prefix \o name[i], val[i])
  <2>1. CASE i = k
    BY <1>4, <1>6, <2>1
  <2>2. CASE i # k
    <3>1. i \in 1 .. j
      BY <1>1, <2>2
    <3>2. QED  BY <1>3, <3>1
  <2>3. QED  BY <2>1, <2>2
<1>8. ASSUME NEW i \in 1 .. Len(c) PROVE g[k + i] = c[i]
  <2> DEFINE m == i + 1
  <2>1. m \in 1 .. Len(b) /\ j + m = k + i
    BY <1>1, <1>4
  <2>2. b[m] = c[i]
    BY <1>4
  <2> HIDE DEF m
  <2>3. g[j + m] = b[m]
    BY <1>3, <2>1
  <2>4. QED  BY <2>1, <2>2, <2>3
<1>9. QED  BY <1>5, <1>7, <1>8 DEF Begin

(* What the expressions of a group become, and what comes after. *)
LEMMA CutExpanded ==
  ASSUME NEW es \in Seq(Text), Len(es) >= 1, pre_delim \in Text, InFront(prefix),
         NEW name, NEW val, \A k \in 1 .. Len(es) - 1 : IsAsg(es[k], name[k], val[k]),
         NEW t \in Text
  PROVE  Begin(cut(expanded(es) \o t), Len(es) - 1, name, val, cut(t))
<1> DEFINE N == Len(es) - 1
           x == expansion(es)
<1>1. N \in Nat /\ \A k \in 1 .. N : es[k] \in Text /\ IsAsg(es[k], name[k], val[k])
  OBVIOUS
<1>2. /\ \A k \in 0 .. N : x[k] \in Text
      /\ x[0] = <<>>
      /\ \A k \in 1 .. N : x[k] = x[k - 1] \o prefixed(es[k])
      /\ expanded(es) = x[N]
  BY ExpansionIs
<1> HIDE DEF N, x
<1> DEFINE Right(k) == \A u \in Text : Begin(cut(x[k] \o u), k, name, val, cut(u))
           P == {k \in 0 .. N : Right(k)}
<1>3. 0 \in P
  <2>1. ASSUME NEW u \in Text PROVE Begin(cut(x[0] \o u), 0, name, val, cut(u))
    <3>1. x[0] \o u = u
      BY <1>2, JoinNothing
    <3>2. Len(cut(u)) \in Nat
      BY CutIs
    <3> DEFINE c == cut(u)
    <3> HIDE DEF c
    <3>3. Len(c) \in Nat
      BY <3>2 DEF c
    <3>4. Begin(c, 0, name, val, c)
      BY <3>3 DEF Begin
    <3>5. QED  BY <3>1, <3>4 DEF c
  <2>2. 0 \in 0 .. N
    BY <1>1
  <2>3. QED  BY <2>1, <2>2
<1>4. ASSUME NEW k \in 1 .. N, k - 1 \in P PROVE k \in P
  <2>1. k \in 0 .. N /\ k \in Nat /\ k >= 1 /\ k - 1 \in 0 .. N
    BY <1>1
  <2>2. Right(k - 1)
    BY <1>4
  <2>3. /\ x[k - 1] \in Text /\ es[k] \in Text /\ prefixed(es[k]) \in Text
        /\ x[k] = x[k - 1] \o prefixed(es[k])
    <3>1. x[k - 1] \in Text /\ es[k] \in Text /\ x[k] = x[k - 1] \o prefixed(es[k])
      BY <1>1, <1>2, <2>1
    <3>2. QED  BY <3>1, PrefixedIs
  <2>4. ASSUME NEW u \in Text PROVE Begin(cut(x[k] \o u), k, name, val, cut(u))
    <3> DEFINE w == prefixed(es[k])
               y == w \o u
    <3>1. y \in Text
      BY <2>3, JoinText
    <3>2. BeginsWith(cut(y), prefix \o name[k], val[k], cut(u))
      <4>1. es[k] \in Text /\ IsAsg(es[k], name[k], val[k])
        BY <1>1
      <4>2. QED  BY <4>1, PrefixedCut
    <3>3. x[k] \o u = x[k - 1] \o y
      <4> DEFINE j == x[k - 1]
      <4>1. j \in Text /\ w \in Text /\ x[k] = j \o w
        BY <2>3
      <4> HIDE DEF j, w
      <4>2. (j \o w) \o u = j \o (w \o u)
        BY <4>1, JoinAssoc
      <4>3. QED  BY <4>1, <4>2 DEF j
    <3> HIDE DEF y, w
    <3>4. Begin(cut(x[k - 1] \o y), k - 1, name, val, cut(y))
      BY <2>2, <3>1
    <3>5. Len(cut(u)) \in Nat
      BY CutIs
    <3> DEFINE g == cut(x[k - 1] \o y)
               b == cut(y)
               c == cut(u)
    <3>6. Begin(g, k - 1, name, val, b) /\ BeginsWith(b, prefix \o name[k], val[k], c) /\ Len(c) \in Nat
      BY <3>2, <3>4, <3>5
    <3> HIDE DEF g, b, c
    <3>7. Begin(g, k, name, val, c)
      BY <2>1, <3>6, OneMore
    <3>8. QED  BY <3>3, <3>7 DEF g, c
  <2>5. QED  BY <2>1, <2>4
<1>5. N \in P
  <2> HIDE DEF P
  <2>1. 0 .. N \subseteq P
    BY <1>1, <1>3, <1>4, Induct
  <2>2. QED  BY <1>1, <2>1
<1>6. Begin(cut(x[N] \o t), N, name, val, cut(t))
  BY <1>5
<1>7. QED  BY <1>2, <1>6 DEF N

(* The brackets that begin a group: the last opening one of a statement is *)
(* the only one.                                                           *)
LEMMA OpenAt ==
  ASSUME NEW h \in Text, Len(h) >= 1, h[Len(h)] = Open, NEW w \in Text, ~Has(w, Open),
         NEW g, NEW n, NEW v, Opening(h \o w, g, n, v)
  PROVE  /\ strtrim(upto(h, Len(h) - 1)) = g /\ g # <<>>
         /\ ~Has(upto(h, Len(h) - 1), Open) /\ ~Has(upto(h, Len(h) - 1), Close)
         /\ ~Has(upto(h, Len(h) - 1), Equal)
         /\ IsAsg(w, n, v)
<1> DEFINE u == h \o w
           H == Len(h)
<1>1. /\ u \in Text /\ Len(u) = H + Len(w) /\ H \in Nat /\ Len(w) \in Nat
      /\ \A k \in 1 .. H : u[k] = h[k]
      /\ \A k \in 1 .. Len(w) : u[H + k] = w[k]
  BY JoinText, TextIs
<1>2. PICK k \in 1 .. Len(u) :
        /\ u[k] = Open
        /\ ~Has(upto(u, k - 1), Open) /\ ~Has(upto(u, k - 1), Close) /\ ~Has(upto(u, k - 1), Equal)
        /\ strtrim(upto(u, k - 1)) = g /\ g # <<>>
        /\ IsAsg(from(u, k + 1), n, v)
  BY DEF Opening
<1>3. H >= 1 /\ h[H] = Open
  OBVIOUS
<1> HIDE DEF u, H
<1>4. k \in Int
  BY <1>1
<1>5. k <= H
  <2>1. SUFFICES ASSUME k > H PROVE FALSE
    BY <1>1, <1>4
  <2> DEFINE i == k - H
  <2>2. i \in 1 .. Len(w) /\ H + i = k
    BY <1>1, <1>4, <2>1
  <2> HIDE DEF i
  <2>3. w[i] = Open
    BY <1>1, <1>2, <2>2
  <2>4. QED  BY <2>2, <2>3 DEF Has
<1>6. k = H
  <2>1. SUFFICES ASSUME k < H PROVE FALSE
    BY <1>1, <1>4, <1>5
  <2> DEFINE x == from(u, k + 1)
             i == H - k
  <2>2. k \in 0 .. Len(u)
    BY <1>1, <1>4, <1>2
  <2>3. Len(x) = Len(u) - k /\ \A j \in 1 .. Len(u) - k : x[j] = u[k + j]
    BY <1>1, <2>2, TextJoins
  <2>4. ~Has(x, Open)
    BY <1>2 DEF IsAsg
  <2> HIDE DEF x
  <2>5. i \in 1 .. Len(u) - k /\ k + i = H /\ H \in 1 .. H
    BY <1>1, <1>3, <1>4, <2>1
  <2> HIDE DEF i
  <2>6. x[i] = Open /\ i \in 1 .. Len(x)
    BY <1>1, <1>3, <2>3, <2>5
  <2>7. QED  BY <2>4, <2>6 DEF Has
<1>7. upto(u, k - 1) = upto(h, H - 1)
  <2> DEFINE j == H - 1
             x == upto(u, j)
             y == upto(h, j)
  <2>1. j \in 0 .. Len(u) /\ j \in 0 .. Len(h) /\ j <= H
    BY <1>1, <1>3 DEF H
  <2> HIDE DEF j
  <2>2. x \in Text /\ Len(x) = j /\ \A i \in 1 .. j : x[i] = u[i]
    BY <1>1, <2>1, TextJoins
  <2>3. y \in Text /\ Len(y) = j /\ \A i \in 1 .. j : y[i] = h[i]
    BY <2>1, TextJoins
  <2> HIDE DEF x, y
  <2>4. ASSUME NEW i \in 1 .. Len(x) PROVE x[i] = y[i]
    <3>1. i \in 1 .. j /\ i \in 1 .. H
      BY <1>1, <2>1, <2>2
    <3>2. QED  BY <1>1, <2>2, <2>3, <3>1
  <2>5. x = y
    BY <2>2, <2>3, <2>4, SameText
  <2>6. QED  BY <1>6, <2>5 DEF x, y, j
<1>8. from(u, k + 1) = w
  <2> DEFINE x == from(u, H + 1)
  <2>1. H \in 0 .. Len(u)
    BY <1>1
  <2>2. x \in Text /\ Len(x) = Len(u) - H /\ \A i \in 1 .. Len(u) - H : x[i] = u[H + i]
    BY <1>1, <2>1, TextJoins
  <2> HIDE DEF x
  <2>3. Len(x) = Len(w) /\ \A i \in 1 .. Len(x) : x[i] = w[i]
    BY <1>1, <2>2
  <2>4. x = w
    BY <2>2, <2>3, SameText
  <2>5. QED  BY <1>6, <2>4 DEF x
<1>9. QED  BY <1>2, <1>7, <1>8 DEF H

(* The parts of a text at an opening bracket, which is at p; the last      *)
(* semicolon before it is at q.                                            *)
AtOpen(c, h, r, L, a) ==
  /\ Len(c) = L + Len(r)
  /\ \A i \in 1 .. L : c[i] = a[i]
  /\ c[L + 1] = h \o r[1]
  /\ \A i \in 2 .. Len(r) : c[L + i] = r[i]

LEMMA CutAtOpen ==
  ASSUME NEW b \in Text, NEW p \in 1 .. Len(b), NEW q \in 0 .. p - 1,
         q # 0 => b[q] = Semicolon, \A k \in q + 1 .. p : b[k] # Semicolon
  PROVE  AtOpen(cut(b), SubSeq(b, q + 1, p), cut(from(b, p + 1)), Len(ahead(b, q)), ahead(b, q))
<1> DEFINE d == from(b, q + 1)
           h == SubSeq(b, q + 1, p)
           R == from(b, p + 1)
<1>1. Len(b) \in Nat /\ p \in Int /\ q \in Int /\ 0 <= q /\ q < p /\ p <= Len(b)
  BY TextIs
<1>2. q \in 0 .. Len(b) /\ p \in 0 .. Len(b)
  BY <1>1
<1>3. /\ d \in Text /\ Len(d) = Len(b) - q /\ \A k \in 1 .. Len(b) - q : d[k] = b[q + k]
      /\ b = upto(b, q) \o d
  BY <1>2, TextJoins
<1>4. R \in Text /\ Len(R) = Len(b) - p /\ \A k \in 1 .. Len(b) - p : R[k] = b[p + k]
  BY <1>2, TextJoins
<1>5. /\ h \in Text /\ Len(h) = IF q + 1 <= p THEN p - (q + 1) + 1 ELSE 0
      /\ \A k \in 1 .. Len(h) : h[k] = b[k + (q + 1) - 1]
  <2>1. q + 1 \in Int /\ 1 <= q + 1
    BY <1>1
  <2>2. QED  BY <1>1, <2>1, SubText
<1> HIDE DEF d, h, R
<1>6. Len(h) = p - q
  BY <1>1, <1>5
<1>7. ~Has(h, Semicolon)
  <2>1. ASSUME NEW k \in 1 .. Len(h) PROVE h[k] # Semicolon
    <3>1. h[k] = b[k + (q + 1) - 1]
      BY <1>5
    <3>2. k + (q + 1) - 1 \in q + 1 .. p
      BY <1>1, <1>6
    <3>3. QED  BY <3>1, <3>2
  <2>2. QED  BY <2>1 DEF Has
<1>8. d = h \o R
  <2> DEFINE g == h \o R
  <2>1. /\ g \in Text /\ Len(g) = Len(h) + Len(R)
        /\ \A k \in 1 .. Len(h) : g[k] = h[k]
        /\ \A k \in 1 .. Len(R) : g[Len(h) + k] = R[k]
    BY <1>4, <1>5, JoinText
  <2> HIDE DEF g
  <2>2. Len(d) = Len(g)
    BY <1>1, <1>3, <1>4, <1>6, <2>1
  <2>3. ASSUME NEW k \in 1 .. Len(d) PROVE d[k] = g[k]
    <3>1. d[k] = b[q + k] /\ k \in Int /\ 1 <= k /\ k <= Len(b) - q
      BY <1>1, <1>3
    <3>2. CASE k <= p - q
      <4>1. k \in 1 .. Len(h) /\ k + (q + 1) - 1 = q + k
        BY <1>1, <1>6, <3>1, <3>2
      <4>2. h[k] = b[k + (q + 1) - 1] /\ g[k] = h[k]
        BY <1>5, <2>1, <4>1
      <4>3. QED  BY <3>1, <4>1, <4>2
    <3>3. CASE ~(k <= p - q)
      <4> DEFINE i == k - (p - q)
      <4>1. i \in 1 .. Len(R) /\ i \in 1 .. Len(b) - p /\ Len(h) + i = k /\ p + i = q + k
        BY <1>1, <1>4, <1>6, <3>1, <3>3
      <4> HIDE DEF i
      <4>2. g[Len(h) + i] = R[i] /\ R[i] = b[p + i]
        BY <1>4, <2>1, <4>1
      <4>3. QED  BY <3>1, <4>1, <4>2
    <3>4. QED  BY <3>2, <3>3
  <2>4. d = g
    BY <1>3, <2>1, <2>2, <2>3, SameText
  <2>5. QED  BY <2>4 DEF g
<1>9. Len(ahead(b, q)) \in Nat /\ IsAfter(cut(b), ahead(b, q), cut(d))
  BY <1>2, <1>3, CutAfter
<1>10. IsGlued(cut(d), cut(h), cut(R))
  BY <1>4, <1>5, <1>8, GlueIs
<1>11. Len(cut(h)) = 1 /\ cut(h)[1] = h
  BY <1>5, <1>7, CutNone
<1>12. Len(cut(R)) \in Nat /\ Len(cut(R)) >= 1
  BY <1>4, CutIs
<1> DEFINE c == cut(b)
           a == ahead(b, q)
           e == cut(d)
           f == cut(h)
           r == cut(R)
           L == Len(a)
<1>13. /\ L \in Nat /\ IsAfter(c, a, e) /\ IsGlued(e, f, r)
       /\ Len(f) = 1 /\ f[1] = h /\ Len(r) \in Nat /\ Len(r) >= 1
  BY <1>9, <1>10, <1>11, <1>12
<1> HIDE DEF c, a, e, f, r
<1>14. /\ Len(e) = Len(r) /\ e[1] = h \o r[1]
       /\ \A i \in 2 .. Len(r) : e[i] = r[i]
  <2>1. /\ Len(e) = Len(f) + Len(r) - 1
        /\ e[Len(f)] = f[Len(f)] \o r[1]
        /\ \A i \in 2 .. Len(r) : e[Len(f) + i - 1] = r[i]
    BY <1>13 DEF IsGlued
  <2>2. ASSUME NEW i \in 2 .. Len(r) PROVE e[i] = r[i]
    <3>1. Len(f) + i - 1 = i
      BY <1>13
    <3>2. QED  BY <2>1, <3>1
  <2>3. Len(e) = Len(r)
    BY <1>13, <2>1
  <2>4. QED  BY <1>13, <2>1, <2>2, <2>3
<1>15. /\ Len(c) = L + Len(e)
       /\ \A i \in 1 .. L : c[i] = a[i]
       /\ \A i \in 1 .. Len(e) : c[L + i] = e[i]
  BY <1>13 DEF IsAfter
<1>16. c[L + 1] = h \o r[1]
  <2>1. 1 \in 1 .. Len(e)
    BY <1>13, <1>14
  <2>2. QED  BY <1>14, <1>15, <2>1
<1>17. ASSUME NEW i \in 2 .. Len(r) PROVE c[L + i] = r[i]
  <2>1. i \in 1 .. Len(e)
    BY <1>13, <1>14
  <2>2. QED  BY <1>14, <1>15, <2>1
<1>18. AtOpen(c, h, r, L, a)
  BY <1>14, <1>15, <1>16, <1>17 DEF AtOpen
<1>19. QED  BY <1>18 DEF c, h, r, a, R

(* The last opening bracket of b is at p, the last semicolon before it at  *)
(* q.                                                                      *)
IsOpen(b, p, q) ==
  /\ b \in Text /\ p \in 1 .. Len(b) /\ b[p] = Open
  /\ \A k \in p + 1 .. Len(b) : b[k] # Open
  /\ q \in 0 .. p - 1 /\ (q # 0 => b[q] = Semicolon)
  /\ \A k \in q + 1 .. p : b[k] # Semicolon

(* What is said by the statement that the bracket is in, the one after the *)
(* first L, and by those after it.                                         *)
Begun(b, p, q, m, turn, group, name, val) ==
  LET L == Len(ahead(b, q))
      w == SubSeq(b, q + 1, p - 1)
  IN  /\ L \in Nat /\ L + 1 <= m
      /\ turn[L + 1] = 1
      /\ group[L + 1] = strtrim(w) /\ strtrim(w) # <<>>
      /\ ~Has(w, Open) /\ ~Has(w, Close) /\ ~Has(w, Equal)
      /\ IsAsg(cut(from(b, p + 1))[1], name[L + 1], val[L + 1])
      /\ \A i \in L + 2 .. m : turn[i] \in {-1, 0}

LEMMA GroupBegun ==
  ASSUME NEW b, NEW p, NEW q, IsOpen(b, p, q),
         NEW m, NEW turn, NEW group, NEW name, NEW val, NEW around,
         Block(b, m, turn, group, name, val, around)
  PROVE  Begun(b, p, q, m, turn, group, name, val)
<1> DEFINE c == cut(b)
           h == SubSeq(b, q + 1, p)
           R == from(b, p + 1)
           r == cut(R)
           a == ahead(b, q)
           L == Len(a)
           w == SubSeq(b, q + 1, p - 1)
<1>1. /\ b \in Text /\ p \in 1 .. Len(b) /\ b[p] = Open
      /\ \A k \in p + 1 .. Len(b) : b[k] # Open
      /\ q \in 0 .. p - 1 /\ (q # 0 => b[q] = Semicolon)
      /\ \A k \in q + 1 .. p : b[k] # Semicolon
  BY DEF IsOpen
<1>2. /\ m \in Nat /\ Len(c) = m + 1 /\ c[m + 1] = <<>>
      /\ \A i \in 1 .. m : Says(c[i], turn[i], group[i], name[i], val[i])
  BY DEF Block
<1>3. Len(b) \in Nat /\ p \in Int /\ q \in Int /\ 0 <= q /\ q < p /\ p <= Len(b)
  BY <1>1, TextIs
<1>4. AtOpen(c, h, r, L, a)
  BY <1>1, CutAtOpen
<1>5. L \in Nat
  <2>1. q \in 0 .. Len(b)
    BY <1>3
  <2>2. <<>> \in Text
    BY NoText
  <2>3. QED  BY <1>1, <2>1, <2>2, CutAfter
<1>6. /\ h \in Text /\ Len(h) = p - q /\ h[Len(h)] = Open /\ Len(h) >= 1
      /\ upto(h, Len(h) - 1) = w
  <2> DEFINE i == q + 1
  <2>1. i \in 1 .. Len(b) /\ p \in i .. Len(b) /\ i \in Int /\ 1 <= i /\ i <= p
    BY <1>3
  <2>2. /\ h \in Text /\ Len(h) = IF i <= p THEN p - i + 1 ELSE 0
        /\ \A k \in 1 .. Len(h) : h[k] = b[k + i - 1]
    BY <1>1, <1>3, <2>1, SubText
  <2>3. Len(h) = p - q
    BY <1>3, <2>1, <2>2
  <2>4. h[Len(h)] = Open
    <3>1. Len(h) \in 1 .. Len(h) /\ Len(h) + i - 1 = p
      BY <1>3, <2>3
    <3>2. h[Len(h)] = b[Len(h) + i - 1]
      BY <2>2, <3>1
    <3>3. QED  BY <1>1, <3>1, <3>2
  <2>5. SubSeq(SubSeq(b, i, p), 1, p - q - 1) = SubSeq(b, i + 1 - 1, i + (p - q - 1) - 1)
    <3> DEFINE e == p - q - 1
    <3>1. 1 \in 1 .. p - i + 1 /\ e \in Int /\ e <= p - i + 1
      BY <1>3
    <3> HIDE DEF e, i
    <3>2. SubSeq(SubSeq(b, i, p), 1, e) = SubSeq(b, i + 1 - 1, i + e - 1)
      BY <1>1, <2>1, <3>1, SubSub
    <3>3. QED  BY <3>2 DEF e
  <2>6. i + 1 - 1 = q + 1 /\ i + (p - q - 1) - 1 = p - 1
    BY <1>3
  <2>7. upto(h, Len(h) - 1) = w
    BY <2>3, <2>5, <2>6 DEF upto
  <2>8. QED  BY <1>3, <2>2, <2>3, <2>4, <2>7
<1>7. R \in Text /\ Len(R) = Len(b) - p /\ \A k \in 1 .. Len(b) - p : R[k] = b[p + k]
  <2>1. p \in 0 .. Len(b)
    BY <1>3
  <2>2. QED  BY <1>1, <2>1, TextJoins
<1>8. ~Has(R, Open)
  <2> HIDE DEF R
  <2>1. ASSUME NEW k \in 1 .. Len(R) PROVE R[k] # Open
    <3>1. R[k] = b[p + k] /\ p + k \in p + 1 .. Len(b)
      BY <1>3, <1>7
    <3>2. QED  BY <1>1, <3>1
  <2>2. QED  BY <2>1 DEF Has
<1>9. ~InPart(r, Open)
  BY <1>7, <1>8, Characters, PartsHave
<1>10. Len(r) \in Nat /\ Len(r) >= 1 /\ \A i \in 1 .. Len(r) : r[i] \in Text
  BY <1>7, CutIs
<1>11. \A i \in 1 .. Len(c) : c[i] \in Text
  BY <1>1, CutIs
<1> HIDE DEF c, h, R, r, a, L, w
<1>12. ASSUME NEW i \in 1 .. Len(r) PROVE ~Has(r[i], Open)
  BY <1>9 DEF InPart
<1>13. /\ Len(c) = L + Len(r)
       /\ c[L + 1] = h \o r[1]
       /\ \A i \in 2 .. Len(r) : c[L + i] = r[i]
  BY <1>4 DEF AtOpen
<1>14. r[1] \in Text /\ ~Has(r[1], Open)
  <2>1. 1 \in 1 .. Len(r)
    BY <1>10
  <2>2. QED  BY <1>10, <1>12, <2>1
<1>15. Has(c[L + 1], Open) /\ c[L + 1] \in Text
  <2> DEFINE u == h \o r[1]
             H == Len(h)
  <2>1. u \in Text /\ Len(u) = H + Len(r[1]) /\ \A k \in 1 .. H : u[k] = h[k]
    BY <1>6, <1>14, JoinText
  <2>2. H \in Nat /\ H >= 1 /\ Len(r[1]) \in Nat /\ h[H] = Open
    BY <1>6, <1>14, TextIs
  <2> HIDE DEF u, H
  <2>3. H \in 1 .. H /\ H \in 1 .. Len(u)
    BY <2>1, <2>2
  <2>4. u[H] = Open
    BY <2>1, <2>2, <2>3
  <2>5. Has(u, Open)
    BY <2>3, <2>4 DEF Has
  <2>6. QED  BY <1>13, <2>1, <2>5 DEF u
<1>16. L + 1 <= m
  <2>1. L + 1 <= m + 1
    BY <1>2, <1>5, <1>10, <1>13
  <2>2. ~Has(<<>>, Open)
    BY DEF Has
  <2>3. L + 1 # m + 1
    BY <1>2, <1>15, <2>2
  <2>4. QED  BY <1>2, <1>5, <2>1, <2>3
<1> DEFINE s == L + 1
<1>17. s \in 1 .. m
  BY <1>2, <1>5, <1>16
<1> HIDE DEF s
<1>18. Says(c[s], turn[s], group[s], name[s], val[s])
  BY <1>2, <1>17
<1>19. turn[s] = 1 /\ Opening(c[s], group[s], name[s], val[s])
  <2>1. c[s] \in Text /\ Has(c[s], Open)
    BY <1>15 DEF s
  <2>2. QED  BY <1>18, <2>1, SaysHas
<1>20. Opening(h \o r[1], group[s], name[s], val[s])
  BY <1>13, <1>19 DEF s
<1>21. /\ strtrim(upto(h, Len(h) - 1)) = group[s] /\ group[s] # <<>>
       /\ ~Has(upto(h, Len(h) - 1), Open) /\ ~Has(upto(h, Len(h) - 1), Close)
       /\ ~Has(upto(h, Len(h) - 1), Equal)
       /\ IsAsg(r[1], name[s], val[s])
  BY <1>6, <1>14, <1>20, OpenAt
<1>22. ASSUME NEW i \in L + 2 .. m PROVE turn[i] \in {-1, 0}
  <2> DEFINE k == i - L
  <2>1. i \in 1 .. m /\ i \in 1 .. Len(c) /\ k \in 2 .. Len(r) /\ k \in 1 .. Len(r) /\ L + k = i
    BY <1>2, <1>5, <1>10, <1>13
  <2> HIDE DEF k
  <2>2. c[i] = r[k] /\ c[i] \in Text /\ ~Has(c[i], Open)
    BY <1>11, <1>12, <1>13, <2>1
  <2>3. Says(c[i], turn[i], group[i], name[i], val[i])
    BY <1>2, <2>1
  <2>4. QED  BY <2>2, <2>3, SaysHas
<1>23. /\ L \in Nat /\ L + 1 <= m
       /\ turn[L + 1] = 1
       /\ group[L + 1] = strtrim(w) /\ strtrim(w) # <<>>
       /\ ~Has(w, Open) /\ ~Has(w, Close) /\ ~Has(w, Equal)
       /\ IsAsg(r[1], name[L + 1], val[L + 1])
  BY <1>5, <1>6, <1>16, <1>19, <1>21 DEF s
<1>24. QED  BY <1>22, <1>23 DEF Begun, L, a, w, r, R

(* The group is closed. *)
LEMMA GroupCloses ==
  ASSUME NEW b, NEW p, NEW q, IsOpen(b, p, q),
         NEW m, NEW turn, NEW group, NEW name, NEW val, NEW around,
         Block(b, m, turn, group, name, val, around)
  PROVE  Has(from(b, p + 1), Close)
<1> DEFINE c == cut(b)
           h == SubSeq(b, q + 1, p)
           R == from(b, p + 1)
           r == cut(R)
           a == ahead(b, q)
           L == Len(a)
<1>1. /\ b \in Text /\ p \in 1 .. Len(b)
      /\ q \in 0 .. p - 1 /\ (q # 0 => b[q] = Semicolon)
      /\ \A k \in q + 1 .. p : b[k] # Semicolon
  BY DEF IsOpen
<1>2. /\ m \in Nat /\ Len(c) = m + 1
      /\ around[m] = << <<>> >>
      /\ \A i \in 0 .. m : around[i] \in SomeParts
      /\ \A i \in 1 .. m : /\ Says(c[i], turn[i], group[i], name[i], val[i])
                           /\ Nests(around[i - 1], around[i], turn[i], group[i])
  BY DEF Block
<1>3. AtOpen(c, h, r, L, a)
  BY <1>1, CutAtOpen
<1>4. L \in Nat /\ L + 1 <= m /\ turn[L + 1] = 1 /\ \A i \in L + 2 .. m : turn[i] \in {-1, 0}
  BY GroupBegun DEF Begun
<1>5. R \in Text
  <2>1. p \in 0 .. Len(b)
    BY <1>1, TextIs
  <2>2. QED  BY <1>1, <2>1, TextJoins
<1>6. Len(r) \in Nat /\ Len(r) >= 1
  BY <1>5, CutIs
<1>7. \A i \in 1 .. Len(c) : c[i] \in Text
  BY <1>1, CutIs
<1>8. InPart(r, Close) <=> Has(R, Close)
  BY <1>5, Characters, PartsHave
<1> HIDE DEF c, h, R, r, a, L
<1>9. Len(c) = L + Len(r) /\ \A i \in 2 .. Len(r) : c[L + i] = r[i]
  BY <1>3 DEF AtOpen
<1>10. SUFFICES ASSUME ~Has(R, Close) PROVE FALSE
  BY DEF R
<1>11. ASSUME NEW i \in L + 2 .. m PROVE around[i] = around[i - 1]
  <2> DEFINE k == i - L
  <2>1. i \in 1 .. m /\ i \in 1 .. Len(c) /\ k \in 2 .. Len(r) /\ k \in 1 .. Len(r) /\ L + k = i
    BY <1>2, <1>4, <1>6, <1>9
  <2> HIDE DEF k
  <2>2. c[i] = r[k] /\ c[i] \in Text /\ ~Has(c[i], Close)
    BY <1>7, <1>8, <1>9, <1>10, <2>1 DEF InPart
  <2>3. Says(c[i], turn[i], group[i], name[i], val[i]) /\ Nests(around[i - 1], around[i], turn[i], group[i])
    BY <1>2, <2>1
  <2>4. turn[i] # -1
    BY <2>2, <2>3, SaysHas
  <2>5. turn[i] = 0
    BY <1>4, <2>4
  <2>6. QED  BY <2>3, <2>5 DEF Nests
<1> DEFINE s == L + 1
           N == m - s
           x == around[s]
           P == {j \in 0 .. N : around[s + j] = x}
<1>12. s \in Nat /\ N \in Nat /\ s + N = m /\ s \in 1 .. m /\ s - 1 \in 0 .. m /\ s \in 0 .. m
  BY <1>2, <1>4
<1>13. Len(x) >= 2
  <2> DEFINE y == around[s - 1]
  <2>1. y \in SomeParts /\ Nests(y, x, turn[s], group[s])
    BY <1>2, <1>12
  <2>2. turn[s] = 1
    BY <1>4
  <2> HIDE DEF x, y
  <2>a. turn[s] # 0 /\ turn[s] # -1
    BY <2>2
  <2>3. x = Append(y, Last(y) \o (group[s] \o <<".">>))
    BY <2>1, <2>a, Zenon DEF Nests
  <2> DEFINE z == Last(y) \o (group[s] \o <<".">>)
  <2> HIDE DEF z
  <2>4. x = Append(y, z)
    BY <2>3 DEF z
  <2>5. Len(y) \in Nat /\ Len(y) >= 1 /\ y \in Seq(Text)
    BY <2>1 DEF SomeParts
  <2>6. Len(x) = Len(y) + 1
    BY <2>4, <2>5
  <2>7. QED  BY <2>5, <2>6
<1> HIDE DEF s, N, x
<1>14. N \in P
  <2>1. 0 \in P
    BY <1>12 DEF x
  <2>2. ASSUME NEW j \in 1 .. N, j - 1 \in P PROVE j \in P
    <3> DEFINE i == s + j
    <3>1. i \in L + 2 .. m /\ i - 1 = s + (j - 1) /\ j \in 0 .. N
      BY <1>2, <1>4, <1>12 DEF s
    <3> HIDE DEF i
    <3>2. around[i] = around[s + (j - 1)]
      BY <1>11, <3>1
    <3>3. around[s + (j - 1)] = x
      BY <2>2
    <3>4. QED  BY <3>1, <3>2, <3>3 DEF i
  <2> HIDE DEF P
  <2>3. 0 .. N \subseteq P
    BY <1>12, <2>1, <2>2, Induct
  <2>4. QED  BY <1>12, <2>3
<1>15. around[m] = x
  BY <1>12, <1>14
<1>16. Len(around[m]) = 1
  <2> DEFINE e == <<>>
  <2>1. around[m] = <<e>> /\ Len(<<e>>) = 1
    BY <1>2
  <2> HIDE DEF e
  <2>2. QED  BY <2>1
<1>17. QED  BY <1>13, <1>15, <1>16

(* Brackets with none in between. *)
LEMMA OpenedPair ==
  ASSUME NEW s \in Text, Len(s) >= 2, s[1] = Open, s[Len(s)] = Close,
         \A k \in 2 .. Len(s) - 1 : s[k] # Open /\ s[k] # Close
  PROVE  opened(s) = 0
<1> DEFINE g == counted(s)
           N == Len(s) - 1
<1>1. N \in Nat /\ N >= 1 /\ Len(s) = N + 1
  BY TextIs
<1>2. /\ g[0] = 0 /\ opened(s) = g[Len(s)]
      /\ \A k \in 1 .. Len(s) : g[k] = g[k - 1] + weight(s[k])
  BY CountedIs
<1> HIDE DEF g, N
<1>3. weight(s[1]) = 1 /\ weight(s[Len(s)]) = -1
  BY Characters DEF weight
<1>4. \A k \in 2 .. N : weight(s[k]) = 0
  <2>1. ASSUME NEW k \in 2 .. N PROVE weight(s[k]) = 0
    <3>1. k \in 2 .. Len(s) - 1
      BY <1>1
    <3>2. QED  BY <3>1 DEF weight
  <2>2. QED  BY <2>1
<1> DEFINE P == {k \in 0 .. N : k >= 1 => g[k] = 1}
<1>5. 0 \in P
  BY <1>1
<1>6. ASSUME NEW k \in 1 .. N, k - 1 \in P PROVE k \in P
  <2>1. k \in 0 .. N /\ k \in 1 .. Len(s) /\ k \in Int
    BY <1>1
  <2>2. g[k] = g[k - 1] + weight(s[k])
    BY <1>2, <2>1
  <2>3. CASE k = 1
    <3>1. k - 1 = 0 /\ s[k] = s[1]
      BY <2>3
    <3>2. g[k] = 0 + 1
      BY <1>2, <1>3, <2>2, <3>1
    <3>3. QED  BY <2>1, <3>2
  <2>4. CASE k # 1
    <3>1. k \in 2 .. N /\ k - 1 >= 1
      BY <1>1, <2>4
    <3>2. g[k - 1] = 1
      BY <1>6, <3>1
    <3>3. g[k] = 1
      BY <1>4, <2>2, <3>1, <3>2
    <3>4. QED  BY <2>1, <3>3
  <2>5. QED  BY <2>3, <2>4
<1>7. N \in P
  <2> HIDE DEF P
  <2>1. 0 .. N \subseteq P
    BY <1>1, <1>5, <1>6, Induct
  <2>2. QED  BY <1>1, <2>1
<1>8. g[N] = 1
  BY <1>1, <1>7
<1>9. g[Len(s)] = 0
  <2>1. Len(s) \in 1 .. Len(s) /\ Len(s) - 1 = N
    BY <1>1
  <2>2. g[Len(s)] = g[N] + weight(s[Len(s)])
    BY <1>2, <2>1
  <2>3. QED  BY <1>3, <1>8, <2>2
<1>10. QED  BY <1>2, <1>9

(* The last group is closed by the next closing bracket. *)
LEMMA ClosesNext ==
  ASSUME buff \in Text, pos_1 \in 1 .. Len(buff), buff[pos_1] = Open,
         \A k \in pos_1 + 1 .. Len(buff) : buff[k] # Open,
         Has(from(buff, pos_1 + 1), Close)
  PROVE  /\ pos_2 \in pos_1 + 1 .. Len(buff) /\ buff[pos_2] = Close
         /\ \A k \in pos_1 + 1 .. pos_2 - 1 : buff[k] # Close
<1> DEFINE S  == {k \in pos_1 + 1 .. Len(buff) : buff[k] = Close}
           Ks == {k \in pos_1 + 1 .. Len(buff) :
                    buff[k] = Close /\ opened(SubSeq(buff, pos_1, k)) = 0}
           First1(k) == \A j \in Ks : k <= j
           R == from(buff, pos_1 + 1)
<1>1. Len(buff) \in Nat /\ pos_1 \in Nat /\ pos_1 >= 1 /\ pos_1 <= Len(buff) /\ pos_1 \in 0 .. Len(buff)
  BY TextIs
<1>2. Len(R) = Len(buff) - pos_1 /\ \A k \in 1 .. Len(buff) - pos_1 : R[k] = buff[pos_1 + k]
  BY <1>1, TextJoins
<1>3. PICK i \in 1 .. Len(R) : R[i] = Close
  BY DEF Has
<1>4. pos_1 + i \in S
  <2> HIDE DEF R
  <2>1. pos_1 + i \in pos_1 + 1 .. Len(buff) /\ buff[pos_1 + i] = Close
    BY <1>1, <1>2, <1>3
  <2>2. QED  BY <2>1
<1>5. S \subseteq Nat /\ S # {}
  BY <1>1, <1>4
<1>6. PICK q \in S : \A k \in S : q <= k
  <2> HIDE DEF S
  <2>1. QED  BY <1>5, FirstOf
<1>7. /\ q \in pos_1 + 1 .. Len(buff) /\ buff[q] = Close /\ q \in Int
      /\ \A k \in pos_1 + 1 .. Len(buff) : buff[k] = Close => q <= k
  BY <1>1, <1>6
<1> DEFINE s == SubSeq(buff, pos_1, q)
<1>8. opened(s) = 0
  <2>1. s \in Text /\ Len(s) = IF pos_1 <= q THEN q - pos_1 + 1 ELSE 0
    BY <1>1, <1>7, SubText
  <2>2. \A k \in 1 .. Len(s) : s[k] = buff[k + pos_1 - 1]
    BY <1>1, <1>7, SubText
  <2> HIDE DEF s
  <2>3. Len(s) = q - pos_1 + 1 /\ Len(s) >= 2
    BY <1>1, <1>7, <2>1
  <2>4. s[1] = Open
    <3>1. 1 \in 1 .. Len(s) /\ 1 + pos_1 - 1 = pos_1
      BY <1>1, <2>3
    <3>2. s[1] = buff[1 + pos_1 - 1]
      BY <2>2, <3>1
    <3>3. QED  BY <3>1, <3>2
  <2>5. s[Len(s)] = Close
    <3>1. Len(s) \in 1 .. Len(s) /\ Len(s) + pos_1 - 1 = q
      BY <1>1, <1>7, <2>3
    <3>2. s[Len(s)] = buff[Len(s) + pos_1 - 1]
      BY <2>2, <3>1
    <3>3. QED  BY <1>7, <3>1, <3>2
  <2>6. ASSUME NEW k \in 2 .. Len(s) - 1 PROVE s[k] # Open /\ s[k] # Close
    <3>1. k \in 1 .. Len(s) /\ k + pos_1 - 1 \in pos_1 + 1 .. Len(buff) /\ ~(q <= k + pos_1 - 1)
      BY <1>1, <1>7, <2>3
    <3>2. s[k] = buff[k + pos_1 - 1]
      BY <2>2, <3>1
    <3> DEFINE j == k + pos_1 - 1
    <3>3. j \in pos_1 + 1 .. Len(buff) /\ ~(q <= j) /\ s[k] = buff[j]
      BY <3>1, <3>2
    <3> HIDE DEF j
    <3>4. QED  BY <1>7, <3>3
  <2>7. QED  BY <2>1, <2>3, <2>4, <2>5, <2>6, OpenedPair
<1>9. q \in Ks
  BY <1>7, <1>8
<1>10. First1(q) /\ \A k \in Ks : First1(k) => k = q
  <2>1. First1(q)
    BY <1>7
  <2>2. \A k \in Ks : k \in Int
    BY <1>1
  <2> HIDE DEF Ks
  <2>3. QED  BY <1>7, <1>9, <2>1, <2>2
<1>11. pos_2 = IF Ks = {} THEN Len(buff) + 1 ELSE CHOOSE k \in Ks : First1(k)
  BY DEF pos_2
<1>12. pos_2 = q
  <2> HIDE DEF Ks, First1
  <2>1. Ks # {} /\ pos_2 = CHOOSE k \in Ks : First1(k)
    BY <1>9, <1>11
  <2>2. QED  BY <1>9, <1>10, <2>1
<1>13. ASSUME NEW k \in pos_1 + 1 .. q - 1 PROVE buff[k] # Close
  <2>1. k \in pos_1 + 1 .. Len(buff) /\ ~(q <= k)
    BY <1>1, <1>7
  <2>2. QED  BY <1>7, <2>1
<1>14. QED  BY <1>7, <1>12, <1>13

(* The parts of a text at a closing bracket.                               *)
AtClose(r, es, t) ==
  /\ Len(r) = Len(es) + Len(t) - 1
  /\ \A i \in 1 .. Len(es) - 1 : r[i] = es[i]
  /\ r[Len(es)] = es[Len(es)] \o (<<Close>> \o t[1])
  /\ \A i \in 2 .. Len(t) : r[Len(es) + i - 1] = t[i]

LEMMA CutAtClose ==
  ASSUME NEW s \in Text, NEW k \in 1 .. Len(s), s[k] = Close
  PROVE  AtClose(cut(s), cut(upto(s, k - 1)), cut(from(s, k + 1)))
<1> DEFINE a == upto(s, k - 1)
           b == from(s, k + 1)
           o == <<Close>>
           d == o \o b
<1>1. a \in Text /\ b \in Text /\ o \in Text /\ s = a \o d /\ Len(o) = 1 /\ o[1] = Close
  <2>1. a \in Text /\ b \in Text /\ s = a \o (<<s[k]>> \o b)
    BY JoinsAt
  <2>2. o \in Text /\ Len(o) = 1 /\ o[1] = Close
    BY Characters, OneChar
  <2> HIDE DEF a, b
  <2>3. QED  BY <2>1, <2>2
<1>2. d \in Text
  BY <1>1, JoinText
<1> HIDE DEF a, b, d, o
<1>3. IsGlued(cut(s), cut(a), cut(d)) /\ IsGlued(cut(d), cut(o), cut(b))
  <2>1. IsGlued(cut(a \o d), cut(a), cut(d))
    BY <1>1, <1>2, GlueIs
  <2>2. IsGlued(cut(o \o b), cut(o), cut(b))
    BY <1>1, GlueIs
  <2>3. QED  BY <1>1, <2>1, <2>2 DEF d
<1>4. Len(cut(o)) = 1 /\ cut(o)[1] = o
  <2>1. ~Has(o, Semicolon)
    BY <1>1, Characters DEF Has
  <2>2. QED  BY <1>1, <2>1, CutNone
<1>5. Len(cut(a)) \in Nat /\ Len(cut(a)) >= 1 /\ Len(cut(b)) \in Nat /\ Len(cut(b)) >= 1
  BY <1>1, CutIs
<1> DEFINE r == cut(s)
           e == cut(a)
           f == cut(d)
           h == cut(o)
           t == cut(b)
<1>6. /\ IsGlued(r, e, f) /\ IsGlued(f, h, t) /\ Len(h) = 1 /\ h[1] = o
      /\ Len(e) \in Nat /\ Len(e) >= 1 /\ Len(t) \in Nat /\ Len(t) >= 1
  BY <1>3, <1>4, <1>5
<1> HIDE DEF r, e, f, h, t
<1>7. /\ Len(f) = Len(t) /\ f[1] = o \o t[1]
      /\ \A i \in 2 .. Len(t) : f[i] = t[i]
  <2>1. /\ Len(f) = Len(h) + Len(t) - 1
        /\ f[Len(h)] = h[Len(h)] \o t[1]
        /\ \A i \in 2 .. Len(t) : f[Len(h) + i - 1] = t[i]
    BY <1>6 DEF IsGlued
  <2>2. ASSUME NEW i \in 2 .. Len(t) PROVE f[i] = t[i]
    <3>1. Len(h) + i - 1 = i
      BY <1>6
    <3>2. QED  BY <2>1, <3>1
  <2>3. Len(f) = Len(t)
    BY <1>6, <2>1
  <2>4. QED  BY <1>6, <2>1, <2>2, <2>3
<1>8. /\ Len(r) = Len(e) + Len(f) - 1
      /\ \A i \in 1 .. Len(e) - 1 : r[i] = e[i]
      /\ r[Len(e)] = e[Len(e)] \o f[1]
      /\ \A i \in 2 .. Len(f) : r[Len(e) + i - 1] = f[i]
  BY <1>6 DEF IsGlued
<1>9. AtClose(r, e, t)
  <2>1. \A i \in 2 .. Len(t) : r[Len(e) + i - 1] = t[i]
    BY <1>7, <1>8
  <2>2. r[Len(e)] = e[Len(e)] \o (<<Close>> \o t[1])
    BY <1>7, <1>8 DEF o
  <2>3. QED  BY <1>7, <1>8, <2>1, <2>2 DEF AtClose
<1>10. QED  BY <1>9 DEF r, e, t, a, b

Blank(u) == \A k \in 1 .. Len(u) : u[k] = Space

(* What is said by the statements of the last group, whose bracket at z    *)
(* closes it.                                                              *)
Ended(b, p, q, z, m, turn, name, val) ==
  LET L  == Len(ahead(b, q))
      es == cut(SubSeq(b, p + 1, z - 1))
      t  == cut(from(b, z + 1))
      n  == Len(es)
  IN  /\ n \in Nat /\ n >= 2 /\ L + n <= m /\ Len(t) = m + 2 - L - n
      /\ \A i \in 1 .. n - 1 : IsAsg(es[i], name[L + i], val[L + i])
      /\ \A i \in 2 .. n - 1 : turn[L + i] = 0
      /\ turn[L + n] = -1
      /\ Blank(es[n]) /\ Blank(t[1])
      /\ \A i \in 2 .. Len(t) : cut(b)[L + n - 1 + i] = t[i]

LEMMA GroupParts ==
  ASSUME NEW b \in Text, NEW p \in 1 .. Len(b), NEW z \in p + 1 .. Len(b), b[z] = Close
  PROVE  AtClose(cut(from(b, p + 1)), cut(SubSeq(b, p + 1, z - 1)), cut(from(b, z + 1)))
<1> DEFINE R == from(b, p + 1)
           k == z - p
           x == SubSeq(b, p + 1, z - 1)
           y == from(b, z + 1)
<1>1. Len(b) \in Nat /\ p \in Int /\ z \in Int /\ 1 <= p /\ p < z /\ z <= Len(b)
  BY TextIs
<1>2. p \in 0 .. Len(b) /\ z \in 0 .. Len(b)
  BY <1>1
<1>3. R \in Text /\ Len(R) = Len(b) - p /\ \A i \in 1 .. Len(b) - p : R[i] = b[p + i]
  BY <1>2, TextJoins
<1>4. y \in Text /\ Len(y) = Len(b) - z /\ \A i \in 1 .. Len(b) - z : y[i] = b[z + i]
  BY <1>2, TextJoins
<1>5. /\ x \in Text /\ Len(x) = IF p + 1 <= z - 1 THEN (z - 1) - (p + 1) + 1 ELSE 0
      /\ \A i \in 1 .. Len(x) : x[i] = b[i + (p + 1) - 1]
  <2>1. p + 1 \in Int /\ z - 1 \in Int /\ 1 <= p + 1 /\ z - 1 <= Len(b)
    BY <1>1
  <2>2. QED  BY <2>1, SubText
<1> HIDE DEF R, x, y
<1>6. k \in 1 .. Len(R) /\ p + k = z /\ k \in Int
  BY <1>1, <1>3
<1> HIDE DEF k
<1>7. R[k] = Close
  <2>1. k \in 1 .. Len(b) - p
    BY <1>3, <1>6
  <2>2. R[k] = b[p + k]
    BY <1>3, <2>1
  <2>3. QED  BY <1>6, <2>2
<1> DEFINE u == upto(R, k - 1)
           v == from(R, k + 1)
<1>8. u = x
  <2> DEFINE j == k - 1
  <2>1. j \in 0 .. Len(R) /\ j = k - 1
    BY <1>6
  <2> HIDE DEF j
  <2>2. upto(R, j) \in Text /\ Len(upto(R, j)) = j /\ \A i \in 1 .. j : upto(R, j)[i] = R[i]
    BY <1>3, <2>1, TextJoins
  <2>3. u \in Text /\ Len(u) = k - 1 /\ \A i \in 1 .. k - 1 : u[i] = R[i]
    BY <2>1, <2>2
  <2> HIDE DEF u
  <2>4. Len(x) = k - 1
    BY <1>1, <1>5, <1>6
  <2>5. ASSUME NEW i \in 1 .. Len(u) PROVE u[i] = x[i]
    <3>1. i \in 1 .. k - 1 /\ i \in 1 .. Len(b) - p /\ i \in 1 .. Len(x)
      BY <1>1, <1>6, <2>3, <2>4
    <3>2. i + (p + 1) - 1 = p + i
      BY <1>1, <3>1
    <3>3. u[i] = R[i] /\ R[i] = b[p + i] /\ x[i] = b[i + (p + 1) - 1]
      BY <1>3, <1>5, <2>3, <3>1
    <3>4. QED  BY <3>2, <3>3
  <2>6. QED  BY <1>5, <2>3, <2>4, <2>5, SameText
<1>9. v = y
  <2>1. k \in 0 .. Len(R)
    BY <1>6
  <2>2. v \in Text /\ Len(v) = Len(R) - k /\ \A i \in 1 .. Len(R) - k : v[i] = R[k + i]
    BY <1>3, <2>1, TextJoins
  <2> HIDE DEF v
  <2>a. Len(v) = Len(R) - k /\ Len(R) = Len(b) - p /\ Len(y) = Len(b) - z
    BY <1>3, <1>4, <2>2
  <2>3. Len(v) = Len(y)
    BY <1>1, <1>6, <2>a
  <2>4. ASSUME NEW i \in 1 .. Len(v) PROVE v[i] = y[i]
    <3> DEFINE j == k + i
    <3>1. i \in 1 .. Len(R) - k /\ i \in 1 .. Len(b) - z /\ j \in 1 .. Len(b) - p /\ p + j = z + i
      BY <1>1, <1>3, <1>4, <1>6, <2>2, <2>3
    <3>2. v[i] = R[j] /\ y[i] = b[z + i]
      BY <1>4, <2>2, <3>1
    <3> HIDE DEF j
    <3>3. R[j] = b[p + j]
      BY <1>3, <3>1
    <3>4. QED  BY <3>1, <3>2, <3>3
  <2>5. QED  BY <1>4, <2>2, <2>3, <2>4, SameText
<1>10. AtClose(cut(R), cut(u), cut(v))
  BY <1>3, <1>6, <1>7, CutAtClose
<1>11. AtClose(cut(R), cut(x), cut(y))
  BY <1>8, <1>9, <1>10
<1>12. QED  BY <1>11 DEF R, x, y

(* The statement that ends a group is blank besides. *)
LEMMA BlankAround ==
  ASSUME NEW e \in Text, NEW f \in Text
  PROVE  LET d == e \o (<<Close>> \o f)
         IN  d \in Text /\ Has(d, Close) /\ (Closing(d) => Blank(e) /\ Blank(f))
<1> DEFINE o == <<Close>>
           g == o \o f
           d == e \o g
           N == Len(e)
           M == Len(f)
<1>1. o \in Text /\ Len(o) = 1 /\ o[1] = Close
  BY Characters, OneChar
<1>2. N \in Nat /\ M \in Nat
  BY TextIs
<1> HIDE DEF o
<1>3. /\ g \in Text /\ Len(g) = Len(o) + M
      /\ \A k \in 1 .. Len(o) : g[k] = o[k]
      /\ \A k \in 1 .. M : g[Len(o) + k] = f[k]
  BY <1>1, JoinText
<1> HIDE DEF g
<1>4. /\ d \in Text /\ Len(d) = N + Len(g)
      /\ \A k \in 1 .. N : d[k] = e[k]
      /\ \A k \in 1 .. Len(g) : d[N + k] = g[k]
  BY <1>3, JoinText
<1> HIDE DEF d, N, M
<1>5. Len(d) = N + 1 + M /\ Len(g) = 1 + M
  BY <1>1, <1>2, <1>3, <1>4
<1>6. d[N + 1] = Close
  <2>1. 1 \in 1 .. Len(g) /\ 1 \in 1 .. Len(o)
    BY <1>1, <1>2, <1>5
  <2>2. d[N + 1] = g[1] /\ g[1] = o[1]
    BY <1>3, <1>4, <2>1
  <2>3. QED  BY <1>1, <2>2
<1>7. ASSUME NEW k \in 1 .. M PROVE d[N + 1 + k] = f[k]
  <2> DEFINE j == 1 + k
  <2>1. j \in 1 .. Len(g) /\ N + j = N + 1 + k /\ Len(o) + k = j
    BY <1>1, <1>2, <1>5
  <2> HIDE DEF j
  <2>2. d[N + j] = g[j] /\ g[Len(o) + k] = f[k]
    BY <1>3, <1>4, <2>1
  <2>3. QED  BY <2>1, <2>2
<1>8. N + 1 \in 1 .. Len(d)
  BY <1>2, <1>5
<1>9. Has(d, Close)
  BY <1>6, <1>8 DEF Has
<1>10. ASSUME Closing(d) PROVE Blank(e) /\ Blank(f)
  <2>1. PICK k \in 1 .. Len(d) : d[k] = Close /\ \A j \in 1 .. Len(d) : j # k => d[j] = Space
    BY <1>10 DEF Closing
  <2>2. Close # Space
    BY Zenon DEF Close, Space
  <2>3. k = N + 1
    BY <1>6, <1>8, <2>1, <2>2
  <2>4. ASSUME NEW i \in 1 .. N PROVE e[i] = Space
    <3>1. i \in 1 .. Len(d) /\ i # k
      BY <1>2, <1>5, <2>3
    <3>2. QED  BY <1>4, <2>1, <3>1
  <2>5. ASSUME NEW i \in 1 .. M PROVE f[i] = Space
    <3>1. N + 1 + i \in 1 .. Len(d) /\ N + 1 + i # k
      BY <1>2, <1>5, <2>3
    <3>2. d[N + 1 + i] = Space
      BY <2>1, <3>1
    <3>3. QED  BY <1>7, <3>2
  <2>6. QED  BY <2>4, <2>5 DEF Blank, N, M
<1>11. d \in Text /\ Has(d, Close) /\ (Closing(d) => Blank(e) /\ Blank(f))
  BY <1>4, <1>9, <1>10
<1>12. QED  BY <1>11 DEF d, g, o

LEMMA GroupEnded ==
  ASSUME NEW b, NEW p, NEW q, IsOpen(b, p, q),
         NEW m, NEW turn, NEW group, NEW name, NEW val, NEW around,
         Block(b, m, turn, group, name, val, around),
         NEW z \in p + 1 .. Len(b), b[z] = Close, \A k \in p + 1 .. z - 1 : b[k] # Close
  PROVE  Ended(b, p, q, z, m, turn, name, val)
<1> DEFINE c == cut(b)
           h == SubSeq(b, q + 1, p)
           r == cut(from(b, p + 1))
           a == ahead(b, q)
           L == Len(a)
           x == SubSeq(b, p + 1, z - 1)
           y == from(b, z + 1)
           es == cut(x)
           t == cut(y)
           n == Len(es)
<1>1. /\ b \in Text /\ p \in 1 .. Len(b)
      /\ q \in 0 .. p - 1 /\ (q # 0 => b[q] = Semicolon)
      /\ \A k \in q + 1 .. p : b[k] # Semicolon
  BY DEF IsOpen
<1>2. /\ m \in Nat /\ Len(c) = m + 1 /\ c[m + 1] = <<>>
      /\ \A i \in 1 .. m : Says(c[i], turn[i], group[i], name[i], val[i])
  BY DEF Block
<1>3. AtOpen(c, h, r, L, a)
  BY <1>1, CutAtOpen
<1>4. /\ L \in Nat /\ L + 1 <= m /\ turn[L + 1] = 1
      /\ IsAsg(r[1], name[L + 1], val[L + 1])
      /\ \A i \in L + 2 .. m : turn[i] \in {-1, 0}
  BY GroupBegun DEF Begun
<1>5. AtClose(r, es, t)
  BY <1>1, GroupParts
<1>6. Len(b) \in Nat /\ p \in Int /\ z \in Int /\ 1 <= p /\ p < z /\ z <= Len(b)
  BY <1>1, TextIs
<1>7. x \in Text /\ ~Has(x, Close)
  <2>1. /\ x \in Text /\ Len(x) = IF p + 1 <= z - 1 THEN (z - 1) - (p + 1) + 1 ELSE 0
        /\ \A i \in 1 .. Len(x) : x[i] = b[i + (p + 1) - 1]
    <3>1. p + 1 \in Int /\ z - 1 \in Int /\ 1 <= p + 1 /\ z - 1 <= Len(b)
      BY <1>6
    <3>2. QED  BY <1>1, <3>1, SubText
  <2> HIDE DEF x
  <2>2. ASSUME NEW i \in 1 .. Len(x) PROVE x[i] # Close
    <3>1. i + (p + 1) - 1 \in p + 1 .. z - 1
      BY <1>6, <2>1
    <3>2. QED  BY <2>1, <3>1
  <2>3. QED  BY <2>1, <2>2 DEF Has
<1>8. y \in Text
  <2>1. z \in 0 .. Len(b)
    BY <1>6
  <2>2. QED  BY <1>1, <2>1, TextJoins
<1>9. ~InPart(es, Close)
  BY <1>7, Characters, PartsHave
<1>10. /\ n \in Nat /\ n >= 1 /\ \A i \in 1 .. n : es[i] \in Text
       /\ Len(t) \in Nat /\ Len(t) >= 1 /\ \A i \in 1 .. Len(t) : t[i] \in Text
  BY <1>7, <1>8, CutIs
<1>11. \A i \in 1 .. Len(c) : c[i] \in Text
  BY <1>1, CutIs
<1> DEFINE o == <<Close>>
           d == es[n] \o (o \o t[1])
<1>12. o \in Text /\ Len(o) = 1 /\ o[1] = Close
  BY Characters, OneChar
<1> HIDE DEF c, h, r, a, L, x, y, es, t, o
<1>13. ASSUME NEW i \in 1 .. n PROVE ~Has(es[i], Close)
  BY <1>9 DEF InPart
<1>14. /\ Len(c) = L + Len(r)
       /\ \A i \in 2 .. Len(r) : c[L + i] = r[i]
  BY <1>3 DEF AtOpen
<1>15. /\ Len(r) = n + Len(t) - 1
       /\ \A i \in 1 .. n - 1 : r[i] = es[i]
       /\ r[n] = d
       /\ \A i \in 2 .. Len(t) : r[n + i - 1] = t[i]
  BY <1>5 DEF AtClose, o
<1>16. es[n] \in Text /\ t[1] \in Text
  <2>1. n \in 1 .. n /\ 1 \in 1 .. Len(t)
    BY <1>10
  <2>2. QED  BY <1>10, <2>1
<1> HIDE DEF n
<1>17. d \in Text /\ Has(d, Close) /\ (Closing(d) => Blank(es[n]) /\ Blank(t[1]))
  BY <1>16, BlankAround DEF o
<1> HIDE DEF d
<1>18. Len(c) = L + Len(r)
  BY <1>14
<1>19. Has(d, Close) /\ Len(r) = n + Len(t) - 1
  BY <1>15, <1>17
<1>a. n \in Nat /\ n >= 1
  BY <1>10
<1>20. n >= 2
  <2>1. SUFFICES ASSUME n = 1 PROVE FALSE
    BY <1>a
  <2>2. ~Has(r[1], Close)
    BY <1>4 DEF IsAsg
  <2>3. QED  BY <1>15, <1>19, <2>1, <2>2
<1>21. n \in Nat
  BY <1>a
<1>22. c[L + n] = d /\ L + n \in 1 .. Len(c)
  <2>a. L \in Nat /\ Len(t) \in Nat /\ Len(t) >= 1
    BY <1>4, <1>10
  <2>1. n \in 2 .. Len(r) /\ L + n \in 1 .. Len(c)
    BY <1>18, <1>19, <1>20, <1>21, <2>a
  <2>2. QED  BY <1>14, <1>15, <2>1
<1>23. L + n <= m
  <2>1. ~Has(<<>>, Close)
    BY DEF Has
  <2>2. L + n # m + 1
    BY <1>2, <1>19, <1>22, <2>1
  <2>3. QED  BY <1>2, <1>4, <1>21, <1>22, <2>2
<1>24. turn[L + n] = -1 /\ Closing(d)
  <2> DEFINE j == L + n
  <2>1. j \in 1 .. m /\ c[j] = d
    BY <1>2, <1>4, <1>20, <1>21, <1>22, <1>23
  <2> HIDE DEF j
  <2>2. Says(c[j], turn[j], group[j], name[j], val[j]) /\ c[j] \in Text /\ Has(c[j], Close)
    BY <1>2, <1>17, <2>1
  <2>3. turn[j] = -1 /\ Closing(c[j])
    BY <2>2, SaysHas
  <2>4. QED  BY <2>1, <2>3 DEF j
<1>25. Blank(es[n]) /\ Blank(t[1])
  BY <1>17, <1>24
<1>26. ASSUME NEW i \in 2 .. n - 1
       PROVE  turn[L + i] = 0 /\ IsAsg(es[i], name[L + i], val[L + i])
  <2> DEFINE j == L + i
  <2>1. /\ j \in 1 .. m /\ j \in L + 2 .. m /\ j \in 1 .. Len(c)
        /\ i \in 2 .. Len(r) /\ i \in 1 .. n - 1 /\ i \in 1 .. n
    BY <1>2, <1>4, <1>10, <1>14, <1>15, <1>21, <1>23
  <2> HIDE DEF j
  <2>2. c[j] = es[i] /\ ~Has(es[i], Close) /\ c[j] \in Text
    <3>1. c[L + i] = r[i] /\ r[i] = es[i]
      BY <1>14, <1>15, <2>1
    <3>2. QED  BY <1>11, <1>13, <2>1, <3>1 DEF j
  <2>3. Says(c[j], turn[j], group[j], name[j], val[j])
    BY <1>2, <2>1
  <2>4. turn[j] # -1
    BY <2>2, <2>3, SaysHas
  <2>5. turn[j] = 0
    BY <1>4, <2>1, <2>4
  <2>6. IsAsg(c[j], name[j], val[j])
    BY <2>2, <2>3, <2>5, SaysHas
  <2>7. QED  BY <2>2, <2>5, <2>6 DEF j
<1>27. ASSUME NEW i \in 1 .. n - 1 PROVE IsAsg(es[i], name[L + i], val[L + i])
  <2>1. CASE i = 1
    <3>1. r[1] = es[1]
      BY <1>15, <2>1
    <3>2. QED  BY <1>4, <2>1, <3>1
  <2>2. CASE i # 1
    <3>1. i \in 2 .. n - 1
      BY <1>21, <2>2
    <3>2. QED  BY <1>26, <3>1
  <2>3. QED  BY <2>1, <2>2
<1>28. ASSUME NEW i \in 2 .. Len(t) PROVE c[L + n - 1 + i] = t[i]
  <2> DEFINE k == n + i - 1
  <2>1. k \in 2 .. Len(r) /\ L + k = L + n - 1 + i
    BY <1>4, <1>10, <1>15, <1>20, <1>21
  <2>2. r[k] = t[i]
    BY <1>15
  <2> HIDE DEF k
  <2>3. c[L + k] = r[k]
    BY <1>14, <2>1
  <2>4. QED  BY <2>1, <2>2, <2>3
<1>29. Len(t) = m + 2 - L - n
  <2>1. m \in Nat /\ Len(c) = m + 1 /\ L \in Nat /\ Len(t) \in Nat
    BY <1>2, <1>4, <1>10
  <2>2. QED  BY <1>18, <1>19, <1>21, <2>1
<1>30. QED
  BY <1>20, <1>21, <1>23, <1>24, <1>25, <1>26, <1>27, <1>28, <1>29 DEF Ended, c, L, a, es, t, x, y, n

(***************************************************************************)
(* A group and the assignments that come of it say the same.               *)
(***************************************************************************)

(* The statements of a group, which are the n after the first L, the last  *)
(* of them its bracket.                                                    *)
GroupAt(L, n, m, turn, name) ==
  /\ L \in Nat /\ n \in Nat /\ n >= 2 /\ m \in Nat /\ L + n <= m
  /\ turn[L + 1] = 1 /\ turn[L + n] = -1
  /\ \A i \in 2 .. n - 1 : turn[L + i] = 0
  /\ \A i \in 1 .. n - 1 : name[L + i] \in Text

(* What is around the statements of a group. *)
LEMMA AroundGroup ==
  ASSUME NEW L, NEW n, NEW m, NEW turn, NEW name, GroupAt(L, n, m, turn, name),
         NEW around, NEW group, group[L + 1] \in Text,
         \A i \in 0 .. m : around[i] \in SomeParts,
         \A i \in 1 .. m : Nests(around[i - 1], around[i], turn[i], group[i])
  PROVE  /\ around[L] \in SomeParts /\ Last(around[L]) \in Text
         /\ \A i \in 1 .. n - 1 :
              Last(around[L + i]) = Last(around[L]) \o (group[L + 1] \o <<".">>)
         /\ around[L + n] = around[L]
<1> DEFINE a == around[L]
           x == Last(a) \o (group[L + 1] \o <<".">>)
           s == L + 1
           N == n - 1
<1>1. /\ L \in Nat /\ n \in Nat /\ n >= 2 /\ m \in Nat /\ L + n <= m
      /\ turn[s] = 1 /\ turn[L + n] = -1
      /\ \A i \in 2 .. N : turn[L + i] = 0
  BY DEF GroupAt
<1>2. L \in 0 .. m /\ s \in 1 .. m /\ s - 1 = L /\ N \in Nat /\ N >= 1
  BY <1>1
<1>3. a \in SomeParts
  BY <1>2
<1>4. Nests(around[s - 1], around[s], turn[s], group[s])
  BY <1>2
<1>5. a \in Seq(Text) /\ Len(a) \in Nat /\ Len(a) >= 1 /\ Last(a) \in Text
  <2> HIDE DEF a
  <2>1. a \in Seq(Text) /\ a # <<>>
    BY <1>3 DEF SomeParts
  <2>2. Len(a) \in Nat /\ Len(a) >= 1
    BY <2>1
  <2>3. QED  BY <2>1, <2>2 DEF Last
<1>6. x \in Text
  <2>1. <<".">> \in Text
    BY Characters, OneChar
  <2>2. group[L + 1] \o <<".">> \in Text
    BY <2>1, JoinText
  <2>3. QED  BY <1>5, <2>2, JoinText
<1> HIDE DEF a, N
<1>7. around[s] = Append(a, x)
  <2>1. turn[s] # 0 /\ turn[s] # -1
    BY <1>1
  <2>2. around[s] = Append(around[s - 1], Last(around[s - 1]) \o (group[s] \o <<".">>))
    BY <1>4, <2>1, Zenon DEF Nests
  <2>3. around[s - 1] = a
    BY <1>2 DEF a
  <2>4. QED  BY <2>2, <2>3
<1> HIDE DEF x, s
<1>8. ASSUME NEW i \in 1 .. N PROVE around[L + i] = around[s]
  <2> DEFINE M == N - 1
             P == {j \in 0 .. M : around[s + j] = around[s]}
  <2>1. M \in Nat
    BY <1>2
  <2>2. 0 \in P
    BY <1>1, <2>1 DEF s
  <2>3. ASSUME NEW j \in 1 .. M, j - 1 \in P PROVE j \in P
    <3> DEFINE k == s + j
               l == j + 1
    <3>1. /\ k \in 1 .. m /\ k - 1 = s + (j - 1) /\ j \in 0 .. M
          /\ l \in 2 .. N /\ L + l = k
      BY <1>1, <1>2, <2>1 DEF s, N
    <3> HIDE DEF k, l
    <3>2. Nests(around[k - 1], around[k], turn[k], group[k])
      BY <3>1
    <3>3. turn[L + l] = 0
      BY <1>1, <3>1
    <3>4. turn[k] = 0
      BY <3>1, <3>3
    <3>5. around[k] = around[k - 1]
      BY <3>2, <3>4 DEF Nests
    <3>6. around[s + (j - 1)] = around[s]
      BY <2>3
    <3>7. around[k] = around[s]
      BY <3>1, <3>5, <3>6
    <3>8. QED  BY <3>1, <3>7 DEF k
  <2> HIDE DEF P
  <2>4. 0 .. M \subseteq P
    BY <2>1, <2>2, <2>3, Induct
  <2> DEFINE j == i - 1
  <2>5. j \in 0 .. M /\ s + j = L + i
    BY <1>1, <1>2 DEF s
  <2> HIDE DEF j, M
  <2>6. around[s + j] = around[s]
    BY <2>4, <2>5 DEF P
  <2>7. QED  BY <2>5, <2>6
<1>9. Last(around[s]) = x /\ Front(around[s]) = a
  <2> DEFINE y == Append(a, x)
  <2>1. y \in Seq(Text) /\ Len(y) = Len(a) + 1 /\ y[Len(a) + 1] = x
    BY <1>5, <1>6
  <2>2. \A i \in 1 .. Len(a) : y[i] = a[i]
    BY <1>5, <1>6
  <2> HIDE DEF y
  <2>3. Last(y) = x
    BY <2>1 DEF Last
  <2>4. Front(y) = SubSeq(y, 1, Len(a))
    <3>1. Len(y) - 1 = Len(a)
      BY <1>5, <2>1
    <3>2. QED  BY <3>1 DEF Front
  <2> DEFINE f == SubSeq(y, 1, Len(a))
  <2>5. f \in Seq(Text) /\ Len(f) = Len(a) /\ \A i \in 1 .. Len(a) : f[i] = y[i]
    BY <1>5, <2>1
  <2> HIDE DEF f
  <2>6. f = a
    BY <1>5, <2>2, <2>5
  <2>7. QED  BY <1>7, <2>3, <2>4, <2>6 DEF y, f
<1>10. around[L + n] = a
  <2> DEFINE k == L + n
  <2>1. k \in 1 .. m /\ k - 1 = L + N /\ N \in 1 .. N
    BY <1>1, <1>2 DEF N
  <2>2. turn[k] = -1
    BY <1>1
  <2> HIDE DEF k
  <2>3. Nests(around[k - 1], around[k], turn[k], group[k])
    BY <2>1
  <2>4. around[k - 1] = around[s]
    BY <1>8, <2>1
  <2>5. turn[k] # 0 /\ turn[k] # 1
    BY <2>2
  <2>6. around[k] = Front(around[k - 1])
    BY <2>3, <2>5, Zenon DEF Nests
  <2>7. QED  BY <1>9, <2>4, <2>6 DEF k
<1>11. \A i \in 1 .. N : Last(around[L + i]) = x
  <2>1. ASSUME NEW i \in 1 .. N PROVE Last(around[L + i]) = x
    <3>1. around[L + i] = around[s]
      BY <1>8
    <3>2. QED  BY <1>9, <3>1, Zenon
  <2>2. QED  BY <2>1
<1>12. QED  BY <1>3, <1>5, <1>10, <1>11 DEF a, x, N

(* The statements when the group was expanded. *)
later(i, L, n) == IF i < L + n THEN i ELSE i + 1

turn_now(turn, L, n, m) ==
  [i \in 1 .. m - 1 |-> IF i \in L + 1 .. L + n - 1 THEN 0 ELSE turn[later(i, L, n)]]
name_now(name, p, L, n, m) ==
  [i \in 1 .. m - 1 |-> IF i \in L + 1 .. L + n - 1 THEN p \o name[i] ELSE name[later(i, L, n)]]
as_later(f, L, n, m) == [i \in 1 .. m - 1 |-> f[later(i, L, n)]]
around_now(around, L, n, m) ==
  [i \in 0 .. m - 1 |-> IF i \in L + 1 .. L + n - 1 THEN around[L] ELSE around[later(i, L, n)]]

(* The parts of the text then. *)
PartsNow(c2, c, L, n, m, p, name, val) ==
  /\ Len(c2) = m
  /\ \A i \in 1 .. L : c2[i] = c[i]
  /\ \A i \in 1 .. n - 1 : IsAsg(c2[L + i], p \o name[L + i], val[L + i])
  /\ \A i \in L + n .. m : c2[i] = c[i + 1]

LEMMA BlockNow ==
  ASSUME NEW b, NEW m, NEW turn, NEW group, NEW name, NEW val, NEW around,
         Block(b, m, turn, group, name, val, around),
         NEW L, NEW n, GroupAt(L, n, m, turn, name), group[L + 1] \in Text,
         NEW u \in Text, PartsNow(cut(u), cut(b), L, n, m, group[L + 1] \o <<".">>, name, val)
  PROVE  Block(u, m - 1, turn_now(turn, L, n, m), as_later(group, L, n, m),
               name_now(name, group[L + 1] \o <<".">>, L, n, m), as_later(val, L, n, m),
               around_now(around, L, n, m))
<1> DEFINE c  == cut(b)
           c2 == cut(u)
           M  == m - 1
           p  == group[L + 1] \o <<".">>
           T  == turn_now(turn, L, n, m)
           G  == as_later(group, L, n, m)
           S  == name_now(name, p, L, n, m)
           V  == as_later(val, L, n, m)
           A  == around_now(around, L, n, m)
<1>1. /\ m \in Nat /\ c[m + 1] = <<>>
      /\ around[0] = << <<>> >> /\ around[m] = << <<>> >>
      /\ \A i \in 0 .. m : around[i] \in SomeParts
      /\ \A i \in 1 .. m : Says(c[i], turn[i], group[i], name[i], val[i])
      /\ \A i \in 1 .. m : Nests(around[i - 1], around[i], turn[i], group[i])
  BY DEF Block
<1>2. L \in Nat /\ n \in Nat /\ n >= 2 /\ m \in Nat /\ L + n <= m
  BY DEF GroupAt
<1>3. M \in Nat /\ m = M + 1
  BY <1>2
<1>4. around[L] \in SomeParts /\ around[L + n] = around[L]
  <2>1. /\ around[L] \in SomeParts /\ Last(around[L]) \in Text
        /\ \A i \in 1 .. n - 1 :
             Last(around[L + i]) = Last(around[L]) \o (group[L + 1] \o <<".">>)
        /\ around[L + n] = around[L]
    <3>1. /\ \A i \in 0 .. m : around[i] \in SomeParts
          /\ \A i \in 1 .. m : Nests(around[i - 1], around[i], turn[i], group[i])
      BY <1>1
    <3>2. QED  BY <3>1, AroundGroup, Zenon
  <2>2. QED  BY <2>1
<1>5. /\ Len(c2) = m
      /\ \A i \in 1 .. L : c2[i] = c[i]
      /\ \A i \in 1 .. n - 1 : IsAsg(c2[L + i], p \o name[L + i], val[L + i])
      /\ \A i \in L + n .. m : c2[i] = c[i + 1]
  BY DEF PartsNow
<1>6. ASSUME NEW i \in 1 .. M
      PROVE  /\ i \in 1 .. L => T[i] = turn[i] /\ G[i] = group[i] /\ S[i] = name[i] /\ V[i] = val[i]
             /\ i \in L + 1 .. L + n - 1 => T[i] = 0 /\ S[i] = p \o name[i] /\ V[i] = val[i]
             /\ i \in L + n .. M => /\ T[i] = turn[i + 1] /\ G[i] = group[i + 1]
                                    /\ S[i] = name[i + 1] /\ V[i] = val[i + 1]
  <2> HIDE DEF p
  <2>1. i \in 1 .. m - 1 /\ i \in Int
    BY <1>3
  <2>2. /\ i \in 1 .. L => later(i, L, n) = i /\ i \notin L + 1 .. L + n - 1
        /\ i \in L + 1 .. L + n - 1 => later(i, L, n) = i
        /\ i \in L + n .. M => later(i, L, n) = i + 1 /\ i \notin L + 1 .. L + n - 1
    BY <1>2, <2>1 DEF later
  <2>3. /\ T[i] = IF i \in L + 1 .. L + n - 1 THEN 0 ELSE turn[later(i, L, n)]
        /\ S[i] = IF i \in L + 1 .. L + n - 1 THEN p \o name[i] ELSE name[later(i, L, n)]
        /\ G[i] = group[later(i, L, n)] /\ V[i] = val[later(i, L, n)]
    BY <2>1 DEF turn_now, name_now, as_later
  <2> HIDE DEF T, G, S, V
  <2>4. QED  BY <2>2, <2>3
<1>7. ASSUME NEW i \in 0 .. M
      PROVE  /\ i \in 0 .. L => A[i] = around[i]
             /\ i \in L .. L + n - 1 => A[i] = around[L]
             /\ i \in L + n - 1 .. M => A[i] = around[i + 1]
  <2>1. i \in 0 .. m - 1 /\ i \in Int
    BY <1>3
  <2>2. A[i] = IF i \in L + 1 .. L + n - 1 THEN around[L] ELSE around[later(i, L, n)]
    BY <2>1 DEF around_now
  <2> HIDE DEF A
  <2>3. i \in 0 .. L => A[i] = around[i]
    <3>1. i \in 0 .. L => later(i, L, n) = i /\ i \notin L + 1 .. L + n - 1
      BY <1>2, <2>1 DEF later
    <3>2. QED  BY <2>2, <3>1
  <2>4. i \in L .. L + n - 1 => A[i] = around[L]
    <3>1. i \in L .. L + n - 1 => i = L \/ i \in L + 1 .. L + n - 1
      BY <1>2, <2>1
    <3>2. i = L => i \in 0 .. L
      BY <1>2
    <3>3. QED  BY <2>2, <2>3, <3>1, <3>2
  <2>5. i \in L + n - 1 .. M => A[i] = around[i + 1]
    <3>1. CASE i = L + n - 1
      <4>1. i \in L .. L + n - 1 /\ i + 1 = L + n
        BY <1>2, <3>1
      <4>2. QED  BY <1>4, <2>4, <4>1
    <3>2. CASE i # L + n - 1
      <4>1. i \in L + n - 1 .. M => later(i, L, n) = i + 1 /\ i \notin L + 1 .. L + n - 1
        BY <1>2, <2>1, <3>2 DEF later
      <4>2. QED  BY <2>2, <4>1
    <3>3. QED  BY <3>1, <3>2
  <2>6. QED  BY <2>3, <2>4, <2>5
<1> HIDE DEF c, c2, M, p, T, G, S, V, A
<1>8. Len(c2) = M + 1 /\ c2[M + 1] = <<>>
  <2>1. m \in L + n .. m
    BY <1>2
  <2>2. c2[m] = c[m + 1]
    BY <1>5, <2>1
  <2>3. QED  BY <1>1, <1>3, <1>5, <2>2
<1>9. A[0] = << <<>> >> /\ A[M] = << <<>> >>
  <2>1. 0 \in 0 .. M /\ 0 \in 0 .. L /\ M \in 0 .. M /\ M \in L + n - 1 .. M
    BY <1>2, <1>3
  <2>2. A[0] = around[0] /\ A[M] = around[M + 1]
    BY <1>7, <2>1
  <2>3. QED  BY <1>1, <1>3, <2>2, Zenon
<1>10. ASSUME NEW i \in 0 .. M PROVE A[i] \in SomeParts
  <2>1. CASE i \in 0 .. L
    <3>1. i \in 0 .. m
      BY <1>2, <2>1
    <3>2. QED  BY <1>1, <1>7, <2>1, <3>1
  <2>2. CASE i \notin 0 .. L
    <3>1. CASE i \in L .. L + n - 1
      BY <1>4, <1>7, <3>1
    <3>2. CASE i \notin L .. L + n - 1
      <4>1. i \in L + n - 1 .. M /\ i + 1 \in 0 .. m
        BY <1>2, <1>3, <2>2, <3>2
      <4>2. A[i] = around[i + 1]
        BY <1>7, <4>1
      <4>3. QED  BY <1>1, <4>1, <4>2
    <3>3. QED  BY <3>1, <3>2
  <2>3. QED  BY <2>1, <2>2
<1>11. ASSUME NEW i \in 1 .. M
       PROVE  Says(c2[i], T[i], G[i], S[i], V[i]) /\ Nests(A[i - 1], A[i], T[i], G[i])
  <2> DEFINE j == i - 1
  <2>1. i \in 0 .. M /\ j \in 0 .. M /\ i \in Int /\ j = i - 1 /\ j \in Int
    BY <1>3
  <2> HIDE DEF j
  <2>2. CASE i \in 1 .. L
    <3>1. i \in 1 .. m /\ j \in 0 .. L /\ i \in 0 .. L
      BY <1>2, <2>1, <2>2
    <3>2. T[i] = turn[i] /\ G[i] = group[i] /\ S[i] = name[i] /\ V[i] = val[i] /\ c2[i] = c[i]
      BY <1>5, <1>6, <2>2
    <3>3. A[j] = around[j] /\ A[i] = around[i]
      BY <1>7, <2>1, <3>1
    <3>4. Says(c[i], turn[i], group[i], name[i], val[i]) /\ Nests(around[j], around[i], turn[i], group[i])
      BY <1>1, <2>1, <3>1
    <3>5. QED  BY <2>1, <3>2, <3>3, <3>4
  <2>3. CASE i \in L + 1 .. L + n - 1
    <3>1. j \in L .. L + n - 1 /\ i \in L .. L + n - 1
      BY <1>2, <2>1, <2>3
    <3>2. T[i] = 0 /\ S[i] = p \o name[i] /\ V[i] = val[i]
      BY <1>6, <2>3
    <3>3. A[j] = A[i]
      BY <1>7, <2>1, <3>1
    <3>4. IsAsg(c2[i], p \o name[i], val[i])
      <4> DEFINE k == i - L
      <4>1. k \in 1 .. n - 1 /\ L + k = i
        BY <1>2, <2>1, <2>3
      <4> HIDE DEF k
      <4>2. IsAsg(c2[L + k], p \o name[L + k], val[L + k])
        BY <1>5, <4>1
      <4>3. QED  BY <4>1, <4>2
    <3>5. QED  BY <2>1, <3>2, <3>3, <3>4 DEF Says, Nests
  <2>4. CASE i \in L + n .. M
    <3> DEFINE k == i + 1
    <3>1. k \in 1 .. m /\ k - 1 = i /\ j \in L + n - 1 .. M /\ i \in L + n - 1 .. M /\ i \in L + n .. m
          /\ j + 1 = i
      BY <1>2, <1>3, <2>1, <2>4
    <3>2. T[i] = turn[k] /\ G[i] = group[k] /\ S[i] = name[k] /\ V[i] = val[k] /\ c2[i] = c[k]
      BY <1>5, <1>6, <2>4, <3>1
    <3>3. A[j] = around[j + 1] /\ A[i] = around[k]
      BY <1>7, <2>1, <3>1
    <3> HIDE DEF k
    <3>4. Says(c[k], turn[k], group[k], name[k], val[k]) /\ Nests(around[k - 1], around[k], turn[k], group[k])
      BY <1>1, <3>1
    <3>5. QED  BY <2>1, <3>1, <3>2, <3>3, <3>4
  <2>5. i \in 1 .. L \/ i \in L + 1 .. L + n - 1 \/ i \in L + n .. M
    BY <1>2, <2>1
  <2>6. QED  BY <2>2, <2>3, <2>4, <2>5
<1>12. Block(u, M, T, G, S, V, A)
  BY <1>3, <1>8, <1>9, <1>10, <1>11, Zenon DEF Block, c2
<1>13. QED  BY <1>12 DEF M, T, G, S, V, A, p

LEMMA PairingNow ==
  ASSUME NEW m, NEW turn, NEW group, NEW name, NEW val, NEW around, NEW ps,
         Pairing(ps, m, turn, name, val, around),
         NEW L, NEW n, GroupAt(L, n, m, turn, name), group[L + 1] \in Text,
         \A i \in 0 .. m : around[i] \in SomeParts,
         \A i \in 1 .. m : Nests(around[i - 1], around[i], turn[i], group[i])
  PROVE  Pairing(ps, m - 1, turn_now(turn, L, n, m),
                 name_now(name, group[L + 1] \o <<".">>, L, n, m), as_later(val, L, n, m),
                 around_now(around, L, n, m))
<1> DEFINE M   == m - 1
           p   == group[L + 1] \o <<".">>
           T   == turn_now(turn, L, n, m)
           S   == name_now(name, p, L, n, m)
           V   == as_later(val, L, n, m)
           A   == around_now(around, L, n, m)
           old == {i \in 1 .. m : turn[i] # -1}
           now == {i \in 1 .. M : T[i] # -1}
           was(i) == pairOf(around[i], name[i], val[i])
           is(i)  == pairOf(A[i], S[i], V[i])
           f(i)   == later(i, L, n)
<1>1. /\ ps = {was(i) : i \in old}
      /\ \A i, j \in old : was(i) = was(j) => i = j
  BY DEF Pairing
<1>2. /\ L \in Nat /\ n \in Nat /\ n >= 2 /\ m \in Nat /\ L + n <= m
      /\ turn[L + 1] = 1 /\ turn[L + n] = -1
      /\ \A i \in 2 .. n - 1 : turn[L + i] = 0
      /\ \A i \in 1 .. n - 1 : name[L + i] \in Text
  BY DEF GroupAt
<1>3. M \in Nat /\ m = M + 1
  BY <1>2
<1>4. /\ Last(around[L]) \in Text
      /\ \A i \in 1 .. n - 1 : Last(around[L + i]) = Last(around[L]) \o p
  <2>1. /\ around[L] \in SomeParts /\ Last(around[L]) \in Text
        /\ \A i \in 1 .. n - 1 :
             Last(around[L + i]) = Last(around[L]) \o (group[L + 1] \o <<".">>)
        /\ around[L + n] = around[L]
    BY AroundGroup, Zenon
  <2>2. QED  BY <2>1
<1>5. p \in Text
  BY Characters, OneChar, JoinText
<1> HIDE DEF p
<1>6. ASSUME NEW i \in 1 .. M
      PROVE  /\ f(i) \in 1 .. m /\ f(i) # L + n
             /\ f(i) = IF i < L + n THEN i ELSE i + 1
             /\ i \in L + 1 .. L + n - 1 =>
                  /\ T[i] = 0 /\ S[i] = p \o name[i] /\ V[i] = val[i] /\ A[i] = around[L]
             /\ i \notin L + 1 .. L + n - 1 =>
                  /\ T[i] = turn[f(i)] /\ S[i] = name[f(i)] /\ V[i] = val[f(i)]
                  /\ A[i] = around[f(i)]
  <2>1. i \in 1 .. m - 1 /\ i \in 0 .. m - 1 /\ i \in Int
    BY <1>3
  <2>2. /\ T[i] = IF i \in L + 1 .. L + n - 1 THEN 0 ELSE turn[f(i)]
        /\ S[i] = IF i \in L + 1 .. L + n - 1 THEN p \o name[i] ELSE name[f(i)]
        /\ V[i] = val[f(i)]
        /\ A[i] = IF i \in L + 1 .. L + n - 1 THEN around[L] ELSE around[f(i)]
    BY <2>1 DEF turn_now, name_now, as_later, around_now
  <2> HIDE DEF T, S, V, A
  <2>3. f(i) = IF i < L + n THEN i ELSE i + 1
    BY DEF later
  <2> HIDE DEF f
  <2>4. f(i) \in 1 .. m /\ f(i) # L + n /\ (i \in L + 1 .. L + n - 1 => f(i) = i)
    BY <1>2, <1>3, <2>1, <2>3
  <2>5. QED  BY <2>2, <2>3, <2>4
<1> HIDE DEF M, T, S, V, A, f
<1>7. ASSUME NEW i \in L + 1 .. L + n - 1
      PROVE  /\ turn[i] # -1 /\ name[i] \in Text
             /\ Last(around[i]) = Last(around[L]) \o p
  <2> DEFINE k == i - L
  <2>1. k \in 1 .. n - 1 /\ L + k = i /\ (k = 1 \/ k \in 2 .. n - 1)
    BY <1>2
  <2> HIDE DEF k
  <2>2. turn[L + k] # -1
    <3>1. CASE k = 1
      BY <1>2, <3>1
    <3>2. CASE k \in 2 .. n - 1
      BY <1>2, <3>2
    <3>3. QED  BY <2>1, <3>1, <3>2
  <2>3. name[L + k] \in Text /\ Last(around[L + k]) = Last(around[L]) \o p
    BY <1>2, <1>4, <2>1
  <2>4. QED  BY <2>1, <2>2, <2>3
<1>8. ASSUME NEW i \in now PROVE f(i) \in old /\ is(i) = was(f(i))
  <2>1. CASE i \in L + 1 .. L + n - 1
    <3>1. f(i) = i /\ i \in 1 .. m
      BY <1>2, <1>6, <2>1
    <3>2. S[i] = p \o name[i] /\ V[i] = val[i] /\ A[i] = around[L]
      BY <1>6, <2>1
    <3> DEFINE a == Last(around[L])
               e == name[i]
    <3>3. a \in Text /\ e \in Text /\ Last(around[i]) = a \o p
      BY <1>4, <1>7, <2>1
    <3> HIDE DEF a, e
    <3>4. a \o (p \o e) = (a \o p) \o e
      BY <1>5, <3>3, JoinAssoc
    <3>5. Last(A[i]) \o S[i] = Last(around[i]) \o name[i]
      BY <3>2, <3>3, <3>4 DEF a, e
    <3>6. is(i) = was(i)
      BY <3>2, <3>5 DEF pairOf
    <3>7. turn[i] # -1
      BY <1>7, <2>1
    <3>8. QED  BY <3>1, <3>6, <3>7
  <2>2. CASE i \notin L + 1 .. L + n - 1
    BY <1>6, <2>2
  <2>3. QED  BY <2>1, <2>2
<1>9. ASSUME NEW k \in old PROVE \E i \in now : f(i) = k
  <2> DEFINE i == IF k < L + n THEN k ELSE k - 1
  <2>1. k \in 1 .. m /\ turn[k] # -1 /\ k \in Int /\ k # L + n
    BY <1>2
  <2>2. i \in 1 .. M /\ (IF i < L + n THEN i ELSE i + 1) = k
    BY <1>2, <1>3, <2>1
  <2> HIDE DEF i
  <2>3. f(i) = k
    BY <1>6, <2>2
  <2>4. T[i] # -1
    <3>1. CASE i \in L + 1 .. L + n - 1
      BY <1>6, <2>2, <3>1
    <3>2. CASE i \notin L + 1 .. L + n - 1
      BY <1>6, <2>1, <2>2, <2>3, <3>2
    <3>3. QED  BY <3>1, <3>2
  <2>5. QED  BY <2>2, <2>3, <2>4
<1>10. ASSUME NEW i \in now, NEW j \in now, f(i) = f(j) PROVE i = j
  <2>1. i \in 1 .. M /\ j \in 1 .. M /\ i \in Int /\ j \in Int
    BY <1>3
  <2>2. /\ f(i) = (IF i < L + n THEN i ELSE i + 1)
        /\ f(j) = (IF j < L + n THEN j ELSE j + 1)
    BY <1>6, <2>1
  <2> DEFINE e == L + n
  <2>3. e \in Int
    <3>1. L \in Nat /\ n \in Nat
      BY <1>2
    <3>2. QED  BY <3>1
  <2> HIDE DEF e
  <2>4. (IF i < e THEN i ELSE i + 1) = (IF j < e THEN j ELSE j + 1)
    BY <1>10, <2>2 DEF e
  <2>5. i \in Int /\ j \in Int
    BY <2>1
  <2> HIDE DEF now
  <2>6. QED  BY <2>3, <2>4, <2>5
<1> HIDE DEF now, old, is, was
<1>11. ps = {is(i) : i \in now}
  <2>1. ASSUME NEW x \in ps PROVE x \in {is(i) : i \in now}
    <3>1. PICK k \in old : x = was(k)
      BY <1>1
    <3>2. PICK i \in now : f(i) = k
      BY <1>9
    <3>3. x = is(i)
      BY <1>8, <3>1, <3>2
    <3>4. QED  BY <3>3
  <2>2. ASSUME NEW i \in now PROVE is(i) \in ps
    <3>1. f(i) \in old /\ is(i) = was(f(i))
      BY <1>8
    <3>2. QED  BY <1>1, <3>1
  <2>3. QED  BY <2>1, <2>2
<1>12. ASSUME NEW i \in now, NEW j \in now, is(i) = is(j) PROVE i = j
  <2>1. f(i) \in old /\ f(j) \in old /\ is(i) = was(f(i)) /\ is(j) = was(f(j))
    BY <1>8
  <2>2. f(i) = f(j)
    BY <1>1, <1>12, <2>1
  <2>3. QED  BY <1>10, <2>2
<1>13. Pairing(ps, M, T, S, V, A)
  BY <1>11, <1>12 DEF Pairing, is, now
<1>14. QED  BY <1>13 DEF M, T, S, V, A, p

LEMMA ToldNow ==
  ASSUME NEW b, NEW m, NEW turn, NEW group, NEW name, NEW val, NEW around, NEW ps,
         Block(b, m, turn, group, name, val, around),
         Pairing(ps, m, turn, name, val, around),
         NEW L, NEW n, GroupAt(L, n, m, turn, name), group[L + 1] \in Text,
         NEW u \in Text, PartsNow(cut(u), cut(b), L, n, m, group[L + 1] \o <<".">>, name, val)
  PROVE  Told(u, ps)
<1>1. /\ \A i \in 0 .. m : around[i] \in SomeParts
      /\ \A i \in 1 .. m : Nests(around[i - 1], around[i], turn[i], group[i])
  BY DEF Block
<1> DEFINE M == m - 1
           T == turn_now(turn, L, n, m)
           G == as_later(group, L, n, m)
           S == name_now(name, group[L + 1] \o <<".">>, L, n, m)
           V == as_later(val, L, n, m)
           A == around_now(around, L, n, m)
<1>2. Block(u, M, T, G, S, V, A)
  BY BlockNow, Zenon
<1>3. Pairing(ps, M, T, S, V, A)
  BY <1>1, PairingNow, Zenon
<1> HIDE DEF M, T, G, S, V, A
<1>4. QED  BY <1>2, <1>3 DEF Told

(***************************************************************************)
(* The last group of a text is expanded, and what is said stays.           *)
(***************************************************************************)

(* The first part is white space: it and its semicolon taken away, the     *)
(* other parts are left.                                                   *)
LEMMA BlankFirst ==
  ASSUME NEW s \in Text, Len(cut(s)) >= 2, Blank(cut(s)[1])
  PROVE  \E k \in 1 .. Len(s) :
           /\ s[k] = Semicolon /\ \A j \in 1 .. k - 1 : s[j] = Space
           /\ Len(cut(s)) = Len(cut(from(s, k + 1))) + 1
           /\ \A i \in 1 .. Len(cut(from(s, k + 1))) : cut(from(s, k + 1))[i] = cut(s)[i + 1]
<1>1. Len(s) \in Nat
  BY TextIs
<1>2. Has(s, Semicolon)
  <2>1. SUFFICES ASSUME ~Has(s, Semicolon) PROVE FALSE
    OBVIOUS
  <2>2. Len(cut(s)) = 1
    BY <2>1, CutNone
  <2> DEFINE x == Len(cut(s))
  <2> HIDE DEF x
  <2>3. x >= 2 /\ x = 1
    BY <2>2 DEF x
  <2>4. QED  BY <2>3
<1> DEFINE Ks == {k \in 1 .. Len(s) : s[k] = Semicolon}
<1>3. Ks \subseteq Nat /\ Ks # {}
  BY <1>1, <1>2 DEF Has
<1>4. PICK k \in Ks : \A j \in Ks : k <= j
  BY <1>3, FirstOf
<1>5. k \in 1 .. Len(s) /\ s[k] = Semicolon /\ \A j \in 1 .. k - 1 : s[j] # Semicolon
  <2>1. ASSUME NEW j \in 1 .. k - 1, s[j] = Semicolon PROVE FALSE
    <3>1. j \in 1 .. Len(s) /\ j < k
      BY <1>1, <1>4
    <3>2. QED  BY <1>4, <2>1, <3>1
  <2>2. QED  BY <1>4, <2>1
<1> HIDE DEF Ks
<1> DEFINE i == k - 1
           a == upto(s, i)
           r == from(s, k + 1)
<1>6. i \in 0 .. Len(s) /\ k \in 0 .. Len(s)
  BY <1>1, <1>5
<1>7. a \in Text /\ Len(a) = i /\ \A j \in 1 .. i : a[j] = s[j]
  <2> HIDE DEF i
  <2>1. QED  BY <1>6, TextJoins
<1>8. r \in Text
  BY <1>6, TextJoins
<1>9. IsAfter(cut(s), cut(a), cut(r))
  BY <1>5, CutAt
<1>10. ~Has(a, Semicolon)
  BY <1>5, <1>7 DEF Has
<1> HIDE DEF a, r
<1>11. Len(cut(a)) = 1 /\ cut(a)[1] = a
  BY <1>7, <1>10, CutNone
<1> DEFINE g == cut(s)
           b == cut(a)
           c == cut(r)
<1>12. Len(c) \in Nat
  BY <1>8, CutIs
<1> HIDE DEF g, b, c
<1>13. Len(b) = 1 /\ b[1] = a
  BY <1>11 DEF b
<1>14. Len(g) = Len(c) + 1 /\ g[1] = a /\ \A j \in 1 .. Len(c) : c[j] = g[j + 1]
  <2>1. IsAfter(g, b, c)
    BY <1>9 DEF g, b, c
  <2>2. /\ Len(g) = 1 + Len(c) /\ g[1] = b[1]
        /\ \A j \in 1 .. Len(c) : g[1 + j] = c[j]
    BY <1>13, <2>1 DEF IsAfter
  <2>3. QED  BY <1>12, <1>13, <2>2
<1>15. Blank(a)
  BY <1>14 DEF g
<1>16. \A j \in 1 .. i : s[j] = Space
  BY <1>7, <1>15 DEF Blank
<1>17. QED  BY <1>5, <1>14, <1>16 DEF i, g, c, r

(* The bracket at pos_1 is the last one that opens: before and after it.   *)
LEMMA GroupNext ==
  ASSUME buff \in Text, pos_1 \in 1 .. Len(buff), buff[pos_1] = Open,
         \A k \in pos_1 + 1 .. Len(buff) : buff[k] # Open,
         NEW m, NEW turn, NEW group, NEW name, NEW val, NEW around,
         Block(buff, m, turn, group, name, val, around)
  PROVE  /\ IsOpen(buff, pos_1, pos_4)
         /\ pos_2 \in pos_1 + 1 .. Len(buff) /\ buff[pos_2] = Close
         /\ Begun(buff, pos_1, pos_4, m, turn, group, name, val)
         /\ Ended(buff, pos_1, pos_4, pos_2, m, turn, name, val)
<1>1. Len(buff) \in Nat /\ pos_1 \in Nat
  BY TextIs
<1>2. /\ pos_4 \in 0 .. pos_1
      /\ pos_4 # 0 => buff[pos_4] = Semicolon
      /\ \A k \in pos_4 + 1 .. pos_1 : buff[k] # Semicolon
  BY <1>1, FindLastIs DEF pos_4
<1>3. IsOpen(buff, pos_1, pos_4)
  <2>1. pos_4 # pos_1
    <3>1. Semicolon # Open
      BY Characters
    <3>2. QED  BY <1>1, <1>2, <3>1
  <2>2. pos_4 \in 0 .. pos_1 - 1
    BY <1>1, <1>2, <2>1
  <2>3. QED  BY <1>2, <2>2 DEF IsOpen
<1>4. Begun(buff, pos_1, pos_4, m, turn, group, name, val)
  BY <1>3, GroupBegun, Zenon
<1>5. Has(from(buff, pos_1 + 1), Close)
  BY <1>3, GroupCloses, Zenon
<1>6. /\ pos_2 \in pos_1 + 1 .. Len(buff) /\ buff[pos_2] = Close
      /\ \A k \in pos_1 + 1 .. pos_2 - 1 : buff[k] # Close
  BY <1>5, ClosesNext
<1>7. Ended(buff, pos_1, pos_4, pos_2, m, turn, name, val)
  BY <1>3, <1>6, GroupEnded, Zenon
<1>8. QED  BY <1>3, <1>4, <1>6, <1>7

(* Its name can be put in front of names. *)
LEMMA GroupNamed ==
  ASSUME NEW m, NEW turn, NEW group, NEW name, NEW val,
         IsOpen(buff, pos_1, pos_4), Begun(buff, pos_1, pos_4, m, turn, group, name, val)
  PROVE  /\ pre_delim \in Text /\ pre_delim # <<>>
         /\ pre_delim = group[Len(ahead(buff, pos_4)) + 1]
         /\ InFront(prefix)
<1> DEFINE w == SubSeq(buff, pos_4 + 1, pos_1 - 1)
           d == pre_delim
           o == <<".">>
<1>1. /\ buff \in Text /\ pos_1 \in 1 .. Len(buff) /\ pos_4 \in 0 .. pos_1 - 1
      /\ \A k \in pos_4 + 1 .. pos_1 : buff[k] # Semicolon
  BY DEF IsOpen
<1>2. Len(buff) \in Nat
  BY <1>1, TextIs
<1>3. /\ w \in Text
      /\ Len(w) = IF pos_4 + 1 <= pos_1 - 1 THEN (pos_1 - 1) - (pos_4 + 1) + 1 ELSE 0
      /\ \A k \in 1 .. Len(w) : w[k] = buff[k + (pos_4 + 1) - 1]
  <2> DEFINE i == pos_4 + 1
             j == pos_1 - 1
  <2>1. i \in Int /\ j \in Int /\ 1 <= i /\ j <= Len(buff)
    BY <1>1, <1>2
  <2> HIDE DEF i, j
  <2>2. /\ SubSeq(buff, i, j) \in Text
        /\ Len(SubSeq(buff, i, j)) = IF i <= j THEN j - i + 1 ELSE 0
        /\ \A k \in 1 .. Len(SubSeq(buff, i, j)) : SubSeq(buff, i, j)[k] = buff[k + i - 1]
    BY <1>1, <2>1, SubText
  <2>3. QED  BY <2>2 DEF i, j
<1>4. d = strtrim(w) /\ group[Len(ahead(buff, pos_4)) + 1] = strtrim(w) /\ strtrim(w) # <<>>
  BY DEF Begun, pre_delim
<1>5. ~Has(w, Open) /\ ~Has(w, Close) /\ ~Has(w, Equal)
  BY DEF Begun
<1>6. ~Has(w, Semicolon)
  <2>1. ASSUME NEW k \in 1 .. Len(w), w[k] = Semicolon PROVE FALSE
    <3> DEFINE l == k + (pos_4 + 1) - 1
    <3>1. l \in pos_4 + 1 .. pos_1
      <4> HIDE DEF w
      <4>1. Len(w) \in Nat /\ Len(w) <= pos_1 - pos_4 /\ k <= Len(w)
        BY <1>1, <1>2, <1>3
      <4>2. pos_4 \in Int /\ pos_1 \in Int /\ k \in Int /\ 1 <= k
        BY <1>1
      <4>3. QED  BY <4>1, <4>2
    <3>2. buff[l] = Semicolon
      BY <1>3, <2>1
    <3> HIDE DEF l
    <3>3. QED  BY <1>1, <3>1, <3>2
  <2>2. QED  BY <2>1 DEF Has
<1> HIDE DEF w, d
<1> DEFINE t == strtrim(w)
<1>7. /\ t \in Text /\ Len(t) \in Nat
      /\ t # <<>> => t[1] # Space
      /\ \E e \in Nat : e + Len(t) <= Len(w) /\ \A j \in 1 .. Len(t) : t[j] = w[e + j]
  BY <1>3, TrimIs, TrimShifts, TextIs
<1> HIDE DEF t
<1>8. d = t /\ d # <<>> /\ group[Len(ahead(buff, pos_4)) + 1] = t
  BY <1>4 DEF t
<1>9. ASSUME NEW x, ~Has(w, x) PROVE ~Has(d, x)
  <2>1. PICK e \in Nat : e + Len(t) <= Len(w) /\ \A j \in 1 .. Len(t) : t[j] = w[e + j]
    BY <1>7
  <2>2. ASSUME NEW j \in 1 .. Len(t), t[j] = x PROVE FALSE
    <3>1. Len(w) \in Nat
      BY <1>3, TextIs
    <3>2. e + j \in 1 .. Len(w)
      BY <1>7, <2>1, <3>1
    <3>3. QED  BY <1>9, <2>1, <2>2, <3>2 DEF Has
  <2>3. QED  BY <1>8, <2>2 DEF Has
<1>10. o \in Text /\ Len(o) = 1 /\ o[1] = "."
  BY Characters, OneChar
<1>11. "." # Open /\ "." # Close /\ "." # Semicolon /\ "." # Equal
  BY Zenon DEF Open, Close, Semicolon, Equal
<1> DEFINE dot == "."
<1>a. o[1] = dot /\ dot # Open /\ dot # Close /\ dot # Semicolon /\ dot # Equal
  BY <1>10, <1>11, Zenon
<1> HIDE DEF o, dot
<1>12. /\ d \o o \in Text /\ Len(d \o o) = Len(d) + 1
       /\ \A k \in 1 .. Len(d) : (d \o o)[k] = d[k]
       /\ (d \o o)[Len(d) + 1] = dot
  <2>1. d \in Text
    BY <1>7, <1>8
  <2>2. /\ d \o o \in Text /\ Len(d \o o) = Len(d) + Len(o)
        /\ \A k \in 1 .. Len(d) : (d \o o)[k] = d[k]
        /\ \A k \in 1 .. Len(o) : (d \o o)[Len(d) + k] = o[k]
    BY <1>10, <2>1, JoinText
  <2>3. 1 \in 1 .. Len(o)
    BY <1>10
  <2>4. QED  BY <1>10, <1>a, <2>2, <2>3
<1> DEFINE p == d \o o
<1> HIDE DEF p
<1>13. p \in Text /\ Len(p) = Len(d) + 1 /\ p[Len(d) + 1] = dot /\ \A k \in 1 .. Len(d) : p[k] = d[k]
  BY <1>12 DEF p
<1>14. d \in Text /\ Len(d) \in Nat /\ Len(d) >= 1
  BY <1>7, <1>8 DEF Text
<1>15. ASSUME NEW x, ~Has(w, x), x # dot PROVE ~Has(p, x)
  <2>1. ~Has(d, x)
    BY <1>9, <1>15
  <2>2. ASSUME NEW k \in 1 .. Len(p), p[k] = x PROVE FALSE
    <3>1. k \in 1 .. Len(d) \/ k = Len(d) + 1
      BY <1>13, <1>14
    <3>2. QED  BY <1>13, <1>15, <2>1, <2>2, <3>1 DEF Has
  <2>3. QED  BY <2>2 DEF Has
<1>16. ~Has(p, Open) /\ ~Has(p, Close) /\ ~Has(p, Semicolon) /\ ~Has(p, Equal)
  BY <1>5, <1>6, <1>a, <1>15
<1>17. p[1] # Space
  BY <1>7, <1>8, <1>13, <1>14
<1>18. InFront(p)
  BY <1>13, <1>14, <1>16, <1>17 DEF InFront
<1>19. p = prefix
  BY DEF p, prefix, d, o
<1>20. QED  BY <1>8, <1>14, <1>18, <1>19 DEF d

(* It is a group, and each of its expressions has its semicolon. *)
LEMMA GroupComplete ==
  ASSUME NEW m, NEW turn, NEW name, NEW val,
         IsOpen(buff, pos_1, pos_4), pos_2 \in pos_1 + 1 .. Len(buff),
         Ended(buff, pos_1, pos_4, pos_2, m, turn, name, val)
  PROVE  /\ exprs = cut(SubSeq(buff, pos_1 + 1, pos_2 - 1))
         /\ IsGroup /\ Complete(exprs)
<1> DEFINE x  == SubSeq(buff, pos_1 + 1, pos_2 - 1)
           es == cut(x)
           n  == Len(es)
           L  == Len(ahead(buff, pos_4))
<1>1. /\ buff \in Text /\ pos_1 \in 1 .. Len(buff) /\ Len(buff) \in Nat
      /\ pos_1 \in Int /\ pos_2 \in Int /\ 1 <= pos_1 /\ pos_1 < pos_2 /\ pos_2 <= Len(buff)
  <2>1. buff \in Text /\ pos_1 \in 1 .. Len(buff)
    BY DEF IsOpen
  <2>2. Len(buff) \in Nat
    BY <2>1, TextIs
  <2>3. QED  BY <2>1, <2>2
<1>2. /\ x \in Text
      /\ Len(x) = pos_2 - 1 - pos_1
      /\ \A k \in 1 .. Len(x) : x[k] = buff[k + (pos_1 + 1) - 1]
  <2> DEFINE i == pos_1 + 1
             j == pos_2 - 1
  <2>1. /\ i \in Int /\ j \in Int /\ 1 <= i /\ j <= Len(buff)
        /\ (IF i <= j THEN j - i + 1 ELSE 0) = pos_2 - 1 - pos_1
    BY <1>1
  <2> HIDE DEF i, j
  <2>2. /\ SubSeq(buff, i, j) \in Text
        /\ Len(SubSeq(buff, i, j)) = IF i <= j THEN j - i + 1 ELSE 0
        /\ \A k \in 1 .. Len(SubSeq(buff, i, j)) : SubSeq(buff, i, j)[k] = buff[k + i - 1]
    BY <1>1, <2>1, SubText
  <2>3. QED  BY <2>1, <2>2 DEF i, j
<1>3. /\ n \in Nat /\ n >= 2
      /\ \A i \in 1 .. n - 1 : IsAsg(es[i], name[L + i], val[L + i])
      /\ Blank(es[n])
  BY DEF Ended
<1>4. exprs = strsplit(x)
  BY DEF exprs
<1>5. Equal # Semicolon /\ Equal # Space
  BY Characters, Zenon DEF Equal
<1> HIDE DEF x
<1>6. /\ es \in Seq(Text) /\ \A i \in 1 .. n : es[i] \in Text
      /\ x # <<>> => strsplit(x) = es
  BY <1>2, CutIs
<1> HIDE DEF es, n, L
<1>7. ASSUME NEW i \in 1 .. n - 1 PROVE Has(es[i], Equal) /\ strtrim(es[i]) # <<>>
  <2> DEFINE u == es[i]
             a == name[L + i]
             b == val[L + i]
  <2>1. IsAsg(u, a, b)
    BY <1>3
  <2> HIDE DEF u, a, b
  <2>2. u \in Text /\ Has(u, Equal)
    BY <2>1 DEF IsAsg, Has
  <2>3. ~(\A k \in 1 .. Len(u) : u[k] = Space)
    BY <1>5, <2>2 DEF Has
  <2>4. strtrim(u) # <<>>
    BY <2>2, <2>3, TrimIs
  <2>5. QED  BY <2>2, <2>4 DEF u
<1>8. InPart(es, Equal)
  <2>1. 1 \in 1 .. n - 1 /\ 1 \in 1 .. Len(es)
    BY <1>3 DEF n
  <2>2. QED  BY <1>7, <2>1 DEF InPart
<1>9. Has(x, Equal)
  <2>1. InPart(cut(x), Equal)
    BY <1>8 DEF es
  <2>2. QED  BY <1>2, <1>5, <2>1, PartsHave
<1>10. exprs = es
  <2>1. x # <<>>
    BY <1>9 DEF Has
  <2>2. QED  BY <1>4, <1>6, <2>1
<1>11. IsGroup
  <2>1. PICK k \in 1 .. Len(x) : x[k] = Equal
    BY <1>9 DEF Has
  <2> DEFINE l == k + (pos_1 + 1) - 1
  <2>2. l \in pos_1 .. Len(buff) /\ l \in Nat /\ l < pos_2
    BY <1>1, <1>2
  <2>3. buff[l] = Equal
    BY <1>2, <2>1
  <2> HIDE DEF l
  <2> DEFINE Ks == {j \in pos_1 .. Len(buff) : buff[j] = Equal}
  <2>4. Ks \subseteq Nat /\ l \in Ks
    BY <1>1, <2>2, <2>3
  <2>5. PICK f \in Ks : \A j \in Ks : f <= j
    BY <2>4, FirstOf
  <2>6. f \in pos_1 .. Len(buff) /\ buff[f] = Equal /\ \A j \in pos_1 .. f - 1 : buff[j] # Equal
    <3>1. ASSUME NEW j \in pos_1 .. f - 1, buff[j] = Equal PROVE FALSE
      <4>1. j \in pos_1 .. Len(buff) /\ j < f
        BY <1>1, <2>5
      <4>2. QED  BY <2>5, <3>1, <4>1
    <3>2. QED  BY <2>5, <3>1
  <2>7. f <= l
    BY <2>4, <2>5
  <2> HIDE DEF Ks
  <2> DEFINE First1(i) == buff[i] = Equal /\ \A j \in pos_1 .. i - 1 : buff[j] # Equal
  <2>8. find(buff, Equal, pos_1) = CHOOSE i \in pos_1 .. Len(buff) : First1(i)
    BY <2>6 DEF find
  <2>9. First1(f) /\ \A i \in pos_1 .. Len(buff) : First1(i) => i = f
    BY <1>1, <2>6
  <2> HIDE DEF First1
  <2>10. find(buff, Equal, pos_1) = f
    BY <2>6, <2>8, <2>9
  <2>11. pos_3 = f
    BY <2>10, Zenon DEF pos_3, Equal
  <2>12. f # 0 /\ pos_2 > f
    BY <1>1, <2>2, <2>6, <2>7
  <2>13. QED  BY <2>11, <2>12 DEF IsGroup
<1>12. strtrim(es[n]) = <<>>
  <2>1. n \in 1 .. n
    BY <1>3
  <2>2. es[n] \in Text
    BY <1>6, <2>1
  <2> DEFINE u == es[n]
  <2>3. \A k \in 1 .. Len(u) : u[k] = Space
    BY <1>3 DEF Blank
  <2> HIDE DEF u
  <2>4. u \in Text
    BY <2>2 DEF u
  <2>5. strtrim(u) = <<>>
    BY <2>3, <2>4, TrimIs
  <2>6. QED  BY <2>5 DEF u
<1>13. Complete(es)
  <2>1. Last(es) = es[n]
    BY DEF Last, n
  <2>2. strtrim(Last(es)) = <<>>
    BY <1>12, <2>1
  <2>3. \A i \in 1 .. Len(es) - 1 : strtrim(es[i]) # <<>>
    BY <1>7 DEF n
  <2>4. QED  BY <2>2, <2>3 DEF Complete
<1>14. QED  BY <1>10, <1>11, <1>13 DEF es, x

LEMMA AheadIs ==
  ASSUME NEW s \in Text, NEW q \in 0 .. Len(s), q # 0 => s[q] = Semicolon
  PROVE  Len(ahead(s, q)) \in Nat
<1>1. <<>> \in Text
  BY NoText
<1>2. QED  BY <1>1, CutAfter

(* What follows the group has the parts that follow it. *)
LEMMA RestIs ==
  ASSUME NEW m \in Nat, NEW turn, NEW name, NEW val,
         IsOpen(buff, pos_1, pos_4), pos_2 \in pos_1 + 1 .. Len(buff),
         Ended(buff, pos_1, pos_4, pos_2, m, turn, name, val)
  PROVE  LET t == cut(from(buff, pos_2 + 1))
         IN  /\ rest \in Text /\ Len(t) = Len(cut(rest)) + 1
             /\ \A i \in 1 .. Len(cut(rest)) : cut(rest)[i] = t[i + 1]
<1> DEFINE R == from(buff, pos_2 + 1)
           t == cut(R)
<1>1. /\ buff \in Text /\ Len(buff) \in Nat
      /\ pos_2 \in Int /\ 1 <= pos_2 /\ pos_2 <= Len(buff)
  <2>1. buff \in Text /\ pos_1 \in 1 .. Len(buff)
    BY DEF IsOpen
  <2>2. Len(buff) \in Nat
    BY <2>1, TextIs
  <2>3. QED  BY <2>1, <2>2
<1>2. R \in Text /\ Len(R) = Len(buff) - pos_2 /\ \A k \in 1 .. Len(buff) - pos_2 : R[k] = buff[pos_2 + k]
  <2>1. pos_2 \in 0 .. Len(buff)
    BY <1>1
  <2>2. QED  BY <1>1, <2>1, TextJoins
<1>3. Len(t) >= 2 /\ Blank(t[1])
  <2> DEFINE L == Len(ahead(buff, pos_4))
             n == Len(cut(SubSeq(buff, pos_1 + 1, pos_2 - 1)))
  <2>1. n \in Nat /\ L + n <= m /\ Len(t) = m + 2 - L - n /\ Blank(t[1])
    BY DEF Ended
  <2>2. Len(t) \in Nat
    BY <1>2, CutIs
  <2> HIDE DEF L, n, t
  <2> DEFINE N == Len(t)
             O == L + n
  <2>3. L \in Nat /\ m \in Int
    <3>1. L \in Nat
      <4>1. pos_4 \in 0 .. Len(buff) /\ (pos_4 # 0 => buff[pos_4] = Semicolon)
        <5>1. pos_4 \in 0 .. pos_1 - 1 /\ pos_1 \in 1 .. Len(buff) /\ (pos_4 # 0 => buff[pos_4] = Semicolon)
          BY DEF IsOpen
        <5>2. QED  BY <1>1, <5>1
      <4>2. buff \in Text
        BY <1>1
      <4>3. Len(ahead(buff, pos_4)) \in Nat
        BY <4>1, <4>2, AheadIs, Zenon
      <4>4. QED  BY <4>3 DEF L
    <3>2. QED  BY <2>1, <2>2, <3>1
  <2>4. QED  BY <2>1, <2>2, <2>3
<1> HIDE DEF R
<1>4. PICK k \in 1 .. Len(R) :
        /\ R[k] = Semicolon /\ \A j \in 1 .. k - 1 : R[j] = Space
        /\ Len(cut(R)) = Len(cut(from(R, k + 1))) + 1
        /\ \A i \in 1 .. Len(cut(from(R, k + 1))) : cut(from(R, k + 1))[i] = cut(R)[i + 1]
  BY <1>2, <1>3, BlankFirst
<1> DEFINE l == pos_2 + k
           q == from(R, k + 1)
           y == from(buff, l + 1)
<1>5. l \in pos_2 + 1 .. Len(buff) /\ buff[l] = Semicolon /\ \A j \in pos_2 + 1 .. l - 1 : buff[j] = Space
  <2>1. l \in pos_2 + 1 .. Len(buff) /\ k \in 1 .. Len(buff) - pos_2
    BY <1>1, <1>2
  <2>2. buff[l] = Semicolon
    BY <1>2, <1>4, <2>1
  <2>3. ASSUME NEW j \in pos_2 + 1 .. l - 1 PROVE buff[j] = Space
    <3> DEFINE i == j - pos_2
    <3>1. i \in 1 .. k - 1 /\ i \in 1 .. Len(buff) - pos_2 /\ pos_2 + i = j
      BY <1>1, <2>1
    <3> HIDE DEF i
    <3>2. R[i] = Space /\ R[i] = buff[pos_2 + i]
      BY <1>2, <1>4, <3>1
    <3>3. QED  BY <3>1, <3>2
  <2>4. QED  BY <2>1, <2>2, <2>3
<1>6. q = y /\ y \in Text
  <2>1. k \in 0 .. Len(R) /\ l \in 0 .. Len(buff) /\ Len(R) - k = Len(buff) - l
    BY <1>1, <1>2, <1>5
  <2>2. q \in Text /\ Len(q) = Len(R) - k /\ \A i \in 1 .. Len(R) - k : q[i] = R[k + i]
    BY <1>2, <2>1, TextJoins
  <2>3. y \in Text /\ Len(y) = Len(buff) - l /\ \A i \in 1 .. Len(buff) - l : y[i] = buff[l + i]
    <3> HIDE DEF l
    <3>1. QED  BY <1>1, <2>1, TextJoins
  <2> HIDE DEF q, y
  <2>4. ASSUME NEW i \in 1 .. Len(q) PROVE q[i] = y[i]
    <3>1. i \in 1 .. Len(R) - k /\ i \in 1 .. Len(buff) - l
      BY <2>1, <2>2
    <3>2. k + i \in 1 .. Len(buff) - pos_2 /\ pos_2 + (k + i) = l + i
      BY <1>1, <1>2, <3>1
    <3> DEFINE g == k + i
    <3> HIDE DEF g
    <3>3. R[g] = buff[pos_2 + g]
      BY <1>2, <3>2 DEF g
    <3>4. q[i] = R[g] /\ y[i] = buff[l + i]
      BY <2>2, <2>3, <3>1 DEF g
    <3>5. QED  BY <3>2, <3>3, <3>4 DEF g
  <2>5. QED  BY <2>1, <2>2, <2>3, <2>4, SameText
<1>7. rest = y
  <2> DEFINE Ks == {j \in pos_2 + 1 .. Len(buff) : buff[j] # Space}
             least == IF Ks = {} THEN Len(buff) + 1 ELSE CHOOSE j \in Ks : \A i \in Ks : j <= i
  <2>1. rest = from(buff, IF least \in Ks /\ buff[least] = Semicolon THEN least + 1 ELSE least)
    BY DEF rest
  <2>2. l \in Ks
    BY <1>5, Characters
  <2>3. \A j \in Ks : l <= j
    <3>1. ASSUME NEW j \in Ks, ~(l <= j) PROVE FALSE
      <4>1. j \in pos_2 + 1 .. l - 1 /\ buff[j] # Space
        BY <1>1, <1>5, <3>1
      <4>2. QED  BY <1>5, <4>1
    <3>2. QED  BY <3>1
  <2>4. \A j \in Ks : j \in Int
    BY <1>1
  <2>5. l \in Int
    BY <1>1
  <2> HIDE DEF Ks, l
  <2> DEFINE IsLeast(j) == \A i \in Ks : j <= i
  <2>a. Ks # {} /\ IsLeast(l) /\ \A j \in Ks : IsLeast(j) => j = l
    BY <2>2, <2>3, <2>4, <2>5
  <2>b. least = CHOOSE j \in Ks : IsLeast(j)
    BY <2>a
  <2> HIDE DEF IsLeast, least
  <2>6. least = l
    BY <2>2, <2>a, <2>b
  <2>7. QED  BY <1>5, <2>1, <2>2, <2>6
<1>8. QED  BY <1>4, <1>6, <1>7 DEF R, q, t

LEMMA AsgText ==
  ASSUME NEW u, NEW n, NEW v, IsAsg(u, n, v)
  PROVE  u \in Text /\ n \in Text /\ ~Has(u, Open) /\ ~Has(u, Close)
<1>1. u \in Text /\ ~Has(u, Open) /\ ~Has(u, Close)
  BY DEF IsAsg
<1>2. PICK k \in 1 .. Len(u) : strtrim(upto(u, k - 1)) = n
  BY DEF IsAsg
<1> DEFINE i == k - 1
           w == upto(u, i)
<1>3. i \in 0 .. Len(u)
  BY <1>1, TextIs
<1> HIDE DEF i
<1>4. w \in Text
  BY <1>1, <1>3, TextJoins
<1> HIDE DEF w
<1>5. strtrim(w) \in Text
  BY <1>4, TrimIs
<1>6. QED  BY <1>1, <1>2, <1>5 DEF w, i

(* The parts before the group, those that its assignments became, and the  *)
(* parts after it.                                                         *)
PartsAre(c2, c, a, g, r, t, L, n, m, p, name, val) ==
  /\ Len(a) = L /\ IsAfter(c2, a, g) /\ \A i \in 1 .. L : c[i] = a[i]
  /\ Len(r) \in Nat /\ Len(g) = n - 1 + Len(r)
  /\ \A i \in 1 .. n - 1 : IsAsg(g[i], p \o name[L + i], val[L + i])
  /\ \A i \in 1 .. Len(r) : g[n - 1 + i] = r[i]
  /\ Len(t) = Len(r) + 1 /\ \A i \in 1 .. Len(r) : r[i] = t[i + 1]
  /\ Len(t) = m + 2 - L - n /\ \A i \in 2 .. Len(t) : c[L + n - 1 + i] = t[i]

LEMMA PartsNowFrom ==
  ASSUME NEW L \in Nat, NEW n \in Nat, NEW m \in Nat, n >= 2, L + n <= m,
         NEW c2, NEW c, NEW a, NEW g, NEW r, NEW t, NEW name, NEW val, NEW p,
         PartsAre(c2, c, a, g, r, t, L, n, m, p, name, val)
  PROVE  PartsNow(c2, c, L, n, m, p, name, val)
<1> DEFINE A == Len(a)
           G == Len(g)
           R == Len(r)
           T == Len(t)
<1>a. /\ Len(a) = L /\ IsAfter(c2, a, g) /\ \A i \in 1 .. L : c[i] = a[i]
      /\ Len(r) \in Nat /\ Len(g) = n - 1 + Len(r)
      /\ \A i \in 1 .. n - 1 : IsAsg(g[i], p \o name[L + i], val[L + i])
      /\ \A i \in 1 .. Len(r) : g[n - 1 + i] = r[i]
      /\ Len(t) = Len(r) + 1 /\ \A i \in 1 .. Len(r) : r[i] = t[i + 1]
      /\ Len(t) = m + 2 - L - n /\ \A i \in 2 .. Len(t) : c[L + n - 1 + i] = t[i]
  BY Zenon DEF PartsAre
<1>1. /\ Len(c2) = A + G
      /\ \A i \in 1 .. A : c2[i] = a[i]
      /\ \A i \in 1 .. G : c2[A + i] = g[i]
  BY <1>a DEF IsAfter
<1>2. A = L /\ R \in Nat /\ G = n - 1 + R /\ T = R + 1 /\ T = m + 2 - L - n
  BY <1>a
<1> HIDE DEF A, G, R, T
<1>3. Len(c2) = m
  <2>1. Len(c2) = A + G
    BY <1>1
  <2>2. QED  BY <1>2, <2>1
<1>4. \A i \in 1 .. L : c2[i] = c[i]
  BY <1>1, <1>2, <1>a
<1>5. ASSUME NEW i \in 1 .. n - 1 PROVE IsAsg(c2[L + i], p \o name[L + i], val[L + i])
  <2>1. i \in 1 .. G
    BY <1>2
  <2>2. c2[L + i] = g[i]
    BY <1>1, <1>2, <2>1
  <2>3. QED  BY <1>a, <2>2
<1>6. ASSUME NEW i \in L + n .. m PROVE c2[i] = c[i + 1]
  <2> DEFINE k == i - L
             j == i - L - (n - 1)
             l == j + 1
  <2>1. /\ k \in 1 .. G /\ A + k = i
        /\ j \in 1 .. R /\ n - 1 + j = k
        /\ l \in 2 .. T /\ L + n - 1 + l = i + 1
    BY <1>2
  <2> HIDE DEF k
  <2>2. c2[i] = g[k]
    BY <1>1, <2>1
  <2> HIDE DEF j
  <2>3. g[n - 1 + j] = r[j] /\ r[j] = t[j + 1]
    BY <1>a, <2>1 DEF R
  <2> HIDE DEF l
  <2>4. c[L + n - 1 + l] = t[l]
    BY <1>a, <2>1 DEF T
  <2>5. QED  BY <2>1, <2>2, <2>3, <2>4 DEF l
<1>7. QED  BY <1>3, <1>4, <1>5, <1>6 DEF PartsNow

(* What buff is when the group was expanded. *)
rewritten == upto(buff, pos_4) \o expanded(exprs) \o rest

(* The last group of what buff says can be expanded: then its assignments  *)
(* have its name in front, and no bracket opens after them.                *)
GroupGoes(m, turn, group, name, val) ==
  LET L == Len(ahead(buff, pos_4))
      n == Len(exprs)
  IN  /\ IsGroup /\ pre_delim # <<>> /\ Complete(exprs)
      /\ rewritten \in Text /\ pos_4 \in 0 .. Len(rewritten)
      /\ pos_4 # 0 => rewritten[pos_4] # Open
      /\ \A k \in pos_4 + 1 .. Len(rewritten) : rewritten[k] # Open
      /\ GroupAt(L, n, m, turn, name)
      /\ group[L + 1] \in Text
      /\ PartsNow(cut(rewritten), cut(buff), L, n, m, group[L + 1] \o <<".">>, name, val)

LEMMA ExpandParts ==
  ASSUME buff \in Text, pos_1 \in 1 .. Len(buff), buff[pos_1] = Open,
         \A k \in pos_1 + 1 .. Len(buff) : buff[k] # Open,
         NEW m, NEW turn, NEW group, NEW name, NEW val, NEW around,
         Block(buff, m, turn, group, name, val, around)
  PROVE  GroupGoes(m, turn, group, name, val)
<1> DEFINE x == SubSeq(buff, pos_1 + 1, pos_2 - 1)
           t == cut(from(buff, pos_2 + 1))
           a == ahead(buff, pos_4)
           L == Len(a)
           n == Len(exprs)
           E == expanded(exprs)
           F == E \o rest
           r == cut(rest)
           g == cut(F)
           c == cut(buff)
           c2 == cut(rewritten)
           up == upto(buff, pos_4)
           as == [i \in 1 .. n - 1 |-> name[L + i]]
           av == [i \in 1 .. n - 1 |-> val[L + i]]
<1>1. /\ IsOpen(buff, pos_1, pos_4)
      /\ pos_2 \in pos_1 + 1 .. Len(buff) /\ buff[pos_2] = Close
      /\ Begun(buff, pos_1, pos_4, m, turn, group, name, val)
      /\ Ended(buff, pos_1, pos_4, pos_2, m, turn, name, val)
  BY GroupNext, Zenon
<1>2. m \in Nat
  BY DEF Block
<1>3. /\ pre_delim \in Text /\ pre_delim # <<>> /\ pre_delim = group[L + 1]
      /\ InFront(prefix)
  BY <1>1, GroupNamed, Zenon
<1>4. exprs = cut(x) /\ IsGroup /\ Complete(exprs)
  BY <1>1, GroupComplete, Zenon
<1>5. /\ rest \in Text /\ Len(t) = Len(r) + 1
      /\ \A i \in 1 .. Len(r) : r[i] = t[i + 1]
  BY <1>1, <1>2, RestIs, Zenon
<1>6. /\ pos_4 \in 0 .. pos_1 - 1 /\ (pos_4 # 0 => buff[pos_4] = Semicolon)
      /\ Len(buff) \in Nat /\ pos_1 \in Int /\ pos_2 \in Int /\ pos_4 \in Int
      /\ 1 <= pos_1 /\ pos_1 < pos_2 /\ pos_2 <= Len(buff) /\ 0 <= pos_4 /\ pos_4 < pos_1
  <2>1. pos_4 \in 0 .. pos_1 - 1 /\ (pos_4 # 0 => buff[pos_4] = Semicolon)
    BY <1>1 DEF IsOpen
  <2>2. Len(buff) \in Nat
    BY TextIs
  <2>3. QED  BY <1>1, <2>1, <2>2
<1>7. pos_4 \in 0 .. Len(buff)
  BY <1>6
<1>8. L \in Nat /\ turn[L + 1] = 1
  BY <1>1 DEF Begun
<1>9. /\ n \in Nat /\ n >= 2 /\ L + n <= m /\ Len(t) = m + 2 - L - n
      /\ \A i \in 1 .. n - 1 : IsAsg(exprs[i], name[L + i], val[L + i])
      /\ \A i \in 2 .. n - 1 : turn[L + i] = 0
      /\ turn[L + n] = -1
      /\ \A i \in 2 .. Len(t) : c[L + n - 1 + i] = t[i]
  BY <1>1, <1>4, Zenon DEF Ended
<1>10. x \in Text /\ exprs \in Seq(Text)
  <2> DEFINE i == pos_1 + 1
             j == pos_2 - 1
  <2>1. i \in Int /\ j \in Int /\ 1 <= i /\ j <= Len(buff)
    BY <1>6
  <2> HIDE DEF i, j
  <2>2. SubSeq(buff, i, j) \in Text
    BY <2>1, SubText
  <2>3. x \in Text
    BY <2>2 DEF i, j
  <2> HIDE DEF x
  <2>4. cut(x) \in Seq(Text)
    BY <2>3, CutIs
  <2>5. QED  BY <1>4, <2>3, <2>4
<1>11. E \in Text
  BY <1>3, <1>9, <1>10, ExpandedIs
<1>12. up \in Text /\ Len(up) = pos_4
  BY <1>7, TextJoins
<1>13. F \in Text /\ rewritten = up \o F /\ Len(r) \in Nat
  <2>1. F \in Text
    BY <1>5, <1>11, JoinText
  <2>2. (up \o E) \o rest = up \o (E \o rest)
    BY <1>5, <1>11, <1>12, JoinAssoc
  <2>3. Len(r) \in Nat
    BY <1>5, CutIs
  <2>4. QED  BY <2>1, <2>2, <2>3 DEF rewritten
<1> HIDE DEF x, t, a, n, L, E, F, r, g, c, c2
<1>14. rewritten \in Text /\ IsAfter(c2, a, g)
  <2>1. /\ up \o F \in Text
        /\ IsAfter(cut(up \o F), ahead(buff, pos_4), cut(F))
    BY <1>6, <1>7, <1>13, CutAfter, Zenon
  <2>2. QED  BY <1>13, <2>1 DEF c2, a, g
<1>15. \A i \in 1 .. L : c[i] = a[i]
  <2> DEFINE w == from(buff, pos_4 + 1)
  <2>1. w \in Text /\ buff = up \o w
    BY <1>7, TextJoins
  <2> HIDE DEF w
  <2>2. IsAfter(cut(up \o w), ahead(buff, pos_4), cut(w))
    BY <1>6, <1>7, <2>1, CutAfter, Zenon
  <2>3. IsAfter(c, a, cut(w))
    BY <2>1, <2>2 DEF c, a
  <2>4. QED  BY <2>3 DEF IsAfter, L
<1>16. Begin(g, n - 1, as, av, r)
  <2> HIDE DEF as, av
  <2>1. \A k \in 1 .. Len(exprs) - 1 : IsAsg(exprs[k], as[k], av[k])
    <3>1. ASSUME NEW k \in 1 .. n - 1 PROVE IsAsg(exprs[k], as[k], av[k])
      <4>1. as[k] = name[L + k] /\ av[k] = val[L + k]
        BY DEF as, av
      <4>2. QED  BY <1>9, <4>1
    <3>2. QED  BY <3>1 DEF n
  <2>2. Len(exprs) >= 1
    BY <1>9 DEF n
  <2>3. Begin(cut(expanded(exprs) \o rest), Len(exprs) - 1, as, av, cut(rest))
    BY <1>3, <1>5, <1>10, <2>1, <2>2, CutExpanded, Zenon
  <2>4. QED  BY <2>3 DEF g, n, r, F, E
<1>17. /\ Len(g) = n - 1 + Len(r)
       /\ \A i \in 1 .. n - 1 : IsAsg(g[i], prefix \o name[L + i], val[L + i])
       /\ \A i \in 1 .. Len(r) : g[n - 1 + i] = r[i]
  <2>1. /\ Len(g) = n - 1 + Len(r)
        /\ \A i \in 1 .. n - 1 : IsAsg(g[i], prefix \o as[i], av[i])
        /\ \A i \in 1 .. Len(r) : g[n - 1 + i] = r[i]
    <3> HIDE DEF as, av
    <3>1. QED  BY <1>16 DEF Begin
  <2>2. \A i \in 1 .. n - 1 : as[i] = name[L + i] /\ av[i] = val[L + i]
    OBVIOUS
  <2> HIDE DEF as, av
  <2>3. QED  BY <2>1, <2>2
<1> HIDE DEF as, av, up
<1>18. PartsNow(c2, c, L, n, m, prefix, name, val)
  <2>1. Len(a) = L
    BY DEF L
  <2>2. /\ Len(r) \in Nat /\ Len(t) = Len(r) + 1 /\ Len(t) = m + 2 - L - n
        /\ \A i \in 1 .. Len(r) : r[i] = t[i + 1]
        /\ \A i \in 2 .. Len(t) : c[L + n - 1 + i] = t[i]
    BY <1>5, <1>9, <1>13
  <2>3. L \in Nat /\ n \in Nat /\ m \in Nat /\ n >= 2 /\ L + n <= m
    BY <1>2, <1>8, <1>9
  <2>4. PartsAre(c2, c, a, g, r, t, L, n, m, prefix, name, val)
    BY <1>14, <1>15, <1>17, <2>1, <2>2, Zenon DEF PartsAre
  <2>5. QED  BY <2>3, <2>4, PartsNowFrom, Zenon
<1>19. GroupAt(L, n, m, turn, name)
  <2>1. ASSUME NEW i \in 1 .. n - 1 PROVE name[L + i] \in Text
    <3>1. IsAsg(exprs[i], name[L + i], val[L + i])
      BY <1>9
    <3>2. QED  BY <3>1, AsgText, Zenon
  <2>2. QED  BY <1>2, <1>8, <1>9, <2>1 DEF GroupAt
<1>20. ~Has(F, Open)
  <2>1. Open # Semicolon
    BY Characters
  <2>2. ~InPart(t, Open)
    <3> DEFINE R == from(buff, pos_2 + 1)
    <3>1. pos_2 \in 0 .. Len(buff)
      BY <1>6
    <3>2. R \in Text /\ Len(R) = Len(buff) - pos_2 /\ \A k \in 1 .. Len(buff) - pos_2 : R[k] = buff[pos_2 + k]
      BY <3>1, TextJoins
    <3> HIDE DEF R
    <3>3. ASSUME NEW k \in 1 .. Len(R) PROVE R[k] # Open
      <4> DEFINE l == pos_2 + k
      <4>1. l \in pos_1 + 1 .. Len(buff) /\ k \in 1 .. Len(buff) - pos_2
        BY <1>6, <3>2
      <4>2. R[k] = buff[l]
        BY <3>2, <4>1
      <4> HIDE DEF l
      <4>3. QED  BY <4>1, <4>2
    <3>4. ~Has(R, Open)
      BY <3>3 DEF Has
    <3>5. ~InPart(cut(R), Open)
      BY <2>1, <3>2, <3>4, PartsHave
    <3>6. QED  BY <3>5 DEF t, R
  <2>3. ASSUME NEW i \in 1 .. Len(g) PROVE ~Has(g[i], Open)
    <3>1. CASE i \in 1 .. n - 1
      <4>1. IsAsg(g[i], prefix \o name[L + i], val[L + i])
        BY <1>17, <3>1
      <4>2. QED  BY <4>1, AsgText, Zenon
    <3>2. CASE i \notin 1 .. n - 1
      <4> DEFINE j == i - (n - 1)
                 l == j + 1
      <4>1. j \in 1 .. Len(r) /\ n - 1 + j = i /\ l \in 1 .. Len(t)
        BY <1>5, <1>9, <1>13, <1>17, <3>2
      <4> HIDE DEF j
      <4>2. g[i] = t[l]
        BY <1>5, <1>17, <4>1
      <4> HIDE DEF l
      <4>3. QED  BY <2>2, <4>1, <4>2 DEF InPart
    <3>3. QED  BY <3>1, <3>2
  <2>4. ~InPart(cut(F), Open)
    BY <2>3 DEF InPart, g
  <2>5. QED  BY <1>13, <2>1, <2>4, PartsHave
<1>21. /\ pos_4 \in 0 .. Len(rewritten)
       /\ \A k \in pos_4 + 1 .. Len(rewritten) : rewritten[k] # Open
  <2>1. /\ Len(up \o F) = Len(up) + Len(F)
        /\ \A k \in 1 .. Len(F) : (up \o F)[Len(up) + k] = F[k]
    BY <1>12, <1>13, JoinText
  <2> DEFINE u == rewritten
  <2>2. Len(u) = pos_4 + Len(F) /\ \A k \in 1 .. Len(F) : u[pos_4 + k] = F[k]
    BY <1>12, <1>13, <2>1
  <2> HIDE DEF u
  <2>3. Len(F) \in Nat
    BY <1>13, TextIs
  <2>4. ASSUME NEW k \in pos_4 + 1 .. Len(u) PROVE u[k] # Open
    <3> DEFINE j == k - pos_4
    <3>1. j \in 1 .. Len(F) /\ pos_4 + j = k
      BY <1>6, <2>2, <2>3
    <3> HIDE DEF j
    <3>2. QED  BY <1>20, <2>2, <3>1 DEF Has
  <2>5. pos_4 \in 0 .. Len(u)
    BY <1>6, <2>2, <2>3
  <2>6. QED  BY <2>4, <2>5 DEF u
<1>b. pos_4 # 0 => rewritten[pos_4] # Open
  <2>1. ASSUME pos_4 # 0 PROVE rewritten[pos_4] # Open
    <3>1. pos_4 \in 1 .. pos_4
      BY <1>6, <2>1
    <3>2. up[pos_4] = buff[pos_4]
      BY <1>7, <3>1, TextJoins DEF up
    <3>3. (up \o F)[pos_4] = up[pos_4]
      BY <1>12, <1>13, <3>1, JoinText
    <3>4. Semicolon # Open
      BY Characters
    <3>5. QED  BY <1>6, <1>13, <2>1, <3>2, <3>3, <3>4
  <2>2. QED  BY <2>1
<1>22. group[L + 1] \in Text /\ prefix = group[L + 1] \o <<".">>
  BY <1>3 DEF prefix, L, a
<1>23. QED  BY <1>3, <1>4, <1>14, <1>18, <1>19, <1>21, <1>22, <1>b DEF GroupGoes, c2, c, L, a, n

(* No bracket opens after position p. *)
LastOpen(b, p) == \A k \in p + 1 .. Len(b) : b[k] # Open

(* A group is expanded, and what is said stays. *)
LEMMA GroupStep ==
  ASSUME buff \in Text, pos_1 \in 1 .. Len(buff), buff[pos_1] = Open, LastOpen(buff, pos_1),
         NEW ps, Told(buff, ps)
  PROVE  /\ IsGroup /\ pre_delim # <<>> /\ Complete(exprs)
         /\ Told(rewritten, ps)
         /\ rewritten \in Text /\ pos_4 \in 0 .. Len(rewritten)
         /\ pos_4 # 0 => rewritten[pos_4] # Open
         /\ LastOpen(rewritten, pos_4)
<1>1. PICK m, turn, group, name, val, around :
        /\ Block(buff, m, turn, group, name, val, around)
        /\ Pairing(ps, m, turn, name, val, around)
  BY Zenon DEF Told
<1>2. \A k \in pos_1 + 1 .. Len(buff) : buff[k] # Open
  BY DEF LastOpen
<1>3. GroupGoes(m, turn, group, name, val)
  BY <1>1, <1>2, ExpandParts, Zenon
<1> DEFINE L == Len(ahead(buff, pos_4))
           n == Len(exprs)
<1>4. /\ IsGroup /\ pre_delim # <<>> /\ Complete(exprs)
      /\ rewritten \in Text /\ pos_4 \in 0 .. Len(rewritten)
      /\ pos_4 # 0 => rewritten[pos_4] # Open
      /\ \A k \in pos_4 + 1 .. Len(rewritten) : rewritten[k] # Open
      /\ GroupAt(L, n, m, turn, name)
      /\ group[L + 1] \in Text
      /\ PartsNow(cut(rewritten), cut(buff), L, n, m, group[L + 1] \o <<".">>, name, val)
  BY <1>3, Zenon DEF GroupGoes
<1>5. Told(rewritten, ps)
  <2> HIDE DEF L, n
  <2>1. QED  BY <1>1, <1>4, ToldNow, Zenon
<1>6. QED  BY <1>4, <1>5, Zenon DEF LastOpen

LEMMA BeforeLast ==
  ASSUME NEW b \in Text, NEW i \in 1 .. Len(b), b[i] # Open, LastOpen(b, i)
  PROVE  LastOpen(b, before(b, i))
<1> DEFINE j == IF i = 1 THEN Len(b) ELSE i - 1
           f == find_last(b, Open, j)
<1>1. Len(b) \in Nat /\ i \in Int
  BY TextIs
<1>2. j \in Nat
  BY <1>1
<1>3. before(b, i) = f
  BY DEF before
<1> HIDE DEF j
<1>4. f \in 0 .. j /\ \A k \in f + 1 .. j : b[k] # Open
  BY <1>2, FindLastIs
<1> HIDE DEF f
<1>5. ASSUME NEW k \in f + 1 .. Len(b) PROVE b[k] # Open
  <2>1. k \in f + 1 .. j \/ k = i \/ k \in i + 1 .. Len(b)
    BY <1>1, <1>2, <1>4 DEF j
  <2>2. QED  BY <1>4, <2>1 DEF LastOpen
<1>6. QED  BY <1>3, <1>5 DEF LastOpen

LEMMA ExpandTold ==
  ASSUME ReaderInv, Expand, LastOpen(buff, pos_1), NEW ps, Told(buff, ps)
  PROVE  Told(buff', ps) /\ LastOpen(buff', pos_1')
<1>1. rpc = "group" /\ pos_1 # 0
  BY DEF Expand
<1>2. buff \in Text /\ pos_1 \in 1 .. Len(buff) /\ buff[pos_1] = Open
  BY <1>1, AtGroup
<1>3. /\ Told(rewritten, ps)
      /\ rewritten \in Text /\ pos_4 \in 0 .. Len(rewritten)
      /\ pos_4 # 0 => rewritten[pos_4] # Open
      /\ LastOpen(rewritten, pos_4)
  BY <1>2, GroupStep, Zenon
<1>4. buff' = rewritten
  <2>1. str' = expanded(exprs) /\ buff' = upto(buff, pos_4) \o str' \o rest
    BY DEF Expand
  <2>2. QED  BY <2>1 DEF rewritten
<1>5. pos_1' = IF pos_4 = 0 THEN 0 ELSE before(buff', pos_4)
  BY DEF Expand
<1> DEFINE u == rewritten
           q == pos_4
           p == pos_1'
<1>6. LastOpen(u, p)
  <2>1. p = IF q = 0 THEN 0 ELSE before(u, q)
    BY <1>4, <1>5
  <2>2. u \in Text /\ q \in 0 .. Len(u) /\ (q # 0 => u[q] # Open) /\ LastOpen(u, q)
    BY <1>3
  <2> HIDE DEF u, q, p
  <2>3. CASE q = 0
    BY <2>1, <2>2, <2>3
  <2>4. CASE q # 0
    <3>1. q \in 1 .. Len(u)
      BY <2>2, <2>4
    <3>2. LastOpen(u, before(u, q))
      BY <2>2, <2>4, <3>1, BeforeLast
    <3>3. QED  BY <2>1, <2>4, <3>2
  <2>5. QED  BY <2>3, <2>4
<1>7. QED  BY <1>3, <1>4, <1>6, Zenon

(***************************************************************************)
(* The parts when no group is left, and the pairs that they are.           *)
(***************************************************************************)

(* The parts qs are assignments, of the pairs ps, each one once. *)
Paired(qs, ps, n, v) ==
  /\ \A i \in 1 .. Len(qs) : IsAsg(qs[i], n[i], v[i])
  /\ ps = {pair(n[i], v[i]) : i \in 1 .. Len(qs)}
  /\ \A i, j \in 1 .. Len(qs) : pair(n[i], v[i]) = pair(n[j], v[j]) => i = j

PairsLeft(qs, ps) == \E n, v : Paired(qs, ps, n, v)

(* A text of assignments alone. *)
Assignments(c, m, turn, name, val, around) ==
  \A i \in 1 .. m : /\ turn[i] = 0 /\ IsAsg(c[i], name[i], val[i])
                    /\ around[i] = << <<>> >>

LEMMA NoGroup ==
  ASSUME NEW b, NEW m, NEW turn, NEW group, NEW name, NEW val, NEW around,
         Block(b, m, turn, group, name, val, around), LastOpen(b, 0)
  PROVE  Assignments(cut(b), m, turn, name, val, around)
<1> DEFINE c == cut(b)
           o == << <<>> >>
<1>1. /\ b \in Text /\ m \in Nat /\ Len(c) = m + 1
      /\ around[0] = o
      /\ \A i \in 1 .. m : Says(c[i], turn[i], group[i], name[i], val[i])
      /\ \A i \in 1 .. m : Nests(around[i - 1], around[i], turn[i], group[i])
  BY DEF Block
<1>2. Open # Semicolon
  BY Characters
<1>3. ~Has(b, Open)
  <2>1. \A k \in 0 + 1 .. Len(b) : b[k] # Open
    BY DEF LastOpen
  <2>2. QED  BY <2>1 DEF Has
<1>4. ~InPart(c, Open)
  BY <1>1, <1>2, <1>3, PartsHave
<1>5. \A i \in 1 .. Len(c) : c[i] \in Text
  BY <1>1, CutIs
<1>6. Len(o) = 1
  OBVIOUS
<1> HIDE DEF c, o
<1>7. ASSUME NEW i \in 1 .. m
      PROVE  /\ turn[i] \in {-1, 0} /\ (turn[i] = 0 => IsAsg(c[i], name[i], val[i]))
  <2>1. i \in 1 .. Len(c)
    BY <1>1
  <2> DEFINE u == c[i]
             t == turn[i]
             g == group[i]
             n == name[i]
             v == val[i]
  <2>2. Says(u, t, g, n, v) /\ u \in Text /\ ~Has(u, Open)
    BY <1>1, <1>4, <1>5, <2>1 DEF InPart
  <2> HIDE DEF u, t, g, n, v
  <2>3. t \in {-1, 0, 1} /\ (t = 0 => IsAsg(u, n, v)) /\ (Has(u, Open) <=> t = 1)
    BY <2>2, SaysHas
  <2>4. QED  BY <2>2, <2>3 DEF u, t, n, v
<1> DEFINE P == {i \in 0 .. m : around[i] = o /\ (i # 0 => turn[i] = 0)}
<1>8. 0 \in P
  BY <1>1
<1>9. ASSUME NEW i \in 1 .. m, i - 1 \in P PROVE i \in P
  <2> DEFINE j == i - 1
  <2>1. j \in 0 .. m /\ i \in 0 .. m /\ j = i - 1
    BY <1>1
  <2>2. around[j] = o
    BY <1>9
  <2> HIDE DEF j
  <2>3. Nests(o, around[i], turn[i], group[i])
    BY <1>1, <2>1, <2>2
  <2>4. turn[i] # -1
    <3>1. SUFFICES ASSUME turn[i] = -1 PROVE FALSE
      OBVIOUS
    <3>2. turn[i] # 0 /\ turn[i] # 1
      BY <3>1
    <3>3. Len(o) >= 2
      BY <2>3, <3>2, Zenon DEF Nests
    <3>4. QED  BY <1>6, <3>3
  <2>5. turn[i] = 0
    BY <1>7, <2>4
  <2>6. around[i] = o
    <3>1. turn[i] # 1 /\ turn[i] # -1
      BY <2>5
    <3>2. QED  BY <2>3, <3>1, Zenon DEF Nests
  <2>7. QED  BY <2>1, <2>5, <2>6
<1> HIDE DEF P
<1>10. 0 .. m \subseteq P
  BY <1>1, <1>8, <1>9, Induct
<1>11. ASSUME NEW i \in 1 .. m PROVE turn[i] = 0 /\ around[i] = o
  <2>1. i \in 0 .. m /\ i # 0
    BY <1>1
  <2>2. QED  BY <1>10, <2>1 DEF P
<1>12. \A i \in 1 .. m : turn[i] = 0 /\ IsAsg(c[i], name[i], val[i]) /\ around[i] = o
  BY <1>7, <1>11
<1>13. QED  BY <1>12, Zenon DEF Assignments, c, o

LEMMA SplitPairs ==
  ASSUME NEW b \in Text, b # <<>>, LastOpen(b, 0), NEW ps, Told(b, ps)
  PROVE  Last(strsplit(b)) = <<>> /\ PairsLeft(Front(strsplit(b)), ps)
<1>1. PICK m, turn, group, name, val, around :
        /\ Block(b, m, turn, group, name, val, around)
        /\ Pairing(ps, m, turn, name, val, around)
  BY Zenon DEF Told
<1> DEFINE c == cut(b)
           o == << <<>> >>
           z == <<>>
           f == Front(c)
<1>2. m \in Nat /\ Len(c) = m + 1 /\ c[m + 1] = z
  BY <1>1 DEF Block
<1>3. \A i \in 1 .. m : turn[i] = 0 /\ IsAsg(c[i], name[i], val[i]) /\ around[i] = o
  <2>1. Assignments(c, m, turn, name, val, around)
    BY <1>1, NoGroup, Zenon
  <2>2. QED  BY <2>1, Zenon DEF Assignments
<1>4. strsplit(b) = c /\ c \in Seq(Text)
  BY CutIs
<1>5. Last(o) = z /\ z \in Text
  BY NoText DEF Last
<1> HIDE DEF c, o, z
<1>6. Last(c) = z
  BY <1>2 DEF Last
<1>7. Len(f) = m /\ \A i \in 1 .. m : f[i] = c[i]
  <2>1. Len(c) - 1 = m
    BY <1>2
  <2>2. f = SubSeq(c, 1, m)
    BY <2>1 DEF Front
  <2>3. QED  BY <1>2, <1>4, <2>2
<1> HIDE DEF f
<1>8. ASSUME NEW i \in 1 .. m PROVE pairOf(around[i], name[i], val[i]) = pair(name[i], val[i])
  <2> DEFINE e == name[i]
  <2>1. IsAsg(c[i], e, val[i]) /\ around[i] = o
    BY <1>3
  <2> HIDE DEF e
  <2>2. e \in Text
    BY <2>1, AsgText, Zenon
  <2>3. z \o e = e
    BY <2>2, JoinNothing DEF z
  <2>4. Last(around[i]) \o e = e
    BY <1>5, <2>1, <2>3
  <2>5. QED  BY <2>4, Zenon DEF pairOf, pair, e
<1>9. {i \in 1 .. m : turn[i] # -1} = 1 .. m
  BY <1>3
<1> DEFINE was(i) == pairOf(around[i], name[i], val[i])
           is(i)  == pair(name[i], val[i])
           set    == {i \in 1 .. m : turn[i] # -1}
<1>10. ps = {was(i) : i \in set} /\ \A i, j \in set : was(i) = was(j) => i = j
  BY <1>1, Zenon DEF Pairing
<1>11. set = 1 .. m /\ \A i \in 1 .. m : was(i) = is(i)
  BY <1>8, <1>9
<1> HIDE DEF was, is, set
<1>12. ps = {is(i) : i \in 1 .. m} /\ \A i, j \in 1 .. m : is(i) = is(j) => i = j
  BY <1>10, <1>11
<1>13. /\ \A i \in 1 .. Len(f) : IsAsg(f[i], name[i], val[i])
       /\ ps = {is(i) : i \in 1 .. Len(f)}
       /\ \A i, j \in 1 .. Len(f) : is(i) = is(j) => i = j
  BY <1>3, <1>7, <1>12
<1>14. Paired(f, ps, name, val)
  BY <1>13, Zenon DEF Paired, is
<1>15. QED  BY <1>4, <1>6, <1>14, Zenon DEF PairsLeft, f, z

(* What was read so far. *)
Listed == {pair(n, paramList[n]) : n \in DOMAIN paramList}

(* One pair is taken, or its name was there already. *)
OneTaken(ps) ==
  \/ rpc' = "pairs" /\ \E x \in ps : PairsLeft(parts', ps \ {x}) /\ Listed' = Listed \cup {x}
  \/ rpc' = "error" /\ \E x \in ps, y \in Listed : x.name = y.name

LEMMA TailPaired ==
  ASSUME NEW qs \in Seq(Text), qs # <<>>, NEW ps, NEW n, NEW v, Paired(qs, ps, n, v)
  PROVE  pair(n[1], v[1]) \in ps /\ PairsLeft(Tail(qs), ps \ {pair(n[1], v[1])})
<1> DEFINE t == Tail(qs)
           m == [i \in 1 .. Len(t) |-> n[i + 1]]
           w == [i \in 1 .. Len(t) |-> v[i + 1]]
           x == pair(n[1], v[1])
           is(i) == pair(n[i], v[i])
           now(i) == pair(m[i], w[i])
           N == Len(qs)
           T == Len(t)
<1>1. N \in Nat /\ N >= 1
  OBVIOUS
<1>2. T = N - 1 /\ \A i \in 1 .. T : t[i] = qs[i + 1]
  OBVIOUS
<1>3. /\ \A i \in 1 .. N : IsAsg(qs[i], n[i], v[i])
      /\ ps = {is(i) : i \in 1 .. N}
      /\ \A i, j \in 1 .. N : is(i) = is(j) => i = j
  BY Zenon DEF Paired
<1>4. \A i \in 1 .. T : m[i] = n[i + 1] /\ w[i] = v[i + 1]
  OBVIOUS
<1>5. \A i \in 1 .. T : now(i) = is(i + 1)
  <2> HIDE DEF m, w, t
  <2>1. QED  BY <1>4
<1>6. is(1) = x
  OBVIOUS
<1> HIDE DEF t, m, w, x, is, now, N, T
<1>7. x \in ps
  <2>1. 1 \in 1 .. N
    BY <1>1
  <2>2. QED  BY <1>3, <1>6, <2>1
<1>8. \A i \in 1 .. T : i + 1 \in 1 .. N /\ i + 1 # 1
  BY <1>1, <1>2
<1>9. \A i \in 1 .. T : IsAsg(t[i], m[i], w[i])
  BY <1>2, <1>3, <1>4, <1>8
<1>10. \A i, j \in 1 .. T : now(i) = now(j) => i = j
  <2>1. ASSUME NEW i \in 1 .. T, NEW j \in 1 .. T, now(i) = now(j) PROVE i = j
    <3>1. i + 1 = j + 1
      BY <1>3, <1>5, <1>8, <2>1
    <3>2. QED  BY <3>1
  <2>2. QED  BY <2>1
<1>11. ps \ {x} = {now(i) : i \in 1 .. T}
  <2>1. ASSUME NEW i \in 1 .. T PROVE now(i) \in ps \ {x}
    <3>1. now(i) = is(i + 1) /\ i + 1 \in 1 .. N /\ i + 1 # 1 /\ 1 \in 1 .. N
      BY <1>1, <1>5, <1>8
    <3>2. QED  BY <1>3, <1>6, <3>1
  <2>2. ASSUME NEW y \in ps, y # x PROVE \E i \in 1 .. T : y = now(i)
    <3>1. PICK k \in 1 .. N : y = is(k)
      BY <1>3
    <3>2. k # 1
      BY <1>6, <2>2, <3>1
    <3>3. k - 1 \in 1 .. T /\ k - 1 + 1 = k
      BY <1>1, <1>2, <3>2
    <3>4. now(k - 1) = is(k)
      BY <1>5, <3>3
    <3>5. QED  BY <3>1, <3>3, <3>4
  <2>3. QED  BY <2>1, <2>2
<1>12. Paired(t, ps \ {x}, m, w)
  BY <1>9, <1>10, <1>11, Zenon DEF Paired, now, T
<1>13. QED  BY <1>7, <1>12, Zenon DEF PairsLeft, t, x

LEMMA TakeOne ==
  ASSUME ReaderInv, TakePair, NEW ps, PairsLeft(parts, ps)
  PROVE  OneTaken(ps)
<1>1. PICK n, v : Paired(parts, ps, n, v)
  BY DEF PairsLeft
<1>2. parts \in Seq(Text) /\ parts # <<>> /\ rpc = "pairs"
  BY DEF ReaderInv, TakePair
<1> DEFINE x == pair(n[1], v[1])
           a == n[1]
           b == v[1]
<1>3. x \in ps /\ PairsLeft(Tail(parts), ps \ {x})
  BY <1>1, <1>2, TailPaired, Zenon
<1>4. IsAsg(Head(parts), a, b)
  <2>1. 1 \in 1 .. Len(parts) /\ Head(parts) = parts[1]
    BY <1>2
  <2>2. QED  BY <1>1, <2>1 DEF Paired
<1> HIDE DEF a, b
<1>5. equal # 0 /\ paramName = a /\ paramVal = b /\ b # <<>>
  BY <1>2, <1>4, AsgTaken
<1>6. x = pair(a, b)
  BY DEF a, b
<1> HIDE DEF x
<1>7. CASE a \notin DOMAIN paramList
  <2>1. IsPair
    BY <1>5, <1>7 DEF IsPair
  <2>2. /\ paramList' = [k \in DOMAIN paramList \cup {a} |-> IF k = a THEN b ELSE paramList[k]]
        /\ parts' = Tail(parts) /\ rpc' = "pairs"
    BY <1>2, <1>5, <2>1, Zenon DEF TakePair
  <2> DEFINE f == paramList'
             D == DOMAIN paramList
             L == {pair(k, f[k]) : k \in DOMAIN f}
  <2>3. DOMAIN f = D \cup {a} /\ f[a] = b /\ \A k \in D : f[k] = paramList[k]
    BY <1>7, <2>2
  <2>4. Listed' = L
    BY DEF Listed, pair
  <2>5. L = Listed \cup {x}
    <3> HIDE DEF f, D
    <3>1. ASSUME NEW y \in L PROVE y \in Listed \cup {x}
      <4>1. PICK k \in DOMAIN f : y = pair(k, f[k])
        OBVIOUS
      <4>2. k \in D \/ k = a
        BY <2>3
      <4>3. QED  BY <1>6, <2>3, <4>1, <4>2 DEF Listed, D
    <3>2. ASSUME NEW y \in Listed PROVE y \in L
      <4>1. PICK k \in D : y = pair(k, paramList[k])
        BY DEF Listed, D
      <4>2. QED  BY <2>3, <4>1
    <3>3. x \in L
      BY <1>6, <2>3
    <3>4. QED  BY <3>1, <3>2, <3>3
  <2> HIDE DEF L
  <2>6. Listed' = Listed \cup {x}
    BY <2>4, <2>5
  <2>7. PairsLeft(parts', ps \ {x})
    BY <1>3, <2>2
  <2>8. QED  BY <1>3, <2>2, <2>6, <2>7, Zenon DEF OneTaken
<1>8. CASE a \in DOMAIN paramList
  <2>1. ~IsPair
    BY <1>5, <1>8 DEF IsPair
  <2>2. rpc' = "error"
    BY <2>1 DEF TakePair
  <2> DEFINE y == pair(a, paramList[a])
  <2>3. y \in Listed
    BY <1>8 DEF Listed
  <2>4. x.name = y.name
    BY <1>6 DEF pair
  <2> HIDE DEF y
  <2>5. QED  BY <1>3, <2>2, <2>3, <2>4, Zenon DEF OneTaken
<1>9. QED  BY <1>7, <1>8

LEMMA NoneLeft ==
  ASSUME NEW ps, PairsLeft(<<>>, ps) PROVE ps = {}
<1> DEFINE z == <<>>
<1>1. Len(z) = 0
  OBVIOUS
<1> HIDE DEF z
<1>2. PICK n, v : Paired(z, ps, n, v)
  BY Zenon DEF PairsLeft, z
<1>3. ps = {pair(n[i], v[i]) : i \in 1 .. Len(z)}
  BY <1>2 DEF Paired
<1>4. QED  BY <1>1, <1>3

(***************************************************************************)
(* A file that is written as config.txt shows.                             *)
(***************************************************************************)

LEMMA LineWritten ==
  ASSUME NEW f, NEW j, NEW s, NEW x, NEW k, WrittenLine(f, j, s, x, k), strip(f.lines[k]) \in Text
  PROVE  /\ opened(j[k - 1]) = 0 => j[k] = strip(f.lines[k])
         /\ opened(j[k - 1]) # 0 => j[k] = j[k - 1] \o strip(f.lines[k])
         /\ opened(j[k]) >= 0
         /\ opened(j[k]) # 0 \/ j[k] = <<>> => s[k] = s[k - 1]
         /\ opened(j[k]) = 0 /\ j[k] # <<>> =>
              \E ps : Told(j[k], ps) /\ ps \cap s[k - 1] = {} /\ s[k] = s[k - 1] \cup ps
         /\ s[k - 1] \subseteq s[k]
<1> DEFINE z == <<>>
           t == strip(f.lines[k])
           l == k - 1
           a == j[k]
           b == j[l]
           c == s[k]
           d == s[l]
<1>1. z \o t = t
  BY JoinNothing
<1> HIDE DEF z, t, l
<1> DEFINE y == x[k]
           ps1 == y.pairs
<1>2. /\ a = (IF opened(b) = 0 THEN z ELSE b) \o t
      /\ opened(a) >= 0
      /\ IF opened(a) # 0 \/ a = z
           THEN c = d
           ELSE Tells(a, y) /\ ps1 \cap d = {} /\ c = d \cup ps1
  BY Zenon DEF WrittenLine, z, t, l
<1>b. Tells(a, y) => Told(a, ps1)
  BY Zenon DEF Tells, Told
<1> HIDE DEF a, b, c, d, y, ps1
<1>3. opened(b) = 0 => a = t
  BY <1>1, <1>2
<1>4. opened(b) # 0 => a = b \o t
  BY <1>2
<1>5. opened(a) # 0 \/ a = z => c = d
  BY <1>2, Zenon
<1>6. opened(a) = 0 /\ a # z => \E ps : Told(a, ps) /\ ps \cap d = {} /\ c = d \cup ps
  BY <1>2, <1>b, Zenon
<1>7. d \subseteq c
  <2>1. CASE opened(a) # 0 \/ a = z
    BY <1>5, <2>1
  <2>2. CASE opened(a) = 0 /\ a # z
    <3>1. PICK ps : c = d \cup ps
      BY <1>6, <2>2, Zenon
    <3>2. QED  BY <3>1
  <2>3. QED  BY <2>1, <2>2
<1>8. QED  BY <1>2, <1>3, <1>4, <1>5, <1>6, <1>7, Zenon DEF a, b, c, d, z, t, l

(* What one line told, the file tells. *)
LEMMA SaidStays ==
  ASSUME file \in Files, NEW j, NEW s, NEW x, Wrote(file, j, s, x), NEW k \in 0 .. Len(file.lines)
  PROVE  s[k] \subseteq file.pairs
<1> DEFINE N == Len(file.lines)
           P == {i \in 0 .. N : s[N - i] \subseteq file.pairs}
<1>1. N \in Nat /\ \A i \in 1 .. N : file.lines[i] \in Text
  BY FileIs
<1>2. /\ \A i \in 1 .. N : WrittenLine(file, j, s, x, i)
      /\ s[N] = file.pairs
  BY Zenon DEF Wrote
<1> HIDE DEF N
<1>3. 0 \in P
  BY <1>1, <1>2
<1>4. ASSUME NEW i \in 1 .. N, i - 1 \in P PROVE i \in P
  <2> DEFINE l == N - (i - 1)
  <2>1. l \in 1 .. N /\ i \in 0 .. N /\ N - i = l - 1
    BY <1>1
  <2>2. s[l] \subseteq file.pairs
    BY <1>4
  <2> HIDE DEF l
  <2>3. WrittenLine(file, j, s, x, l) /\ strip(file.lines[l]) \in Text
    <3>1. file.lines[l] \in Text
      BY <1>1, <2>1
    <3> DEFINE u == file.lines[l]
    <3> HIDE DEF u
    <3>2. strip(u) \in Text
      BY <3>1, StripIs DEF u
    <3>3. QED  BY <1>2, <2>1, <3>2 DEF u
  <2>4. s[l - 1] \subseteq s[l]
    BY <2>3, LineWritten, Zenon
  <2>5. QED  BY <2>1, <2>2, <2>4
<1> HIDE DEF P
<1>5. 0 .. N \subseteq P
  BY <1>1, <1>3, <1>4, Induct
<1> DEFINE i == N - k
<1>6. i \in 0 .. N /\ N - i = k
  BY <1>1 DEF N
<1> HIDE DEF i
<1>7. QED  BY <1>5, <1>6 DEF P

(* The pairs that are still to come of what was taken. *)
ToCome(r, b, p, qs, ps) ==
  \/ r = "group" /\ LastOpen(b, p) /\ Told(b, ps)
  \/ r = "pairs" /\ PairsLeft(qs, ps)

(* Where reading stands when the first k lines were taken. *)
Stands(r, k, l, b, p, qs, listed, all, j, s) ==
  /\ r = "line" => opened(j[k]) = 0 /\ listed = s[k]
  /\ r = "more" => l = k /\ b = j[k] /\ opened(j[k]) # 0 /\ listed = s[k]
  /\ r \in {"group", "pairs"} =>
       /\ opened(j[k]) = 0
       /\ \E ps : ToCome(r, b, p, qs, ps) /\ ps \cap listed = {} /\ s[k] = listed \cup ps
  /\ r = "ok" => listed = all

Reading(j, s) ==
  /\ Stands(rpc, linesRead, lineno, buff, pos_1, parts, Listed, file.pairs, j, s)
  /\ rpc = "error" => Ambiguous

LEMMA ReadingThen ==
  ASSUME NEW j, NEW s, NEW k, linesRead' = k, rpc' # "error",
         Stands(rpc', k, lineno', buff', pos_1', parts', Listed', file'.pairs, j, s)
  PROVE  Reading(j, s)'
<1>1. linesRead' = k
  OBVIOUS
<1> DEFINE r == rpc'
           l == lineno'
           b == buff'
           p == pos_1'
           qs == parts'
           ls == Listed'
           all == file'.pairs
           n == linesRead'
<1>2. n = k /\ r # "error" /\ Stands(r, k, l, b, p, qs, ls, all, j, s)
  OBVIOUS
<1>3. Stands(r, n, l, b, p, qs, ls, all, j, s)
  BY <1>2, Zenon
<1>4. QED  BY <1>2, <1>3, Zenon DEF Reading

(* What the lines taken so far are when one more is. *)
LEMMA NextWritten ==
  ASSUME ReaderInv, NEW j, NEW s, NEW x, Wrote(file, j, s, x), lineno < Len(file.lines), taken,
         file' = file
  PROVE  LET k == lineno + 1
             t == strip(file.lines[k])
         IN  /\ linesRead = lineno /\ linesRead' = k /\ lineno' = k /\ t \in Text
             /\ opened(j[lineno]) = 0 => j[k] = t
             /\ opened(j[lineno]) # 0 => j[k] = j[lineno] \o t
             /\ opened(j[k]) >= 0
             /\ opened(j[k]) # 0 \/ j[k] = <<>> => s[k] = s[lineno]
             /\ opened(j[k]) = 0 /\ j[k] # <<>> =>
                  \E ps : Told(j[k], ps) /\ ps \cap s[lineno] = {} /\ s[k] = s[lineno] \cup ps
<1> DEFINE k == lineno + 1
           t == strip(file.lines[k])
           l == lineno
<1>1. /\ file \in Files /\ lineno \in 0 .. Len(file.lines) + 1
  BY DEF ReaderInv, TypeOK
<1>2. Len(file.lines) \in Nat /\ file.lines \in Seq(Text)
  BY <1>1, FileIs
<1>3. k \in 1 .. Len(file.lines) /\ k - 1 = l
  BY <1>1, <1>2
<1>4. /\ linesRead = lineno /\ linesRead' = k /\ lineno' = k
  <2>1. <<>> \in Text
    BY NoText
  <2>2. QED  BY <2>1, OneMoreLine
<1>5. WrittenLine(file, j, s, x, k)
  BY <1>3, Zenon DEF Wrote
<1> HIDE DEF k
<1>6. t \in Text
  <2> DEFINE u == file.lines[k]
  <2>1. u \in Text
    BY <1>2, <1>3
  <2> HIDE DEF u
  <2>2. strip(u) \in Text
    BY <2>1, StripIs
  <2>3. QED  BY <2>2 DEF u
<1>7. /\ opened(j[k - 1]) = 0 => j[k] = strip(file.lines[k])
      /\ opened(j[k - 1]) # 0 => j[k] = j[k - 1] \o strip(file.lines[k])
      /\ opened(j[k]) >= 0
      /\ opened(j[k]) # 0 \/ j[k] = <<>> => s[k] = s[k - 1]
      /\ opened(j[k]) = 0 /\ j[k] # <<>> =>
           \E ps : Told(j[k], ps) /\ ps \cap s[k - 1] = {} /\ s[k] = s[k - 1] \cup ps
      /\ s[k - 1] \subseteq s[k]
  BY <1>5, <1>6, LineWritten, Zenon
<1>8. QED  BY <1>3, <1>4, <1>6, <1>7, Zenon DEF k

LEMMA StandsAt ==
  ASSUME NEW r, NEW k, NEW l, NEW b, NEW p, NEW qs, NEW listed, NEW all, NEW j, NEW s,
         \/ r = "line" /\ opened(j[k]) = 0 /\ listed = s[k]
         \/ r = "more" /\ l = k /\ b = j[k] /\ opened(j[k]) # 0 /\ listed = s[k]
         \/ r = "ok" /\ listed = all
  PROVE  Stands(r, k, l, b, p, qs, listed, all, j, s)
BY DEF Stands

LEMMA StandsToCome ==
  ASSUME NEW r, NEW k, NEW l, NEW b, NEW p, NEW qs, NEW listed, NEW all, NEW j, NEW s,
         r \in {"group", "pairs"}, opened(j[k]) = 0,
         NEW ps, ToCome(r, b, p, qs, ps), ps \cap listed = {}, s[k] = listed \cup ps
  PROVE  Stands(r, k, l, b, p, qs, listed, all, j, s)
BY DEF Stands

LEMMA LastOpenIn ==
  ASSUME NEW b \in Text PROVE LastOpen(b, find_last(b, Open, Len(b)))
<1>1. Len(b) \in Nat
  BY TextIs
<1>2. QED  BY <1>1, FindLastIs DEF LastOpen

LEMMA ReadLineReads ==
  ASSUME ReaderInv, NEW j, NEW s, NEW x, Wrote(file, j, s, x), Reading(j, s), ReadLine
  PROVE  Reading(j, s)'
<1>1. /\ rpc = "line" /\ good(lineno) /\ taken /\ file' = file
      /\ buff' = strip(getline(buff)) /\ nbracket' = opened(buff')
      /\ rpc' = IF buff' = <<>> THEN "line"
                  ELSE IF nbracket' < 0 THEN "error"
                  ELSE IF nbracket' = 0 THEN "group" ELSE "more"
      /\ pos_1' = find_last(buff', Open, Len(buff'))
      /\ paramList' = paramList /\ parts' = parts
  BY DEF ReadLine
<1>2. /\ file \in Files /\ lineno \in 0 .. Len(file.lines) + 1 /\ buff \in Text
  BY DEF ReaderInv, TypeOK
<1>3. Len(file.lines) \in Nat
  BY <1>2, FileIs
<1>4. opened(j[linesRead]) = 0 /\ Listed = s[linesRead]
  BY <1>1 DEF Reading, Stands
<1>5. Listed' = Listed
  BY <1>1 DEF Listed
<1>6. CASE lineno < Len(file.lines)
  <2> DEFINE k == lineno + 1
             l == lineno
             b == buff'
             c == j[k]
             p == pos_1'
             z == <<>>
  <2>1. getline(buff) = file.lines[k]
    BY <1>2, <1>6, GetlineIs
  <2>2. b = strip(file.lines[k])
    BY <1>1, <2>1
  <2>3. /\ linesRead = l /\ linesRead' = k /\ lineno' = k /\ b \in Text
        /\ opened(j[l]) = 0 => c = b
        /\ opened(c) >= 0
        /\ opened(c) # 0 \/ c = z => s[k] = s[l]
        /\ opened(c) = 0 /\ c # z =>
             \E ps : Told(c, ps) /\ ps \cap s[l] = {} /\ s[k] = s[l] \cup ps
    BY <1>1, <1>6, <2>2, NextWritten, Zenon
  <2>4. c = b /\ Listed = s[l]
    BY <1>4, <2>3
  <2>5. LastOpen(b, p)
    <3> HIDE DEF b
    <3>1. p = find_last(b, Open, Len(b))
      BY <1>1 DEF b
    <3>2. QED  BY <2>3, <3>1, LastOpenIn
  <2>6. opened(z) = 0
    BY OpenedNothing
  <2>7. /\ b = z => rpc' = "line"
        /\ b # z /\ opened(b) < 0 => rpc' = "error"
        /\ b # z /\ opened(b) = 0 => rpc' = "group"
        /\ b # z /\ ~(opened(b) < 0) /\ opened(b) # 0 => rpc' = "more"
    <3>1. 0 < 0 <=> FALSE
      OBVIOUS
    <3>2. /\ nbracket' = opened(b)
          /\ rpc' = IF b = z THEN "line"
                      ELSE IF nbracket' < 0 THEN "error"
                      ELSE IF nbracket' = 0 THEN "group" ELSE "more"
      BY <1>1
    <3> HIDE DEF b, z
    <3>3. QED  BY <3>1, <3>2
  <2>8. opened(b) \in Int
    <3> HIDE DEF b
    <3>1. QED  BY <2>3, CountedIs
  <2> HIDE DEF b, z, k, l, c, p
  <2>9. ~(opened(b) < 0)
    BY <2>3, <2>4, <2>8
  <2> DEFINE r == rpc'
             ls == Listed'
             l2 == lineno'
             qs == parts'
             all == file'.pairs
  <2>10. ls = s[l] /\ l2 = k /\ c = j[k]
    BY <1>5, <2>3, <2>4 DEF c
  <2>11. /\ b = z => r = "line"
         /\ b # z /\ opened(b) = 0 => r = "group"
         /\ b # z /\ opened(b) # 0 => r = "more"
    BY <2>7, <2>9
  <2>12. k = linesRead' /\ b = buff' /\ p = pos_1'
    BY <2>3 DEF b, p
  <2> HIDE DEF r, ls, l2, qs, all
  <2>13. r # "error" /\ Stands(r, k, l2, b, p, qs, ls, all, j, s)
    <3>1. CASE b = z
      <4>1. r = "line" /\ opened(j[k]) = 0 /\ ls = s[k]
        BY <2>3, <2>4, <2>6, <2>10, <2>11, <3>1
      <4>2. QED  BY <4>1, StandsAt
    <3>2. CASE b # z /\ opened(b) = 0
      <4>1. r = "group" /\ opened(j[k]) = 0
        BY <2>4, <2>10, <2>11, <3>2
      <4>2. PICK ps : Told(b, ps) /\ ps \cap s[l] = {} /\ s[k] = s[l] \cup ps
        BY <2>3, <2>4, <3>2, Zenon
      <4>3. ToCome(r, b, p, qs, ps)
        BY <2>5, <4>1, <4>2 DEF ToCome
      <4>4. ps \cap ls = {} /\ s[k] = ls \cup ps
        BY <2>10, <4>2
      <4>5. QED  BY <4>1, <4>3, <4>4, StandsToCome
    <3>3. CASE b # z /\ opened(b) # 0
      <4>1. r = "more" /\ l2 = k /\ b = j[k] /\ opened(j[k]) # 0 /\ ls = s[k]
        BY <2>3, <2>4, <2>10, <2>11, <3>3
      <4>2. QED  BY <4>1, StandsAt
    <3>4. QED  BY <3>1, <3>2, <3>3
  <2>14. rpc' # "error" /\ Stands(rpc', k, lineno', buff', pos_1', parts', Listed', file'.pairs, j, s)
    BY <2>12, <2>13 DEF r, ls, l2, qs, all
  <2>15. QED  BY <2>12, <2>14, ReadingThen, Zenon
<1>7. CASE ~(lineno < Len(file.lines))
  <2>1. lineno = Len(file.lines)
    BY <1>1, <1>7 DEF good
  <2>2. getline(buff) = <<>>
    BY <1>1, <1>7 DEF getline
  <2>3. rpc' = "line"
    BY <1>1, <2>2, StripNothing
  <2>4. lineno' = lineno + 1
    BY <1>1, <1>2, <1>3, <2>1, TakenIs
  <2>5. linesRead' = linesRead
    BY <1>1, <1>3, <2>1, <2>4 DEF linesRead
  <2>6. QED  BY <1>4, <1>5, <2>3, <2>5 DEF Reading, Stands
<1>8. QED  BY <1>6, <1>7

LEMMA ReadMoreReads ==
  ASSUME ReaderInv, BracketsCounted, NEW j, NEW s, NEW x, Wrote(file, j, s, x), Reading(j, s), ReadMore
  PROVE  Reading(j, s)'
<1> DEFINE N == Len(file.lines)
           k == lineno + 1
           l == lineno
           t == strip(file.lines[k])
           c == j[k]
           d == j[l]
           z == <<>>
<1>1. rpc = "more" /\ taken /\ file' = file /\ parts' = parts /\ paramList' = paramList
  BY DEF ReadMore
<1>2. /\ file \in Files /\ lineno \in 0 .. N + 1 /\ str \in Text /\ buff \in Text
      /\ N \in Nat
  <2>1. file \in Files /\ lineno \in 0 .. N + 1 /\ str \in Text /\ buff \in Text
    BY DEF ReaderInv, TypeOK
  <2>2. QED  BY <2>1, FileIs
<1>3. lineno = linesRead /\ buff = j[linesRead] /\ opened(j[linesRead]) # 0 /\ Listed = s[linesRead]
  BY <1>1 DEF Reading, Stands
<1>4. buff = d /\ opened(d) # 0 /\ Listed = s[l] /\ d \in Text
  BY <1>2, <1>3
<1>5. opened(j[N]) = 0
  BY Zenon DEF Wrote
<1>6. lineno < N
  <2>1. lineno # N
    <3> HIDE DEF N
    <3>1. QED  BY <1>4, <1>5
  <2>2. lineno <= N
    BY <1>2, <1>3 DEF linesRead
  <2>3. QED  BY <1>2, <2>1, <2>2
<1>7. /\ linesRead = l /\ linesRead' = k /\ lineno' = k /\ t \in Text
      /\ opened(d) # 0 => c = d \o t
      /\ opened(c) >= 0
      /\ opened(c) # 0 \/ c = z => s[k] = s[l]
      /\ opened(c) = 0 /\ c # z =>
           \E ps : Told(c, ps) /\ ps \cap s[l] = {} /\ s[k] = s[l] \cup ps
  BY <1>1, <1>6, NextWritten, Zenon
<1>8. getline(str) = file.lines[k]
  BY <1>2, <1>6, GetlineIs
<1>9. c = d \o t
  BY <1>4, <1>7
<1>10. rpc' # "error"
  <2>1. SUFFICES ASSUME rpc' = "error" PROVE FALSE
    OBVIOUS
  <2>2. ~good(lineno') /\ getline(str) = <<>>
    <3>1. SUFFICES ASSUME ~(~good(lineno') /\ getline(str) = <<>>) PROVE rpc' \in {"group", "more"}
      BY <2>1
    <3>2. QED  BY <3>1 DEF ReadMore
  <2>3. lineno' = N
    <3>1. lineno' = lineno + 1
      BY <1>7
    <3>2. ~(lineno' < N)
      BY <2>2 DEF good
    <3>3. QED  BY <1>2, <1>6, <3>1, <3>2
  <2>4. k = N
    BY <1>7, <2>3
  <2>5. file.lines[k] = z
    BY <1>8, <2>2
  <2>6. t = z
    BY <2>5, StripNothing
  <2> HIDE DEF c, d, t, z, k, l, N
  <2>7. d \o z = d
    BY <1>4, JoinNothing DEF z
  <2>8. c = d
    BY <1>9, <2>6, <2>7
  <2>9. c = j[N]
    BY <2>4 DEF c
  <2>10. QED  BY <1>4, <1>5, <2>8, <2>9
<1>11. /\ buff' = c
       /\ rpc' = "group" \/ rpc' = "more"
       /\ rpc' = "group" <=> nbracket + opened(t) = 0
       /\ pos_1' = find_last(buff', Open, Len(buff'))
  <2>1. ~(~good(lineno') /\ getline(str) = <<>>)
    BY <1>10 DEF ReadMore
  <2>2. /\ str' = strip(getline(str)) /\ buff' = buff \o str'
        /\ nbracket' = nbracket + opened(str')
        /\ rpc' = IF nbracket' = 0 THEN "group" ELSE "more"
        /\ pos_1' = find_last(buff', Open, Len(buff'))
    BY <2>1 DEF ReadMore
  <2>3. str' = t
    BY <1>8, <2>2
  <2> HIDE DEF c, d, t
  <2>4. buff' = c
    BY <1>4, <1>9, <2>2, <2>3
  <2>5. QED  BY <2>2, <2>3, <2>4
<1>12. nbracket + opened(t) = opened(c)
  <2>1. nbracket = opened(d)
    BY <1>1, <1>4 DEF BracketsCounted
  <2> HIDE DEF c, d, t
  <2>2. opened(d \o t) = opened(d) + opened(t)
    BY <1>4, <1>7, OpenedJoins
  <2>3. QED  BY <1>9, <2>1, <2>2
<1>13. c # z /\ c \in Text
  <2>1. opened(c) = 0 => c # z
    <3>1. buff # z
      BY <1>1 DEF ReaderInv
    <3>2. d # z
      BY <1>4, <3>1
    <3> HIDE DEF c, d, t
    <3>3. Len(d \o t) = Len(d) + Len(t) /\ Len(d) \in Nat /\ Len(t) \in Nat
      BY <1>4, <1>7, JoinText, TextIs
    <3>4. Len(d) # 0
      BY <1>4, <3>2 DEF Text, z
    <3> DEFINE a == Len(d)
               e == Len(t)
               f == Len(d \o t)
    <3>a. f = a + e /\ a \in Nat /\ e \in Nat /\ a # 0
      BY <3>3, <3>4
    <3> HIDE DEF a, e, f
    <3>5. f # 0
      BY <3>a
    <3>6. Len(c) # 0
      BY <1>9, <3>5 DEF f
    <3>7. QED  BY <3>6 DEF z
  <2>2. opened(c) # 0 => c # z
    BY OpenedNothing
  <2> HIDE DEF c, d, t
  <2>3. c \in Text
    BY <1>4, <1>7, <1>9, JoinText
  <2>4. QED  BY <2>1, <2>2, <2>3
<1> DEFINE b == buff'
           p == pos_1'
           r == rpc'
           ls == Listed'
           l2 == lineno'
           qs == parts'
           all == file'.pairs
<1>14. LastOpen(b, p) /\ b = c
  <2> HIDE DEF b, c
  <2>1. b = c /\ p = find_last(b, Open, Len(b))
    BY <1>11 DEF b
  <2>2. QED  BY <1>13, <2>1, LastOpenIn
<1>15. ls = s[l] /\ l2 = k
  <2>1. Listed' = Listed
    BY <1>1 DEF Listed
  <2>2. QED  BY <1>4, <1>7, <2>1
<1>16. /\ opened(c) = 0 => r = "group"
       /\ opened(c) # 0 => r = "more"
  BY <1>11, <1>12
<1>17. k = linesRead' /\ c = j[k]
  BY <1>7
<1> HIDE DEF N, k, l, t, c, d, z, b, p, r, ls, l2, qs, all
<1>18. r # "error" /\ Stands(r, k, l2, b, p, qs, ls, all, j, s)
  <2>1. CASE opened(c) = 0
    <3>1. r = "group" /\ opened(j[k]) = 0
      BY <1>16, <1>17, <2>1
    <3>2. PICK ps : Told(c, ps) /\ ps \cap s[l] = {} /\ s[k] = s[l] \cup ps
      BY <1>7, <1>13, <2>1, Zenon
    <3>3. ToCome(r, b, p, qs, ps)
      BY <1>14, <3>1, <3>2 DEF ToCome
    <3>4. ps \cap ls = {} /\ s[k] = ls \cup ps
      BY <1>15, <3>2
    <3>5. QED  BY <3>1, <3>3, <3>4, StandsToCome
  <2>2. CASE opened(c) # 0
    <3>1. r = "more" /\ l2 = k /\ b = j[k] /\ opened(j[k]) # 0 /\ ls = s[k]
      BY <1>7, <1>14, <1>15, <1>16, <1>17, <2>2
    <3>2. QED  BY <3>1, StandsAt
  <2>3. QED  BY <2>1, <2>2
<1>19. rpc' # "error" /\ Stands(rpc', k, lineno', buff', pos_1', parts', Listed', file'.pairs, j, s)
  BY <1>18 DEF r, ls, l2, qs, all, b, p
<1>20. QED  BY <1>17, <1>19, ReadingThen, Zenon

(* The lines taken are the same. *)
LEMMA SameLines ==
  ASSUME lineno' = lineno, file' = file
  PROVE  linesRead' = linesRead /\ file'.pairs = file.pairs /\ (Ambiguous => Ambiguous')
<1>1. linesRead' = linesRead
  BY DEF linesRead
<1>2. Ambiguous => Ambiguous'
  BY DEF Ambiguous
<1>3. QED  BY <1>1, <1>2

(* From group to group. *)
LEMMA GroupsRead ==
  ASSUME ReaderInv, NEW j, NEW s, Reading(j, s), PassOver \/ Unwrap \/ Expand \/ ExpandFails
  PROVE  Reading(j, s)'
<1> DEFINE k == linesRead
<1>1. rpc = "group" /\ pos_1 # 0 /\ lineno' = lineno /\ file' = file /\ paramList' = paramList
  BY DEF PassOver, Unwrap, Expand, ExpandFails
<1>2. /\ opened(j[k]) = 0
      /\ \E ps : ToCome(rpc, buff, pos_1, parts, ps)
                   /\ ps \cap Listed = {} /\ s[k] = Listed \cup ps
  BY <1>1 DEF Reading, Stands
<1>3. PICK ps : ToCome(rpc, buff, pos_1, parts, ps) /\ ps \cap Listed = {} /\ s[k] = Listed \cup ps
  BY <1>2
<1>4. LastOpen(buff, pos_1) /\ Told(buff, ps)
  BY <1>1, <1>3 DEF ToCome
<1>5. buff \in Text /\ pos_1 \in 1 .. Len(buff) /\ buff[pos_1] = Open
  BY <1>1, AtGroup
<1>6. IsGroup /\ pre_delim # <<>> /\ Complete(exprs)
  BY <1>4, <1>5, GroupStep, Zenon
<1>7. Expand
  BY <1>6 DEF PassOver, Unwrap, ExpandFails
<1>8. rpc' = "group"
  BY <1>1, <1>7 DEF Expand
<1>9. Told(buff', ps) /\ LastOpen(buff', pos_1')
  BY <1>4, <1>7, ExpandTold, Zenon
<1> DEFINE b == buff'
           p == pos_1'
           r == rpc'
           ls == Listed'
           l2 == lineno'
           qs == parts'
           all == file'.pairs
<1>10. ls = Listed
  BY <1>1 DEF Listed
<1>11. r = "group" /\ Told(b, ps) /\ LastOpen(b, p)
       /\ ps \cap ls = {} /\ s[k] = ls \cup ps /\ opened(j[k]) = 0
  BY <1>2, <1>3, <1>8, <1>9, <1>10
<1>12. linesRead' = k
  BY <1>1, SameLines
<1> HIDE DEF k, b, p, r, ls, l2, qs, all
<1>13. ToCome(r, b, p, qs, ps)
  BY <1>11 DEF ToCome
<1>14. r # "error" /\ Stands(r, k, l2, b, p, qs, ls, all, j, s)
  BY <1>11, <1>13, StandsToCome
<1>15. rpc' # "error" /\ Stands(rpc', k, lineno', buff', pos_1', parts', Listed', file'.pairs, j, s)
  BY <1>14 DEF r, ls, l2, qs, all, b, p
<1>16. QED  BY <1>12, <1>15, ReadingThen, Zenon

LEMMA SplitReads ==
  ASSUME ReaderInv, NEW j, NEW s, Reading(j, s), Split
  PROVE  Reading(j, s)'
<1> DEFINE k == linesRead
<1>1. /\ rpc = "group" /\ pos_1 = 0 /\ lineno' = lineno /\ file' = file /\ paramList' = paramList
  BY DEF Split
<1>2. /\ opened(j[k]) = 0
      /\ \E ps : ToCome(rpc, buff, pos_1, parts, ps)
                   /\ ps \cap Listed = {} /\ s[k] = Listed \cup ps
  BY <1>1 DEF Reading, Stands
<1>3. PICK ps : ToCome(rpc, buff, pos_1, parts, ps) /\ ps \cap Listed = {} /\ s[k] = Listed \cup ps
  BY <1>2
<1>4. LastOpen(buff, 0) /\ Told(buff, ps)
  BY <1>1, <1>3 DEF ToCome
<1>5. buff \in Text /\ buff # <<>>
  BY <1>1 DEF ReaderInv
<1>6. Last(strsplit(buff)) = <<>> /\ PairsLeft(Front(strsplit(buff)), ps)
  BY <1>4, <1>5, SplitPairs, Zenon
<1>7. rpc' = "pairs" /\ parts' = Front(strsplit(buff))
  BY <1>6 DEF Split
<1> DEFINE b == buff'
           p == pos_1'
           r == rpc'
           ls == Listed'
           l2 == lineno'
           qs == parts'
           all == file'.pairs
<1>8. ls = Listed
  BY <1>1 DEF Listed
<1>9. qs = Front(strsplit(buff))
  BY <1>7
<1>10. r = "pairs" /\ ps \cap ls = {} /\ s[k] = ls \cup ps /\ opened(j[k]) = 0
  BY <1>2, <1>3, <1>7, <1>8
<1>11. linesRead' = k
  BY <1>1, SameLines
<1> HIDE DEF k, b, p, r, ls, l2, qs, all
<1>12. PairsLeft(qs, ps)
  BY <1>6, <1>9
<1>13. ToCome(r, b, p, qs, ps)
  BY <1>10, <1>12 DEF ToCome
<1>14. r # "error" /\ Stands(r, k, l2, b, p, qs, ls, all, j, s)
  BY <1>10, <1>13, StandsToCome
<1>15. rpc' # "error" /\ Stands(rpc', k, lineno', buff', pos_1', parts', Listed', file'.pairs, j, s)
  BY <1>14 DEF r, ls, l2, qs, all, b, p
<1>16. QED  BY <1>11, <1>15, ReadingThen, Zenon

LEMMA TakePairReads ==
  ASSUME ReaderInv, NEW j, NEW s, NEW x, Wrote(file, j, s, x), Reading(j, s), TakePair
  PROVE  Reading(j, s)'
<1> DEFINE k == linesRead
<1>1. /\ rpc = "pairs" /\ lineno' = lineno /\ file' = file
  BY DEF TakePair
<1>2. /\ opened(j[k]) = 0
      /\ \E ps : ToCome(rpc, buff, pos_1, parts, ps)
                   /\ ps \cap Listed = {} /\ s[k] = Listed \cup ps
  BY <1>1 DEF Reading, Stands
<1>3. PICK ps : ToCome(rpc, buff, pos_1, parts, ps) /\ ps \cap Listed = {} /\ s[k] = Listed \cup ps
  BY <1>2
<1>4. PairsLeft(parts, ps)
  BY <1>1, <1>3 DEF ToCome
<1>5. OneTaken(ps)
  BY <1>4, TakeOne
<1>6. linesRead' = k
  BY <1>1, SameLines
<1>7. CASE rpc' = "pairs" /\ \E a \in ps : PairsLeft(parts', ps \ {a}) /\ Listed' = Listed \cup {a}
  <2>1. PICK a \in ps : PairsLeft(parts', ps \ {a}) /\ Listed' = Listed \cup {a}
    BY <1>7
  <2> DEFINE b == buff'
             p == pos_1'
             r == rpc'
             ls == Listed'
             l2 == lineno'
             qs == parts'
             all == file'.pairs
             more == ps \ {a}
  <2>2. r = "pairs" /\ opened(j[k]) = 0 /\ PairsLeft(qs, more)
    BY <1>2, <1>7, <2>1
  <2>3. more \cap ls = {} /\ s[k] = ls \cup more
    BY <1>3, <2>1
  <2> HIDE DEF k, b, p, r, ls, l2, qs, all, more
  <2>4. ToCome(r, b, p, qs, more)
    BY <2>2 DEF ToCome
  <2>5. r # "error" /\ Stands(r, k, l2, b, p, qs, ls, all, j, s)
    BY <2>2, <2>3, <2>4, StandsToCome
  <2>6. rpc' # "error" /\ Stands(rpc', k, lineno', buff', pos_1', parts', Listed', file'.pairs, j, s)
    BY <2>5 DEF r, ls, l2, qs, all, b, p
  <2>7. QED  BY <1>6, <2>6, ReadingThen, Zenon
<1>8. CASE rpc' = "error" /\ \E a \in ps, y \in Listed : a.name = y.name
  <2>1. PICK a \in ps, y \in Listed : a.name = y.name
    BY <1>8
  <2>2. k \in 0 .. Len(file.lines) /\ file \in Files
    <3>1. file \in Files /\ lineno \in 0 .. Len(file.lines) + 1
      BY DEF ReaderInv, TypeOK
    <3>2. Len(file.lines) \in Nat
      BY <3>1, FileIs
    <3>3. QED  BY <3>1, <3>2 DEF linesRead
  <2> HIDE DEF k
  <2>3. s[k] \subseteq file.pairs
    BY <2>2, SaidStays, Zenon
  <2>4. a \in file.pairs /\ y \in file.pairs /\ a # y
    BY <1>3, <2>1, <2>3
  <2>5. Ambiguous
    BY <2>1, <2>4 DEF Ambiguous
  <2>6. Ambiguous'
    BY <1>1, <2>5, SameLines
  <2>7. Stands(rpc, linesRead, lineno, buff, pos_1, parts, Listed, file.pairs, j, s)'
    BY <1>8 DEF Stands
  <2>8. QED  BY <2>6, <2>7, Zenon DEF Reading
<1>9. QED  BY <1>5, <1>7, <1>8, Zenon DEF OneTaken

LEMMA OthersRead ==
  ASSUME ReaderInv, NEW j, NEW s, NEW x, Wrote(file, j, s, x), Reading(j, s),
         ReadEnds \/ NoMorePairs \/ UNCHANGED vars
  PROVE  Reading(j, s)'
<1> DEFINE k == linesRead
<1>1. lineno' = lineno /\ file' = file /\ paramList' = paramList
  BY DEF ReadEnds, NoMorePairs, vars
<1>2. linesRead' = k /\ file'.pairs = file.pairs /\ Listed' = Listed
  BY <1>1, SameLines DEF Listed
<1>3. CASE ReadEnds
  <2>1. rpc = "line" /\ ~good(lineno) /\ rpc' = "ok"
    BY <1>3 DEF ReadEnds
  <2>2. opened(j[k]) = 0 /\ Listed = s[k]
    BY <2>1 DEF Reading, Stands
  <2>3. k = Len(file.lines)
    <3>1. file \in Files /\ lineno \in 0 .. Len(file.lines) + 1
      BY DEF ReaderInv, TypeOK
    <3>2. Len(file.lines) \in Nat
      BY <3>1, FileIs
    <3>3. QED  BY <2>1, <3>1, <3>2 DEF linesRead, good
  <2>4. s[Len(file.lines)] = file.pairs
    BY Zenon DEF Wrote
  <2>5. Listed' = file'.pairs
    BY <1>2, <2>2, <2>3, <2>4
  <2>6. Stands(rpc', k, lineno', buff', pos_1', parts', Listed', file'.pairs, j, s)
    BY <2>1, <2>5, StandsAt
  <2>7. QED  BY <1>2, <2>1, <2>6, ReadingThen, Zenon
<1>4. CASE NoMorePairs
  <2>1. rpc = "pairs" /\ parts = <<>> /\ rpc' = "line"
    BY <1>4 DEF NoMorePairs
  <2>2. /\ opened(j[k]) = 0
        /\ \E ps : ToCome(rpc, buff, pos_1, parts, ps)
                     /\ ps \cap Listed = {} /\ s[k] = Listed \cup ps
    BY <2>1 DEF Reading, Stands
  <2>3. PICK ps : ToCome(rpc, buff, pos_1, parts, ps) /\ ps \cap Listed = {} /\ s[k] = Listed \cup ps
    BY <2>2
  <2>4. PairsLeft(<<>>, ps)
    BY <2>1, <2>3 DEF ToCome
  <2>5. ps = {}
    BY <2>4, NoneLeft
  <2>6. Listed' = s[k]
    BY <1>2, <2>3, <2>5
  <2>7. Stands(rpc', k, lineno', buff', pos_1', parts', Listed', file'.pairs, j, s)
    BY <2>1, <2>2, <2>6, StandsAt
  <2>8. QED  BY <1>2, <2>1, <2>7, ReadingThen, Zenon
<1>5. CASE UNCHANGED vars
  <2>1. /\ rpc' = rpc /\ lineno' = lineno /\ buff' = buff /\ pos_1' = pos_1 /\ parts' = parts
    BY <1>5 DEF vars
  <2>2. Stands(rpc', linesRead', lineno', buff', pos_1', parts', Listed', file'.pairs, j, s)
    <3>1. Stands(rpc, linesRead, lineno, buff, pos_1, parts, Listed, file.pairs, j, s)
      BY DEF Reading
    <3>2. QED  BY <1>2, <2>1, <3>1
  <2>3. rpc' = "error" => Ambiguous'
    <3>1. rpc = "error" => Ambiguous
      BY DEF Reading
    <3>2. QED  BY <1>1, <2>1, <3>1, SameLines
  <2>4. QED  BY <2>2, <2>3, Zenon DEF Reading
<1>6. QED  BY <1>3, <1>4, <1>5

(* The inductive invariant.  What is listed is what the lines before the   *)
(* ones that are read together told, and buff or the parts, whichever is   *)
(* at hand, say what these tell.                                           *)
ReadsTold == file.printed => \E j, s, x : Wrote(file, j, s, x) /\ Reading(j, s)

LEMMA ToldInit ==
  ASSUME Init, \A f \in Files : f.printed => Written(f) PROVE ReadsTold
<1>1. SUFFICES ASSUME file.printed PROVE \E j, s, x : Wrote(file, j, s, x) /\ Reading(j, s)
  BY DEF ReadsTold
<1>2. file \in Files /\ rpc = "line" /\ lineno = 0 /\ paramList = <<>>
  BY DEF Init
<1>3. PICK j, s, x : Wrote(file, j, s, x)
  BY <1>1, <1>2, Zenon DEF Written
<1>4. linesRead = 0
  <2>1. Len(file.lines) \in Nat
    BY <1>2, FileIs
  <2>2. QED  BY <1>2, <2>1 DEF linesRead
<1>5. j[0] = <<>> /\ s[0] = {}
  BY <1>3, Zenon DEF Wrote
<1>6. opened(j[linesRead]) = 0
  BY <1>4, <1>5, OpenedNothing
<1>7. Listed = s[linesRead]
  BY <1>2, <1>4, <1>5 DEF Listed
<1>8. Stands(rpc, linesRead, lineno, buff, pos_1, parts, Listed, file.pairs, j, s)
  BY <1>2, <1>6, <1>7, StandsAt
<1>9. Reading(j, s)
  BY <1>2, <1>8 DEF Reading
<1>10. QED  BY <1>3, <1>9

LEMMA ToldStep ==
  ASSUME ReaderInv, BracketsCounted, ReadsTold, [Next]_vars PROVE ReadsTold'
<1>1. file' = file
  BY DEF Next, vars, ReadLine, ReadMore, ReadEnds, PassOver, Unwrap, Expand, ExpandFails, Split,
         TakePair, NoMorePairs
<1>2. SUFFICES ASSUME file.printed PROVE \E j, s, x : Wrote(file', j, s, x) /\ Reading(j, s)'
  BY <1>1 DEF ReadsTold
<1>3. PICK j, s, x : Wrote(file, j, s, x) /\ Reading(j, s)
  BY <1>2 DEF ReadsTold
<1>4. Reading(j, s)'
  <2>1. CASE ReadLine
    BY <1>3, <2>1, ReadLineReads
  <2>2. CASE ReadMore
    BY <1>3, <2>2, ReadMoreReads
  <2>3. CASE PassOver \/ Unwrap \/ Expand \/ ExpandFails
    BY <1>3, <2>3, GroupsRead
  <2>4. CASE Split
    BY <1>3, <2>4, SplitReads
  <2>5. CASE TakePair
    BY <1>3, <2>5, TakePairReads
  <2>6. CASE ReadEnds \/ NoMorePairs \/ UNCHANGED vars
    BY <1>3, <2>6, OthersRead
  <2>7. QED  BY <2>1, <2>2, <2>3, <2>4, <2>5, <2>6 DEF Next
<1>5. Wrote(file', j, s, x)
  BY <1>1, <1>3
<1>6. QED  BY <1>4, <1>5

LEMMA ToldRead == ASSUME ReadsTold PROVE RoundTrip
<1>1. SUFFICES ASSUME file.printed
               PROVE  /\ rpc = "ok" => ~Ambiguous /\ Listed = file.pairs
                      /\ rpc = "error" => Ambiguous
  BY DEF RoundTrip, Listed, pair
<1>2. PICK j, s, x : Wrote(file, j, s, x) /\ Reading(j, s)
  BY <1>1 DEF ReadsTold
<1>3. rpc = "error" => Ambiguous
  BY <1>2 DEF Reading
<1>4. ASSUME rpc = "ok" PROVE ~Ambiguous /\ Listed = file.pairs
  <2>1. Listed = file.pairs
    BY <1>2, <1>4 DEF Reading, Stands
  <2>2. ASSUME NEW p \in Listed, NEW q \in Listed, p.name = q.name PROVE p = q
    <3>1. PICK n \in DOMAIN paramList : p = pair(n, paramList[n])
      BY DEF Listed
    <3>2. PICK k \in DOMAIN paramList : q = pair(k, paramList[k])
      BY DEF Listed
    <3>3. p.name = n /\ q.name = k
      BY <3>1, <3>2 DEF pair
    <3>4. QED  BY <2>2, <3>1, <3>2, <3>3
  <2>3. QED  BY <2>1, <2>2 DEF Ambiguous
<1>5. QED  BY <1>3, <1>4

(* A file that is written as config.txt shows, with groups in groups to    *)
(* any depth, comments, and any number of lines of any length, is read as  *)
(* the pairs that it says, and refused if a name is set twice: neither how *)
(* read_param joins the lines nor how it expands the groups (misc.cpp)     *)
(* loses a pair or makes one up.                                           *)
THEOREM ReadsWhatIsWritten ==
  ASSUME \A f \in Files : f.printed => Written(f) PROVE Spec => []RoundTrip
<1>1. Init => ReadsTold
  BY ToldInit
<1>2. ReaderInv /\ BracketsCounted /\ ReadsTold /\ [Next]_vars => ReadsTold'
  BY ToldStep
<1>3. ReadsTold => RoundTrip
  BY ToldRead
<1>4. QED  BY <1>1, <1>2, <1>3, ReaderAlways, CountAlways, PTL DEF Spec
=============================================================================
