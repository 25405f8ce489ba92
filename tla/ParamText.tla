------------------------------- MODULE ParamText -------------------------------
(***************************************************************************)
(* How a file of parameters is written, as config.txt is: assignments,     *)
(* name = value; or name = "value"; and groups of these, name{...};, which *)
(* may have groups in them.  Nothing here is about how it is read, besides *)
(* that comments are taken away first: what a file says is said in terms   *)
(* of the groups around each assignment.                                   *)
(***************************************************************************)
EXTENDS ReadParam

Equal == "="

Has(s, x) == \E k \in 1 .. Len(s) : s[k] = x

(* The parts between semicolons; an empty text is one empty part. *)
SomeParts == {ps \in Seq(Text) : ps # <<>>}
cut(s)    == IF s = <<>> THEN << <<>> >> ELSE strsplit(s)

(* A value between quotation marks is written without them. *)
unquoted(w) == IF w # <<>> /\ Quote \in {w[1], Last(w)} THEN SubSeq(w, 2, Len(w) - 1) ELSE w

(***************************************************************************)
(* Statements.                                                             *)
(***************************************************************************)

(* u is the assignment of v to n: what is on both sides of its first equal *)
(* sign.                                                                   *)
IsAsg(u, n, v) ==
  /\ u \in Text /\ ~Has(u, Open) /\ ~Has(u, Close) /\ ~Has(u, Semicolon)
  /\ \E k \in 1 .. Len(u) :
       /\ u[k] = Equal /\ \A j \in 1 .. k - 1 : u[j] # Equal
       /\ strtrim(upto(u, k - 1)) = n /\ n # <<>>
       /\ unquoted(strtrim(from(u, k + 1))) = v /\ v # <<>>

(* The beginning of a group, up to and with its first assignment: a name,  *)
(* the bracket, and the assignment.                                        *)
Opening(u, g, n, v) ==
  \E k \in 1 .. Len(u) :
    LET w == upto(u, k - 1)
    IN  /\ u[k] = Open
        /\ ~Has(w, Open) /\ ~Has(w, Close) /\ ~Has(w, Equal)
        /\ strtrim(w) = g /\ g # <<>>
        /\ IsAsg(from(u, k + 1), n, v)

(* The end of one: the bracket alone. *)
Closing(u) ==
  /\ u \in Text
  /\ \E k \in 1 .. Len(u) : u[k] = Close /\ \A j \in 1 .. Len(u) : j # k => u[j] = Space

(* A statement: it begins a group (turn is 1), ends one (-1), or does      *)
(* neither.                                                                *)
Says(u, turn, g, n, v) ==
  \/ turn = 0 /\ IsAsg(u, n, v)
  \/ turn = 1 /\ Opening(u, g, n, v)
  \/ turn = -1 /\ Closing(u)

(* What goes in front of a name in each of the groups around it: a and b   *)
(* before and after a statement.                                           *)
Nests(a, b, turn, g) ==
  \/ turn = 0 /\ b = a
  \/ turn = 1 /\ b = Append(a, Last(a) \o (g \o <<".">>))
  \/ turn = -1 /\ Len(a) >= 2 /\ b = Front(a)

(* A text of m statements, a semicolon after each, whose groups all end.   *)
Block(s, m, turn, group, name, val, around) ==
  /\ s \in Text /\ m \in Nat
  /\ Len(cut(s)) = m + 1 /\ cut(s)[m + 1] = <<>>
  /\ around[0] = << <<>> >> /\ around[m] = << <<>> >>
  /\ \A i \in 0 .. m : around[i] \in SomeParts
  /\ \A i \in 1 .. m : /\ Says(cut(s)[i], turn[i], group[i], name[i], val[i])
                       /\ Nests(around[i - 1], around[i], turn[i], group[i])

(* The pair that an assignment stands for. *)
pair(n, v)      == [name |-> n, val |-> v]
pairOf(a, n, v) == pair(Last(a) \o n, v)

(* Its statements say the pairs ps, each one once. *)
Pairing(ps, m, turn, name, val, around) ==
  LET set == {i \in 1 .. m : turn[i] # -1}
  IN  /\ ps = {pairOf(around[i], name[i], val[i]) : i \in set}
      /\ \A i, j \in set : pairOf(around[i], name[i], val[i]) = pairOf(around[j], name[j], val[j])
                             => i = j

(* The statements x are those of s. *)
Tells(s, x) ==
  /\ Block(s, x.m, x.turn, x.group, x.name, x.val, x.around)
  /\ Pairing(x.pairs, x.m, x.turn, x.name, x.val, x.around)

(***************************************************************************)
(* Files.                                                                  *)
(***************************************************************************)

(* With line k of the file f, joined[k] is what there is since the         *)
(* brackets matched last.  When they match again it is the statements of   *)
(* as[k], with pairs that no line before said.                             *)
WrittenLine(f, joined, said, as, k) ==
  /\ joined[k] = (IF opened(joined[k - 1]) = 0 THEN <<>> ELSE joined[k - 1]) \o strip(f.lines[k])
  /\ opened(joined[k]) >= 0
  /\ IF opened(joined[k]) # 0 \/ joined[k] = <<>>
       THEN said[k] = said[k - 1]
       ELSE /\ Tells(joined[k], as[k])
            /\ as[k].pairs \cap said[k - 1] = {} /\ said[k] = said[k - 1] \cup as[k].pairs

(* All brackets match, and the pairs of the file are what it says. *)
Wrote(f, joined, said, as) ==
  /\ joined[0] = <<>> /\ said[0] = {}
  /\ \A k \in 1 .. Len(f.lines) : WrittenLine(f, joined, said, as, k)
  /\ opened(joined[Len(f.lines)]) = 0
  /\ said[Len(f.lines)] = f.pairs

Written(f) == \E joined, said, as : Wrote(f, joined, said, as)
=============================================================================
