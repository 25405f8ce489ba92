------------------------------- MODULE ReadParam -------------------------------
(***************************************************************************)
(* read_param (misc.cpp): it turns the text of a configuration file into   *)
(* pairs of a name and a value.  Lines are taken until the brackets match; *)
(* then the groups, name{...}, are expanded from the last one to the       *)
(* first; then what there is is split at the semicolons and each part at   *)
(* its equal sign.                                                         *)
(*                                                                         *)
(* Text is a sequence of characters; the white space there is Space.       *)
(* Positions count from one, and zero is npos.                             *)
(***************************************************************************)
EXTENDS Integers, Sequences, SequencesExt

CONSTANTS
  Char,             \* the characters of a text
  Files,            \* [lines, newline: does the last one end in one, pairs, printed]
  MaxBuff           \* bound: length of buff

Space     == " "
Open      == "{"
Close     == "}"
Semicolon == ";"
Quote     == "\""
Text      == Seq(Char)

ASSUME ReadParamAssumption ==
  /\ {"/", "*", "=", ".", Space, Open, Close, Semicolon, Quote} \subseteq Char
  /\ MaxBuff \in Nat
  /\ \A f \in Files : /\ f.lines \in Seq(Text)
                       /\ f.newline \in BOOLEAN /\ f.printed \in BOOLEAN

VARIABLES
  file,
  rpc,              \* where read_param is
  lineno,           \* lines taken so far
  buff, str,
  nbracket,         \* brackets that are open in buff
  pos_1,            \* the bracket that the loop over the groups is at
  parts,            \* what is left of buff between semicolons
  paramList

vars == <<file, rpc, lineno, buff, str, nbracket, pos_1, parts, paramList>>

(***************************************************************************)
(* The string utilities.                                                   *)
(***************************************************************************)

find(s, c, i) == IF \E k \in i .. Len(s) : s[k] = c
                   THEN CHOOSE k \in i .. Len(s) : s[k] = c /\ \A j \in i .. k - 1 : s[j] # c
                   ELSE 0
find_last(s, c, i) == IF \E k \in 1 .. i : s[k] = c
                        THEN CHOOSE k \in 1 .. i : s[k] = c /\ \A j \in k + 1 .. i : s[j] # c
                        ELSE 0

find2(s, c, d, i) ==
  LET Ks == {k \in i .. Len(s) - 1 : s[k] = c /\ s[k + 1] = d}
  IN  IF Ks = {} THEN 0 ELSE CHOOSE k \in Ks : \A j \in Ks : k <= j

from(s, i) == SubSeq(s, i, Len(s))
upto(s, i) == SubSeq(s, 1, i)

(* A block comment goes, by str.erase(pos, pos2 + 2): the second number is *)
(* a length.                                                               *)
erased(s) ==
  LET pos  == find2(s, "/", "*", 1)
      pos2 == IF pos = 0 THEN 0 ELSE find2(s, "*", "/", pos)
  IN  IF pos2 = 0 THEN s ELSE upto(s, pos - 1) \o from(s, pos + pos2 + 1)

(* Each that goes takes a star with it. *)
without_blocks(s) ==
  LET left[n \in 0 .. find_last(s, "*", Len(s))] == IF n = 0 THEN s ELSE erased(left[n - 1])
  IN  left[find_last(s, "*", Len(s))]

(* A line has no line ends: the rest after // goes. *)
remove_comments(s) ==
  LET t   == without_blocks(s)
      pos == find2(t, "/", "/", 1)
  IN  IF pos = 0 THEN t ELSE upto(t, pos - 1)

strtrim(s) ==
  LET Ks == {k \in DOMAIN s : s[k] # Space}
  IN  IF Ks = {} THEN <<>>
        ELSE SubSeq(s, CHOOSE k \in Ks : \A j \in Ks : k <= j,
                       CHOOSE k \in Ks : \A j \in Ks : k >= j)

(* To the parts x[1] one more character, x[2]: it begins a part or belongs *)
(* to the last one.                                                        *)
extended[x \in Seq(Text) \X Char] ==
  IF x[2] = Semicolon THEN Append(x[1], <<>>)
    ELSE [x[1] EXCEPT ![Len(x[1])] = Append(@, x[2])]

(* The parts between semicolons; one more than there are of these. *)
strsplit(s) ==
  LET split[k \in 0 .. Len(s)] == IF k = 0 THEN << <<>> >> ELSE extended[<<split[k - 1], s[k]>>]
  IN  IF s = <<>> THEN <<>> ELSE split[Len(s)]

strip(s) == strtrim(remove_comments(s))

(* The brackets that s opens, less those that it closes. *)
opened(s) ==
  LET count[k \in 0 .. Len(s)] ==
        IF k = 0 THEN 0
        ELSE count[k - 1] + (IF s[k] = Open THEN 1 ELSE IF s[k] = Close THEN -1 ELSE 0)
  IN  count[Len(s)]

(***************************************************************************)
(* The stream: good() after n lines were taken, and the next line.  When   *)
(* the end was met already, getline leaves its string as it was.           *)
(***************************************************************************)

good(n) == n < Len(file.lines) \/ (n = Len(file.lines) /\ file.newline)

getline(old) ==
  IF lineno < Len(file.lines) THEN file.lines[lineno + 1]
    ELSE IF good(lineno) THEN <<>> ELSE old

Init ==
  /\ file \in Files
  /\ rpc = "line"
  /\ lineno = 0
  /\ buff = <<>> /\ str = <<>>
  /\ nbracket = 0
  /\ pos_1 = 0
  /\ parts = <<>>
  /\ paramList = <<>>

taken == lineno' = IF lineno > Len(file.lines) THEN lineno ELSE lineno + 1

(* One more line; one with nothing in it is passed over, one that closes   *)
(* more brackets than it opens is an error.                                *)
ReadLine ==
  /\ rpc = "line"
  /\ good(lineno)
  /\ taken
  /\ buff' = strip(getline(buff))
  /\ nbracket' = opened(buff')
  /\ rpc' = IF buff' = <<>> THEN "line"
              ELSE IF nbracket' < 0 THEN "error"
              ELSE IF nbracket' = 0 THEN "group" ELSE "more"
  /\ pos_1' = find_last(buff', Open, Len(buff'))
  /\ UNCHANGED <<file, str, parts, paramList>>

(* Faulty: the end of the file closes all brackets. *)
ReadMore_EndCloses ==
  /\ rpc = "more"
  /\ taken
  /\ str' = strip(getline(str))
  /\ Len(buff) + Len(str') <= MaxBuff
  /\ buff' = buff \o str'
  /\ nbracket' = nbracket + opened(str')
  /\ rpc' = IF nbracket' = 0 \/ (~good(lineno') /\ getline(str) = <<>>)
              THEN "group" ELSE "more"
  /\ pos_1' = find_last(buff', Open, Len(buff'))
  /\ UNCHANGED <<file, parts, paramList>>

(* Lines are appended until the brackets match; there must be one. *)
ReadMore ==
  /\ rpc = "more"
  /\ taken
  /\ IF ~good(lineno') /\ getline(str) = <<>>
       THEN rpc' = "error" /\ UNCHANGED <<buff, str, nbracket, pos_1>>
       ELSE /\ str' = strip(getline(str))
            /\ Len(buff) + Len(str') <= MaxBuff
            /\ buff' = buff \o str'
            /\ nbracket' = nbracket + opened(str')
            /\ rpc' = IF nbracket' = 0 THEN "group" ELSE "more"
            /\ pos_1' = find_last(buff', Open, Len(buff'))
  /\ UNCHANGED <<file, parts, paramList>>

ReadEnds ==
  /\ rpc = "line"
  /\ ~good(lineno)
  /\ rpc' = "ok"
  /\ UNCHANGED <<file, lineno, buff, str, nbracket, pos_1, parts, paramList>>

(***************************************************************************)
(* The groups.                                                             *)
(***************************************************************************)

(* The bracket that closes the one at pos_1. *)
pos_2 ==
  LET Ks == {k \in pos_1 + 1 .. Len(buff) :
               buff[k] = Close /\ opened(SubSeq(buff, pos_1, k)) = 0}
  IN  IF Ks = {} THEN Len(buff) + 1 ELSE CHOOSE k \in Ks : \A j \in Ks : k <= j
pos_3 == find(buff, "=", pos_1)
pos_4 == find_last(buff, Semicolon, pos_1)

pre_delim == strtrim(SubSeq(buff, pos_4 + 1, pos_1 - 1))

IsGroup == pos_3 # 0 /\ pos_2 > pos_3

(* Faulty: the search begins at the position it was at. *)
before_Same(b, i) == find_last(b, Open, i)

(* buff.find_last_of("{", pos_1 - 1): before position one lies npos, and   *)
(* the whole of buff is searched.                                          *)
before(b, i) == find_last(b, Open, IF i = 1 THEN Len(b) ELSE i - 1)

(* Brackets without an equal sign stay. *)
PassOver ==
  /\ rpc = "group" /\ pos_1 # 0
  /\ ~IsGroup
  /\ pos_1' = before(buff, pos_1)
  /\ UNCHANGED <<file, rpc, lineno, buff, str, nbracket, parts, paramList>>

(* Brackets without a name are taken away. *)
Unwrap ==
  /\ rpc = "group" /\ pos_1 # 0
  /\ IsGroup /\ pre_delim = <<>>
  /\ buff' = upto(buff, pos_1 - 1) \o SubSeq(buff, pos_1 + 1, pos_2 - 1) \o from(buff, pos_2 + 1)
  /\ pos_1' = before(buff', pos_1)
  /\ UNCHANGED <<file, rpc, lineno, str, nbracket, parts, paramList>>

exprs == strsplit(SubSeq(buff, pos_1 + 1, pos_2 - 1))

(* The last expression has its semicolon and none is empty. *)
Complete(es) ==
  /\ strtrim(Last(es)) = <<>>
  /\ \A k \in 1 .. Len(es) - 1 : strtrim(es[k]) # <<>>

(* Faulty: a semicolon after the group stays. *)
rest_Semicolon ==
  LET Ks == {k \in pos_2 + 1 .. Len(buff) : buff[k] # Space}
  IN  from(buff, IF Ks = {} THEN Len(buff) + 1 ELSE CHOOSE k \in Ks : \A j \in Ks : k <= j)

(* What follows the group, its semicolon left out.  When its bracket is    *)
(* never closed misc.cpp:298 looks behind the end of buff; whatever is     *)
(* there, nothing of buff follows.                                         *)
rest ==
  LET Ks   == {k \in pos_2 + 1 .. Len(buff) : buff[k] # Space}
      next == IF Ks = {} THEN Len(buff) + 1 ELSE CHOOSE k \in Ks : \A j \in Ks : k <= j
  IN  from(buff, IF next \in Ks /\ buff[next] = Semicolon THEN next + 1 ELSE next)

expanded(es) ==
  LET pre == pre_delim \o <<".">>
      all[k \in 0 .. Len(es) - 1] ==
        IF k = 0 THEN <<>> ELSE all[k - 1] \o (pre \o strtrim(es[k]) \o <<Semicolon>>)
  IN  all[Len(es) - 1]

(* Faulty: the search goes on where the group began. *)
Expand_AtSemicolon ==
  /\ rpc = "group" /\ pos_1 # 0
  /\ IsGroup /\ pre_delim # <<>>
  /\ LET es == exprs IN Complete(es) /\ str' = expanded(es)
  /\ buff' = upto(buff, pos_4) \o str' \o rest
  /\ pos_1' = pos_4
  /\ UNCHANGED <<file, rpc, lineno, nbracket, parts, paramList>>

(* The expressions of a group get its name in front.  When no semicolon    *)
(* comes before the group the loop ends.                                   *)
Expand ==
  /\ rpc = "group" /\ pos_1 # 0
  /\ IsGroup /\ pre_delim # <<>>
  /\ LET es == exprs IN Complete(es) /\ str' = expanded(es)
  /\ buff' = upto(buff, pos_4) \o str' \o rest
  /\ pos_1' = IF pos_4 = 0 THEN 0 ELSE before(buff', pos_4)
  /\ UNCHANGED <<file, rpc, lineno, nbracket, parts, paramList>>

ExpandFails ==
  /\ rpc = "group" /\ pos_1 # 0
  /\ IsGroup /\ pre_delim # <<>>
  /\ LET es == exprs IN ~Complete(es)
  /\ rpc' = "error"
  /\ UNCHANGED <<file, lineno, buff, str, nbracket, pos_1, parts, paramList>>

(***************************************************************************)
(* The pairs.                                                              *)
(***************************************************************************)

(* The last part must be empty. *)
Split ==
  /\ rpc = "group" /\ pos_1 = 0
  /\ IF Last(strsplit(buff)) # <<>>
       THEN rpc' = "error" /\ UNCHANGED parts
       ELSE rpc' = "pairs" /\ parts' = Front(strsplit(buff))
  /\ UNCHANGED <<file, lineno, buff, str, nbracket, pos_1, paramList>>

equal     == find(strtrim(Head(parts)), "=", 1)
paramName == strtrim(upto(strtrim(Head(parts)), equal - 1))
text      == strtrim(from(strtrim(Head(parts)), equal + 1))

(* If there is a quotation mark at one end both ends are cut off.  Of an   *)
(* empty text there is no front() or back(): whatever is found there, the  *)
(* text is refused or substr throws, which TakePair takes for an error.    *)
paramVal ==
  IF text # <<>> /\ Quote \in {text[1], Last(text)} THEN SubSeq(text, 2, Len(text) - 1) ELSE text

IsPair == equal # 0 /\ paramVal # <<>> /\ paramName \notin DOMAIN paramList

(* No equal sign, no value, or a name that has one already: an error.  str *)
(* keeps the pair's text, which ReadMore may find there.                   *)
TakePair ==
  /\ rpc = "pairs" /\ parts # <<>>
  /\ str' = strtrim(Head(parts))
  /\ IF IsPair
       THEN /\ paramList' = [n \in DOMAIN paramList \cup {paramName} |->
                               IF n = paramName THEN paramVal ELSE paramList[n]]
            /\ parts' = Tail(parts)
            /\ UNCHANGED rpc
       ELSE rpc' = "error" /\ UNCHANGED <<parts, paramList>>
  /\ UNCHANGED <<file, lineno, buff, nbracket, pos_1>>

NoMorePairs ==
  /\ rpc = "pairs" /\ parts = <<>>
  /\ rpc' = "line"
  /\ UNCHANGED <<file, lineno, buff, str, nbracket, pos_1, parts, paramList>>

Next ==
  \/ ReadLine \/ ReadMore \/ ReadEnds
  \/ PassOver \/ Unwrap \/ Expand \/ ExpandFails
  \/ Split \/ TakePair \/ NoMorePairs

Spec     == Init /\ [][Next]_vars
FairSpec == Spec /\ WF_vars(Next)

(***************************************************************************)
(* Properties.                                                             *)
(***************************************************************************)

(* The type invariant: among others, the loop over the groups always is at *)
(* an opening bracket.                                                     *)
TypeOK ==
  /\ file \in Files
  /\ rpc \in {"line", "more", "group", "pairs", "ok", "error"}
  /\ lineno \in 0 .. Len(file.lines) + 1
  /\ nbracket \in Int
  /\ pos_1 \in 0 .. Len(buff)
  /\ pos_1 # 0 => buff[pos_1] = Open
  /\ \A n \in DOMAIN paramList : paramList[n] # <<>>

(* Two pairs with one name. *)
Ambiguous == \E p, q \in file.pairs : p # q /\ p.name = q.name

(* A file that was written down from pairs, in the way that config.txt     *)
(* shows, is read as these pairs, and refused if a name is set twice.      *)
RoundTrip ==
  file.printed =>
    /\ rpc = "ok" => /\ ~Ambiguous
                     /\ {[name |-> n, val |-> paramList[n]] : n \in DOMAIN paramList} = file.pairs
    /\ rpc = "error" => Ambiguous

(* The brackets that the first n lines open, less those that they close.   *)
openedIn(n) ==
  LET sum[k \in 0 .. n] == IF k = 0 THEN 0 ELSE sum[k - 1] + opened(strip(file.lines[k]))
  IN  sum[n]

(* A file is only accepted if its brackets match, unless it ends without a *)
(* line end: then its last line is read again and again.                   *)
BalancedIfAccepted == rpc = "ok" /\ file.newline => openedIn(Len(file.lines)) = 0

(* How far brackets are from matching. *)
unmatched(n) == IF n < 0 THEN -n ELSE n

(* Where read_param may go on for ever.  A text begins with a bracket of   *)
(* no group: the search for brackets begins again at the text's end        *)
(* (misc.cpp:313).  Or brackets are open at the end of a file without a    *)
(* last line end: getline leaves str as it is, and what is in it, the last *)
(* line or, when this is the line that opened them, the pair taken before  *)
(* it (misc.cpp:327), is appended again (misc.cpp:228) without bringing    *)
(* them nearer to matching.                                                *)
Stuck ==
  \/ rpc = "group" /\ pos_1 = 1 /\ ~IsGroup
  \/ /\ rpc = "more" /\ ~good(lineno) /\ strip(str) # <<>>
     /\ unmatched(nbracket + opened(strip(str))) >= unmatched(nbracket)

(* Whatever the text, reading ends or comes to one of these two places.    *)
ReaderEnds == <>(rpc \in {"ok", "error"} \/ Stuck)

(* "remove comments from a string" (misc.cpp:124): a comment between two   *)
(* expressions goes and they stay.                                         *)
CommentsRemoved ==
  rpc = "ok" => {[name |-> n, val |-> paramList[n]] : n \in DOMAIN paramList} = file.pairs
=============================================================================
