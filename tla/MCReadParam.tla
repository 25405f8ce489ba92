------------------------------ MODULE MCReadParam ------------------------------
(* Files for TLC: written down from groups and assignments, and any text.   *)
EXTENDS ParamText

Name == {"a", "b"}

Characters == {"a", "b", "g", "h", "x", "1", "2", "3", "4"}
              \cup {"/", "*", "=", ".", Space, Open, Close, Semicolon, Quote}

(* n = "v";  with or without the quotation marks; values tell places apart. *)
Asg(n, v, quoted) ==
  <<n, " ", "=">> \o (IF quoted THEN <<"\"", v, "\"">> ELSE <<v>>) \o <<";">>

(* A file of an assignment and a group, which has a group in it, each with *)
(* one or two assignments.  `rows' are its lines.                          *)
Rows(n, q) ==
  << Asg(n[1], "1", q), <<"g", " ", "{">>, Asg(n[2], "2", q), <<"h", "{">>,
     Asg(n[3], "3", q), Asg(n[4], "4", q), <<"}", ";">>, <<"}", " ", ";">> >>

Pairs(n) ==
  { [name |-> <<n[1]>>, val |-> <<"1">>],
    [name |-> <<"g", ".", n[2]>>, val |-> <<"2">>],
    [name |-> <<"g", ".", "h", ".", n[3]>>, val |-> <<"3">>],
    [name |-> <<"g", ".", "h", ".", n[4]>>, val |-> <<"4">>] }

(* One thing on a line, with a comment behind it or not; or the group on   *)
(* one line.                                                               *)
Comment == <<" ", "/", "/", "x">>
Layouts(rows) ==
  { rows,
    [k \in DOMAIN rows |-> rows[k] \o Comment],
    <<rows[1], FlattenSeq(Tail(rows))>>,
    <<FlattenSeq(rows)>> }

(* The same name outside and in the groups, or not; those of the inner     *)
(* group may clash.  Files with quotation marks lack the last line end.    *)
Printed ==
  UNION {{[lines |-> l, newline |-> ~q, pairs |-> Pairs(n), printed |-> TRUE] :
            l \in Layouts(Rows(n, q))} :
          n \in {m \in [1 .. 4 -> Name] : m[1] = "a"}, q \in BOOLEAN}

(* The statements of s, to be held against what ParamText says of them. *)
statements(s) ==
  LET c      == cut(s)
      m      == Len(c) - 1
      turn   == [i \in 1 .. m |-> IF Has(c[i], Open) THEN 1 ELSE IF Has(c[i], Close) THEN -1 ELSE 0]
      group  == [i \in 1 .. m |-> strtrim(upto(c[i], find(c[i], Open, 1) - 1))]
      asg    == [i \in 1 .. m |-> from(c[i], find(c[i], Open, 1) + 1)]
      name   == [i \in 1 .. m |-> strtrim(upto(asg[i], find(asg[i], Equal, 1) - 1))]
      val    == [i \in 1 .. m |-> unquoted(strtrim(from(asg[i], find(asg[i], Equal, 1) + 1)))]
      around[i \in 0 .. m] ==
        IF i = 0 THEN << <<>> >>
          ELSE LET a == around[i - 1]
               IN  CASE turn[i] = 0  -> a
                     [] turn[i] = 1  -> Append(a, Last(a) \o (group[i] \o <<".">>))
                     [] turn[i] = -1 -> Front(a)
  IN  [m |-> m, turn |-> turn, group |-> group, name |-> name, val |-> val, around |-> around,
       pairs |-> {pairOf(around[i], name[i], val[i]) : i \in {j \in 1 .. m : turn[j] # -1}}]

(* These files are such as the theorem ReadsWhatIsWritten is about. *)
ASSUME PrintedAreWritten ==
  \A f \in Printed :
    LET N == Len(f.lines)
        joined[k \in 0 .. N] ==
          IF k = 0 THEN <<>>
            ELSE (IF opened(joined[k - 1]) = 0 THEN <<>> ELSE joined[k - 1]) \o strip(f.lines[k])
        as == [k \in 1 .. N |-> IF opened(joined[k]) = 0 THEN statements(joined[k]) ELSE [pairs |-> {}]]
        said[k \in 0 .. N] == IF k = 0 THEN {} ELSE said[k - 1] \cup as[k].pairs
    IN  Wrote(f, joined, said, as)

(* Any text of up to five characters, on one line or two. *)
Junk  ==
  {[lines |-> <<t>>, newline |-> TRUE, pairs |-> {}, printed |-> FALSE] :
     t \in BoundedSeq({"a", "=", "{", "}", ";"}, 5)}
  \cup {[lines |-> <<t, u>>, newline |-> e, pairs |-> {}, printed |-> FALSE] :
     t \in BoundedSeq({"a", "=", "{", "}", ";"}, 3), u \in BoundedSeq({"=", "}", "{"}, 2),
     e \in BOOLEAN}

(* Two pairs with brackets in them, which match on the whole, before a     *)
(* line that opens one or two: the last pair closes one, or opens one.     *)
Leftover ==
  {[lines |-> <<t, u>>, newline |-> e, pairs |-> {}, printed |-> FALSE] :
     t \in {<<"x", "=", "{", ";", "}", "=", "a", ";">>, <<"x", "=", "}", ";", "{", "}", "=", "{", ";">>},
     u \in {<<"b", "{">>, <<"b", "{", "{">>}, e \in BOOLEAN}

SomeFiles == Printed \cup Junk \cup Leftover

(* a=1; with a comment and b=2; behind it *)
Commented ==
  {[lines |-> << <<"a", "=", "1", ";", "/", "*", "x", "*", "/", "b", "=", "2", ";">> >>,
    newline |-> TRUE, printed |-> TRUE,
    pairs |-> {[name |-> <<"a">>, val |-> <<"1">>], [name |-> <<"b">>, val |-> <<"2">>]}]}
=============================================================================
