------------------------------ MODULE LineText ------------------------------
(***************************************************************************)
(* The string functions of mygrep (L4.2) that make lines of a text and a   *)
(* text of lines, in chunk.Split of the client and in the handler of the   *)
(* servers.  Each goes through its argument once, from left to right.      *)
(*                                                                         *)
(* A text is a sequence over three characters, the two that make line      *)
(* ends and one that stands for all the others.                            *)
(***************************************************************************)
EXTENDS Integers, Sequences, FiniteSetsExt, SequencesExt

CR == "CR"
LF == "LF"
Chars == {"x", CR, LF}

\* A line feed takes a carriage return before it away.
Normalized(t, c) ==
    IF c = LF /\ t # <<>> /\ Last(t) = CR THEN Append(Front(t), c) ELSE Append(t, c)

\* strings.ReplaceAll(t, "\r\n", "\n").
Normalize(t) == FoldLeft(Normalized, <<>>, t)

\* Mutant: every final line end is cut off.
TrimAll(t) ==
    LET last == Max({0} \cup {k \in DOMAIN t : t[k] # LF}) IN SubSeq(t, 1, last)

\* Exactly one final line end is cut off.
Trim(t) == IF t # <<>> /\ Last(t) = LF THEN Front(t) ELSE t

\* A line feed begins a line, any other character prolongs the last one.
Scanned(ls, c) ==
    IF c = LF THEN Append(ls, <<>>) ELSE Append(Front(ls), Append(Last(ls), c))

\* strings.Split(t, "\n").
Cut(t) == FoldLeft(Scanned, <<<<>>>>, t)

Joined(t, l) == t \o <<LF>> \o l

\* strings.Join(ls, "\n").
Join(ls) == IF ls = <<>> THEN <<>> ELSE FoldLeft(Joined, Head(ls), Tail(ls))

LinesOf(t) == IF t = <<>> THEN <<>> ELSE Cut(t)

\* What the handler of a server makes of the data of a chunk.
ServerLines(data) == IF data = <<>> THEN <<>> ELSE Cut(Normalize(data))
=============================================================================
