---------------------------------- MODULE Grep ---------------------------------
(***************************************************************************)
(* user/grep.c: the matcher of regular expressions, and the loop that cuts *)
(* what read() returns, in pieces of any size, into lines.  Characters are *)
(* strings of length one, "n" the end of a line.                           *)
(***************************************************************************)
EXTENDS Integers, SequencesExt, FiniteSetsExt

CONSTANTS
    BUF,            \* sizeof(buf)
    NL              \* the end of a line

VARIABLES
    pattern, text,  \* what is looked for, and the whole of the input
    rest, buf,      \* the input that is left, and what is kept of it in buf
    out, at
vars == <<pattern, text, rest, buf, out, at>>
-------------------------------------------------------------------------------
RECURSIVE matchhere(_, _), matchstar(_, _, _), Anywhere(_, _)
matchhere(re, s) ==
    IF re = <<>> THEN TRUE
    ELSE IF Len(re) > 1 /\ re[2] = "*" THEN matchstar(re[1], SubSeq(re, 3, Len(re)), s)
    ELSE IF re = <<"$">> THEN s = <<>>
    ELSE s # <<>> /\ re[1] \in {".", s[1]} /\ matchhere(Tail(re), Tail(s))

matchstar(c, re, s) ==
    \/ matchhere(re, s)
    \/ s # <<>> /\ c \in {".", s[1]} /\ matchstar(c, re, Tail(s))

Anywhere(re, s) == matchhere(re, s) \/ (s # <<>> /\ Anywhere(re, Tail(s)))

match(re, s) == IF re # <<>> /\ re[1] = "^" THEN matchhere(Tail(re), s) ELSE Anywhere(re, s)

(* The lines in buf: those that match are written, the piece of a line at  *)
(* the end is kept for the next read().                                    *)
Cut(b) ==
    LET Add(c, r) == IF c # NL THEN [r EXCEPT !.line = Append(@, c)]
                     ELSE [line |-> <<>>, out |-> r.out \o
                             (IF match(pattern, r.line) THEN Append(r.line, NL) ELSE <<>>)]
    IN FoldLeft(LAMBDA r, c : Add(c, r), [line |-> <<>>, out |-> <<>>], b)

Init(Patterns, Texts) ==
    /\ pattern \in Patterns /\ text \in Texts
    /\ rest = text /\ buf = <<>> /\ out = <<>> /\ at = "read"

(* read() of at most the room in buf, which leaves a byte for the NUL.     *)
grep ==
    LET room == BUF - Len(buf) - 1 IN
    /\ at = "read"
    /\ UNCHANGED <<pattern, text>>
    /\ \/ \E n \in 1 .. Min({room, Len(rest)}) :
            LET r == Cut(buf \o SubSeq(rest, 1, n)) IN
            /\ buf' = r.line /\ out' = out \o r.out
            /\ rest' = SubSeq(rest, n + 1, Len(rest))
            /\ UNCHANGED at
       \/ /\ Min({room, Len(rest)}) <= 0
          /\ at' = "done" /\ UNCHANGED <<rest, buf, out>>
-------------------------------------------------------------------------------
(* The meaning of a pattern by the positions where a match may end, atom   *)
(* after atom: a character, perhaps with a star.                           *)
RECURSIVE Atoms(_)
Atoms(re) ==
    IF re = <<>> THEN <<>>
    ELSE IF Len(re) > 1 /\ re[2] = "*"
    THEN <<[c |-> re[1], star |-> TRUE]>> \o Atoms(SubSeq(re, 3, Len(re)))
    ELSE <<[c |-> re[1], star |-> FALSE]>> \o Atoms(Tail(re))

Matches(re, s) ==
    LET anchored == re # <<>> /\ re[1] = "^"
        atoms == Atoms(IF anchored THEN Tail(re) ELSE re)
        ended == atoms # <<>> /\ atoms[Len(atoms)] = [c |-> "$", star |-> FALSE]
        body == IF ended THEN SubSeq(atoms, 1, Len(atoms) - 1) ELSE atoms
        Fits(a, i) == a.c \in {".", s[i]}
        Step(ends, a) ==
            IF a.star THEN {j \in 0 .. Len(s) : \E i \in ends :
                              i <= j /\ \A k \in i + 1 .. j : Fits(a, k)}
            ELSE {j \in 1 .. Len(s) : j - 1 \in ends /\ Fits(a, j)}
        ends == FoldLeft(Step, IF anchored THEN {0} ELSE 0 .. Len(s), body)
    IN IF ended THEN Len(s) \in ends ELSE ends # {}

(* The lines of the input with their ends, without a piece after the last. *)
Lines ==
    LET ends == {i \in 1 .. Len(text) : text[i] = NL}
        Line(i) == LET before == {j \in ends : j < i}
                   IN SubSeq(text, (IF before = {} THEN 0 ELSE Max(before)) + 1, i)
    IN [i \in ends |-> Line(i)]

(* When grep ends, it has written the lines that match, in their order,    *)
(* however they were cut by read(), if none is too long for buf.           *)
GrepRight ==
    at = "done" /\ (\A i \in DOMAIN Lines : Len(Lines[i]) < BUF) =>
        out = FlattenSeq([i \in 1 .. Len(text) |->
                IF i \in DOMAIN Lines /\ Matches(pattern, Front(Lines[i])) THEN Lines[i] ELSE <<>>])
===============================================================================
