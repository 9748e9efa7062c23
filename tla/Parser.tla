--------------------------------- MODULE Parser --------------------------------
(***************************************************************************)
(* user/sh.c: the parser of command lines.                                 *)
(*                                                                         *)
(* A line is a sequence of tokens, those of gettoken(): symbols and words. *)
(* Each function takes the tokens that are left and returns what it made   *)
(* of them and the rest.  panic() ends the process at once; here it leaves *)
(* a token as the rest that no rule takes, so that the callers fail too.   *)
(***************************************************************************)
EXTENDS Naturals, Sequences

CONSTANT MAXARGS

Symbols == {"<", "|", ">", ">>", "&", ";", "(", ")"}
Word(t) == t \notin Symbols \cup {"panic"}

Exec(argv) == [type |-> "EXEC", argv |-> argv]
Redir(cmd, op, file) == [type |-> "REDIR", cmd |-> cmd, op |-> op, file |-> file]
Pipe(left, right) == [type |-> "PIPE", left |-> left, right |-> right]
List(left, right) == [type |-> "LIST", left |-> left, right |-> right]
Back(cmd) == [type |-> "BACK", cmd |-> cmd]

Panic == [cmd |-> Exec(<<>>), rest |-> <<"panic">>]

peek(s, toks) == s # <<>> /\ Head(s) \in toks

RECURSIVE parseline(_), parsepipe(_), parseredirs(_, _), parsewords(_, _, _),
          Background(_, _), Redirected(_, _)

(* The redirections found, of which the first is the innermost. *)
parseredirs(found, s) ==
    IF ~peek(s, {"<", ">", ">>"}) THEN [found |-> found, rest |-> s]
    ELSE IF Len(s) < 2 \/ ~Word(s[2]) THEN [found |-> found, rest |-> <<"panic">>]
    ELSE parseredirs(Append(found, [op |-> s[1], file |-> s[2]]), SubSeq(s, 3, Len(s)))

Redirected(cmd, found) ==
    IF found = <<>> THEN cmd
    ELSE Redirected(Redir(cmd, Head(found).op, Head(found).file), Tail(found))

(* The loop of parseexec(). *)
parsewords(argv, found, s) ==
    IF s = <<>> \/ peek(s, {"|", ")", "&", ";"})
    THEN [cmd |-> Redirected(Exec(argv), found), rest |-> s]
    ELSE IF ~Word(Head(s)) \/ Len(argv) + 1 >= MAXARGS THEN Panic
    ELSE LET r == parseredirs(found, Tail(s))
         IN parsewords(Append(argv, Head(s)), r.found, r.rest)

parseblock(s) ==
    LET line == parseline(Tail(s)) IN
    IF ~peek(line.rest, {")"}) THEN Panic
    ELSE LET r == parseredirs(<<>>, Tail(line.rest))
         IN [cmd |-> Redirected(line.cmd, r.found), rest |-> r.rest]

parseexec(s) ==
    IF peek(s, {"("}) THEN parseblock(s)
    ELSE LET r == parseredirs(<<>>, s) IN parsewords(<<>>, r.found, r.rest)

parsepipe_LeftOfAll(s) ==
    LET left == parseexec(s)
        right == parseline(Tail(left.rest))
    IN IF ~peek(left.rest, {"|"}) THEN left
       ELSE [cmd |-> Pipe(left.cmd, right.cmd), rest |-> right.rest]
parsepipe(s) ==
    LET left == parseexec(s)
        right == parsepipe(Tail(left.rest))
    IN IF ~peek(left.rest, {"|"}) THEN left
       ELSE [cmd |-> Pipe(left.cmd, right.cmd), rest |-> right.rest]

Background(cmd, s) ==
    IF peek(s, {"&"}) THEN Background(Back(cmd), Tail(s)) ELSE [cmd |-> cmd, rest |-> s]

parseline(s) ==
    LET left == parsepipe(s)
        back == Background(left.cmd, left.rest)
        right == parseline(Tail(back.rest))
    IN IF ~peek(back.rest, {";"}) THEN back
       ELSE [cmd |-> List(back.cmd, right.cmd), rest |-> right.rest]

(* The tree, or a panic if something is left over. *)
parsecmd(s) ==
    LET line == parseline(s) IN
    IF line.rest = <<>> THEN line.cmd ELSE [type |-> "panic"]
-------------------------------------------------------------------------------
(* The grammar that the functions follow, by how a line may be cut in two; *)
(* it says nothing of the order in which tokens are read.                  *)
RECURSIVE IsLine(_), IsPipe(_), IsExec(_), IsBlock(_), Bare(_)

Cut(s, A(_), B(_)) == \E n \in 0 .. Len(s) : A(SubSeq(s, 1, n)) /\ B(SubSeq(s, n + 1, Len(s)))
Begins(s, t) == s # <<>> /\ s[1] = t
Ends(s, t) == s # <<>> /\ s[Len(s)] = t
Front(s) == SubSeq(s, 1, Len(s) - 1)
IsRedir(s) == Len(s) = 2 /\ s[1] \in {"<", ">", ">>"} /\ Word(s[2])

(* A line without its parentheses and redirections.                        *)
Bare(s) ==
    IF s = <<>> THEN <<>>
    ELSE IF Head(s) \in {"(", ")"} THEN Bare(Tail(s))
    ELSE IF Head(s) \in {"<", ">", ">>"} THEN Bare(SubSeq(s, 3, Len(s)))
    ELSE <<Head(s)>> \o Bare(Tail(s))

(* Words and redirections in any order; words alone are arguments. *)
IsExec(s) ==
    \/ s = <<>>
    \/ s # <<>> /\ Word(s[Len(s)]) /\ IsExec(Front(s))
    \/ Len(s) >= 2 /\ IsRedir(SubSeq(s, Len(s) - 1, Len(s))) /\ IsExec(SubSeq(s, 1, Len(s) - 2))

IsBlock(s) ==
    \/ Begins(s, "(") /\ Ends(s, ")") /\ Len(s) >= 2 /\ IsLine(Tail(Front(s)))
    \/ Len(s) >= 2 /\ IsRedir(SubSeq(s, Len(s) - 1, Len(s))) /\ IsBlock(SubSeq(s, 1, Len(s) - 2))

IsPipe(s) ==
    LET Rest(t) == Begins(t, "|") /\ IsPipe(Tail(t))
        One(t) == (IsExec(t) /\ Len(Bare(t)) < MAXARGS) \/ IsBlock(t)
    IN One(s) \/ Cut(s, One, Rest)

IsLine(s) ==
    LET Rest(t) == Begins(t, ";") /\ IsLine(Tail(t))
        RECURSIVE One(_)
        One(t) == IsPipe(t) \/ (Ends(t, "&") /\ One(Front(t)))
    IN One(s) \/ Cut(s, One, Rest)
-------------------------------------------------------------------------------
(* The words and operators of a tree from left to right.                   *)
RECURSIVE InOrder(_)
InOrder(cmd) ==
    CASE cmd.type = "EXEC" -> cmd.argv
      [] cmd.type = "REDIR" -> InOrder(cmd.cmd)
      [] cmd.type = "PIPE" -> InOrder(cmd.left) \o <<"|">> \o InOrder(cmd.right)
      [] cmd.type = "LIST" -> InOrder(cmd.left) \o <<";">> \o InOrder(cmd.right)
      [] cmd.type = "BACK" -> Append(InOrder(cmd.cmd), "&")

(* A pipe binds tighter than &, and & tighter than ";"; both operators     *)
(* group to the right.  With parentheses any tree is possible.             *)
RECURSIVE Binds(_)
Binds(cmd) ==
    CASE cmd.type = "EXEC" -> TRUE
      [] cmd.type = "REDIR" -> cmd.cmd.type \in {"EXEC", "REDIR"} /\ Binds(cmd.cmd)
      [] cmd.type = "PIPE" -> /\ cmd.left.type \in {"EXEC", "REDIR"} /\ Binds(cmd.left)
                              /\ cmd.right.type \in {"EXEC", "REDIR", "PIPE"} /\ Binds(cmd.right)
      [] cmd.type = "LIST" -> /\ cmd.left.type # "LIST" /\ Binds(cmd.left)
                              /\ Binds(cmd.right)
      [] cmd.type = "BACK" -> cmd.cmd.type # "LIST" /\ Binds(cmd.cmd)

(* A line is accepted when the grammar has it, and its tree keeps the      *)
(* words and operators in their order, bound as the grammar binds them.    *)
ParsedRight(s) ==
    LET cmd == parsecmd(s) IN
    /\ (cmd.type # "panic") = IsLine(s)
    /\ cmd.type # "panic" =>
         /\ InOrder(cmd) = Bare(s)
         /\ (\A n \in 1 .. Len(s) : s[n] # "(") => Binds(cmd)
===============================================================================
