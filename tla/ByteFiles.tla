------------------------------- MODULE ByteFiles ------------------------------
(***************************************************************************)
(* What the blocks of a file promise their users: a file is a sequence of  *)
(* bytes, an open file has an offset in it, and a write puts the writer's  *)
(* bytes at the offset, never leaves a gap before them and moves it behind *)
(* them, whatever the disk's blocks held before.                           *)
(***************************************************************************)
EXTENDS Integers, Sequences

CONSTANTS
    Opened,      \* open files, by process
    FileOf,      \* per open file: the file
    Vals,        \* what a writer writes, byte after byte
    MaxLen

VARIABLES
    now,         \* per file: its bytes
    offset       \* per open file

Files == {FileOf[o] : o \in Opened}

BytesInit ==
    /\ now \in [Files -> Seq(Vals)]
    /\ offset = [o \in Opened |-> 0]

Write(o, n, v) ==
    /\ offset[o] <= Len(now[FileOf[o]])
    /\ offset' = [offset EXCEPT ![o] = @ + n]
    /\ now' = [now EXCEPT ![FileOf[o]] =
         SubSeq(@, 1, offset[o]) \o [i \in 1 .. n |-> v]
         \o SubSeq(@, offset[o] + n + 1, Len(@))]

Read(o, n) ==
    /\ offset[o] + n <= Len(now[FileOf[o]])
    /\ offset' = [offset EXCEPT ![o] = @ + n]
    /\ UNCHANGED now

Open(o) == offset' = [offset EXCEPT ![o] = 0] /\ UNCHANGED now

OpenTruncate(o) ==
    /\ now' = [now EXCEPT ![FileOf[o]] = <<>>]
    /\ offset' = [offset EXCEPT ![o] = 0]

BytesNext ==
    \E o \in Opened :
        \/ Open(o) \/ OpenTruncate(o)
        \/ \E n \in 1 .. MaxLen : Read(o, n) \/ \E v \in Vals : Write(o, n, v)
===============================================================================
