------------------------------- MODULE AtomicFS -------------------------------
(***************************************************************************)
(* What the logging layer of the file system promises to its callers.      *)
(*                                                                         *)
(* File-system calls run as transactions on an in-memory image `current'   *)
(* of the disk blocks.  A commit makes the whole image durable in a single *)
(* step, and only when no transaction is in progress; a crash throws away  *)
(* the image and every transaction that was not committed.  No state in    *)
(* which half of a call is durable is ever visible after a crash.          *)
(* Log.tla is shown to implement this specification.                       *)
(***************************************************************************)
CONSTANTS
    Ops,      \* the threads that make file-system calls
    Blocks,   \* the block numbers of the file-system image
    Vals,     \* what a block may hold
    InitVal   \* what every block holds on the freshly made image

VARIABLES
    durable,  \* the image that a crash, now, would leave behind
    current,  \* the image that file-system calls read and write
    running   \* the threads inside a transaction

avars == <<durable, current, running>>

AInit ==
    /\ durable = [b \in Blocks |-> InitVal]
    /\ current = durable
    /\ running = {}

Begin(o) ==
    /\ o \notin running
    /\ running' = running \cup {o}
    /\ UNCHANGED <<durable, current>>

Write(o, b, v) ==
    /\ o \in running
    /\ current' = [current EXCEPT ![b] = v]
    /\ UNCHANGED <<durable, running>>

End(o) ==
    /\ o \in running
    /\ running' = running \ {o}
    /\ UNCHANGED <<durable, current>>

Commit ==
    /\ running = {}
    /\ durable' = current
    /\ UNCHANGED <<current, running>>

Crash ==
    /\ current' = durable
    /\ running' = {}
    /\ UNCHANGED durable

ANext ==
    \/ \E o \in Ops : Begin(o) \/ End(o)
    \/ \E o \in Ops, b \in Blocks, v \in Vals : Write(o, b, v)
    \/ Commit
    \/ Crash

AtomicSpec == AInit /\ [][ANext]_avars
===============================================================================
