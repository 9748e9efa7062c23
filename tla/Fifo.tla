--------------------------------- MODULE Fifo ---------------------------------
(***************************************************************************)
(* What a pipe promises: bytes come out in the order in which they went    *)
(* in, none is lost or made up, at most Size are kept, and a reader is     *)
(* only told that there are no more when the write end is closed.          *)
(***************************************************************************)
EXTENDS Integers, Sequences

CONSTANTS Procs, Bytes, Size, None

VARIABLES
    queue,      \* the bytes on the way
    open,       \* whether the write end is open
    got         \* per process: the result of its last read

FifoInit == queue = <<>> /\ open = TRUE /\ got = [p \in Procs |-> None]

(* Some of the bytes of a write; the others may follow. *)
Put ==
    /\ \E n \in 1 .. Size - Len(queue) : \E s \in [1 .. n -> Bytes] :
         queue' = queue \o s
    /\ UNCHANGED <<open, got>>

(* The byte that cannot be stored at the reader's address is lost. *)
Get(p) ==
    \E n \in 0 .. Len(queue), lost \in {0, 1} :
        /\ n + lost \in 1 .. Len(queue) \/ (queue = <<>> /\ ~open)
        /\ got' = [got EXCEPT ![p] = [bytes |-> SubSeq(queue, 1, n), cut |-> lost = 1]]
        /\ queue' = SubSeq(queue, n + lost + 1, Len(queue))
        /\ UNCHANGED open

(* A read begins, or fails: it takes nothing. *)
Nothing(p) == got' = [got EXCEPT ![p] = None] /\ UNCHANGED <<queue, open>>

CloseWrite == open' = FALSE /\ UNCHANGED <<queue, got>>

FifoNext == Put \/ CloseWrite \/ \E p \in Procs : Get(p) \/ Nothing(p)

FifoSpec == FifoInit /\ [][FifoNext]_<<queue, open, got>>
===============================================================================
