--------------------------------- MODULE Pipe ---------------------------------
(***************************************************************************)
(* kernel/pipe.c.  A call runs under pi->lock from its beginning, or from  *)
(* the wakeup that ends its sleep, to its return or to the next sleep:     *)
(* each such section is one step.  The counters nread and nwrite are       *)
(* unsigned and wrap, here at UINT instead of 2^32.                        *)
(*                                                                         *)
(* A user buffer is a sequence of bytes (of places, for a read).  One that *)
(* leaves the address space, where copyin and copyout fail, ends there     *)
(* with None: what is behind is never reached.                             *)
(* Operators with a suffix (_NoWakeup...) are faulty variants of the       *)
(* operator that follows; no specification uses them.                      *)
(***************************************************************************)
EXTENDS Integers, Sequences, FiniteSets

CONSTANTS
    Readers, Writers,   \* processes that hold the read end, the write end
    Bytes,
    PIPESIZE,
    UINT,               \* 2^32
    Writes, Reads,      \* the user buffers that calls pass (a small choice)
    Killable,           \* processes that may be killed
    None

PipeConstants ==
    /\ Readers \cap Writers = {} /\ Killable \subseteq Readers \cup Writers
    /\ PIPESIZE \in Nat \ {0} /\ None \notin Bytes
    /\ Writes \cup Reads \subseteq Seq(Bytes \cup {None}) \ {<<>>}
    /\ \A s \in Writes \cup Reads : \A i \in 1 .. Len(s) - 1 : s[i] # None
    /\ UINT \in Nat /\ UINT > PIPESIZE /\ UINT % PIPESIZE = 0

VARIABLES
    nread, nwrite, data, readopen, writeopen,   \* struct pipe
    holds,    \* processes that have their end open: the files' reference counts
    pc,       \* per process: idle, read, write, or asleep: nread, nwrite
    todo,     \* what is left of the user buffer of its call
    killed,
    got       \* result of its last read: the bytes, and whether a copyout failed

pipe == <<nread, nwrite, data, readopen, writeopen>>
vars == <<pipe, holds, pc, todo, killed, got>>

Procs == Readers \cup Writers
Unsigned(n) == n % UINT
Count == Unsigned(nwrite - nread)
Goto(p, l) == pc' = [pc EXCEPT ![p] = l]

(* What is in the pipe. *)
Queue == [i \in 1 .. Count |-> data[Unsigned(nread + i - 1) % PIPESIZE]]

(* pc after process p goes to l and calls wakeup(&pi->nread), or nwrite. *)
Wakeup(p, l, chan) ==
    [q \in Procs |->
        IF q = p THEN l
        ELSE IF pc[q] # chan THEN pc[q]
        ELSE IF chan = "nread" THEN "read" ELSE "write"]

Init ==
    /\ nread = 0 /\ nwrite = 0 /\ readopen = TRUE /\ writeopen = TRUE
    /\ data \in [0 .. PIPESIZE - 1 -> {CHOOSE b \in Bytes : TRUE}]
    /\ holds = Procs
    /\ pc = [p \in Procs |-> "idle"]
    /\ todo = [p \in Procs |-> <<>>]
    /\ killed = [p \in Procs |-> FALSE]
    /\ got = [p \in Procs |-> None]

(* A process calls read() or write(); a killed one does not return to do so. *)
call(p, s) ==
    /\ pc[p] = "idle" /\ p \in holds /\ ~killed[p]
    /\ s \in IF p \in Readers THEN Reads ELSE Writes
    /\ Goto(p, IF p \in Readers THEN "read" ELSE "write")
    /\ todo' = [todo EXCEPT ![p] = s]
    /\ got' = [got EXCEPT ![p] = None]
    /\ UNCHANGED <<pipe, holds, killed>>
-------------------------------------------------------------------------------
Valid(s) == IF s[Len(s)] = None THEN Len(s) - 1 ELSE Len(s)
Least(m, n) == IF m < n THEN m ELSE n

Fits_OffByOne(p) == Least(Valid(todo[p]), PIPESIZE + 1 - Count)
Fits(p) == Least(Valid(todo[p]), PIPESIZE - Count)

Store(p, n) ==
    /\ data' = [i \in DOMAIN data |->
         LET k == {j \in 1 .. n : Unsigned(nwrite + j - 1) % PIPESIZE = i} IN
         IF k = {} THEN data[i] ELSE todo[p][CHOOSE j \in k : TRUE]]
    /\ nwrite' = Unsigned(nwrite + n)
    /\ todo' = [todo EXCEPT ![p] = SubSeq(@, n + 1, Len(@))]
    /\ UNCHANGED <<nread, readopen, writeopen>>

Refused(p) == ~readopen \/ killed[p]

pipewrite_refused(p) ==
    /\ pc[p] = "write" /\ Refused(p)
    /\ Goto(p, "idle") /\ todo' = [todo EXCEPT ![p] = <<>>]
    /\ UNCHANGED <<pipe, holds, killed, got>>

(* It stops before a byte that it cannot fetch, or sleeps when the pipe is *)
(* full before it gets there.                                              *)
pipewrite(p) ==
    /\ pc[p] = "write" /\ ~Refused(p)
    /\ Store(p, Fits(p))
    /\ pc' = Wakeup(p, IF todo'[p] = <<>> \/ Count + Fits(p) < PIPESIZE
                       THEN "idle" ELSE "nwrite", "nread")
    /\ UNCHANGED <<holds, killed, got>>

(* kill(), on another CPU, while the bytes are copied: the call returns at *)
(* the next turn of its loop and wakes nobody.                             *)
pipewrite_killed(p, n) ==
    /\ pc[p] = "write" /\ ~Refused(p) /\ p \in Killable
    /\ n \in 1 .. Fits(p) /\ n < Len(todo[p])
    /\ Store(p, n)
    /\ killed' = [killed EXCEPT ![p] = TRUE]
    /\ Goto(p, "idle")
    /\ UNCHANGED <<holds, got>>

Return(p, r) == got' = [got EXCEPT ![p] = r]

(* Nothing to read yet. *)
piperead_wait(p) ==
    /\ pc[p] = "read" /\ Count = 0 /\ writeopen
    /\ IF killed[p] THEN Goto(p, "idle") /\ Return(p, None)
       ELSE Goto(p, "nread") /\ UNCHANGED got
    /\ UNCHANGED <<pipe, holds, todo, killed>>

(* The byte that cannot be stored has been taken from the pipe. *)
piperead_NoWakeup(p) ==
    /\ pc[p] = "read" /\ (Count > 0 \/ ~writeopen)
    /\ LET n == Least(Len(todo[p]), Count)
           s == SubSeq(Queue, 1, Least(n, Valid(todo[p]))) IN
       /\ nread' = Unsigned(nread + n)
       /\ Return(p, [bytes |-> s, cut |-> Len(s) < n])
    /\ Goto(p, "idle")
    /\ UNCHANGED <<nwrite, data, readopen, writeopen, holds, todo, killed>>
piperead(p) ==
    /\ pc[p] = "read" /\ (Count > 0 \/ ~writeopen)
    /\ LET n == Least(Len(todo[p]), Count)
           s == SubSeq(Queue, 1, Least(n, Valid(todo[p]))) IN
       /\ nread' = Unsigned(nread + n)
       /\ Return(p, [bytes |-> s, cut |-> Len(s) < n])
    /\ pc' = Wakeup(p, "idle", "nwrite")
    /\ UNCHANGED <<nwrite, data, readopen, writeopen, holds, todo, killed>>

(* fileclose(): the last holder of an end closes it.  When both are closed *)
(* the pipe's page is freed.                                               *)
close(p) ==
    /\ pc[p] = "idle" /\ p \in holds
    /\ holds' = holds \ {p}
    /\ IF p \in Writers
       THEN /\ writeopen' = (holds' \cap Writers # {}) /\ UNCHANGED readopen
            /\ pc' = IF writeopen' THEN pc ELSE Wakeup(p, "idle", "nread")
       ELSE /\ readopen' = (holds' \cap Readers # {}) /\ UNCHANGED writeopen
            /\ pc' = IF readopen' THEN pc ELSE Wakeup(p, "idle", "nwrite")
    /\ UNCHANGED <<nread, nwrite, data, todo, killed, got>>

(* kill() wakes its target, whatever it sleeps on. *)
kill(p) ==
    /\ p \in Killable /\ ~killed[p]
    /\ killed' = [killed EXCEPT ![p] = TRUE]
    /\ pc' = [pc EXCEPT ![p] = IF @ = "nread" THEN "read"
                               ELSE IF @ = "nwrite" THEN "write" ELSE @]
    /\ UNCHANGED <<pipe, holds, todo, got>>

step(p) ==
    \/ pipewrite_refused(p) \/ pipewrite(p) \/ piperead_wait(p) \/ piperead(p)
    \/ \E n \in 1 .. PIPESIZE : pipewrite_killed(p, n)

(* What it does with an end when no call is under way. *)
use(p) == close(p) \/ \E s \in Writes \cup Reads : call(p, s)

go(p) == step(p) \/ use(p)

Next == \E p \in Procs : go(p) \/ kill(p)

Spec == Init /\ [][Next]_vars

(* A process that can run does so, and one that has an end uses it or      *)
(* closes it: the pipe cannot wake anybody by itself.                      *)
Fairness == \A p \in Procs : WF_vars(go(p))
FairSpec == Spec /\ Fairness
-------------------------------------------------------------------------------
(* What is read is what was written, in order, and the end of the file is  *)
(* only seen when nobody can write any more.                               *)
Promise == INSTANCE Fifo WITH queue <- Queue, open <- writeopen, Size <- PIPESIZE
ImplementsFifo == Promise!FifoSpec

(* Nobody sleeps in a pipe for ever, whichever side is closed or killed,   *)
(* as long as the processes at the other end go on or close it.            *)
Woken == \A p \in Procs : pc[p] \in {"nread", "nwrite"} ~> pc[p] \notin {"nread", "nwrite"}

(* Who sleeps has a reason to.  It fails where pipewrite() returns -1 with *)
(* bytes stored and nobody woken.                                          *)
SleepsForReason ==
    /\ \A p \in Readers : pc[p] = "nread" => Count = 0 /\ writeopen
    /\ \A p \in Writers : pc[p] = "nwrite" => Count = PIPESIZE /\ readopen
===============================================================================
