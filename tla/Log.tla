--------------------------------- MODULE Log ----------------------------------
(***************************************************************************)
(* The redo log of kernel/log.c.                                           *)
(*                                                                         *)
(* Threads bracket file-system calls with begin_op() and end_op(); every   *)
(* block they change goes through log_write().  The last end_op() of a     *)
(* group commits: it copies the logged blocks from the buffer cache to the *)
(* log area, writes the log header (the commit point), installs the blocks *)
(* at their home locations and erases the header.  A disk write of one     *)
(* block is atomic (bwrite waits for the device); the machine may crash    *)
(* between any two of them, and initlog() then replays the log.            *)
(*                                                                         *)
(* The file-system content of a block is one value; the buffer cache is    *)
(* the value a bread() would return.  A buffer that is not pinned may be   *)
(* recycled by bget() at any time and is then read again from its home     *)
(* location (Evict).                                                       *)
(***************************************************************************)
EXTENDS Integers, Sequences, FiniteSets

CONSTANTS
    Ops,          \* threads that make file-system calls
    Blocks,       \* block numbers of the file-system image
    Vals,         \* values of a block
    InitVal,      \* value of every block of the image mkfs made
    MAXOPBLOCKS,  \* blocks begin_op reserves for a call
    LOGSIZE,      \* capacity of struct logheader
    NLOG,         \* log.size = sb->nlog: blocks of the log area, header included
    OpBlocks      \* distinct blocks a call really writes at most

ASSUME LogConstants ==
    /\ MAXOPBLOCKS \in Nat /\ LOGSIZE \in Nat /\ NLOG \in Nat /\ OpBlocks \in Nat
    /\ OpBlocks <= MAXOPBLOCKS
    /\ MAXOPBLOCKS <= LOGSIZE
    /\ InitVal \in Vals
    /\ IsFiniteSet(Ops)

VARIABLES
    outstanding,  \* log.outstanding
    committing,   \* log.committing
    lh,           \* log.lh: the logged block numbers, in memory
    op,           \* where each thread is: see OpStates
    wrote,        \* the blocks each running call has passed to log_write
    phase, tail,  \* what the committer, or recovery, is doing, and its index
    cache,        \* buffer cache: what bread of a block returns
    pinned,       \* blocks whose buffer holds the log's bpin reference
    home, area, head,  \* on disk: home blocks, log blocks, log header
    panicked      \* a panic() was reached

mem  == <<outstanding, committing, lh, op, wrote, phase, tail, cache, pinned>>
disk == <<home, area, head>>
vars == <<mem, disk, panicked>>

OpStates == {"out", "sleep", "woken", "in", "commit"}
RecoveryPhases == {"read_head", "replay"}
CommitPhases == {"write_log", "install", "finish"}
Phases == {"run"} \cup RecoveryPhases \cup CommitPhases

Logged == {lh[i] : i \in 1 .. Len(lh)}
Active == {o \in Ops : op[o] = "in"}

Init ==
    /\ outstanding = 0 /\ committing = FALSE /\ lh = <<>>
    /\ op = [o \in Ops |-> "out"]
    /\ wrote = [o \in Ops |-> {}]
    /\ phase = "read_head" /\ tail = 0
    /\ cache = [b \in Blocks |-> InitVal]
    /\ pinned = {}
    /\ home = [b \in Blocks |-> InitVal]
    /\ area = [i \in 1 .. LOGSIZE |-> InitVal]
    /\ head = <<>>
    /\ panicked = FALSE

(* Definitions named ..._NoBunpin, ..._Early and the like, placed before the *)
(* definition they vary, are deliberate bugs: PROJECT.json names the       *)
(* property that TLC must find violated when one takes the other's place.  *)

(* begin_op: one turn of its while loop, entered by a new call or after a  *)
(* wakeup.  The log spinlock is held throughout, so the turn is atomic.    *)
Admit_IgnoresItself == ~committing /\ Len(lh) + outstanding * MAXOPBLOCKS <= LOGSIZE
Admit == ~committing /\ Len(lh) + (outstanding + 1) * MAXOPBLOCKS <= LOGSIZE

begin_op(o) ==
    /\ op[o] \in {"out", "woken"}
    /\ phase \notin RecoveryPhases
    /\ op' = [op EXCEPT ![o] = IF Admit THEN "in" ELSE "sleep"]
    /\ outstanding' = IF Admit THEN outstanding + 1 ELSE outstanding
    /\ UNCHANGED <<committing, lh, wrote, phase, tail, cache, pinned, disk, panicked>>

Full == Len(lh) >= LOGSIZE \/ Len(lh) >= NLOG - 1

(* The caller has changed the block in its locked buffer and calls         *)
(* log_write, which absorbs a second write of the same block.              *)
log_write(o, b, v) ==
    /\ op[o] = "in"
    /\ b \in wrote[o] \/ Cardinality(wrote[o]) < OpBlocks
    /\ IF Full \/ outstanding < 1
       THEN panicked' = TRUE /\ UNCHANGED mem
       ELSE /\ cache' = [cache EXCEPT ![b] = v]
            /\ lh' = IF b \in Logged THEN lh ELSE Append(lh, b)
            /\ pinned' = pinned \cup {b}
            /\ wrote' = [wrote EXCEPT ![o] = @ \cup {b}]
            /\ UNCHANGED <<outstanding, committing, op, phase, tail, panicked>>
    /\ UNCHANGED disk

Wake_Nobody(ops) == ops
Wake(ops) == [o \in Ops |-> IF ops[o] = "sleep" THEN "woken" ELSE ops[o]]

(* end_op up to the release of log.lock: the last call of the group        *)
(* becomes the committer, any other one wakes the threads waiting for      *)
(* space.                                                                  *)
end_op(o) ==
    /\ op[o] = "in"
    /\ wrote' = [wrote EXCEPT ![o] = {}]
    /\ outstanding' = outstanding - 1
    /\ panicked' = committing
    /\ IF outstanding = 1
       THEN /\ op' = [op EXCEPT ![o] = "commit"]
            /\ committing' = TRUE
            /\ phase' = IF lh = <<>> THEN "finish" ELSE "write_log"
            /\ tail' = 0
       ELSE /\ op' = Wake([op EXCEPT ![o] = "out"])
            /\ UNCHANGED <<committing, phase, tail>>
    /\ UNCHANGED <<lh, cache, pinned, disk>>

(* One block of write_log: cache to log area. *)
write_log ==
    /\ phase = "write_log" /\ tail < Len(lh)
    /\ area' = [area EXCEPT ![tail + 1] = cache[lh[tail + 1]]]
    /\ tail' = tail + 1
    /\ UNCHANGED <<outstanding, committing, lh, op, wrote, phase, cache, pinned,
                   home, head, panicked>>

write_head_Early ==
    /\ phase = "write_log"
    /\ head' = lh
    /\ phase' = "install" /\ tail' = 0
    /\ UNCHANGED <<outstanding, committing, lh, op, wrote, cache, pinned,
                   home, area, panicked>>

(* commit's first write_head: the true commit point. *)
write_head ==
    /\ phase = "write_log" /\ tail = Len(lh)
    /\ head' = lh
    /\ phase' = "install" /\ tail' = 0
    /\ UNCHANGED <<outstanding, committing, lh, op, wrote, cache, pinned,
                   home, area, panicked>>

install_trans_NoBunpin ==
    /\ phase \in {"install", "replay"} /\ tail < Len(lh)
    /\ LET b == lh[tail + 1] IN
       /\ home' = [home EXCEPT ![b] = area[tail + 1]]
       /\ cache' = [cache EXCEPT ![b] = area[tail + 1]]
    /\ tail' = tail + 1
    /\ UNCHANGED <<outstanding, committing, lh, op, wrote, phase, pinned, area, head, panicked>>

(* One block of install_trans, of a commit or of recovery: log area to     *)
(* home, through the buffer of the home block.                             *)
install_trans ==
    /\ phase \in {"install", "replay"} /\ tail < Len(lh)
    /\ LET b == lh[tail + 1] IN
       /\ home' = [home EXCEPT ![b] = area[tail + 1]]
       /\ cache' = [cache EXCEPT ![b] = area[tail + 1]]
       /\ pinned' = IF phase = "install" THEN pinned \ {b} ELSE pinned
    /\ tail' = tail + 1
    /\ UNCHANGED <<outstanding, committing, lh, op, wrote, phase, area, head, panicked>>

erase_head_InMemoryOnly ==
    /\ phase \in {"install", "replay"} /\ tail = Len(lh)
    /\ lh' = <<>>
    /\ phase' = IF phase = "install" THEN "finish" ELSE "run"
    /\ tail' = 0
    /\ UNCHANGED <<outstanding, committing, op, wrote, cache, pinned, home, area, head, panicked>>

(* log.lh.n = 0 and the second write_head.  Nothing reads lh between the   *)
(* two: every other thread is kept out by committing, or not started yet.  *)
erase_head ==
    /\ phase \in {"install", "replay"} /\ tail = Len(lh)
    /\ lh' = <<>> /\ head' = <<>>
    /\ phase' = IF phase = "install" THEN "finish" ELSE "run"
    /\ tail' = 0
    /\ UNCHANGED <<outstanding, committing, op, wrote, cache, pinned, home, area, panicked>>

finish_CountsTwice(o) ==
    /\ phase = "finish" /\ op[o] = "commit"
    /\ committing' = FALSE
    /\ outstanding' = outstanding - 1
    /\ op' = Wake([op EXCEPT ![o] = "out"])
    /\ phase' = "run"
    /\ UNCHANGED <<lh, wrote, tail, cache, pinned, disk, panicked>>

(* The end of the committer's end_op. *)
finish(o) ==
    /\ phase = "finish" /\ op[o] = "commit"
    /\ committing' = FALSE
    /\ op' = Wake([op EXCEPT ![o] = "out"])
    /\ phase' = "run"
    /\ UNCHANGED <<outstanding, lh, wrote, tail, cache, pinned, disk, panicked>>

(* recover_from_log: read_head, then install_trans(1) and erase_head. *)
read_head ==
    /\ phase = "read_head"
    /\ lh' = head
    /\ phase' = "replay" /\ tail' = 0
    /\ UNCHANGED <<outstanding, committing, op, wrote, cache, pinned, disk, panicked>>

(* bget recycles the buffer of a block nobody holds or has pinned; the     *)
(* next bread gets what is on disk.                                        *)
Evict(b) ==
    /\ b \notin pinned
    /\ cache[b] # home[b]
    /\ cache' = [cache EXCEPT ![b] = home[b]]
    /\ UNCHANGED <<outstanding, committing, lh, op, wrote, phase, tail, pinned, disk, panicked>>

(* Power failure and reboot: memory is lost, initlog starts again. *)
Crash ==
    /\ outstanding' = 0 /\ committing' = FALSE /\ lh' = <<>>
    /\ op' = [o \in Ops |-> "out"]
    /\ wrote' = [o \in Ops |-> {}]
    /\ phase' = "read_head" /\ tail' = 0
    /\ cache' = home /\ pinned' = {}
    /\ UNCHANGED <<disk, panicked>>

Commit == write_log \/ write_head \/ install_trans \/ erase_head \/ \E o \in Ops : finish(o)

Next ==
    /\ ~panicked
    /\ \/ \E o \in Ops : begin_op(o) \/ end_op(o)
       \/ \E o \in Ops, b \in Blocks, v \in Vals : log_write(o, b, v)
       \/ write_log \/ write_head \/ install_trans \/ erase_head
       \/ \E o \in Ops : finish(o)
       \/ read_head
       \/ \E b \in Blocks : Evict(b)
       \/ Crash

Spec == Init /\ [][Next]_vars

(* The committer, recovery and every call keep running; a call inside a    *)
(* transaction ends.  Nothing forces a new call, a write or a crash.       *)
Fairness ==
    /\ WF_vars(~panicked /\ (Commit \/ read_head))
    /\ \A o \in Ops : WF_vars(~panicked /\ end_op(o))
    /\ \A o \in Ops : WF_vars(~panicked /\ op[o] = "woken" /\ begin_op(o))

FairSpec == Spec /\ Fairness
-------------------------------------------------------------------------------
TypeOK ==
    /\ outstanding \in Nat /\ committing \in BOOLEAN /\ panicked \in BOOLEAN
    /\ lh \in Seq(Blocks) /\ head \in Seq(Blocks)
    /\ op \in [Ops -> OpStates]
    /\ wrote \in [Ops -> SUBSET Blocks]
    /\ phase \in Phases /\ tail \in Nat
    /\ cache \in [Blocks -> Vals] /\ home \in [Blocks -> Vals]
    /\ area \in [1 .. LOGSIZE -> Vals]
    /\ pinned \subseteq Blocks

(* No call ever finds the log full: what begin_op reserves covers what the *)
(* admitted calls still write (log_write's panic "too big a transaction",  *)
(* and the two panics that say begin_op and end_op are out of step).       *)
NoPanic == ~panicked

(* Blocks the log has, plus blocks the running calls may still add, fit. *)
Reservation(calls, written) ==
    {t \in calls \X (1 .. MAXOPBLOCKS) : t[2] > Cardinality(written[t[1]])}
Reserved == Reservation(Active, wrote)
SpaceReserved == Len(lh) + Cardinality(Reserved) <= LOGSIZE

(* Why the reservation holds: a call is in progress only while nothing is  *)
(* being committed or replayed, outstanding counts exactly those calls,    *)
(* and what a call has written is in the log.                              *)
PhaseInv ==
    /\ outstanding = Cardinality(Active)
    /\ committing <=> phase \in CommitPhases
    /\ Active # {} => phase = "run"
    /\ Len(head) <= LOGSIZE

WroteInv ==
    \A o \in Ops :
        /\ IsFiniteSet(wrote[o])
        /\ Cardinality(wrote[o]) <= OpBlocks
        /\ wrote[o] \subseteq (IF o \in Active THEN Logged ELSE {})

LogInv == TypeOK /\ PhaseInv /\ WroteInv /\ SpaceReserved

(* The calls leave the slack that log_write's test asks for: it refuses a  *)
(* block, even one it would absorb, at LOGSIZE and at NLOG - 1 blocks.     *)
CallsFit ==
    /\ OpBlocks < MAXOPBLOCKS
    /\ OpBlocks + LOGSIZE + 2 <= MAXOPBLOCKS + NLOG

(* Pin discipline: exactly the blocks still to be installed are pinned, so *)
(* a logged change is never lost to a recycled buffer, and no pin is left  *)
(* behind when the log is empty (bpin of log_write, bunpin of              *)
(* install_trans).                                                         *)
PinsMatchLog ==
    phase \notin RecoveryPhases =>
        pinned = {lh[i] : i \in (IF phase = "install" THEN tail + 1 ELSE 1) .. Len(lh)}

(* A thread sleeps in begin_op only while somebody is bound to call        *)
(* wakeup(&log): a running call, or the committer.                         *)
NoLostWakeup == (\E o \in Ops : op[o] = "sleep") => outstanding > 0 \/ committing

(* A thread that sleeps in begin_op is woken, or the machine crashes. *)
SleepersWoken == \A o \in Ops : op[o] = "sleep" ~> op[o] # "sleep"

(* A committed group reaches its home locations and the log is free again, *)
(* whatever crashes there were, once the machine stops crashing.           *)
CommitInstalled ==
    (<>[][~Crash]_vars) => (head # <<>> ~> head = <<>>)

(* param.h:10 says LOGSIZE is the "max data blocks in on-disk log": a call *)
(* that stays within its MAXOPBLOCKS is refused only by a log that holds   *)
(* LOGSIZE blocks.                                                         *)
LogHoldsLOGSIZE == panicked => Len(lh) >= LOGSIZE

(* What a crash, now, would leave once recovery has replayed the log.      *)
AfterRecovery ==
    [b \in Blocks |->
        IF \E i \in 1 .. Len(head) : head[i] = b
        THEN area[CHOOSE i \in 1 .. Len(head) : head[i] = b]
        ELSE home[b]]

(* The log implements atomic transactions: every on-disk state maps to the *)
(* image recovery would produce, and that image changes only at a commit   *)
(* with no call in progress.                                               *)
Atomic == INSTANCE AtomicFS WITH
    durable <- AfterRecovery,
    current <- IF phase \in RecoveryPhases THEN AfterRecovery ELSE cache,
    running <- Active

ImplementsAtomicFS == Atomic!AtomicSpec
===============================================================================
