-------------------------------- MODULE Bcache --------------------------------
(***************************************************************************)
(* kernel/bio.c and the sleeplock of each buffer (kernel/sleeplock.c).     *)
(* Each section under bcache.lock or under the spinlock of a sleeplock is  *)
(* a step, and so is each transfer of virtio_disk_rw.                      *)
(*                                                                         *)
(* The callers keep the rules of log.c: a buffer that was changed is       *)
(* written or pinned before it is released, and a pinned block is written  *)
(* by who installs it, which unpins it at once.  A thread holds one buffer *)
(* at a time.                                                              *)
(* Operators with a suffix (_KeepsValid...) are faulty variants of the     *)
(* operator that follows; no specification uses them.                      *)
(***************************************************************************)
EXTENDS Integers, FiniteSets

CONSTANTS
    Threads,
    Nums,        \* block numbers
    Vals,        \* contents of a block
    NBUF,
    MaxPinned,   \* blocks that the log holds at a time
    None

ASSUME BcacheConstants ==
    /\ NBUF \in Nat \ {0} /\ MaxPinned \in Nat
    /\ IsFiniteSet(Threads) /\ None \notin Threads \cup Nums \cup 1 .. NBUF /\ Vals # {}

VARIABLES
    blockno, valid, refcnt, data,   \* per buffer
    owner,    \* who has its sleeplock (locked and pid)
    lru,      \* the buffers, most recently used first
    disk,
    pc,       \* idle, lock, asleep, read, hold, write, written, unlocked, panic
    my,       \* the buffer that a thread uses
    dirty,    \* whether it has changed it since the last log_write or bwrite
    pinned    \* the blocks in the header of the log

buffers == <<blockno, valid, refcnt, data, owner, lru>>
threads == <<pc, my, dirty>>
vars == <<buffers, disk, threads, pinned>>

Bufs == 1 .. NBUF
Goto(t, l) == pc' = [pc EXCEPT ![t] = l]
Cached(i, b) == blockno[i] = b
Block(t) == blockno[my[t]]

Init ==
    /\ blockno = [i \in Bufs |-> None] /\ valid = [i \in Bufs |-> FALSE]
    /\ refcnt = [i \in Bufs |-> 0] /\ owner = [i \in Bufs |-> None]
    /\ disk = [b \in Nums |-> CHOOSE v \in Vals : TRUE]
    /\ data = [i \in Bufs |-> CHOOSE v \in Vals : TRUE]
    /\ lru = [i \in Bufs |-> NBUF + 1 - i]
    /\ pc = [t \in Threads |-> "idle"] /\ my = [t \in Threads |-> None]
    /\ dirty = [t \in Threads |-> FALSE]
    /\ pinned = {}
-------------------------------------------------------------------------------
(* bget() under bcache.lock.  The buffer is not locked yet, but counted.   *)
Use(t, i) == my' = [my EXCEPT ![t] = i] /\ Goto(t, "lock")

bget_cached(t, b) ==
    /\ pc[t] = "idle"
    /\ \E i \in Bufs :
         /\ Cached(i, b) /\ Use(t, i)
         /\ refcnt' = [refcnt EXCEPT ![i] = @ + 1]
    /\ UNCHANGED <<blockno, valid, data, owner, lru, disk, dirty, pinned>>

(* Of the buffers that nobody uses, the least recently used. *)
Unused(i) ==
    /\ refcnt[i] = 0
    /\ \E k \in Bufs : lru[k] = i /\ \A j \in k + 1 .. NBUF : refcnt[lru[j]] # 0

bget_recycle_KeepsValid(t, b) ==
    /\ pc[t] = "idle" /\ \A i \in Bufs : ~Cached(i, b)
    /\ \/ /\ \A i \in Bufs : refcnt[i] # 0
          /\ Goto(t, "panic") /\ UNCHANGED <<blockno, refcnt, my>>
       \/ \E i \in Bufs :
             /\ Unused(i) /\ Use(t, i)
             /\ blockno' = [blockno EXCEPT ![i] = b]
             /\ refcnt' = [refcnt EXCEPT ![i] = 1]
    /\ UNCHANGED <<valid, data, owner, lru, disk, dirty, pinned>>
bget_recycle(t, b) ==
    /\ pc[t] = "idle" /\ \A i \in Bufs : ~Cached(i, b)
    /\ \/ /\ \A i \in Bufs : refcnt[i] # 0
          /\ Goto(t, "panic") /\ UNCHANGED <<blockno, valid, refcnt, my>>
       \/ \E i \in Bufs :
             /\ Unused(i) /\ Use(t, i)
             /\ blockno' = [blockno EXCEPT ![i] = b]
             /\ valid' = [valid EXCEPT ![i] = FALSE]
             /\ refcnt' = [refcnt EXCEPT ![i] = 1]
    /\ UNCHANGED <<data, owner, lru, disk, dirty, pinned>>

(* acquiresleep(), and what bread() does next. *)
acquiresleep(t) ==
    /\ pc[t] = "lock"
    /\ IF owner[my[t]] = None
       THEN /\ owner' = [owner EXCEPT ![my[t]] = t]
            /\ Goto(t, IF valid[my[t]] THEN "hold" ELSE "read")
       ELSE Goto(t, "asleep") /\ UNCHANGED owner
    /\ UNCHANGED <<blockno, valid, refcnt, data, lru, disk, my, dirty, pinned>>

bread_done(t) ==
    /\ pc[t] = "read"
    /\ data' = [data EXCEPT ![my[t]] = disk[Block(t)]]
    /\ valid' = [valid EXCEPT ![my[t]] = TRUE]
    /\ Goto(t, "hold")
    /\ UNCHANGED <<blockno, refcnt, owner, lru, disk, my, dirty, pinned>>
-------------------------------------------------------------------------------
(* What a holder does. *)
modify(t, v) ==
    /\ pc[t] = "hold"
    /\ data' = [data EXCEPT ![my[t]] = v]
    /\ dirty' = [dirty EXCEPT ![t] = TRUE]
    /\ UNCHANGED <<blockno, valid, refcnt, owner, lru, disk, pc, my, pinned>>

(* log_write(): bpin() unless the block is in the log already. *)
log_write_PinsAgain(t) ==
    /\ pc[t] = "hold" /\ dirty[t]
    /\ Block(t) \in pinned \/ Cardinality(pinned) < MaxPinned
    /\ pinned' = pinned \cup {Block(t)}
    /\ refcnt' = [refcnt EXCEPT ![my[t]] = @ + 1]
    /\ dirty' = [dirty EXCEPT ![t] = FALSE]
    /\ UNCHANGED <<blockno, valid, data, owner, lru, disk, pc, my>>
log_write(t) ==
    /\ pc[t] = "hold" /\ dirty[t]
    /\ Block(t) \in pinned \/ Cardinality(pinned) < MaxPinned
    /\ pinned' = pinned \cup {Block(t)}
    /\ refcnt' = [refcnt EXCEPT ![my[t]] = IF Block(t) \in pinned THEN @ ELSE @ + 1]
    /\ dirty' = [dirty EXCEPT ![t] = FALSE]
    /\ UNCHANGED <<blockno, valid, data, owner, lru, disk, pc, my>>

bwrite(t) ==
    /\ pc[t] = "hold" /\ (dirty[t] \/ Block(t) \in pinned)
    /\ Goto(t, "write")
    /\ UNCHANGED <<buffers, disk, my, dirty, pinned>>

bwrite_done(t) ==
    /\ pc[t] = "write"
    /\ disk' = [disk EXCEPT ![Block(t)] = data[my[t]]]
    /\ dirty' = [dirty EXCEPT ![t] = FALSE]
    /\ Goto(t, "written")
    /\ UNCHANGED <<buffers, my, pinned>>

(* install_trans(): bwrite() and bunpin(). *)
bunpin(t) ==
    /\ pc[t] = "written" /\ Block(t) \in pinned
    /\ pinned' = pinned \ {Block(t)}
    /\ refcnt' = [refcnt EXCEPT ![my[t]] = @ - 1]
    /\ UNCHANGED <<blockno, valid, data, owner, lru, disk, threads>>

(* brelse(): releasesleep() wakes those that sleep on the lock...          *)
brelse_unlock_Nobody(t) ==
    /\ \/ pc[t] = "hold" /\ ~dirty[t]
       \/ pc[t] = "written" /\ Block(t) \notin pinned
    /\ owner' = [owner EXCEPT ![my[t]] = None]
    /\ Goto(t, "unlocked")
    /\ UNCHANGED <<blockno, valid, refcnt, data, lru, disk, my, dirty, pinned>>
brelse_unlock(t) ==
    /\ \/ pc[t] = "hold" /\ ~dirty[t]
       \/ pc[t] = "written" /\ Block(t) \notin pinned
    /\ owner' = [owner EXCEPT ![my[t]] = None]
    /\ pc' = [u \in Threads |->
         IF u = t THEN "unlocked"
         ELSE IF pc[u] = "asleep" /\ my[u] = my[t] THEN "lock" ELSE pc[u]]
    /\ UNCHANGED <<blockno, valid, refcnt, data, lru, disk, my, dirty, pinned>>

(* ... and only then is the buffer no longer counted; if nobody uses it,   *)
(* it becomes the most recently used one.                                  *)
MovedToFront(i) ==
    LET at == CHOOSE k \in Bufs : lru[k] = i IN
    [k \in Bufs |-> IF k = 1 THEN i ELSE IF k <= at THEN lru[k - 1] ELSE lru[k]]

brelse_count(t) ==
    /\ pc[t] = "unlocked"
    /\ refcnt' = [refcnt EXCEPT ![my[t]] = @ - 1]
    /\ lru' = IF refcnt'[my[t]] = 0 THEN MovedToFront(my[t]) ELSE lru
    /\ my' = [my EXCEPT ![t] = None]
    /\ Goto(t, "idle")
    /\ UNCHANGED <<blockno, valid, data, owner, disk, dirty, pinned>>

Thread(t, nums) ==
    \/ \E b \in nums : bget_cached(t, b) \/ bget_recycle(t, b)
    \/ acquiresleep(t) \/ bread_done(t) \/ \E v \in Vals : modify(t, v)
    \/ log_write(t) \/ bwrite(t) \/ bwrite_done(t) \/ bunpin(t)
    \/ brelse_unlock(t) \/ brelse_count(t)

Next == \E t \in Threads : Thread(t, Nums)

Spec == Init /\ [][Next]_vars
-------------------------------------------------------------------------------
(* The cache cannot be told from one copy of each block with a lock, what  *)
(* bio.c:5 calls "a synchronization point for disk blocks".                *)
Holders(b) == {t \in Threads : pc[t] \in {"hold", "write", "written"} /\ Block(t) = b}
Contents(b) ==
    LET copies == {i \in Bufs : Cached(i, b) /\ valid[i]} IN
    IF copies = {} THEN disk[b] ELSE data[CHOOSE i \in copies : TRUE]

val == [b \in Nums |-> Contents(b)]
holders == [b \in Nums |-> Holders(b)]
Store == INSTANCE Blocks
StoreStep == Store!BlocksNext \/ UNCHANGED <<val, holders>>
ImplementsBlocks == Store!BlocksSpec

(* "bget: no buffers" is not reached while the buffers outnumber the       *)
(* threads and the blocks of the log, and no thread sleeps for a free lock.*)
NoPanic == \A t \in Threads : pc[t] # "panic"
SleepsForReason == \A t \in Threads : pc[t] = "asleep" => owner[my[t]] # None
===============================================================================
