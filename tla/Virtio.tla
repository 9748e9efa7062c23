-------------------------------- MODULE Virtio --------------------------------
(***************************************************************************)
(* kernel/virtio_disk.c and the disk it talks to.  Each section under      *)
(* vdisk_lock that ends in a sleep or a return is a step of a thread; the  *)
(* interrupt handler is two, because the device may complete requests      *)
(* while it runs.  A thread reads or writes a block of its own in its own  *)
(* buffer: the buffer's sleeplock sees to that.                            *)
(*                                                                         *)
(* The rings have NUM entries and at most NUM/3 requests are under way:    *)
(* they are sequences here, of the heads not yet read.  The device         *)
(* (external, the virtio specification) takes heads in order, completes    *)
(* requests in any order and never fails.                                  *)
(* Operators with a suffix (_Swapped) are faulty variants of the operator  *)
(* that follows; no specification uses them.                               *)
(***************************************************************************)
EXTENDS Integers, Sequences, FiniteSets, SequencesExt

CONSTANTS
    Threads,
    Old, Vals,  \* what the blocks hold at first, and what is written
    NUM,        \* descriptors, and entries of each ring
    None

ASSUME VirtioConstants ==
    /\ NUM \in Nat /\ NUM >= 3
    /\ None \notin Threads \cup Vals \cup {Old} \cup 0 .. NUM - 1

VARIABLES
    desc,       \* disk.desc: what a descriptor points to, and the next one
    free,       \* disk.free, as a set
    avail,      \* the avail ring, from what the device has not taken on
    used,       \* the used ring, from used_idx on
    info,       \* per descriptor: info[].b, as the thread whose buffer it is
    ops,        \* per descriptor: type and sector of a request
    busy,       \* per thread: b->disk
    buffer,     \* per thread: b->data
    pc,         \* idle, alloc, full (asleep), wait (asleep), ready, done, panic
    head,       \* per thread: idx[0]
    want,       \* per thread: the value it writes, None if it reads
    intr,       \* the handler: none, raised, running, or running and raised again
    sector,     \* the disk
    inflight    \* what the device works on

memory == <<desc, avail, used, info, ops, busy, buffer>>
driver == <<free, pc, head, want>>
device == <<sector, inflight>>
vars == <<memory, driver, intr, device>>

Descs == 0 .. NUM - 1
Unlocked == intr \notin {"running", "again"}    \* vdisk_lock
Nothing == [what |-> None, next |-> None]

Init ==
    /\ desc = [i \in Descs |-> Nothing] /\ free = Descs
    /\ avail = <<>> /\ used = <<>>
    /\ info = [i \in Descs |-> None]
    /\ ops = [i \in Descs |-> [type |-> None, sector |-> None]]
    /\ busy = [t \in Threads |-> FALSE]
    /\ buffer = [t \in Threads |-> None]
    /\ pc = [t \in Threads |-> "idle"]
    /\ head = [t \in Threads |-> None] /\ want = [t \in Threads |-> None]
    /\ intr = "none"
    /\ sector = [t \in Threads |-> Old]
    /\ inflight = {}

(* pc after thread t goes to l and calls wakeup(&disk.free[0]). *)
WakeFree_Nobody(t, l) == [pc EXCEPT ![t] = l]
WakeFree(t, l) ==
    [u \in Threads |-> IF u = t THEN l ELSE IF pc[u] = "full" THEN "alloc" ELSE pc[u]]
-------------------------------------------------------------------------------
(* bread() or bwrite() call virtio_disk_rw(). *)
call(t, w) ==
    /\ pc[t] \in {"idle", "done"}
    /\ pc' = [pc EXCEPT ![t] = "alloc"]
    /\ want' = [want EXCEPT ![t] = w]
    /\ buffer' = [buffer EXCEPT ![t] = w]
    /\ UNCHANGED <<desc, avail, used, info, ops, busy, free, head, intr, device>>

(* If alloc3_desc() fails, it frees what it got and so wakes all others    *)
(* that wait for descriptors.                                              *)
rw_full(t) ==
    /\ pc[t] = "alloc" /\ Unlocked /\ Cardinality(free) < 3
    /\ pc' = IF free = {} THEN [pc EXCEPT ![t] = "full"] ELSE WakeFree(t, "full")
    /\ UNCHANGED <<memory, free, head, want, intr, device>>

(* virtio_disk.c:239-242. *)
Type_Swapped(t) == IF want[t] = None THEN "out" ELSE "in"
Type(t) == IF want[t] = None THEN "in" ELSE "out"

(* It takes the first three descriptors that are free. *)
Three(i, j, k) == i < j /\ j < k /\ \A d \in free \ {i, j, k} : k < d

rw_submit(t) ==
    /\ pc[t] = "alloc" /\ Unlocked /\ Cardinality(free) >= 3
    /\ \E i, j, k \in free :
         /\ Three(i, j, k)
         /\ free' = free \ {i, j, k}
         /\ ops' = [ops EXCEPT ![i] = [type |-> Type(t), sector |-> t]]
         /\ desc' = [desc EXCEPT ![i] = [what |-> "op", next |-> j],
                                 ![j] = [what |-> t, next |-> k],
                                 ![k] = [what |-> "status", next |-> None]]
         /\ info' = [info EXCEPT ![i] = t]
         /\ head' = [head EXCEPT ![t] = i]
         /\ avail' = Append(avail, i)
    /\ busy' = [busy EXCEPT ![t] = TRUE]
    /\ pc' = [pc EXCEPT ![t] = "wait"]
    /\ UNCHANGED <<used, buffer, want, intr, device>>

(* free_chain() follows the descriptors from the head. *)
Next1(i) == desc[i].next
Chain(i) == {i} \cup IF Next1(i) = None THEN {}
                     ELSE {Next1(i)} \cup ({Next1(Next1(i))} \ {None})

rw_finish(t) ==
    /\ pc[t] = "ready" /\ Unlocked
    /\ info' = [info EXCEPT ![head[t]] = None]
    /\ IF Chain(head[t]) \cap free # {}
       THEN pc' = [pc EXCEPT ![t] = "panic"] /\ UNCHANGED <<desc, free>>
       ELSE /\ free' = free \cup Chain(head[t])
            /\ desc' = [i \in Descs |-> IF i \in Chain(head[t]) THEN Nothing ELSE desc[i]]
            /\ pc' = WakeFree(t, "done")
    /\ UNCHANGED <<avail, used, ops, busy, buffer, head, want, intr, device>>
-------------------------------------------------------------------------------
(* virtio_disk_intr(): the acknowledgement, and the walk of the used ring. *)
intr_ack ==
    /\ intr = "raised" /\ intr' = "running"
    /\ UNCHANGED <<memory, driver, device>>

Served == ToSet(used)

intr_walk ==
    /\ intr \in {"running", "again"}
    /\ used' = <<>>
    /\ busy' = [t \in Threads |-> busy[t] /\ \A id \in Served : info[id] # t]
    /\ pc' = [t \in Threads |-> IF pc[t] = "wait" /\ ~busy'[t] THEN "ready" ELSE pc[t]]
    /\ intr' = IF intr = "again" THEN "raised" ELSE "none"
    /\ UNCHANGED <<desc, avail, info, ops, buffer, free, head, want, device>>
-------------------------------------------------------------------------------
(* The device.  An interrupt that it raises while the handler runs is      *)
(* taken afterwards, even if the handler has seen the request by then.     *)
device_take ==
    /\ avail # <<>> /\ avail' = Tail(avail)
    /\ inflight' = inflight \cup {Head(avail)}
    /\ UNCHANGED <<desc, used, info, ops, busy, buffer, driver, intr, sector>>

device_complete(h) ==
    /\ h \in inflight /\ inflight' = inflight \ {h}
    /\ LET b == desc[desc[h].next].what
           s == ops[h].sector IN
       IF ops[h].type = "in"
       THEN buffer' = [buffer EXCEPT ![b] = sector[s]] /\ UNCHANGED sector
       ELSE sector' = [sector EXCEPT ![s] = buffer[b]] /\ UNCHANGED buffer
    /\ used' = Append(used, h)
    /\ intr' = IF Unlocked THEN "raised" ELSE "again"
    /\ UNCHANGED <<desc, avail, info, ops, busy, driver>>

rw(t) == rw_full(t) \/ rw_submit(t) \/ rw_finish(t)
handler == intr_ack \/ intr_walk
device_step == device_take \/ \E h \in Descs : device_complete(h)

Next ==
    \/ \E t \in Threads : rw(t) \/ \E w \in Vals \cup {None} : call(t, w)
    \/ handler \/ device_step

Spec == Init /\ [][Next]_vars

(* A thread that can go on time and again does so in the end, although     *)
(* others and the handler take the lock or the descriptors before it; the  *)
(* handler runs, and the device completes what it is given.                *)
Fairness ==
    /\ \A t \in Threads : SF_vars(rw_submit(t) \/ rw_finish(t))
    /\ WF_vars(handler) /\ WF_vars(device_take)
    /\ \A h \in Descs : WF_vars(device_complete(h))
FairSpec == Spec /\ Fairness
-------------------------------------------------------------------------------
(* virtio_disk_rw() does not panic: free_desc() never frees a descriptor   *)
(* twice.  When it returns, its own block has been transferred, in the     *)
(* right direction.                                                        *)
Transferred ==
    \A t \in Threads :
        /\ pc[t] # "panic"
        /\ pc[t] = "done" => /\ buffer[t] = sector[t] /\ buffer[t] # None
                             /\ want[t] # None => sector[t] = want[t]

(* A thread only waits for descriptors while there are too few, and for    *)
(* its request while the device, the used ring or the handler has it.      *)
SleepsForReason ==
    \A t \in Threads :
        /\ pc[t] = "full" => Cardinality(free) < 3
        /\ pc[t] = "wait" => busy[t] /\ info[head[t]] = t

Completed == \A t \in Threads : pc[t] = "alloc" ~> pc[t] = "done"
===============================================================================
