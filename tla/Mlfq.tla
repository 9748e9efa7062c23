--------------------------------- MODULE Mlfq ---------------------------------
(***************************************************************************)
(* The multi-level feedback queues of kernel/proc.c and the accounting of  *)
(* usertrap() (kernel/trap.c), as built with SCHEDULER=MLFQ.               *)
(*                                                                         *)
(* A queue is an array of NPROC slots and a size; no lock protects it, so  *)
(* the read of queue_size in enqueue() and the two stores that follow are  *)
(* separate steps.  On one CPU nothing comes between them, because they    *)
(* run with interrupts off.                                                *)
(*                                                                         *)
(* mlfq_ticks only matters through its comparison with at most 8 and its   *)
(* remainder modulo 10, so it is kept below 20 by Count.  ticks only       *)
(* matters modulo BOOST (48 in the code).                                  *)
(*                                                                         *)
(* The scan of the scheduler is one step: interrupts may make more         *)
(* processes RUNNABLE behind it, which is as if they came after it.        *)
(* Operators with a suffix (_KeepsPlace...) are faulty variants of the     *)
(* operator that follows; no specification uses them.                      *)
(***************************************************************************)
EXTENDS Integers, Sequences, FiniteSets

CONSTANTS
    Procs,       \* slots of the process table; NPROC is their number
    CPUs, cpu0,  \* cpu0 is the one that counts ticks
    init,        \* the first process
    BOOST,       \* ticks between two boosts
    ProcsExit,   \* whether processes exit, so that their slots are reused
    ProcsSleep,  \* whether they block
    KernelTicks, \* whether timer interrupts may find a process in the kernel,
                 \* or the scheduler about to start one
    None

MlfqConstants ==
    /\ IsFiniteSet(Procs) /\ init \in Procs /\ cpu0 \in CPUs /\ None \notin Procs
    /\ BOOST \in Nat \ {0}
    /\ ProcsExit \in BOOLEAN /\ ProcsSleep \in BOOLEAN /\ KernelTicks \in BOOLEAN

VARIABLES
    slot, size,   \* mlfq[][] and queue_size[]
    state,        \* p->state; an exited process is UNUSED at once
    prio, mticks, slice,  \* mlfq_priority, mlfq_ticks, time_slice
    ticks,        \* modulo BOOST
    cur,          \* c->proc
    kpc,          \* per process: where it goes on when it runs
    pc,           \* per CPU: what it does, see Points
    arg,          \* per CPU: what enqueue has read, what it stores, where
    overflow      \* a store went beyond mlfq[q][NPROC-1]

vars == <<slot, size, state, prio, mticks, slice, ticks, cur, kpc, pc, arg, overflow>>
queues == <<slot, size, overflow>>
levels == <<prio, mticks, slice>>

Queues == 0 .. 3
NPROC == Cardinality(Procs)
Points == {"idle", "run", "scan", "store"}
NoArg == [idx |-> 0, proc |-> None, queue |-> 0, next |-> 4]

Init ==
    /\ slot = [q \in Queues |-> [i \in 1 .. NPROC |-> IF q = 0 /\ i = 1 THEN init ELSE None]]
    /\ size = [q \in Queues |-> IF q = 0 THEN 1 ELSE 0]
    /\ state = [p \in Procs |-> IF p = init THEN "RUNNABLE" ELSE "UNUSED"]
    /\ prio = [p \in Procs |-> 0]
    /\ mticks = [p \in Procs |-> 0]
    /\ slice = [p \in Procs |-> 1]
    /\ ticks = 0
    /\ cur = [c \in CPUs |-> None]
    /\ kpc = [p \in Procs |-> "user"]
    /\ pc = [c \in CPUs |-> "idle"]
    /\ arg = [c \in CPUs |-> NoArg]
    /\ overflow = FALSE

Count(n) == IF n = 19 THEN 10 ELSE n + 1
Entries(q) == {i \in 1 .. size[q] : slot[q][i] # None}
Positions(q, p) == {i \in 1 .. size[q] : slot[q][i] = p}
First(S) == CHOOSE i \in S : \A j \in S : i <= j

(* mlfq[q][0 .. size-1] after one entry has been shifted out. *)
Shifted(q, j) == [i \in 1 .. NPROC |->
    IF i >= j /\ i < size[q] THEN slot[q][i + 1] ELSE slot[q][i]]
-------------------------------------------------------------------------------
(* The scheduler's scan: the first RUNNABLE entry of the first queue that  *)
(* has one.  The unlocked look at p->state is repeated under p->lock.      *)
Runnable(q) == {i \in Entries(q) : state[slot[q][i]] = "RUNNABLE"}

dispatch_LastQueue(c) ==
    /\ pc[c] = "idle"
    /\ \E q \in Queues :
         /\ Runnable(q) # {} /\ \A r \in Queues : r > q => Runnable(r) = {}
         /\ LET p == slot[q][First(Runnable(q))] IN
            /\ cur' = [cur EXCEPT ![c] = p]
            /\ state' = [state EXCEPT ![p] = "RUNNING"]
    /\ pc' = [pc EXCEPT ![c] = "run"]
    /\ UNCHANGED <<queues, levels, ticks, kpc, arg>>
dispatch(c) ==
    /\ pc[c] = "idle"
    /\ \E q \in Queues :
         /\ Runnable(q) # {} /\ \A r \in Queues : r < q => Runnable(r) = {}
         /\ LET p == slot[q][First(Runnable(q))] IN
            /\ cur' = [cur EXCEPT ![c] = p]
            /\ state' = [state EXCEPT ![p] = "RUNNING"]
    /\ pc' = [pc EXCEPT ![c] = "run"]
    /\ UNCHANGED <<queues, levels, ticks, kpc, arg>>

(* enqueue, second half: mlfq[q][idx] = p and queue_size[q] = idx + 1.     *)
(* In fork the new process then becomes RUNNABLE.                          *)
store(c) ==
    /\ pc[c] = "store"
    /\ LET at == arg[c] IN
       IF at.idx >= NPROC
       THEN overflow' = TRUE /\ UNCHANGED <<slot, size>>
       ELSE /\ slot' = [slot EXCEPT ![at.queue][at.idx + 1] = at.proc]
            /\ size' = [size EXCEPT ![at.queue] = at.idx + 1]
            /\ UNCHANGED overflow
    /\ state' = [p \in Procs |-> IF state[p] = "USED" /\ p = arg[c].proc
                                 THEN "RUNNABLE" ELSE state[p]]
    /\ pc' = [pc EXCEPT ![c] = IF arg[c].next = 4 THEN "run" ELSE "scan"]
    /\ UNCHANGED <<levels, ticks, cur, kpc, arg>>

(* yield's loop over the queues for the running process: take it out of    *)
(* the next queue that has it and start to enqueue it again at its level;  *)
(* when no queue is left, switch to the scheduler.                         *)
Holding(c) == {q \in Queues : q >= arg[c].next /\ Positions(q, cur[c]) # {}}

yield_remove_KeepsPlace(c) ==
    /\ pc[c] = "scan" /\ Holding(c) # {}
    /\ arg' = [arg EXCEPT ![c].next = 4]
    /\ UNCHANGED <<queues, pc, state, levels, ticks, cur, kpc>>

yield_remove(c) ==
    /\ pc[c] = "scan" /\ Holding(c) # {}
    /\ LET p == cur[c]
           q == First(Holding(c))
           to == prio[p]
           size1 == [size EXCEPT ![q] = @ - 1] IN
       /\ slot' = [slot EXCEPT ![q] = Shifted(q, First(Positions(q, p)))]
       /\ size' = size1
       /\ arg' = [arg EXCEPT ![c] =
                    [idx |-> size1[to], proc |-> p, queue |-> to,
                     next |-> IF q = 3 THEN 5 ELSE q + 1]]
    /\ pc' = [pc EXCEPT ![c] = "store"]
    /\ UNCHANGED <<overflow, state, levels, ticks, cur, kpc>>

yield_switch(c) ==
    /\ pc[c] = "scan" /\ Holding(c) = {}
    /\ state' = [state EXCEPT ![cur[c]] = "RUNNABLE"]
    /\ cur' = [cur EXCEPT ![c] = None]
    /\ pc' = [pc EXCEPT ![c] = "idle"]
    /\ arg' = [arg EXCEPT ![c] = NoArg]
    /\ UNCHANGED <<queues, levels, ticks, kpc>>

Yield(c) ==
    /\ pc' = [pc EXCEPT ![c] = "scan"]
    /\ arg' = [arg EXCEPT ![c] = [NoArg EXCEPT !.next = 0]]
-------------------------------------------------------------------------------
(* clockintr runs on cpu0 only. *)
Tick(c) == ticks' = IF c = cpu0 THEN (ticks + 1) % BOOST ELSE ticks
InUser(c) == pc[c] = "run" /\ kpc[cur[c]] = "user"

(* The accounting of usertrap for a timer interrupt from user mode. *)
timer_user(c) ==
    /\ InUser(c)
    /\ Tick(c)
    /\ LET p == cur[c]
           n == Count(mticks[p])
           used == slice[p] - 1 <= 0 \/ n >= 2 ^ prio[p]
           level == IF prio[p] < 3 THEN prio[p] + 1 ELSE prio[p] IN
       /\ mticks' = [mticks EXCEPT ![p] = n]
       /\ kpc' = [kpc EXCEPT ![p] = "trap"]
       /\ \/ n % 10 = 0
             /\ slice' = [slice EXCEPT ![p] = @ - 1]
             /\ Yield(c) /\ UNCHANGED prio
          \/ n % 10 # 0 /\ used
             /\ prio' = [prio EXCEPT ![p] = level]
             /\ slice' = [slice EXCEPT ![p] = 2 ^ level]
             /\ Yield(c)
          \/ n % 10 # 0 /\ ~used
             /\ slice' = [slice EXCEPT ![p] = @ - 1]
             /\ UNCHANGED <<prio, pc, arg>>
    /\ UNCHANGED <<queues, state, cur>>

(* priority_boost: queues 1, 2 and 3 are emptied into queue 0. *)
Content(q) == [i \in 1 .. size[q] |-> slot[q][i]]
Boosted == Content(0) \o Content(1) \o Content(2) \o Content(3)
Demoted == {p \in Procs : \E q \in 1 .. 3 : Positions(q, p) # {}}

priority_boost ==
    IF Len(Boosted) > NPROC
    THEN overflow' = TRUE /\ UNCHANGED <<slot, size, levels>>
    ELSE /\ slot' = [q \in Queues |-> [i \in 1 .. NPROC |->
                IF q = 0 THEN IF i <= Len(Boosted) THEN Boosted[i] ELSE slot[0][i]
                ELSE IF i <= size[q] THEN slot[q][size[q]] ELSE slot[q][i]]]
         /\ size' = [q \in Queues |-> IF q = 0 THEN Len(Boosted) ELSE 0]
         /\ prio' = [p \in Procs |-> IF p \in Demoted THEN 0 ELSE prio[p]]
         /\ mticks' = [p \in Procs |-> IF p \in Demoted THEN 0 ELSE mticks[p]]
         /\ slice' = [p \in Procs |-> IF p \in Demoted THEN 1 ELSE slice[p]]
         /\ UNCHANGED overflow

(* The end of usertrap, reached after the yield: boost if ticks, by now,   *)
(* is a multiple of BOOST.                                                 *)
trap_end(c) ==
    /\ pc[c] = "run" /\ kpc[cur[c]] = "trap"
    /\ kpc' = [kpc EXCEPT ![cur[c]] = "user"]
    /\ IF ticks = 0 THEN priority_boost ELSE UNCHANGED <<queues, levels>>
    /\ UNCHANGED <<state, ticks, cur, pc, arg>>

(* kerneltrap: a process interrupted in the kernel yields, uncharged. *)
timer_kernel(c) ==
    /\ KernelTicks /\ InUser(c)
    /\ Tick(c) /\ Yield(c)
    /\ UNCHANGED <<queues, state, levels, cur, kpc>>

timer_idle(c) ==
    /\ pc[c] = "idle"
    /\ KernelTicks \/ \A q \in Queues : Runnable(q) = {}
    /\ Tick(c)
    /\ UNCHANGED <<queues, state, levels, cur, kpc, pc, arg>>
-------------------------------------------------------------------------------
(* fork: allocproc resets the slot and reads queue_size[0] in enqueue. *)
fork(c, p) ==
    /\ InUser(c) /\ state[p] = "UNUSED"
    /\ state' = [state EXCEPT ![p] = "USED"]
    /\ prio' = [prio EXCEPT ![p] = 0]
    /\ mticks' = [mticks EXCEPT ![p] = 0]
    /\ slice' = [slice EXCEPT ![p] = 1]
    /\ kpc' = [kpc EXCEPT ![p] = "user"]
    /\ pc' = [pc EXCEPT ![c] = "store"]
    /\ arg' = [arg EXCEPT ![c] = [idx |-> size[0], proc |-> p, queue |-> 0, next |-> 4]]
    /\ UNCHANGED <<queues, ticks, cur>>

(* sleep() and exit() do not touch the queues, nor does freeproc(): a      *)
(* fork that fails for want of memory leaves its slot as exit does.        *)
Release(c, s) ==
    /\ state' = [state EXCEPT ![cur[c]] = s]
    /\ cur' = [cur EXCEPT ![c] = None]
    /\ pc' = [pc EXCEPT ![c] = "idle"]
    /\ UNCHANGED <<queues, levels, ticks, kpc, arg>>

sleep(c) == ProcsSleep /\ InUser(c) /\ cur[c] # init /\ Release(c, "SLEEPING")
exit(c) == ProcsExit /\ InUser(c) /\ cur[c] # init /\ Release(c, "UNUSED")

wakeup(p) ==
    /\ state[p] = "SLEEPING"
    /\ state' = [state EXCEPT ![p] = "RUNNABLE"]
    /\ UNCHANGED <<queues, levels, ticks, cur, kpc, pc, arg>>

Kernel(c) == store(c) \/ yield_remove(c) \/ yield_switch(c) \/ trap_end(c)
Timer(c) == timer_user(c) \/ timer_kernel(c) \/ timer_idle(c)

(* After an overflow memory past the array is overwritten: nothing can be  *)
(* said of what follows.                                                   *)
Next ==
    /\ ~overflow
    /\ \/ \E c \in CPUs : dispatch(c) \/ Kernel(c) \/ Timer(c) \/ sleep(c) \/ exit(c)
       \/ \E c \in CPUs, p \in Procs : fork(c, p)
       \/ \E p \in Procs : wakeup(p)

Spec == Init /\ [][Next]_vars

(* Every CPU goes on with kernel code, an idle CPU looks for a process,    *)
(* and timer interrupts keep coming to a CPU that is running a program.    *)
Fairness ==
    \A c \in CPUs :
        /\ WF_vars(~overflow /\ Kernel(c))
        /\ WF_vars(~overflow /\ dispatch(c))
        /\ WF_vars(~overflow /\ (timer_user(c) \/ timer_kernel(c)))

FairSpec == Spec /\ Fairness
-------------------------------------------------------------------------------
Live == {p \in Procs : state[p] # "UNUSED"}

TypeOK ==
    /\ slot \in [Queues -> [1 .. NPROC -> Procs \cup {None}]]
    /\ size \in [Queues -> 0 .. NPROC]
    /\ state \in [Procs -> {"UNUSED", "USED", "RUNNABLE", "RUNNING", "SLEEPING"}]
    /\ prio \in [Procs -> Queues]
    /\ mticks \in [Procs -> 0 .. 19]
    /\ slice \in [Procs -> -10 .. 8]
    /\ ticks \in 0 .. BOOST - 1
    /\ cur \in [CPUs -> Procs \cup {None}]
    /\ \A c \in CPUs : cur[c] = None <=> pc[c] = "idle"
    /\ kpc \in [Procs -> {"user", "trap"}]
    /\ pc \in [CPUs -> Points]

(* While no queue is being changed, every process is in the queues exactly *)
(* once, in the queue of its priority.                                     *)
QueuedOnce ==
    (\A c \in CPUs : pc[c] \in {"idle", "run"}) =>
        \A p \in Live :
            /\ \A q \in Queues : q # prio[p] => Positions(q, p) = {}
            /\ Cardinality(Positions(prio[p], p)) = 1

(* No process is lost: one that may run is in some queue, where the        *)
(* scheduler can find it.                                                  *)
NotLost ==
    ~overflow /\ (\A c \in CPUs : pc[c] \in {"idle", "run"}) =>
        \A p \in Live : \E q \in Queues : Positions(q, p) # {}

(* The arrays never overflow (proc.c:9 gives each NPROC entries).          *)
QueueFits == ~overflow

(* "Processes in higher-priority queues" go first: no process is started   *)
(* while another one with a better priority could run.                     *)
GoesFirst ==
    \A p, q \in Procs :
        state[p] = "RUNNABLE" /\ state'[p] = "RUNNING" /\ state[q] = "RUNNABLE"
            => prio[p] <= prio[q]
HighestFirst == [][GoesFirst]_vars
QueuesOrdered == []QueuedOnce /\ HighestFirst

(* The slices of README.md:393, 1, 4, 8 and 16 ticks: a process that has   *)
(* run since its last boost for 1, 1+4, 1+4+8 ticks goes down one level.   *)
Ran == <<1, 5, 13>>

SlicesAsDocumented ==
    [][\A p \in Procs :
         prio'[p] > prio[p] => mticks'[p] >= Ran[prio[p] + 1]]_vars

(* "To prevent starvation, the scheduler periodically boosts all processes *)
(* back to the highest-priority queue (queue 0) after 48 ticks": a         *)
(* runnable process runs in the end.  Compute-bound processes owe it to    *)
(* the round robin of queue 3 as much as to the boosts.                    *)
NoStarvation == \A p \in Procs : state[p] = "RUNNABLE" ~> state[p] # "RUNNABLE" \/ overflow
===============================================================================
