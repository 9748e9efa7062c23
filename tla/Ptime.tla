--------------------------------- MODULE Ptime --------------------------------
(***************************************************************************)
(* The times that waitx() reports (kernel/proc.c): ctime, etime and rtime, *)
(* kept by allocproc(), exit(), update_time() and, with SCHEDULER=MLFQ, by *)
(* usertrap() (kernel/trap.c).                                             *)
(*                                                                         *)
(* clockintr() runs on cpu0 with interrupts off and visits the process     *)
(* table slot by slot; the other CPUs go on meanwhile.  The processes are  *)
(* numbered as their slots are.  The wait time is an unsigned difference,  *)
(* etime - ctime - rtime, which is only right when it is not negative.     *)
(*                                                                         *)
(* Operators with a suffix (_NoEtime...) are faulty variants of the        *)
(* operator that follows; no specification uses them.                      *)
(***************************************************************************)
EXTENDS Integers, FiniteSets, FiniteSetsExt

CONSTANTS
    NPROC,
    CPUs, cpu0,
    Mlfq,       \* built with SCHEDULER=MLFQ
    MaxTicks,   \* timer interrupts of each CPU (model bound)
    None

PtimeConstants ==
    /\ NPROC \in Nat \ {0} /\ cpu0 \in CPUs /\ None \notin 1 .. NPROC
    /\ Mlfq \in BOOLEAN /\ MaxTicks \in Nat

VARIABLES
    state, ctime, etime, rtime,
    cur,     \* c->proc
    ticks,
    todo,    \* slots update_time has yet to visit; {} outside clockintr
    trap,    \* per CPU: whether usertrap has an interrupt to account for
    intrs    \* per CPU: timer interrupts so far

vars == <<state, ctime, etime, rtime, cur, ticks, todo, trap, intrs>>
times == <<ctime, etime, rtime>>

Slots == 1 .. NPROC
initslot == 1

Init ==
    /\ state = [p \in Slots |-> IF p = initslot THEN "RUNNABLE" ELSE "UNUSED"]
    /\ ctime = [p \in Slots |-> 0]
    /\ etime = [p \in Slots |-> 0]
    /\ rtime = [p \in Slots |-> 0]
    /\ cur = [c \in CPUs |-> None]
    /\ ticks = 0
    /\ todo = {}
    /\ trap = [c \in CPUs |-> FALSE]
    /\ intrs = [c \in CPUs |-> 0]

(* The CPU executes neither clockintr nor the end of a timer trap. *)
Free(c) == ~trap[c] /\ (c = cpu0 => todo = {})
-------------------------------------------------------------------------------
dispatch(c, p) ==
    /\ Free(c) /\ cur[c] = None /\ state[p] = "RUNNABLE"
    /\ state' = [state EXCEPT ![p] = "RUNNING"]
    /\ cur' = [cur EXCEPT ![c] = p]
    /\ UNCHANGED <<times, ticks, todo, trap, intrs>>

(* yield or sleep; a sleeper becomes RUNNABLE again by wakeup. *)
leave(c, s) ==
    /\ Free(c) /\ cur[c] # None
    /\ state' = [state EXCEPT ![cur[c]] = s]
    /\ cur' = [cur EXCEPT ![c] = None]
    /\ UNCHANGED <<times, ticks, todo, trap, intrs>>

wakeup(p) ==
    /\ state[p] = "SLEEPING"
    /\ state' = [state EXCEPT ![p] = "RUNNABLE"]
    /\ UNCHANGED <<times, cur, ticks, todo, trap, intrs>>

(* fork: allocproc, and later the child becomes RUNNABLE. *)
allocproc(c, p) ==
    /\ Free(c) /\ cur[c] # None /\ state[p] = "UNUSED"
    /\ state' = [state EXCEPT ![p] = "USED"]
    /\ ctime' = [ctime EXCEPT ![p] = ticks]
    /\ etime' = [etime EXCEPT ![p] = 0]
    /\ rtime' = [rtime EXCEPT ![p] = 0]
    /\ UNCHANGED <<cur, ticks, todo, trap, intrs>>

fork_run(p) ==
    /\ state[p] = "USED"
    /\ state' = [state EXCEPT ![p] = "RUNNABLE"]
    /\ UNCHANGED <<times, cur, ticks, todo, trap, intrs>>

(* exit, which holds p->lock from the change of the state to the switch. *)
exit_NoEtime(c) ==
    /\ Free(c) /\ cur[c] \notin {None, initslot}
    /\ state' = [state EXCEPT ![cur[c]] = "ZOMBIE"]
    /\ cur' = [cur EXCEPT ![c] = None]
    /\ UNCHANGED <<times, ticks, todo, trap, intrs>>
exit(c) ==
    /\ Free(c) /\ cur[c] \notin {None, initslot}
    /\ state' = [state EXCEPT ![cur[c]] = "ZOMBIE"]
    /\ etime' = [etime EXCEPT ![cur[c]] = ticks]
    /\ cur' = [cur EXCEPT ![c] = None]
    /\ UNCHANGED <<ctime, rtime, ticks, todo, trap, intrs>>

(* wait or waitx in a parent that runs. *)
waitx(c, p) ==
    /\ Free(c) /\ cur[c] # None /\ state[p] = "ZOMBIE"
    /\ state' = [state EXCEPT ![p] = "UNUSED"]
    /\ UNCHANGED <<times, cur, ticks, todo, trap, intrs>>
-------------------------------------------------------------------------------
(* A timer interrupt.  cpu0 counts it; under MLFQ usertrap accounts for it *)
(* if the interrupt came from user mode.                                   *)
timer(c) ==
    /\ Free(c) /\ intrs[c] < MaxTicks
    /\ intrs' = [intrs EXCEPT ![c] = @ + 1]
    /\ \/ c = cpu0 /\ ticks' = ticks + 1 /\ todo' = Slots
       \/ c # cpu0 /\ UNCHANGED <<ticks, todo>>
    /\ \E user \in BOOLEAN : trap' = [trap EXCEPT ![c] = user /\ Mlfq /\ cur[c] # None]
    /\ UNCHANGED <<state, times, cur>>

update_time ==
    /\ todo # {}
    /\ LET p == Min(todo) IN
       /\ rtime' = [rtime EXCEPT ![p] = IF state[p] = "RUNNING" THEN @ + 1 ELSE @]
       /\ todo' = todo \ {p}
    /\ UNCHANGED <<state, ctime, etime, cur, ticks, trap, intrs>>

usertrap(c) ==
    /\ trap[c] /\ (c = cpu0 => todo = {})
    /\ rtime' = [rtime EXCEPT ![cur[c]] = @ + 1]
    /\ trap' = [trap EXCEPT ![c] = FALSE]
    /\ UNCHANGED <<state, ctime, etime, cur, ticks, todo, intrs>>

Next ==
    \/ \E c \in CPUs : exit(c) \/ timer(c) \/ usertrap(c)
    \/ \E c \in CPUs, s \in {"RUNNABLE", "SLEEPING"} : leave(c, s)
    \/ \E c \in CPUs, p \in Slots : dispatch(c, p) \/ allocproc(c, p) \/ waitx(c, p)
    \/ \E p \in Slots : wakeup(p) \/ fork_run(p)
    \/ update_time

Spec == Init /\ [][Next]_vars
-------------------------------------------------------------------------------
TypeOK ==
    /\ state \in [Slots -> {"UNUSED", "USED", "RUNNABLE", "RUNNING", "SLEEPING", "ZOMBIE"}]
    /\ {ctime, etime} \subseteq [Slots -> 0 .. MaxTicks]
    /\ rtime \in [Slots -> 0 .. 2 * MaxTicks * Cardinality(CPUs)]
    /\ cur \in [CPUs -> Slots \cup {None}]
    /\ ticks \in 0 .. MaxTicks /\ todo \subseteq Slots
    /\ trap \in [CPUs -> BOOLEAN]
    /\ \A p \in Slots : state[p] = "RUNNING" <=> \E c \in CPUs : cur[c] = p

(* waitx's wtime, an unsigned difference, does not wrap: no process that   *)
(* has exited "ran for" (proc.h:121) longer than it existed.               *)
WaitTimeFits == \A p \in Slots : state[p] = "ZOMBIE" => rtime[p] <= etime[p] - ctime[p]

(* A timer interrupt charges one process per CPU for one tick; under MLFQ, *)
(* where update_time and usertrap both count it, for two.                  *)
ChargedOnce ==
    MapThenSumSet(LAMBDA p : rtime[p], {p \in Slots : state[p] # "UNUSED"})
        <= (IF Mlfq THEN 2 ELSE 1) * ticks * Cardinality(CPUs)
===============================================================================
