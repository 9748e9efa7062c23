-------------------------------- MODULE Spinlock ------------------------------
(***************************************************************************)
(* kernel/spinlock.c: acquire() and release() with the interrupts they     *)
(* turn off and on again, on several CPUs that are interrupted.            *)
(*                                                                         *)
(* Each access to a lock, to the interrupt enable bit or to the fields of  *)
(* struct cpu is a step.  On a CPU the main code runs, or the handler that *)
(* interrupted it (kerneltrap() of kernel/trap.c), which takes locks too.  *)
(* Locks are numbered in the order in which code may take them.  Memory is *)
(* sequentially consistent, as the fences make it.  That a process leaves  *)
(* its CPU in sched() is in Proc.                                          *)
(***************************************************************************)
EXTENDS Integers, FiniteSets

CONSTANTS
    CPUs,
    Locks,
    IrqLocks,    \* those that a handler takes
    None

ASSUME SpinlockConstants ==
    /\ Locks \subseteq Nat \ {0} /\ IsFiniteSet(Locks)
    /\ IrqLocks \subseteq Locks /\ None \notin CPUs

VARIABLES
    locked,      \* per lock: lk->locked
    holder,      \* per lock: lk->cpu
    sie,         \* per CPU: whether interrupts are on
    noff, intena,
    inirq,       \* per CPU: whether a handler runs
    pc, lk, old, \* per CPU and level: where it is in acquire() or release(),
                 \* the lock it is about, and the local of push_off()
    held,        \* per CPU and level: the locks it has
    enabled      \* per CPU: whether the main code has interrupts on, apart
                 \* from the locks it takes

vars == <<locked, holder, sie, noff, intena, inirq, pc, lk, old, held, enabled>>

Levels == {"main", "irq"}
Per(x) == [c \in CPUs |-> [v \in Levels |-> x]]

Init ==
    /\ locked = [l \in Locks |-> FALSE] /\ holder = [l \in Locks |-> None]
    /\ sie = [c \in CPUs |-> FALSE]
    /\ noff = [c \in CPUs |-> 0] /\ intena = [c \in CPUs |-> FALSE]
    /\ inirq = [c \in CPUs |-> FALSE]
    /\ pc = Per("run") /\ lk = Per(0) /\ old = Per(FALSE)
    /\ held = Per({})
    /\ enabled = [c \in CPUs |-> FALSE]

(* The level that runs. *)
Runs(c, v) == v = IF inirq[c] THEN "irq" ELSE "main"
At(c, v, l) == Runs(c, v) /\ pc[c][v] = l
Goto(c, v, l) == pc' = [pc EXCEPT ![c][v] = l]
-------------------------------------------------------------------------------
(* push_off() *)
acquire(c, v, l) ==
    /\ At(c, v, "run")
    /\ v = "irq" => l \in IrqLocks
    /\ \A k \in held[c][v] : k < l
    /\ lk' = [lk EXCEPT ![c][v] = l]
    /\ old' = [old EXCEPT ![c][v] = sie[c]]
    /\ Goto(c, v, "intr_off")
    /\ UNCHANGED <<locked, holder, sie, noff, intena, inirq, held, enabled>>

push_off(c, v) ==
    /\ At(c, v, "intr_off") /\ Goto(c, v, "noff")
    /\ sie' = [sie EXCEPT ![c] = FALSE]
    /\ UNCHANGED <<locked, holder, noff, intena, inirq, lk, old, held, enabled>>

Intena(c, v) == IF noff[c] = 0 THEN old[c][v] ELSE intena[c]

push_off_noff(c, v) ==
    /\ At(c, v, "noff") /\ Goto(c, v, "holding")
    /\ intena' = [intena EXCEPT ![c] = Intena(c, v)]
    /\ noff' = [noff EXCEPT ![c] = @ + 1]
    /\ UNCHANGED <<locked, holder, sie, inirq, lk, old, held, enabled>>

holding(c, l) == locked[l] /\ holder[l] = c

acquire_test(c, v) ==
    /\ At(c, v, "holding")
    /\ Goto(c, v, IF holding(c, lk[c][v]) THEN "panic" ELSE "swap")
    /\ UNCHANGED <<locked, holder, sie, noff, intena, inirq, lk, old, held, enabled>>

(* The atomic swap that finds the lock free. *)
acquire_swap(c, v) ==
    /\ At(c, v, "swap") /\ ~locked[lk[c][v]]
    /\ locked' = [locked EXCEPT ![lk[c][v]] = TRUE]
    /\ Goto(c, v, "cpu")
    /\ UNCHANGED <<holder, sie, noff, intena, inirq, lk, old, held, enabled>>

acquire_cpu(c, v) ==
    /\ At(c, v, "cpu") /\ Goto(c, v, "run")
    /\ holder' = [holder EXCEPT ![lk[c][v]] = c]
    /\ held' = [held EXCEPT ![c][v] = @ \cup {lk[c][v]}]
    /\ lk' = [lk EXCEPT ![c][v] = 0] /\ old' = [old EXCEPT ![c][v] = FALSE]
    /\ UNCHANGED <<locked, sie, noff, intena, inirq, enabled>>

release(c, v, l) ==
    /\ At(c, v, "run") /\ l \in held[c][v]
    /\ IF holding(c, l)
       THEN /\ holder' = [holder EXCEPT ![l] = None]
            /\ held' = [held EXCEPT ![c][v] = @ \ {l}]
            /\ lk' = [lk EXCEPT ![c][v] = l]
            /\ Goto(c, v, "unlock")
       ELSE Goto(c, v, "panic") /\ UNCHANGED <<holder, held, lk>>
    /\ UNCHANGED <<locked, sie, noff, intena, inirq, old, enabled>>

release_unlock(c, v) ==
    /\ At(c, v, "unlock") /\ Goto(c, v, "pop_off")
    /\ locked' = [locked EXCEPT ![lk[c][v]] = FALSE]
    /\ lk' = [lk EXCEPT ![c][v] = 0]
    /\ UNCHANGED <<holder, sie, noff, intena, inirq, old, held, enabled>>

(* Interrupts come back with the last of several locks. *)
Reenables_Each(c) == intena[c]
Reenables(c) == noff[c] = 1 /\ intena[c]

pop_off(c, v) ==
    /\ At(c, v, "pop_off")
    /\ IF sie[c] \/ noff[c] < 1 THEN Goto(c, v, "panic") /\ UNCHANGED <<sie, noff>>
       ELSE /\ noff' = [noff EXCEPT ![c] = @ - 1]
            /\ sie' = [sie EXCEPT ![c] = Reenables(c)]
            /\ Goto(c, v, "run")
    /\ UNCHANGED <<locked, holder, intena, inirq, lk, old, held, enabled>>
-------------------------------------------------------------------------------
(* intr_on() and intr_off() of code that has no lock, as scheduler() and   *)
(* usertrap() call them.                                                   *)
intr(c, on) ==
    /\ At(c, "main", "run") /\ held[c]["main"] = {}
    /\ sie' = [sie EXCEPT ![c] = on] /\ enabled' = [enabled EXCEPT ![c] = on]
    /\ UNCHANGED <<locked, holder, noff, intena, inirq, pc, lk, old, held>>

(* A trap turns interrupts off, and its return on again. *)
kerneltrap(c) ==
    /\ sie[c] /\ ~inirq[c]
    /\ inirq' = [inirq EXCEPT ![c] = TRUE] /\ sie' = [sie EXCEPT ![c] = FALSE]
    /\ UNCHANGED <<locked, holder, noff, intena, pc, lk, old, held, enabled>>

kerneltrap_ret(c) ==
    /\ At(c, "irq", "run") /\ held[c]["irq"] = {}
    /\ inirq' = [inirq EXCEPT ![c] = FALSE] /\ sie' = [sie EXCEPT ![c] = TRUE]
    /\ UNCHANGED <<locked, holder, noff, intena, pc, lk, old, held, enabled>>

acquires(c, v) ==
    push_off(c, v) \/ push_off_noff(c, v) \/ acquire_test(c, v)
    \/ acquire_swap(c, v) \/ acquire_cpu(c, v)

Next ==
    \E c \in CPUs :
        \/ \E v \in Levels :
             \/ acquires(c, v) \/ release_unlock(c, v) \/ pop_off(c, v)
             \/ \E l \in Locks : acquire(c, v, l) \/ release(c, v, l)
        \/ \E on \in BOOLEAN : intr(c, on)
        \/ kerneltrap(c) \/ kerneltrap_ret(c)

Spec == Init /\ [][Next]_vars
-------------------------------------------------------------------------------
TypeOK ==
    /\ locked \in [Locks -> BOOLEAN] /\ holder \in [Locks -> CPUs \cup {None}]
    /\ sie \in [CPUs -> BOOLEAN] /\ noff \in [CPUs -> Nat] /\ intena \in [CPUs -> BOOLEAN]
    /\ inirq \in [CPUs -> BOOLEAN] /\ enabled \in [CPUs -> BOOLEAN]
    /\ pc \in [CPUs -> [Levels -> {"run", "intr_off", "noff", "holding", "swap", "cpu",
                                    "unlock", "pop_off", "panic"}]]
    /\ lk \in [CPUs -> [Levels -> Locks \cup {0}]]
    /\ old \in [CPUs -> [Levels -> BOOLEAN]]
    /\ held \in [CPUs -> [Levels -> SUBSET Locks]]

(* A lock has one holder, main code or handler of one CPU, from the swap   *)
(* that takes it to the store that frees it, and lk->cpu says who.         *)
Has(c, v, l) == l \in held[c][v] \/ (lk[c][v] = l /\ pc[c][v] \in {"cpu", "unlock"})

Exclusive ==
    \A c, d \in CPUs : \A v, w \in Levels : \A l \in Locks :
        Has(c, v, l) /\ Has(d, w, l) => c = d /\ v = w

(* Who has a lock is not interrupted, so that no handler waits for a lock  *)
(* of the code that it interrupted, which could never give it back.        *)
NotInterrupted ==
    \A c \in CPUs : \A v \in Levels : \A l \in Locks :
        Has(c, v, l) => ~sie[c] /\ (v = "main" => ~inirq[c])

(* Neither acquire() of a lock that the CPU has, nor release() of one that *)
(* it has not, nor a pop_off() too many.                                   *)
NoPanic == \A c \in CPUs : \A v \in Levels : pc[c][v] # "panic"

(* When the last lock is given back, interrupts are as they were before    *)
(* the first was taken.                                                    *)
Restored ==
    \A c \in CPUs :
        At(c, "main", "run") /\ held[c]["main"] = {} => sie[c] = enabled[c]

(* A lock has one holder, who is not interrupted and has interrupts back   *)
(* as they were after the last lock; no lock operation panics.             *)
LocksHold == Exclusive /\ NotInterrupted /\ NoPanic /\ Restored
===============================================================================
