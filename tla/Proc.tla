--------------------------------- MODULE Proc ---------------------------------
(***************************************************************************)
(* Process life cycle of kernel/proc.c on several CPUs: the round-robin    *)
(* scheduler, sleep and wakeup, fork, exit, wait and kill.                 *)
(*                                                                         *)
(* The three locks that order these calls are explicit: one p->lock per    *)
(* slot of the process table, wait_lock and tickslock.  What runs while a  *)
(* lock is held is one action, unless the code takes a further lock, reads *)
(* something the lock does not protect, or switches stacks in between.     *)
(* sleep, yield and exit keep p->lock while they switch to the scheduler,  *)
(* so `leaving' is the set of CPUs that are inside sched() and still on    *)
(* the process's kernel stack.                                             *)
(*                                                                         *)
(* A slot stands for its pid: a nonzero pid that kill is given names the   *)
(* slot that holds it, or nobody.                                          *)
(*                                                                         *)
(* Definitions with a suffix such as _Unlocked, placed before the one they *)
(* vary, are deliberate bugs that PROJECT.json uses to show that the       *)
(* properties can fail.                                                    *)
(***************************************************************************)
EXTENDS Naturals, FiniteSets

CONSTANTS
    Procs,        \* slots of the process table
    CPUs,
    init,         \* initproc
    KillTargets,  \* processes somebody calls kill on
    KillsPidZero, \* whether somebody calls kill(0)
    None          \* no process, no lock holder, no channel

Ticks == "ticks"  \* the channel of sys_sleep, &ticks; that of wait is the process

ASSUME ProcConstants == init \in Procs /\ KillTargets \subseteq Procs
                        /\ KillsPidZero \in BOOLEAN /\ {None, Ticks} \cap Procs = {}

VARIABLES
    state,    \* p->state
    chan,     \* p->chan
    killed,   \* p->killed
    parent,   \* p->parent
    plock,    \* p->lock: the process whose thread holds it
    wlock,    \* wait_lock
    tlock,    \* tickslock
    cpu,      \* c->proc
    leaving,  \* CPUs between sched() and the scheduler's side of swtch
    pc,       \* where the kernel thread of each process is
    local,    \* fork's np, exit's first read of p->parent
    panicked

vars == <<state, chan, killed, parent, plock, wlock, tlock, cpu, leaving, pc, local, panicked>>

States == {"UNUSED", "USED", "SLEEPING", "RUNNABLE", "RUNNING", "ZOMBIE"}
Points == {"user", "fork_link", "fork_run",
           "exit_parent", "exit_lock", "exit_unlock", "exit_reparent",
           "exit_wakeinit", "exit_wake", "exit_zombie", "dead",
           "wait_again", "wait_scan", "wait_sleep",
           "sleep_again", "sleep_check", "sleep_sleep"}

Init ==
    /\ state = [p \in Procs |-> IF p = init THEN "RUNNABLE" ELSE "UNUSED"]
    /\ chan = [p \in Procs |-> None]
    /\ killed = [p \in Procs |-> FALSE]
    /\ parent = [p \in Procs |-> None]
    /\ plock = [p \in Procs |-> None]
    /\ wlock = None /\ tlock = None
    /\ cpu = [c \in CPUs |-> None]
    /\ leaving = {}
    /\ pc = [p \in Procs |-> "user"]
    /\ local = [p \in Procs |-> None]
    /\ panicked = FALSE

Unlocked(p) == plock[p] = None
Runs(p) == \E c \in CPUs \ leaving : cpu[c] = p
At(p, point) == Runs(p) /\ pc[p] = point
Goto(p, point) == pc' = [pc EXCEPT ![p] = point]

(* usertrap's killed() test: only a live process gets past it into a call. *)
InUser(p) == At(p, "user") /\ ~killed[p]

(* sched(), called with p->lock held and the new state set: the CPU still  *)
(* uses p's kernel stack until it leaves.                                  *)
Switch_Unlocked(p, s) ==
    /\ Unlocked(p)
    /\ state' = [state EXCEPT ![p] = s]
    /\ leaving' = leaving \cup {c \in CPUs : cpu[c] = p}
    /\ UNCHANGED plock
Switch(p, s) ==
    /\ Unlocked(p)
    /\ plock' = [plock EXCEPT ![p] = p]
    /\ state' = [state EXCEPT ![p] = s]
    /\ leaving' = leaving \cup {c \in CPUs : cpu[c] = p}

(* One slot's turn of wakeup(ch); the turns of slots that do not sleep on  *)
(* ch change nothing.                                                      *)
Wakeup_Nobody(p, ch) == state
Wakeup(p, ch) ==
    IF state[p] = "SLEEPING" /\ chan[p] = ch THEN [state EXCEPT ![p] = "RUNNABLE"] ELSE state
-------------------------------------------------------------------------------
(* scheduler(): take p->lock, swtch; the process releases the lock.        *)
dispatch(c, p) ==
    /\ cpu[c] = None /\ state[p] = "RUNNABLE" /\ Unlocked(p)
    /\ state' = [state EXCEPT ![p] = "RUNNING"]
    /\ cpu' = [cpu EXCEPT ![c] = p]
    /\ chan' = [chan EXCEPT ![p] = None]
    /\ UNCHANGED <<killed, parent, plock, wlock, tlock, leaving, pc, local, panicked>>

(* scheduler() after swtch: c->proc = 0, release p->lock. *)
leave(c) ==
    /\ c \in leaving
    /\ leaving' = leaving \ {c}
    /\ cpu' = [cpu EXCEPT ![c] = None]
    /\ plock' = [plock EXCEPT ![cpu[c]] = None]
    /\ UNCHANGED <<state, chan, killed, parent, wlock, tlock, pc, local, panicked>>

(* A timer interrupt while no lock is held: interrupts are off otherwise.  *)
yield(p) ==
    /\ Runs(p)
    /\ p \notin {wlock, tlock} /\ \A q \in Procs : plock[q] # p
    /\ Switch(p, "RUNNABLE")
    /\ UNCHANGED <<chan, killed, parent, wlock, tlock, cpu, pc, local, panicked>>
-------------------------------------------------------------------------------
(* fork: allocproc and the copies made under np->lock. *)
fork_alloc(p, np) ==
    /\ InUser(p)
    /\ state[np] = "UNUSED" /\ Unlocked(np)
    /\ state' = [state EXCEPT ![np] = "USED"]
    /\ pc' = [pc EXCEPT ![p] = "fork_link", ![np] = "user"]
    /\ local' = [local EXCEPT ![p] = np]
    /\ UNCHANGED <<chan, killed, parent, plock, wlock, tlock, cpu, leaving, panicked>>

(* fork when uvmcopy or an allocation fails: freeproc, return -1. *)
fork_nomem(p, np) ==
    /\ InUser(p)
    /\ state[np] = "UNUSED" /\ Unlocked(np)
    /\ killed' = [killed EXCEPT ![np] = FALSE]
    /\ UNCHANGED <<state, chan, parent, plock, wlock, tlock, cpu, leaving, pc, local, panicked>>

fork_link(p) ==
    /\ At(p, "fork_link") /\ wlock = None
    /\ parent' = [parent EXCEPT ![local[p]] = p]
    /\ Goto(p, "fork_run")
    /\ UNCHANGED <<state, chan, killed, plock, wlock, tlock, cpu, leaving, local, panicked>>

fork_run(p) ==
    /\ At(p, "fork_run") /\ Unlocked(local[p])
    /\ state' = [state EXCEPT ![local[p]] = "RUNNABLE"]
    /\ local' = [local EXCEPT ![p] = None]
    /\ Goto(p, "user")
    /\ UNCHANGED <<chan, killed, parent, plock, wlock, tlock, cpu, leaving, panicked>>
-------------------------------------------------------------------------------
(* exit, called by the program or by usertrap for a killed process. *)
exit_begin(p) ==
    /\ At(p, "user")
    /\ IF p = init
       THEN killed[p] /\ panicked' = TRUE /\ UNCHANGED pc
       ELSE Goto(p, "exit_parent") /\ UNCHANGED panicked
    /\ UNCHANGED <<state, chan, killed, parent, plock, wlock, tlock, cpu, leaving, local>>

(* The transfer of the syscall counts: acquire(&p->parent->lock) reads     *)
(* p->parent and then waits for that lock; release reads p->parent again.  *)
(* None of this is under wait_lock.                                        *)
exit_parent(p) ==
    /\ At(p, "exit_parent")
    /\ local' = [local EXCEPT ![p] = parent[p]]
    /\ Goto(p, "exit_lock")
    /\ UNCHANGED <<state, chan, killed, parent, plock, wlock, tlock, cpu, leaving, panicked>>

exit_lock(p) ==
    /\ At(p, "exit_lock") /\ Unlocked(local[p])
    /\ plock' = [plock EXCEPT ![local[p]] = p]
    /\ local' = [local EXCEPT ![p] = None]
    /\ Goto(p, "exit_unlock")
    /\ UNCHANGED <<state, chan, killed, parent, wlock, tlock, cpu, leaving, panicked>>

(* release() panics when this CPU does not hold the lock. *)
exit_unlock(p) ==
    /\ At(p, "exit_unlock")
    /\ IF plock[parent[p]] = p
       THEN /\ plock' = [plock EXCEPT ![parent[p]] = None]
            /\ Goto(p, "exit_reparent")
            /\ UNCHANGED panicked
       ELSE panicked' = TRUE /\ UNCHANGED <<plock, pc>>
    /\ UNCHANGED <<state, chan, killed, parent, wlock, tlock, cpu, leaving, local>>

Children(p) == {q \in Procs : parent[q] = p}

exit_reparent(p) ==
    /\ At(p, "exit_reparent") /\ wlock = None
    /\ wlock' = p
    /\ parent' = [q \in Procs |-> IF parent[q] = p THEN init ELSE parent[q]]
    /\ Goto(p, IF Children(p) # {} THEN "exit_wakeinit" ELSE "exit_wake")
    /\ UNCHANGED <<state, chan, killed, plock, tlock, cpu, leaving, local, panicked>>

exit_wakeinit(p) ==
    /\ At(p, "exit_wakeinit") /\ Unlocked(init)
    /\ state' = Wakeup(init, init)
    /\ Goto(p, "exit_wake")
    /\ UNCHANGED <<chan, killed, parent, plock, wlock, tlock, cpu, leaving, local, panicked>>

exit_wake(p) ==
    /\ At(p, "exit_wake") /\ Unlocked(parent[p])
    /\ state' = Wakeup(parent[p], parent[p])
    /\ Goto(p, "exit_zombie")
    /\ UNCHANGED <<chan, killed, parent, plock, wlock, tlock, cpu, leaving, local, panicked>>

exit_zombie(p) ==
    /\ At(p, "exit_zombie")
    /\ Switch(p, "ZOMBIE")
    /\ wlock' = None
    /\ Goto(p, "dead")
    /\ UNCHANGED <<chan, killed, parent, tlock, cpu, local, panicked>>
-------------------------------------------------------------------------------
(* wait and waitx: called, or back from sleep(p, &wait_lock). *)
wait_begin(p) ==
    /\ InUser(p) \/ At(p, "wait_again")
    /\ wlock = None
    /\ wlock' = p
    /\ Goto(p, "wait_scan")
    /\ UNCHANGED <<state, chan, killed, parent, plock, tlock, cpu, leaving, local, panicked>>

Zombies(p) == {q \in Children(p) : state[q] = "ZOMBIE"}

(* The scan takes the child's lock, so that the child is off its stack,    *)
(* and frees it.                                                           *)
wait_reap(p, q) ==
    /\ At(p, "wait_scan") /\ q \in Zombies(p) /\ Unlocked(q)
    /\ state' = [state EXCEPT ![q] = "UNUSED"]
    /\ parent' = [parent EXCEPT ![q] = None]
    /\ killed' = [killed EXCEPT ![q] = FALSE]
    /\ wlock' = None
    /\ Goto(p, "user")
    /\ UNCHANGED <<chan, plock, tlock, cpu, leaving, local, panicked>>

(* copyout of the exit status fails: the zombie stays. *)
wait_badaddr(p, q) ==
    /\ At(p, "wait_scan") /\ q \in Zombies(p) /\ Unlocked(q) /\ p # init
    /\ wlock' = None
    /\ Goto(p, "user")
    /\ UNCHANGED <<state, chan, killed, parent, plock, tlock, cpu, leaving, local, panicked>>

wait_check(p) ==
    /\ At(p, "wait_scan") /\ Zombies(p) = {} /\ Unlocked(p)
    /\ IF Children(p) = {} \/ killed[p]
       THEN wlock' = None /\ Goto(p, "user")
       ELSE Goto(p, "wait_sleep") /\ UNCHANGED wlock
    /\ UNCHANGED <<state, chan, killed, parent, plock, tlock, cpu, leaving, local, panicked>>

(* sleep(p, &wait_lock): p->lock is taken before wait_lock is released. *)
wait_sleep(p) ==
    /\ At(p, "wait_sleep")
    /\ Switch(p, "SLEEPING")
    /\ chan' = [chan EXCEPT ![p] = p]
    /\ wlock' = None
    /\ Goto(p, "wait_again")
    /\ UNCHANGED <<killed, parent, tlock, cpu, local, panicked>>
-------------------------------------------------------------------------------
(* sys_sleep and the timer tick that wakes its callers.  How many ticks    *)
(* have passed is left open.  init neither sleeps nor kills (user/init.c). *)
sleep_begin(p) ==
    /\ (InUser(p) /\ p # init) \/ At(p, "sleep_again")
    /\ tlock = None
    /\ tlock' = p
    /\ Goto(p, "sleep_check")
    /\ UNCHANGED <<state, chan, killed, parent, plock, wlock, cpu, leaving, local, panicked>>

sleep_check(p) ==
    /\ At(p, "sleep_check") /\ Unlocked(p)
    /\ \/ tlock' = None /\ Goto(p, "user")
       \/ ~killed[p] /\ Goto(p, "sleep_sleep") /\ UNCHANGED tlock
    /\ UNCHANGED <<state, chan, killed, parent, plock, wlock, cpu, leaving, local, panicked>>

sleep_sleep(p) ==
    /\ At(p, "sleep_sleep")
    /\ Switch(p, "SLEEPING")
    /\ chan' = [chan EXCEPT ![p] = Ticks]
    /\ tlock' = None
    /\ Goto(p, "sleep_again")
    /\ UNCHANGED <<killed, parent, wlock, cpu, local, panicked>>

Dozing == {p \in Procs : state[p] = "SLEEPING" /\ chan[p] = Ticks}

clockintr ==
    /\ tlock = None
    /\ \A p \in Dozing : Unlocked(p)
    /\ state' = [p \in Procs |-> IF p \in Dozing THEN "RUNNABLE" ELSE state[p]]
    /\ UNCHANGED <<chan, killed, parent, plock, wlock, tlock, cpu, leaving, pc, local, panicked>>
-------------------------------------------------------------------------------
kill_NoWakeup(p, q) ==
    /\ InUser(p) /\ p # init /\ Unlocked(q)
    /\ q \in KillTargets /\ state[q] # "UNUSED"
    /\ killed' = [killed EXCEPT ![q] = TRUE]
    /\ UNCHANGED <<state, chan, parent, plock, wlock, tlock, cpu, leaving, pc, local, panicked>>

kill(p, q) ==
    /\ InUser(p) /\ p # init /\ Unlocked(q)
    /\ \/ q \in KillTargets /\ state[q] # "UNUSED"
       \/ KillsPidZero /\ state[q] = "UNUSED"
    /\ killed' = [killed EXCEPT ![q] = TRUE]
    /\ state' = IF state[q] = "SLEEPING" THEN [state EXCEPT ![q] = "RUNNABLE"] ELSE state
    /\ UNCHANGED <<chan, parent, plock, wlock, tlock, cpu, leaving, pc, local, panicked>>

(* The kernel's own steps inside a call, as opposed to the program's       *)
(* choice of the next call.                                                *)
Kernel(p) ==
    \/ fork_link(p) \/ fork_run(p)
    \/ exit_parent(p) \/ exit_lock(p) \/ exit_unlock(p)
    \/ exit_reparent(p) \/ exit_wakeinit(p) \/ exit_wake(p) \/ exit_zombie(p)
    \/ \E q \in Procs : wait_reap(p, q) \/ wait_badaddr(p, q)
    \/ wait_check(p) \/ wait_sleep(p)
    \/ sleep_check(p) \/ sleep_sleep(p)

Next ==
    \/ ~panicked /\
       \/ \E c \in CPUs, p \in Procs : dispatch(c, p)
       \/ \E c \in CPUs : leave(c)
       \/ \E p \in Procs :
            \/ yield(p)
            \/ \E q \in Procs : fork_alloc(p, q) \/ fork_nomem(p, q) \/ kill(p, q)
            \/ exit_begin(p) \/ wait_begin(p) \/ sleep_begin(p)
            \/ Kernel(p)
       \/ clockintr
    \/ panicked /\ UNCHANGED vars    \* panic() spins for ever

Spec == Init /\ [][Next]_vars

(* A thread goes on with the call it is in; a killed process exits at its  *)
(* next trap; init calls wait for ever (user/init.c).                      *)
Progress(p) ==
    \/ Kernel(p)
    \/ killed[p] /\ exit_begin(p)
    \/ (pc[p] = "wait_again" \/ p = init) /\ wait_begin(p)
    \/ pc[p] = "sleep_again" /\ sleep_begin(p)

(* The scheduler's table scan reaches every runnable process, a timer      *)
(* interrupt is taken in the end by a CPU that does not give up its        *)
(* process, and a thread that waits for a spinlock gets it in the end.     *)
(* Nothing else has to happen: programs need not exit.                     *)
Fairness ==
    /\ WF_vars(\E c \in CPUs : leave(c))
    /\ SF_vars(\E p \in Procs : yield(p))
    /\ \A p \in Procs : SF_vars(\E c \in CPUs : dispatch(c, p))
    /\ \A p \in Procs : SF_vars(~panicked /\ Progress(p))
    /\ WF_vars(~panicked /\ clockintr)

FairSpec == Spec /\ Fairness
-------------------------------------------------------------------------------
TypeOK ==
    /\ state \in [Procs -> States]
    /\ chan \in [Procs -> Procs \cup {None, Ticks}]
    /\ killed \in [Procs -> BOOLEAN]
    /\ parent \in [Procs -> Procs \cup {None}]
    /\ plock \in [Procs -> Procs \cup {None}]
    /\ {wlock, tlock} \subseteq Procs \cup {None}
    /\ cpu \in [CPUs -> Procs \cup {None}]
    /\ leaving \subseteq {c \in CPUs : cpu[c] # None}
    /\ pc \in [Procs -> Points]
    /\ local \in [Procs -> Procs \cup {None}]
    /\ panicked \in BOOLEAN
    /\ \A p \in Procs : state[p] = "RUNNING" <=> Runs(p)

(* No two CPUs ever run on one kernel stack, although a process is already *)
(* RUNNABLE or SLEEPING while it still switches away (sched, scheduler).   *)
OneCPU == \A c, d \in CPUs : cpu[c] = cpu[d] /\ cpu[c] # None => c = d

(* A slot is given back only when its thread has left its kernel stack:    *)
(* wait must not free a child that is "still in exit() or swtch()".        *)
NoFreedStack == \A c \in CPUs : cpu[c] # None => state[cpu[c]] \notin {"UNUSED", "USED"}

(* A spinlock is only ever held by a thread that is on a CPU: nobody       *)
(* sleeps, is preempted or exits with wait_lock, tickslock or somebody     *)
(* else's p->lock held, which would leave the others spinning for ever.    *)
HoldersOnCPU ==
    /\ \A p \in {wlock, tlock} \ {None} : Runs(p)
    /\ \A p \in Procs : plock[p] \notin {None, p} => Runs(plock[p])
    /\ \A p \in Procs : plock[p] = p => \E c \in leaving : cpu[c] = p

(* Every process but init has a parent that can still wait for it: exit    *)
(* hands its children to init before it becomes a zombie.                  *)
ParentAlive ==
    \A p \in Procs \ {init} :
        /\ state[p] \notin {"UNUSED", "USED"} => parent[p] # None
        /\ parent[p] # None => state[parent[p]] \in {"SLEEPING", "RUNNABLE", "RUNNING"}

(* No parent sleeps in wait next to a child that is a zombie already: the  *)
(* wakeup of exit cannot fall between wait's scan and its sleep.           *)
NoLostExit ==
    wlock = None =>
        \A p \in Procs : state[p] = "SLEEPING" /\ chan[p] = p => Zombies(p) = {}

(* No process runs on two CPUs, and no stack is freed while a CPU is on    *)
(* it; who has a spinlock does not leave its CPU.  And nobody is left      *)
(* without a parent, nor does a parent sleep beside a zombie, whichever    *)
(* CPUs they are on.                                                       *)
OneStack == OneCPU /\ NoFreedStack /\ HoldersOnCPU /\ ParentAlive /\ NoLostExit

(* proc.h:109 lets p->parent be used under wait_lock only; then the lock   *)
(* that exit releases is the lock it acquired, and release() never panics. *)
NoPanic == ~panicked

(* kill wakes its victim: nobody sleeps on with killed set ("Wake process  *)
(* from sleep()").                                                         *)
KillWakes == \A p \in Procs : killed[p] => state[p] # "SLEEPING"

(* A new process is not killed before anybody called kill on its pid.      *)
BornAlive ==
    [][\A p \in Procs : state[p] = "UNUSED" /\ state'[p] = "USED" => ~killed'[p]]_vars

(* Orphans do not pile up: either init runs out of zombies again and       *)
(* again, or it goes on reaping.  (One zombie may wait for ever: wait      *)
(* takes the first it finds in the table.)                                 *)
OrphansReaped ==
    \/ []<>(panicked \/ Zombies(init) = {})
    \/ []<><<\E q \in Procs : wait_reap(init, q)>>_vars

(* "The victim won't exit until it tries to return to user space", but     *)
(* then it does, wherever it slept when it was killed.                     *)
KilledExits ==
    \A p \in Procs : killed[p] ~> state[p] \in {"ZOMBIE", "UNUSED"} \/ panicked
===============================================================================
