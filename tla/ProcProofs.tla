------------------------------ MODULE ProcProofs ------------------------------
(***************************************************************************)
(* Proofs about Proc, for any slots, CPUs and victims: no two CPUs are on  *)
(* one kernel stack, locks are held on a CPU only, every process has a     *)
(* parent that can wait for it, and no exit is missed by a sleeping        *)
(* parent.                                                                 *)
(***************************************************************************)
EXTENDS Proc, TLAPS

Alive == {"SLEEPING", "RUNNABLE", "RUNNING"}
WaitLockPoints == {"exit_wakeinit", "exit_wake", "exit_zombie", "wait_scan", "wait_sleep"}
TickLockPoints == {"sleep_check", "sleep_sleep"}
ForkPoints == {"fork_link", "fork_run"}
ExitPoints == {"exit_parent", "exit_lock", "exit_unlock", "exit_reparent",
               "exit_wakeinit", "exit_wake", "exit_zombie", "dead"}
Childless == {"exit_wakeinit", "exit_wake", "exit_zombie", "dead"}

(* TypeOK but for its last conjunct, which CpuInv has.                     *)
Types ==
    /\ state \in [Procs -> States]
    /\ chan \in [Procs -> Procs \cup {None, Ticks}]
    /\ killed \in [Procs -> BOOLEAN]
    /\ parent \in [Procs -> Procs \cup {None}]
    /\ plock \in [Procs -> Procs \cup {None}]
    /\ wlock \in Procs \cup {None} /\ tlock \in Procs \cup {None}
    /\ cpu \in [CPUs -> Procs \cup {None}]
    /\ leaving \subseteq CPUs
    /\ pc \in [Procs -> Points]
    /\ local \in [Procs -> Procs \cup {None}]
    /\ panicked \in BOOLEAN

(* A CPU is on the stack of a process that is RUNNING, or that switches    *)
(* away with its own lock held and is in the state it chose; no other CPU  *)
(* is on that stack.                                                       *)
CpuInv ==
    /\ \A c \in leaving : cpu[c] # None
    /\ \A c \in CPUs : cpu[c] # None =>
         IF c \in leaving
         THEN plock[cpu[c]] = cpu[c] /\ state[cpu[c]] \in {"RUNNABLE", "SLEEPING", "ZOMBIE"}
         ELSE state[cpu[c]] = "RUNNING"
    /\ OneCPU
    /\ \A p \in Procs : state[p] = "RUNNING" => \E c \in CPUs \ leaving : cpu[c] = p
    /\ \A p \in Procs : plock[p] = p => \E c \in leaving : cpu[c] = p

(* Who holds wait_lock, tickslock or the lock of another process is where  *)
(* the code says, and running.                                             *)
LockInv ==
    /\ \A p \in Procs : pc[p] \in WaitLockPoints <=> wlock = p
    /\ \A p \in Procs : pc[p] \in TickLockPoints <=> tlock = p
    /\ \A p \in Procs : wlock = p \/ tlock = p => state[p] = "RUNNING"
    /\ \A p, q \in Procs : plock[q] = p /\ q # p => pc[p] = "exit_unlock" /\ state[p] = "RUNNING"
    /\ \A p, q, r \in Procs : plock[q] = p /\ plock[r] = p /\ q # p /\ r # p => q = r

(* fork's new process is its own until it is RUNNABLE. *)
ForkInv ==
    /\ \A p \in Procs : pc[p] \in ForkPoints => local[p] # None /\ state[local[p]] = "USED"
    /\ \A p \in Procs : pc[p] = "fork_run" => parent[local[p]] = p
    /\ \A p, q \in Procs :
         pc[p] \in ForkPoints /\ pc[q] \in ForkPoints /\ local[p] = local[q] => p = q
    /\ \A p \in Procs : state[p] = "USED" => pc[p] = "user"
    /\ \A p \in Procs : pc[p] = "exit_lock" => local[p] # None /\ local[p] # p

(* Who is whose parent. *)
FamilyInv ==
    /\ ParentAlive
    /\ state[init] \in Alive /\ parent[init] = None
    /\ \A p \in Procs : parent[p] # p
    /\ \A p \in Procs : pc[p] \in ExitPoints => p # init
    /\ \A p \in Procs : pc[p] \in Childless => Children(p) = {}
    /\ \A p \in Procs : state[p] = "ZOMBIE" => pc[p] = "dead"

(* A parent that sleeps in wait has no zombie, but for init while another  *)
(* process hands over its children; whoever is about to become a zombie    *)
(* has woken its parent.                                                   *)
Asleep(p) == state[p] = "SLEEPING" /\ chan[p] = p
WakeInv ==
    /\ \A p \in Procs : Asleep(p) =>
         Zombies(p) = {} \/ (p = init /\ \E q \in Procs : pc[q] = "exit_wakeinit")
    /\ \A p \in Procs : pc[p] = "wait_sleep" => Zombies(p) = {}
    /\ \A p \in Procs : pc[p] = "exit_zombie" => ~Asleep(parent[p])

ProcInv == Types /\ CpuInv /\ LockInv /\ ForkInv /\ FamilyInv /\ WakeInv
-------------------------------------------------------------------------------
LEMMA Running ==
    ASSUME Types, CpuInv, NEW p \in Procs
    PROVE  Runs(p) <=> state[p] = "RUNNING"
BY ProcConstants DEF CpuInv, Runs

LEMMA DispatchStep ==
    ASSUME ProcInv, NEW c \in CPUs, NEW p \in Procs, dispatch(c, p)
    PROVE  ProcInv'
<1> USE ProcConstants DEF ProcInv
<1>2. Types'
  BY DEF Types, States, dispatch
<1>3. CpuInv'
  BY DEF Types, CpuInv, OneCPU, Unlocked, dispatch
<1>4. LockInv'
  BY DEF LockInv, dispatch
<1>5. ForkInv'
  BY DEF ForkInv, dispatch
<1>6. FamilyInv'
  BY DEF FamilyInv, ParentAlive, Alive, Children, dispatch
<1>7. WakeInv'
  BY DEF WakeInv, Asleep, Zombies, Children, dispatch
<1> QED
  BY <1>2, <1>3, <1>4, <1>5, <1>6, <1>7

LEMMA LeaveStep ==
    ASSUME ProcInv, NEW c \in CPUs, leave(c)
    PROVE  ProcInv'
<1> USE ProcConstants DEF ProcInv
<1>2. Types'
  BY DEF Types, leave
<1>3. CpuInv'
  BY DEF Types, CpuInv, OneCPU, leave
<1>4. LockInv'
  BY DEF LockInv, leave
<1>5. ForkInv'
  BY DEF ForkInv, leave
<1>6. FamilyInv'
  BY DEF FamilyInv, ParentAlive, Children, leave
<1>7. WakeInv'
  BY DEF WakeInv, Asleep, Zombies, Children, leave
<1> QED
  BY <1>2, <1>3, <1>4, <1>5, <1>6, <1>7

LEMMA YieldStep ==
    ASSUME ProcInv, NEW p \in Procs, yield(p)
    PROVE  ProcInv'
<1> USE ProcConstants DEF ProcInv
<1>1. state[p] = "RUNNING"
  BY Running DEF yield
<1>2. Types'
  BY DEF Types, States, yield, Switch
<1>3. CpuInv'
  BY <1>1 DEF Types, CpuInv, OneCPU, yield, Switch
<1>4. LockInv'
  BY DEF LockInv, yield, Switch
<1>5. ForkInv'
  BY <1>1 DEF ForkInv, yield, Switch
<1>6. FamilyInv'
  BY <1>1 DEF FamilyInv, ParentAlive, Alive, Children, yield, Switch
<1>7. WakeInv'
  BY DEF WakeInv, Asleep, Zombies, Children, yield, Switch
<1> QED
  BY <1>2, <1>3, <1>4, <1>5, <1>6, <1>7

LEMMA ForkAllocStep ==
    ASSUME ProcInv, NEW p \in Procs, NEW np \in Procs, fork_alloc(p, np)
    PROVE  ProcInv'
<1> USE ProcConstants DEF ProcInv
<1>1. state[p] = "RUNNING"
  BY Running DEF fork_alloc, InUser, At
<1>2. Types'
  BY DEF Types, States, Points, fork_alloc
<1>3. CpuInv'
  BY DEF CpuInv, OneCPU, fork_alloc
<1>4. LockInv'
  BY DEF Types, CpuInv, LockInv, WaitLockPoints, TickLockPoints, At, fork_alloc, InUser
<1>5. ForkInv'
  BY <1>1 DEF Types, ForkInv, ForkPoints, fork_alloc
<1>6. FamilyInv'
  BY <1>1 DEF Types, FamilyInv, ParentAlive, Alive, ExitPoints, Childless, Children,
           fork_alloc
<1>7. WakeInv'
  BY SMTT(30), <1>1, <1>2 DEF Types, WakeInv, LockInv, FamilyInv, ParentAlive, Alive,
           WaitLockPoints, Asleep, Zombies, Children, Unlocked, At, fork_alloc, InUser
<1> QED
  BY <1>2, <1>3, <1>4, <1>5, <1>6, <1>7

LEMMA ForkNomemStep ==
    ASSUME ProcInv, NEW p \in Procs, NEW np \in Procs, fork_nomem(p, np)
    PROVE  ProcInv'
<1> USE ProcConstants DEF ProcInv
<1>1. state[p] = "RUNNING"
  BY Running DEF fork_nomem, InUser, At
<1>2. Types'
  BY DEF Types, fork_nomem
<1>3. CpuInv'
  BY DEF CpuInv, OneCPU, fork_nomem
<1>4. LockInv'
  BY DEF LockInv, fork_nomem
<1>5. ForkInv'
  BY DEF ForkInv, fork_nomem
<1>6. FamilyInv'
  BY DEF FamilyInv, ParentAlive, Children, fork_nomem
<1>7. WakeInv'
  BY DEF WakeInv, Asleep, Zombies, Children, fork_nomem
<1> QED
  BY <1>2, <1>3, <1>4, <1>5, <1>6, <1>7

LEMMA ForkLinkStep ==
    ASSUME ProcInv, NEW p \in Procs, fork_link(p)
    PROVE  ProcInv'
<1> USE ProcConstants DEF ProcInv
<1>1. state[p] = "RUNNING"
  BY Running DEF fork_link, At
<1>2. Types'
  BY DEF Types, Points, Goto, fork_link
<1>3. CpuInv'
  BY DEF CpuInv, OneCPU, fork_link
<1>4. LockInv'
  BY DEF LockInv, WaitLockPoints, TickLockPoints, Goto, At, fork_link
<1>5. ForkInv'
  BY DEF Types, ForkInv, ForkPoints, Goto, At, fork_link
<1>6. FamilyInv'
  BY <1>1 DEF FamilyInv, ForkInv, ParentAlive, Alive, ExitPoints, Childless, ForkPoints,
           Children, Goto, At, fork_link
<1>7. WakeInv'
  BY <1>1 DEF WakeInv, Asleep, Zombies, Children, Goto, At, fork_link
<1> QED
  BY <1>2, <1>3, <1>4, <1>5, <1>6, <1>7

LEMMA ForkRunStep ==
    ASSUME ProcInv, NEW p \in Procs, fork_run(p)
    PROVE  ProcInv'
<1> USE ProcConstants DEF ProcInv
<1>1. state[p] = "RUNNING"
  BY Running DEF fork_run, At
<1>2. Types'
  BY DEF Types, States, Points, Goto, fork_run
<1>3. CpuInv'
  BY DEF CpuInv, OneCPU, ForkInv, ForkPoints, At, fork_run
<1>4. LockInv'
  BY DEF LockInv, ForkInv, ForkPoints, WaitLockPoints, TickLockPoints, Goto, At,
         fork_run
<1>5. ForkInv'
  BY DEF Types, ForkInv, ForkPoints, Goto, At, fork_run
<1>6. FamilyInv'
  BY DEF FamilyInv, ForkInv, ParentAlive, ExitPoints, Childless, Children, Goto, At,
         fork_run
<1>7. WakeInv'
  BY DEF WakeInv, Asleep, Zombies, Children, Goto, At, fork_run
<1> QED
  BY <1>2, <1>3, <1>4, <1>5, <1>6, <1>7

LEMMA ExitBeginStep ==
    ASSUME ProcInv, NEW p \in Procs, exit_begin(p)
    PROVE  ProcInv'
<1> USE ProcConstants DEF ProcInv
<1>1. state[p] = "RUNNING"
  BY Running DEF exit_begin, At
<1>2. Types'
  BY DEF Types, Points, Goto, exit_begin
<1>3. CpuInv'
  BY DEF CpuInv, OneCPU, exit_begin
<1>4. LockInv'
  BY DEF Types, LockInv, WaitLockPoints, TickLockPoints, Goto, At, exit_begin
<1>5. ForkInv'
  BY <1>1 DEF Types, ForkInv, ForkPoints, Goto, exit_begin
<1>6. FamilyInv'
  BY <1>1 DEF Types, FamilyInv, ParentAlive, Childless, Children, Goto, exit_begin
<1>7. WakeInv'
  BY DEF Types, WakeInv, Asleep, Zombies, Children, Goto, At, exit_begin
<1> QED
  BY <1>2, <1>3, <1>4, <1>5, <1>6, <1>7

LEMMA ExitParentStep ==
    ASSUME ProcInv, NEW p \in Procs, exit_parent(p)
    PROVE  ProcInv'
<1> USE ProcConstants DEF ProcInv
<1>1. state[p] = "RUNNING"
  BY Running DEF exit_parent, At
<1>2. Types'
  BY DEF Types, Points, Goto, exit_parent
<1>3. CpuInv'
  BY DEF CpuInv, OneCPU, exit_parent
<1>4. LockInv'
  BY DEF LockInv, WaitLockPoints, TickLockPoints, Goto, At, exit_parent
<1>5. ForkInv'
  BY <1>1 DEF Types, ForkInv, FamilyInv, ParentAlive, ExitPoints, ForkPoints, Goto, At,
           exit_parent
<1>6. FamilyInv'
  BY DEF FamilyInv, ParentAlive, ExitPoints, Childless, Children, Goto, At, exit_parent
<1>7. WakeInv'
  BY DEF WakeInv, Asleep, Zombies, Children, Goto, At, exit_parent
<1> QED
  BY <1>2, <1>3, <1>4, <1>5, <1>6, <1>7

LEMMA ExitLockStep ==
    ASSUME ProcInv, NEW p \in Procs, exit_lock(p)
    PROVE  ProcInv'
<1> USE ProcConstants DEF ProcInv
<1>1. state[p] = "RUNNING"
  BY Running DEF exit_lock, At
<1>2. Types'
  BY DEF Types, Points, Goto, exit_lock
<1>3. CpuInv'
  BY DEF CpuInv, OneCPU, ForkInv, Unlocked, At, exit_lock
<1>4. LockInv'
  BY <1>1 DEF Types, LockInv, WaitLockPoints, TickLockPoints, Goto, At, exit_lock
<1>5. ForkInv'
  BY <1>1 DEF Types, ForkInv, ForkPoints, Goto, exit_lock
<1>6. FamilyInv'
  BY DEF FamilyInv, ParentAlive, ExitPoints, Childless, Children, Goto, At, exit_lock
<1>7. WakeInv'
  BY DEF WakeInv, Asleep, Zombies, Children, Goto, At, exit_lock
<1> QED
  BY <1>2, <1>3, <1>4, <1>5, <1>6, <1>7

LEMMA ExitUnlockStep ==
    ASSUME ProcInv, NEW p \in Procs, exit_unlock(p)
    PROVE  ProcInv'
<1> USE ProcConstants DEF ProcInv
<1>1. state[p] = "RUNNING"
  BY Running DEF exit_unlock, At
<1>2. Types'
  BY ZenonT(40) DEF Types, States, Points, Goto, exit_unlock
<1>3. CpuInv'
  BY <1>1 DEF Types, CpuInv, OneCPU, exit_unlock
<1>4. LockInv'
  BY SMTT(30), <1>1, <1>2 DEF Types, CpuInv, OneCPU, LockInv, FamilyInv, ParentAlive, ExitPoints,
           WaitLockPoints, TickLockPoints, Goto, At, exit_unlock
<1>5. ForkInv'
  BY <1>1 DEF Types, ForkInv, ForkPoints, Goto, exit_unlock
<1>6. FamilyInv'
  BY DEF Types, FamilyInv, ParentAlive, ExitPoints, Childless, Children, Goto, At,
         exit_unlock
<1>7. WakeInv'
  BY DEF Types, WakeInv, Asleep, Zombies, Children, Goto, At, exit_unlock
<1> QED
  BY <1>2, <1>3, <1>4, <1>5, <1>6, <1>7

LEMMA ExitReparentStep ==
    ASSUME ProcInv, NEW p \in Procs, exit_reparent(p)
    PROVE  ProcInv'
<1> USE ProcConstants DEF ProcInv
<1>1. state[p] = "RUNNING"
  BY Running DEF exit_reparent, At
<1>2. Types'
  BY DEF Types, Points, Goto, exit_reparent
<1>3. CpuInv'
  BY DEF CpuInv, OneCPU, exit_reparent
<1>4. LockInv'
  BY <1>1 DEF Types, LockInv, WaitLockPoints, TickLockPoints, Goto, At, exit_reparent
<1>5. ForkInv'
  BY <1>1 DEF Types, ForkInv, ForkPoints, Goto, exit_reparent
<1>6. FamilyInv'
  BY DEF FamilyInv, ParentAlive, Alive, ExitPoints, Childless, Children, Goto, At,
         exit_reparent
<1>7. WakeInv'
  BY DEF Types, WakeInv, LockInv, WaitLockPoints, Asleep, Zombies, Children, Goto,
         exit_reparent
<1> QED
  BY <1>2, <1>3, <1>4, <1>5, <1>6, <1>7

LEMMA ExitWakeinitStep ==
    ASSUME ProcInv, NEW p \in Procs, exit_wakeinit(p)
    PROVE  ProcInv'
<1> USE ProcConstants DEF ProcInv
<1>1. state[p] = "RUNNING"
  BY Running DEF exit_wakeinit, At
<1>2. Types'
  BY DEF Types, States, Points, Goto, exit_wakeinit, Wakeup
<1>3. CpuInv'
  BY DEF CpuInv, OneCPU, exit_wakeinit, Wakeup
<1>4. LockInv'
  BY DEF LockInv, WaitLockPoints, TickLockPoints, Goto, At, exit_wakeinit, Wakeup
<1>5. ForkInv'
  BY <1>1 DEF ForkInv, ForkPoints, Goto, exit_wakeinit, Wakeup
<1>6. FamilyInv'
  BY DEF FamilyInv, ParentAlive, Alive, ExitPoints, Childless, Children, Goto, At,
         exit_wakeinit, Wakeup
<1>7. WakeInv'
  BY DEF Types, WakeInv, Asleep, Zombies, Children, Goto, exit_wakeinit, Wakeup
<1> QED
  BY <1>2, <1>3, <1>4, <1>5, <1>6, <1>7

LEMMA ExitWakeStep ==
    ASSUME ProcInv, NEW p \in Procs, exit_wake(p)
    PROVE  ProcInv'
<1> USE ProcConstants DEF ProcInv
<1>1. state[p] = "RUNNING"
  BY Running DEF exit_wake, At
<1>2. Types'
  BY DEF Types, States, Points, Goto, exit_wake, Wakeup
<1>3. CpuInv'
  BY DEF CpuInv, OneCPU, exit_wake, Wakeup
<1>4. LockInv'
  BY DEF LockInv, WaitLockPoints, TickLockPoints, Goto, At, exit_wake, Wakeup
<1>5. ForkInv'
  BY <1>1 DEF ForkInv, ForkPoints, Goto, exit_wake, Wakeup
<1>6. FamilyInv'
  BY DEF FamilyInv, ParentAlive, Alive, ExitPoints, Childless, Children, Goto, At,
         exit_wake, Wakeup
<1>7. WakeInv'
  BY <1>2 DEF Types, WakeInv, Asleep, Zombies, Children, Goto, At, exit_wake, Wakeup
<1> QED
  BY <1>2, <1>3, <1>4, <1>5, <1>6, <1>7

LEMMA ExitZombieStep ==
    ASSUME ProcInv, NEW p \in Procs, exit_zombie(p)
    PROVE  ProcInv'
<1> USE ProcConstants DEF ProcInv
<1>1. state[p] = "RUNNING"
  BY Running DEF exit_zombie, At
<1>2. Types'
  BY DEF Types, States, Points, Goto, exit_zombie, Switch
<1>3. CpuInv'
  BY <1>1 DEF Types, CpuInv, OneCPU, exit_zombie, Switch
<1>4. LockInv'
  BY DEF Types, LockInv, WaitLockPoints, TickLockPoints, Goto, At, exit_zombie, Switch
<1>5. ForkInv'
  BY <1>1 DEF ForkInv, ForkPoints, Goto, exit_zombie, Switch
<1>6. FamilyInv'
  BY <1>1 DEF Types, FamilyInv, ParentAlive, ExitPoints, Childless, Children, Goto, At,
           exit_zombie, Switch
<1>7. WakeInv'
  BY DEF WakeInv, LockInv, WaitLockPoints, Asleep, Zombies, Children, Goto, At,
         exit_zombie, Switch
<1> QED
  BY <1>2, <1>3, <1>4, <1>5, <1>6, <1>7

LEMMA WaitBeginStep ==
    ASSUME ProcInv, NEW p \in Procs, wait_begin(p)
    PROVE  ProcInv'
<1> USE ProcConstants DEF ProcInv
<1>1. state[p] = "RUNNING"
  BY Running DEF wait_begin, InUser, At
<1>2. Types'
  BY DEF Types, Points, Goto, wait_begin
<1>3. CpuInv'
  BY DEF CpuInv, OneCPU, wait_begin
<1>4. LockInv'
  BY <1>1 DEF Types, LockInv, WaitLockPoints, TickLockPoints, Goto, At, wait_begin,
           InUser
<1>5. ForkInv'
  BY <1>1 DEF ForkInv, ForkPoints, Goto, wait_begin
<1>6. FamilyInv'
  BY <1>1 DEF FamilyInv, ParentAlive, ExitPoints, Childless, Children, Goto, wait_begin
<1>7. WakeInv'
  BY DEF WakeInv, Asleep, Zombies, Children, Goto, At, wait_begin, InUser
<1> QED
  BY <1>2, <1>3, <1>4, <1>5, <1>6, <1>7

LEMMA WaitReapStep ==
    ASSUME ProcInv, NEW p \in Procs, NEW q \in Procs, wait_reap(p, q)
    PROVE  ProcInv'
<1> USE ProcConstants DEF ProcInv
<1>1. state[p] = "RUNNING"
  BY Running DEF wait_reap, At
<1>0. q # p /\ state[q] = "ZOMBIE" /\ parent[q] = p /\ pc[q] = "dead" /\ Children(q) = {}
  BY DEF wait_reap, Zombies, Children, FamilyInv, Childless
<1>2. Types'
  BY DEF Types, States, Points, Goto, wait_reap
<1>3. CpuInv'
  BY <1>0 DEF CpuInv, OneCPU, Unlocked, wait_reap
<1>4. LockInv'
  BY <1>0 DEF Types, LockInv, WaitLockPoints, TickLockPoints, Goto, At, wait_reap
<1>5. ForkInv'
  BY <1>0 DEF ForkInv, ForkPoints, Goto, wait_reap
<1>6. FamilyInv'
  BY <1>0 DEF Types, FamilyInv, ParentAlive, ExitPoints, Childless, Children, Goto,
           wait_reap
<1>7. WakeInv'
  BY <1>0 DEF WakeInv, Asleep, Zombies, Children, Goto, At, wait_reap
<1> QED
  BY <1>2, <1>3, <1>4, <1>5, <1>6, <1>7

LEMMA WaitBadaddrStep ==
    ASSUME ProcInv, NEW p \in Procs, NEW q \in Procs, wait_badaddr(p, q)
    PROVE  ProcInv'
<1> USE ProcConstants DEF ProcInv
<1>1. state[p] = "RUNNING"
  BY Running DEF wait_badaddr, At
<1>2. Types'
  BY DEF Types, Points, Goto, wait_badaddr
<1>3. CpuInv'
  BY DEF CpuInv, OneCPU, wait_badaddr
<1>4. LockInv'
  BY DEF Types, LockInv, WaitLockPoints, TickLockPoints, Goto, At, wait_badaddr
<1>5. ForkInv'
  BY DEF ForkInv, ForkPoints, Goto, wait_badaddr
<1>6. FamilyInv'
  BY <1>1 DEF FamilyInv, ParentAlive, Childless, Children, Goto, wait_badaddr
<1>7. WakeInv'
  BY DEF WakeInv, Asleep, Zombies, Children, Goto, At, wait_badaddr
<1> QED
  BY <1>2, <1>3, <1>4, <1>5, <1>6, <1>7

LEMMA WaitCheckStep ==
    ASSUME ProcInv, NEW p \in Procs, wait_check(p)
    PROVE  ProcInv'
<1> USE ProcConstants DEF ProcInv
<1>1. state[p] = "RUNNING"
  BY Running DEF wait_check, At
<1>0. \E point \in {"user", "wait_sleep"} : pc' = [pc EXCEPT ![p] = point]
  BY DEF wait_check, Goto
<1>2. Types'
  BY DEF Types, Points, Goto, wait_check
<1>3. CpuInv'
  BY DEF CpuInv, OneCPU, wait_check
<1>4. LockInv'
  BY <1>1 DEF Types, CpuInv, LockInv, WaitLockPoints, TickLockPoints, Goto, At,
           wait_check
<1>5. ForkInv'
  BY <1>1, <1>0 DEF wait_check, ForkInv, ForkPoints
<1>6. FamilyInv'
  BY <1>1 DEF Types, FamilyInv, ParentAlive, ExitPoints, Childless, Children, Goto,
           wait_check
<1>7. WakeInv'
  BY DEF Types, WakeInv, Asleep, Zombies, Children, Goto, At, wait_check
<1> QED
  BY <1>2, <1>3, <1>4, <1>5, <1>6, <1>7

LEMMA WaitSleepStep ==
    ASSUME ProcInv, NEW p \in Procs, wait_sleep(p)
    PROVE  ProcInv'
<1> USE ProcConstants DEF ProcInv
<1>1. state[p] = "RUNNING"
  BY Running DEF wait_sleep, At
<1>2. Types'
  BY DEF Types, States, Points, Goto, wait_sleep, Switch
<1>3. CpuInv'
  BY <1>1 DEF Types, CpuInv, OneCPU, wait_sleep, Switch
<1>4. LockInv'
  BY DEF Types, LockInv, WaitLockPoints, TickLockPoints, Goto, At, wait_sleep, Switch
<1>5. ForkInv'
  BY <1>1 DEF ForkInv, ForkPoints, Goto, wait_sleep, Switch
<1>6. FamilyInv'
  BY <1>1 DEF FamilyInv, ParentAlive, Alive, ExitPoints, Childless, Children, Goto,
           wait_sleep, Switch
<1>7. WakeInv'
  BY DEF WakeInv, LockInv, WaitLockPoints, Asleep, Zombies, Children, Goto, At,
         wait_sleep, Switch
<1> QED
  BY <1>2, <1>3, <1>4, <1>5, <1>6, <1>7

LEMMA SleepBeginStep ==
    ASSUME ProcInv, NEW p \in Procs, sleep_begin(p)
    PROVE  ProcInv'
<1> USE ProcConstants DEF ProcInv
<1>1. state[p] = "RUNNING"
  BY Running DEF sleep_begin, InUser, At
<1>2. Types'
  BY DEF Types, Points, Goto, sleep_begin
<1>3. CpuInv'
  BY DEF CpuInv, OneCPU, sleep_begin
<1>4. LockInv'
  BY <1>1 DEF Types, LockInv, WaitLockPoints, TickLockPoints, Goto, At, sleep_begin,
           InUser
<1>5. ForkInv'
  BY <1>1 DEF ForkInv, ForkPoints, Goto, sleep_begin
<1>6. FamilyInv'
  BY <1>1 DEF FamilyInv, ParentAlive, ExitPoints, Childless, Children, Goto, sleep_begin
<1>7. WakeInv'
  BY DEF WakeInv, Asleep, Zombies, Children, Goto, At, sleep_begin, InUser
<1> QED
  BY <1>2, <1>3, <1>4, <1>5, <1>6, <1>7

LEMMA SleepCheckStep ==
    ASSUME ProcInv, NEW p \in Procs, sleep_check(p)
    PROVE  ProcInv'
<1> USE ProcConstants DEF ProcInv
<1>1. state[p] = "RUNNING"
  BY Running DEF sleep_check, At
<1>0. \E point \in {"user", "sleep_sleep"} : pc' = [pc EXCEPT ![p] = point]
  BY DEF sleep_check, Goto
<1>2. Types'
  BY DEF Types, Points, Goto, sleep_check
<1>3. CpuInv'
  BY DEF CpuInv, OneCPU, sleep_check
<1>4. LockInv'
  BY DEF Types, CpuInv, LockInv, WaitLockPoints, TickLockPoints, Goto, At, sleep_check
<1>5. ForkInv'
  BY SMTT(30), <1>1, <1>2 DEF Types, LockInv, ForkInv, FamilyInv, Alive, ForkPoints, Unlocked,
           Goto, At, sleep_check
<1>6. FamilyInv'
  BY <1>1 DEF Types, FamilyInv, ParentAlive, ExitPoints, Childless, Children, Goto,
           sleep_check
<1>7. WakeInv'
  BY <1>0 DEF sleep_check, At, WakeInv, Asleep, Zombies, Children
<1> QED
  BY <1>2, <1>3, <1>4, <1>5, <1>6, <1>7

LEMMA SleepSleepStep ==
    ASSUME ProcInv, NEW p \in Procs, sleep_sleep(p)
    PROVE  ProcInv'
<1> USE ProcConstants DEF ProcInv
<1>1. state[p] = "RUNNING"
  BY Running DEF sleep_sleep, At
<1>2. Types'
  BY DEF Types, States, Points, Goto, sleep_sleep, Switch
<1>3. CpuInv'
  BY <1>1 DEF Types, CpuInv, OneCPU, sleep_sleep, Switch
<1>4. LockInv'
  BY <1>2 DEF Types, CpuInv, LockInv, WaitLockPoints, TickLockPoints, Goto, At,
           sleep_sleep, Switch
<1>5. ForkInv'
  BY <1>1 DEF ForkInv, ForkPoints, Goto, sleep_sleep, Switch
<1>6. FamilyInv'
  BY <1>1 DEF FamilyInv, ParentAlive, Alive, ExitPoints, Childless, Children, Goto,
           sleep_sleep, Switch
<1>7. WakeInv'
  BY DEF Types, WakeInv, Asleep, Zombies, Children, Goto, At, sleep_sleep, Switch
<1> QED
  BY <1>2, <1>3, <1>4, <1>5, <1>6, <1>7

LEMMA ClockintrStep ==
    ASSUME ProcInv, clockintr
    PROVE  ProcInv'
<1> USE ProcConstants DEF ProcInv
<1>2. Types'
  BY DEF Types, States, clockintr
<1>3. CpuInv'
  BY DEF Types, CpuInv, OneCPU, clockintr, Dozing
<1>4. LockInv'
  BY DEF LockInv, clockintr, Dozing
<1>5. ForkInv'
  BY DEF Types, ForkInv, clockintr, Dozing
<1>6. FamilyInv'
  BY DEF Types, FamilyInv, ParentAlive, Alive, Children, clockintr, Dozing
<1>0. /\ \A p \in Procs : Zombies(p)' = Zombies(p) /\ (Asleep(p)' => Asleep(p))
      /\ UNCHANGED <<pc, parent>>
  BY DEF clockintr, Dozing, Zombies, Children, Asleep
<1>7. WakeInv'
  BY <1>0 DEF Types, WakeInv, LockInv, WaitLockPoints, FamilyInv, ParentAlive,
           ExitPoints
<1> QED
  BY <1>2, <1>3, <1>4, <1>5, <1>6, <1>7

LEMMA KillStep ==
    ASSUME ProcInv, NEW p \in Procs, NEW q \in Procs, kill(p, q)
    PROVE  ProcInv'
<1> USE ProcConstants DEF ProcInv
<1>1. state[p] = "RUNNING"
  BY Running DEF kill, InUser, At
<1>2. Types'
  BY DEF Types, States, kill
<1>3. CpuInv'
  BY DEF CpuInv, OneCPU, kill
<1>4. LockInv'
  BY DEF LockInv, kill
<1>5. ForkInv'
  BY DEF ForkInv, kill
<1>6. FamilyInv'
  BY DEF FamilyInv, ParentAlive, Alive, Children, kill
<1>7. WakeInv'
  BY DEF WakeInv, Asleep, Zombies, Children, kill
<1> QED
  BY <1>2, <1>3, <1>4, <1>5, <1>6, <1>7

LEMMA ProcInvInit == Init => ProcInv
<1> SUFFICES ASSUME Init PROVE ProcInv
  OBVIOUS
<1> USE ProcConstants DEF Init
<1>1. Types
  BY DEF Types, States, Points
<1>2. CpuInv /\ LockInv /\ ForkInv
  BY DEF CpuInv, OneCPU, LockInv, WaitLockPoints, TickLockPoints, ForkInv, ForkPoints
<1>3. FamilyInv /\ WakeInv
  BY DEF FamilyInv, ParentAlive, Alive, ExitPoints, Childless, WakeInv, Asleep
<1> QED
  BY <1>1, <1>2, <1>3 DEF ProcInv

LEMMA ProcInvStep == ProcInv /\ [Next]_vars => ProcInv'
<1> SUFFICES ASSUME ProcInv, [Next]_vars PROVE ProcInv'
  OBVIOUS
<1>1. CASE UNCHANGED vars
  BY <1>1 DEF vars, ProcInv, Types, CpuInv, OneCPU, LockInv, ForkInv, FamilyInv,
           ParentAlive, WakeInv, Asleep, Zombies, Children
<1>2. CASE \E c \in CPUs, p \in Procs : dispatch(c, p)
  BY <1>2, DispatchStep
<1>3. CASE \E c \in CPUs : leave(c)
  BY <1>3, LeaveStep
<1>4. CASE clockintr
  BY <1>4, ClockintrStep
<1>5. ASSUME NEW p \in Procs, Kernel(p) PROVE ProcInv'
  BY <1>5, ForkLinkStep, ForkRunStep, ExitParentStep, ExitLockStep, ExitUnlockStep,
     ExitReparentStep, ExitWakeinitStep, ExitWakeStep, ExitZombieStep, WaitReapStep,
     WaitBadaddrStep, WaitCheckStep, WaitSleepStep, SleepCheckStep, SleepSleepStep
  DEF Kernel
<1>6. ASSUME NEW p \in Procs,
             \/ yield(p) \/ exit_begin(p) \/ wait_begin(p) \/ sleep_begin(p)
             \/ \E q \in Procs : fork_alloc(p, q) \/ fork_nomem(p, q) \/ kill(p, q)
      PROVE  ProcInv'
  BY <1>6, YieldStep, ExitBeginStep, WaitBeginStep, SleepBeginStep, ForkAllocStep,
     ForkNomemStep, KillStep
<1> QED
  BY <1>1, <1>2, <1>3, <1>4, <1>5, <1>6 DEF Next

THEOREM ProcInvariant == Spec => []ProcInv
<1> QED
  BY ProcInvInit, ProcInvStep, PTL DEF Spec
-------------------------------------------------------------------------------
(* The types, and the state that says RUNNING exactly for the processes    *)
(* that a CPU runs.                                                        *)
THEOREM ProcTypes == Spec => []TypeOK
<1>1. ProcInv => TypeOK
  BY Running DEF ProcInv, Types, TypeOK, CpuInv
<1> QED
  BY <1>1, ProcInvariant, PTL

(* sched and scheduler: no two CPUs are on one kernel stack, although a    *)
(* process may be RUNNABLE before it has left its own.                     *)
THEOREM StacksNotShared == Spec => []OneCPU
<1>1. ProcInv => OneCPU
  BY DEF ProcInv, CpuInv
<1> QED
  BY <1>1, ProcInvariant, PTL

(* wait: a slot that is given back has no CPU on its stack.                *)
THEOREM StacksNotFreed == Spec => []NoFreedStack
<1>1. ProcInv => NoFreedStack
  BY DEF ProcInv, CpuInv, NoFreedStack
<1> QED
  BY <1>1, ProcInvariant, PTL

(* wait_lock, tickslock and the locks of the table are held by threads     *)
(* that run: nobody sleeps, is preempted or ends with one of them.         *)
THEOREM LocksHeldRunning == Spec => []HoldersOnCPU
<1>1. ProcInv => HoldersOnCPU
  BY Running DEF ProcInv, Types, CpuInv, LockInv, HoldersOnCPU
<1> QED
  BY <1>1, ProcInvariant, PTL

(* exit and reparent: no process is left without a parent that can wait    *)
(* for it.                                                                 *)
THEOREM ParentsAreAlive == Spec => []ParentAlive
<1>1. ProcInv => ParentAlive
  BY DEF ProcInv, FamilyInv
<1> QED
  BY <1>1, ProcInvariant, PTL

(* exit, wait and sleep: no parent sleeps next to a zombie, whichever way  *)
(* the exit falls between the scan and the sleep.                          *)
THEOREM NoExitIsLost == Spec => []NoLostExit
<1>1. ProcInv => NoLostExit
  BY ProcConstants DEF ProcInv, LockInv, WaitLockPoints, WakeInv, Asleep, NoLostExit
<1> QED
  BY <1>1, ProcInvariant, PTL

(* All of these at once, as the run of the schedulers checks them.         *)
THEOREM StacksAndFamilies == Spec => []OneStack
<1>1. OneCPU /\ NoFreedStack /\ HoldersOnCPU /\ ParentAlive /\ NoLostExit => OneStack
  BY DEF OneStack
<1> QED
  BY <1>1, StacksNotShared, StacksNotFreed, LocksHeldRunning, ParentsAreAlive, NoExitIsLost, PTL
===============================================================================
