----------------------------- MODULE MCSchedulers -----------------------------
(***************************************************************************)
(* The schedulers the kernel can be built with, with the default one,      *)
(* round robin, the life of processes (Proc), and the locks of them all.   *)
(* built says which, and on what machine:                                  *)
(*   spinlocks    two CPUs, two locks that handlers take too               *)
(*   round_robin  two CPUs, init and two slots                             *)
(*   sleepers     MLFQ, one CPU, three processes that compute and sleep    *)
(*   descending   MLFQ, one CPU, two of these, which reach the last queue  *)
(*   interrupted  MLFQ, one CPU, two processes interrupted in the kernel   *)
(*   lottery      LBS, one CPU, three slots                                *)
(*   lottery_smp  LBS, two CPUs, two slots                                 *)
(* No MLFQ process exits here, so that no slot is reused.                  *)
(***************************************************************************)
EXTENDS Spinlock, TLC

CONSTANTS init, a, b, c, c1, c2

VARIABLES
    built,
    pstate, chan, killed, parent, plock, wlock, tlock, cpu, leaving, ppc, local, panicked, \* Proc
    queue, size, mstate, prio, mticks, slice, mnow, mcur, kpc, mpc, arg, overflow,  \* Mlfq
    state, tickets, ctime, ticks, cur, at, slot,                                    \* Lbs
    total, winner, counter, earliest, selected, ready, wild

RoundRobin == INSTANCE Proc WITH
    Procs <- {init, a, b}, CPUs <- {c1, c2}, KillTargets <- {a, b}, KillsPidZero <- FALSE,
    state <- pstate, pc <- ppc

Sleepers == INSTANCE Mlfq WITH
    Procs <- {init, a, b}, CPUs <- {c1}, cpu0 <- c1, BOOST <- 2,
    ProcsExit <- FALSE, ProcsSleep <- TRUE, KernelTicks <- FALSE,
    slot <- queue, state <- mstate, ticks <- mnow, cur <- mcur, pc <- mpc
Descending == INSTANCE Mlfq WITH
    Procs <- {init, c}, CPUs <- {c1}, cpu0 <- c1, BOOST <- 12,
    ProcsExit <- FALSE, ProcsSleep <- TRUE, KernelTicks <- FALSE,
    slot <- queue, state <- mstate, ticks <- mnow, cur <- mcur, pc <- mpc
Interrupted == INSTANCE Mlfq WITH
    Procs <- {init, c}, CPUs <- {c1}, cpu0 <- c1, BOOST <- 2,
    ProcsExit <- FALSE, ProcsSleep <- FALSE, KernelTicks <- TRUE,
    slot <- queue, state <- mstate, ticks <- mnow, cur <- mcur, pc <- mpc

Lottery == INSTANCE Lbs WITH
    NPROC <- 3, CPUs <- {c1}, Tickets <- {0, 1, 2}, MaxTicks <- 2, Busy <- FALSE
LotterySmp == INSTANCE Lbs WITH
    NPROC <- 2, CPUs <- {c1, c2}, Tickets <- {1}, MaxTicks <- 1, Busy <- FALSE

ASSUME SchedulerInstances ==
    /\ Sleepers!MlfqConstants /\ Descending!MlfqConstants /\ Interrupted!MlfqConstants
    /\ Lottery!LbsConstants /\ LotterySmp!LbsConstants

mlfq == <<queue, size, mstate, prio, mticks, slice, mnow, mcur, kpc, mpc, arg, overflow>>
lbs == <<state, tickets, ctime, ticks, cur, at, slot,
         total, winner, counter, earliest, selected, ready, wild>>
proc == <<pstate, chan, killed, parent, plock, wlock, tlock, cpu, leaving, ppc, local, panicked>>
spinlocks == vars
all == <<built, spinlocks, proc, mlfq, lbs>>

BuiltInit ==
    /\ built \in {"spinlocks", "round_robin", "sleepers", "descending",
                  "interrupted", "lottery", "lottery_smp"}
    /\ Init /\ RoundRobin!Init
    /\ IF built = "interrupted" THEN Interrupted!Init
       ELSE IF built = "descending" THEN Descending!Init ELSE Sleepers!Init
    /\ IF built = "lottery_smp" THEN LotterySmp!Init ELSE Lottery!Init

BuiltNext ==
    /\ UNCHANGED built
    /\ \/ built = "spinlocks" /\ Next /\ UNCHANGED <<proc, mlfq, lbs>>
       \/ built = "round_robin" /\ RoundRobin!Next /\ UNCHANGED <<spinlocks, mlfq, lbs>>
       \/ built = "sleepers" /\ Sleepers!Next /\ UNCHANGED <<spinlocks, proc, lbs>>
       \/ built = "descending" /\ Descending!Next /\ UNCHANGED <<spinlocks, proc, lbs>>
       \/ built = "interrupted" /\ Interrupted!Next /\ UNCHANGED <<spinlocks, proc, lbs>>
       \/ built = "lottery" /\ Lottery!Next /\ UNCHANGED <<spinlocks, proc, mlfq>>
       \/ built = "lottery_smp" /\ LotterySmp!Next /\ UNCHANGED <<spinlocks, proc, mlfq>>

BuiltSpec == BuiltInit /\ [][BuiltNext]_all

(* The slots a and b of Mlfq and Proc are alike. *)
Slots == Permutations({a, b})
-------------------------------------------------------------------------------
(* Every process that does not exit is queued once, and the best goes      *)
(* first.                                                                  *)
QueuesOrdered ==
    /\ [](CASE built = "interrupted" -> Interrupted!QueuedOnce
           [] built = "sleepers" -> Sleepers!QueuedOnce
           [] built = "descending" -> Descending!QueuedOnce
           [] OTHER -> TRUE)
    /\ [][CASE built = "interrupted" -> Interrupted!GoesFirst
           [] built = "sleepers" -> Sleepers!GoesFirst
           [] built = "descending" -> Descending!GoesFirst
           [] OTHER -> TRUE]_all

(* A draw has a winner, the earliest of those with as many tickets.        *)
(* Another CPU may take the picked process away, or reuse its slot: these  *)
(* are promises of the lottery on a single CPU.                            *)
DrawDecides ==
    /\ [](built = "lottery" => Lottery!SomebodyWins)
    /\ [][built = "lottery" => Lottery!StartsEarliest]_all

(* No process runs on two CPUs, whoever starts it, and no stack is freed   *)
(* while a CPU is on it; who has a spinlock does not leave its CPU.  And   *)
(* nobody is left without a parent, nor does a parent sleep beside a       *)
(* zombie, whichever CPUs they are on.                                     *)
OneStack ==
    /\ RoundRobin!OneStack
    /\ built = "lottery_smp" => LotterySmp!OneCPU
===============================================================================
