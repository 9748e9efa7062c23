----------------------------- MODULE MCPerProcess -----------------------------
(***************************************************************************)
(* One TLC run for the parts that keep fields of their own in struct proc  *)
(* and share no state: the call counts (Syscount), the alarms (Alarm, the  *)
(* module extended), the times (Ptime), the memory (Memory), what is       *)
(* copied in and out of it (Copy, of which copied holds the arguments),    *)
(* and the levels of MLFQ (Mlfq, with slots that are reused).  subject     *)
(* says which of them the behaviour is about; the variables of the others  *)
(* keep their first value.                                                 *)
(***************************************************************************)
EXTENDS Alarm, TLC, Sequences

CONSTANTS sh, a, b, c, cpu

VARIABLES
    subject,
    counted, parent, lock, pc, reg, calls,                                   \* Syscount
    state, ctime, etime, rtime, cur, ticks, todo, trap, intrs,               \* Ptime
    freelist, slot, trapframe, sz, pt, op, panicked,                         \* Memory
    copied,                                                                  \* Copy
    queue, length, mstate, prio, mticks, slice, mnow, mcur, kpc, mpc, arg, overflow \* Mlfq

(* init, a shell, its two children and a grandchild, two calls each. *)
Counts == INSTANCE Syscount WITH
    Procs <- {init, sh, a, b, c},
    Parent0 <- sh :> init @@ a :> sh @@ b :> sh @@ c :> a,
    MaxCalls <- 2, ParentsWait <- TRUE, count <- counted

(* Handlers of Alarm call sigreturn only; these set the alarm and fork. *)
Nested == INSTANCE Alarm WITH HandlerCalls <- {"sigalarm", "fork"}, Intervals <- {0, 1}

(* Three slots, one CPU, three ticks; with MLFQ, usertrap charges too. *)
Times == INSTANCE Ptime WITH
    NPROC <- 3, CPUs <- {cpu}, cpu0 <- cpu, Mlfq <- FALSE, MaxTicks <- 3
TimesMlfq == INSTANCE Ptime WITH
    NPROC <- 2, CPUs <- {cpu}, cpu0 <- cpu, Mlfq <- TRUE, MaxTicks <- 3

(* A process has at least 7 of the 16 pages, so that two fit, and a call   *)
(* beside them fails after any number of pages.  The second program has a  *)
(* segment without size; its uvmalloc() is asked to shrink.                *)
Segment(at, size) == [vaddr |-> at, memsz |-> size]
Pages == INSTANCE Memory WITH
    Slots <- {init, a, b}, NPAGES <- 16, PGSIZE <- 2, FAN <- 4, UINT <- 256,
    Programs <- {<<Segment(0, 1)>>, <<Segment(2, 1), Segment(0, 0)>>},
    Increments <- {3, -2, -9}, free <- freelist, state <- slot

(* Three pages of two bytes, below and above which addresses wrap. *)
Copies == INSTANCE Copy WITH PGSIZE <- 2, MAXVA <- 6, WIDTH <- 8, WORD <- 2
PageTables == {table \in [0 .. 2 -> {"user", "guard", "none"}] :
                 table[0] # "guard" /\ table[2] # "guard"}

(* Two processes that compute and exit, and slots that are reused. *)
Reused == INSTANCE Mlfq WITH
    Procs <- {init, a}, CPUs <- {cpu}, cpu0 <- cpu, BOOST <- 12,
    ProcsExit <- TRUE, ProcsSleep <- FALSE, KernelTicks <- FALSE,
    slot <- queue, size <- length, state <- mstate, ticks <- mnow, cur <- mcur, pc <- mpc

ASSUME PerProcessConstants ==
    /\ Counts!SyscountConstants
    /\ Times!PtimeConstants /\ TimesMlfq!PtimeConstants /\ Pages!MemoryConstants
    /\ Copies!CopyConstants /\ Reused!MlfqConstants

counts == <<counted, parent, lock, pc, reg, calls>>
alarms == vars
times == <<state, ctime, etime, rtime, cur, ticks, todo, trap, intrs>>
memory == <<freelist, slot, trapframe, sz, pt, op, panicked>>
mlfq == <<queue, length, mstate, prio, mticks, slice, mnow, mcur, kpc, mpc, arg, overflow>>
all == <<subject, counts, alarms, times, memory, copied, mlfq>>

PartsInit ==
    /\ subject \in {"counts", "alarms", "nested", "times", "times_mlfq", "memory", "copy", "mlfq"}
    /\ Counts!Init /\ Init /\ Pages!Init /\ Reused!Init
    /\ IF subject = "times_mlfq" THEN TimesMlfq!Init ELSE Times!Init
    /\ \/ subject # "copy" /\ copied = <<>>
       \/ /\ subject = "copy"
          /\ \E bytes \in [0 .. 5 -> {0, 1}], va \in 0 .. 7, len \in 0 .. 5 :
               copied \in {<<table, bytes, va, len>> : table \in PageTables}

PartsNext ==
    /\ UNCHANGED <<subject, copied>>
    /\ \/ subject = "counts" /\ Counts!Next /\ UNCHANGED <<alarms, times, memory, mlfq>>
       \/ subject = "alarms" /\ Next /\ UNCHANGED <<counts, times, memory, mlfq>>
       \/ subject = "nested" /\ Nested!Next /\ UNCHANGED <<counts, times, memory, mlfq>>
       \/ subject = "times" /\ Times!Next /\ UNCHANGED <<counts, alarms, memory, mlfq>>
       \/ subject = "times_mlfq" /\ TimesMlfq!Next /\ UNCHANGED <<counts, alarms, memory, mlfq>>
       \/ subject = "memory" /\ Pages!Next /\ UNCHANGED <<counts, alarms, times, mlfq>>
       \/ subject = "mlfq" /\ Reused!Next /\ UNCHANGED <<counts, alarms, times, memory>>

PartsSpec == PartsInit /\ [][PartsNext]_all

(* Fairness of Alarm and of Mlfq; the others promise no progress, and init *)
(* sets no alarm.                                                          *)
PartsFairness ==
    /\ \A p \in {a, b} :
         /\ WF_alarms(subject \in {"alarms", "nested"} /\ timer(p))
         /\ WF_alarms(subject \in {"alarms", "nested"} /\ timer_killed(p))
         /\ WF_alarms(subject \in {"alarms", "nested"} /\ In(p, "handler") /\ sigreturn(p))
    /\ WF_mlfq(subject = "mlfq" /\ ~overflow /\ Reused!Kernel(cpu))
    /\ WF_mlfq(subject = "mlfq" /\ ~overflow /\ Reused!dispatch(cpu))
    /\ WF_mlfq(subject = "mlfq" /\ ~overflow /\ (Reused!timer_user(cpu) \/ Reused!timer_kernel(cpu)))
PartsFairSpec == PartsSpec /\ PartsFairness
-------------------------------------------------------------------------------
(* The types of the variables; the account of the pages of memory; of      *)
(* handlers that call sigreturn only, that no alarm interrupts them and    *)
(* they return; of the queues, that they lose no process.                  *)
StateOK ==
    /\ Counts!TypeOK /\ TypeOK
    /\ IF subject = "times_mlfq" THEN TimesMlfq!TypeOK ELSE Times!TypeOK
    /\ Pages!PagesKept
    /\ subject # "nested" => NoReentry /\ MainNotLost
    /\ Reused!NotLost
NoCallLost == Counts!NoCallLost

(* System calls copy the bytes that they should, or say that they cannot. *)
CopiedRight ==
    subject = "copy" => Copies!CopiedRight(copied[1], copied[2], copied[3], copied[4])

WaitTimeFits == subject = "times" => Times!WaitTimeFits

(* As long as no array has overflowed, a process that can run will. *)
NotStarved == subject = "mlfq" => Reused!NoStarvation
===============================================================================
