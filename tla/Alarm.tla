--------------------------------- MODULE Alarm --------------------------------
(***************************************************************************)
(* sigalarm() and sigreturn() (kernel/sysproc.c), the delivery of an alarm *)
(* by usertrap() (kernel/trap.c), and the page that keeps the interrupted  *)
(* context, p->alarm_trapframe, until sigreturn, sigalarm or the end of    *)
(* the process gives it back.                                              *)
(*                                                                         *)
(* A process runs a main program and one handler.  Its user context, which *)
(* the traps copy to p->trapframe and back, is where it executes, the      *)
(* registers and a0.  The registers of the main program are one of two     *)
(* values, and its work changes them; own[p] is what they ought to be (own *)
(* is not in the code).  The handler is an address, which exec() does not  *)
(* forget although it means something else in the new image.               *)
(*                                                                         *)
(* Operators with a suffix (_Overwrites...) are faulty variants of the     *)
(* operator that follows; no specification uses them.                      *)
(***************************************************************************)
EXTENDS Integers, FiniteSets

CONSTANTS
    Procs, init,
    Intervals,     \* arguments of sigalarm
    NPages,        \* pages that kalloc has
    HandlerCalls,  \* what the handler calls besides sigreturn
    ArmedExec,     \* whether programs call exec with the alarm on
    None

MainRegs == {"x", "y"}
Contexts == [at : {"main", "handler", "lost"}, regs : MainRegs \cup {"handler"},
             a0 : {"own", "return", "handler"}]

AlarmConstants ==
    /\ IsFiniteSet(Procs) /\ init \in Procs /\ None \notin Procs \cup Contexts
    /\ Intervals \subseteq Int /\ NPages \in Nat
    /\ HandlerCalls \subseteq {"sigalarm", "fork", "exec"} /\ ArmedExec \in BOOLEAN
ASSUME AlarmAssumption == AlarmConstants

VARIABLES
    st,       \* unused, user or zombie
    killed,
    interval, on, count,  \* alarm_interval, alarm_on, ticks_count
    handler,  \* alarm_handler: none, the handler, or an address of an old image
    saved,    \* *p->alarm_trapframe, None for a null pointer
    ctx,      \* the user context
    own,
    free      \* number of free pages

vars == <<st, killed, interval, on, count, handler, saved, ctx, own, free>>
alarm == <<interval, on, count, handler>>

Changed(r) == IF r = "x" THEN "y" ELSE "x"
Start == [at |-> "main", regs |-> "x", a0 |-> "own"]

Init ==
    /\ st = [p \in Procs |-> IF p = init THEN "user" ELSE "unused"]
    /\ killed = [p \in Procs |-> FALSE]
    /\ interval = [p \in Procs |-> 0]
    /\ on = [p \in Procs |-> FALSE]
    /\ count = [p \in Procs |-> 0]
    /\ handler = [p \in Procs |-> "none"]
    /\ saved = [p \in Procs |-> None]
    /\ ctx = [p \in Procs |-> Start]
    /\ own = [p \in Procs |-> "x"]
    /\ free = NPages

In(p, where) == st[p] = "user" /\ ctx[p].at = where
-------------------------------------------------------------------------------
(* The program: main computes, the handler overwrites the registers. *)
work(p) ==
    /\ In(p, "main")
    /\ own' = [own EXCEPT ![p] = Changed(@)]
    /\ ctx' = [ctx EXCEPT ![p].regs = own'[p], ![p].a0 = "own"]
    /\ UNCHANGED <<st, killed, alarm, saved, free>>

handle(p) ==
    /\ In(p, "handler")
    /\ ctx' = [ctx EXCEPT ![p].regs = "handler", ![p].a0 = "handler"]
    /\ UNCHANGED <<st, killed, alarm, saved, own, free>>
-------------------------------------------------------------------------------
(* System calls; a killed process exits instead, see die.  init runs       *)
(* user/init.c, which sets no alarm.                                       *)
MayCall(p, name) ==
    /\ ~killed[p]
    /\ \/ In(p, "main")
       \/ In(p, "handler") /\ name \in HandlerCalls \cup {"sigreturn"}

(* kfree(p->alarm_trapframe), if there is one. *)
FreeSaved(p) ==
    /\ saved' = [saved EXCEPT ![p] = None]
    /\ free' = IF saved[p] # None THEN free + 1 ELSE free

sigalarm(p, n) ==
    /\ MayCall(p, "sigalarm") /\ p # init
    /\ interval' = [interval EXCEPT ![p] = n]
    /\ on' = [on EXCEPT ![p] = n > 0]
    /\ count' = [count EXCEPT ![p] = 0]
    /\ handler' = [handler EXCEPT ![p] = "handler"]
    /\ FreeSaved(p)
    /\ UNCHANGED <<st, killed, ctx, own>>

(* syscall() stores the return value in a0, whatever sigreturn did to it.  *)
(* The main program may call it too.  Without a saved context the call     *)
(* fails and the caller goes on behind it: main with the result in a0,     *)
(* the handler to wherever ra points, since nobody called it.              *)
Restored(p) == [saved[p] EXCEPT !.a0 = "return"]
Failed(p) == IF ctx[p].at = "main" THEN ctx[p]
             ELSE [ctx[p] EXCEPT !.at = "lost", !.a0 = "return"]

sigreturn_KeepsFrame(p) ==
    /\ MayCall(p, "sigreturn")
    /\ ctx' = [ctx EXCEPT ![p] = IF saved[p] # None THEN Restored(p) ELSE Failed(p)]
    /\ UNCHANGED <<st, killed, alarm, saved, own, free>>
sigreturn_EpcOnly(p) ==
    /\ MayCall(p, "sigreturn")
    /\ ctx' = [ctx EXCEPT ![p] = IF saved[p] # None
                                 THEN [@ EXCEPT !.at = "main", !.a0 = "return"] ELSE Failed(p)]
    /\ FreeSaved(p)
    /\ UNCHANGED <<st, killed, alarm, own>>
sigreturn(p) ==
    /\ MayCall(p, "sigreturn")
    /\ ctx' = [ctx EXCEPT ![p] = IF saved[p] # None THEN Restored(p) ELSE Failed(p)]
    /\ FreeSaved(p)
    /\ UNCHANGED <<st, killed, alarm, own>>

(* fork: allocproc clears the alarm of the child, and its context is a     *)
(* copy of the parent's.                                                   *)
fork(p, c) ==
    /\ MayCall(p, "fork") /\ st[c] = "unused"
    /\ st' = [st EXCEPT ![c] = "user"]
    /\ killed' = [killed EXCEPT ![c] = FALSE]
    /\ interval' = [interval EXCEPT ![c] = 0]
    /\ on' = [on EXCEPT ![c] = FALSE]
    /\ count' = [count EXCEPT ![c] = 0]
    /\ handler' = [handler EXCEPT ![c] = "none"]
    /\ saved' = [saved EXCEPT ![c] = None]
    /\ ctx' = [ctx EXCEPT ![c] = ctx[p]]
    /\ own' = [own EXCEPT ![c] = own[p]]
    /\ UNCHANGED free

(* exec: the image and its registers are new; the alarm is the old one,    *)
(* and so is the saved context of a handler that calls exec.               *)
exec(p) ==
    /\ MayCall(p, "exec") /\ p # init /\ (on[p] => ArmedExec)
    /\ ctx' = [ctx EXCEPT ![p] = Start]
    /\ own' = [own EXCEPT ![p] = Start.regs]
    /\ handler' = [handler EXCEPT ![p] = IF @ = "none" THEN @ ELSE "lost"]
    /\ UNCHANGED <<st, killed, interval, on, count, saved, free>>

(* exit(), by the program, or by a trap of a killed process. *)
die(p) ==
    /\ st[p] = "user" /\ p # init
    /\ st' = [st EXCEPT ![p] = "zombie"]
    /\ UNCHANGED <<killed, alarm, saved, ctx, own, free>>

(* wait() of the parent calls freeproc(). *)
freeproc(p) ==
    /\ st[p] = "zombie"
    /\ st' = [st EXCEPT ![p] = "unused"]
    /\ killed' = [killed EXCEPT ![p] = FALSE]
    /\ FreeSaved(p)
    /\ UNCHANGED <<alarm, ctx, own>>
-------------------------------------------------------------------------------
(* usertrap for a timer interrupt.  The handler is entered by changing epc *)
(* alone.  When kalloc fails the process is marked killed behind the test  *)
(* of killed, and so lives until its next trap.                            *)
timer(p) ==
    /\ st[p] = "user" /\ ~killed[p]
    /\ LET armed == on[p] /\ interval[p] > 0
           due == armed /\ count[p] + 1 >= interval[p]
           deliver == due /\ saved[p] = None IN
       /\ count' = [count EXCEPT ![p] = IF due THEN 0 ELSE IF armed THEN @ + 1 ELSE @]
       /\ \/ deliver /\ free > 0
             /\ saved' = [saved EXCEPT ![p] = ctx[p]]
             /\ ctx' = [ctx EXCEPT ![p].at = handler[p]]
             /\ free' = free - 1
             /\ UNCHANGED killed
          \/ deliver /\ free = 0
             /\ killed' = [killed EXCEPT ![p] = TRUE]
             /\ UNCHANGED <<saved, ctx, free>>
          \/ ~deliver /\ UNCHANGED <<killed, saved, ctx, free>>
    /\ UNCHANGED <<st, interval, on, handler, own>>

(* Any trap of a killed process, system call or interrupt. *)
timer_killed(p) == killed[p] /\ die(p)

Next ==
    \E p \in Procs :
        \/ work(p) \/ handle(p) \/ sigreturn(p) \/ exec(p) \/ die(p) \/ freeproc(p) \/ timer(p)
        \/ \E n \in Intervals : sigalarm(p, n)
        \/ \E c \in Procs : fork(p, c)

Spec == Init /\ [][Next]_vars

(* Timer interrupts keep coming, and a handler returns in the end. *)
Fairness == \A p \in Procs :
    /\ WF_vars(timer(p)) /\ WF_vars(timer_killed(p))
    /\ WF_vars(In(p, "handler") /\ sigreturn(p))
FairSpec == Spec /\ Fairness
-------------------------------------------------------------------------------
Held == {p \in Procs : saved[p] # None}

(* Types, and the pages: each is free or holds one saved context. *)
TypeOK ==
    /\ st \in [Procs -> {"unused", "user", "zombie"}]
    /\ killed \in [Procs -> BOOLEAN]
    /\ interval \in [Procs -> Intervals \cup {0}]
    /\ on \in [Procs -> BOOLEAN]
    /\ count \in [Procs -> Nat]
    /\ handler \in [Procs -> {"none", "handler", "lost"}]
    /\ ctx \in [Procs -> Contexts]
    /\ \A p \in Held : saved[p] \in Contexts
    /\ own \in [Procs -> MainRegs]
    /\ free + Cardinality(Held) = NPages

(* alarmtest.c:71-74: when the handler returns, the main program goes on   *)
(* "with all registers holding the same values they held when the          *)
(* interrupt occurred", a0 (see A0Kept) set aside.                         *)
Resumed == \A p \in Procs : In(p, "main") => ctx[p].regs = own[p]

(* alarmtest.c:113 "tests that kernel does not allow reentrant alarm       *)
(* calls": what is saved is always the main program.                       *)
NoReentry ==
    \A p \in Held : st[p] = "user" => saved[p].at = "main" /\ ctx[p].at = "handler"

(* alarmtest.c:168-169: a handler may "immediately uninstall itself and    *)
(* finish signal handling", and the main program goes on.                  *)
MainNotLost == \A p \in Procs : ~In(p, "lost")

(* alarmtest.c:177: "the return from sys_sigreturn() does not modify the   *)
(* a0 register".                                                           *)
A0Kept == \A p \in Procs : In(p, "main") => ctx[p].a0 = "own"

(* README.md:160: "when the specified interval elapses, the kernel invokes *)
(* the handler", time and again, unless the process keeps setting it anew  *)
(* or ends.                                                                *)
SetAnew(p) == \E n \in Intervals : sigalarm(p, n)

AlarmComes ==
    \A p \in Procs \ {init} :
        \/ []<><<SetAnew(p)>>_vars
        \/ on[p] ~> In(p, "handler") \/ ~on[p] \/ st[p] # "user"
===============================================================================
