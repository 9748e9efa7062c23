------------------------------ MODULE PartsProofs ------------------------------
(***************************************************************************)
(* Proofs about what the kernel keeps of each process, and the schedulers  *)
(* that depend on it: alarms (Alarm, the module extended), the queues of   *)
(* the MLFQ scheduler (Mlfq), the lottery scheduler (Lbs) and the times of *)
(* processes (Ptime).  The four do not depend on one another.  Each        *)
(* theorem is about one of them, for all values of its constants that its  *)
(* ...Constants admits; what two name alike is declared once.              *)
(***************************************************************************)
EXTENDS Alarm, FiniteSetsExt, TLAPS, FiniteSetTheorems, WellFoundedInduction, SequenceTheorems

CONSTANTS CPUs, cpu0, BOOST, ProcsExit, ProcsSleep, KernelTicks
VARIABLES slot, size, state, prio, mticks, slice, ticks, cur, kpc, pc, arg, overflow
Feedback == INSTANCE Mlfq

CONSTANTS NSLOTS, Tickets, MaxTicks, Busy, Mlfq
VARIABLES
    tickets, ctime, at, total, winner, counter, earliest, selected, ready, wild,
    etime, rtime, todo, trap, intrs
Lottery == INSTANCE Lbs WITH NPROC <- NSLOTS
Times == INSTANCE Ptime WITH NPROC <- NSLOTS
-------------------------------------------------------------------------------
(* Alarms.                                                                 *)

Users == {p \in Procs : st[p] = "user"}

(* The types, saved as a function; and TypeOK's account of the pages.      *)
AlarmTypes ==
    /\ st \in [Procs -> {"unused", "user", "zombie"}]
    /\ killed \in [Procs -> BOOLEAN]
    /\ interval \in [Procs -> Intervals \cup {0}]
    /\ on \in [Procs -> BOOLEAN]
    /\ count \in [Procs -> Nat]
    /\ handler \in [Procs -> {"none", "handler", "lost"}]
    /\ saved \in [Procs -> Contexts \cup {None}]
    /\ ctx \in [Procs -> Contexts]
    /\ own \in [Procs -> MainRegs]
    /\ free \in Nat
PagesInv == free + Cardinality(Held) = NPages

(* A slot that is not in use holds no page, and whoever has an alarm on    *)
(* has said what its handler is.                                           *)
SlotInv == \A p \in Procs :
    /\ st[p] = "unused" => saved[p] = None
    /\ on[p] => handler[p] # "none"

AlarmInv == AlarmTypes /\ PagesInv /\ SlotInv

(* Without a handler that calls exec: the main program runs only when no   *)
(* context is saved, and what sigreturn will restore is right as well.     *)
SavedInv == \A p \in Procs :
    /\ In(p, "main") => saved[p] = None
    /\ In(p, "handler") /\ saved[p] # None /\ saved[p].at = "main" => saved[p].regs = own[p]
MainInv == Resumed /\ SavedInv

(* The main program of p is saved and its handler runs; it is where it was *)
(* when that began; p ends.                                                *)
Interrupted(p) == In(p, "handler") /\ saved[p] # None /\ saved[p].at = "main"
Back(p) == In(p, "main") /\ ctx[p].regs = own[p]
Ends(p) == st'[p] # "user"
ComesBack == \A p \in Procs :
    Interrupted(p) => Interrupted(p)' \/ Back(p)' \/ SetAnew(p) \/ Ends(p)

(* A handler may be entered only from main.  If it does not set the alarm  *)
(* anew, and no image runs with the alarm of another one, then: the alarm  *)
(* calls the handler of the image; what is saved is the main program, of a *)
(* process whose alarm is on; and whoever is elsewhere without a saved     *)
(* context, as the child of a handler is, has no alarm to save another.    *)
Tame == "sigalarm" \notin HandlerCalls /\ ~ArmedExec
TameInv == \A p \in Users :
    /\ on[p] => handler[p] = "handler"
    /\ saved[p] # None => on[p] /\ saved[p].at = "main" /\ ctx[p].at = "handler"
    /\ saved[p] = None => ctx[p].at = "main" \/ ~on[p]
-------------------------------------------------------------------------------
(* The instance's finite sets are those that the library's theorems are of. *)
LEMMA SameSets ==
    /\ \A S : IsFiniteSet(S) <=> IsFiniteSet(S)
    /\ \A S : Cardinality(S) = Cardinality(S)
BY DEF IsFiniteSet, Cardinality, IsFiniteSet, Cardinality

(* Two lemmas on Held: a context saved takes one more, one given back one  *)
(* less.                                                                   *)
LEMMA HeldOneMore ==
    ASSUME AlarmConstants, AlarmTypes, PagesInv, NEW p \in Procs, saved[p] = None,
           NEW x \in Contexts, saved' = [saved EXCEPT ![p] = x]
    PROVE  Cardinality(Held') = Cardinality(Held) + 1
<1>1. IsFiniteSet(Held) BY FS_Subset, SameSets DEF Held, AlarmConstants
<1>2. Held' = Held \cup {p}
  BY DEF Held, AlarmTypes, AlarmConstants
<1>3. p \notin Held BY DEF Held
<1>. QED BY <1>1, <1>2, <1>3, FS_AddElement

LEMMA HeldOneLess ==
    ASSUME AlarmConstants, AlarmTypes, PagesInv, NEW p \in Procs, FreeSaved(p)
    PROVE  PagesInv' /\ free' \in Nat
<1>1. IsFiniteSet(Held) BY FS_Subset, SameSets DEF Held, AlarmConstants
<1>2. Held' = Held \ {p} BY DEF Held, AlarmTypes, FreeSaved
<1>3. p \in Held <=> saved[p] # None BY DEF Held
<1>4. Cardinality(Held) \in Nat BY <1>1, FS_CardinalityType
<1>5. CASE p \in Held
  <2>1. Cardinality(Held') = Cardinality(Held) - 1 /\ free' = free + 1
    BY <1>1, <1>2, <1>3, <1>5, FS_RemoveElement DEF FreeSaved
  <2>. QED BY <1>4, <2>1 DEF PagesInv, AlarmTypes
<1>6. CASE p \notin Held
  <2>1. Held' = Held /\ free' = free BY <1>2, <1>3, <1>6 DEF FreeSaved
  <2>. QED BY <2>1 DEF PagesInv, AlarmTypes
<1>. QED BY <1>5, <1>6

LEMMA InitInv ==
    ASSUME AlarmConstants
    PROVE  Init => AlarmInv
<1>. SUFFICES ASSUME Init PROVE AlarmInv
  OBVIOUS
<1>1. AlarmTypes
  BY DEF Init, AlarmConstants, AlarmTypes, Contexts, Start,
         MainRegs
<1>2. Held = {} BY DEF Init, Held
<1>3. PagesInv BY <1>2, FS_EmptySet DEF PagesInv, Init, AlarmConstants
<1>4. SlotInv BY DEF Init, SlotInv
<1>. QED BY <1>1, <1>3, <1>4 DEF AlarmInv

LEMMA StepInv ==
    ASSUME AlarmConstants
    PROVE  AlarmInv /\ [Next]_vars => AlarmInv'
<1>. SUFFICES ASSUME AlarmInv, [Next]_vars PROVE AlarmInv'
  OBVIOUS
<1>0. AlarmTypes /\ PagesInv /\ SlotInv BY DEF AlarmInv
<1>1. ASSUME NEW p \in Procs, work(p) PROVE AlarmInv'
  <2>1. AlarmTypes'
    <3>1. Changed(own[p]) \in MainRegs BY DEF Changed, MainRegs
    <3>2. [ctx[p] EXCEPT !.regs = Changed(own[p]), !.a0 = "own"] \in Contexts
      BY ZenonT(40), <1>0, <3>1 DEF AlarmTypes, Contexts
    <3>3. own' \in [Procs -> MainRegs] /\ own'[p] = Changed(own[p])
      BY <1>0, <1>1, <3>1 DEF work, AlarmTypes
    <3>4. ctx' = [ctx EXCEPT ![p] = [ctx[p] EXCEPT !.regs = Changed(own[p]), !.a0 = "own"]]
      BY <1>1, <3>3 DEF work
    <3>. QED BY <1>0, <1>1, <3>2, <3>3, <3>4 DEF AlarmTypes, work, alarm
  <2>2. PagesInv'
    BY <1>0, <1>1 DEF PagesInv, Held, work
  <2>3. SlotInv'
    BY <1>0, <1>1 DEF SlotInv, work, alarm
  <2>. QED BY <2>1, <2>2, <2>3 DEF AlarmInv
<1>2. ASSUME NEW p \in Procs, handle(p) PROVE AlarmInv'
  <2>1. AlarmTypes'
    BY ZenonT(40), <1>0, <1>2 DEF AlarmTypes, Contexts, handle, In,
             alarm
  <2>2. PagesInv'
    BY <1>0, <1>2 DEF PagesInv, Held, handle, In, alarm
  <2>3. SlotInv'
    BY <1>0, <1>2 DEF SlotInv, handle, alarm
  <2>. QED BY <2>1, <2>2, <2>3 DEF AlarmInv
<1>3. ASSUME NEW p \in Procs, sigreturn(p) PROVE AlarmInv'
  <2>1. AlarmTypes'
    <3>1. Failed(p) \in Contexts
      BY ZenonT(40), <1>0 DEF AlarmTypes, Contexts, Failed
    <3>2. saved[p] # None => Restored(p) \in Contexts
      BY <1>0 DEF AlarmTypes, Contexts, Restored
    <3>. QED
      BY <1>0, <1>3, <3>1, <3>2 DEF AlarmTypes, sigreturn, alarm,
               FreeSaved
  <2>2. PagesInv' BY <1>0, <1>3, HeldOneLess DEF sigreturn
  <2>3. SlotInv'
    BY <1>0, <1>3 DEF SlotInv, sigreturn, alarm, FreeSaved
  <2>. QED BY <2>1, <2>2, <2>3 DEF AlarmInv
<1>4. ASSUME NEW p \in Procs, exec(p) PROVE AlarmInv'
  <2>1. AlarmTypes'
    BY <1>0, <1>4 DEF AlarmTypes, Contexts, exec, Start,
             MainRegs
  <2>2. PagesInv'
    BY <1>0, <1>4 DEF PagesInv, Held, exec
  <2>3. SlotInv'
    BY <1>0, <1>4 DEF SlotInv, exec
  <2>. QED BY <2>1, <2>2, <2>3 DEF AlarmInv
<1>5. ASSUME NEW p \in Procs, die(p) PROVE AlarmInv'
  <2>1. AlarmTypes'
    BY <1>0, <1>5 DEF AlarmTypes, Contexts, die, alarm, In
  <2>2. PagesInv'
    BY <1>0, <1>5 DEF PagesInv, Held, die, alarm, In
  <2>3. SlotInv'
    BY <1>0, <1>5 DEF SlotInv, die, alarm
  <2>. QED BY <2>1, <2>2, <2>3 DEF AlarmInv
<1>6. ASSUME NEW p \in Procs, freeproc(p) PROVE AlarmInv'
  <2>1. AlarmTypes'
    BY <1>0, <1>6 DEF AlarmTypes, freeproc, FreeSaved, alarm
  <2>2. PagesInv' BY <1>0, <1>6, HeldOneLess DEF freeproc
  <2>3. SlotInv'
    BY <1>0, <1>6 DEF AlarmTypes, SlotInv, freeproc, FreeSaved,
             alarm
  <2>. QED BY <2>1, <2>2, <2>3 DEF AlarmInv
<1>7. ASSUME NEW p \in Procs, timer(p) PROVE AlarmInv'
  <2>1. AlarmTypes'
    <3>1. on[p] => [ctx[p] EXCEPT !.at = handler[p]] \in Contexts
      BY <1>0 DEF AlarmTypes, Contexts, SlotInv
    <3>2. count' \in [Procs -> Nat] BY <1>0, <1>7 DEF AlarmTypes, timer
    <3>3. CASE UNCHANGED <<killed, saved, ctx, free>>
      BY <1>0, <1>7, <3>3 DEF AlarmTypes, timer
    <3>4. CASE killed' = [killed EXCEPT ![p] = TRUE] /\ UNCHANGED <<saved, ctx, free>>
      BY <1>0, <1>7, <3>4 DEF AlarmTypes, timer
    <3>5. CASE /\ on[p] /\ free > 0
               /\ saved' = [saved EXCEPT ![p] = ctx[p]]
               /\ ctx' = [ctx EXCEPT ![p].at = handler[p]]
               /\ free' = free - 1
               /\ UNCHANGED killed
      BY <1>0, <1>7, <3>1, <3>5 DEF AlarmTypes, timer
    <3>. QED BY <1>7, <3>3, <3>4, <3>5 DEF timer
  <2>2. PagesInv'
    <3>1. CASE UNCHANGED <<saved, free>> BY <1>0, <3>1 DEF PagesInv, Held
    <3>2. CASE saved[p] = None /\ saved' = [saved EXCEPT ![p] = ctx[p]] /\ free' = free - 1
      <4>1. Cardinality(Held') = Cardinality(Held) + 1
        BY <1>0, <3>2, HeldOneMore DEF AlarmTypes
      <4>2. Cardinality(Held) \in Nat
        BY FS_Subset, FS_CardinalityType, SameSets DEF Held,
                 AlarmConstants
      <4>. QED BY <1>0, <3>2, <4>1, <4>2 DEF PagesInv, AlarmTypes
    <3>. QED BY <1>7, <3>1, <3>2 DEF timer
  <2>3. SlotInv'
    BY <1>0, <1>7 DEF AlarmTypes, SlotInv, timer
  <2>. QED BY <2>1, <2>2, <2>3 DEF AlarmInv
<1>8. ASSUME NEW p \in Procs, NEW n \in Intervals, sigalarm(p, n) PROVE AlarmInv'
  <2>1. AlarmTypes'
    BY <1>0, <1>8 DEF AlarmTypes, sigalarm, FreeSaved
  <2>2. PagesInv' BY <1>0, <1>8, HeldOneLess DEF sigalarm
  <2>3. SlotInv'
    BY <1>0, <1>8 DEF AlarmTypes, SlotInv, sigalarm, FreeSaved
  <2>. QED BY <2>1, <2>2, <2>3 DEF AlarmInv
<1>9. ASSUME NEW p \in Procs, NEW c \in Procs, fork(p, c) PROVE AlarmInv'
  <2>1. AlarmTypes'
    BY <1>0, <1>9 DEF AlarmTypes, fork
  <2>2. PagesInv'
    <3>1. Held' = Held
      BY <1>0, <1>9 DEF Held, AlarmTypes, SlotInv, fork
    <3>. QED BY <1>0, <1>9, <3>1 DEF PagesInv, fork
  <2>3. SlotInv'
    BY <1>0, <1>9 DEF AlarmTypes, SlotInv, fork
  <2>. QED BY <2>1, <2>2, <2>3 DEF AlarmInv
<1>10. CASE UNCHANGED vars
  <2>1. AlarmTypes' BY <1>0, <1>10 DEF AlarmTypes, vars
  <2>2. PagesInv' BY <1>0, <1>10 DEF PagesInv, Held, vars
  <2>3. SlotInv' BY <1>0, <1>10 DEF SlotInv, vars
  <2>. QED BY <2>1, <2>2, <2>3 DEF AlarmInv
<1>. QED BY <1>1, <1>2, <1>3, <1>4, <1>5, <1>6, <1>7, <1>8, <1>9, <1>10 DEF Next

(* What the kernel and the program keep of a process and its alarm.        *)
THEOREM AlarmInvariant == Spec => []AlarmInv
<1>. AlarmConstants BY AlarmAssumption
<1>1. Init => AlarmInv BY InitInv
<1>2. AlarmInv /\ [Next]_vars => AlarmInv' BY StepInv
<1>. QED BY <1>1, <1>2, PTL DEF Spec

(* The types of the variables, and each page is free or holds a context    *)
(* that freeproc, sigreturn or sigalarm will give back (kernel/proc.c,     *)
(* kernel/sysproc.c).                                                      *)
THEOREM PagesAccounted == Spec => []TypeOK
<1>. AlarmConstants BY AlarmAssumption
<1>1. AlarmInv => TypeOK
  BY SameSets DEF AlarmInv, AlarmTypes, PagesInv, TypeOK, Held
<1>. QED BY <1>1, AlarmInvariant, PTL

-------------------------------------------------------------------------------
LEMMA MainInit ==
    ASSUME AlarmConstants
    PROVE  Init => MainInv
BY DEF Init, MainInv, Resumed, SavedInv, Start, In

LEMMA MainStep ==
    ASSUME AlarmConstants, "exec" \notin HandlerCalls
    PROVE  AlarmInv /\ MainInv /\ [Next]_vars => MainInv'
<1>. SUFFICES ASSUME AlarmInv, MainInv, [Next]_vars PROVE MainInv'
  OBVIOUS
<1>0. AlarmTypes /\ SlotInv /\ Resumed /\ SavedInv BY DEF AlarmInv, MainInv
<1>. USE DEF MainInv, Resumed, SavedInv, In
<1>1. ASSUME NEW p \in Procs, work(p) PROVE MainInv'
  BY <1>0, <1>1 DEF AlarmTypes, work
<1>2. ASSUME NEW p \in Procs, handle(p) PROVE MainInv'
  BY <1>0, <1>2 DEF AlarmTypes, handle
<1>3. ASSUME NEW p \in Procs, sigreturn(p) PROVE MainInv'
  <2>1. /\ ctx' = [ctx EXCEPT ![p] = IF saved[p] # None THEN Restored(p) ELSE Failed(p)]
        /\ saved' = [saved EXCEPT ![p] = None]
        /\ UNCHANGED <<st, own>>
        /\ In(p, "main") \/ In(p, "handler")
    BY <1>3 DEF sigreturn, FreeSaved, MayCall
  <2>2. ctx'[p].at = "main" => ctx'[p].regs = own[p]
    <3>1. CASE saved[p] = None
      BY <1>0, <2>1, <3>1 DEF AlarmTypes, Failed
    <3>2. CASE saved[p] # None
      BY <1>0, <2>1, <3>2 DEF AlarmTypes, Contexts, Restored
    <3>. QED BY <3>1, <3>2
  <2>3. \A q \in Procs : q # p => ctx'[q] = ctx[q] /\ saved'[q] = saved[q]
    BY <1>0, <2>1 DEF AlarmTypes
  <2>4. saved'[p] = None BY <1>0, <2>1 DEF AlarmTypes
  <2>. QED BY <1>0, <2>1, <2>2, <2>3, <2>4
<1>4. ASSUME NEW p \in Procs, exec(p) PROVE MainInv'
  BY <1>0, <1>4 DEF AlarmTypes, exec, MayCall, Start
<1>5. ASSUME NEW p \in Procs, die(p) PROVE MainInv'
  BY <1>0, <1>5 DEF AlarmTypes, die
<1>6. ASSUME NEW p \in Procs, freeproc(p) PROVE MainInv'
  BY <1>0, <1>6 DEF AlarmTypes, freeproc, FreeSaved
<1>7. ASSUME NEW p \in Procs, timer(p) PROVE MainInv'
  <2>1. UNCHANGED <<st, own>> BY <1>7 DEF timer
  <2>2. CASE UNCHANGED <<saved, ctx>> BY <1>0, <2>1, <2>2
  <2>3. CASE /\ on[p] /\ saved[p] = None
             /\ saved' = [saved EXCEPT ![p] = ctx[p]]
             /\ ctx' = [ctx EXCEPT ![p].at = handler[p]]
    <3>1. handler[p] \in {"handler", "lost"} BY <1>0, <2>3 DEF AlarmTypes, SlotInv
    <3>2. ctx'[p].at = handler[p] /\ saved'[p] = ctx[p]
      BY <1>0, <2>3 DEF AlarmTypes, Contexts
    <3>3. \A q \in Procs : q # p => ctx'[q] = ctx[q] /\ saved'[q] = saved[q]
      BY <1>0, <2>3 DEF AlarmTypes
    <3>4. st[p] = "user" BY <1>7 DEF timer
    <3>. QED BY <1>0, <2>1, <3>1, <3>2, <3>3, <3>4
  <2>. QED BY <1>7, <2>2, <2>3 DEF timer
<1>8. ASSUME NEW p \in Procs, NEW n \in Intervals, sigalarm(p, n) PROVE MainInv'
  BY <1>0, <1>8 DEF AlarmTypes, sigalarm, FreeSaved
<1>9. ASSUME NEW p \in Procs, NEW c \in Procs, fork(p, c) PROVE MainInv'
  BY <1>0, <1>9 DEF AlarmTypes, fork, MayCall
<1>10. CASE UNCHANGED vars BY <1>0, <1>10 DEF vars
<1>. QED BY <1>1, <1>2, <1>3, <1>4, <1>5, <1>6, <1>7, <1>8, <1>9, <1>10 DEF Next

(* A handler that neither calls sigalarm nor ends stays in the handler,    *)
(* with the main program saved, until its sigreturn.                       *)
LEMMA ComesBackStep ==
    ASSUME AlarmConstants, "exec" \notin HandlerCalls
    PROVE  AlarmInv /\ MainInv /\ MainInv' /\ [Next]_vars => ComesBack
<1>. SUFFICES ASSUME AlarmInv, MainInv, MainInv', [Next]_vars, NEW q \in Procs, Interrupted(q),
                     ~SetAnew(q), ~Ends(q)
              PROVE  Interrupted(q)' \/ In(q, "main")'
  BY DEF ComesBack, Back, MainInv, Resumed
<1>0. AlarmTypes /\ SlotInv BY DEF AlarmInv
<1>. USE DEF Interrupted, Ends, In
<1>1. ASSUME NEW p \in Procs, work(p) PROVE Interrupted(q)'
  BY <1>0, <1>1 DEF AlarmTypes, work
<1>2. ASSUME NEW p \in Procs, handle(p) PROVE Interrupted(q)'
  BY <1>0, <1>2 DEF AlarmTypes, Contexts, handle
<1>3. ASSUME NEW p \in Procs, sigreturn(p) PROVE Interrupted(q)' \/ In(q, "main")'
  <2>1. CASE p = q
    <3>1. ctx'[q] = [saved[q] EXCEPT !.a0 = "return"]
      BY <1>0, <1>3, <2>1 DEF AlarmTypes, sigreturn, Restored
    <3>. QED BY <1>0, <1>3, <3>1 DEF AlarmTypes, Contexts, sigreturn
  <2>2. CASE p # q
    BY <1>0, <1>3, <2>2 DEF AlarmTypes, sigreturn, FreeSaved
  <2>. QED BY <2>1, <2>2
<1>4. ASSUME NEW p \in Procs, exec(p) PROVE Interrupted(q)'
  BY <1>0, <1>4 DEF AlarmTypes, exec, MayCall
<1>5. ASSUME NEW p \in Procs, die(p) PROVE Interrupted(q)'
  BY <1>0, <1>5 DEF AlarmTypes, die
<1>6. ASSUME NEW p \in Procs, freeproc(p) PROVE Interrupted(q)'
  BY <1>0, <1>6 DEF AlarmTypes, freeproc, FreeSaved
<1>7. ASSUME NEW p \in Procs, timer(p) PROVE Interrupted(q)'
  BY <1>0, <1>7 DEF AlarmTypes, Contexts, timer
<1>8. ASSUME NEW p \in Procs, NEW n \in Intervals, sigalarm(p, n) PROVE Interrupted(q)'
  BY <1>0, <1>8 DEF AlarmTypes, sigalarm, FreeSaved, SetAnew
<1>9. ASSUME NEW p \in Procs, NEW c \in Procs, fork(p, c) PROVE Interrupted(q)'
  BY <1>0, <1>9 DEF AlarmTypes, fork
<1>10. CASE UNCHANGED vars BY <1>10 DEF vars
<1>. QED BY <1>1, <1>2, <1>3, <1>4, <1>5, <1>6, <1>7, <1>8, <1>9, <1>10 DEF Next

(* If no handler calls exec, whatever handlers (sigalarm, fork, nested     *)
(* alarms) and main programs (sigreturn) call besides, the main program    *)
(* runs with the registers it had when it was interrupted (sys_sigreturn,  *)
(* kernel/sysproc.c:170).  With exec the context of the old image stays    *)
(* saved, and a sigreturn of the new one loads it.                         *)
THEOREM MainResumes == "exec" \notin HandlerCalls => (Spec => []Resumed)
<1>. AlarmConstants BY AlarmAssumption
<1>. SUFFICES ASSUME "exec" \notin HandlerCalls PROVE Spec => []Resumed OBVIOUS
<1>1. MainInv => Resumed BY DEF MainInv
<1>2. AlarmInv /\ MainInv /\ [Next]_vars => MainInv' BY MainStep
<1>. QED BY <1>1, <1>2, AlarmInvariant, MainInit, PTL DEF Spec

(* Of the same programs: a main program that an alarm has interrupted      *)
(* comes back where it was, unless its handler calls sigalarm (which gives *)
(* the saved context back, kernel/sysproc.c:162) or the process ends; no   *)
(* other call of the handler, alarm, or process takes its context away.    *)
THEOREM MainComesBack == "exec" \notin HandlerCalls => (Spec => [][ComesBack]_vars)
<1>. AlarmConstants BY AlarmAssumption
<1>. SUFFICES ASSUME "exec" \notin HandlerCalls PROVE Spec => [][ComesBack]_vars OBVIOUS
<1>1. AlarmInv /\ MainInv /\ [Next]_vars => MainInv' BY MainStep
<1>2. AlarmInv /\ MainInv /\ MainInv' /\ [Next]_vars => ComesBack BY ComesBackStep
<1>. QED BY <1>1, <1>2, AlarmInvariant, MainInit, PTL DEF Spec
-------------------------------------------------------------------------------
LEMMA InitTame ==
    ASSUME AlarmConstants
    PROVE  Init => TameInv
BY DEF Init, TameInv, Users

LEMMA StepTame ==
    ASSUME AlarmConstants
    PROVE  Tame /\ AlarmInv /\ TameInv /\ [Next]_vars => TameInv'
<1>. SUFFICES ASSUME Tame, AlarmInv, TameInv, [Next]_vars PROVE TameInv'
  OBVIOUS
<1>0. AlarmTypes /\ SlotInv BY DEF AlarmInv
<1>1. ASSUME NEW p \in Procs, work(p) PROVE TameInv'
  BY <1>0, <1>1 DEF TameInv, Users, AlarmTypes, work, alarm
<1>2. ASSUME NEW p \in Procs, handle(p) PROVE TameInv'
  BY <1>0, <1>2 DEF TameInv, Users, AlarmTypes, handle, alarm
<1>3. ASSUME NEW p \in Procs, sigreturn(p) PROVE TameInv'
  BY <1>0, <1>3 DEF TameInv, Users, AlarmTypes, sigreturn, MayCall, Restored, Failed, In,
           alarm, FreeSaved
<1>4. ASSUME NEW p \in Procs, exec(p) PROVE TameInv'
  BY <1>4 DEF Tame, TameInv, Users, exec
<1>5. ASSUME NEW p \in Procs, die(p) PROVE TameInv'
  BY <1>5 DEF TameInv, Users, die, alarm
<1>6. ASSUME NEW p \in Procs, freeproc(p) PROVE TameInv'
  BY <1>6 DEF TameInv, Users, freeproc, FreeSaved, alarm
<1>7. ASSUME NEW p \in Procs, timer(p) PROVE TameInv'
  BY <1>0, <1>7 DEF Tame, TameInv, Users, AlarmTypes, Contexts,
           AlarmConstants, SlotInv,
           timer, In
<1>8. ASSUME NEW p \in Procs, NEW n \in Intervals, sigalarm(p, n) PROVE TameInv'
  BY <1>0, <1>8 DEF Tame, TameInv, Users, AlarmTypes, sigalarm, MayCall,
           In, FreeSaved
<1>9. ASSUME NEW p \in Procs, NEW c \in Procs, fork(p, c) PROVE TameInv'
  BY <1>0, <1>9 DEF TameInv, Users, AlarmTypes, fork
<1>10. CASE UNCHANGED vars BY <1>10 DEF TameInv, Users, vars
<1>. QED BY <1>1, <1>2, <1>3, <1>4, <1>5, <1>6, <1>7, <1>8, <1>9, <1>10 DEF Next

(* alarmtest.c's third test: where handlers do not call sigalarm, and exec *)
(* is not called with an alarm on, no handler is interrupted by another    *)
(* alarm, even if handlers fork and the children go on in them.            *)
THEOREM HandlersNotReentered ==
    Tame => (Spec => []NoReentry)
<1>. AlarmConstants BY AlarmAssumption
<1>. SUFFICES ASSUME Tame PROVE Spec => []NoReentry
  OBVIOUS
<1>1. TameInv => NoReentry BY DEF TameInv, NoReentry, Held, Users
<1>2. Init => TameInv BY InitTame
<1>3. AlarmInv /\ TameInv /\ [Next]_vars => TameInv' BY StepTame
<1>. QED BY <1>1, <1>2, <1>3, AlarmInvariant, PTL DEF Spec
-------------------------------------------------------------------------------
(* The queues of the MLFQ scheduler.                                       *)

QueueTypes ==
    /\ slot \in [Feedback!Queues -> [1 .. Feedback!NPROC -> Procs \cup {None}]]
    /\ size \in [Feedback!Queues -> 0 .. Feedback!NPROC]
    /\ state \in [Procs -> {"UNUSED", "USED", "RUNNABLE", "RUNNING", "SLEEPING"}]
    /\ prio \in [Procs -> Feedback!Queues]
    /\ cur \in [CPUs -> Procs \cup {None}]
    /\ pc \in [CPUs -> Feedback!Points]
    /\ arg \in [CPUs -> [idx : Nat, proc : Procs \cup {None}, queue : Feedback!Queues, next : 0 .. 5]]

Filled == \A q \in Feedback!Queues, i \in 1 .. Feedback!NPROC :
    i <= size[q] => slot[q][i] \in Procs

Placed(p) == \E q \in Feedback!Queues, i \in 1 .. Feedback!NPROC :
    i <= size[q] /\ slot[q][i] = p

(* A process that lives is in a queue, or between the two halves of        *)
(* enqueue.  (It may be in several: exit leaves its slot in the queues.)   *)
Storing == pc[cpu0] = "store"
Kept == \A p \in Feedback!Live : Placed(p) \/ (Storing /\ p = arg[cpu0].proc)

AtWork ==
    /\ cur[cpu0] # None => state[cur[cpu0]] = "RUNNING"
    /\ Storing => arg[cpu0].idx = size[arg[cpu0].queue] /\ arg[cpu0].proc \in Procs

KeptInv == QueueTypes /\ Filled /\ Kept /\ AtWork

(* No slot is in the queues twice, and none that is being stored is there. *)
Once ==
    \A q, r \in Feedback!Queues, i, j \in 1 .. Feedback!NPROC :
        i <= size[q] /\ j <= size[r] /\ slot[q][i] = slot[r][j] => q = r /\ i = j
Placing ==
    /\ \A p \in Feedback!Live : ~Placed(p) => Storing /\ p = arg[cpu0].proc
    /\ Storing => arg[cpu0].proc \in Feedback!Live /\ ~Placed(arg[cpu0].proc)

(* A process whose level has changed is still in its old queue until       *)
(* yield takes it out.                                                     *)
Changing(p) == pc[cpu0] = "scan" /\ arg[cpu0].next = 0 /\ p = cur[cpu0]
Levels ==
    \A q \in Feedback!Queues, i \in 1 .. Feedback!NPROC :
        i <= size[q] => prio[slot[q][i]] = q \/ Changing(slot[q][i])

(* What the CPU is doing.                                                  *)
Doing ==
    /\ cur[cpu0] = None <=> pc[cpu0] = "idle"
    /\ \A p \in Procs : state[p] = "RUNNING" <=> p = cur[cpu0]
    /\ \A p \in Procs : state[p] = "USED" =>
        Storing /\ arg[cpu0].next = 4 /\ p = arg[cpu0].proc
    /\ pc[cpu0] = "scan" => arg[cpu0].next # 4
    /\ Storing =>
         /\ arg[cpu0].idx = size[arg[cpu0].queue]
         /\ arg[cpu0].queue = prio[arg[cpu0].proc]
         /\ arg[cpu0].next # 0
         /\ arg[cpu0].next = 4 => state[arg[cpu0].proc] = "USED"
         /\ arg[cpu0].next # 4 => arg[cpu0].proc = cur[cpu0]

QueueInv == QueueTypes /\ Filled /\ Once /\ Placing /\ Levels /\ Doing /\ ~overflow

(* A slot that allocproc takes is in no queue.                             *)
Taken(p) == state[p] = "UNUSED" /\ state'[p] = "USED"
TakenUnqueued == \A p \in Procs : Taken(p) => ~Placed(p)

OneCPU == CPUs = {cpu0}
-------------------------------------------------------------------------------
(* A finite set of numbers has a least one, which First finds.             *)
LEMMA FirstIsLeast ==
    ASSUME NEW S, IsFiniteSet(S), S \subseteq Int, S # {}
    PROVE  Feedback!First(S) \in S /\ \A y \in S : Feedback!First(S) <= y
<1>. DEFINE Below(x) == {y \in S : y < x}
            T == {Below(x) : x \in S}
            R == StrictSubsetOrdering(S)
<1>1. IsWellFoundedOn(R, SUBSET S)
  BY FS_StrictSubsetOrderingWellFounded, FS_FiniteSubsetsOfFinite
<1>2. T \subseteq SUBSET S /\ T # {} OBVIOUS
<1>3. \E x \in T : \A y \in T : ~ (<<y, x>> \in R)
  <2>. HIDE DEF R, T
  <2>. QED BY <1>1, <1>2, WFMin
<1>4. PICK x \in S : \A y \in S : <<Below(y), Below(x)>> \notin R BY <1>3
<1>5. ASSUME NEW y \in S, y < x PROVE FALSE
  <2>1. ASSUME NEW z \in Below(y) PROVE z \in Below(x)
    <3>1. z \in Int /\ y \in Int /\ x \in Int OBVIOUS
    <3>2. z < y OBVIOUS
    <3>. QED BY <3>1, <3>2, <1>5
  <2>2. y \in Below(x) /\ y \notin Below(y) BY <1>5
  <2>3. <<Below(y), Below(x)>> \in R BY <2>1, <2>2 DEF StrictSubsetOrdering
  <2>. QED BY <1>4, <2>3
<1>6. \A y \in S : x <= y BY <1>5
<1>. QED BY <1>6 DEF Feedback!First

(* FiniteSets as Mlfq sees it is FiniteSets.                                *)
LEMMA SameSizes ==
    ASSUME NEW S
    PROVE  /\ Feedback!Cardinality(S) = Cardinality(S)
           /\ Feedback!IsFiniteSet(S) <=> IsFiniteSet(S)
<1>1. Feedback!Cardinality(S) = Cardinality(S) BY DEF Feedback!Cardinality, Cardinality
<1>2. Feedback!IsFiniteSet(S) <=> IsFiniteSet(S)
  BY DEF Feedback!IsFiniteSet, IsFiniteSet
<1>. QED BY <1>1, <1>2

LEMMA Sizes ==
    ASSUME Feedback!MlfqConstants
    PROVE  Feedback!NPROC = Cardinality(Procs) /\ Feedback!NPROC \in Nat \ {0} /\ IsFiniteSet(Procs)
BY FS_CardinalityType, FS_EmptySet, SameSizes DEF Feedback!MlfqConstants, Feedback!NPROC

(* What is in a queue is a process in some place.                          *)
LEMMA PlacesFirst ==
    ASSUME Feedback!MlfqConstants, QueueTypes, NEW q \in Feedback!Queues, NEW S, S # {},
           S \subseteq 1 .. size[q]
    PROVE  Feedback!First(S) \in S /\ Feedback!First(S) \in 1 .. size[q] /\ Feedback!First(S) \in 1 .. Feedback!NPROC
<1>1. size[q] \in 0 .. Feedback!NPROC /\ Feedback!NPROC \in Nat BY Sizes DEF QueueTypes
<1>2. IsFiniteSet(1 .. size[q]) BY <1>1, FS_Interval
<1>3. IsFiniteSet(S) BY <1>2, FS_Subset
<1>4. S \subseteq Int OBVIOUS
<1>. DEFINE f == Feedback!First(S)
<1>5. f \in S BY <1>3, <1>4, FirstIsLeast
<1>. HIDE DEF f
<1>6. f \in 1 .. size[q] BY <1>5
<1>7. f \in 1 .. Feedback!NPROC BY <1>1, <1>6
<1>. QED BY <1>5, <1>6, <1>7 DEF f

(* Different processes in a row are at most NPROC.                         *)
LEMMA AtMostNPROC ==
    ASSUME Feedback!MlfqConstants, NEW n \in Nat, NEW f \in [1 .. n -> Procs],
           \A i, j \in 1 .. n : f[i] = f[j] => i = j
    PROVE  n <= Feedback!NPROC
<1>. SUFFICES ASSUME n > Feedback!NPROC PROVE FALSE
  BY Sizes
<1>1. IsFiniteSet(1 .. n) /\ Cardinality(1 .. n) = n BY FS_Interval, Sizes
<1>2. IsFiniteSet(Procs) /\ Cardinality(Procs) < Cardinality(1 .. n)
  BY <1>1, Sizes
<1>. HIDE DEF Feedback!NPROC
<1>3. \E x, y \in 1 .. n : x # y /\ f[x] = f[y] BY <1>1, <1>2, FS_PigeonHole
<1>. QED BY <1>3

-------------------------------------------------------------------------------
(* No process is lost from the queues.                                     *)
LEMMA KeptInit ==
    ASSUME Feedback!MlfqConstants
    PROVE  OneCPU => (Feedback!Init => KeptInv)
<1>. SUFFICES ASSUME OneCPU, Feedback!Init PROVE KeptInv
  OBVIOUS
<1>. USE Sizes DEF Feedback!MlfqConstants
<1>. HIDE DEF Feedback!NPROC
<1>1. QueueTypes
  BY DEF Feedback!Init, QueueTypes, Feedback!Queues, Feedback!Points, Feedback!NoArg
<1>2. Filled BY DEF Feedback!Init, Filled, Feedback!Queues
<1>3. Placed(init) /\ Feedback!Live = {init}
  <2>1. 0 \in Feedback!Queues /\ 1 \in 1 .. Feedback!NPROC /\ 1 <= size[0] /\ slot[0][1] = init
    BY DEF Feedback!Init, Feedback!Queues
  <2>. QED BY <2>1 DEF Feedback!Init, Placed, Feedback!Live
<1>4. pc[cpu0] = "idle" /\ cur[cpu0] = None BY DEF Feedback!Init
<1>. QED BY <1>1, <1>2, <1>3, <1>4 DEF KeptInv, Kept, AtWork, Storing

LEMMA SamePlaces ==
    ASSUME UNCHANGED Feedback!queues
    PROVE  /\ Filled => Filled'
           /\ \A p : Placed(p)' <=> Placed(p)
           /\ overflow' = overflow
BY DEF Feedback!queues, Filled, Placed

(* The scan of the scheduler finds an entry that is a process. *)
LEMMA DispatchFinds ==
    ASSUME Feedback!MlfqConstants, OneCPU, QueueTypes, Filled, Feedback!dispatch(cpu0)
    PROVE  \E q \in Feedback!Queues, p \in Procs :
             /\ p # None /\ state[p] = "RUNNABLE"
             /\ \E i \in 1 .. Feedback!NPROC : i <= size[q] /\ slot[q][i] = p
             /\ \A r \in Feedback!Queues : r < q => Feedback!Runnable(r) = {}
             /\ pc[cpu0] = "idle" /\ pc' = [pc EXCEPT ![cpu0] = "run"]
             /\ cur' = [cur EXCEPT ![cpu0] = p] /\ state' = [state EXCEPT ![p] = "RUNNING"]
             /\ UNCHANGED <<Feedback!queues, Feedback!levels, ticks, kpc, arg>>
<1>. USE DEF OneCPU
<1>1. PICK q \in Feedback!Queues :
        /\ Feedback!Runnable(q) # {} /\ \A r \in Feedback!Queues : r < q =>
            Feedback!Runnable(r) = {}
        /\ cur' = [cur EXCEPT ![cpu0] = slot[q][Feedback!First(Feedback!Runnable(q))]]
        /\ state' = [state EXCEPT ![slot[q][Feedback!First(Feedback!Runnable(q))]] = "RUNNING"]
  BY DEF Feedback!dispatch
<1>. DEFINE i == Feedback!First(Feedback!Runnable(q))
            p == slot[q][i]
<1>2. i \in Feedback!Runnable(q) /\ i \in 1 .. Feedback!NPROC /\ i <= size[q]
  <2>1. Feedback!Runnable(q) \subseteq 1 .. size[q]
    BY DEF Feedback!Runnable, Feedback!Entries
  <2>2. i \in Feedback!Runnable(q) /\ i \in 1 .. size[q] /\ i \in 1 .. Feedback!NPROC
    <3>. HIDE DEF i
    <3>. QED BY <1>1, <2>1, PlacesFirst DEF i
  <2>. HIDE DEF i
  <2>. QED BY <2>2 DEF QueueTypes
<1>3. /\ pc[cpu0] = "idle" /\ pc' = [pc EXCEPT ![cpu0] = "run"]
      /\ cur' = [cur EXCEPT ![cpu0] = p] /\ state' = [state EXCEPT ![p] = "RUNNING"]
      /\ UNCHANGED <<Feedback!queues, Feedback!levels, ticks, kpc, arg>>
  BY <1>1 DEF Feedback!dispatch
<1>. HIDE DEF i
<1>4. p \in Procs /\ p # None /\ state[p] = "RUNNABLE"
  BY <1>2 DEF Filled, Feedback!Runnable, Feedback!Entries
<1>. HIDE DEF p
<1>5. \E j \in 1 .. Feedback!NPROC : j <= size[q] /\ slot[q][j] = p BY <1>2 DEF p
<1>. QED BY <1>1, <1>3, <1>4, <1>5

LEMMA KeptDispatch ==
    ASSUME Feedback!MlfqConstants, OneCPU, KeptInv, Feedback!dispatch(cpu0)
    PROVE  KeptInv'
<1>. USE DEF OneCPU
<1>1. PICK q \in Feedback!Queues, p \in Procs :
        /\ p # None /\ state[p] = "RUNNABLE"
        /\ pc[cpu0] = "idle" /\ pc' = [pc EXCEPT ![cpu0] = "run"]
        /\ cur' = [cur EXCEPT ![cpu0] = p] /\ state' = [state EXCEPT ![p] = "RUNNING"]
        /\ UNCHANGED <<Feedback!queues, Feedback!levels, ticks, kpc, arg>>
  BY DispatchFinds DEF KeptInv
<1>2. QueueTypes'
  BY <1>1 DEF KeptInv, QueueTypes, Feedback!queues, Feedback!levels, Feedback!Points
<1>3. Filled' /\ \A x : Placed(x)' <=> Placed(x) BY <1>1, SamePlaces DEF KeptInv
<1>4. pc'[cpu0] = "run" /\ cur'[cpu0] = p /\ state'[p] = "RUNNING"
  BY <1>1 DEF KeptInv, QueueTypes
<1>5. Feedback!Live' = Feedback!Live BY <1>1 DEF Feedback!Live, KeptInv, QueueTypes
<1>6. Kept' BY <1>1, <1>3, <1>5 DEF KeptInv, Kept, Storing
<1>7. AtWork' BY <1>4 DEF AtWork, Storing
<1>. QED BY <1>2, <1>3, <1>6, <1>7 DEF KeptInv

LEMMA YieldScans ==
    ASSUME Feedback!MlfqConstants, QueueTypes, cpu0 \in CPUs, Feedback!Yield(cpu0)
    PROVE  /\ pc'[cpu0] = "scan" /\ arg'[cpu0].next = 0
           /\ pc' \in [CPUs -> Feedback!Points]
           /\ arg' \in [CPUs -> [idx : Nat, proc : Procs \cup {None}, queue : Feedback!Queues, next : 0 .. 5]]
<1>1. [Feedback!NoArg EXCEPT !.next = 0] = [idx |-> 0, proc |-> None, queue |-> 0, next |-> 0]
  BY DEF Feedback!NoArg
<1>. QED BY <1>1 DEF QueueTypes, Feedback!Yield, Feedback!Points, Feedback!Queues

LEMMA KeptTimer ==
    ASSUME Feedback!MlfqConstants, OneCPU, KeptInv, Feedback!Timer(cpu0)
    PROVE  KeptInv'
<1>. USE DEF OneCPU
<1>. cpu0 \in CPUs OBVIOUS
<1>1. UNCHANGED <<Feedback!queues, state, cur>>
  BY DEF Feedback!Timer, Feedback!timer_user, Feedback!timer_kernel, Feedback!timer_idle,
         Feedback!levels
<1>2. Filled' /\ \A x : Placed(x)' <=> Placed(x) BY <1>1, SamePlaces DEF KeptInv
<1>3. prio' \in [Procs -> Feedback!Queues]
  <2>1. CASE Feedback!timer_user(cpu0)
    <3>. DEFINE p == cur[cpu0]
                level == IF prio[p] < 3 THEN prio[p] + 1 ELSE prio[p]
    <3>1. UNCHANGED prio \/ prio' = [prio EXCEPT ![p] = level] BY <2>1 DEF Feedback!timer_user
    <3>2. p \in Procs => level \in Feedback!Queues
      BY DEF KeptInv, QueueTypes, Feedback!Queues
    <3>. HIDE DEF p, level
    <3>. QED BY <3>1, <3>2 DEF KeptInv, QueueTypes
  <2>2. CASE UNCHANGED prio BY <2>2 DEF KeptInv, QueueTypes
  <2>. QED
    BY <2>1, <2>2 DEF Feedback!Timer, Feedback!timer_kernel, Feedback!timer_idle, Feedback!levels
<1>4. \/ UNCHANGED <<pc, arg>>
      \/ pc[cpu0] = "run" /\ Feedback!Yield(cpu0)
  <2>1. CASE Feedback!timer_user(cpu0)
    <3>1. \/ UNCHANGED <<pc, arg>>
          \/ Feedback!Yield(cpu0)
      BY <2>1 DEF Feedback!timer_user
    <3>2. pc[cpu0] = "run" BY <2>1 DEF Feedback!timer_user, Feedback!InUser
    <3>. QED BY <3>1, <3>2
  <2>2. CASE Feedback!timer_kernel(cpu0)
    BY <2>2 DEF Feedback!timer_kernel, Feedback!InUser
  <2>3. CASE Feedback!timer_idle(cpu0)
    BY <2>3 DEF Feedback!timer_idle, Feedback!queues, Feedback!levels
  <2>. QED BY <2>1, <2>2, <2>3 DEF Feedback!Timer
<1>5. CASE UNCHANGED <<pc, arg>>
  BY <1>1, <1>2, <1>3, <1>5
    DEF KeptInv, QueueTypes, Kept, AtWork, Storing, Feedback!queues, Feedback!Live
<1>6. CASE pc[cpu0] = "run" /\ Feedback!Yield(cpu0)
  <2>1. /\ pc'[cpu0] = "scan" /\ pc' \in [CPUs -> Feedback!Points]
        /\ arg' \in [CPUs -> [idx : Nat, proc : Procs \cup {None}, queue : Feedback!Queues, next : 0 .. 5]]
    BY <1>6, YieldScans DEF KeptInv
  <2>2. QueueTypes' BY <1>1, <1>3, <2>1 DEF KeptInv, QueueTypes, Feedback!queues
  <2>3. Kept' BY <1>1, <1>2, <1>6, <2>1 DEF KeptInv, Kept, Storing, Feedback!Live
  <2>4. AtWork' BY <1>1, <2>1 DEF KeptInv, AtWork, Storing
  <2>. QED BY <1>2, <2>2, <2>3, <2>4 DEF KeptInv
<1>. QED BY <1>4, <1>5, <1>6

(* The running process blocks, ends or goes on behind the others; another  *)
(* one wakes.                                                              *)
LEMMA KeptRelease ==
    ASSUME Feedback!MlfqConstants, OneCPU, KeptInv,
           \/ Feedback!sleep(cpu0) \/ Feedback!exit(cpu0) \/ Feedback!yield_switch(cpu0)
           \/ \E p \in Procs : Feedback!wakeup(p)
    PROVE  KeptInv'
<1>. USE DEF OneCPU
<1>. cpu0 \in CPUs OBVIOUS
<1>1. UNCHANGED <<Feedback!queues, prio>>
  BY DEF Feedback!sleep, Feedback!exit, Feedback!yield_switch, Feedback!wakeup,
         Feedback!Release, Feedback!levels
<1>2. Filled' /\ \A x : Placed(x)' <=> Placed(x) BY <1>1, SamePlaces DEF KeptInv
<1>3. ASSUME NEW s \in {"SLEEPING", "UNUSED", "RUNNABLE"}, pc[cpu0] \in {"run", "scan"},
             state' = [state EXCEPT ![cur[cpu0]] = s],
             cur' = [cur EXCEPT ![cpu0] = None], pc' = [pc EXCEPT ![cpu0] = "idle"],
             arg' \in [CPUs -> [idx : Nat, proc : Procs \cup {None}, queue : Feedback!Queues, next : 0 .. 5]]
      PROVE  KeptInv'
  <2>1. QueueTypes'
    BY <1>1, <1>3 DEF KeptInv, QueueTypes, Feedback!queues, Feedback!Points
  <2>2. pc'[cpu0] = "idle" /\ cur'[cpu0] = None BY <1>3 DEF KeptInv, QueueTypes
  <2>3. Feedback!Live' \subseteq Feedback!Live
    BY <1>3 DEF Feedback!Live, KeptInv, QueueTypes, AtWork, Feedback!MlfqConstants
  <2>4. Kept' BY <1>2, <1>3, <2>3 DEF KeptInv, Kept, Storing
  <2>5. AtWork' BY <2>2 DEF AtWork, Storing
  <2>. QED BY <1>2, <2>1, <2>4, <2>5 DEF KeptInv
<1>4. CASE Feedback!sleep(cpu0) \/ Feedback!exit(cpu0)
  BY <1>3, <1>4 DEF Feedback!sleep, Feedback!exit, Feedback!Release, Feedback!InUser,
           KeptInv, QueueTypes
<1>5. CASE Feedback!yield_switch(cpu0)
  <2>1. Feedback!NoArg \in [idx : Nat, proc : Procs \cup {None}, queue : Feedback!Queues, next : 0 .. 5]
    BY DEF Feedback!NoArg, Feedback!Queues
  <2>. QED BY <1>3, <1>5, <2>1 DEF Feedback!yield_switch, KeptInv, QueueTypes
<1>6. ASSUME NEW p \in Procs, Feedback!wakeup(p) PROVE KeptInv'
  <2>1. /\ state[p] = "SLEEPING" /\ state' = [state EXCEPT ![p] = "RUNNABLE"]
        /\ UNCHANGED <<cur, pc, arg>>
    BY <1>6 DEF Feedback!wakeup
  <2>2. QueueTypes' /\ Feedback!Live' = Feedback!Live
    BY <1>1, <2>1 DEF KeptInv, QueueTypes, Feedback!Live, Feedback!queues
  <2>3. Kept' BY <1>2, <2>1, <2>2 DEF KeptInv, Kept, Storing
  <2>4. AtWork' BY <1>1, <2>1 DEF KeptInv, QueueTypes, AtWork, Storing, Feedback!queues
  <2>. QED BY <1>2, <2>2, <2>3, <2>4 DEF KeptInv
<1>. QED BY <1>4, <1>5, <1>6

LEMMA KeptFork ==
    ASSUME Feedback!MlfqConstants, OneCPU, KeptInv, NEW p \in Procs, Feedback!fork(cpu0, p)
    PROVE  KeptInv'
<1>. USE DEF OneCPU
<1>. cpu0 \in CPUs OBVIOUS
<1>. DEFINE a == [idx |-> size[0], proc |-> p, queue |-> 0, next |-> 4]
<1>1. /\ pc[cpu0] = "run" /\ state[p] = "UNUSED" /\ UNCHANGED <<Feedback!queues, cur>>
      /\ state' = [state EXCEPT ![p] = "USED"] /\ prio' = [prio EXCEPT ![p] = 0]
      /\ pc' = [pc EXCEPT ![cpu0] = "store"] /\ arg' = [arg EXCEPT ![cpu0] = a]
  BY DEF Feedback!fork, Feedback!InUser
<1>2. a \in [idx : Nat, proc : Procs \cup {None}, queue : Feedback!Queues, next : 0 .. 5]
  BY Sizes DEF KeptInv, QueueTypes, Feedback!Queues
<1>3. a.idx = size[0] /\ a.proc = p /\ a.queue = 0 OBVIOUS
<1>. HIDE DEF a
<1>4. pc'[cpu0] = "store" /\ arg'[cpu0] = a BY <1>1 DEF KeptInv, QueueTypes
<1>5. QueueTypes'
  BY <1>1, <1>2 DEF KeptInv, QueueTypes, Feedback!queues, Feedback!Queues, Feedback!Points
<1>6. Feedback!Live' = Feedback!Live \cup {p} BY <1>1 DEF Feedback!Live, KeptInv, QueueTypes
<1>7. Filled' /\ \A x : Placed(x)' <=> Placed(x) BY <1>1, SamePlaces DEF KeptInv
<1>8. Kept' BY <1>1, <1>3, <1>4, <1>6, <1>7 DEF KeptInv, Kept, Storing
<1>9. AtWork'
  BY <1>1, <1>3, <1>4 DEF KeptInv, QueueTypes, AtWork, Storing, Feedback!queues
<1>. QED BY <1>5, <1>7, <1>8, <1>9 DEF KeptInv

(* enqueue, second half. *)
LEMMA KeptStore ==
    ASSUME Feedback!MlfqConstants, OneCPU, KeptInv, Feedback!store(cpu0)
    PROVE  overflow' \/ KeptInv'
<1>. USE DEF OneCPU
<1>. cpu0 \in CPUs OBVIOUS
<1>. SUFFICES ASSUME ~overflow' PROVE KeptInv' OBVIOUS
<1>. DEFINE a == arg[cpu0]
            q == a.queue
            n == a.idx
            p == a.proc
<1>1. pc[cpu0] = "store" /\ n = size[q] /\ p \in Procs
  BY DEF Feedback!store, KeptInv, AtWork, Storing
<1>2. q \in Feedback!Queues BY <1>1 DEF KeptInv, QueueTypes
<1>3. n \in 0 .. Feedback!NPROC - 1 /\ Feedback!NPROC \in Nat
  BY <1>1, <1>2, Sizes DEF Feedback!store, KeptInv, QueueTypes
<1>4. /\ slot' = [slot EXCEPT ![q][n + 1] = p]
      /\ size' = [size EXCEPT ![q] = n + 1]
      /\ UNCHANGED <<prio, cur, arg>>
      /\ state' = [x \in Procs |-> IF state[x] = "USED" /\ x = p THEN "RUNNABLE" ELSE state[x]]
      /\ pc' = [pc EXCEPT ![cpu0] = IF a.next = 4 THEN "run" ELSE "scan"]
  BY <1>3 DEF Feedback!store, Feedback!levels
<1>. HIDE DEF a, q, n, p
<1>5. pc'[cpu0] \in {"run", "scan"} BY <1>4 DEF KeptInv, QueueTypes
<1>6. \A r \in Feedback!Queues, i \in 1 .. Feedback!NPROC :
        slot'[r][i] = IF r = q /\ i = n + 1 THEN p ELSE slot[r][i]
  BY <1>2, <1>3, <1>4 DEF KeptInv, QueueTypes
<1>7. \A r \in Feedback!Queues : size'[r] = IF r = q THEN n + 1 ELSE size[r]
  BY <1>4 DEF KeptInv, QueueTypes
<1>8. QueueTypes'
  <2>1. slot' \in [Feedback!Queues -> [1 .. Feedback!NPROC -> Procs \cup {None}]]
    BY <1>1, <1>2, <1>3, <1>4 DEF KeptInv, QueueTypes
  <2>2. size' \in [Feedback!Queues -> 0 .. Feedback!NPROC]
    BY <1>2, <1>3, <1>4 DEF KeptInv, QueueTypes
  <2>. QED BY <1>4, <2>1, <2>2 DEF KeptInv, QueueTypes, Feedback!Points
<1>9. Feedback!Live' = Feedback!Live BY <1>4 DEF Feedback!Live, KeptInv, QueueTypes
<1>10. \A r \in Feedback!Queues, i \in 1 .. Feedback!NPROC :
         i <= size'[r] <=> i <= size[r] \/ (r = q /\ i = n + 1)
  BY <1>1, <1>3, <1>7 DEF KeptInv, QueueTypes
<1>11. Filled' BY <1>1, <1>6, <1>10 DEF KeptInv, Filled
<1>12. \A x : Placed(x) \/ x = p => Placed(x)'
  <2>1. ASSUME NEW x, Placed(x) PROVE Placed(x)'
    <3>1. PICK r \in Feedback!Queues, i \in 1 .. Feedback!NPROC :
          i <= size[r] /\ slot[r][i] = x
      BY <2>1 DEF Placed
    <3>2. ~(r = q /\ i = n + 1) BY <1>1, <1>3, <3>1
    <3>3. i <= size'[r] /\ slot'[r][i] = x BY <1>6, <1>10, <3>1, <3>2
    <3>. QED BY <3>3 DEF Placed
  <2>2. n + 1 \in 1 .. Feedback!NPROC /\ n + 1 <= size'[q] /\ slot'[q][n + 1] = p
    BY <1>2, <1>3, <1>6, <1>7
  <2>3. ASSUME NEW x, x = p PROVE Placed(x)' BY <1>2, <2>2, <2>3 DEF Placed
  <2>. QED BY <2>1, <2>3
<1>13. Kept' BY <1>9, <1>12 DEF KeptInv, Kept, p, a
<1>14. AtWork' BY <1>4, <1>5 DEF KeptInv, QueueTypes, AtWork, Storing
<1>. QED BY <1>8, <1>11, <1>13, <1>14 DEF KeptInv

(* What is left of a queue from which one entry was shifted out.           *)
LEMMA ShiftedOut ==
    ASSUME Feedback!MlfqConstants, QueueTypes, NEW q \in Feedback!Queues,
           NEW k \in 1 .. Feedback!NPROC, k <= size[q]
    PROVE  /\ Feedback!Shifted(q, k) \in [1 .. Feedback!NPROC -> Procs \cup {None}]
           /\ \A i \in 1 .. Feedback!NPROC : i <= size[q] - 1 =>
                Feedback!Shifted(q, k)[i] = IF i < k THEN slot[q][i] ELSE slot[q][i + 1]
<1>1. size[q] \in 0 .. Feedback!NPROC /\ Feedback!NPROC \in Nat BY Sizes DEF QueueTypes
<1>2. \A i \in 1 .. Feedback!NPROC : i >= k /\ i < size[q] => i + 1 \in 1 .. Feedback!NPROC
  BY <1>1
<1>3. Feedback!Shifted(q, k) \in [1 .. Feedback!NPROC -> Procs \cup {None}]
  BY <1>1, <1>2 DEF Feedback!Shifted, QueueTypes
<1>. QED BY <1>1, <1>3 DEF Feedback!Shifted

(* yield takes the running process out of a queue: it is on its way to     *)
(* another one, and nobody else loses a place.                             *)
LEMMA KeptRemove ==
    ASSUME Feedback!MlfqConstants, OneCPU, KeptInv, Feedback!yield_remove(cpu0)
    PROVE  KeptInv'
<1>. USE DEF OneCPU
<1>. cpu0 \in CPUs OBVIOUS
<1>. DEFINE p == cur[cpu0]
            q == Feedback!First(Feedback!Holding(cpu0))
            k == Feedback!First(Feedback!Positions(q, p))
            to == prio[p]
            size1 == [size EXCEPT ![q] = @ - 1]
            next1 == IF q = 3 THEN 5 ELSE q + 1
            a == [idx |-> size1[to], proc |-> p, queue |-> to, next |-> next1]
<1>1. pc[cpu0] = "scan" /\ Feedback!Holding(cpu0) # {} BY DEF Feedback!yield_remove
<1>2. /\ slot' = [slot EXCEPT ![q] = Feedback!Shifted(q, k)]
      /\ size' = size1
      /\ arg' = [arg EXCEPT ![cpu0] = a]
      /\ pc' = [pc EXCEPT ![cpu0] = "store"]
      /\ UNCHANGED <<overflow, state, prio, cur>>
  BY DEF Feedback!yield_remove, Feedback!levels
<1>4. q \in Feedback!Queues /\ Feedback!Positions(q, p) # {}
  <2>1. \A n \in Int : IsFiniteSet(0 .. n) BY FS_Interval
  <2>2. Feedback!Holding(cpu0) \subseteq Feedback!Queues BY DEF Feedback!Holding
  <2>3. IsFiniteSet(Feedback!Holding(cpu0)) BY <2>1, <2>2, FS_Subset DEF Feedback!Queues
  <2>4. q \in Feedback!Holding(cpu0)
    BY <1>1, <2>2, <2>3, FirstIsLeast DEF Feedback!Queues
  <2>. QED BY <2>4 DEF Feedback!Holding
<1>. HIDE DEF q
<1>5. k \in 1 .. Feedback!NPROC /\ k <= size[q] /\ slot[q][k] = p
  <2>1. Feedback!Positions(q, p) \subseteq 1 .. size[q] BY DEF Feedback!Positions
  <2>. DEFINE S == Feedback!Positions(q, p)
              f == Feedback!First(S)
  <2>2. f \in S /\ f \in 1 .. size[q] /\ f \in 1 .. Feedback!NPROC
    <3>. HIDE DEF S
    <3>. QED BY <1>4, <2>1, PlacesFirst DEF KeptInv, S
  <2>3. slot[q][f] = p BY <2>2 DEF Feedback!Positions
  <2>. HIDE DEF f
  <2>. QED BY <1>4, <2>2, <2>3 DEF f
<1>. HIDE DEF k
<1>3. p \in Procs /\ to \in Feedback!Queues
  <2>1. p \in Procs BY <1>4, <1>5 DEF KeptInv, Filled
  <2>. QED BY <2>1 DEF KeptInv, QueueTypes
<1>6. size[q] \in 1 .. Feedback!NPROC /\ Feedback!NPROC \in Nat
  BY <1>4, <1>5, Sizes DEF KeptInv, QueueTypes
<1>7. /\ size1 \in [Feedback!Queues -> 0 .. Feedback!NPROC]
      /\ \A r \in Feedback!Queues : size1[r] = IF r = q THEN size[q] - 1 ELSE size[r]
  BY <1>4, <1>6 DEF KeptInv, QueueTypes
<1>8. next1 \in {1, 2, 3, 5} BY <1>4 DEF Feedback!Queues
<1>. HIDE DEF next1
<1>9. a \in [idx : Nat, proc : Procs \cup {None}, queue : Feedback!Queues, next : 0 .. 5]
  BY <1>3, <1>7, <1>8, Sizes
<1>10. a.idx = size1[to] /\ a.proc = p /\ a.queue = to OBVIOUS
<1>. HIDE DEF a, size1
<1>11. arg'[cpu0] = a /\ pc'[cpu0] = "store" BY <1>2 DEF KeptInv, QueueTypes
<1>12. /\ Feedback!Shifted(q, k) \in [1 .. Feedback!NPROC -> Procs \cup {None}]
       /\ \A i \in 1 .. Feedback!NPROC : i <= size[q] - 1 =>
            Feedback!Shifted(q, k)[i] = IF i < k THEN slot[q][i] ELSE slot[q][i + 1]
  BY <1>4, <1>5, ShiftedOut DEF KeptInv
<1>13. QueueTypes'
  BY <1>2, <1>4, <1>7, <1>9, <1>12 DEF KeptInv, QueueTypes, Feedback!Points
(* Where an entry was. *)
<1>15. ASSUME NEW r \in Feedback!Queues, NEW i \in 1 .. Feedback!NPROC, i <= size'[r]
       PROVE  \E j \in 1 .. Feedback!NPROC : j <= size[r] /\ slot'[r][i] = slot[r][j]
  <2>1. CASE r # q BY <1>2, <1>7, <1>15, <2>1 DEF KeptInv, QueueTypes
  <2>2. CASE r = q
    <3>1. slot'[r] = Feedback!Shifted(q, k) /\ i <= size[q] - 1
      BY <1>2, <1>4, <1>7, <1>15, <2>2 DEF KeptInv, QueueTypes
    <3>2. slot'[r][i] = IF i < k THEN slot[q][i] ELSE slot[q][i + 1] BY <1>12, <3>1
    <3>3. i + 1 \in 1 .. Feedback!NPROC /\ i + 1 <= size[q] /\ i <= size[q] BY <1>6, <3>1
    <3>. QED BY <2>2, <3>2, <3>3
  <2>. QED BY <2>1, <2>2
(* Where an entry goes. *)
<1>16. ASSUME NEW r \in Feedback!Queues, NEW j \in 1 .. Feedback!NPROC, j <= size[r],
              slot[r][j] # p
       PROVE  \E i \in 1 .. Feedback!NPROC : i <= size'[r] /\ slot'[r][i] = slot[r][j]
  <2>1. CASE r # q BY <1>2, <1>7, <1>16, <2>1 DEF KeptInv, QueueTypes
  <2>2. CASE r = q /\ j < k
    <3>1. j \in 1 .. Feedback!NPROC /\ j <= size'[r] /\ j <= size[q] - 1
      BY <1>2, <1>5, <1>6, <1>7, <1>16, <2>2
    <3>2. slot'[r] = Feedback!Shifted(q, k) BY <1>2, <1>4, <2>2 DEF KeptInv, QueueTypes
    <3>. QED BY <1>12, <2>2, <3>1, <3>2
  <2>3. CASE r = q /\ j > k
    <3>1. j - 1 \in 1 .. Feedback!NPROC /\ j - 1 <= size'[r] /\ j - 1 <= size[q] - 1
      BY <1>2, <1>5, <1>6, <1>7, <1>16, <2>3
    <3>2. slot'[r] = Feedback!Shifted(q, k) BY <1>2, <1>4, <2>3 DEF KeptInv, QueueTypes
    <3>3. ~(j - 1 < k) /\ (j - 1) + 1 = j BY <1>5, <2>3
    <3>4. Feedback!Shifted(q, k)[j - 1] = slot[q][j] BY <1>12, <3>1, <3>3
    <3>. QED BY <2>3, <3>1, <3>2, <3>4
  <2>4. CASE r = q /\ j = k BY <1>5, <1>16, <2>4
  <2>. QED BY <1>5, <2>1, <2>2, <2>3, <2>4
<1>17. Filled' BY <1>15 DEF KeptInv, Filled
<1>18. ASSUME NEW x, Placed(x), x # p PROVE Placed(x)'
  <2>1. PICK r \in Feedback!Queues, j \in 1 .. Feedback!NPROC : j <= size[r] /\ slot[r][j] = x
    BY <1>18 DEF Placed
  <2>2. PICK i \in 1 .. Feedback!NPROC : i <= size'[r] /\ slot'[r][i] = x
    BY <1>16, <1>18, <2>1
  <2>. QED BY <2>2 DEF Placed
<1>19. Feedback!Live' = Feedback!Live BY <1>2 DEF Feedback!Live
<1>20. Kept' BY <1>1, <1>10, <1>11, <1>18, <1>19 DEF KeptInv, Kept, Storing
<1>21. AtWork' BY <1>2, <1>3, <1>10, <1>11 DEF KeptInv, AtWork, Storing
<1>. QED BY <1>13, <1>17, <1>20, <1>21 DEF KeptInv
-------------------------------------------------------------------------------
LEMMA Joined ==
    ASSUME Feedback!MlfqConstants, NEW S, NEW s \in Seq(S), NEW t \in Seq(S)
    PROVE  /\ s \o t \in Seq(S) /\ Len(s \o t) = Len(s) + Len(t)
           /\ \A i \in 1 .. Len(s) : (s \o t)[i] = s[i]
           /\ \A i \in 1 .. Len(t) : (s \o t)[Len(s) + i] = t[i]
BY ConcatProperties

(* Where priority_boost puts the entries of a queue: behind those of the   *)
(* queues above it.                                                        *)
Behind(q) ==
    IF q = 0 THEN 0 ELSE IF q = 1 THEN size[0]
    ELSE IF q = 2 THEN size[0] + size[1] ELSE size[0] + size[1] + size[2]

(* Boosted is a row of the entries of all queues. *)
LEMMA BoostedEntries ==
    ASSUME Feedback!MlfqConstants, QueueTypes, Filled
    PROVE  /\ Feedback!Boosted \in Seq(Procs)
           /\ \A q \in Feedback!Queues, j \in 1 .. Feedback!NPROC : j <= size[q] =>
                /\ Behind(q) + j \in 1 .. Len(Feedback!Boosted)
                /\ Feedback!Boosted[Behind(q) + j] = slot[q][j]
           /\ \A i \in 1 .. Len(Feedback!Boosted) :
               \E q \in Feedback!Queues, j \in 1 .. Feedback!NPROC :
                j <= size[q] /\ i = Behind(q) + j /\ Feedback!Boosted[i] = slot[q][j]
<1>1. Feedback!NPROC \in Nat /\ \A q \in Feedback!Queues : size[q] \in 0 .. Feedback!NPROC
  BY Sizes DEF QueueTypes
<1>. {0, 1, 2, 3} = Feedback!Queues BY DEF Feedback!Queues
<1>2. ASSUME NEW q \in Feedback!Queues
      PROVE  /\ Feedback!Content(q) \in Seq(Procs) /\ Len(Feedback!Content(q)) = size[q]
             /\ \A j \in 1 .. size[q] : Feedback!Content(q)[j] = slot[q][j]
  <2>1. \A j \in 1 .. size[q] : j \in 1 .. Feedback!NPROC /\ slot[q][j] \in Procs
    BY <1>1 DEF Filled
  <2>2. Feedback!Content(q) \in [1 .. size[q] -> Procs] /\ size[q] \in Nat
    BY <1>1, <2>1 DEF Feedback!Content
  <2>3. Feedback!Content(q) \in Seq(Procs) /\ Len(Feedback!Content(q)) = size[q]
    <3>. DEFINE s == Feedback!Content(q)
                n == size[q]
    <3>. SUFFICES s \in Seq(Procs) /\ Len(s) = n OBVIOUS
    <3>1. s \in [1 .. n -> Procs] /\ n \in Nat BY <2>2
    <3>. HIDE DEF s, n
    <3>. QED BY <3>1
  <2>. QED BY <2>3 DEF Feedback!Content
<1>. DEFINE A == Feedback!Content(0)
            B == Feedback!Content(1)
            C == Feedback!Content(2)
            D == Feedback!Content(3)
            AB == A \o B
            ABC == AB \o C
            All == ABC \o D
<1>3. /\ {A, B, C, D} \subseteq Seq(Procs)
      /\ Len(A) = size[0] /\ Len(B) = size[1] /\ Len(C) = size[2] /\ Len(D) = size[3]
  BY <1>2
<1>4. /\ \A j \in 1 .. size[0] : A[j] = slot[0][j]
      /\ \A j \in 1 .. size[1] : B[j] = slot[1][j]
      /\ \A j \in 1 .. size[2] : C[j] = slot[2][j]
      /\ \A j \in 1 .. size[3] : D[j] = slot[3][j]
  BY <1>2
<1>5. Feedback!Boosted = All BY DEF Feedback!Boosted
<1>. HIDE DEF A, B, C, D
<1>. /\ size[0] \in Nat /\ size[1] \in Nat /\ size[2] \in Nat /\ size[3] \in Nat
  BY <1>1
<1>6. /\ AB \in Seq(Procs) /\ Len(AB) = size[0] + size[1]
      /\ \A j \in 1 .. size[0] : AB[j] = slot[0][j]
      /\ \A j \in 1 .. size[1] : AB[size[0] + j] = slot[1][j]
  <2>1. A \in Seq(Procs) /\ B \in Seq(Procs) BY <1>3
  <2>2. /\ AB \in Seq(Procs) /\ Len(AB) = Len(A) + Len(B)
        /\ \A j \in 1 .. Len(A) : AB[j] = A[j]
        /\ \A j \in 1 .. Len(B) : AB[Len(A) + j] = B[j]
    BY <2>1, Joined
  <2>. HIDE DEF AB
  <2>. QED BY <1>3, <1>4, <2>2
<1>. HIDE DEF AB
<1>7. /\ ABC \in Seq(Procs) /\ Len(ABC) = Len(AB) + size[2]
      /\ \A j \in 1 .. Len(AB) : ABC[j] = AB[j]
      /\ \A j \in 1 .. size[2] : ABC[Len(AB) + j] = slot[2][j]
  <2>1. AB \in Seq(Procs) /\ C \in Seq(Procs) BY <1>3, <1>6
  <2>2. /\ ABC \in Seq(Procs) /\ Len(ABC) = Len(AB) + Len(C)
        /\ \A j \in 1 .. Len(AB) : ABC[j] = AB[j]
        /\ \A j \in 1 .. Len(C) : ABC[Len(AB) + j] = C[j]
    BY <2>1, Joined
  <2>. HIDE DEF ABC
  <2>. QED BY <1>3, <1>4, <2>2
<1>. HIDE DEF ABC
<1>8. /\ All \in Seq(Procs) /\ Len(All) = Len(ABC) + size[3]
      /\ \A j \in 1 .. Len(ABC) : All[j] = ABC[j]
      /\ \A j \in 1 .. size[3] : All[Len(ABC) + j] = slot[3][j]
  <2>1. ABC \in Seq(Procs) /\ D \in Seq(Procs) BY <1>3, <1>7
  <2>2. /\ All \in Seq(Procs) /\ Len(All) = Len(ABC) + Len(D)
        /\ \A j \in 1 .. Len(ABC) : All[j] = ABC[j]
        /\ \A j \in 1 .. Len(D) : All[Len(ABC) + j] = D[j]
    BY <2>1, Joined
  <2>. HIDE DEF All
  <2>. QED BY <1>3, <1>4, <2>2
<1>. HIDE DEF All
<1>9. /\ Len(AB) = size[0] + size[1] /\ Len(ABC) = size[0] + size[1] + size[2]
      /\ Len(All) = size[0] + size[1] + size[2] + size[3]
  BY <1>6, <1>7, <1>8
<1>10. ASSUME NEW q \in Feedback!Queues, NEW j \in 1 .. Feedback!NPROC, j <= size[q]
       PROVE  Behind(q) + j \in 1 .. Len(All) /\ All[Behind(q) + j] = slot[q][j]
  <2>1. CASE q = 0
    <3>1. j \in 1 .. Len(AB) /\ j \in 1 .. Len(ABC) BY <1>6, <1>7, <1>10, <2>1
    <3>. QED BY <1>6, <1>7, <1>8, <1>9, <1>10, <2>1, <3>1 DEF Behind
  <2>2. CASE q = 1
    <3>1. size[0] + j \in 1 .. Len(AB) /\ size[0] + j \in 1 .. Len(ABC)
      <4>1. j \in Nat /\ 1 <= j /\ j <= size[1] BY <1>10, <2>2
      <4>2. size[0] \in Nat /\ size[1] \in Nat /\ size[2] \in Nat /\ size[3] \in Nat OBVIOUS
      <4>3. size[0] + j \in 1 .. (size[0] + size[1]) BY <4>1, <4>2
      <4>4. size[0] + j \in 1 .. (size[0] + size[1] + size[2]) BY <4>1, <4>2
      <4>. QED BY <4>3, <4>4, <1>9
    <3>2. AB[size[0] + j] = slot[1][j] BY <1>6, <1>10, <2>2
    <3>3. ABC[size[0] + j] = AB[size[0] + j] BY <1>7, <3>1
    <3>4. All[size[0] + j] = ABC[size[0] + j] BY <1>8, <3>1
    <3>5. size[0] + j \in 1 .. Len(All)
      <4>1. size[0] \in Nat /\ size[1] \in Nat /\ size[2] \in Nat /\ size[3] \in Nat OBVIOUS
      <4>2. j \in Nat /\ 1 <= j /\ j <= size[1] BY <1>10, <2>2
      <4>3. size[0] + j \in 1 .. (size[0] + size[1] + size[2] + size[3]) BY <4>1, <4>2
      <4>. QED BY <4>3, <1>9
    <3>6. Behind(q) = size[0] BY <2>2 DEF Behind
    <3>. QED BY <2>2, <3>2, <3>3, <3>4, <3>5, <3>6
  <2>3. CASE q = 2
    <3>1. Len(AB) + j \in 1 .. Len(ABC) /\ ABC[Len(AB) + j] = slot[2][j]
      <4>1. j \in Nat /\ 1 <= j /\ j <= size[2] BY <1>10, <2>3
      <4>2. j \in 1 .. size[2] BY <4>1
      <4>3. Len(AB) \in Nat /\ Len(ABC) = Len(AB) + size[2] BY <1>6, <1>7
      <4>4. Len(AB) + j \in 1 .. Len(ABC) BY <4>1, <4>3
      <4>. QED BY <4>2, <4>4, <1>7
    <3>2. Behind(2) = Len(AB) BY <1>6 DEF Behind
    <3>3. All[Behind(2) + j] = slot[2][j] BY <1>8, <3>1, <3>2
    <3>4. j \in Nat /\ 1 <= j /\ j <= size[2] BY <1>10, <2>3
    <3>5. Behind(2) + j \in 1 .. Len(All) BY SMTT(30), <1>9, <3>2, <3>4
    <3>. QED BY <2>3, <3>3, <3>5
  <2>4. CASE q = 3
    <3>1. Behind(3) = Len(ABC) BY <1>6, <1>7 DEF Behind
    <3>2. j \in 1 .. size[3] BY <1>10, <2>4
    <3>3. All[Behind(3) + j] = slot[3][j] BY <1>8, <3>1, <3>2
    <3>4. Behind(3) + j \in 1 .. Len(All) BY SMTT(30), <1>9, <1>10, <2>4 DEF Behind
    <3>. QED BY <2>4, <3>3, <3>4
  <2>. QED BY <2>1, <2>2, <2>3, <2>4 DEF Feedback!Queues
<1>11. ASSUME NEW i \in 1 .. Len(All)
       PROVE  \E q \in Feedback!Queues, j \in 1 .. Feedback!NPROC :
              j <= size[q] /\ i = Behind(q) + j
  <2>. /\ size[0] \in 0 .. Feedback!NPROC /\ size[1] \in 0 .. Feedback!NPROC
       /\ size[2] \in 0 .. Feedback!NPROC /\ size[3] \in 0 .. Feedback!NPROC
    BY <1>1
  <2>1. CASE i <= size[0]
    <3>1. i \in 1 .. Feedback!NPROC /\ i = Behind(0) + i BY <1>1, <2>1 DEF Behind
    <3>. QED BY <2>1, <3>1
  <2>2. CASE i > size[0] /\ i <= size[0] + size[1]
    <3>. DEFINE j == i - size[0]
    <3>1. j \in 1 .. Feedback!NPROC /\ j <= size[1] /\ i = Behind(1) + j
      BY <1>1, <2>2 DEF Behind
    <3>. QED BY <3>1
  <2>3. CASE i > size[0] + size[1] /\ i <= size[0] + size[1] + size[2]
    <3>. DEFINE j == i - (size[0] + size[1])
    <3>1. j \in 1 .. Feedback!NPROC /\ j <= size[2] /\ i = Behind(2) + j
      BY <1>1, <2>3 DEF Behind
    <3>. QED BY <3>1
  <2>4. CASE i > size[0] + size[1] + size[2]
    <3>. DEFINE j == i - (size[0] + size[1] + size[2])
    <3>0. i \in Nat /\ i <= size[0] + size[1] + size[2] + size[3] BY <1>9
    <3>3. \A k \in 0 .. 3 : size[k] \in Nat BY <1>1
    <3>1. j <= size[3] /\ j \in 1 .. Feedback!NPROC
      <4>1. j \in Nat /\ j >= 1 /\ j <= size[3] BY <2>4, <3>0, <3>3
      <4>. QED BY <1>1, <4>1
    <3>2. i = Behind(3) + j BY DEF Behind
    <3>. QED BY <3>1, <3>2
  <2>. QED BY <2>1, <2>2, <2>3, <2>4
<1>12. \A i \in 1 .. Len(All) : \E q \in Feedback!Queues, j \in 1 .. Feedback!NPROC :
         j <= size[q] /\ i = Behind(q) + j /\ All[i] = slot[q][j]
  BY <1>10, <1>11
<1>. QED BY <1>5, <1>8, <1>10, <1>12

(* usertrap ends, perhaps with a boost, which moves every entry to the     *)
(* first queue.                                                            *)
LEMMA KeptBoost ==
    ASSUME Feedback!MlfqConstants, OneCPU, KeptInv, Feedback!trap_end(cpu0)
    PROVE  overflow' \/ KeptInv'
<1>. USE DEF OneCPU
<1>. SUFFICES ASSUME ~overflow' PROVE KeptInv' OBVIOUS
<1>1. pc[cpu0] = "run" /\ UNCHANGED <<state, cur, pc, arg>> BY DEF Feedback!trap_end
<1>2. Feedback!Live' = Feedback!Live BY <1>1 DEF Feedback!Live
<1>3. CASE UNCHANGED <<Feedback!queues, Feedback!levels>>
  BY <1>1, <1>2, <1>3, SamePlaces
    DEF KeptInv, QueueTypes, Feedback!queues, Feedback!levels, Kept, Storing, AtWork
<1>4. CASE Feedback!priority_boost
  <2>. DEFINE n == Len(Feedback!Boosted)
              f == Feedback!Boosted
  <2>1. n \in Nat /\ Feedback!NPROC \in Nat /\ \A i \in 1 .. n : f[i] \in Procs
    BY BoostedEntries, Sizes DEF KeptInv
  <2>2. \A q \in Feedback!Queues, j \in 1 .. Feedback!NPROC : j <= size[q] =>
          \E i \in 1 .. n : f[i] = slot[q][j]
    BY BoostedEntries DEF KeptInv
  <2>3. /\ n <= Feedback!NPROC
        /\ slot' = [q \in Feedback!Queues |-> [i \in 1 .. Feedback!NPROC |->
                       IF q = 0 THEN IF i <= n THEN f[i] ELSE slot[0][i]
                       ELSE IF i <= size[q] THEN slot[q][size[q]] ELSE slot[q][i]]]
        /\ size' = [q \in Feedback!Queues |-> IF q = 0 THEN n ELSE 0]
        /\ prio' = [p \in Procs |-> IF p \in Feedback!Demoted THEN 0 ELSE prio[p]]
    BY <1>4, <2>1 DEF Feedback!priority_boost
  <2>. HIDE DEF n, f
  <2>4. \A q \in Feedback!Queues : size[q] \in 0 .. Feedback!NPROC
    BY DEF KeptInv, QueueTypes
  <2>5. 0 \in Feedback!Queues BY DEF Feedback!Queues
  <2>6. QueueTypes'
    <3>1. slot' \in [Feedback!Queues -> [1 .. Feedback!NPROC -> Procs \cup {None}]]
      BY <2>1, <2>3, <2>4, <2>5 DEF KeptInv, QueueTypes
    <3>2. size' \in [Feedback!Queues -> 0 .. Feedback!NPROC] BY <2>1, <2>3
    <3>3. prio' \in [Procs -> Feedback!Queues] BY <2>3, <2>5 DEF KeptInv, QueueTypes
    <3>. QED BY <1>1, <3>1, <3>2, <3>3 DEF KeptInv, QueueTypes
  <2>7. ASSUME NEW q \in Feedback!Queues, NEW i \in 1 .. Feedback!NPROC, i <= size'[q]
        PROVE  q = 0 /\ i \in 1 .. n /\ slot'[q][i] = f[i]
    BY <2>1, <2>3, <2>5, <2>7
  <2>8. ASSUME NEW i \in 1 .. n
        PROVE  i \in 1 .. Feedback!NPROC /\ i <= size'[0] /\ slot'[0][i] = f[i]
    BY <2>1, <2>3, <2>5
  <2>9. Filled' BY <2>1, <2>7 DEF Filled
  <2>10. ASSUME NEW x, Placed(x) PROVE Placed(x)'
    <3>1. PICK i \in 1 .. n : f[i] = x BY <2>2, <2>10 DEF Placed
    <3>. QED BY <2>5, <2>8, <3>1 DEF Placed
  <2>11. Kept' /\ AtWork'
    BY <1>1, <1>2, <2>10 DEF KeptInv, Kept, AtWork, Storing
  <2>. QED BY <2>6, <2>9, <2>11 DEF KeptInv
<1>. QED BY <1>3, <1>4 DEF Feedback!trap_end

LEMMA KeptStep ==
    ASSUME Feedback!MlfqConstants, OneCPU, KeptInv, [Feedback!Next]_(Feedback!vars)
    PROVE  overflow' \/ KeptInv'
<1>. USE DEF OneCPU
<1>1. CASE UNCHANGED Feedback!vars
  <2>1. UNCHANGED <<Feedback!queues, state, prio, cur, pc, arg>>
    BY <1>1 DEF Feedback!vars, Feedback!levels, Feedback!queues
  <2>2. Filled' /\ \A x : Placed(x)' <=> Placed(x) BY <2>1, SamePlaces DEF KeptInv
  <2>. QED
    BY <2>1, <2>2 DEF KeptInv, QueueTypes, Kept, AtWork, Storing, Feedback!queues, Feedback!Live
<1>2. CASE Feedback!Next
  BY <1>2, KeptDispatch, KeptTimer, KeptRelease, KeptFork, KeptStore, KeptRemove, KeptBoost
    DEF Feedback!Next, Feedback!Kernel
<1>. QED BY <1>1, <1>2

LEMMA KeptOrOverflown ==
    Feedback!MlfqConstants /\ OneCPU => (Feedback!Spec => [](overflow \/ KeptInv))
<1>. SUFFICES ASSUME Feedback!MlfqConstants, OneCPU
              PROVE  Feedback!Spec => [](overflow \/ KeptInv)
  OBVIOUS
<1>1. Feedback!Init => KeptInv BY KeptInit
<1>2. (overflow \/ KeptInv) /\ [Feedback!Next]_(Feedback!vars) => (overflow \/ KeptInv)'
  <2>. SUFFICES ASSUME overflow \/ KeptInv, [Feedback!Next]_(Feedback!vars)
                PROVE  overflow' \/ KeptInv'
    OBVIOUS
  <2>1. CASE overflow
    <3>1. UNCHANGED Feedback!vars BY <2>1 DEF Feedback!Next
    <3>. QED BY <2>1, <3>1 DEF Feedback!vars, Feedback!queues
  <2>. QED BY <2>1, KeptStep
<1>. QED BY <1>1, <1>2, PTL DEF Feedback!Spec

(* enqueue, yield, usertrap, priority_boost, fork and exit on one CPU,     *)
(* with slots that are reused while they are queued (kernel/proc.c:184):   *)
(* until an array overflows, every process that lives is in some queue,    *)
(* where the scheduler finds it, whenever no queue is being changed.       *)
THEOREM NobodyIsLost ==
    Feedback!MlfqConstants /\ OneCPU => (Feedback!Spec => []Feedback!NotLost)
<1>. SUFFICES ASSUME Feedback!MlfqConstants, OneCPU PROVE Feedback!Spec => []Feedback!NotLost
  OBVIOUS
<1>1. overflow \/ KeptInv => Feedback!NotLost
  <2>. SUFFICES ASSUME KeptInv, pc[cpu0] \in {"idle", "run"}, NEW p \in Feedback!Live
                PROVE  \E q \in Feedback!Queues : Feedback!Positions(q, p) # {}
    BY DEF Feedback!NotLost, OneCPU
  <2>1. Placed(p) BY DEF KeptInv, Kept, Storing
  <2>2. PICK q \in Feedback!Queues, i \in 1 .. Feedback!NPROC : i <= size[q] /\ slot[q][i] = p
    BY <2>1 DEF Placed
  <2>3. size[q] \in 0 .. Feedback!NPROC /\ Feedback!NPROC \in Nat BY Sizes DEF KeptInv, QueueTypes
  <2>4. i \in Feedback!Positions(q, p) BY <2>2, <2>3 DEF Feedback!Positions
  <2>. QED BY <2>4
<1>. QED BY <1>1, KeptOrOverflown, PTL
-------------------------------------------------------------------------------
(* Order and room, as long as no slot is queued twice.                     *)
LEMMA QueueIsKept ==
    ASSUME Feedback!MlfqConstants, OneCPU, QueueInv
    PROVE  KeptInv
<1>1. Kept BY DEF QueueInv, Placing, Kept
<1>2. cur[cpu0] # None => state[cur[cpu0]] = "RUNNING"
  BY DEF QueueInv, QueueTypes, Doing, OneCPU
<1>3. Storing => arg[cpu0].idx = size[arg[cpu0].queue] /\ arg[cpu0].proc \in Procs
  BY DEF QueueInv, Placing, Doing, Feedback!Live
<1>. QED BY <1>1, <1>2, <1>3 DEF QueueInv, KeptInv, AtWork

LEMMA SameQueues ==
    ASSUME Feedback!MlfqConstants, QueueInv, UNCHANGED Feedback!queues
    PROVE  Filled' /\ Once' /\ ~overflow' /\ \A p : Placed(p)' <=> Placed(p)
BY DEF QueueInv, Feedback!queues, Filled, Once, Placed

LEMMA QueueInit ==
    ASSUME Feedback!MlfqConstants
    PROVE  OneCPU => (Feedback!Init => QueueInv)
<1>. SUFFICES ASSUME OneCPU, Feedback!Init PROVE QueueInv
  OBVIOUS
<1>. USE Sizes DEF Feedback!MlfqConstants
<1>. HIDE DEF Feedback!NPROC
<1>1. QueueTypes
  BY DEF Feedback!Init, QueueTypes, Feedback!Queues, Feedback!Points, Feedback!NoArg
<1>2. Filled /\ Once BY DEF Feedback!Init, Filled, Once, Feedback!Queues
<1>3. Placed(init) /\ Feedback!Live = {init}
  <2>1. 0 \in Feedback!Queues /\ 1 \in 1 .. Feedback!NPROC /\ 1 <= size[0] /\ slot[0][1] = init
    BY DEF Feedback!Init, Feedback!Queues
  <2>. QED BY <2>1 DEF Feedback!Init, Placed, Feedback!Live
<1>4. pc[cpu0] = "idle" /\ cur[cpu0] = None BY DEF Feedback!Init
<1>5. Levels BY DEF Feedback!Init, Levels, Feedback!Queues
<1>. QED
  BY <1>1, <1>2, <1>3, <1>4, <1>5 DEF Feedback!Init, QueueInv, Placing, Storing, Doing
-------------------------------------------------------------------------------
(* Steps that leave the queues as they are.                                *)
LEMMA DispatchStep ==
    ASSUME Feedback!MlfqConstants, OneCPU, QueueInv, Feedback!dispatch(cpu0)
    PROVE  QueueInv' /\ Feedback!GoesFirst
<1>. USE DEF OneCPU
<1>0. QueueTypes /\ Filled BY DEF QueueInv
<1>1. PICK q \in Feedback!Queues, pp \in Procs :
        /\ pp # None /\ state[pp] = "RUNNABLE"
        /\ \E i \in 1 .. Feedback!NPROC : i <= size[q] /\ slot[q][i] = pp
        /\ \A r \in Feedback!Queues : r < q => Feedback!Runnable(r) = {}
        /\ pc[cpu0] = "idle" /\ pc' = [pc EXCEPT ![cpu0] = "run"]
        /\ cur' = [cur EXCEPT ![cpu0] = pp] /\ state' = [state EXCEPT ![pp] = "RUNNING"]
        /\ UNCHANGED <<Feedback!queues, Feedback!levels, ticks, kpc, arg>>
  BY <1>0, DispatchFinds
<1>4. pp \in Procs /\ pp # None BY <1>1
<1>5. /\ pc[cpu0] = "idle" /\ pc' = [pc EXCEPT ![cpu0] = "run"]
      /\ cur' = [cur EXCEPT ![cpu0] = pp] /\ state' = [state EXCEPT ![pp] = "RUNNING"]
      /\ UNCHANGED <<Feedback!queues, Feedback!levels, ticks, kpc, arg>>
  BY <1>1
<1>6. prio[pp] = q BY <1>1 DEF QueueInv, Levels, Changing
<1>7. QueueTypes'
  BY <1>4, <1>5
    DEF QueueInv, QueueTypes, Feedback!queues, Feedback!levels, Feedback!Points
<1>8. Feedback!Live' = Feedback!Live
  BY <1>1 DEF Feedback!Live, QueueInv, QueueTypes
<1>9. Filled' /\ Once' /\ ~overflow' /\ \A x : Placed(x)' <=> Placed(x) BY <1>5, SameQueues
<1>10. Placing' BY <1>5, <1>8, <1>9 DEF QueueInv, QueueTypes, Placing, Storing
<1>11. Levels'
  BY <1>5 DEF QueueInv, QueueTypes, Levels, Changing, Feedback!queues, Feedback!levels
<1>12. Doing'
  <2>1. cur'[cpu0] = pp /\ pc'[cpu0] = "run" BY <1>5 DEF QueueInv, QueueTypes
  <2>2. \A x \in Procs : state'[x] = IF x = pp THEN "RUNNING" ELSE state[x]
    BY <1>5 DEF QueueInv, QueueTypes
  <2>. QED
    BY <1>4, <1>5, <2>1, <2>2 DEF QueueInv, Doing, Storing, Feedback!MlfqConstants
<1>13. Feedback!GoesFirst
  <2>. SUFFICES ASSUME NEW x \in Procs, NEW y \in Procs, state[x] = "RUNNABLE",
                       state'[x] = "RUNNING", state[y] = "RUNNABLE"
                PROVE  prio[x] <= prio[y]
    BY DEF Feedback!GoesFirst
  <2>1. x = pp BY <1>5 DEF QueueInv, QueueTypes
  <2>2. Placed(y) BY <1>5 DEF QueueInv, Placing, Storing, Feedback!Live
  <2>3. PICK r \in Feedback!Queues, j \in 1 .. Feedback!NPROC : j <= size[r] /\ slot[r][j] = y
    BY <2>2 DEF Placed
  <2>4. prio[y] = r BY <1>5, <2>3 DEF QueueInv, Levels, Changing
  <2>5. j \in Feedback!Runnable(r)
    BY <2>3 DEF Feedback!Runnable, Feedback!Entries, QueueInv, QueueTypes,
             Feedback!MlfqConstants
  <2>6. ~(r < q) BY <1>1, <2>5
  <2>. QED BY <1>6, <2>1, <2>4, <2>6 DEF Feedback!Queues
<1>. QED BY <1>7, <1>9, <1>10, <1>11, <1>12, <1>13 DEF QueueInv

(* The running process is interrupted, charged and perhaps moved down.     *)
LEMMA TimerStep ==
    ASSUME Feedback!MlfqConstants, OneCPU, QueueInv,
           Feedback!timer_user(cpu0) \/ Feedback!timer_kernel(cpu0) \/ Feedback!timer_idle(cpu0)
    PROVE  QueueInv'
<1>. USE DEF OneCPU
<1>. cpu0 \in CPUs OBVIOUS
<1>1. UNCHANGED <<Feedback!queues, state, cur>>
  BY DEF Feedback!timer_user, Feedback!timer_kernel, Feedback!timer_idle,
         Feedback!levels
<1>2. CASE UNCHANGED <<prio, pc, arg>>
  <2>1. QueueTypes' /\ Feedback!Live' = Feedback!Live /\ Doing'
    BY <1>1, <1>2 DEF QueueInv, QueueTypes, Feedback!Live, Doing, Storing,
             Feedback!queues
  <2>2. Filled' /\ Once' /\ ~overflow' /\ \A x : Placed(x)' <=> Placed(x) BY <1>1, SameQueues
  <2>. QED
    BY <1>1, <1>2, <2>1, <2>2 DEF QueueInv, Placing, Storing, Levels, Changing,
             Feedback!queues
<1>3. CASE /\ pc[cpu0] = "run" /\ Feedback!Yield(cpu0)
           /\ \A x \in Procs : x # cur[cpu0] => prio'[x] = prio[x]
           /\ prio' \in [Procs -> Feedback!Queues]
  <2>1. /\ pc'[cpu0] = "scan" /\ arg'[cpu0].next = 0
        /\ pc' \in [CPUs -> Feedback!Points]
        /\ arg' \in [CPUs -> [idx : Nat, proc : Procs \cup {None}, queue : Feedback!Queues, next : 0 .. 5]]
    BY <1>3, YieldScans DEF QueueInv
  <2>2. QueueTypes' /\ Feedback!Live' = Feedback!Live
    BY <1>1, <1>3, <2>1 DEF QueueInv, QueueTypes, Feedback!Live, Feedback!queues
  <2>3. Filled' /\ Once' /\ ~overflow' /\ \A x : Placed(x)' <=> Placed(x) BY <1>1, SameQueues
  <2>4. Placing' BY <1>3, <2>1, <2>2, <2>3 DEF QueueInv, Placing, Storing
  <2>5. Doing' BY <1>1, <1>3, <2>1 DEF QueueInv, Doing, Storing
  <2>6. Levels'
    BY <1>1, <1>3, <2>1
      DEF QueueInv, Filled, Levels, Changing, Feedback!queues
  <2>. QED BY <2>2, <2>3, <2>4, <2>5, <2>6 DEF QueueInv
<1>4. ASSUME Feedback!timer_user(cpu0) PROVE QueueInv'
  <2>1. pc[cpu0] = "run" /\ cur[cpu0] \in Procs
    BY <1>4 DEF Feedback!timer_user, Feedback!InUser, QueueInv, QueueTypes, Doing
  <2>. DEFINE level == IF prio[cur[cpu0]] < 3 THEN prio[cur[cpu0]] + 1 ELSE prio[cur[cpu0]]
  <2>2. level \in Feedback!Queues BY <2>1 DEF QueueInv, QueueTypes, Feedback!Queues
  <2>3. \/ UNCHANGED <<prio, pc, arg>>
        \/ UNCHANGED prio /\ Feedback!Yield(cpu0)
        \/ prio' = [prio EXCEPT ![cur[cpu0]] = level] /\ Feedback!Yield(cpu0)
    BY <1>4 DEF Feedback!timer_user
  <2>. HIDE DEF level
  <2>4. \/ UNCHANGED prio
        \/ prio' = [prio EXCEPT ![cur[cpu0]] = level]
        => /\ \A x \in Procs : x # cur[cpu0] => prio'[x] = prio[x]
           /\ prio' \in [Procs -> Feedback!Queues]
    BY <2>1, <2>2 DEF QueueInv, QueueTypes
  <2>. QED BY <1>2, <1>3, <2>1, <2>3, <2>4
<1>5. ASSUME Feedback!timer_kernel(cpu0) PROVE QueueInv'
  BY <1>3, <1>5 DEF Feedback!timer_kernel, Feedback!InUser, Feedback!levels, QueueInv,
           QueueTypes
<1>6. ASSUME Feedback!timer_idle(cpu0) PROVE QueueInv'
  BY <1>2, <1>6 DEF Feedback!timer_idle, Feedback!levels
<1>. QED BY <1>4, <1>5, <1>6

(* The running process sleeps, or another one wakes up.                    *)
LEMMA SleepStep ==
    ASSUME Feedback!MlfqConstants, OneCPU, QueueInv,
           \/ Feedback!sleep(cpu0) \/ Feedback!exit(cpu0)
           \/ \E p \in Procs : Feedback!wakeup(p)
    PROVE  QueueInv'
<1>. USE DEF OneCPU
<1>. cpu0 \in CPUs OBVIOUS
<1>1. ASSUME NEW s \in {"SLEEPING", "UNUSED"}, Feedback!InUser(cpu0), Feedback!Release(cpu0, s)
      PROVE  QueueInv'
  <2>1. /\ pc[cpu0] = "run" /\ UNCHANGED <<Feedback!queues, prio, arg>>
        /\ state' = [state EXCEPT ![cur[cpu0]] = s]
        /\ cur' = [cur EXCEPT ![cpu0] = None] /\ pc' = [pc EXCEPT ![cpu0] = "idle"]
    BY <1>1 DEF Feedback!Release, Feedback!InUser, Feedback!levels
  <2>2. cur[cpu0] \in Procs /\ state[cur[cpu0]] = "RUNNING"
    BY <2>1 DEF QueueInv, QueueTypes, Doing
  <2>3. QueueTypes' /\ Feedback!Live' \subseteq Feedback!Live
    BY <2>1, <2>2 DEF QueueInv, QueueTypes, Feedback!Live, Feedback!queues,
             Feedback!Points
  <2>4. pc'[cpu0] = "idle" /\ cur'[cpu0] = None BY <2>1 DEF QueueInv, QueueTypes
  <2>5. \A x \in Procs : state'[x] = IF x = cur[cpu0] THEN s ELSE state[x]
    BY <2>1 DEF QueueInv, QueueTypes
  <2>6. Doing'
    BY <2>1, <2>2, <2>4, <2>5 DEF QueueInv, Doing, Storing, Feedback!MlfqConstants
  <2>7. Filled' /\ Once' /\ ~overflow' /\ \A x : Placed(x)' <=> Placed(x) BY <2>1, SameQueues
  <2>8. Placing' /\ Levels'
    BY <2>1, <2>3, <2>4, <2>7 DEF QueueInv, Placing, Storing, Levels, Changing,
             Feedback!queues
  <2>. QED BY <2>3, <2>6, <2>7, <2>8 DEF QueueInv
<1>2. ASSUME NEW p \in Procs, Feedback!wakeup(p) PROVE QueueInv'
  <2>1. /\ state[p] = "SLEEPING" /\ state' = [state EXCEPT ![p] = "RUNNABLE"]
        /\ UNCHANGED <<Feedback!queues, prio, cur, pc, arg>>
    BY <1>2 DEF Feedback!wakeup, Feedback!levels
  <2>2. QueueTypes' /\ Feedback!Live' = Feedback!Live
    BY <2>1 DEF QueueInv, QueueTypes, Feedback!Live, Feedback!queues
  <2>3. Doing'
    BY <2>1
      DEF QueueInv, QueueTypes, Doing, Storing, Feedback!queues, Feedback!Live, Placing
  <2>4. Filled' /\ Once' /\ ~overflow' /\ \A x : Placed(x)' <=> Placed(x) BY <2>1, SameQueues
  <2>5. Placing' /\ Levels'
    BY <2>1, <2>2, <2>4 DEF QueueInv, Placing, Storing, Levels, Changing,
             Feedback!queues
  <2>. QED BY <2>2, <2>3, <2>4, <2>5 DEF QueueInv
<1>. QED BY <1>1, <1>2 DEF Feedback!sleep, Feedback!exit

(* fork has a slot, and has read the end of queue 0.                       *)
LEMMA ForkStep ==
    ASSUME Feedback!MlfqConstants, OneCPU, QueueInv, NEW p \in Procs, Feedback!fork(cpu0, p),
           ~Placed(p)
    PROVE  QueueInv'
<1>. USE DEF OneCPU
<1>. cpu0 \in CPUs OBVIOUS
<1>. DEFINE a == [idx |-> size[0], proc |-> p, queue |-> 0, next |-> 4]
<1>1. /\ pc[cpu0] = "run" /\ state[p] = "UNUSED" /\ UNCHANGED <<Feedback!queues, cur>>
      /\ state' = [state EXCEPT ![p] = "USED"] /\ prio' = [prio EXCEPT ![p] = 0]
      /\ pc' = [pc EXCEPT ![cpu0] = "store"] /\ arg' = [arg EXCEPT ![cpu0] = a]
  BY DEF Feedback!fork, Feedback!InUser
<1>2. a \in [idx : Nat, proc : Procs \cup {None}, queue : Feedback!Queues, next : 0 .. 5]
  BY Sizes DEF QueueInv, QueueTypes, Feedback!Queues
<1>3. a.idx = size[0] /\ a.proc = p /\ a.queue = 0 /\ a.next = 4 OBVIOUS
<1>. HIDE DEF a
<1>4. /\ pc'[cpu0] = "store" /\ arg'[cpu0] = a /\ prio'[p] = 0 /\ state'[p] = "USED"
      /\ \A x \in Procs : x # p => state'[x] = state[x] /\ prio'[x] = prio[x]
  BY <1>1 DEF QueueInv, QueueTypes
<1>5. QueueTypes'
  BY <1>1, <1>2
    DEF QueueInv, QueueTypes, Feedback!queues, Feedback!Queues, Feedback!Points
<1>6. Feedback!Live' = Feedback!Live \cup {p} /\ p \notin Feedback!Live
  BY <1>1, <1>4 DEF Feedback!Live
<1>7. Filled' /\ Once' /\ ~overflow' /\ \A x : Placed(x)' <=> Placed(x) BY <1>1, SameQueues
<1>9. Placing' BY <1>1, <1>3, <1>4, <1>6, <1>7 DEF QueueInv, Placing, Storing
<1>10. Levels'
  BY <1>1, <1>4 DEF QueueInv, Filled, Levels, Changing, Placed, Feedback!queues
<1>11. Doing' BY <1>1, <1>3, <1>4 DEF QueueInv, Doing, Storing, Feedback!queues
<1>. QED BY <1>5, <1>7, <1>9, <1>10, <1>11 DEF QueueInv
-------------------------------------------------------------------------------
(* There is room for the process that is being stored: it is in no queue,  *)
(* and the others are there once.                                          *)
LEMMA RoomToStore ==
    ASSUME Feedback!MlfqConstants, OneCPU, KeptInv, Once, Storing, ~Placed(arg[cpu0].proc)
    PROVE  arg[cpu0].idx \in 0 .. Feedback!NPROC - 1
<1>. DEFINE q == arg[cpu0].queue
            n == size[q]
            p == arg[cpu0].proc
            f == [i \in 1 .. n + 1 |-> IF i = n + 1 THEN p ELSE slot[q][i]]
<1>1. arg[cpu0].idx = n /\ ~Placed(p) /\ p \in Procs BY DEF KeptInv, AtWork
<1>2. q \in Feedback!Queues BY DEF KeptInv, QueueTypes, OneCPU
<1>. HIDE DEF p, q
<1>3. n \in 0 .. Feedback!NPROC /\ Feedback!NPROC \in Nat
  BY <1>2, Sizes DEF KeptInv, QueueTypes
<1>4. \A i \in 1 .. n :
      i \in 1 .. Feedback!NPROC /\ slot[q][i] \in Procs /\ slot[q][i] # p
  BY <1>1, <1>2, <1>3 DEF KeptInv, Filled, Placed
<1>5. f \in [1 .. n + 1 -> Procs] BY <1>1, <1>3, <1>4
<1>6. \A i, j \in 1 .. n + 1 : f[i] = f[j] => i = j
  <2>. SUFFICES ASSUME NEW i \in 1 .. n + 1, NEW j \in 1 .. n + 1, f[i] = f[j] PROVE i = j
    OBVIOUS
  <2>1. CASE i = n + 1 \/ j = n + 1 BY <1>3, <1>4, <2>1
  <2>2. CASE i # n + 1 /\ j # n + 1
    <3>1. i \in 1 .. Feedback!NPROC /\ j \in 1 .. Feedback!NPROC /\ i <= n /\ j <= n
      BY <1>3, <2>2
    <3>2. slot[q][i] = slot[q][j] BY <2>2
    <3>. QED BY <1>2, <3>1, <3>2 DEF Once
  <2>. QED BY <2>1, <2>2
<1>7. n + 1 \in Nat BY <1>3
<1>. HIDE DEF f
<1>8. n + 1 <= Feedback!NPROC BY <1>5, <1>6, <1>7, AtMostNPROC
<1>. QED BY <1>1, <1>3, <1>8

(* enqueue, second half. *)
LEMMA StoreStep ==
    ASSUME Feedback!MlfqConstants, OneCPU, QueueInv, Feedback!store(cpu0)
    PROVE  QueueInv'
<1>. USE DEF OneCPU
<1>. cpu0 \in CPUs OBVIOUS
<1>. DEFINE a == arg[cpu0]
            q == a.queue
            n == a.idx
            p == a.proc
<1>1. /\ pc[cpu0] = "store" /\ n = size[q] /\ q = prio[p] /\ a.next # 0
      /\ a.next = 4 => state[p] = "USED"
      /\ a.next # 4 => p = cur[cpu0]
      /\ p \in Feedback!Live /\ ~Placed(p)
  BY DEF Feedback!store, QueueInv, Doing, Placing, Storing
<1>2. q \in Feedback!Queues /\ a.next \in 0 .. 5 /\ p \in Procs
  BY <1>1 DEF QueueInv, QueueTypes, Feedback!Live
<1>3. n \in 0 .. Feedback!NPROC - 1 /\ Feedback!NPROC \in Nat
  BY <1>1, QueueIsKept, RoomToStore, Sizes DEF Storing, QueueInv
<1>4. /\ slot' = [slot EXCEPT ![q][n + 1] = p]
      /\ size' = [size EXCEPT ![q] = n + 1]
      /\ UNCHANGED <<overflow, prio, cur, arg>>
      /\ state' = [x \in Procs |-> IF state[x] = "USED" /\ x = p THEN "RUNNABLE" ELSE state[x]]
      /\ pc' = [pc EXCEPT ![cpu0] = IF a.next = 4 THEN "run" ELSE "scan"]
  BY <1>3 DEF Feedback!store, Feedback!levels
<1>. HIDE DEF a, q, n, p
<1>5. pc'[cpu0] = IF a.next = 4 THEN "run" ELSE "scan" BY <1>4 DEF QueueInv, QueueTypes
<1>6. \A r \in Feedback!Queues, i \in 1 .. Feedback!NPROC :
        slot'[r][i] = IF r = q /\ i = n + 1 THEN p ELSE slot[r][i]
  BY <1>2, <1>3, <1>4 DEF QueueInv, QueueTypes
<1>7. \A r \in Feedback!Queues : size'[r] = IF r = q THEN n + 1 ELSE size[r]
  BY <1>4 DEF QueueInv, QueueTypes
<1>8. QueueTypes'
  <2>1. slot' \in [Feedback!Queues -> [1 .. Feedback!NPROC -> Procs \cup {None}]]
    BY <1>2, <1>3, <1>4 DEF QueueInv, QueueTypes
  <2>2. size' \in [Feedback!Queues -> 0 .. Feedback!NPROC]
    BY <1>2, <1>3, <1>4 DEF QueueInv, QueueTypes
  <2>. QED BY <1>4, <2>1, <2>2 DEF QueueInv, QueueTypes, Feedback!Points
<1>9. Feedback!Live' = Feedback!Live BY <1>4 DEF Feedback!Live, QueueInv, QueueTypes
<1>10. \A r \in Feedback!Queues, i \in 1 .. Feedback!NPROC :
         i <= size'[r] <=> i <= size[r] \/ (r = q /\ i = n + 1)
  BY <1>1, <1>3, <1>7
<1>11. ASSUME NEW r \in Feedback!Queues, NEW i \in 1 .. Feedback!NPROC, i <= size'[r],
              ~(r = q /\ i = n + 1)
       PROVE  i <= size[r] /\ slot'[r][i] = slot[r][i] /\ slot[r][i] # p
  BY <1>1, <1>6, <1>10, <1>11 DEF Placed
<1>12. n + 1 \in 1 .. Feedback!NPROC /\ n + 1 <= size'[q] /\ slot'[q][n + 1] = p
  BY <1>2, <1>3, <1>6, <1>7
<1>13. Filled' /\ Once'
  <2>1. Filled' BY <1>2, <1>11, <1>12 DEF QueueInv, Filled
  <2>2. ASSUME NEW r \in Feedback!Queues, NEW s \in Feedback!Queues,
               NEW i \in 1 .. Feedback!NPROC, NEW j \in 1 .. Feedback!NPROC,
               i <= size'[r], j <= size'[s], slot'[r][i] = slot'[s][j]
        PROVE  r = s /\ i = j
    <3>1. CASE r = q /\ i = n + 1 BY <1>11, <1>12, <2>2, <3>1
    <3>2. CASE s = q /\ j = n + 1 BY <1>11, <1>12, <2>2, <3>2
    <3>3. CASE ~(r = q /\ i = n + 1) /\ ~(s = q /\ j = n + 1)
      BY <1>11, <2>2, <3>3 DEF QueueInv, Once
    <3>. QED BY <3>1, <3>2, <3>3
  <2>. QED BY <2>1, <2>2 DEF Once
<1>14. \A x : Placed(x)' <=> Placed(x) \/ x = p
  <2>1. ASSUME NEW x, Placed(x)' PROVE Placed(x) \/ x = p
    <3>1. PICK r \in Feedback!Queues, i \in 1 .. Feedback!NPROC :
          i <= size'[r] /\ slot'[r][i] = x
      BY <2>1 DEF Placed
    <3>. QED BY <1>11, <1>12, <3>1 DEF Placed
  <2>2. ASSUME NEW x, Placed(x) PROVE Placed(x)'
    <3>1. PICK r \in Feedback!Queues, i \in 1 .. Feedback!NPROC :
          i <= size[r] /\ slot[r][i] = x
      BY <2>2 DEF Placed
    <3>2. ~(r = q /\ i = n + 1) BY <1>1, <1>3, <3>1
    <3>3. i <= size'[r] /\ slot'[r][i] = x BY <1>6, <1>10, <3>1, <3>2
    <3>. QED BY <3>3 DEF Placed
  <2>3. ASSUME NEW x, x = p PROVE Placed(x)' BY <1>2, <1>12, <2>3 DEF Placed
  <2>. QED BY <2>1, <2>2, <2>3
<1>15. Placing' BY <1>1, <1>5, <1>9, <1>14 DEF QueueInv, Placing, Storing, p, a
<1>16. Levels'
  <2>. SUFFICES ASSUME NEW r \in Feedback!Queues, NEW i \in 1 .. Feedback!NPROC, i <= size'[r]
                PROVE  prio[slot'[r][i]] = r
    BY <1>4 DEF Levels
  <2>. QED BY <1>1, <1>11, <1>12 DEF QueueInv, Levels, Changing
<1>17. Doing'
  <2>1. \A x \in Procs : state'[x] # "USED"
    BY <1>4 DEF QueueInv, Doing, p, a
  <2>2. \A x \in Procs : state'[x] = "RUNNING" <=> state[x] = "RUNNING" BY <1>4
  <2>. QED BY <1>1, <1>4, <1>5, <2>1, <2>2 DEF QueueInv, Doing, Storing, a
<1>. QED BY <1>4, <1>8, <1>13, <1>15, <1>16, <1>17 DEF QueueInv

(* yield takes the running process out of a queue. *)
LEMMA RemoveStep ==
    ASSUME Feedback!MlfqConstants, OneCPU, QueueInv, Feedback!yield_remove(cpu0)
    PROVE  QueueInv'
<1>. USE DEF OneCPU
<1>. cpu0 \in CPUs OBVIOUS
<1>. DEFINE p == cur[cpu0]
            q == Feedback!First(Feedback!Holding(cpu0))
            k == Feedback!First(Feedback!Positions(q, p))
            to == prio[p]
            size1 == [size EXCEPT ![q] = @ - 1]
            next1 == IF q = 3 THEN 5 ELSE q + 1
            a == [idx |-> size1[to], proc |-> p, queue |-> to, next |-> next1]
<1>1. pc[cpu0] = "scan" /\ Feedback!Holding(cpu0) # {} BY DEF Feedback!yield_remove
<1>2. /\ slot' = [slot EXCEPT ![q] = Feedback!Shifted(q, k)]
      /\ size' = size1
      /\ arg' = [arg EXCEPT ![cpu0] = a]
      /\ pc' = [pc EXCEPT ![cpu0] = "store"]
      /\ UNCHANGED <<overflow, state, prio, cur>>
  BY DEF Feedback!yield_remove, Feedback!levels
<1>3. p \in Procs /\ state[p] = "RUNNING" /\ to \in Feedback!Queues
  BY <1>1 DEF QueueInv, QueueTypes, Doing, Feedback!MlfqConstants
<1>4. q \in Feedback!Queues /\ Feedback!Positions(q, p) # {}
  <2>1. \A n \in Int : IsFiniteSet(0 .. n) BY FS_Interval
  <2>2. Feedback!Holding(cpu0) \subseteq Feedback!Queues BY DEF Feedback!Holding
  <2>3. IsFiniteSet(Feedback!Holding(cpu0)) BY <2>1, <2>2, FS_Subset DEF Feedback!Queues
  <2>4. q \in Feedback!Holding(cpu0)
    BY <1>1, <2>2, <2>3, FirstIsLeast DEF Feedback!Queues
  <2>. QED BY <2>4 DEF Feedback!Holding
<1>. HIDE DEF q
<1>5. k \in 1 .. Feedback!NPROC /\ k <= size[q] /\ slot[q][k] = p
  <2>1. Feedback!Positions(q, p) \subseteq 1 .. size[q] BY DEF Feedback!Positions
  <2>. DEFINE S == Feedback!Positions(q, p)
              f == Feedback!First(S)
  <2>2. f \in S /\ f \in 1 .. size[q] /\ f \in 1 .. Feedback!NPROC
    <3>. HIDE DEF S
    <3>. QED BY <1>4, <2>1, PlacesFirst DEF QueueInv, S
  <2>3. slot[q][f] = p BY <2>2 DEF Feedback!Positions
  <2>. HIDE DEF f
  <2>. QED BY <1>4, <2>2, <2>3 DEF f
<1>. HIDE DEF k
<1>6. size[q] \in 1 .. Feedback!NPROC /\ Feedback!NPROC \in Nat
  BY <1>4, <1>5, Sizes DEF QueueInv, QueueTypes
<1>7. /\ size1 \in [Feedback!Queues -> 0 .. Feedback!NPROC]
      /\ \A r \in Feedback!Queues : size1[r] = IF r = q THEN size[q] - 1 ELSE size[r]
  BY <1>4, <1>6 DEF QueueInv, QueueTypes
<1>8. next1 \in {1, 2, 3, 5} BY <1>4 DEF Feedback!Queues
<1>. HIDE DEF next1
<1>9. a \in [idx : Nat, proc : Procs \cup {None}, queue : Feedback!Queues, next : 0 .. 5]
  BY <1>3, <1>7, <1>8, Sizes
<1>10. a.idx = size1[to] /\ a.proc = p /\ a.queue = to /\ a.next = next1 OBVIOUS
<1>. HIDE DEF a, size1
<1>11. arg'[cpu0] = a /\ pc'[cpu0] = "store" BY <1>2 DEF QueueInv, QueueTypes
<1>12. /\ Feedback!Shifted(q, k) \in [1 .. Feedback!NPROC -> Procs \cup {None}]
       /\ \A i \in 1 .. Feedback!NPROC : i <= size[q] - 1 =>
            Feedback!Shifted(q, k)[i] = IF i < k THEN slot[q][i] ELSE slot[q][i + 1]
  BY <1>4, <1>5, ShiftedOut DEF QueueInv
<1>13. QueueTypes'
  BY <1>2, <1>4, <1>7, <1>9, <1>12 DEF QueueInv, QueueTypes, Feedback!Points
<1>14. Feedback!Live' = Feedback!Live /\ p \in Feedback!Live
  BY <1>2, <1>3 DEF Feedback!Live
<1>. DEFINE From(r, i) == IF r = q /\ i >= k THEN i + 1 ELSE i
(* Where an entry was. *)
<1>15. ASSUME NEW r \in Feedback!Queues, NEW i \in 1 .. Feedback!NPROC, i <= size'[r]
       PROVE  /\ From(r, i) \in 1 .. Feedback!NPROC /\ From(r, i) <= size[r]
              /\ slot'[r][i] = slot[r][From(r, i)]
              /\ ~(r = q /\ From(r, i) = k)
  <2>1. CASE r # q BY <1>2, <1>7, <1>15, <2>1 DEF QueueInv, QueueTypes
  <2>2. CASE r = q
    <3>1. slot'[r] = Feedback!Shifted(q, k) /\ i <= size[q] - 1
      BY <1>2, <1>4, <1>7, <1>15, <2>2 DEF QueueInv, QueueTypes
    <3>2. slot'[r][i] = IF i < k THEN slot[q][i] ELSE slot[q][i + 1] BY <1>12, <3>1
    <3>. QED BY <1>5, <1>6, <2>2, <3>1, <3>2
  <2>. QED BY <2>1, <2>2
(* Where an entry goes. *)
<1>16. ASSUME NEW r \in Feedback!Queues, NEW j \in 1 .. Feedback!NPROC, j <= size[r],
              ~(r = q /\ j = k)
       PROVE  \E i \in 1 .. Feedback!NPROC : i <= size'[r] /\ From(r, i) = j
  <2>1. CASE r = q /\ j > k
    <3>1. j - 1 \in 1 .. Feedback!NPROC /\ j - 1 <= size'[r]
      BY <1>2, <1>5, <1>6, <1>7, <1>16, <2>1
    <3>2. From(r, j - 1) = j BY <1>5, <2>1
    <3>. QED BY <3>1, <3>2
  <2>2. CASE ~(r = q /\ j > k)
    <3>1. j <= size'[r] /\ From(r, j) = j BY <1>2, <1>5, <1>6, <1>7, <1>16, <2>2
    <3>. QED BY <3>1
  <2>. QED BY <2>1, <2>2
<1>17. \A r \in Feedback!Queues, i, j \in 1 .. Feedback!NPROC : From(r, i) = From(r, j) =>
       i = j
  BY <1>5
<1>. HIDE DEF From
<1>18. Filled' /\ Once'
  <2>1. Filled' BY <1>15 DEF QueueInv, Filled
  <2>2. ASSUME NEW r \in Feedback!Queues, NEW s \in Feedback!Queues,
               NEW i \in 1 .. Feedback!NPROC, NEW j \in 1 .. Feedback!NPROC,
               i <= size'[r], j <= size'[s], slot'[r][i] = slot'[s][j]
        PROVE  r = s /\ i = j
    <3>1. r = s /\ From(r, i) = From(s, j) BY <1>15, <2>2 DEF QueueInv, Once
    <3>. QED BY <1>17, <3>1
  <2>. QED BY <2>1, <2>2 DEF Once
<1>19. \A x : Placed(x)' <=> Placed(x) /\ x # p
  <2>1. ASSUME NEW x, Placed(x)' PROVE Placed(x) /\ x # p
    <3>1. PICK r \in Feedback!Queues, i \in 1 .. Feedback!NPROC :
          i <= size'[r] /\ slot'[r][i] = x
      BY <2>1 DEF Placed
    <3>2. Placed(x) BY <1>15, <3>1 DEF Placed
    <3>3. x # p BY <1>4, <1>5, <1>15, <3>1 DEF QueueInv, Once
    <3>. QED BY <3>2, <3>3
  <2>2. ASSUME NEW x, Placed(x), x # p PROVE Placed(x)'
    <3>1. PICK r \in Feedback!Queues, j \in 1 .. Feedback!NPROC :
          j <= size[r] /\ slot[r][j] = x
      BY <2>2 DEF Placed
    <3>2. ~(r = q /\ j = k) BY <1>5, <2>2, <3>1
    <3>3. PICK i \in 1 .. Feedback!NPROC : i <= size'[r] /\ From(r, i) = j
      BY <1>16, <3>1, <3>2
    <3>4. slot'[r][i] = x BY <1>15, <3>1, <3>3
    <3>. QED BY <3>3, <3>4 DEF Placed
  <2>. QED BY <2>1, <2>2
<1>20. Placing'
  BY <1>1, <1>10, <1>11, <1>14, <1>19 DEF QueueInv, Placing, Storing
<1>21. Levels'
  <2>. SUFFICES ASSUME NEW r \in Feedback!Queues, NEW i \in 1 .. Feedback!NPROC, i <= size'[r]
                PROVE  prio[slot'[r][i]] = r
    BY <1>2 DEF Levels
  <2>1. slot'[r][i] = slot[r][From(r, i)] /\ slot[r][From(r, i)] # p
    BY <1>4, <1>5, <1>15 DEF QueueInv, Once
  <2>. QED BY <1>15, <2>1 DEF QueueInv, Levels, Changing
<1>22. Doing'
  BY <1>1, <1>2, <1>3, <1>8, <1>10, <1>11 DEF QueueInv, Doing, Storing
<1>. QED BY <1>2, <1>13, <1>18, <1>20, <1>21, <1>22 DEF QueueInv

(* yield switches to the scheduler, with the process in its queue. *)
LEMMA SwitchStep ==
    ASSUME Feedback!MlfqConstants, OneCPU, QueueInv, Feedback!yield_switch(cpu0)
    PROVE  QueueInv'
<1>. USE DEF OneCPU
<1>. cpu0 \in CPUs OBVIOUS
<1>. DEFINE p == cur[cpu0]
<1>1. /\ pc[cpu0] = "scan" /\ Feedback!Holding(cpu0) = {} /\ UNCHANGED <<Feedback!queues, prio>>
      /\ state' = [state EXCEPT ![p] = "RUNNABLE"]
      /\ cur' = [cur EXCEPT ![cpu0] = None] /\ pc' = [pc EXCEPT ![cpu0] = "idle"]
      /\ arg' = [arg EXCEPT ![cpu0] = Feedback!NoArg]
  BY DEF Feedback!yield_switch, Feedback!levels
<1>2. p \in Procs /\ state[p] = "RUNNING"
  BY <1>1 DEF QueueInv, QueueTypes, Doing, Feedback!MlfqConstants
<1>. HIDE DEF p
<1>3. arg[cpu0].next # 0
  <2>. SUFFICES ASSUME arg[cpu0].next = 0 PROVE FALSE
    OBVIOUS
  <2>1. Placed(p) BY <1>1, <1>2 DEF QueueInv, Placing, Storing, Feedback!Live
  <2>2. PICK q \in Feedback!Queues, i \in 1 .. Feedback!NPROC : i <= size[q] /\ slot[q][i] = p
    BY <2>1 DEF Placed
  <2>3. i \in Feedback!Positions(q, cur[cpu0])
    BY <2>2 DEF Feedback!Positions, p, QueueInv, QueueTypes
  <2>4. q \in Feedback!Holding(cpu0) BY <2>3 DEF Feedback!Holding, Feedback!Queues
  <2>. QED BY <1>1, <2>4
<1>4. pc'[cpu0] = "idle" /\ cur'[cpu0] = None /\ arg'[cpu0] = Feedback!NoArg
  BY <1>1 DEF QueueInv, QueueTypes
<1>5. QueueTypes'
  <2>1. Feedback!NoArg \in [idx : Nat, proc : Procs \cup {None}, queue : Feedback!Queues, next : 0 .. 5]
    BY DEF Feedback!NoArg, Feedback!Queues
  <2>. QED BY <1>1, <2>1 DEF QueueInv, QueueTypes, Feedback!queues, Feedback!Points
<1>6. Feedback!Live' = Feedback!Live
  BY <1>1, <1>2 DEF Feedback!Live, QueueInv, QueueTypes
<1>7. \A x \in Procs : state'[x] = IF x = p THEN "RUNNABLE" ELSE state[x]
  BY <1>1 DEF QueueInv, QueueTypes
<1>8. Filled' /\ Once' /\ ~overflow' /\ \A x : Placed(x)' <=> Placed(x) BY <1>1, SameQueues
<1>9. Placing' BY <1>1, <1>4, <1>6, <1>8 DEF QueueInv, Placing, Storing
<1>10. Levels' BY <1>1, <1>3 DEF QueueInv, Levels, Changing, Feedback!queues
<1>11. Doing'
  BY <1>1, <1>2, <1>4, <1>7 DEF QueueInv, Doing, Storing, p, Feedback!MlfqConstants
<1>. QED BY <1>5, <1>8, <1>9, <1>10, <1>11 DEF QueueInv
-------------------------------------------------------------------------------
(* A process is once in the boosted queue, and there is room for them all. *)
LEMMA BoostedOnce ==
    ASSUME Feedback!MlfqConstants, QueueTypes, Filled, Once
    PROVE  /\ Len(Feedback!Boosted) \in 0 .. Feedback!NPROC
           /\ \A i, j \in 1 .. Len(Feedback!Boosted) :
               Feedback!Boosted[i] = Feedback!Boosted[j] => i = j
           /\ \A p : (\E i \in 1 .. Len(Feedback!Boosted) : Feedback!Boosted[i] = p) <=>
               Placed(p)
<1>. DEFINE n == Len(Feedback!Boosted)
            f == Feedback!Boosted
<1>1. f \in [1 .. n -> Procs] /\ n \in Nat BY BoostedEntries
<1>2. ASSUME NEW i \in 1 .. n, NEW j \in 1 .. n, f[i] = f[j] PROVE i = j
  <2>1. PICK q \in Feedback!Queues, k \in 1 .. Feedback!NPROC :
          k <= size[q] /\ i = Behind(q) + k /\ f[i] = slot[q][k]
    BY BoostedEntries
  <2>2. PICK r \in Feedback!Queues, l \in 1 .. Feedback!NPROC :
          l <= size[r] /\ j = Behind(r) + l /\ f[j] = slot[r][l]
    BY BoostedEntries
  <2>3. q = r /\ k = l BY <1>2, <2>1, <2>2 DEF Once
  <2>. QED BY <2>1, <2>2, <2>3
<1>3. \A p : (\E i \in 1 .. n : f[i] = p) <=> Placed(p)
  BY BoostedEntries DEF Placed
<1>. HIDE DEF n, f
<1>4. n <= Feedback!NPROC BY <1>1, <1>2, AtMostNPROC
<1>. QED BY <1>1, <1>2, <1>3, <1>4, Sizes DEF n, f

LEMMA TrapEndStep ==
    ASSUME Feedback!MlfqConstants, OneCPU, QueueInv, Feedback!trap_end(cpu0)
    PROVE  QueueInv'
<1>. USE DEF OneCPU
<1>. cpu0 \in CPUs OBVIOUS
<1>1. pc[cpu0] = "run" /\ UNCHANGED <<state, cur, pc, arg>> BY DEF Feedback!trap_end
<1>2. Feedback!Live' = Feedback!Live BY <1>1 DEF Feedback!Live
<1>3. CASE UNCHANGED <<Feedback!queues, Feedback!levels>>
  BY <1>1, <1>2, <1>3, SameQueues
    DEF QueueInv, QueueTypes, Feedback!queues, Feedback!levels, Placing, Storing,
        Levels, Changing, Doing
<1>4. CASE Feedback!priority_boost
  <2>. DEFINE n == Len(Feedback!Boosted)
              f == Feedback!Boosted
  <2>1. /\ n \in 0 .. Feedback!NPROC /\ Feedback!NPROC \in Nat
        /\ \A i, j \in 1 .. n : f[i] = f[j] => i = j
        /\ \A p : (\E i \in 1 .. n : f[i] = p) <=> Placed(p)
    BY BoostedOnce, Sizes DEF QueueInv
  <2>2. \A i \in 1 .. n : f[i] \in Procs BY BoostedEntries DEF QueueInv
  <2>3. /\ slot' = [q \in Feedback!Queues |-> [i \in 1 .. Feedback!NPROC |->
                       IF q = 0 THEN IF i <= n THEN f[i] ELSE slot[0][i]
                       ELSE IF i <= size[q] THEN slot[q][size[q]] ELSE slot[q][i]]]
        /\ size' = [q \in Feedback!Queues |-> IF q = 0 THEN n ELSE 0]
        /\ prio' = [p \in Procs |-> IF p \in Feedback!Demoted THEN 0 ELSE prio[p]]
        /\ overflow' = overflow
    BY <1>4, <2>1 DEF Feedback!priority_boost
  <2>. HIDE DEF n, f
  <2>4. \A q \in Feedback!Queues : size[q] \in 0 .. Feedback!NPROC
    BY DEF QueueInv, QueueTypes
  <2>5. 0 \in Feedback!Queues BY DEF Feedback!Queues
  <2>6. QueueTypes'
    <3>1. slot' \in [Feedback!Queues -> [1 .. Feedback!NPROC -> Procs \cup {None}]]
      BY <2>1, <2>2, <2>3, <2>4, <2>5 DEF QueueInv, QueueTypes
    <3>2. size' \in [Feedback!Queues -> 0 .. Feedback!NPROC] BY <2>1, <2>3
    <3>3. prio' \in [Procs -> Feedback!Queues] BY <2>3, <2>5 DEF QueueInv, QueueTypes
    <3>. QED BY <1>1, <3>1, <3>2, <3>3 DEF QueueInv, QueueTypes
  <2>7. ASSUME NEW q \in Feedback!Queues, NEW i \in 1 .. Feedback!NPROC, i <= size'[q]
        PROVE  q = 0 /\ i \in 1 .. n /\ slot'[q][i] = f[i]
    BY <2>1, <2>3, <2>5, <2>7
  <2>8. ASSUME NEW i \in 1 .. n
        PROVE  i \in 1 .. Feedback!NPROC /\ i <= size'[0] /\ slot'[0][i] = f[i]
    BY <2>1, <2>3, <2>5
  <2>9. \A p : Placed(p)' <=> Placed(p)
    <3>1. ASSUME NEW p, Placed(p)' PROVE Placed(p)
      BY <2>1, <2>7, <3>1 DEF Placed
    <3>2. ASSUME NEW p, Placed(p) PROVE Placed(p)'
      BY <2>1, <2>5, <2>8, <3>2 DEF Placed
    <3>. QED BY <3>1, <3>2
  <2>10. Filled' /\ Once' BY <1>2, <2>1, <2>2, <2>7 DEF Filled, Once
  <2>11. Levels'
    <3>. SUFFICES ASSUME NEW i \in 1 .. n PROVE prio'[f[i]] = 0
      BY <2>7 DEF Levels
    <3>1. PICK q \in Feedback!Queues, j \in 1 .. Feedback!NPROC :
          j <= size[q] /\ slot[q][j] = f[i]
      BY <2>1 DEF Placed
    <3>2. CASE q = 0
      BY <1>1, <2>2, <2>3, <3>1, <3>2 DEF QueueInv, Levels, Changing
    <3>3. CASE q # 0
      <4>1. j \in Feedback!Positions(q, f[i]) /\ q \in 1 .. 3
        BY <2>4, <3>1, <3>3 DEF Feedback!Positions, Feedback!Queues
      <4>2. f[i] \in Feedback!Demoted BY <2>2, <4>1 DEF Feedback!Demoted
      <4>. QED BY <2>2, <2>3, <4>2
    <3>. QED BY <3>2, <3>3
  <2>12. Placing' /\ Doing'
    BY <1>1, <1>2, <2>9 DEF QueueInv, Placing, Doing, Storing
  <2>. QED BY <2>3, <2>6, <2>10, <2>11, <2>12 DEF QueueInv
<1>. QED BY <1>3, <1>4 DEF Feedback!trap_end
-------------------------------------------------------------------------------
LEMMA QueueStep ==
    ASSUME Feedback!MlfqConstants
    PROVE  OneCPU => (QueueInv /\ [Feedback!Next /\ TakenUnqueued]_(Feedback!vars) =>
           QueueInv' /\ [Feedback!GoesFirst]_(Feedback!vars))
<1>. SUFFICES ASSUME OneCPU, QueueInv, [Feedback!Next /\ TakenUnqueued]_(Feedback!vars)
              PROVE  QueueInv' /\ [Feedback!GoesFirst]_(Feedback!vars)
  OBVIOUS
<1>. USE DEF OneCPU
<1>1. CASE Feedback!dispatch(cpu0) BY <1>1, DispatchStep
<1>2. ASSUME UNCHANGED state \/ \A p \in Procs : state'[p] = "RUNNING" => state[p] = "RUNNING"
      PROVE  Feedback!GoesFirst
  BY <1>2 DEF Feedback!GoesFirst
<1>3. CASE Feedback!store(cpu0)
  <2>1. \A p \in Procs : state'[p] = "RUNNING" => state[p] = "RUNNING"
    BY <1>3 DEF Feedback!store
  <2>. QED BY <1>2, <1>3, <2>1, StoreStep
<1>4. CASE Feedback!yield_remove(cpu0)
  BY <1>2, <1>4, RemoveStep DEF Feedback!yield_remove
<1>5. CASE Feedback!yield_switch(cpu0)
  BY <1>2, <1>5, SwitchStep DEF Feedback!yield_switch, QueueInv, QueueTypes
<1>6. CASE Feedback!trap_end(cpu0) BY <1>2, <1>6, TrapEndStep DEF Feedback!trap_end
<1>7. CASE Feedback!Timer(cpu0)
  BY <1>2, <1>7, TimerStep DEF Feedback!Timer, Feedback!timer_user,
           Feedback!timer_kernel, Feedback!timer_idle
<1>8. CASE Feedback!sleep(cpu0) \/ Feedback!exit(cpu0)
  BY <1>2, <1>8, SleepStep DEF Feedback!sleep, Feedback!exit, Feedback!Release, QueueInv,
           QueueTypes
<1>9. ASSUME NEW p \in Procs, Feedback!wakeup(p) PROVE QueueInv' /\ Feedback!GoesFirst
  BY <1>2, <1>9, SleepStep DEF Feedback!wakeup, QueueInv, QueueTypes
<1>10. ASSUME NEW p \in Procs, Feedback!fork(cpu0, p), TakenUnqueued
       PROVE  QueueInv' /\ Feedback!GoesFirst
  <2>1. Taken(p) BY <1>10 DEF Feedback!fork, Taken, QueueInv, QueueTypes
  <2>2. QueueInv' BY <1>10, <2>1, ForkStep DEF TakenUnqueued
  <2>. QED BY <1>2, <1>10, <2>2 DEF Feedback!fork, QueueInv, QueueTypes
<1>11. CASE UNCHANGED Feedback!vars
  <2>1. UNCHANGED <<Feedback!queues, state, prio, cur, pc, arg>>
    BY <1>11 DEF Feedback!vars, Feedback!levels, Feedback!queues
  <2>2. QueueTypes' BY <2>1 DEF QueueInv, QueueTypes, Feedback!queues
  <2>3. Feedback!Live' = Feedback!Live BY <2>1 DEF Feedback!Live
  <2>4. Filled' /\ Once' /\ ~overflow' /\ \A p : Placed(p)' <=> Placed(p) BY <2>1, SameQueues
  <2>5. Placing' BY <2>1, <2>3, <2>4 DEF QueueInv, Placing, Storing
  <2>6. Levels' BY <2>1 DEF QueueInv, Levels, Changing, Feedback!queues
  <2>7. Doing' BY <2>1 DEF QueueInv, Doing, Storing, Feedback!queues
  <2>. QED BY <1>11, <2>2, <2>4, <2>5, <2>6, <2>7 DEF QueueInv
<1>. QED
  BY <1>1, <1>3, <1>4, <1>5, <1>6, <1>7, <1>8, <1>9, <1>10, <1>11 DEF Feedback!Next,
           Feedback!Kernel

(* A process that is placed once, at its level, has one position there.    *)
LEMMA OnePosition ==
    ASSUME Feedback!MlfqConstants
    PROVE  OneCPU /\ QueueInv => Feedback!QueuedOnce
<1>. SUFFICES ASSUME OneCPU, QueueInv, pc[cpu0] \in {"idle", "run"}, NEW p \in Feedback!Live
              PROVE  /\ \A q \in Feedback!Queues : q # prio[p] =>
                         Feedback!Positions(q, p) = {}
                     /\ Cardinality(Feedback!Positions(prio[p], p)) = 1
  BY SameSizes DEF Feedback!QueuedOnce, OneCPU
<1>1. \A q \in Feedback!Queues : size[q] \in 0 .. Feedback!NPROC /\ Feedback!NPROC \in Nat
  BY Sizes DEF QueueInv, QueueTypes
<1>2. PICK q \in Feedback!Queues, i \in 1 .. Feedback!NPROC : i <= size[q] /\ slot[q][i] = p
  BY DEF QueueInv, Placing, Placed, Storing
<1>3. prio[p] = q BY <1>2 DEF QueueInv, Levels, Changing
<1>4. ASSUME NEW r \in Feedback!Queues, NEW j \in Feedback!Positions(r, p)
      PROVE  r = q /\ j = i
  <2>1. j \in 1 .. Feedback!NPROC /\ j <= size[r] /\ slot[r][j] = p
    BY <1>1 DEF Feedback!Positions
  <2>. QED BY <1>2, <2>1 DEF QueueInv, Once
<1>5. Feedback!Positions(q, p) = {i}
  <2>1. i \in Feedback!Positions(q, p) BY <1>1, <1>2 DEF Feedback!Positions
  <2>. QED BY <1>4, <2>1
<1>6. Cardinality({i}) = 1 BY FS_Singleton
<1>. QED BY <1>3, <1>4, <1>5, <1>6

(* The same on one CPU, processes that block and exit included: as long as *)
(* allocproc takes no slot that is still queued, every process is in the   *)
(* queues once, at its level, whenever no queue is being changed; no array *)
(* overflows; and the scheduler starts no process while one of a better    *)
(* level is RUNNABLE.                                                      *)
THEOREM QueuesKept ==
    Feedback!MlfqConstants /\ OneCPU =>
        (Feedback!Spec /\ [][TakenUnqueued]_(Feedback!vars) =>
            Feedback!QueuesOrdered /\ []Feedback!QueueFits)
<1>. SUFFICES ASSUME Feedback!MlfqConstants, OneCPU
              PROVE  Feedback!Spec /\ [][TakenUnqueued]_(Feedback!vars) =>
                         Feedback!QueuesOrdered /\ []Feedback!QueueFits
  OBVIOUS
<1>1. Feedback!Init => QueueInv BY QueueInit
<1>2. QueueInv /\ [Feedback!Next /\ TakenUnqueued]_(Feedback!vars) =>
      QueueInv' /\ [Feedback!GoesFirst]_(Feedback!vars)
  BY QueueStep
<1>3. QueueInv => Feedback!QueuedOnce BY OnePosition
<1>4. QueueInv => Feedback!QueueFits BY DEF QueueInv, Feedback!QueueFits
<1>5. [Feedback!Next]_(Feedback!vars) /\ [TakenUnqueued]_(Feedback!vars) =>
      [Feedback!Next /\ TakenUnqueued]_(Feedback!vars)
  OBVIOUS
<1>. QED
  BY <1>1, <1>2, <1>3, <1>4, <1>5, PTL
    DEF Feedback!Spec, Feedback!QueuesOrdered, Feedback!HighestFirst

(* enqueue and priority_boost: an array overflows only when some slot is   *)
(* in the queues twice, or is stored although it is in one.  The arrays    *)
(* are large enough for all processes (kernel/proc.c:9), with any exits.   *)
QueuedTwice == ~Once \/ (Storing /\ Placed(arg[cpu0].proc))

THEOREM OverflowsWhenQueuedTwice ==
    Feedback!MlfqConstants /\ OneCPU =>
        (Feedback!Spec => [][overflow' /\ ~overflow => QueuedTwice]_(Feedback!vars))
<1>. SUFFICES ASSUME Feedback!MlfqConstants, OneCPU
              PROVE  Feedback!Spec =>
                         [][overflow' /\ ~overflow => QueuedTwice]_(Feedback!vars)
  OBVIOUS
<1>1. (overflow \/ KeptInv) /\ [Feedback!Next]_(Feedback!vars) =>
          [overflow' /\ ~overflow => QueuedTwice]_(Feedback!vars)
  <2>. SUFFICES ASSUME KeptInv, Feedback!Next, overflow', ~overflow, Once,
                       ~(Storing /\ Placed(arg[cpu0].proc))
                PROVE  FALSE
    BY DEF QueuedTwice
  <2>. USE DEF OneCPU
  <2>1. ASSUME Feedback!store(cpu0) PROVE FALSE
    <3>1. Storing BY <2>1 DEF Feedback!store, Storing
    <3>2. arg[cpu0].idx \in 0 .. Feedback!NPROC - 1 /\ Feedback!NPROC \in Nat
      BY <3>1, RoomToStore, Sizes
    <3>3. ~(arg[cpu0].idx >= Feedback!NPROC) BY <3>2
    <3>4. UNCHANGED overflow BY <2>1, <3>3 DEF Feedback!store
    <3>. QED BY <3>4
  <2>2. ASSUME Feedback!trap_end(cpu0) PROVE FALSE
    <3>1. ~(Len(Feedback!Boosted) > Feedback!NPROC)
      BY BoostedOnce, Sizes DEF KeptInv
    <3>. QED BY <2>2, <3>1 DEF Feedback!trap_end, Feedback!priority_boost, Feedback!queues
  <2>3. ASSUME UNCHANGED Feedback!queues PROVE FALSE BY <2>3 DEF Feedback!queues
  <2>. QED
    BY <2>1, <2>2, <2>3 DEF Feedback!Next, Feedback!Kernel, Feedback!Timer, Feedback!dispatch,
         Feedback!yield_remove, Feedback!yield_switch, Feedback!timer_user,
         Feedback!timer_kernel, Feedback!timer_idle, Feedback!sleep, Feedback!exit,
         Feedback!Release, Feedback!fork, Feedback!wakeup
<1>. QED BY <1>1, KeptOrOverflown, PTL DEF Feedback!Spec
-------------------------------------------------------------------------------
(* The lottery scheduler.                                                  *)

DrawTypes ==
    /\ state \in [Lottery!Procs -> {"UNUSED", "RUNNABLE", "RUNNING", "SLEEPING"}]
    /\ tickets \in [Lottery!Procs -> Tickets \cup {1}]
    /\ ctime \in [Lottery!Procs -> 0 .. ticks] /\ ticks \in Nat
    /\ cur \in [CPUs -> Lottery!Procs \cup {None}]
    /\ at \in [CPUs -> {"idle", "count", "pick", "start", "run"}]
    /\ slot \in [CPUs -> 1 .. NSLOTS + 1]
    /\ earliest \in [CPUs -> [0 .. NSLOTS - 1 -> Lottery!Procs \cup {None}]]
    /\ selected \in [CPUs -> Lottery!Procs \cup {None}]

(* Whose state is RUNNING runs, on one CPU.                                *)
Runs ==
    /\ \A c \in CPUs : at[c] = "run" <=> cur[c] # None
    /\ \A p \in Lottery!Procs : state[p] = "RUNNING" <=> \E c \in CPUs : cur[c] = p
    /\ Lottery!OneCPU

(* What a CPU has picked is a process, and no two CPUs run one.            *)
DrawInv ==
    /\ DrawTypes /\ Runs
    /\ \A c \in CPUs : at[c] = "start" => selected[c] # None

LEMMA DrawInit ==
    ASSUME Lottery!LbsConstants
    PROVE  Lottery!Init => DrawInv
BY DEF Lottery!Init, DrawInv, DrawTypes, Runs, Lottery!OneCPU, Lottery!LbsConstants,
       Lottery!Procs, Lottery!initslot, Lottery!NoOne

(* Back to the top of the loop, and the locals are as they were at first.  *)
LEMMA ResetTypes ==
    ASSUME Lottery!LbsConstants, DrawTypes, NEW c \in CPUs, Lottery!Reset(c)
    PROVE  /\ slot' \in [CPUs -> 1 .. NSLOTS + 1]
           /\ earliest' \in [CPUs -> [0 .. NSLOTS - 1 -> Lottery!Procs \cup {None}]]
           /\ selected' \in [CPUs -> Lottery!Procs \cup {None}]
<1>1. Lottery!NoOne \in [0 .. NSLOTS - 1 -> Lottery!Procs \cup {None}]
  BY DEF Lottery!NoOne
<1>2. 1 \in 1 .. NSLOTS + 1 BY DEF Lottery!LbsConstants
<1>. QED BY <1>1, <1>2 DEF DrawTypes, Lottery!Reset

LEMMA DrawStep ==
    ASSUME Lottery!LbsConstants
    PROVE  DrawInv /\ [Lottery!Next]_(Lottery!vars) => DrawInv'
<1>. SUFFICES ASSUME DrawInv, [Lottery!Next]_(Lottery!vars) PROVE DrawInv'
  OBVIOUS
<1>. USE DEF Lottery!LbsConstants
<1>1. ASSUME NEW c \in CPUs, Lottery!begin(c) PROVE DrawInv'
  BY <1>1 DEF DrawInv, DrawTypes, Runs, Lottery!OneCPU, Lottery!begin, Lottery!procs,
           Lottery!locals, Lottery!Goto
<1>2. ASSUME NEW c \in CPUs, Lottery!count(c) PROVE DrawInv'
  <2>. DEFINE p == slot[c]
              n == tickets[p]
              e == earliest[c][n]
  <2>1. p \in Lottery!Procs /\ slot' \in [CPUs -> 1 .. NSLOTS + 1]
    BY <1>2 DEF DrawInv, DrawTypes, Lottery!count, Lottery!Procs
  <2>2. earliest' \in [CPUs -> [0 .. NSLOTS - 1 -> Lottery!Procs \cup {None}]]
    <3>1. CASE UNCHANGED earliest BY <3>1 DEF DrawInv, DrawTypes
    <3>2. CASE /\ Lottery!InArray(n)
               /\ earliest' = [earliest EXCEPT ![c][n] =
                                 IF e = None THEN p ELSE IF ctime[p] < ctime[e] THEN p ELSE e]
      BY <3>2, <2>1 DEF DrawInv, DrawTypes, Lottery!InArray
    <3>. QED BY <1>2, <3>1, <3>2 DEF Lottery!count
  <2>3. UNCHANGED <<Lottery!procs, cur, at, selected>> BY <1>2 DEF Lottery!count
  <2>. QED
    BY <2>1, <2>2, <2>3 DEF DrawInv, DrawTypes, Runs, Lottery!OneCPU, Lottery!procs
<1>3. ASSUME NEW c \in CPUs, Lottery!nobody(c) \/ Lottery!no_winner(c) PROVE DrawInv'
  <2>1. /\ at[c] \in {"count", "pick"} /\ Lottery!Reset(c) /\ Lottery!Goto(c, "idle")
        /\ UNCHANGED <<Lottery!procs, cur>>
    BY <1>3 DEF Lottery!nobody, Lottery!no_winner
  <2>2. DrawTypes'
    BY <2>1, ResetTypes DEF DrawInv, DrawTypes, Lottery!procs, Lottery!Goto
  <2>3. Runs'
    BY <2>1 DEF DrawInv, DrawTypes, Runs, Lottery!OneCPU, Lottery!procs, Lottery!Goto
  <2>. QED BY <2>1, <2>2, <2>3 DEF DrawInv, DrawTypes, Lottery!Reset, Lottery!Goto
<1>4. ASSUME NEW c \in CPUs, NEW w, Lottery!draw(c, w) PROVE DrawInv'
  BY <1>4 DEF DrawInv, DrawTypes, Runs, Lottery!OneCPU, Lottery!draw, Lottery!procs,
           Lottery!Goto
<1>5. ASSUME NEW c \in CPUs, Lottery!pick(c) PROVE DrawInv'
  <2>1. slot[c] \in Lottery!Procs /\ at[c] = "pick" /\ UNCHANGED <<Lottery!procs, cur, earliest>>
    BY <1>5 DEF DrawInv, DrawTypes, Lottery!pick, Lottery!Procs
  <2>2. CASE /\ selected' = [selected EXCEPT ![c] = Lottery!Entitled(c, slot[c])]
             /\ Lottery!InArray(tickets[slot[c]])
             /\ Lottery!Goto(c, "start") /\ UNCHANGED slot
    <3>1. Lottery!Entitled(c, slot[c]) \in Lottery!Procs
      <4>1. tickets[slot[c]] \in 0 .. NSLOTS - 1 BY <2>2 DEF Lottery!InArray
      <4>2. earliest[c][tickets[slot[c]]] \in Lottery!Procs \cup {None}
        BY <4>1 DEF DrawInv, DrawTypes
      <4>. QED BY <2>1, <4>2 DEF Lottery!Entitled
    <3>. HIDE DEF Lottery!Entitled
    <3>2. DrawTypes'
      BY <2>1, <2>2, <3>1 DEF DrawInv, DrawTypes, Lottery!procs, Lottery!Goto
    <3>3. Runs'
      BY <2>1, <2>2 DEF DrawInv, DrawTypes, Runs, Lottery!OneCPU, Lottery!procs,
               Lottery!Goto
    <3>4. ASSUME NEW d \in CPUs, at'[d] = "start" PROVE selected'[d] # None
      BY <2>2, <3>1, <3>4 DEF DrawInv, DrawTypes, Lottery!Goto, Lottery!Procs
    <3>. QED BY <3>2, <3>3, <3>4 DEF DrawInv
  <2>3. CASE UNCHANGED <<selected, at>> /\ slot' \in [CPUs -> 1 .. NSLOTS + 1]
    BY <2>1, <2>3 DEF DrawInv, DrawTypes, Runs, Lottery!OneCPU, Lottery!procs
  <2>4. [slot EXCEPT ![c] = @ + 1] \in [CPUs -> 1 .. NSLOTS + 1]
    BY <2>1 DEF DrawInv, DrawTypes, Lottery!Procs
  <2>. QED BY <1>5, <2>2, <2>3, <2>4 DEF Lottery!pick, DrawInv, DrawTypes
<1>6. ASSUME NEW c \in CPUs, Lottery!start(c) PROVE DrawInv'
  <2>1. selected[c] \in Lottery!Procs BY <1>6 DEF DrawInv, DrawTypes, Lottery!start
  <2>2. at[c] = "start" /\ Lottery!Reset(c) /\ UNCHANGED <<tickets, ctime, ticks>>
    BY <1>6 DEF Lottery!start
  <2>3. CASE state[selected[c]] = "RUNNABLE"
    <3>1. cur[c] = None /\ \A d \in CPUs : cur[d] # selected[c]
      BY <2>1, <2>2, <2>3 DEF DrawInv, DrawTypes, Runs
    <3>2. /\ state' = [state EXCEPT ![selected[c]] = "RUNNING"]
          /\ cur' = [cur EXCEPT ![c] = selected[c]]
          /\ Lottery!Goto(c, "run")
      BY <1>6, <2>3 DEF Lottery!start
    <3>3. DrawTypes'
      BY <2>1, <2>2, <3>2, ResetTypes DEF DrawInv, DrawTypes, Lottery!Goto
    <3>4. Runs'
      BY <2>1, <2>2, <3>1, <3>2 DEF DrawInv, DrawTypes, Runs, Lottery!OneCPU,
               Lottery!Goto, Lottery!Procs
    <3>. QED
      BY <2>2, <3>2, <3>3, <3>4 DEF DrawInv, DrawTypes, Lottery!Reset, Lottery!Goto
  <2>4. CASE state[selected[c]] # "RUNNABLE"
    <3>1. UNCHANGED <<state, cur>> /\ Lottery!Goto(c, "idle")
      BY <1>6, <2>4 DEF Lottery!start
    <3>2. DrawTypes' BY <2>2, <3>1, ResetTypes DEF DrawInv, DrawTypes, Lottery!Goto
    <3>3. Runs' BY <2>2, <3>1 DEF DrawInv, DrawTypes, Runs, Lottery!OneCPU, Lottery!Goto
    <3>. QED
      BY <2>2, <3>1, <3>2, <3>3 DEF DrawInv, DrawTypes, Lottery!Reset, Lottery!Goto
  <2>. QED BY <2>3, <2>4
<1>7. ASSUME NEW c \in CPUs, NEW s \in {"RUNNABLE", "SLEEPING", "UNUSED"}, Lottery!leave(c, s)
      PROVE  DrawInv'
  <2>1. cur[c] \in Lottery!Procs /\ at[c] = "run"
    BY <1>7 DEF DrawInv, DrawTypes, Runs, Lottery!leave
  <2>2. DrawTypes'
    BY <1>7, <2>1 DEF DrawInv, DrawTypes, Lottery!leave, Lottery!locals, Lottery!Goto
  <2>3. Runs'
    BY <1>7, <2>1 DEF DrawInv, DrawTypes, Runs, Lottery!OneCPU, Lottery!leave,
             Lottery!locals, Lottery!Goto, Lottery!Procs
  <2>. QED
    BY <1>7, <2>2, <2>3 DEF DrawInv, DrawTypes, Lottery!leave, Lottery!locals,
             Lottery!Goto
<1>8. ASSUME NEW c \in CPUs, NEW n \in Tickets, Lottery!settickets(c, n) PROVE DrawInv'
  <2>1. cur[c] \in Lottery!Procs
    BY <1>8 DEF DrawInv, DrawTypes, Runs, Lottery!settickets
  <2>. QED
    BY <1>8, <2>1 DEF DrawInv, DrawTypes, Runs, Lottery!OneCPU, Lottery!settickets,
             Lottery!locals
<1>9. ASSUME NEW c \in CPUs, NEW p \in Lottery!Procs, Lottery!fork(c, p) PROVE DrawInv'
  <2>1. cur[c] \in Lottery!Procs BY <1>9 DEF DrawInv, DrawTypes, Runs, Lottery!fork
  <2>. QED
    BY <1>9, <2>1 DEF DrawInv, DrawTypes, Runs, Lottery!OneCPU, Lottery!fork,
             Lottery!locals
<1>10. ASSUME NEW p \in Lottery!Procs, Lottery!wakeup(p) PROVE DrawInv'
  BY <1>10 DEF DrawInv, DrawTypes, Runs, Lottery!OneCPU, Lottery!wakeup, Lottery!locals
<1>11. CASE Lottery!tick
  <2>1. ctime' \in [Lottery!Procs -> 0 .. ticks']
    BY <1>11 DEF DrawInv, DrawTypes, Lottery!tick
  <2>. QED
    BY <1>11, <2>1 DEF DrawInv, DrawTypes, Runs, Lottery!OneCPU, Lottery!tick,
             Lottery!locals
<1>12. CASE UNCHANGED Lottery!vars
  BY <1>12 DEF DrawInv, DrawTypes, Runs, Lottery!OneCPU, Lottery!vars, Lottery!procs,
           Lottery!locals
<1>. QED
  BY <1>1, <1>2, <1>3, <1>4, <1>5, <1>6, <1>7, <1>8, <1>9, <1>10, <1>11, <1>12
    DEF Lottery!Next, Lottery!Scheduler

(* scheduler() with SCHEDULER=LBS picks its winner without a lock, on any  *)
(* number of CPUs at once, and looks again under p->lock: no process runs  *)
(* on two CPUs.                                                            *)
THEOREM WinnerRunsOnce == Lottery!LbsConstants => (Lottery!Spec => []Lottery!OneCPU)
<1>. SUFFICES ASSUME Lottery!LbsConstants PROVE Lottery!Spec => []Lottery!OneCPU
  OBVIOUS
<1>1. Lottery!Init => DrawInv BY DrawInit
<1>2. DrawInv /\ [Lottery!Next]_(Lottery!vars) => DrawInv' BY DrawStep
<1>3. DrawInv => Lottery!OneCPU BY DEF DrawInv, Runs
<1>. QED BY <1>1, <1>2, <1>3, PTL DEF Lottery!Spec

-------------------------------------------------------------------------------
(* Whom the walks find.  On one CPU, which runs nothing while it looks,    *)
(* the processes that were RUNNABLE when it began stay so.  Of those that  *)
(* the first walk has passed it knows the earliest for each number of      *)
(* tickets, and the one that the second walk selects is no later.          *)
Knows(c, q) ==
    Lottery!InArray(tickets[q]) =>
        /\ earliest[c][tickets[q]] # None
        /\ ctime[earliest[c][tickets[q]]] <= ctime[q]

WalkInv(c) ==
    /\ ready \in [CPUs -> SUBSET Lottery!Procs]
    /\ at[c] \in {"idle", "run"} => earliest[c] = Lottery!NoOne /\ slot[c] = 1
    /\ at[c] \in {"count", "pick", "start"} =>
         \A q \in ready[c] : state[q] = "RUNNABLE"
    /\ at[c] \in {"count", "pick"} =>
         \A n \in 0 .. NSLOTS - 1 : earliest[c][n] # None => tickets[earliest[c][n]] = n
    /\ at[c] = "count" => \A q \in ready[c] : q < slot[c] => Knows(c, q)
    /\ at[c] = "pick" => \A q \in ready[c] : Knows(c, q)
    /\ at[c] = "start" =>
         \A q \in ready[c] : tickets[q] = tickets[selected[c]] =>
             ctime[selected[c]] <= ctime[q]

LEMMA WalkInit ==
    ASSUME Lottery!LbsConstants, NEW c, CPUs = {c}
    PROVE  Lottery!Init => WalkInv(c)
BY DEF Lottery!Init, WalkInv, Lottery!Procs, Lottery!NoOne

LEMMA WalkStep ==
    ASSUME Lottery!LbsConstants, NEW c, CPUs = {c}
    PROVE  DrawInv /\ WalkInv(c) /\ [Lottery!Next]_(Lottery!vars) => WalkInv(c)'
<1>. SUFFICES ASSUME DrawInv, WalkInv(c), [Lottery!Next]_(Lottery!vars) PROVE WalkInv(c)'
  OBVIOUS
<1>. USE DEF Lottery!LbsConstants
<1>. c \in CPUs OBVIOUS
<1>1. CASE Lottery!begin(c)
  BY <1>1 DEF DrawInv, DrawTypes, WalkInv, Lottery!begin, Lottery!procs, Lottery!locals,
           Lottery!Goto, Lottery!Runnable, Lottery!Procs, Lottery!NoOne
<1>2. CASE Lottery!count(c)
  <2>. DEFINE p == slot[c]
              n == tickets[p]
              e == earliest[c][n]
  <2>1. p \in Lottery!Procs /\ at[c] = "count" /\ UNCHANGED <<Lottery!procs, cur, at, selected, ready>>
    BY <1>2 DEF DrawInv, DrawTypes, Lottery!count, Lottery!Procs
  <2>2. slot'[c] = p + 1 BY <1>2 DEF DrawInv, DrawTypes, Lottery!count
  <2>3. CASE UNCHANGED earliest /\ (state[p] # "RUNNABLE" \/ ~Lottery!InArray(n))
    <3>1. ASSUME NEW q \in ready[c], q < p + 1 PROVE Knows(c, q)
      BY <2>1, <2>3, <3>1 DEF WalkInv, Knows, Lottery!Procs
    <3>. QED
      BY <2>1, <2>2, <2>3, <3>1 DEF WalkInv, Knows, Lottery!procs, DrawTypes, DrawInv
  <2>4. CASE /\ state[p] = "RUNNABLE" /\ Lottery!InArray(n)
             /\ earliest' = [earliest EXCEPT ![c][n] =
                               IF e = None THEN p ELSE IF ctime[p] < ctime[e] THEN p ELSE e]
    <3>. DEFINE f == IF e = None THEN p ELSE IF ctime[p] < ctime[e] THEN p ELSE e
    <3>1. e \in Lottery!Procs \cup {None} /\ n \in 0 .. NSLOTS - 1 /\ (e # None =>
          tickets[e] = n)
      BY <2>1, <2>4 DEF DrawInv, DrawTypes, Lottery!InArray, WalkInv
    <3>2. /\ f \in Lottery!Procs /\ tickets[f] = n
          /\ ctime[f] <= ctime[p] /\ (e # None => ctime[f] <= ctime[e])
      BY <2>1, <3>1 DEF DrawInv, DrawTypes
    <3>3. earliest'[c] = [earliest[c] EXCEPT ![n] = f] BY <2>4 DEF DrawInv, DrawTypes
    <3>. HIDE DEF f
    <3>4. \A m \in 0 .. NSLOTS - 1 : earliest'[c][m] = IF m = n THEN f ELSE earliest[c][m]
      BY <3>3 DEF DrawInv, DrawTypes
    <3>5. \A m \in 0 .. NSLOTS - 1 : earliest'[c][m] # None => tickets[earliest'[c][m]] = m
      BY <2>1, <3>2, <3>4 DEF WalkInv
    <3>6. ASSUME NEW q \in ready[c], q < p + 1, Lottery!InArray(tickets[q])
          PROVE  /\ earliest'[c][tickets[q]] # None
                 /\ ctime[earliest'[c][tickets[q]]] <= ctime[q]
      <4>1. q \in Lottery!Procs /\ tickets[q] \in 0 .. NSLOTS - 1
        BY <3>6 DEF WalkInv, Lottery!InArray
      <4>2. CASE q = p BY <3>2, <3>4, <4>1, <4>2 DEF Lottery!Procs
      <4>3. CASE q # p
        <5>1. Knows(c, q) BY <2>1, <3>6, <4>1, <4>3 DEF WalkInv, Lottery!Procs
        <5>2. earliest[c][tickets[q]] \in Lottery!Procs
          BY <3>6, <4>1, <5>1 DEF Knows, DrawInv, DrawTypes
        <5>3. CASE tickets[q] = n
          <6>1. e # None /\ ctime[e] <= ctime[q] BY <3>6, <5>1, <5>3 DEF Knows
          <6>2. ctime[f] <= ctime[e] /\ {ctime[f], ctime[e], ctime[q]} \subseteq Int
            BY <3>2, <4>1, <5>2, <5>3, <6>1 DEF DrawInv, DrawTypes
          <6>3. ctime[f] <= ctime[q] BY <6>1, <6>2
          <6>. QED
            BY <3>2, <3>4, <4>1, <5>3, <6>3 DEF Lottery!LbsConstants, Lottery!Procs
        <5>4. CASE tickets[q] # n BY <3>4, <3>6, <4>1, <5>1, <5>4 DEF Knows
        <5>. QED BY <5>3, <5>4
      <4>. QED BY <4>2, <4>3
    <3>. QED BY <2>1, <2>2, <3>5, <3>6 DEF WalkInv, Knows, Lottery!procs
  <2>. QED BY <1>2, <2>3, <2>4 DEF Lottery!count
<1>3. CASE Lottery!nobody(c) \/ Lottery!no_winner(c)
  <2>1. /\ Lottery!Reset(c) /\ Lottery!Goto(c, "idle") /\ UNCHANGED ready
    BY <1>3 DEF Lottery!nobody, Lottery!no_winner
  <2>2. at'[c] = "idle" /\ earliest'[c] = Lottery!NoOne /\ slot'[c] = 1
    BY <2>1 DEF Lottery!Reset, Lottery!Goto, DrawInv, DrawTypes
  <2>. QED BY <2>1, <2>2 DEF WalkInv, Lottery!NoOne
<1>4. ASSUME NEW w, Lottery!draw(c, w) PROVE WalkInv(c)'
  <2>1. /\ at[c] = "count" /\ slot[c] > NSLOTS /\ at'[c] = "pick"
        /\ UNCHANGED <<Lottery!procs, earliest, ready>>
    BY <1>4 DEF Lottery!draw, Lottery!Goto, DrawInv, DrawTypes
  <2>2. \A q \in ready[c] : Knows(c, q)
    BY <2>1 DEF WalkInv, DrawInv, DrawTypes, Lottery!Procs
  <2>. QED BY <2>1, <2>2 DEF WalkInv, Knows, Lottery!procs
<1>5. CASE Lottery!pick(c)
  <2>. DEFINE p == slot[c]
              e == earliest[c][tickets[p]]
  <2>1. p \in Lottery!Procs /\ at[c] = "pick" /\ UNCHANGED <<Lottery!procs, cur, earliest, ready>>
    BY <1>5 DEF DrawInv, DrawTypes, Lottery!pick, Lottery!Procs
  <2>2. CASE selected' = [selected EXCEPT ![c] = Lottery!Entitled(c, p)] /\ Lottery!InArray(tickets[p])
             /\ Lottery!Goto(c, "start")
    <3>1. tickets[p] \in 0 .. NSLOTS - 1 BY <2>2 DEF Lottery!InArray
    <3>2. e \in Lottery!Procs \cup {None} /\ (e # None => tickets[e] = tickets[p])
      BY <2>1, <3>1 DEF DrawInv, DrawTypes, WalkInv
    <3>3. selected'[c] = Lottery!Entitled(c, p) /\ at'[c] = "start"
      BY <2>2 DEF Lottery!Goto, DrawInv, DrawTypes
    <3>4. ASSUME NEW q \in ready[c], tickets[q] = tickets[Lottery!Entitled(c, p)]
          PROVE  ctime[Lottery!Entitled(c, p)] <= ctime[q]
      <4>1. Knows(c, q) /\ q \in Lottery!Procs BY <2>1 DEF WalkInv
      <4>2. tickets[q] = tickets[p] BY <3>2, <3>4 DEF Lottery!Entitled
      <4>3. e # None /\ ctime[e] <= ctime[q] BY <2>2, <4>1, <4>2 DEF Knows
      <4>. QED BY <2>1, <3>2, <4>1, <4>3 DEF Lottery!Entitled, DrawInv, DrawTypes
    <3>. QED BY <2>1, <3>3, <3>4 DEF WalkInv, Lottery!procs
  <2>3. CASE UNCHANGED <<selected, at>>
    BY <2>1, <2>3 DEF WalkInv, Knows, Lottery!procs
  <2>. QED BY <1>5, <2>2, <2>3 DEF Lottery!pick
<1>6. CASE Lottery!start(c)
  <2>1. Lottery!Reset(c) /\ at'[c] \in {"run", "idle"}
    BY <1>6 DEF Lottery!start, Lottery!Goto, DrawInv, DrawTypes
  <2>2. earliest'[c] = Lottery!NoOne /\ slot'[c] = 1
    BY <2>1 DEF Lottery!Reset, DrawInv, DrawTypes
  <2>3. ready' \in [CPUs -> SUBSET Lottery!Procs] BY <1>6 DEF Lottery!start, WalkInv
  <2>. QED BY <2>1, <2>2, <2>3 DEF WalkInv, Lottery!NoOne
<1>7. ASSUME NEW s, Lottery!leave(c, s) PROVE WalkInv(c)'
  BY <1>7 DEF Lottery!leave, WalkInv, DrawInv, DrawTypes, Lottery!locals, Lottery!Goto
<1>8. ASSUME NEW n, Lottery!settickets(c, n) PROVE WalkInv(c)'
  BY <1>8 DEF Lottery!settickets, WalkInv, DrawInv, DrawTypes, Lottery!locals
<1>9. ASSUME NEW p, Lottery!fork(c, p) PROVE WalkInv(c)'
  BY <1>9 DEF Lottery!fork, WalkInv, DrawInv, DrawTypes, Lottery!locals
<1>10. ASSUME NEW p \in Lottery!Procs, Lottery!wakeup(p) PROVE WalkInv(c)'
  <2>1. UNCHANGED <<tickets, ctime, at, slot, Lottery!locals, ready>>
    BY <1>10 DEF Lottery!wakeup
  <2>2. \A q \in Lottery!Procs : state[q] = "RUNNABLE" => state'[q] = "RUNNABLE"
    BY <1>10 DEF Lottery!wakeup, DrawInv, DrawTypes
  <2>. QED BY <2>1, <2>2 DEF WalkInv, Knows, Lottery!locals
<1>11. CASE Lottery!tick
  BY <1>11 DEF Lottery!tick, WalkInv, Knows, Lottery!locals
<1>12. CASE UNCHANGED Lottery!vars
  BY <1>12 DEF Lottery!vars, WalkInv, Knows, Lottery!procs, Lottery!locals
<1>. QED
  BY <1>1, <1>2, <1>3, <1>4, <1>5, <1>6, <1>7, <1>8, <1>9, <1>10, <1>11, <1>12
    DEF Lottery!Next, Lottery!Scheduler

(* On one CPU the draw is fair to who waits: scheduler() starts no process *)
(* while another one with as many tickets, which came before it, has been  *)
(* waiting since the first walk began.                                     *)
THEOREM EarliestWins ==
    Lottery!LbsConstants /\ (\E c : CPUs = {c}) => (Lottery!Spec => Lottery!EarliestFirst)
<1>. SUFFICES ASSUME Lottery!LbsConstants, NEW c, CPUs = {c}
              PROVE  Lottery!Spec => Lottery!EarliestFirst
  OBVIOUS
<1>1. DrawInv /\ WalkInv(c) /\ [Lottery!Next]_(Lottery!vars) =>
      [Lottery!StartsEarliest]_(Lottery!vars)
  <2>. SUFFICES ASSUME DrawInv, WalkInv(c), Lottery!Next, cur[c] = None, cur'[c] # None
                PROVE  \A q \in ready[c] :
                         tickets[q] = tickets[cur'[c]] => ctime[cur'[c]] <= ctime[q]
    BY DEF Lottery!StartsEarliest, Lottery!vars
  <2>1. Lottery!start(c)
    <3>1. cur' # cur OBVIOUS
    <3>2. ASSUME NEW s, Lottery!leave(c, s) PROVE FALSE
      BY <3>2 DEF Lottery!leave, DrawInv, DrawTypes
    <3>. QED
      BY <3>1, <3>2 DEF Lottery!Next, Lottery!Scheduler, Lottery!begin, Lottery!count,
               Lottery!nobody, Lottery!draw, Lottery!pick, Lottery!no_winner,
         Lottery!settickets, Lottery!fork, Lottery!wakeup, Lottery!tick
  <2>2. cur'[c] = selected[c] /\ at[c] = "start"
    BY <2>1 DEF Lottery!start, DrawInv, DrawTypes
  <2>. QED BY <2>2 DEF WalkInv
<1>2. Lottery!Init => DrawInv BY DrawInit
<1>5. DrawInv /\ [Lottery!Next]_(Lottery!vars) => DrawInv' BY DrawStep
<1>3. Lottery!Init => WalkInv(c) BY WalkInit
<1>4. DrawInv /\ WalkInv(c) /\ [Lottery!Next]_(Lottery!vars) => WalkInv(c)' BY WalkStep
<1>. QED BY <1>1, <1>2, <1>3, <1>4, <1>5, PTL DEF Lottery!Spec, Lottery!EarliestFirst
-------------------------------------------------------------------------------
(* The times of processes.                                                 *)

(* The least of a finite set of numbers is one of them.                    *)
LEMMA MinIsElement ==
    ASSUME NEW S, IsFiniteSet(S), S \subseteq Int, S # {}
    PROVE  Min(S) \in S
BY FirstIsLeast DEF Feedback!First, Min
-------------------------------------------------------------------------------
Owed(p) == IF p \in todo THEN 1 ELSE 0

Charged(p) ==
    /\ state[p] \notin {"UNUSED", "ZOMBIE"} => rtime[p] + Owed(p) <= ticks - ctime[p]
    /\ state[p] = "ZOMBIE" => rtime[p] <= etime[p] - ctime[p]

(* On one CPU, with the timer's charge only: a process has not run for     *)
(* more ticks than there have been since it was made, and update_time has  *)
(* one of these still to charge while it has not come to the slot.         *)
ChargeInv ==
    /\ state \in [Times!Slots -> {"UNUSED", "USED", "RUNNABLE", "RUNNING", "SLEEPING", "ZOMBIE"}]
    /\ ticks \in Nat
    /\ {ctime, etime, rtime} \subseteq [Times!Slots -> Nat]
    /\ cur \in [CPUs -> Times!Slots \cup {None}]
    /\ \A c \in CPUs : cur[c] # None => state[cur[c]] = "RUNNING"
    /\ todo \subseteq Times!Slots
    /\ trap \in [CPUs -> {FALSE}]
    /\ \A p \in Times!Slots : Charged(p)

LEMMA ChargeInit ==
    ASSUME Times!PtimeConstants
    PROVE  Times!Init => ChargeInv
BY DEF Times!Init, ChargeInv, Times!Slots, Times!initslot, Charged, Owed

LEMMA ChargeStep ==
    ASSUME Times!PtimeConstants
    PROVE  CPUs = {cpu0} /\ ~Mlfq => (ChargeInv /\ [Times!Next]_(Times!vars) => ChargeInv')
<1>. SUFFICES ASSUME CPUs = {cpu0}, ~Mlfq, ChargeInv, [Times!Next]_(Times!vars)
              PROVE  ChargeInv'
  OBVIOUS
<1>. USE DEF Times!PtimeConstants
<1>1. ASSUME NEW c \in CPUs, NEW p \in Times!Slots, Times!dispatch(c, p) PROVE ChargeInv'
  BY <1>1 DEF ChargeInv, Times!dispatch, Times!times, Charged, Owed, Times!Slots
<1>2. ASSUME NEW c \in CPUs, NEW s \in {"RUNNABLE", "SLEEPING"}, Times!leave(c, s)
      PROVE  ChargeInv'
  <2>1. cur[c] \in Times!Slots BY <1>2 DEF ChargeInv, Times!leave
  <2>. QED
    BY <1>2, <2>1 DEF ChargeInv, Times!leave, Times!times, Charged, Owed, Times!Slots
<1>3. ASSUME NEW p \in Times!Slots, Times!wakeup(p) \/ Times!fork_run(p) PROVE ChargeInv'
  <2>1. /\ state[p] \in {"SLEEPING", "USED"} /\ state' = [state EXCEPT ![p] = "RUNNABLE"]
        /\ UNCHANGED <<Times!times, cur, ticks, todo, trap>>
    BY <1>3 DEF Times!wakeup, Times!fork_run
  <2>2. \A q \in Times!Slots : Charged(q)'
    BY <2>1 DEF ChargeInv, Charged, Owed, Times!times
  <2>. QED BY <2>1, <2>2 DEF ChargeInv, Times!times
<1>4. ASSUME NEW c \in CPUs, NEW p \in Times!Slots, Times!allocproc(c, p) PROVE ChargeInv'
  <2>1. todo = {} BY <1>4 DEF Times!allocproc, Times!Free
  <2>2. \A q \in Times!Slots : Charged(q)'
    BY <1>4, <2>1 DEF ChargeInv, Times!allocproc, Charged, Owed
  <2>. QED BY <1>4, <2>1, <2>2 DEF ChargeInv, Times!allocproc
<1>5. ASSUME NEW c \in CPUs, Times!exit(c) PROVE ChargeInv'
  <2>1. todo = {} BY <1>5 DEF Times!exit, Times!Free
  <2>2. cur[c] \in Times!Slots BY <1>5 DEF ChargeInv, Times!exit
  <2>3. /\ state[cur[c]] = "RUNNING" /\ state' = [state EXCEPT ![cur[c]] = "ZOMBIE"]
        /\ etime' = [etime EXCEPT ![cur[c]] = ticks] /\ cur' = [cur EXCEPT ![c] = None]
        /\ UNCHANGED <<ctime, rtime, ticks, todo, trap>>
    BY <1>5 DEF Times!exit, ChargeInv
  <2>4. \A q \in Times!Slots : Charged(q)'
    BY <2>1, <2>2, <2>3 DEF ChargeInv, Charged, Owed
  <2>. QED BY <2>1, <2>2, <2>3, <2>4 DEF ChargeInv
<1>6. ASSUME NEW c \in CPUs, NEW p \in Times!Slots, Times!waitx(c, p) PROVE ChargeInv'
  BY <1>6 DEF ChargeInv, Times!waitx, Times!times, Charged, Owed, Times!Slots
<1>7. ASSUME NEW c \in CPUs, Times!timer(c) PROVE ChargeInv'
  <2>1. c = cpu0 /\ todo = {} /\ ticks' = ticks + 1 /\ todo' = Times!Slots
    BY <1>7 DEF Times!timer, Times!Free
  <2>2. trap' \in [CPUs -> {FALSE}] BY <1>7 DEF Times!timer, ChargeInv
  <2>3. UNCHANGED <<state, Times!times, cur>> BY <1>7 DEF Times!timer
  <2>4. \A q \in Times!Slots : Charged(q)'
    BY <2>1, <2>3 DEF ChargeInv, Charged, Owed, Times!times
  <2>. QED BY <2>1, <2>2, <2>3, <2>4 DEF ChargeInv, Times!times
<1>8. CASE Times!update_time
  <2>. DEFINE p == Min(todo)
  <2>1. p \in todo
    <3>1. IsFiniteSet(Times!Slots) BY FS_Interval DEF Times!Slots
    <3>2. IsFiniteSet(todo) BY <3>1, FS_Subset DEF ChargeInv
    <3>3. todo \subseteq Int BY DEF ChargeInv, Times!Slots
    <3>. QED BY <1>8, <3>2, <3>3, MinIsElement DEF Times!update_time
  <2>. HIDE DEF p
  <2>2. /\ rtime' = [rtime EXCEPT ![p] = IF state[p] = "RUNNING" THEN rtime[p] + 1 ELSE rtime[p]]
        /\ todo' = todo \ {p}
        /\ UNCHANGED <<state, ctime, etime, cur, ticks, trap, intrs>>
    BY <1>8 DEF Times!update_time, Times!Min, Min, p
  <2>. QED BY <2>1, <2>2 DEF ChargeInv, Charged, Owed
<1>9. ASSUME NEW c \in CPUs, Times!usertrap(c) PROVE ChargeInv'
  BY <1>9 DEF ChargeInv, Times!usertrap
<1>10. CASE UNCHANGED Times!vars
  BY <1>10 DEF ChargeInv, Times!vars, Times!times, Charged, Owed
<1>. QED
  BY <1>1, <1>2, <1>3, <1>4, <1>5, <1>6, <1>7, <1>8, <1>9, <1>10 DEF Times!Next

(* allocproc, exit and update_time: on one CPU, without the second count   *)
(* of MLFQ, no process ran longer than it existed, so that the wait time   *)
(* that waitx computes does not wrap.                                      *)
THEOREM WaitTimes ==
    Times!PtimeConstants /\ CPUs = {cpu0} /\ ~Mlfq => (Times!Spec => []Times!WaitTimeFits)
<1>. SUFFICES ASSUME Times!PtimeConstants, CPUs = {cpu0}, ~Mlfq
              PROVE  Times!Spec => []Times!WaitTimeFits
  OBVIOUS
<1>1. ChargeInv /\ [Times!Next]_(Times!vars) => ChargeInv' BY ChargeStep
<1>2. ChargeInv => Times!WaitTimeFits BY DEF ChargeInv, Charged, Times!WaitTimeFits
<1>3. Times!Init => ChargeInv BY ChargeInit
<1>. QED BY <1>1, <1>2, <1>3, PTL DEF Times!Spec
===============================================================================
