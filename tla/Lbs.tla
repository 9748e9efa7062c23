---------------------------------- MODULE Lbs ---------------------------------
(***************************************************************************)
(* The lottery scheduler of kernel/proc.c (SCHEDULER=LBS).  A CPU walks    *)
(* the process table twice: once, slot by slot under p->lock, to add up    *)
(* the tickets of the RUNNABLE processes and to note the earliest process  *)
(* of every number of tickets, and, after the draw, without locks, to find *)
(* the winner.  Interrupts are on, so that processes wake up in between.   *)
(*                                                                         *)
(* rand() is a free choice among its remainders.  It is a linear           *)
(* congruential generator of full period 2^32, so that a process set that  *)
(* does not change sees every remainder again and again (see Fairness).    *)
(*                                                                         *)
(* Processes are numbered as their slots are.                              *)
(* Operators with a suffix (_TestFirst...) are faulty variants of the         *)
(* operator that follows; no specification uses them.                      *)
(***************************************************************************)
EXTENDS Integers, FiniteSets

CONSTANTS
    NPROC, CPUs,
    Tickets,     \* what settickets is called with
    MaxTicks,    \* ticks differ only in their order: model bound
    Busy,        \* whether processes only compute, and neither block nor exit
    None

LbsConstants ==
    /\ NPROC \in Nat \ {0} /\ None \notin 1 .. NPROC
    /\ Tickets \subseteq Int /\ MaxTicks \in Nat /\ Busy \in BOOLEAN

VARIABLES
    state, tickets, ctime,
    ticks,
    cur,        \* c->proc
    at,         \* per CPU: count, draw, pick, start or run
    slot,       \* per CPU: the slot the walk has come to
    total, winner, counter, earliest, selected,  \* scheduler()'s locals
    ready,      \* not in the code: RUNNABLE ever since the first walk began
    wild        \* earliest_proc was indexed out of its bounds

locals == <<total, winner, counter, earliest, selected>>
procs == <<state, tickets, ctime, ticks>>
vars == <<procs, cur, at, slot, locals, ready, wild>>

Procs == 1 .. NPROC
initslot == 1
NoOne == [n \in 0 .. NPROC - 1 |-> None]

Init ==
    /\ state = [p \in Procs |-> IF p = initslot THEN "RUNNABLE" ELSE "UNUSED"]
    /\ tickets = [p \in Procs |-> 1]
    /\ ctime = [p \in Procs |-> 0]
    /\ ticks = 0
    /\ cur = [c \in CPUs |-> None]
    /\ at = [c \in CPUs |-> "idle"]
    /\ slot = [c \in CPUs |-> 1]
    /\ total = [c \in CPUs |-> 0]
    /\ winner = [c \in CPUs |-> 0]
    /\ counter = [c \in CPUs |-> 0]
    /\ earliest = [c \in CPUs |-> NoOne]
    /\ selected = [c \in CPUs |-> None]
    /\ ready = [c \in CPUs |-> {}]
    /\ wild = FALSE

Runnable == {p \in Procs : state[p] = "RUNNABLE"}
InArray(n) == n \in 0 .. NPROC - 1
Goto(c, l) == at' = [at EXCEPT ![c] = l]

(* Back to the top of the loop, where the locals are initialised. *)
Reset(c) ==
    /\ slot' = [slot EXCEPT ![c] = 1]
    /\ total' = [total EXCEPT ![c] = 0]
    /\ winner' = [winner EXCEPT ![c] = 0]
    /\ counter' = [counter EXCEPT ![c] = 0]
    /\ earliest' = [earliest EXCEPT ![c] = NoOne]
    /\ selected' = [selected EXCEPT ![c] = None]
-------------------------------------------------------------------------------
begin(c) ==
    /\ at[c] = "idle"
    /\ ready' = [ready EXCEPT ![c] = Runnable]
    /\ Goto(c, "count")
    /\ UNCHANGED <<procs, cur, slot, locals, wild>>

(* The first walk. *)
count(c) ==
    /\ at[c] = "count" /\ slot[c] <= NPROC
    /\ LET p == slot[c]
           n == tickets[p]
           e == earliest[c][n] IN
       IF state[p] # "RUNNABLE" THEN UNCHANGED <<total, earliest, wild>>
       ELSE /\ total' = [total EXCEPT ![c] = @ + n]
            /\ IF InArray(n)
               THEN /\ earliest' = [earliest EXCEPT ![c][n] =
                                      IF e = None THEN p ELSE IF ctime[p] < ctime[e] THEN p ELSE e]
                    /\ UNCHANGED wild
               ELSE wild' = TRUE /\ UNCHANGED earliest
    /\ slot' = [slot EXCEPT ![c] = @ + 1]
    /\ UNCHANGED <<procs, cur, at, winner, counter, selected, ready>>

nobody(c) ==
    /\ at[c] = "count" /\ slot[c] > NPROC /\ total[c] = 0
    /\ Reset(c) /\ Goto(c, "idle")
    /\ UNCHANGED <<procs, cur, ready, wild>>

(* winner = rand() % total_tickets *)
draw(c, w) ==
    /\ at[c] = "count" /\ slot[c] > NPROC /\ w \in 0 .. total[c] - 1
    /\ winner' = [winner EXCEPT ![c] = w]
    /\ slot' = [slot EXCEPT ![c] = 1]
    /\ Goto(c, "pick")
    /\ UNCHANGED <<procs, cur, total, counter, earliest, selected, ready, wild>>

(* The second walk. *)
Entitled(c, p) ==
    LET e == earliest[c][tickets[p]] IN
    IF e = None THEN p ELSE IF ctime[e] < ctime[p] THEN e ELSE p

pick_TestFirst(c) ==
    /\ at[c] = "pick" /\ slot[c] <= NPROC
    /\ LET p == slot[c] IN
       \/ /\ state[p] = "RUNNABLE" /\ counter[c] > winner[c]
          /\ selected' = [selected EXCEPT ![c] = Entitled(c, p)]
          /\ Goto(c, "start")
          /\ UNCHANGED <<counter, slot>>
       \/ /\ state[p] = "RUNNABLE" => counter[c] <= winner[c]
          /\ counter' = [counter EXCEPT ![c] =
                            IF state[p] = "RUNNABLE" THEN @ + tickets[p] ELSE @]
          /\ slot' = [slot EXCEPT ![c] = @ + 1]
          /\ UNCHANGED <<selected, at>>
    /\ UNCHANGED <<procs, cur, total, winner, earliest, ready, wild>>
pick(c) ==
    /\ at[c] = "pick" /\ slot[c] <= NPROC
    /\ LET p == slot[c]
           sum == counter[c] + tickets[p] IN
       \/ /\ state[p] = "RUNNABLE" /\ sum > winner[c] /\ InArray(tickets[p])
          /\ selected' = [selected EXCEPT ![c] = Entitled(c, p)]
          /\ Goto(c, "start")
          /\ UNCHANGED <<counter, slot, wild>>
       \/ /\ state[p] = "RUNNABLE" /\ sum > winner[c] /\ ~InArray(tickets[p])
          /\ wild' = TRUE
          /\ UNCHANGED <<counter, slot, selected, at>>
       \/ /\ state[p] = "RUNNABLE" => sum <= winner[c]
          /\ counter' = [counter EXCEPT ![c] = IF state[p] = "RUNNABLE" THEN sum ELSE @]
          /\ slot' = [slot EXCEPT ![c] = @ + 1]
          /\ UNCHANGED <<selected, at, wild>>
    /\ UNCHANGED <<procs, cur, total, winner, earliest, ready>>

no_winner(c) ==
    /\ at[c] = "pick" /\ slot[c] > NPROC
    /\ Reset(c) /\ Goto(c, "idle")
    /\ UNCHANGED <<procs, cur, ready, wild>>

start(c) ==
    /\ at[c] = "start"
    /\ LET p == selected[c] IN
       IF state[p] = "RUNNABLE"
       THEN /\ state' = [state EXCEPT ![p] = "RUNNING"]
            /\ cur' = [cur EXCEPT ![c] = p]
            /\ ready' = [d \in CPUs |-> ready[d] \ {p}]
            /\ Goto(c, "run")
       ELSE UNCHANGED <<state, cur, ready>> /\ Goto(c, "idle")
    /\ Reset(c)
    /\ UNCHANGED <<tickets, ctime, ticks, wild>>
-------------------------------------------------------------------------------
(* The process that runs: it yields, sleeps, exits, forks, sets its        *)
(* tickets; and processes wake up.                                         *)
leave(c, s) ==
    /\ at[c] = "run"
    /\ cur[c] = initslot => s # "UNUSED"
    /\ Busy => s = "RUNNABLE"
    /\ state' = [state EXCEPT ![cur[c]] = s]
    /\ cur' = [cur EXCEPT ![c] = None]
    /\ Goto(c, "idle")
    /\ UNCHANGED <<tickets, ctime, ticks, slot, locals, ready, wild>>

settickets(c, n) ==
    /\ at[c] = "run" /\ n > 0
    /\ tickets' = [tickets EXCEPT ![cur[c]] = n]
    /\ UNCHANGED <<state, ctime, ticks, cur, at, slot, locals, ready, wild>>

fork(c, p) ==
    /\ at[c] = "run" /\ state[p] = "UNUSED"
    /\ state' = [state EXCEPT ![p] = "RUNNABLE"]
    /\ tickets' = [tickets EXCEPT ![p] = tickets[cur[c]]]
    /\ ctime' = [ctime EXCEPT ![p] = ticks]
    /\ UNCHANGED <<ticks, cur, at, slot, locals, ready, wild>>

wakeup(p) ==
    /\ state[p] = "SLEEPING"
    /\ state' = [state EXCEPT ![p] = "RUNNABLE"]
    /\ UNCHANGED <<tickets, ctime, ticks, cur, at, slot, locals, ready, wild>>

tick ==
    /\ ticks < MaxTicks
    /\ ticks' = ticks + 1
    /\ UNCHANGED <<state, tickets, ctime, cur, at, slot, locals, ready, wild>>

Scheduler(c) == begin(c) \/ count(c) \/ nobody(c) \/ pick(c) \/ no_winner(c) \/ start(c)

(* Nothing can be said of what follows an access out of bounds. *)
Next ==
    /\ ~wild
    /\ \/ \E c \in CPUs :
            \/ Scheduler(c)
            \/ \E w \in 0 .. total[c] - 1 : draw(c, w)
            \/ \E s \in {"RUNNABLE", "SLEEPING", "UNUSED"} : leave(c, s)
            \/ \E n \in Tickets : settickets(c, n)
            \/ \E p \in Procs : fork(c, p)
       \/ \E p \in Procs : wakeup(p)
       \/ tick

Spec == Init /\ [][Next]_vars

(* Timer interrupts make processes yield, and every ticket is drawn again  *)
(* and again, see above.                                                   *)
MaxTotal == NPROC * (NPROC - 1)
Fairness ==
    \A c \in CPUs :
        /\ WF_vars(~wild /\ (Scheduler(c) \/ leave(c, "RUNNABLE")))
        /\ \A w \in 0 .. MaxTotal : SF_vars(~wild /\ draw(c, w))
FairSpec == Spec /\ Fairness
-------------------------------------------------------------------------------
TypeOK ==
    /\ state \in [Procs -> {"UNUSED", "RUNNABLE", "RUNNING", "SLEEPING"}]
    /\ tickets \in [Procs -> Tickets \cup {1}]
    /\ ctime \in [Procs -> 0 .. ticks]
    /\ cur \in [CPUs -> Procs \cup {None}]
    /\ at \in [CPUs -> {"idle", "count", "pick", "start", "run"}]
    /\ slot \in [CPUs -> 1 .. NPROC + 1]
    /\ earliest \in [CPUs -> [0 .. NPROC - 1 -> Procs \cup {None}]]
    /\ \A c \in CPUs : at[c] = "run" <=> cur[c] # None
    /\ \A p \in Procs : state[p] = "RUNNING" <=> \E c \in CPUs : cur[c] = p

(* No process runs on two CPUs, although both may have picked it without   *)
(* holding its lock.                                                       *)
OneCPU == \A c, d \in CPUs : cur[c] = cur[d] /\ cur[c] # None => c = d

(* The array earliest_proc (proc.c:703) has an entry for every number of   *)
(* tickets that settickets accepts.                                        *)
InBounds == ~wild

(* README.md:294: "If multiple processes have the same number of tickets,  *)
(* the process that arrived earlier gets the priority": no process starts  *)
(* while one with as many tickets that arrived before it has been waiting  *)
(* since the scheduler began to look.                                      *)
StartsEarliest ==
    \A c \in CPUs :
        cur[c] = None /\ cur'[c] # None =>
            \A q \in ready[c] : tickets[q] = tickets[cur'[c]] => ctime[cur'[c]] <= ctime[q]
EarliestFirst == [][StartsEarliest]_vars

(* The winning ticket belongs to somebody: the second walk never comes to  *)
(* the end of the table when no other CPU takes processes away.            *)
SomebodyWins == \A c \in CPUs : ~(at[c] = "pick" /\ slot[c] > NPROC)

(* README.md:294: "allocation of CPU time is proportional to the number of *)
(* tickets a process holds": a process that can run runs in the end.       *)
EveryoneRuns == \A p \in Procs : state[p] = "RUNNABLE" ~> state[p] # "RUNNABLE" \/ wild
===============================================================================
