------------------------------- MODULE Syscount -------------------------------
(***************************************************************************)
(* The count of one system call that every process keeps for getsyscount() *)
(* (kernel/syscall.c, kernel/proc.c): p->syscalls[num]++ in syscall(), with *)
(* interrupts on and without p->lock, and the transfer that exit() makes   *)
(* to the parent under the parent's lock.                                  *)
(*                                                                         *)
(* The parent is fixed when the transfer begins: what happens when it       *)
(* changes in between is a question of Proc.  The slots of the process     *)
(* table are not reused.  calls is not in the code: it is what the counts  *)
(* ought to add up to, a process's own calls.                              *)
(*                                                                         *)
(* Operators with a suffix (_NoLock) are faulty variants of the operator   *)
(* that follows; no specification uses them.                               *)
(***************************************************************************)
EXTENDS Integers, FiniteSets, FiniteSetsExt

CONSTANTS
    Procs, init,
    Parent0,      \* the process tree: a function from Procs \ {init} to Procs
    MaxCalls,     \* calls each process makes (model bound)
    ParentsWait,  \* whether a process with children only waits for them (and
                  \* the call counted is another one than wait)
    None

SyscountConstants ==
    /\ init \in Procs /\ None \notin Procs
    /\ Parent0 \in [Procs \ {init} -> Procs]
    /\ MaxCalls \in Nat /\ ParentsWait \in BOOLEAN

VARIABLES
    count,   \* p->syscalls[num]
    parent,  \* p->parent, None once p is reaped
    lock,    \* holder of p->lock, as far as the transfers take it
    pc,      \* user -> called -> user; user -> exit -> locked -> moved -> zombie -> gone
    reg,     \* what the process has read and not stored back yet
    calls    \* calls made by p so far

vars == <<count, parent, lock, pc, reg, calls>>

Init ==
    /\ count = [p \in Procs |-> 0]
    /\ parent = [p \in Procs |-> IF p = init THEN None ELSE Parent0[p]]
    /\ lock = [p \in Procs |-> None]
    /\ pc = [p \in Procs |-> "user"]
    /\ reg = [p \in Procs |-> 0]
    /\ calls = [p \in Procs |-> 0]

Goto(p, l) == pc' = [pc EXCEPT ![p] = l]
Children(p) == {c \in Procs : parent[c] = p}
-------------------------------------------------------------------------------
(* syscall: load and store of p->syscalls[num]++. *)
syscall(p) ==
    /\ pc[p] = "user" /\ calls[p] < MaxCalls
    /\ ParentsWait => Children(p) = {}
    /\ reg' = [reg EXCEPT ![p] = count[p]]
    /\ calls' = [calls EXCEPT ![p] = @ + 1]
    /\ Goto(p, "called")
    /\ UNCHANGED <<count, parent, lock>>

syscall_store(p) ==
    /\ pc[p] = "called"
    /\ count' = [count EXCEPT ![p] = reg[p] + 1]
    /\ Goto(p, "user")
    /\ UNCHANGED <<parent, lock, reg, calls>>

(* exit: the transfer, the loads and stores of which other CPUs see apart. *)
exit_lock_NoLock(p) ==
    /\ pc[p] = "user" /\ p # init
    /\ ParentsWait => Children(p) = {}
    /\ Goto(p, "locked")
    /\ UNCHANGED <<lock, count, parent, reg, calls>>
exit_lock(p) ==
    /\ pc[p] = "user" /\ p # init
    /\ ParentsWait => Children(p) = {}
    /\ lock[parent[p]] = None
    /\ lock' = [lock EXCEPT ![parent[p]] = p]
    /\ Goto(p, "locked")
    /\ UNCHANGED <<count, parent, reg, calls>>

exit_load(p) ==
    /\ pc[p] = "locked"
    /\ reg' = [reg EXCEPT ![p] = count[parent[p]]]
    /\ Goto(p, "loaded")
    /\ UNCHANGED <<count, parent, lock, calls>>

exit_store(p) ==
    /\ pc[p] = "loaded"
    /\ count' = [count EXCEPT ![parent[p]] = reg[p] + count[p]]
    /\ lock' = [lock EXCEPT ![parent[p]] = None]
    /\ Goto(p, "moved")
    /\ UNCHANGED <<parent, reg, calls>>

(* The rest of exit: reparent() gives the children to init. *)
exit_zombie(p) ==
    /\ pc[p] = "moved"
    /\ \A c \in Children(p) : pc[c] \notin {"locked", "loaded"}  \* see Proc
    /\ parent' = [c \in Procs |-> IF parent[c] = p THEN init ELSE parent[c]]
    /\ Goto(p, "zombie")
    /\ UNCHANGED <<count, lock, reg, calls>>

(* wait, of the parent: the child's slot is free and its count is void. *)
wait_reap(p, c) ==
    /\ pc[p] = "user" /\ parent[c] = p /\ pc[c] = "zombie"
    /\ parent' = [parent EXCEPT ![c] = None]
    /\ Goto(c, "gone")
    /\ UNCHANGED <<count, lock, reg, calls>>

Next ==
    \/ \E p \in Procs :
         \/ syscall(p) \/ syscall_store(p)
         \/ exit_lock(p) \/ exit_load(p) \/ exit_store(p) \/ exit_zombie(p)
    \/ \E p, c \in Procs : wait_reap(p, c)

Spec == Init /\ [][Next]_vars
-------------------------------------------------------------------------------
TypeOK ==
    /\ count \in [Procs -> 0 .. MaxCalls * Cardinality(Procs)]
    /\ parent \in [Procs -> Procs \cup {None}]
    /\ lock \in [Procs -> Procs \cup {None}]
    /\ pc \in [Procs -> {"user", "called", "locked", "loaded", "moved", "zombie", "gone"}]
    /\ calls \in [Procs -> 0 .. MaxCalls]
    /\ \A p, q \in Procs : lock[q] = p => pc[p] \in {"locked", "loaded"} /\ parent[p] = q

Total(f, S) == MapThenSumSet(LAMBDA p : f[p], S)

(* getsyscount "tracks the number of times a specific system call is       *)
(* invoked during execution of a process and its children" (README.md:5):  *)
(* no call is lost.  Whenever nobody is between a load and its store, the  *)
(* counts not yet handed on add up to the calls made.                      *)
Before == {p \in Procs : pc[p] \in {"user", "locked"}}

NoCallLost ==
    (\A p \in Procs : pc[p] \notin {"called", "loaded"}) =>
        Total(count, Before) = Total(calls, Procs)
===============================================================================
