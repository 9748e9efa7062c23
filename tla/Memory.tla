-------------------------------- MODULE Memory --------------------------------
(***************************************************************************)
(* kernel/kalloc.c and kernel/vm.c as fork(), exec(), sbrk(), exit() and   *)
(* wait() use them.  Pages are alike, so the free list is a number, and a  *)
(* page table is the set of its table pages and of the user pages that it  *)
(* maps.  kalloc() is a step, because any process may take the last page;  *)
(* the pages that one call gives back are given back in one step, which    *)
(* only moves the moment at which somebody else finds memory.              *)
(*                                                                         *)
(* Sizes are in units of which a page has PGSIZE.  Undone_KeepsPage is a   *)
(* faulty variant of the operator that follows; no specification uses it.  *)
(***************************************************************************)
EXTENDS Integers, FiniteSets, Sequences, FiniteSetsExt

CONSTANTS
    Slots, init,    \* the process table, and the process that is there first
    NPAGES,         \* between end and PHYSTOP, without the kernel's own
    PGSIZE,
    FAN,            \* entries of a page-table page: 512; MAXVA is half of them
    UINT,           \* 2^64
    Programs,       \* a program is the sequence of its segments: vaddr, memsz
    Increments      \* what sbrk() is called with

TRAMPOLINE == FAN ^ 3 \div 2 - 1
TRAPFRAME == TRAMPOLINE - 1

(* User memory runs out before addresses do: 128 MB against 256 GB.        *)
MemoryConstants ==
    /\ init \in Slots /\ IsFiniteSet(Slots)
    /\ NPAGES \in Nat /\ PGSIZE \in Nat \ {0}
    /\ FAN \in Nat \ {0, 1, 2} /\ FAN % 2 = 0
    /\ NPAGES < TRAPFRAME /\ UINT > FAN ^ 3 * PGSIZE
    /\ Programs \subseteq Seq([vaddr : Nat, memsz : Nat])
    /\ \A g \in Programs : \A i \in 1 .. Len(g) : g[i].vaddr % PGSIZE = 0
    /\ Increments \subseteq Int

VARIABLES
    free,       \* the length of kmem.freelist
    state,      \* per slot: UNUSED, USED, LIVE, ZOMBIE
    trapframe,  \* slots with a page for it
    sz,         \* p->sz
    pt,         \* per slot: p->pagetable, and exec()'s pagetable
    op,         \* per slot: what its process does in the kernel
    panicked

vars == <<free, state, trapframe, sz, pt, op, panicked>>

(* The pages of table of levels 1 and 0 on the way to page a.              *)
Path(a) == {<<1, a \div FAN ^ 2>>, <<0, a \div FAN>>}
NoTable == [root |-> FALSE, tables |-> {}, leaf |-> {}]
Missing(t, a) == Path(a) \ t.tables
PGROUNDUP(n) == ((n + PGSIZE - 1) \div PGSIZE) * PGSIZE
Pages(n) == PGROUNDUP(n) \div PGSIZE
User(n) == 0 .. Pages(n) - 1
Fixed == {TRAMPOLINE, TRAPFRAME}

Idle == [at |-> "idle", call |-> "none", s |-> <<>>, a |-> 0, end |-> 0,
         mem |-> FALSE, sz |-> 0, to |-> 0, prog |-> <<>>]

(* init after userinit(). *)
Init ==
    /\ state = [p \in Slots |-> IF p = init THEN "LIVE" ELSE "UNUSED"]
    /\ trapframe = {init}
    /\ sz = [p \in Slots |-> IF p = init THEN PGSIZE ELSE 0]
    /\ pt = [s \in Slots \X {"own", "new"} |->
         IF s = <<init, "own">>
         THEN [root |-> TRUE, tables |-> UNION {Path(a) : a \in Fixed \cup {0}},
               leaf |-> Fixed \cup {0}]
         ELSE NoTable]
    /\ free = NPAGES - 3 - Cardinality(pt[<<init, "own">>].tables)
    /\ op = [p \in Slots |-> Idle]
    /\ panicked = FALSE
-------------------------------------------------------------------------------
(* What a process does: it fills the page table s from page a on, up to    *)
(* page end, and has the page to be mapped next (mem), on behalf of a call.*)
(* sz and to are uvmalloc()'s oldsz and newsz, prog what exec() has yet to *)
(* load; exec() allocates the stack when nothing is left.                  *)
Goto(p, o) == op' = [op EXCEPT ![p] = o]
Return(p) == Goto(p, Idle)
Ready(p) == state[p] = "LIVE" /\ op[p] = Idle
Child(p) == op[p].s[1]
Space(p) == pt[op[p].s]
Own(p) == pt[<<p, "own">>]
At(p, call, at) == op[p].call = call /\ op[p].at = at

(* The next thing for which it calls kalloc().                             *)
Fills(o) == o.at \in {"copy", "alloc"}
Wants(p) ==
    LET o == op[p] IN
    IF o.at \in {"trapframe", "uvmcreate"} THEN o.at
    ELSE IF Fills(o) /\ ~o.mem THEN IF o.a < o.end THEN "mem" ELSE "nothing"
    ELSE IF o.at # "load" /\ o # Idle /\ Missing(Space(p), o.a) # {} THEN "table"
    ELSE "nothing"

(* A page, for a trapframe, for the root of a page table, for user memory, *)
(* or for the table that walk() misses first.                              *)
kalloc(p) ==
    /\ Wants(p) # "nothing" /\ free > 0
    /\ free' = free - 1
    /\ CASE Wants(p) = "trapframe" ->
              /\ trapframe' = trapframe \cup {Child(p)}
              /\ Goto(p, [op[p] EXCEPT !.at = "uvmcreate"])
              /\ UNCHANGED pt
         [] Wants(p) = "uvmcreate" ->
              /\ pt' = [pt EXCEPT ![op[p].s].root = TRUE]
              /\ Goto(p, [op[p] EXCEPT !.at = "trampoline", !.a = TRAMPOLINE])
              /\ UNCHANGED trapframe
         [] Wants(p) = "mem" ->
              Goto(p, [op[p] EXCEPT !.mem = TRUE]) /\ UNCHANGED <<pt, trapframe>>
         [] Wants(p) = "table" ->
              /\ LET t == CHOOSE t \in Missing(Space(p), op[p].a) :
                             \A u \in Missing(Space(p), op[p].a) : u[1] <= t[1] IN
                 pt' = [pt EXCEPT ![op[p].s].tables = @ \cup {t}]
              /\ UNCHANGED <<trapframe, op>>
    /\ UNCHANGED <<state, sz, panicked>>

(* mappages() has its tables: it sets the entry of page a.  After the two  *)
(* pages at the top fork() copies the parent's memory, exec() loads.       *)
mappages(p) ==
    /\ op[p].mem \/ op[p].at \in {"trampoline", "trapframe_map"}
    /\ Wants(p) = "nothing"
    /\ panicked' = (op[p].a \in Space(p).leaf)
    /\ pt' = [pt EXCEPT ![op[p].s].leaf = @ \cup {op[p].a}]
    /\ Goto(p,
         CASE op[p].mem -> [op[p] EXCEPT !.a = @ + 1, !.mem = FALSE]
           [] op[p].at = "trampoline" ->
                [op[p] EXCEPT !.at = "trapframe_map", !.a = TRAPFRAME]
           [] OTHER ->
                [op[p] EXCEPT !.at = IF op[p].call = "fork" THEN "copy" ELSE "load",
                              !.a = 0, !.end = Pages(sz[p])])
    /\ UNCHANGED <<free, state, trapframe, sz>>
-------------------------------------------------------------------------------
(* proc_freepagetable() of a page table for size n: the pages it gives     *)
(* back, and whether it panics, on an entry that is missing or is left.    *)
FreedBy(t, n) == Pages(n) + Cardinality(t.tables) + 1
Unfreeable(t, n) == t.leaf # Fixed \cup User(n)

(* What uvmalloc() or uvmcopy() has mapped, and the page it could not map. *)
Undo(p) == [Space(p) EXCEPT !.leaf = @ \ (Pages(op[p].sz) .. op[p].a - 1)]
Undone_KeepsPage(p) == op[p].a - Pages(op[p].sz)
Undone(p) == op[p].a - Pages(op[p].sz) + (IF op[p].mem THEN 1 ELSE 0)

(* fork() or exec() gives up its page table.  An unfinished one is left to *)
(* proc_pagetable(), where freewalk() finds no mapping any more.           *)
Abandon(p, held) ==
    /\ CASE op[p].at \in {"trapframe", "uvmcreate"} ->
              free' = free + held /\ UNCHANGED panicked
         [] op[p].at \in {"trampoline", "trapframe_map"} ->
              /\ free' = free + held + Cardinality(Space(p).tables) + 1
              /\ panicked' = (op[p].at = "trapframe_map" /\ TRAMPOLINE \notin Space(p).leaf)
         [] OTHER ->
              /\ free' = free + held + Undone(p) + FreedBy(Undo(p), op[p].sz)
              /\ panicked' = Unfreeable(Undo(p), op[p].sz)
    /\ pt' = [pt EXCEPT ![op[p].s] = NoTable]
    /\ Return(p)

NoMemory(p, call) == op[p].call = call /\ Wants(p) # "nothing" /\ free = 0
Filled(p) == Fills(op[p]) /\ ~op[p].mem /\ op[p].a = op[p].end

(* fork(): allocproc() finds an unused slot, which stays locked.           *)
fork(p, np) ==
    /\ Ready(p) /\ state[np] = "UNUSED"
    /\ state' = [state EXCEPT ![np] = "USED"]
    /\ Goto(p, [Idle EXCEPT !.at = "trapframe", !.call = "fork", !.s = <<np, "own">>])
    /\ UNCHANGED <<free, trapframe, sz, pt, panicked>>

(* np->sz is still 0 when freeproc() looks at it.                          *)
fork_nomem(p) ==
    /\ NoMemory(p, "fork")
    /\ Abandon(p, Cardinality(trapframe \cap {Child(p)}))
    /\ trapframe' = trapframe \ {Child(p)}
    /\ state' = [state EXCEPT ![Child(p)] = "UNUSED"]
    /\ UNCHANGED sz

(* uvmcopy() panics where the parent has no page.                          *)
fork_done(p) ==
    /\ op[p].call = "fork" /\ Filled(p)
    /\ panicked' = ~(User(sz[p]) \subseteq Own(p).leaf)
    /\ sz' = [sz EXCEPT ![Child(p)] = sz[p]]
    /\ state' = [state EXCEPT ![Child(p)] = "LIVE"]
    /\ Return(p)
    /\ UNCHANGED <<free, trapframe, pt>>
-------------------------------------------------------------------------------
exec(p, prog) ==
    /\ Ready(p)
    /\ Goto(p, [Idle EXCEPT !.at = "uvmcreate", !.call = "exec", !.s = <<p, "new">>,
                            !.prog = prog])
    /\ UNCHANGED <<free, state, trapframe, sz, pt, panicked>>

(* uvmalloc(pagetable, old, new) begins; with new < old it has no effect.  *)
Allocate(p, old, new) ==
    Goto(p, [op[p] EXCEPT !.at = "alloc", !.sz = old, !.a = Pages(old),
                !.to = IF new < old THEN old ELSE new,
                !.end = IF new < old THEN Pages(old) ELSE Pages(new)])

Loading(p) == At(p, "exec", "load")
SegmentEnd(p) == Head(op[p].prog).vaddr + Head(op[p].prog).memsz

(* A new size of 0 counts as a failure of uvmalloc().                      *)
exec_segment(p) ==
    /\ Loading(p) /\ op[p].prog # <<>>
    /\ op[p].sz > 0 \/ SegmentEnd(p) > 0
    /\ Allocate(p, op[p].sz, SegmentEnd(p))
    /\ UNCHANGED <<free, state, trapframe, sz, pt, panicked>>

(* loadseg() panics where the segment is not mapped.                       *)
exec_loadseg(p) ==
    /\ op[p].call = "exec" /\ Filled(p) /\ op[p].prog # <<>>
    /\ panicked' = ~(Head(op[p].prog).vaddr \div PGSIZE .. Pages(SegmentEnd(p)) - 1
                        \subseteq Space(p).leaf)
    /\ Goto(p, [op[p] EXCEPT !.at = "load", !.sz = op[p].to, !.prog = Tail(@)])
    /\ UNCHANGED <<free, state, trapframe, sz, pt>>

(* The stack and its guard page.                                           *)
exec_stack(p) ==
    /\ Loading(p) /\ op[p].prog = <<>>
    /\ Allocate(p, PGROUNDUP(op[p].sz), PGROUNDUP(op[p].sz) + 2 * PGSIZE)
    /\ UNCHANGED <<free, state, trapframe, sz, pt, panicked>>

StackDone(p) == op[p].call = "exec" /\ Filled(p) /\ op[p].prog = <<>>

exec_commit(p) ==
    /\ StackDone(p)
    /\ free' = free + FreedBy(Own(p), sz[p])
    /\ panicked' = Unfreeable(Own(p), sz[p])
    /\ pt' = [pt EXCEPT ![<<p, "own">>] = Space(p), ![<<p, "new">>] = NoTable]
    /\ sz' = [sz EXCEPT ![p] = op[p].to]
    /\ Return(p)
    /\ UNCHANGED <<state, trapframe>>

exec_nomem(p) ==
    /\ NoMemory(p, "exec")
    /\ Abandon(p, 0)
    /\ UNCHANGED <<state, trapframe, sz>>

(* The file is no program or ends too early, or the arguments are too long *)
(* for the stack.  With the stack allocated its size is part of sz.        *)
exec_bad(p) ==
    /\ \/ Loading(p) /\ Abandon(p, 0)
       \/ /\ StackDone(p)
          /\ free' = free + FreedBy(Space(p), op[p].to)
          /\ panicked' = Unfreeable(Space(p), op[p].to)
          /\ pt' = [pt EXCEPT ![op[p].s] = NoTable]
          /\ Return(p)
    /\ UNCHANGED <<state, trapframe, sz>>
-------------------------------------------------------------------------------
(* sbrk(n), growproc(): n > 0 goes through uvmalloc().                     *)
sbrk_grow(p, n) ==
    /\ Ready(p) /\ n > 0
    /\ Goto(p, [Idle EXCEPT !.at = "alloc", !.call = "sbrk", !.s = <<p, "own">>,
                  !.sz = sz[p], !.to = sz[p] + n, !.a = Pages(sz[p]), !.end = Pages(sz[p] + n)])
    /\ UNCHANGED <<free, state, trapframe, sz, pt, panicked>>

sbrk_done(p) ==
    /\ op[p].call = "sbrk" /\ Filled(p)
    /\ sz' = [sz EXCEPT ![p] = op[p].to]
    /\ Return(p)
    /\ UNCHANGED <<free, state, trapframe, pt, panicked>>

sbrk_nomem(p) ==
    /\ NoMemory(p, "sbrk")
    /\ free' = free + Undone(p)
    /\ pt' = [pt EXCEPT ![op[p].s] = Undo(p)]
    /\ panicked' = ~(Pages(op[p].sz) .. op[p].a - 1 \subseteq Space(p).leaf)
    /\ Return(p)
    /\ UNCHANGED <<state, trapframe, sz>>

(* n < 0: uvmdealloc().  sz + n is unsigned; below 0 it is more than sz,   *)
(* and nothing happens.                                                    *)
sbrk_shrink(p, n) ==
    /\ Ready(p) /\ n < 0 /\ (sz[p] + n) % UINT < sz[p]
    /\ LET gone == Pages(sz[p] + n) .. Pages(sz[p]) - 1 IN
       /\ free' = free + Cardinality(gone)
       /\ pt' = [pt EXCEPT ![<<p, "own">>].leaf = @ \ gone]
       /\ panicked' = ~(gone \subseteq Own(p).leaf)
    /\ sz' = [sz EXCEPT ![p] = @ + n]
    /\ UNCHANGED <<state, trapframe, op>>

exit(p) ==
    /\ Ready(p) /\ p # init
    /\ state' = [state EXCEPT ![p] = "ZOMBIE"]
    /\ UNCHANGED <<free, trapframe, sz, pt, op, panicked>>

(* wait() finds a zombie.                                                  *)
freeproc(p) ==
    /\ state[p] = "ZOMBIE"
    /\ free' = free + FreedBy(Own(p), sz[p]) + Cardinality(trapframe \cap {p})
    /\ panicked' = Unfreeable(Own(p), sz[p])
    /\ trapframe' = trapframe \ {p}
    /\ pt' = [pt EXCEPT ![<<p, "own">>] = NoTable]
    /\ sz' = [sz EXCEPT ![p] = 0]
    /\ state' = [state EXCEPT ![p] = "UNUSED"]
    /\ UNCHANGED op

step(p) ==
    \/ kalloc(p) \/ mappages(p) \/ fork_nomem(p) \/ fork_done(p)
    \/ exec_segment(p) \/ exec_loadseg(p) \/ exec_stack(p) \/ exec_commit(p)
    \/ exec_nomem(p) \/ exec_bad(p) \/ sbrk_done(p) \/ sbrk_nomem(p)

call(p) ==
    \/ \E np \in Slots : fork(p, np)
    \/ \E prog \in Programs : exec(p, prog)
    \/ \E n \in Increments : sbrk_grow(p, n) \/ sbrk_shrink(p, n)
    \/ exit(p)

Next == ~panicked /\ \E p \in Slots : step(p) \/ call(p) \/ freeproc(p)

Spec == Init /\ [][Next]_vars
-------------------------------------------------------------------------------
(* No page is lost or free twice: what is not on the free list is a        *)
(* trapframe, a page of some page table, a user page, or in the hands of a *)
(* call that is about to map it.                                           *)
PagesOf(t) ==
    (IF t.root THEN 1 ELSE 0) + Cardinality(t.tables) + Cardinality(t.leaf \ Fixed)
InUse ==
    free + Cardinality(trapframe) + MapThenSumSet(LAMBDA s : PagesOf(pt[s]), DOMAIN pt)
        + Cardinality({p \in Slots : op[p].mem}) = NPAGES

(* Between calls a process's page table maps the pages of its size and the *)
(* two at the top, and those only: copies to and from it find every page,  *)
(* and it can be freed.                                                    *)
SizeMapped ==
    \A p \in Slots : state[p] \in {"LIVE", "ZOMBIE"} /\ op[p] = Idle =>
        /\ Own(p).leaf = Fixed \cup User(sz[p])
        /\ pt[<<p, "new">>] = NoTable

(* No panic of vm.c.                                                       *)
NoPanic == ~panicked

PagesKept == InUse /\ SizeMapped /\ NoPanic
===============================================================================
