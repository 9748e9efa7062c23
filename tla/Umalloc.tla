-------------------------------- MODULE Umalloc --------------------------------
(***************************************************************************)
(* user/umalloc.c: the allocator of user programs, a ring of free blocks   *)
(* in the order of their addresses.  Addresses and sizes count headers.    *)
(* A block is named by the address of its header; base, of size 0, lies    *)
(* below the heap.  The program may also take memory from sbrk() itself.   *)
(***************************************************************************)
EXTENDS Integers, FiniteSets

CONSTANTS
    MaxUnits,       \* bound: the units of a request, its header included
    MinCore,        \* the least that morecore() asks for (4096 in the code)
    Limit           \* bound: the end of memory, where sbrk() fails at the latest

VARIABLES
    hdr,            \* the headers: hdr[b].ptr and hdr[b].size for each block b
    freep,          \* where the next search starts; none before the first call
    brk,            \* the end of the heap
    used,           \* the blocks that the program has been given
    own             \* the units that it took from sbrk() itself
vars == <<hdr, freep, brk, used, own>>

UmallocConstants == MaxUnits > 0 /\ MinCore > 0 /\ Limit \in Nat

base == 0
Start == 2
none == Limit + 1

Init == hdr = <<>> /\ freep = none /\ brk = Start /\ used = {} /\ own = {}
-------------------------------------------------------------------------------
(* A heap is a record of the headers h and of freep f.                     *)
Heap == IF freep = none
        THEN [h |-> [b \in {base} |-> [ptr |-> base, size |-> 0]], f |-> base]
        ELSE [h |-> hdr, f |-> freep]

Fits(h, p, bp) ==
    \/ p < bp /\ bp < h[p].ptr
    \/ h[p].ptr <= p /\ (p < bp \/ bp < h[p].ptr)

RECURSIVE Before(_, _, _)
Before(h, p, bp) == IF Fits(h, p, bp) THEN p ELSE Before(h, h[p].ptr, bp)

Without(h, b) == [c \in DOMAIN h \ {b} |-> h[c]]

(* free(): bp goes into the ring after p and is joined to the free blocks  *)
(* that touch it, first the one above, then the one below.                 *)
JoinAbove(h, p, bp) ==
    LET above == h[p].ptr IN
    IF bp + h[bp].size # above THEN [h EXCEPT ![bp].ptr = above]
    ELSE Without([h EXCEPT ![bp].size = @ + h[above].size, ![bp].ptr = h[above].ptr], above)

JoinBelow_Never(h, p, bp) == [h EXCEPT ![p].ptr = bp]
JoinBelow(h, p, bp) ==
    IF p + h[p].size # bp THEN [h EXCEPT ![p].ptr = bp]
    ELSE Without([h EXCEPT ![p].size = @ + h[bp].size, ![p].ptr = h[bp].ptr], bp)

Free(heap, bp) ==
    LET p == Before(heap.h, heap.f, bp)
    IN [h |-> JoinBelow(JoinAbove(heap.h, p, bp), p, bp), f |-> p]

(* The block before the first one that is large enough, or none.           *)
RECURSIVE Search(_, _, _)
Search(heap, prevp, nunits) ==
    LET p == heap.h[prevp].ptr IN
    IF heap.h[p].size >= nunits THEN prevp
    ELSE IF p = heap.f THEN none ELSE Search(heap, p, nunits)

(* The end of the block is given away, or all of it; nobody reads the ptr  *)
(* of a block in use, which is base here.                                  *)
Take(heap, prevp, nunits) ==
    LET p == heap.h[prevp].ptr
        rest == heap.h[p].size - nunits
        at == p + rest
    IN /\ hdr' = IF rest = 0 THEN [heap.h EXCEPT ![prevp].ptr = heap.h[p].ptr, ![p].ptr = base]
               ELSE [b \in DOMAIN heap.h \cup {at} |->
                       IF b = at THEN [ptr |-> base, size |-> nunits]
                       ELSE IF b = p THEN [heap.h[p] EXCEPT !.size = rest]
                       ELSE heap.h[b]]
       /\ freep' = prevp
       /\ used' = used \cup {at}

(* morecore(), given that sbrk() moves the end of memory by nu.            *)
Grown(heap, nu) ==
    Free([heap EXCEPT !.h = [b \in DOMAIN heap.h \cup {brk} |->
            IF b = brk THEN [ptr |-> base, size |-> nu] ELSE heap.h[b]]], brk)

malloc(nunits) ==
    LET prevp == Search(Heap, Heap.f, nunits)
        nu == IF nunits < MinCore THEN MinCore ELSE nunits
        more == Grown(Heap, nu)
    IN /\ UNCHANGED own
       /\ \/ prevp # none /\ Take(Heap, prevp, nunits) /\ UNCHANGED brk
          \/ /\ prevp = none /\ brk + nu <= Limit
             /\ Take(more, Search(more, more.f, nunits), nunits)
             /\ brk' = brk + nu
          \/ /\ prevp = none                                    \* sbrk() fails
             /\ hdr' = Heap.h /\ freep' = Heap.f /\ UNCHANGED <<brk, used>>

free(bp) ==
    LET heap == Free(Heap, bp) IN
    /\ bp \in used
    /\ hdr' = heap.h /\ freep' = heap.f
    /\ used' = used \ {bp}
    /\ UNCHANGED <<brk, own>>

(* The program's own call of sbrk(), for one unit.                         *)
sbrk ==
    /\ brk < Limit
    /\ brk' = brk + 1 /\ own' = own \cup {brk}
    /\ UNCHANGED <<hdr, freep, used>>

Next ==
    \/ \E nunits \in 1 .. MaxUnits : malloc(nunits)
    \/ \E bp \in used : free(bp)
    \/ sbrk

Spec == Init /\ [][Next]_vars
-------------------------------------------------------------------------------
(* Every unit of the heap belongs to one block or to the program; the free *)
(* blocks, from base on, are linked in the order of their addresses, and   *)
(* no two of them touch; a search starts at one of them.                   *)
HeapWhole ==
    LET freed == DOMAIN hdr \ used
        Units(b) == b .. b + hdr[b].size - 1
        After(b) == {c \in freed : c > b /\ \A d \in freed : d > b => c <= d}
    IN freep # none =>
        /\ \A u \in Start .. brk - 1 :
             Cardinality({b \in DOMAIN hdr : u \in Units(b)}) = (IF u \in own THEN 0 ELSE 1)
        /\ \A b \in DOMAIN hdr : Units(b) \subseteq Start .. brk - 1
        /\ freep \in freed /\ base \in freed
        /\ \A b \in freed :
             /\ hdr[b].ptr \in (IF After(b) = {} THEN {base} ELSE After(b))
             /\ b # base => b + hdr[b].size \notin freed
===============================================================================
