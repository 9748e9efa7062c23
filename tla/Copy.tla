---------------------------------- MODULE Copy ---------------------------------
(***************************************************************************)
(* What system calls move in and out of user memory: copyin, copyout and   *)
(* copyinstr of vm.c, which look up one page at a time, the fetches of     *)
(* syscall.c on top of them, and memmove and safestrcpy of string.c.       *)
(*                                                                         *)
(* pt[page] is "user", "guard" (mapped, but not for the user) or "none";   *)
(* mem[va] is the byte behind a virtual address.  Addresses have a width:  *)
(* they wrap at WIDTH, far above the last page.  0 ends a string.          *)
(***************************************************************************)
EXTENDS Integers, Sequences

CONSTANTS PGSIZE, MAXVA, WIDTH, WORD

CopyConstants == MAXVA % PGSIZE = 0 /\ WIDTH % PGSIZE = 0 /\ MAXVA < WIDTH /\ WORD < WIDTH

Drop(s, n) == SubSeq(s, n + 1, Len(s))

PGROUNDDOWN(va) == va - (va % PGSIZE)
walkaddr(pt, va) == va < MAXVA /\ pt[va \div PGSIZE] = "user"

(* How many of len bytes from va lie in its page.                          *)
InPage_Whole(va, len) == IF PGSIZE > len THEN len ELSE PGSIZE
InPage(va, len) ==
    LET n == PGSIZE - (va - PGROUNDDOWN(va)) IN IF n > len THEN len ELSE n
NextPage(va) == (PGROUNDDOWN(va) + PGSIZE) % WIDTH

RECURSIVE copyout(_, _, _, _), copyin(_, _, _, _, _), copyinstr(_, _, _, _, _)
copyout(pt, mem, dstva, src) ==
    LET n == InPage(dstva, Len(src))
        moved == [a \in DOMAIN mem |-> IF a \in dstva .. dstva + n - 1
                                        THEN src[a - dstva + 1] ELSE mem[a]]
    IN IF src = <<>> THEN [ret |-> 0, mem |-> mem]
       ELSE IF ~walkaddr(pt, PGROUNDDOWN(dstva)) THEN [ret |-> -1, mem |-> mem]
       ELSE copyout(pt, moved, NextPage(dstva), Drop(src, n))

copyin(pt, mem, dst, srcva, len) ==
    LET n == InPage(srcva, len) IN
    IF len = 0 THEN [ret |-> 0, dst |-> dst]
    ELSE IF ~walkaddr(pt, PGROUNDDOWN(srcva)) THEN [ret |-> -1, dst |-> dst]
    ELSE copyin(pt, mem, dst \o [i \in 1 .. n |-> mem[srcva + i - 1]], NextPage(srcva), len - n)

copyinstr(pt, mem, dst, srcva, max) ==
    LET n == InPage(srcva, max)
        bytes == [i \in 1 .. n |-> mem[srcva + i - 1]]
        nul == {i \in 1 .. n : bytes[i] = 0 /\ \A j \in 1 .. i - 1 : bytes[j] # 0}
    IN IF max = 0 \/ ~walkaddr(pt, PGROUNDDOWN(srcva)) THEN [ret |-> -1, dst |-> dst]
       ELSE IF nul # {}
       THEN [ret |-> 0, dst |-> dst \o SubSeq(bytes, 1, CHOOSE i \in nul : TRUE)]
       ELSE copyinstr(pt, mem, dst \o bytes, NextPage(srcva), max - n)

fetchaddr(pt, mem, sz, addr) ==
    IF addr >= sz \/ (addr + WORD) % WIDTH > sz THEN [ret |-> -1, dst |-> <<>>]
    ELSE copyin(pt, mem, <<>>, addr, WORD)

(* The length of the string without its end, or -1; buf gets max bytes.    *)
fetchstr(pt, mem, addr, max) ==
    LET r == copyinstr(pt, mem, <<>>, addr, max) IN
    IF r.ret < 0 THEN -1 ELSE Len(r.dst) - 1

(* memmove(): from the end if the target begins inside the source.         *)
RECURSIVE Forwards(_, _, _, _), Backwards(_, _, _, _)
Forwards(mem, dst, src, n) ==
    IF n = 0 THEN mem ELSE Forwards([mem EXCEPT ![dst] = mem[src]], dst + 1, src + 1, n - 1)
Backwards(mem, dst, src, n) ==
    IF n = 0 THEN mem
    ELSE Backwards([mem EXCEPT ![dst + n - 1] = mem[src + n - 1]], dst, src, n - 1)
memmove(mem, dst, src, n) ==
    IF src < dst /\ src + n > dst THEN Backwards(mem, dst, src, n)
    ELSE Forwards(mem, dst, src, n)

(* safestrcpy(): at most n bytes, of which the last is 0.                  *)
RECURSIVE safestrcpy(_, _)
safestrcpy(t, n) ==
    IF n <= 0 THEN <<>> ELSE IF n = 1 \/ t[1] = 0 THEN <<0>>
    ELSE <<t[1]>> \o safestrcpy(Tail(t), n - 1)
-------------------------------------------------------------------------------
(* What they promise, for a range of len bytes from va as a whole, pages   *)
(* or not: how many bytes of it can be reached, one after the other.       *)
User(pt, va) == walkaddr(pt, va)
Reached(pt, va, len) ==
    LET Ok(k) == \A i \in 0 .. k - 1 : User(pt, (va + i) % WIDTH)
    IN CHOOSE k \in 0 .. len : Ok(k) /\ (k = len \/ ~Ok(k + 1))

(* A copy succeeds exactly if every byte of its range is the user's, and   *)
(* moves just these bytes, each to its place; a failing one has moved the  *)
(* bytes before the first that is not.  A string is found exactly if its   *)
(* end comes within max bytes and before such a byte.  A word is fetched   *)
(* exactly if it lies below sz.  Overlapping bytes are moved as they were, *)
(* and a name is cut so that it ends.                                      *)
CopiedRight(pt, mem, va, len) ==
    LET k == Reached(pt, va, len)
        src == [i \in 1 .. len |-> <<i>>]
        out == copyout(pt, mem, va, src)
        in == copyin(pt, mem, <<>>, va, len)
        str == copyinstr(pt, mem, <<>>, va, len)
        ends == {i \in 1 .. k : mem[va + i - 1] = 0 /\ \A j \in 1 .. i - 1 : mem[va + j - 1] # 0}
        ret == IF k = len THEN 0 ELSE -1
        Bytes(n) == [i \in 1 .. n |-> mem[va + i - 1]]
    IN
    /\ out.ret = ret /\ in.ret = ret /\ in.dst = Bytes(k)
    /\ \A a \in DOMAIN mem :
         out.mem[a] = IF a \in va .. va + k - 1 THEN src[a - va + 1] ELSE mem[a]
    /\ IF ends = {} THEN str.ret = -1 /\ fetchstr(pt, mem, va, len) = -1
       ELSE \E i \in ends : str.ret = 0 /\ str.dst = Bytes(i) /\ fetchstr(pt, mem, va, len) = i - 1
    /\ \A sz \in 0 .. MAXVA :
         LET word == fetchaddr(pt, mem, sz, va) IN
         /\ word.ret = 0 <=> va + WORD <= sz /\ Reached(pt, va, WORD) = WORD
         /\ word.ret = 0 => word.dst = Bytes(WORD)
    /\ \A src0 \in 0 .. MAXVA - len : va <= MAXVA - len =>
         \A i \in 0 .. len - 1 : memmove(mem, va, src0, len)[va + i] = mem[src0 + i]
    /\ LET t == [i \in 1 .. MAXVA + 1 |-> IF i > MAXVA THEN 0 ELSE mem[i - 1]]
           name == safestrcpy(t, len)
       IN len > 0 => /\ Len(name) <= len /\ name[Len(name)] = 0
                     /\ \A i \in 1 .. Len(name) - 1 : name[i] = t[i] /\ t[i] # 0
                     /\ Len(name) = len \/ t[Len(name)] = 0
===============================================================================
