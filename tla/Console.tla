------------------------------- MODULE Console --------------------------------
(***************************************************************************)
(* The input half of kernel/console.c.  consoleintr() takes a key and      *)
(* consoleread() a section of its loop under cons.lock, up to its return   *)
(* or to the sleep: each is one step.  The indices r, w and e are unsigned *)
(* and wrap at UINT, for 2^32.  Keys without a meaning of their own are    *)
(* Chars; '\r' is "nl", ^D is "eof", and ^P and 0 change nothing.          *)
(***************************************************************************)
EXTENDS Integers, Sequences, FiniteSets

CONSTANTS
    Readers, Chars,
    SIZE, UINT,     \* INPUT_BUF_SIZE and 2^32
    Reads,          \* what read() is called with: n, and how much of the
                    \* buffer is in the address space (a small choice)
    Killable

Keys == Chars \cup {"nl", "eof"}
ConsoleConstants ==
    /\ {"nl", "eof"} \cap Chars = {}
    /\ SIZE \in Nat \ {0} /\ UINT \in Nat /\ UINT > SIZE /\ UINT % SIZE = 0
    /\ Reads \subseteq [n : Nat \ {0}, valid : Nat]
    /\ Killable \subseteq Readers

VARIABLES
    buf, r, w, e,   \* cons
    pc,             \* per reader: idle, read, asleep
    n, valid,       \* per reader: what is left of its request
    dst,            \* per reader: what its request has got so far
    killed

cons == <<buf, r, w, e>>
call == <<n, valid, dst>>
vars == <<cons, pc, call, killed>>

Unsigned(k) == k % UINT
Between(i, j) == [k \in 1 .. Unsigned(j - i) |-> buf[Unsigned(i + k - 1) % SIZE]]
Committed == Between(r, w)      \* what readers may have
Editing == Between(w, e)        \* what the user may still change

Init ==
    /\ buf \in [0 .. SIZE - 1 -> {CHOOSE c \in Chars : TRUE}]
    /\ r = 0 /\ w = 0 /\ e = 0
    /\ pc = [p \in Readers |-> "idle"]
    /\ n = [p \in Readers |-> 0] /\ valid = [p \in Readers |-> 0]
    /\ dst = [p \in Readers |-> <<>>]
    /\ killed = [p \in Readers |-> FALSE]

Goto(p, l) == pc' = [pc EXCEPT ![p] = l]
Wakeup == pc' = [p \in Readers |-> IF pc[p] = "asleep" THEN "read" ELSE pc[p]]
-------------------------------------------------------------------------------
(* A character, the end of a line or ^D; dropped when the buffer is full.  *)
(* A full buffer counts as a line.                                         *)
key(c) ==
    /\ Unsigned(e - r) < SIZE
    /\ buf' = [buf EXCEPT ![e % SIZE] = c]
    /\ e' = Unsigned(e + 1)
    /\ IF c \in {"nl", "eof"} \/ Unsigned(e' - r) = SIZE
       THEN w' = e' /\ Wakeup
       ELSE UNCHANGED <<w, pc>>
    /\ UNCHANGED <<r, call, killed>>

backspace ==
    /\ e # w
    /\ e' = Unsigned(e - 1)
    /\ UNCHANGED <<buf, r, w, pc, call, killed>>

(* ^U goes back to the last line end or to w, whichever comes first.       *)
kill_line ==
    /\ e # w /\ Editing[Len(Editing)] # "nl"
    /\ \E k \in 1 .. Len(Editing) :
         /\ \A i \in k .. Len(Editing) : Editing[i] # "nl"
         /\ k > 1 => Editing[k - 1] = "nl"
         /\ e' = Unsigned(w + k - 1)
    /\ UNCHANGED <<buf, r, w, pc, call, killed>>

Rest(p, i, j) == n' = [n EXCEPT ![p] = i] /\ valid' = [valid EXCEPT ![p] = j]

read(p, q) ==
    /\ pc[p] = "idle" /\ ~killed[p]
    /\ Goto(p, "read") /\ Rest(p, q.n, q.valid)
    /\ dst' = [dst EXCEPT ![p] = <<>>]
    /\ UNCHANGED <<cons, killed>>

(* How many characters the loop takes before it has to look again: up to   *)
(* the first line end, ^D, or character that has no place.                 *)
Stops(p, i) == Committed[i] \in {"nl", "eof"} \/ i = n[p] \/ i = valid[p] + 1
Take(p) ==
    LET ends == {i \in 1 .. Len(Committed) : Stops(p, i)} IN
    IF ends = {} THEN Len(Committed) ELSE CHOOSE i \in ends : \A j \in ends : i <= j

(* It returns, or goes to sleep until there is more.  A ^D after other     *)
(* characters is left for the next read().                                 *)
Kept(p, k) == SubSeq(Committed, 1, IF Committed[k] = "eof" \/ k > valid[p] THEN k - 1 ELSE k)
consoleread(p) ==
    /\ pc[p] = "read" /\ r # w
    /\ LET k == Take(p)
           saved == Committed[k] = "eof" /\ dst'[p] # <<>> IN
       /\ dst' = [dst EXCEPT ![p] = @ \o Kept(p, k)]
       /\ r' = Unsigned(r + IF saved THEN k - 1 ELSE k)
       /\ IF Stops(p, k) \/ killed[p] THEN Goto(p, "idle") /\ Rest(p, 0, 0)
          ELSE Goto(p, "asleep") /\ Rest(p, n[p] - k, valid[p] - k)
    /\ UNCHANGED <<buf, w, e, killed>>

consoleread_wait(p) ==
    /\ pc[p] = "read" /\ r = w
    /\ IF killed[p] THEN Goto(p, "idle") /\ Rest(p, 0, 0)
       ELSE Goto(p, "asleep") /\ UNCHANGED <<n, valid>>
    /\ UNCHANGED <<cons, dst, killed>>

kill(p) ==
    /\ p \in Killable /\ ~killed[p]
    /\ killed' = [killed EXCEPT ![p] = TRUE]
    /\ Goto(p, IF pc[p] = "asleep" THEN "read" ELSE pc[p])
    /\ UNCHANGED <<cons, call>>

Next ==
    \/ \E c \in Keys : key(c)
    \/ backspace \/ kill_line
    \/ \E p \in Readers :
         \/ consoleread(p) \/ consoleread_wait(p) \/ kill(p)
         \/ \E q \in Reads : read(p, q)

Spec == Init /\ [][Next]_vars
-------------------------------------------------------------------------------
(* What has been handed over stays as it is, whatever the user types.  It  *)
(* goes to the readers in order, each character to one of them, or to a    *)
(* bad address and lost; a ^D is used up by a read that returns nothing.   *)
HandedOver ==
    /\ UNCHANGED r
    /\ Len(Committed) <= Len(Committed')
    /\ SubSeq(Committed', 1, Len(Committed)) = Committed
Given(p) == \E k \in 1 .. Len(Committed) :
    /\ Committed' = SubSeq(Committed, k + 1, Len(Committed))
    /\ \/ dst'[p] = dst[p] \o SubSeq(Committed, 1, k)
       \/ /\ dst'[p] = dst[p] \o SubSeq(Committed, 1, k - 1)
          /\ IF Committed[k] = "eof" THEN dst'[p] = <<>> ELSE valid[p] = k - 1
KeepsLines == HandedOver \/ \E p \in Readers : Given(p)

(* A reader has at most one line, and nothing after it; no ^D among it.    *)
OneLine == \A p \in Readers : \A i \in 1 .. Len(dst[p]) :
    dst[p][i] # "eof" /\ (dst[p][i] = "nl" => i = Len(dst[p]) /\ pc[p] # "asleep")

(* A reader sleeps only while there is nothing for it.                     *)
SleepsForReason == \A p \in Readers : pc[p] = "asleep" => r = w
===============================================================================
