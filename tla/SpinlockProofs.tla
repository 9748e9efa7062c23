----------------------------- MODULE SpinlockProofs ---------------------------
(***************************************************************************)
(* Spinlocks exclude each other, and interrupts stay off while one is held *)
(* and come back afterwards: for any CPUs, locks and locks of handlers.    *)
(***************************************************************************)
EXTENDS Spinlock, FiniteSetTheorems, TLAPS

Running(c) == IF inirq[c] THEN "irq" ELSE "main"

(* The CPU has pushed once for each lock, and once more between the        *)
(* increment of noff and the lock, or between the lock and its decrement.  *)
Pushed(c, v) == IF pc[c][v] \in {"holding", "swap", "cpu", "unlock", "pop_off"} THEN 1 ELSE 0
Depth(c, v) == Cardinality(held[c][v]) + Pushed(c, v)

DepthInv(c) == noff[c] = Depth(c, Running(c))

(* A handler interrupts only code that has no lock, and that is at most    *)
(* about to turn interrupts off; when none runs, its level is as at first. *)
Idle(c, v) == pc[c][v] = "run" /\ held[c][v] = {}

LevelInv(c) ==
    IF inirq[c]
    THEN /\ ~sie[c] /\ enabled[c]
         /\ Idle(c, "main") \/ (pc[c]["main"] = "intr_off" /\ held[c]["main"] = {} /\ old[c]["main"])
    ELSE Idle(c, "irq")

(* What the interrupt enable bit, old and intena hold for the code that    *)
(* runs: on is what it had before its first lock.                          *)
EnableInv(c, v, on) ==
    /\ noff[c] > 0 => ~sie[c] /\ intena[c] = on
    /\ noff[c] = 0 => /\ pc[c][v] = "run" => sie[c] = on
                      /\ pc[c][v] \in {"intr_off", "noff"} => old[c][v] = on
    /\ pc[c][v] = "intr_off" => old[c][v] = sie[c]
    /\ pc[c][v] = "noff" => ~sie[c]

On(c) == ~inirq[c] /\ enabled[c]
InterruptInv(c) == EnableInv(c, Running(c), On(c))

(* Locks are taken in order, and one that is being freed is not held any   *)
(* more.                                                                   *)
Acquiring(c, v) == pc[c][v] \in {"intr_off", "noff", "holding", "swap", "cpu"}

OrderInv(c, v) ==
    /\ Acquiring(c, v) \/ pc[c][v] = "unlock" => lk[c][v] \in Locks
    /\ Acquiring(c, v) => \A k \in held[c][v] : k < lk[c][v]
    /\ pc[c][v] = "unlock" => lk[c][v] \notin held[c][v]

(* lk->locked and lk->cpu. *)
LockedInv(l) == locked[l] <=> \E c \in CPUs, v \in Levels : Has(c, v, l)
HolderInv(l) ==
    \A c \in CPUs : holder[l] = c <=> \E v \in Levels : l \in held[c][v]

CPUInv(c) == DepthInv(c) /\ LevelInv(c) /\ InterruptInv(c)
LocksInv == Exclusive /\ \A l \in Locks : LockedInv(l) /\ HolderInv(l)

SpinInv ==
    /\ TypeOK /\ NoPanic /\ LocksInv
    /\ \A c \in CPUs : CPUInv(c)
    /\ \A c \in CPUs, v \in Levels : OrderInv(c, v)

(* Sets of locks are finite. *)
LEMMA Counting ==
    ASSUME NEW S \in SUBSET Locks
    PROVE  /\ Cardinality(S) \in Nat /\ (Cardinality(S) = 0 <=> S = {})
           /\ \A l \in Locks : l \notin S => Cardinality(S \cup {l}) = Cardinality(S) + 1
           /\ \A l \in S : Cardinality(S \ {l}) = Cardinality(S) - 1
<1>1. IsFiniteSet(S)
  BY FS_Subset, SpinlockConstants
<1> QED
  BY <1>1, FS_CardinalityType, FS_EmptySet, FS_AddElement, FS_RemoveElement

LEMMA DepthType ==
    ASSUME TypeOK, NEW c \in CPUs, NEW v \in Levels
    PROVE  Cardinality(held[c][v]) \in Nat /\ (Cardinality(held[c][v]) = 0 <=> held[c][v] = {})
<1>1. held[c][v] \in SUBSET Locks
  BY DEF TypeOK
<1> QED
  BY <1>1, Counting

LEMMA CountHeld ==
    ASSUME TypeOK, NEW c \in CPUs, NEW v \in Levels, NEW l \in Locks
    PROVE  /\ l \notin held[c][v] => Cardinality(held[c][v] \cup {l}) = Cardinality(held[c][v]) + 1
           /\ l \in held[c][v] => Cardinality(held[c][v] \ {l}) = Cardinality(held[c][v]) - 1
<1>1. held[c][v] \in SUBSET Locks
  BY DEF TypeOK
<1> QED
  BY <1>1, Counting

LEMMA SpinInvInit == Init => SpinInv
<1> SUFFICES ASSUME Init PROVE SpinInv
  OBVIOUS
<1>1. TypeOK
  BY DEF Init, TypeOK, Per
<1>2. NoPanic
  BY DEF Init, NoPanic, Per
<1>3. ASSUME NEW c \in CPUs PROVE CPUInv(c)
  <2>1. noff[c] = 0 /\ inirq[c] = FALSE /\ sie[c] = FALSE /\ enabled[c] = FALSE
    BY Zenon DEF Init
  <2>2. \A v \in Levels : Idle(c, v)
    BY Zenon DEF Init, Per, Idle
  <2>3. Running(c) = "main"
    BY <2>1 DEF Running
  <2>4. Cardinality({}) = 0
    BY FS_EmptySet
  <2>5. DepthInv(c)
    <3>1. pc[c]["main"] = "run" /\ held[c]["main"] = {}
      BY <2>2 DEF Idle, Levels
    <3>2. Pushed(c, "main") = 0
      BY <3>1 DEF Pushed
    <3>3. Cardinality(held[c]["main"]) = 0
      BY <3>1, <2>4
    <3> QED
      BY <2>1, <2>3, <3>2, <3>3 DEF DepthInv, Depth
  <2>6. LevelInv(c)
    BY <2>1, <2>2 DEF LevelInv, Levels
  <2>7. InterruptInv(c)
    <3>1. pc[c]["main"] = "run"
      BY <2>2 DEF Idle, Levels
    <3>2. EnableInv(c, "main", FALSE)
      BY <2>1, <3>1 DEF EnableInv
    <3>3. On(c) = FALSE
      BY <2>1 DEF On
    <3> QED
      BY <2>3, <3>2, <3>3 DEF InterruptInv
  <2> QED
    BY <2>5, <2>6, <2>7 DEF CPUInv
<1>4. \A c \in CPUs, v \in Levels : OrderInv(c, v)
  BY DEF Init, Per, OrderInv, Acquiring
<1>5. LocksInv
  BY SpinlockConstants DEF Init, Per, LocksInv, Exclusive, LockedInv, HolderInv, Has
<1> QED
  BY <1>1, <1>2, <1>3, <1>4, <1>5 DEF SpinInv

(***************************************************************************)
(* A step of code at one level of one CPU leaves the others alone.         *)
(***************************************************************************)
SameCPU(d) ==
    /\ sie'[d] = sie[d] /\ noff'[d] = noff[d] /\ intena'[d] = intena[d]
    /\ inirq'[d] = inirq[d] /\ enabled'[d] = enabled[d]
    /\ pc'[d] = pc[d] /\ lk'[d] = lk[d] /\ old'[d] = old[d] /\ held'[d] = held[d]

SameLevel(c, v) ==
    pc'[c][v] = pc[c][v] /\ lk'[c][v] = lk[c][v] /\ old'[c][v] = old[c][v]
    /\ held'[c][v] = held[c][v]

Only(c, v) ==
    /\ \A d \in CPUs \ {c} : SameCPU(d)
    /\ \A w \in Levels \ {v} : SameLevel(c, w)

LEMMA OtherCPU ==
    ASSUME NEW d \in CPUs, CPUInv(d), \A v \in Levels : OrderInv(d, v), SameCPU(d)
    PROVE  CPUInv(d)' /\ \A v \in Levels : OrderInv(d, v)'
BY DEF CPUInv, DepthInv, Depth, Pushed, Running, LevelInv, Idle, InterruptInv, EnableInv, On,
       OrderInv, Acquiring, SameCPU

LEMMA LevelStep ==
    ASSUME SpinInv, NEW c \in CPUs, NEW v \in Levels, Runs(c, v), Only(c, v),
           inirq'[c] = inirq[c], enabled'[c] = enabled[c], inirq[c] => ~sie'[c],
           TypeOK', DepthInv(c)', InterruptInv(c)', OrderInv(c, v)', pc'[c][v] # "panic",
           LocksInv'
    PROVE  SpinInv'
<1>1. ASSUME NEW d \in CPUs, d # c
      PROVE  CPUInv(d)' /\ \A w \in Levels : OrderInv(d, w)'
  BY <1>1, OtherCPU DEF SpinInv, Only
<1>2. \A w \in Levels : OrderInv(c, w)'
  BY DEF SpinInv, Only, SameLevel, OrderInv, Acquiring
<1>3. LevelInv(c)'
  BY DEF SpinInv, CPUInv, Only, SameLevel, LevelInv, Idle, Runs, Levels
<1>4. NoPanic'
  BY DEF SpinInv, NoPanic, Only, SameLevel, SameCPU
<1> QED
  BY <1>1, <1>2, <1>3, <1>4 DEF SpinInv, CPUInv

LEMMA SameLocks ==
    ASSUME SpinInv, locked' = locked, holder' = holder, held' = held,
           \A c \in CPUs, v \in Levels, l \in Locks : Has(c, v, l)' <=> Has(c, v, l)
    PROVE  LocksInv'
BY DEF SpinInv, LocksInv, Exclusive, LockedInv, HolderInv

(***************************************************************************)
(* The steps, one by one.                                                  *)
(***************************************************************************)
LEMMA Acquire ==
    ASSUME SpinInv, NEW c \in CPUs, NEW v \in Levels, NEW l \in Locks, acquire(c, v, l)
    PROVE  SpinInv'
<1>1. TypeOK'
  BY DEF SpinInv, TypeOK, Levels, Goto, acquire
<1>2. /\ Runs(c, v) /\ Only(c, v) /\ inirq'[c] = inirq[c] /\ enabled'[c] = enabled[c]
         /\ pc[c][v] = "run" /\ pc'[c][v] = "intr_off"
         /\ held'[c][v] = held[c][v] /\ noff'[c] = noff[c] /\ intena'[c] = intena[c]
         /\ sie'[c] = sie[c] /\ old'[c][v] = sie[c]
         /\ lk'[c][v] = l /\ \A k \in held[c][v] : k < l
  BY DEF SpinInv, TypeOK, Levels, At, Goto, Only, SameCPU, SameLevel, acquire
<1>3. /\ Running(c) = v /\ Running(c)' = v
      /\ DepthInv(c) /\ LevelInv(c) /\ InterruptInv(c) /\ OrderInv(c, v)
      /\ On(c)' = On(c) /\ (inirq[c] => On(c) = FALSE)
  BY <1>2 DEF SpinInv, CPUInv, Runs, Running, On
<1>4. Cardinality(held[c][v]) \in Nat /\ (Cardinality(held[c][v]) = 0 <=> held[c][v] = {})
  BY DepthType DEF SpinInv
<1>5. DepthInv(c)'
  BY <1>2, <1>3, <1>4 DEF DepthInv, Depth, Pushed
<1>6. InterruptInv(c)' /\ (inirq[c] => ~sie'[c])
  BY <1>2, <1>3, <1>4 DEF InterruptInv, EnableInv, LevelInv, DepthInv, Depth, Pushed
<1>7. OrderInv(c, v)' /\ pc'[c][v] # "panic"
  BY <1>2, <1>3 DEF OrderInv, Acquiring
<1>8. LocksInv'
  BY <1>2, SameLocks DEF Only, SameCPU, SameLevel, Has, acquire
<1> QED
  BY <1>1, <1>2, <1>3, <1>5, <1>6, <1>7, <1>8, LevelStep

LEMMA PushOff ==
    ASSUME SpinInv, NEW c \in CPUs, NEW v \in Levels, push_off(c, v)
    PROVE  SpinInv'
<1>1. TypeOK'
  BY DEF SpinInv, TypeOK, Levels, Goto, push_off
<1>2. /\ Runs(c, v) /\ Only(c, v) /\ inirq'[c] = inirq[c] /\ enabled'[c] = enabled[c]
         /\ pc[c][v] = "intr_off" /\ pc'[c][v] = "noff"
         /\ held'[c][v] = held[c][v] /\ noff'[c] = noff[c] /\ intena'[c] = intena[c]
         /\ sie'[c] = FALSE /\ old'[c][v] = old[c][v] /\ lk'[c][v] = lk[c][v]
  BY DEF SpinInv, TypeOK, Levels, At, Goto, Only, SameCPU, SameLevel, push_off
<1>3. /\ Running(c) = v /\ Running(c)' = v
      /\ DepthInv(c) /\ LevelInv(c) /\ InterruptInv(c) /\ OrderInv(c, v)
      /\ On(c)' = On(c) /\ (inirq[c] => On(c) = FALSE)
  BY <1>2 DEF SpinInv, CPUInv, Runs, Running, On
<1>4. Cardinality(held[c][v]) \in Nat /\ (Cardinality(held[c][v]) = 0 <=> held[c][v] = {})
  BY DepthType DEF SpinInv
<1>5. DepthInv(c)'
  BY <1>2, <1>3, <1>4 DEF DepthInv, Depth, Pushed
<1>6. InterruptInv(c)' /\ (inirq[c] => ~sie'[c])
  BY <1>2, <1>3, <1>4 DEF InterruptInv, EnableInv, LevelInv, DepthInv, Depth, Pushed
<1>7. OrderInv(c, v)' /\ pc'[c][v] # "panic"
  BY <1>2, <1>3 DEF OrderInv, Acquiring
<1>8. LocksInv'
  BY <1>2, SameLocks DEF Only, SameCPU, SameLevel, Has, push_off
<1> QED
  BY <1>1, <1>2, <1>3, <1>5, <1>6, <1>7, <1>8, LevelStep

LEMMA PushOffNoff ==
    ASSUME SpinInv, NEW c \in CPUs, NEW v \in Levels, push_off_noff(c, v)
    PROVE  SpinInv'
<1>1. TypeOK'
  BY DEF SpinInv, TypeOK, Levels, Goto, push_off_noff, Intena
<1>2. /\ Runs(c, v) /\ Only(c, v) /\ inirq'[c] = inirq[c] /\ enabled'[c] = enabled[c]
         /\ pc[c][v] = "noff" /\ pc'[c][v] = "holding"
         /\ held'[c][v] = held[c][v] /\ noff'[c] = noff[c] + 1 /\ noff[c] \in Nat
         /\ intena'[c] = (IF noff[c] = 0 THEN old[c][v] ELSE intena[c])
         /\ sie'[c] = sie[c] /\ lk'[c][v] = lk[c][v]
  BY DEF SpinInv, TypeOK, Levels, At, Goto, Only, SameCPU, SameLevel, push_off_noff, Intena
<1>3. /\ Running(c) = v /\ Running(c)' = v
      /\ DepthInv(c) /\ LevelInv(c) /\ InterruptInv(c) /\ OrderInv(c, v)
      /\ On(c)' = On(c) /\ (inirq[c] => On(c) = FALSE)
  BY <1>2 DEF SpinInv, CPUInv, Runs, Running, On
<1>4. Cardinality(held[c][v]) \in Nat /\ (Cardinality(held[c][v]) = 0 <=> held[c][v] = {})
  BY DepthType DEF SpinInv
<1>5. DepthInv(c)'
  BY <1>2, <1>3, <1>4 DEF DepthInv, Depth, Pushed
<1>6. InterruptInv(c)' /\ (inirq[c] => ~sie'[c])
  BY <1>2, <1>3, <1>4 DEF InterruptInv, EnableInv, LevelInv, DepthInv, Depth, Pushed
<1>7. OrderInv(c, v)' /\ pc'[c][v] # "panic"
  BY <1>2, <1>3 DEF OrderInv, Acquiring
<1>8. LocksInv'
  BY <1>2, SameLocks DEF Only, SameCPU, SameLevel, Has, push_off_noff
<1> QED
  BY <1>1, <1>2, <1>3, <1>5, <1>6, <1>7, <1>8, LevelStep

LEMMA NotHolding ==
    ASSUME SpinInv, NEW c \in CPUs, NEW v \in Levels, Runs(c, v), Acquiring(c, v)
    PROVE  ~holding(c, lk[c][v])
<1>1. lk[c][v] \in Locks /\ lk[c][v] \notin held[c][v]
  <2>1. lk[c][v] \in Locks /\ \A k \in held[c][v] : k < lk[c][v]
    BY DEF SpinInv, OrderInv
  <2>2. lk[c][v] \in Nat
    BY <2>1, SpinlockConstants
  <2> QED
    BY <2>1, <2>2
<1>2. \A w \in Levels : lk[c][v] \notin held[c][w]
  BY <1>1 DEF SpinInv, CPUInv, LevelInv, Idle, Runs, Levels
<1> QED
  BY <1>1, <1>2 DEF SpinInv, LocksInv, HolderInv, holding

LEMMA AcquireTest ==
    ASSUME SpinInv, NEW c \in CPUs, NEW v \in Levels, acquire_test(c, v)
    PROVE  SpinInv'
<1>1. TypeOK'
  BY DEF SpinInv, TypeOK, Levels, Goto, acquire_test
<1>0. ~holding(c, lk[c][v])
  BY NotHolding DEF acquire_test, At, Acquiring
<1>2. /\ Runs(c, v) /\ Only(c, v) /\ inirq'[c] = inirq[c] /\ enabled'[c] = enabled[c]
         /\ pc[c][v] = "holding" /\ pc'[c][v] = "swap"
         /\ held'[c][v] = held[c][v] /\ noff'[c] = noff[c] /\ intena'[c] = intena[c]
         /\ sie'[c] = sie[c] /\ lk'[c][v] = lk[c][v]
  BY <1>0 DEF SpinInv, TypeOK, Levels, At, Goto, Only, SameCPU, SameLevel, acquire_test
<1>3. /\ Running(c) = v /\ Running(c)' = v
      /\ DepthInv(c) /\ LevelInv(c) /\ InterruptInv(c) /\ OrderInv(c, v)
      /\ On(c)' = On(c) /\ (inirq[c] => On(c) = FALSE)
  BY <1>2 DEF SpinInv, CPUInv, Runs, Running, On
<1>4. Cardinality(held[c][v]) \in Nat /\ (Cardinality(held[c][v]) = 0 <=> held[c][v] = {})
  BY DepthType DEF SpinInv
<1>5. DepthInv(c)'
  BY <1>2, <1>3, <1>4 DEF DepthInv, Depth, Pushed
<1>6. InterruptInv(c)' /\ (inirq[c] => ~sie'[c])
  BY <1>2, <1>3, <1>4 DEF InterruptInv, EnableInv, LevelInv, DepthInv, Depth, Pushed
<1>7. OrderInv(c, v)' /\ pc'[c][v] # "panic"
  BY <1>2, <1>3 DEF OrderInv, Acquiring
<1>8. LocksInv'
  BY <1>2, SameLocks DEF Only, SameCPU, SameLevel, Has, acquire_test
<1> QED
  BY <1>1, <1>2, <1>3, <1>5, <1>6, <1>7, <1>8, LevelStep

LEMMA PopOff ==
    ASSUME SpinInv, NEW c \in CPUs, NEW v \in Levels, pop_off(c, v)
    PROVE  SpinInv'
<1>0. ~sie[c] /\ noff[c] \in Nat /\ noff[c] >= 1
  <2>1. Runs(c, v) /\ pc[c][v] = "pop_off"
    BY DEF pop_off, At
  <2>2. Running(c) = v /\ DepthInv(c) /\ InterruptInv(c)
    BY <2>1 DEF SpinInv, CPUInv, Runs, Running
  <2>3. Cardinality(held[c][v]) \in Nat
    BY DepthType DEF SpinInv
  <2>4. noff[c] = Cardinality(held[c][v]) + 1
    BY <2>1, <2>2 DEF DepthInv, Depth, Pushed
  <2> QED
    BY <2>2, <2>3, <2>4 DEF InterruptInv, EnableInv
<1>1. TypeOK'
  <2>1. /\ noff' = [noff EXCEPT ![c] = noff[c] - 1] /\ sie' = [sie EXCEPT ![c] = Reenables(c)]
        /\ pc' = [pc EXCEPT ![c][v] = "run"]
        /\ UNCHANGED <<locked, holder, intena, inirq, lk, old, held, enabled>>
    BY <1>0 DEF pop_off, Goto
  <2>2. noff[c] - 1 \in Nat /\ Reenables(c) \in BOOLEAN
    BY <1>0 DEF SpinInv, TypeOK, Reenables
  <2> QED
    BY <2>1, <2>2 DEF SpinInv, TypeOK, Levels
<1>2. /\ Runs(c, v) /\ Only(c, v) /\ inirq'[c] = inirq[c] /\ enabled'[c] = enabled[c]
         /\ pc[c][v] = "pop_off" /\ pc'[c][v] = "run"
         /\ held'[c][v] = held[c][v] /\ noff'[c] = noff[c] - 1 /\ intena'[c] = intena[c]
         /\ (noff[c] = 1 => sie'[c] = intena[c]) /\ (noff[c] # 1 => sie'[c] = FALSE)
  BY <1>0 DEF SpinInv, TypeOK, Levels, At, Goto, Only, SameCPU, SameLevel, pop_off, Reenables
<1>3. /\ Running(c) = v /\ Running(c)' = v
      /\ DepthInv(c) /\ LevelInv(c) /\ InterruptInv(c) /\ OrderInv(c, v)
      /\ On(c)' = On(c) /\ (inirq[c] => On(c) = FALSE)
  BY <1>2 DEF SpinInv, CPUInv, Runs, Running, On
<1>4. Cardinality(held[c][v]) \in Nat /\ (Cardinality(held[c][v]) = 0 <=> held[c][v] = {})
  BY DepthType DEF SpinInv
<1>5. DepthInv(c)'
  BY <1>0, <1>2, <1>3, <1>4 DEF DepthInv, Depth, Pushed
<1>6. InterruptInv(c)' /\ (inirq[c] => ~sie'[c])
  <2>1. intena[c] = On(c)
    BY <1>0, <1>3 DEF InterruptInv, EnableInv
  <2>2. CASE noff[c] = 1
    <3>1. sie'[c] = On(c) /\ noff'[c] = 0
      BY <1>0, <1>2, <2>1, <2>2
    <3> QED
      BY <1>2, <1>3, <3>1 DEF InterruptInv, EnableInv
  <2>3. CASE noff[c] # 1
    <3>1. sie'[c] = FALSE /\ noff'[c] # 0
      BY <1>0, <1>2, <2>3
    <3> QED
      BY <1>2, <1>3, <2>1, <3>1 DEF InterruptInv, EnableInv
  <2> QED
    BY <2>2, <2>3
<1>7. OrderInv(c, v)' /\ pc'[c][v] # "panic"
  BY <1>2, <1>3 DEF OrderInv, Acquiring
<1>8. LocksInv'
  BY <1>2, SameLocks DEF Only, SameCPU, SameLevel, Has, pop_off
<1> QED
  BY <1>1, <1>2, <1>3, <1>5, <1>6, <1>7, <1>8, LevelStep

LEMMA AcquireSwap ==
    ASSUME SpinInv, NEW c \in CPUs, NEW v \in Levels, acquire_swap(c, v)
    PROVE  SpinInv'
<1>1. TypeOK'
  BY DEF SpinInv, TypeOK, Levels, Goto, acquire_swap
<1>2. /\ Runs(c, v) /\ Only(c, v) /\ inirq'[c] = inirq[c] /\ enabled'[c] = enabled[c]
         /\ pc[c][v] = "swap" /\ pc'[c][v] = "cpu"
         /\ held'[c][v] = held[c][v] /\ noff'[c] = noff[c] /\ intena'[c] = intena[c]
         /\ sie'[c] = sie[c] /\ lk'[c][v] = lk[c][v]
  BY DEF SpinInv, TypeOK, Levels, At, Goto, Only, SameCPU, SameLevel, acquire_swap
<1>3. /\ Running(c) = v /\ Running(c)' = v
      /\ DepthInv(c) /\ LevelInv(c) /\ InterruptInv(c) /\ OrderInv(c, v)
      /\ On(c)' = On(c) /\ (inirq[c] => On(c) = FALSE)
  BY <1>2 DEF SpinInv, CPUInv, Runs, Running, On
<1>4. Cardinality(held[c][v]) \in Nat /\ (Cardinality(held[c][v]) = 0 <=> held[c][v] = {})
  BY DepthType DEF SpinInv
<1>5. DepthInv(c)'
  BY <1>2, <1>3, <1>4 DEF DepthInv, Depth, Pushed
<1>6. InterruptInv(c)' /\ (inirq[c] => ~sie'[c])
  BY <1>2, <1>3, <1>4 DEF InterruptInv, EnableInv, LevelInv, DepthInv, Depth, Pushed
<1>7. OrderInv(c, v)' /\ pc'[c][v] # "panic"
  BY <1>2, <1>3 DEF OrderInv, Acquiring
<1>8. LocksInv'
  <2> DEFINE l == lk[c][v]
  <2>1. l \in Locks /\ ~locked[l] /\ held' = held /\ holder' = holder
    BY <1>2, <1>3 DEF OrderInv, Acquiring, acquire_swap
  <2>2. \A d \in CPUs, w \in Levels : ~Has(d, w, l)
    BY <2>1 DEF SpinInv, LocksInv, LockedInv
  <2>3. \A d \in CPUs, w \in Levels, k \in Locks :
           Has(d, w, k)' <=> Has(d, w, k) \/ (d = c /\ w = v /\ k = l)
    BY <1>2 DEF Only, SameCPU, SameLevel, Has
  <2>4. \A k \in Locks : locked'[k] <=> locked[k] \/ k = l
    BY <2>1 DEF SpinInv, TypeOK, acquire_swap
  <2>5. Exclusive'
    BY <2>2, <2>3 DEF SpinInv, LocksInv, Exclusive
  <2>6. \A k \in Locks : LockedInv(k)' /\ HolderInv(k)'
    BY <2>1, <2>3, <2>4 DEF SpinInv, LocksInv, LockedInv, HolderInv
  <2> QED
    BY <2>5, <2>6 DEF LocksInv
<1> QED
  BY <1>1, <1>2, <1>3, <1>5, <1>6, <1>7, <1>8, LevelStep

LEMMA AcquireCPU ==
    ASSUME SpinInv, NEW c \in CPUs, NEW v \in Levels, acquire_cpu(c, v)
    PROVE  SpinInv'
<1>0. lk[c][v] \in Locks /\ lk[c][v] \notin held[c][v]
  BY SpinlockConstants DEF SpinInv, OrderInv, Acquiring, acquire_cpu, At
<1>1. TypeOK'
  BY <1>0 DEF SpinInv, TypeOK, Levels, Goto, acquire_cpu
<1>2. /\ Runs(c, v) /\ Only(c, v) /\ inirq'[c] = inirq[c] /\ enabled'[c] = enabled[c]
         /\ pc[c][v] = "cpu" /\ pc'[c][v] = "run"
         /\ held'[c][v] = held[c][v] \cup {lk[c][v]} /\ lk'[c][v] = 0
         /\ noff'[c] = noff[c] /\ intena'[c] = intena[c] /\ sie'[c] = sie[c]
  BY DEF SpinInv, TypeOK, Levels, At, Goto, Only, SameCPU, SameLevel, acquire_cpu
<1>3. /\ Running(c) = v /\ Running(c)' = v
      /\ DepthInv(c) /\ LevelInv(c) /\ InterruptInv(c) /\ OrderInv(c, v)
      /\ On(c)' = On(c) /\ (inirq[c] => On(c) = FALSE)
  BY <1>2 DEF SpinInv, CPUInv, Runs, Running, On
<1>4. Cardinality(held[c][v]) \in Nat /\ (Cardinality(held[c][v]) = 0 <=> held[c][v] = {})
  BY DepthType DEF SpinInv
<1>5. DepthInv(c)'
  <2>1. Cardinality(held'[c][v]) = Cardinality(held[c][v]) + 1
    BY <1>0, <1>2, CountHeld DEF SpinInv
  <2>2. Pushed(c, v) = 1 /\ Pushed(c, v)' = 0
    BY <1>2 DEF Pushed
  <2>3. noff'[c] = Cardinality(held'[c][v]) + Pushed(c, v)'
    BY <1>2, <1>3, <1>4, <2>1, <2>2 DEF DepthInv, Depth
  <2> QED
    BY <1>3, <2>3 DEF DepthInv, Depth
<1>6. InterruptInv(c)' /\ (inirq[c] => ~sie'[c])
  BY <1>2, <1>3, <1>4 DEF InterruptInv, EnableInv, LevelInv, DepthInv, Depth, Pushed
<1>7. OrderInv(c, v)' /\ pc'[c][v] # "panic"
  BY <1>2, <1>3 DEF OrderInv, Acquiring
<1>8. LocksInv'
  <2> DEFINE l == lk[c][v]
  <2>1. locked' = locked /\ \A k \in Locks : holder'[k] = IF k = l THEN c ELSE holder[k]
    BY <1>0 DEF SpinInv, TypeOK, acquire_cpu
  <2>2. \A d \in CPUs, w \in Levels, k \in Locks :
           k \in held'[d][w] <=> k \in held[d][w] \/ (d = c /\ w = v /\ k = l)
    BY <1>2 DEF Only, SameCPU, SameLevel
  <2>3. \A d \in CPUs, w \in Levels, k \in Locks : Has(d, w, k)' <=> Has(d, w, k)
    BY <1>2, <2>2 DEF Only, SameCPU, SameLevel, Has
  <2>4. Exclusive' /\ \A k \in Locks : LockedInv(k)'
    BY <2>1, <2>3 DEF SpinInv, LocksInv, Exclusive, LockedInv
  <2>5. \A d \in CPUs, w \in Levels : l \in held[d][w] => d = c /\ w = v
    BY <1>0, <1>2 DEF SpinInv, LocksInv, Exclusive, Has
  <2>6. \A k \in Locks : HolderInv(k)'
    BY <2>1, <2>2, <2>5 DEF SpinInv, LocksInv, HolderInv
  <2> QED
    BY <2>4, <2>6 DEF LocksInv
<1> QED
  BY <1>1, <1>2, <1>3, <1>5, <1>6, <1>7, <1>8, LevelStep

LEMMA Release ==
    ASSUME SpinInv, NEW c \in CPUs, NEW v \in Levels, NEW l \in Locks, release(c, v, l)
    PROVE  SpinInv'
<1>0. holding(c, l) /\ l \in held[c][v]
  BY DEF SpinInv, LocksInv, LockedInv, HolderInv, Has, holding, release
<1>1. TypeOK'
  <2>1. /\ holder' = [holder EXCEPT ![l] = None] /\ held' = [held EXCEPT ![c][v] = @ \ {l}]
        /\ lk' = [lk EXCEPT ![c][v] = l] /\ pc' = [pc EXCEPT ![c][v] = "unlock"]
        /\ UNCHANGED <<locked, sie, noff, intena, inirq, old, enabled>>
    BY <1>0 DEF release, Goto
  <2> QED
    BY <2>1 DEF SpinInv, TypeOK, Levels
<1>2. /\ Runs(c, v) /\ Only(c, v) /\ inirq'[c] = inirq[c] /\ enabled'[c] = enabled[c]
         /\ pc[c][v] = "run" /\ pc'[c][v] = "unlock"
         /\ l \in held[c][v] /\ held'[c][v] = held[c][v] \ {l} /\ lk'[c][v] = l
         /\ noff'[c] = noff[c] /\ intena'[c] = intena[c] /\ sie'[c] = sie[c]
  BY <1>0 DEF SpinInv, TypeOK, Levels, At, Goto, Only, SameCPU, SameLevel, release
<1>3. /\ Running(c) = v /\ Running(c)' = v
      /\ DepthInv(c) /\ LevelInv(c) /\ InterruptInv(c) /\ OrderInv(c, v)
      /\ On(c)' = On(c) /\ (inirq[c] => On(c) = FALSE)
  BY <1>2 DEF SpinInv, CPUInv, Runs, Running, On
<1>4. Cardinality(held[c][v]) \in Nat /\ (Cardinality(held[c][v]) = 0 <=> held[c][v] = {})
  BY DepthType DEF SpinInv
<1>5. DepthInv(c)'
  <2>1. Cardinality(held'[c][v]) = Cardinality(held[c][v]) - 1
    BY <1>0, <1>2, CountHeld DEF SpinInv
  <2>2. Pushed(c, v) = 0 /\ Pushed(c, v)' = 1
    BY <1>2 DEF Pushed
  <2>3. noff'[c] = Cardinality(held'[c][v]) + Pushed(c, v)'
    BY <1>2, <1>3, <1>4, <2>1, <2>2 DEF DepthInv, Depth
  <2> QED
    BY <1>3, <2>3 DEF DepthInv, Depth
<1>6. InterruptInv(c)' /\ (inirq[c] => ~sie'[c])
  BY <1>2, <1>3, <1>4 DEF InterruptInv, EnableInv, LevelInv, DepthInv, Depth, Pushed
<1>7. OrderInv(c, v)' /\ pc'[c][v] # "panic"
  BY <1>2, <1>3 DEF OrderInv, Acquiring
<1>8. LocksInv'
  <2>1. locked' = locked /\ \A k \in Locks : holder'[k] = IF k = l THEN None ELSE holder[k]
    BY <1>0 DEF SpinInv, TypeOK, release
  <2>2. \A d \in CPUs, w \in Levels, k \in Locks :
           k \in held'[d][w] <=> k \in held[d][w] /\ ~(d = c /\ w = v /\ k = l)
    BY <1>2 DEF Only, SameCPU, SameLevel
  <2>3. \A d \in CPUs, w \in Levels, k \in Locks : Has(d, w, k)' <=> Has(d, w, k)
    BY <1>2, <2>2 DEF Only, SameCPU, SameLevel, Has
  <2>4. Exclusive' /\ \A k \in Locks : LockedInv(k)'
    BY <2>1, <2>3 DEF SpinInv, LocksInv, Exclusive, LockedInv
  <2>5. \A d \in CPUs, w \in Levels : l \in held[d][w] => d = c /\ w = v
    BY <1>2 DEF SpinInv, LocksInv, Exclusive, Has
  <2>6. \A k \in Locks : HolderInv(k)'
    BY <2>1, <2>2, <2>5, SpinlockConstants DEF SpinInv, LocksInv, HolderInv
  <2> QED
    BY <2>4, <2>6 DEF LocksInv
<1> QED
  BY <1>1, <1>2, <1>3, <1>5, <1>6, <1>7, <1>8, LevelStep

LEMMA ReleaseUnlock ==
    ASSUME SpinInv, NEW c \in CPUs, NEW v \in Levels, release_unlock(c, v)
    PROVE  SpinInv'
<1>1. TypeOK'
  BY DEF SpinInv, TypeOK, Levels, Goto, release_unlock
<1>2. /\ Runs(c, v) /\ Only(c, v) /\ inirq'[c] = inirq[c] /\ enabled'[c] = enabled[c]
         /\ pc[c][v] = "unlock" /\ pc'[c][v] = "pop_off"
         /\ held'[c][v] = held[c][v] /\ noff'[c] = noff[c] /\ intena'[c] = intena[c]
         /\ sie'[c] = sie[c] /\ lk'[c][v] = 0
  BY DEF SpinInv, TypeOK, Levels, At, Goto, Only, SameCPU, SameLevel, release_unlock
<1>3. /\ Running(c) = v /\ Running(c)' = v
      /\ DepthInv(c) /\ LevelInv(c) /\ InterruptInv(c) /\ OrderInv(c, v)
      /\ On(c)' = On(c) /\ (inirq[c] => On(c) = FALSE)
  BY <1>2 DEF SpinInv, CPUInv, Runs, Running, On
<1>4. Cardinality(held[c][v]) \in Nat /\ (Cardinality(held[c][v]) = 0 <=> held[c][v] = {})
  BY DepthType DEF SpinInv
<1>5. DepthInv(c)'
  BY <1>2, <1>3, <1>4 DEF DepthInv, Depth, Pushed
<1>6. InterruptInv(c)' /\ (inirq[c] => ~sie'[c])
  BY <1>2, <1>3, <1>4 DEF InterruptInv, EnableInv, LevelInv, DepthInv, Depth, Pushed
<1>7. OrderInv(c, v)' /\ pc'[c][v] # "panic"
  BY <1>2, <1>3 DEF OrderInv, Acquiring
<1>8. LocksInv'
  <2> DEFINE l == lk[c][v]
  <2>1. l \in Locks /\ l \notin held[c][v] /\ held' = held /\ holder' = holder
    BY <1>2, <1>3 DEF OrderInv, release_unlock
  <2>2. \A d \in CPUs, w \in Levels : Has(d, w, l) => d = c /\ w = v
    BY <1>2, <2>1 DEF SpinInv, LocksInv, Exclusive, Has
  <2>3. \A d \in CPUs, w \in Levels, k \in Locks :
           Has(d, w, k)' <=> Has(d, w, k) /\ ~(d = c /\ w = v /\ k = l)
    BY <1>2, <2>1 DEF Only, SameCPU, SameLevel, Has
  <2>4. \A k \in Locks : locked'[k] <=> locked[k] /\ k # l
    BY <2>1 DEF SpinInv, TypeOK, release_unlock
  <2>5. Exclusive'
    BY <2>3 DEF SpinInv, LocksInv, Exclusive
  <2>6. \A k \in Locks : LockedInv(k)' /\ HolderInv(k)'
    BY <2>1, <2>2, <2>3, <2>4 DEF SpinInv, LocksInv, LockedInv, HolderInv
  <2> QED
    BY <2>5, <2>6 DEF LocksInv
<1> QED
  BY <1>1, <1>2, <1>3, <1>5, <1>6, <1>7, <1>8, LevelStep

(***************************************************************************)
(* Interrupts of code that has no lock, and traps.                         *)
(***************************************************************************)
LEMMA NoDepth ==
    ASSUME SpinInv, NEW c \in CPUs
    PROVE  /\ Cardinality({}) = 0
           /\ noff[c] = 0 <=> held[c][Running(c)] = {} /\ Pushed(c, Running(c)) = 0
<1>1. Running(c) \in Levels /\ DepthInv(c)
  BY DEF SpinInv, CPUInv, Running, Levels
<1>2. Cardinality(held[c][Running(c)]) \in Nat
      /\ (Cardinality(held[c][Running(c)]) = 0 <=> held[c][Running(c)] = {})
  BY <1>1, DepthType DEF SpinInv
<1>3. Cardinality({}) = 0
  BY FS_EmptySet
<1> QED
  BY <1>1, <1>2, <1>3 DEF DepthInv, Depth, Pushed

LEMMA CPUStep ==
    ASSUME SpinInv, NEW c \in CPUs, \A d \in CPUs \ {c} : SameCPU(d),
           UNCHANGED <<locked, holder, held, pc, lk, old>>, TypeOK', CPUInv(c)'
    PROVE  SpinInv'
<1>1. ASSUME NEW d \in CPUs, d # c
      PROVE  CPUInv(d)'
  BY <1>1, OtherCPU DEF SpinInv
<1>2. \A d \in CPUs, w \in Levels : OrderInv(d, w)'
  BY DEF SpinInv, OrderInv, Acquiring
<1>3. NoPanic'
  BY DEF SpinInv, NoPanic
<1>4. LocksInv'
  BY SameLocks DEF Has
<1> QED
  BY <1>1, <1>2, <1>3, <1>4 DEF SpinInv

LEMMA Intr ==
    ASSUME SpinInv, NEW c \in CPUs, NEW on \in BOOLEAN, intr(c, on)
    PROVE  SpinInv'
<1>1. /\ TypeOK' /\ UNCHANGED <<locked, holder, held, pc, lk, old>>
      /\ \A d \in CPUs \ {c} : SameCPU(d)
  BY DEF SpinInv, TypeOK, SameCPU, intr
<1>2. /\ ~inirq[c] /\ inirq' = inirq /\ noff' = noff /\ sie'[c] = on /\ enabled'[c] = on
      /\ pc[c]["main"] = "run" /\ held[c]["main"] = {}
  BY DEF SpinInv, TypeOK, At, Runs, intr
<1>3. Running(c) = "main" /\ Running(c)' = "main" /\ On(c)' = on
  BY <1>2 DEF Running, On
<1>4. noff[c] = 0
  BY <1>2, <1>3, NoDepth DEF Pushed
<1>5. DepthInv(c)'
  BY <1>1, <1>2, <1>3 DEF SpinInv, CPUInv, DepthInv, Depth, Pushed
<1>6. LevelInv(c)'
  BY <1>1, <1>2 DEF SpinInv, CPUInv, LevelInv, Idle
<1>7. InterruptInv(c)'
  BY <1>1, <1>2, <1>3, <1>4 DEF InterruptInv, EnableInv
<1> QED
  BY <1>1, <1>5, <1>6, <1>7, CPUStep DEF CPUInv

LEMMA Trap ==
    ASSUME SpinInv, NEW c \in CPUs, kerneltrap(c)
    PROVE  SpinInv'
<1>1. /\ TypeOK' /\ UNCHANGED <<locked, holder, held, pc, lk, old, noff, enabled>>
      /\ \A d \in CPUs \ {c} : SameCPU(d)
  BY DEF SpinInv, TypeOK, SameCPU, kerneltrap
<1>2. sie[c] /\ ~inirq[c] /\ inirq'[c] = TRUE /\ sie'[c] = FALSE
  BY DEF SpinInv, TypeOK, kerneltrap
<1>3. Running(c) = "main" /\ Running(c)' = "irq" /\ On(c) = enabled[c] /\ On(c)' = FALSE
  BY <1>2 DEF SpinInv, TypeOK, Running, On
<1>4. DepthInv(c) /\ Idle(c, "irq") /\ EnableInv(c, "main", enabled[c])
  BY <1>2, <1>3 DEF SpinInv, CPUInv, LevelInv, InterruptInv
<1>5. noff[c] = 0
  BY <1>2, <1>4 DEF SpinInv, TypeOK, EnableInv
<1>6. held[c]["main"] = {} /\ Pushed(c, "main") = 0
  BY <1>3, <1>5, NoDepth
<1>7. pc[c]["main"] = "run" \/ (pc[c]["main"] = "intr_off" /\ old[c]["main"])
  <2>1. pc[c]["main"] \in {"run", "intr_off", "noff"}
    BY <1>6 DEF SpinInv, TypeOK, NoPanic, Pushed, Levels
  <2> QED
    BY <1>2, <1>4, <2>1 DEF EnableInv
<1>8. enabled[c]
  BY <1>2, <1>4, <1>5, <1>7 DEF EnableInv
<1>9. DepthInv(c)'
  BY <1>1, <1>3, <1>4, <1>5, NoDepth DEF DepthInv, Depth, Pushed, Idle
<1>10. LevelInv(c)'
  BY <1>1, <1>2, <1>6, <1>7, <1>8 DEF LevelInv, Idle
<1>11. InterruptInv(c)'
  BY <1>1, <1>2, <1>3, <1>4, <1>5 DEF InterruptInv, EnableInv, Idle
<1> QED
  BY <1>1, <1>9, <1>10, <1>11, CPUStep DEF CPUInv

LEMMA TrapReturn ==
    ASSUME SpinInv, NEW c \in CPUs, kerneltrap_ret(c)
    PROVE  SpinInv'
<1>1. /\ TypeOK' /\ UNCHANGED <<locked, holder, held, pc, lk, old, noff, enabled>>
      /\ \A d \in CPUs \ {c} : SameCPU(d)
  BY DEF SpinInv, TypeOK, SameCPU, kerneltrap_ret
<1>2. /\ inirq[c] /\ inirq'[c] = FALSE /\ sie'[c] = TRUE
      /\ pc[c]["irq"] = "run" /\ held[c]["irq"] = {}
  BY DEF SpinInv, TypeOK, At, Runs, kerneltrap_ret
<1>3. Running(c) = "irq" /\ Running(c)' = "main"
  BY <1>2 DEF Running
<1>4. noff[c] = 0
  BY <1>2, <1>3, NoDepth DEF Pushed
<1>5. /\ enabled[c] /\ held[c]["main"] = {}
      /\ pc[c]["main"] = "run" \/ (pc[c]["main"] = "intr_off" /\ old[c]["main"])
  BY <1>2 DEF SpinInv, CPUInv, LevelInv, Idle
<1>6. On(c)' = TRUE /\ old[c]["main"] \in BOOLEAN
  BY <1>1, <1>2, <1>5 DEF SpinInv, TypeOK, On, Levels
<1>7. DepthInv(c)'
  BY <1>1, <1>3, <1>4, <1>5, NoDepth DEF DepthInv, Depth, Pushed
<1>8. LevelInv(c)'
  BY <1>1, <1>2 DEF LevelInv, Idle
<1>9. InterruptInv(c)'
  <2>1. EnableInv(c, "main", TRUE)'
    <3>1. old[c]["main"] = TRUE \/ pc[c]["main"] = "run"
      BY <1>5, <1>6
    <3>2. noff'[c] = 0 /\ sie'[c] = TRUE /\ pc'[c]["main"] \in {"run", "intr_off"}
      BY <1>1, <1>2, <1>4, <1>5
    <3>3. pc'[c]["main"] = "intr_off" => old'[c]["main"] = TRUE
      BY <1>1, <3>1
    <3>4. CASE pc'[c]["main"] = "run"
      BY <3>2, <3>4 DEF EnableInv
    <3>5. CASE pc'[c]["main"] = "intr_off"
      <4>1. old'[c]["main"] = sie'[c] /\ old'[c]["main"] = TRUE
        BY Zenon, <3>2, <3>3, <3>5
      <4> QED
        BY <3>2, <3>5, <4>1 DEF EnableInv
    <3> QED
      BY <3>2, <3>4, <3>5
  <2> QED
    BY <1>3, <1>6, <2>1 DEF InterruptInv
<1> QED
  BY <1>1, <1>7, <1>8, <1>9, CPUStep DEF CPUInv

LEMMA SpinInvNext == SpinInv /\ [Next]_vars => SpinInv'
<1> SUFFICES ASSUME SpinInv, [Next]_vars PROVE SpinInv'
  OBVIOUS
<1>1. ASSUME NEW c \in CPUs, NEW v \in Levels, acquires(c, v) \/ release_unlock(c, v) \/ pop_off(c, v)
      PROVE  SpinInv'
  BY <1>1, PushOff, PushOffNoff, AcquireTest, AcquireSwap, AcquireCPU, ReleaseUnlock, PopOff
     DEF acquires
<1>2. ASSUME NEW c \in CPUs, NEW v \in Levels, NEW l \in Locks, acquire(c, v, l) \/ release(c, v, l)
      PROVE  SpinInv'
  BY <1>2, Acquire, Release
<1>3. ASSUME NEW c \in CPUs, NEW on \in BOOLEAN, intr(c, on)
      PROVE  SpinInv'
  BY <1>3, Intr
<1>4. ASSUME NEW c \in CPUs, kerneltrap(c) \/ kerneltrap_ret(c)
      PROVE  SpinInv'
  BY <1>4, Trap, TrapReturn
<1>5. CASE UNCHANGED vars
  <2>1. TypeOK' /\ NoPanic'
    BY <1>5 DEF vars, SpinInv, TypeOK, NoPanic
  <2>2. \A c \in CPUs : SameCPU(c)
    BY <1>5 DEF vars, SameCPU
  <2>3. LocksInv'
    BY <1>5, SameLocks DEF vars, Has
  <2> QED
    BY <2>1, <2>2, <2>3, OtherCPU DEF SpinInv
<1> QED
  BY <1>1, <1>2, <1>3, <1>4, <1>5 DEF Next

(***************************************************************************)
(* The theorems.                                                           *)
(***************************************************************************)
(* What acquire(), release(), push_off(), pop_off() and traps keep true of *)
(* struct spinlock and struct cpu (spinlock.c).                            *)
THEOREM SpinInvariant == Spec => []SpinInv
<1>1. Init => SpinInv
  BY SpinInvInit
<1>2. SpinInv /\ [Next]_vars => SpinInv'
  BY SpinInvNext
<1> QED
  BY <1>1, <1>2, PTL DEF Spec

(* A lock has one holder, main code or handler of one CPU. *)
THEOREM MutualExclusion == Spec => []Exclusive
<1>1. SpinInv => Exclusive
  BY DEF SpinInv, LocksInv
<1> QED
  BY <1>1, SpinInvariant, PTL

(* acquire(), release() and pop_off() never panic. *)
THEOREM LocksNeverPanic == Spec => []NoPanic
<1>1. SpinInv => NoPanic
  BY DEF SpinInv
<1> QED
  BY <1>1, SpinInvariant, PTL

(* Code that has a lock is not interrupted: push_off() turns interrupts    *)
(* off before the lock is taken and pop_off() on after it is given back.   *)
THEOREM InterruptsOff == Spec => []NotInterrupted
<1>1. ASSUME SpinInv PROVE NotInterrupted
  <2> SUFFICES ASSUME NEW c \in CPUs, NEW v \in Levels, NEW l \in Locks, Has(c, v, l)
               PROVE  ~sie[c] /\ (v = "main" => ~inirq[c])
    BY DEF NotInterrupted
  <2>1. CPUInv(c) /\ noff[c] \in Nat
    BY <1>1 DEF SpinInv, TypeOK
  <2>2. v = Running(c)
    BY <2>1 DEF CPUInv, LevelInv, Idle, Has, Running, Levels
  <2>3. noff[c] # 0
    BY <1>1, <2>2, NoDepth DEF Has, Pushed
  <2>4. ~sie[c]
    BY <2>1, <2>3 DEF CPUInv, InterruptInv, EnableInv
  <2> QED
    BY <2>2, <2>4 DEF Running
<1> QED
  BY <1>1, SpinInvariant, PTL

(* Once the last lock is given back, interrupts are as they were before    *)
(* the first was taken: noff counts the locks and intena remembers.        *)
THEOREM InterruptsRestored == Spec => []Restored
<1>1. ASSUME SpinInv PROVE Restored
  <2> SUFFICES ASSUME NEW c \in CPUs, At(c, "main", "run"), held[c]["main"] = {}
               PROVE  sie[c] = enabled[c]
    BY DEF Restored
  <2>1. ~inirq[c] /\ Running(c) = "main" /\ pc[c]["main"] = "run"
    BY DEF At, Runs, Running
  <2>2. noff[c] = 0
    BY <1>1, <2>1, NoDepth DEF Pushed
  <2>3. On(c) = enabled[c]
    BY <1>1, <2>1 DEF SpinInv, TypeOK, On
  <2> QED
    BY <1>1, <2>1, <2>2, <2>3 DEF SpinInv, CPUInv, InterruptInv, EnableInv
<1> QED
  BY <1>1, SpinInvariant, PTL

(* All that acquire(), release() and traps promise together: locks exclude *)
(* each other, are not interrupted, never panic, and give interrupts back. *)
THEOREM SpinlocksHold == Spec => []LocksHold
BY MutualExclusion, InterruptsOff, LocksNeverPanic, InterruptsRestored, PTL DEF LocksHold
===============================================================================
