----------------------------- MODULE DevicesProofs -----------------------------
(***************************************************************************)
(* Proofs about what passes between two sides that sleep for each other:   *)
(* requests to the disk (Virtio, the module extended), the bytes of a pipe *)
(* (Pipe), what is typed (Console) and what is printed (Uart).  The four   *)
(* do not depend on one another.  Each theorem is about one of them, for   *)
(* all values of its constants that its ...Constants admits; what two name *)
(* alike is declared once.                                                 *)
(***************************************************************************)
EXTENDS Virtio, FiniteSetTheorems, SequenceTheorems, TLAPS

(* The disk.  A request transfers the block of its own thread, no          *)
(* descriptor is freed twice, and who sleeps has a reason to, whatever the *)
(* order in which the device completes requests.                           *)

Waiting == {t \in Threads : pc[t] = "wait"}
Active == {t \in Threads : pc[t] \in {"wait", "ready"}}

Types ==
    /\ desc \in [Descs -> [what : Threads \cup {"op", "status", None}, next : Descs \cup {None}]]
    /\ free \subseteq Descs
    /\ avail \in Seq(Descs) /\ used \in Seq(Descs) /\ inflight \subseteq Descs
    /\ info \in [Descs -> Threads \cup {None}]
    /\ ops \in [Descs -> [type : {"in", "out", None}, sector : Threads \cup {None}]]
    /\ busy \in [Threads -> BOOLEAN]
    /\ buffer \in [Threads -> Vals \cup {Old, None}]
    /\ pc \in [Threads -> {"idle", "alloc", "full", "wait", "ready", "done"}]
    /\ head \in [Threads -> Descs \cup {None}]
    /\ want \in [Threads -> Vals \cup {None}]
    /\ intr \in {"none", "raised", "running", "again"}
    /\ sector \in [Threads -> Vals \cup {Old}]

(* A request has three descriptors, which say what virtio_disk_rw() wrote  *)
(* into them, and which are neither free nor of another request.           *)
Second(t) == desc[head[t]].next
Third(t) == desc[Second(t)].next
Parts(t) == {head[t], Second(t), Third(t)}

DescInv ==
    /\ \A t \in Active :
         /\ head[t] \in Descs /\ Second(t) \in Descs /\ Third(t) \in Descs
         /\ head[t] # Second(t) /\ head[t] # Third(t) /\ Second(t) # Third(t)
         /\ desc[Third(t)].next = None
         /\ desc[Second(t)].what = t
         /\ ops[head[t]] = [type |-> Type(t), sector |-> t]
         /\ info[head[t]] = t
         /\ Parts(t) \cap free = {}
    /\ \A t, u \in Active : t # u => Parts(t) \cap Parts(u) = {}

(* What is in the rings, or with the device, is the head of one that waits,*)
(* in one place at a time.                                                 *)
Heads == {head[t] : t \in Waiting}
RingInv ==
    /\ \A i \in 1 .. Len(avail) : avail[i] \in Heads /\ avail[i] \notin inflight
    /\ \A i, j \in 1 .. Len(avail) : avail[i] = avail[j] => i = j
    /\ \A i \in 1 .. Len(used) : used[i] \in Heads /\ used[i] \notin inflight
    /\ \A i \in 1 .. Len(avail), j \in 1 .. Len(used) : avail[i] # used[j]
    /\ inflight \subseteq Heads

(* Before its request is completed the buffer is what the thread wants to  *)
(* write; afterwards the block is what its buffer is.                      *)
Moved(t) ==
    /\ buffer[t] = sector[t] /\ buffer[t] # None
    /\ want[t] # None => sector[t] = want[t]
Finished(t) == pc[t] \in {"ready", "done"} \/ (pc[t] = "wait" /\ head[t] \in Served)
DataInv ==
    \A t \in Threads :
        /\ ~Finished(t) /\ want[t] # None => buffer[t] = want[t]
        /\ Finished(t) => Moved(t)

WaitInv ==
    /\ \A t \in Threads : busy[t] <=> pc[t] = "wait"
    /\ \A t \in Threads : pc[t] = "full" => Cardinality(free) < 3

DiskInv == Types /\ DescInv /\ RingInv /\ DataInv /\ WaitInv
-------------------------------------------------------------------------------
(* What a request of three distinct descriptors looks like to free_chain().*)
LEMMA ChainIsParts ==
    ASSUME Types, DescInv, NEW t \in Active
    PROVE  Chain(head[t]) = Parts(t)
<1>1. Next1(head[t]) = Second(t) /\ Next1(Next1(head[t])) = Third(t)
  BY DEF Next1, Second, Third
<1>2. Second(t) # None /\ Third(t) # None
  <2>1. None \notin Descs BY VirtioConstants DEF Descs
  <2>. QED BY ZenonT(40), <2>1 DEF DescInv
<1>3. Next1(Third(t)) = None BY DEF DescInv, Next1
<1>. QED BY <1>1, <1>2, <1>3 DEF Chain, Parts

(* The rings only have what the threads have put there. *)
LEMMA ServedIs ==
    ASSUME Types
    PROVE  \A h : h \in Served <=> \E i \in 1 .. Len(used) : used[i] = h
BY DEF Served, ToSet, Types

LEMMA InitInv == Init => DiskInv
<1>. SUFFICES ASSUME Init PROVE DiskInv
  OBVIOUS
<1>1. Types BY DEF Init, Types, Nothing
<1>2. Active = {} /\ Waiting = {} BY DEF Init, Active, Waiting
<1>3. DescInv BY <1>2 DEF DescInv
<1>4. RingInv BY DEF Init, RingInv
<1>5. DataInv BY DEF Init, DataInv, Finished
<1>6. WaitInv BY DEF Init, WaitInv
<1>. QED BY <1>1, <1>3, <1>4, <1>5, <1>6 DEF DiskInv

LEMMA CallStep ==
    ASSUME DiskInv, NEW t \in Threads, NEW w \in Vals \cup {None}, call(t, w)
    PROVE  DiskInv'
<1>0. Types /\ DescInv /\ RingInv /\ DataInv /\ WaitInv BY DEF DiskInv
<1>1. Types' BY <1>0 DEF Types, call, device
<1>2. Active' = Active /\ Waiting' = Waiting /\ t \notin Active
  BY <1>0 DEF Types, call, Active, Waiting
<1>3. DescInv'
  BY <1>0, <1>2 DEF DescInv, Parts, Second, Third, Type, Types, Active, call
<1>4. RingInv' BY <1>0, <1>2 DEF RingInv, Heads, call, device
<1>5. DataInv' BY <1>0 DEF DataInv, Finished, Moved, Served, Types, call, device
<1>6. WaitInv' BY <1>0 DEF WaitInv, Types, call
<1>. QED BY <1>1, <1>3, <1>4, <1>5, <1>6 DEF DiskInv

LEMMA FullStep ==
    ASSUME DiskInv, NEW t \in Threads, rw_full(t)
    PROVE  DiskInv'
<1>0. Types /\ DescInv /\ RingInv /\ DataInv /\ WaitInv BY DEF DiskInv
<1>1. \A u \in Threads :
        IF pc[u] \in {"alloc", "full"} THEN pc'[u] \in {"alloc", "full"} ELSE pc'[u] = pc[u]
  BY <1>0 DEF rw_full, WakeFree, Types
<1>2. Types' BY <1>0 DEF Types, rw_full, WakeFree, memory, device
<1>3. Active' = Active /\ Waiting' = Waiting
  BY <1>1 DEF Active, Waiting
<1>4. DescInv'
  BY <1>0, <1>3 DEF DescInv, Parts, Second, Third, Type, rw_full, memory
<1>5. RingInv' BY <1>0, <1>3 DEF RingInv, Heads, rw_full, memory, device
<1>6. DataInv'
  BY <1>0, <1>1 DEF DataInv, Finished, Moved, Served, rw_full, memory, device
<1>7. WaitInv' BY <1>0, <1>1 DEF WaitInv, rw_full, memory
<1>. QED BY <1>2, <1>4, <1>5, <1>6, <1>7 DEF DiskInv

LEMMA SubmitStep ==
    ASSUME DiskInv, NEW t \in Threads, rw_submit(t)
    PROVE  DiskInv'
<1>0. Types /\ DescInv /\ RingInv /\ DataInv /\ WaitInv BY DEF DiskInv
<1>1. PICK i \in free, j \in free, k \in free :
        /\ Three(i, j, k)
        /\ free' = free \ {i, j, k}
        /\ ops' = [ops EXCEPT ![i] = [type |-> Type(t), sector |-> t]]
        /\ desc' = [desc EXCEPT ![i] = [what |-> "op", next |-> j],
                                ![j] = [what |-> t, next |-> k],
                                ![k] = [what |-> "status", next |-> None]]
        /\ info' = [info EXCEPT ![i] = t]
        /\ head' = [head EXCEPT ![t] = i]
        /\ avail' = Append(avail, i)
  BY DEF rw_submit
<1>2. i \in Descs /\ j \in Descs /\ k \in Descs /\ i # j /\ j # k /\ i # k
  BY <1>0, <1>1 DEF Types, Three, Descs
<1>3. desc' = [d \in Descs |-> IF d = i THEN [what |-> "op", next |-> j]
                               ELSE IF d = j THEN [what |-> t, next |-> k]
                               ELSE IF d = k THEN [what |-> "status", next |-> None]
                               ELSE desc[d]]
  BY <1>0, <1>1, <1>2 DEF Types
<1>4. /\ busy' = [busy EXCEPT ![t] = TRUE] /\ pc' = [pc EXCEPT ![t] = "wait"]
      /\ pc[t] = "alloc"
      /\ UNCHANGED <<used, buffer, want, intr, sector, inflight>>
  BY DEF rw_submit, device
<1>5. Active' = Active \cup {t} /\ t \notin Active /\ Waiting' = Waiting \cup {t} /\ t \notin Waiting
  BY <1>0, <1>4 DEF Active, Waiting, Types
<1>6. Types'
  <2>1. desc' \in [Descs -> [what : Threads \cup {"op", "status", None}, next : Descs \cup {None}]]
    BY <1>0, <1>2, <1>3 DEF Types
  <2>2. ops' \in [Descs -> [type : {"in", "out", None}, sector : Threads \cup {None}]]
    BY <1>0, <1>1, <1>2 DEF Types, Type
  <2>3. avail' \in Seq(Descs) BY <1>0, <1>1, <1>2 DEF Types
  <2>. QED BY <1>0, <1>1, <1>2, <1>4, <2>1, <2>2, <2>3 DEF Types
<1>7. /\ head'[t] = i /\ Second(t)' = j /\ Third(t)' = k /\ desc'[k].next = None
      /\ desc'[j].what = t
  BY <1>0, <1>1, <1>2, <1>3 DEF Types, Second, Third
<1>8. ASSUME NEW u \in Active
      PROVE  /\ u \in Threads /\ u # t /\ head'[u] = head[u] /\ head[u] \in Descs \ {i, j, k}
             /\ Second(u)' = Second(u) /\ Third(u)' = Third(u) /\ Parts(u)' = Parts(u)
             /\ desc'[Third(u)] = desc[Third(u)] /\ desc'[Second(u)] = desc[Second(u)]
  <2>1. u \in Threads /\ u # t /\ head'[u] = head[u]
    BY <1>0, <1>1, <1>5, <1>8 DEF Active, Types
  <2>2. /\ head[u] \in Descs \ {i, j, k} /\ Second(u) \in Descs \ {i, j, k}
        /\ Third(u) \in Descs \ {i, j, k}
    BY <1>0, <1>1, <1>8 DEF DescInv, Parts
  <2>3. \A d \in Descs \ {i, j, k} : desc'[d] = desc[d] BY <1>3
  <2>4. Second(u)' = Second(u) BY <2>1, <2>2, <2>3 DEF Second
  <2>5. Third(u)' = Third(u) BY <2>2, <2>3, <2>4 DEF Third
  <2>. QED BY <2>1, <2>2, <2>3, <2>4, <2>5 DEF Parts
<1>9. DescInv'
  <2>1. ASSUME NEW u \in Active'
        PROVE  /\ head'[u] \in Descs /\ Second(u)' \in Descs /\ Third(u)' \in Descs
               /\ head'[u] # Second(u)' /\ head'[u] # Third(u)' /\ Second(u)' # Third(u)'
               /\ desc'[Third(u)'].next = None
               /\ desc'[Second(u)'].what = u
               /\ ops'[head'[u]] = [type |-> Type(u)', sector |-> u]
               /\ info'[head'[u]] = u
               /\ Parts(u)' \cap free' = {}
    <3>1. CASE u = t
      <4>1. /\ ops'[i] = [type |-> Type(u)', sector |-> u] /\ info'[i] = u
        BY <1>0, <1>1, <1>2, <1>4, <3>1 DEF Types, Type
      <4>2. Parts(u)' = {i, j, k} BY <1>7, <3>1 DEF Parts
      <4>. QED BY <1>1, <1>2, <1>7, <3>1, <4>1, <4>2
    <3>2. CASE u # t
      <4>1. u \in Active BY <1>5, <2>1, <3>2
      <4>2. /\ ops'[head[u]] = ops[head[u]] /\ info'[head[u]] = info[head[u]]
        BY <1>0, <1>1, <1>8, <4>1 DEF Types
      <4>3. Type(u)' = Type(u) BY <1>4 DEF Type
      <4>4. /\ head[u] \in Descs /\ Second(u) \in Descs /\ Third(u) \in Descs
            /\ head[u] # Second(u) /\ head[u] # Third(u) /\ Second(u) # Third(u)
            /\ desc[Third(u)].next = None /\ desc[Second(u)].what = u
            /\ ops[head[u]] = [type |-> Type(u), sector |-> u] /\ info[head[u]] = u
            /\ Parts(u) \cap free = {}
        BY <1>0, <4>1 DEF DescInv
      <4>5. /\ head'[u] = head[u] /\ Second(u)' = Second(u) /\ Third(u)' = Third(u)
            /\ Parts(u)' = Parts(u)
            /\ desc'[Third(u)] = desc[Third(u)] /\ desc'[Second(u)] = desc[Second(u)]
        BY <1>8, <4>1
      <4>6. Parts(u)' \cap free' = {} BY <1>1, <4>4, <4>5
      <4>. QED BY <4>2, <4>3, <4>4, <4>5, <4>6
    <3>. QED BY <3>1, <3>2
  <2>2. ASSUME NEW u \in Active', NEW v \in Active', u # v
        PROVE  Parts(u)' \cap Parts(v)' = {}
    <3>1. Parts(t)' \subseteq free BY <1>7 DEF Parts
    <3>2. ASSUME NEW x \in Active PROVE Parts(x)' = Parts(x) /\ Parts(x) \cap free = {}
      BY <1>0, <1>8, <3>2 DEF DescInv
    <3>3. CASE u = t
      <4>. v \in Active BY <1>5, <2>2, <3>3
      <4>. QED BY <3>1, <3>2, <3>3
    <3>4. CASE v = t
      <4>. u \in Active BY <1>5, <2>2, <3>4
      <4>. QED BY <3>1, <3>2, <3>4
    <3>5. CASE u # t /\ v # t
      <4>. u \in Active /\ v \in Active BY <1>5, <2>2, <3>5
      <4>. QED BY <1>0, <2>2, <3>2 DEF DescInv
    <3>. QED BY <3>3, <3>4, <3>5
  <2>. QED BY <2>1, <2>2 DEF DescInv
<1>10. \A u \in Waiting : u \in Active BY DEF Waiting, Active
<1>11. Heads' = Heads \cup {i} /\ i \notin Heads
  <2>1. \A u \in Waiting : head'[u] = head[u] /\ head[u] # i BY <1>8, <1>10
  <2>. QED BY <1>5, <1>7, <2>1 DEF Heads
<1>12. RingInv'
  <2>1. /\ Len(avail') = Len(avail) + 1 /\ avail'[Len(avail) + 1] = i
        /\ \A n \in 1 .. Len(avail) : avail'[n] = avail[n] /\ avail[n] # i
    BY <1>0, <1>1, <1>2, <1>11 DEF Types, RingInv
  <2>2. i \notin inflight /\ \A n \in 1 .. Len(used) : used[n] # i
    BY <1>0, <1>11 DEF RingInv
  <2>3. Len(avail) \in Nat /\ Len(used) \in Nat BY <1>0 DEF Types
  <2>4. \A n \in 1 .. Len(avail') : n \in 1 .. Len(avail) \/ n = Len(avail) + 1
    BY <2>1, <2>3
  <2>5. \A n \in 1 .. Len(avail') : avail'[n] \in Heads' /\ avail'[n] \notin inflight'
    BY <1>0, <1>4, <1>11, <2>1, <2>2, <2>4 DEF RingInv
  <2>6. \A n, m \in 1 .. Len(avail') : avail'[n] = avail'[m] => n = m
    BY <1>0, <2>1, <2>4 DEF RingInv
  <2>7. \A n \in 1 .. Len(avail'), m \in 1 .. Len(used') : avail'[n] # used'[m]
    BY <1>0, <1>4, <2>1, <2>2, <2>4 DEF RingInv
  <2>. QED BY <1>0, <1>4, <1>11, <2>5, <2>6, <2>7 DEF RingInv
<1>13. DataInv'
  <2>1. ASSUME NEW u \in Threads
        PROVE  /\ ~Finished(u)' /\ want'[u] # None => buffer'[u] = want'[u]
               /\ Finished(u)' => Moved(u)'
    <3>1. CASE u = t
      <4>1. ~Finished(u) BY <1>4, <3>1 DEF Finished
      <4>2. \A n \in 1 .. Len(used) : used[n] # i BY <1>0, <1>11 DEF RingInv
      <4>3. ~Finished(u)'
        BY <1>0, <1>4, <1>7, <3>1, <4>2, ServedIs DEF Finished, Types, Served
      <4>. QED BY <1>0, <1>4, <3>1, <4>1, <4>3 DEF DataInv
    <3>2. CASE u # t
      <4>1. pc'[u] = pc[u] /\ head'[u] = head[u] BY <1>0, <1>1, <1>4, <3>2 DEF Types
      <4>2. Finished(u)' <=> Finished(u) BY <1>4, <4>1 DEF Finished, Served
      <4>. QED BY <1>0, <1>4, <4>2 DEF DataInv, Moved
    <3>. QED BY <3>1, <3>2
  <2>. QED BY <2>1 DEF DataInv
<1>14. WaitInv'
  <2>1. Cardinality(free) \in Nat
    <3>1. IsFiniteSet(Descs) BY VirtioConstants, FS_Interval DEF Descs
    <3>. QED BY <1>0, <3>1, FS_Subset, FS_CardinalityType DEF Types
  <2>2. \A u \in Threads : pc[u] # "full" BY <1>0, <2>1 DEF WaitInv, rw_submit
  <2>. QED BY <1>0, <1>4, <2>2 DEF WaitInv, Types
<1>. QED BY <1>6, <1>9, <1>12, <1>13, <1>14 DEF DiskInv

(* Requests that wait, or that are to be finished, have different heads.   *)
LEMMA OneHead ==
    ASSUME DescInv, NEW t \in Active, NEW u \in Active, head[t] = head[u]
    PROVE  t = u
<1>1. head[t] \in Parts(t) /\ head[u] \in Parts(u) BY DEF Parts
<1>. QED BY <1>1 DEF DescInv

LEMMA FinishStep ==
    ASSUME DiskInv, NEW t \in Threads, rw_finish(t)
    PROVE  DiskInv'
<1>0. Types /\ DescInv /\ RingInv /\ DataInv /\ WaitInv BY DEF DiskInv
<1>1. t \in Active /\ t \notin Waiting /\ pc[t] = "ready"
  BY DEF rw_finish, Active, Waiting
<1>2. Chain(head[t]) = Parts(t) /\ Parts(t) \cap free = {} /\ Parts(t) \subseteq Descs
  <2>1. head[t] \in Descs /\ Second(t) \in Descs /\ Third(t) \in Descs /\ Parts(t) \cap free = {}
    BY <1>0, <1>1 DEF DescInv
  <2>2. Parts(t) \subseteq Descs BY <2>1 DEF Parts
  <2>. QED BY <1>0, <1>1, <2>1, <2>2, ChainIsParts
<1>3. /\ free' = free \cup Parts(t)
      /\ desc' = [d \in Descs |-> IF d \in Parts(t) THEN Nothing ELSE desc[d]]
      /\ pc' = WakeFree(t, "done")
      /\ info' = [info EXCEPT ![head[t]] = None]
      /\ UNCHANGED <<avail, used, ops, busy, buffer, head, want, intr, sector, inflight>>
  BY <1>2 DEF rw_finish, device
<1>4. pc'[t] = "done"
  BY <1>3 DEF WakeFree
<1>5. \A u \in Threads : u # t => pc'[u] = IF pc[u] = "full" THEN "alloc" ELSE pc[u]
  BY <1>3 DEF WakeFree
<1>6. Active' = Active \ {t} /\ Waiting' = Waiting
  BY <1>1, <1>4, <1>5 DEF Active, Waiting
<1>7. Types'
  <2>1. pc' \in [Threads -> {"idle", "alloc", "full", "wait", "ready", "done"}]
    BY <1>0, <1>3 DEF WakeFree, Types
  <2>2. desc' \in [Descs -> [what : Threads \cup {"op", "status", None}, next : Descs \cup {None}]]
    BY <1>0, <1>3 DEF Types, Nothing
  <2>. QED BY <1>0, <1>2, <1>3, <2>1, <2>2 DEF Types
<1>8. DescInv'
  <2>1. ASSUME NEW u \in Active, u # t
        PROVE  /\ Second(u)' = Second(u) /\ Third(u)' = Third(u) /\ Parts(u)' = Parts(u)
               /\ desc'[Third(u)] = desc[Third(u)] /\ desc'[Second(u)] = desc[Second(u)]
               /\ info'[head[u]] = info[head[u]]
    <3>1. Parts(u) \cap Parts(t) = {} BY <1>0, <1>1, <2>1 DEF DescInv
    <3>2. /\ head[u] \in Descs \ Parts(t) /\ Second(u) \in Descs \ Parts(t)
          /\ Third(u) \in Descs \ Parts(t) /\ head[u] # head[t]
      BY <1>0, <2>1, <3>1 DEF DescInv, Parts
    <3>3. \A d \in Descs \ Parts(t) : desc'[d] = desc[d] BY <1>3
    <3>4. Second(u)' = Second(u) BY <1>3, <3>2, <3>3 DEF Second
    <3>5. Third(u)' = Third(u) BY <3>2, <3>3, <3>4 DEF Third
    <3>6. info'[head[u]] = info[head[u]] BY <1>0, <1>3, <3>2 DEF Types
    <3>. QED BY <1>3, <3>2, <3>3, <3>4, <3>5, <3>6 DEF Parts
  <2>2. ASSUME NEW u \in Active'
        PROVE  /\ head'[u] \in Descs /\ Second(u)' \in Descs /\ Third(u)' \in Descs
               /\ head'[u] # Second(u)' /\ head'[u] # Third(u)' /\ Second(u)' # Third(u)'
               /\ desc'[Third(u)'].next = None
               /\ desc'[Second(u)'].what = u
               /\ ops'[head'[u]] = [type |-> Type(u)', sector |-> u]
               /\ info'[head'[u]] = u
               /\ Parts(u)' \cap free' = {}
    <3>1. u \in Active /\ u # t BY <1>6, <2>2
    <3>2. Type(u)' = Type(u) BY <1>3 DEF Type
    <3>3. /\ head[u] \in Descs /\ Second(u) \in Descs /\ Third(u) \in Descs
          /\ head[u] # Second(u) /\ head[u] # Third(u) /\ Second(u) # Third(u)
          /\ desc[Third(u)].next = None /\ desc[Second(u)].what = u
          /\ ops[head[u]] = [type |-> Type(u), sector |-> u] /\ info[head[u]] = u
          /\ Parts(u) \cap free = {} /\ Parts(u) \cap Parts(t) = {}
      BY <1>0, <1>1, <3>1 DEF DescInv
    <3>4. Parts(u)' \cap free' = {} BY <1>3, <2>1, <3>1, <3>3
    <3>. QED BY <1>3, <2>1, <3>1, <3>2, <3>3, <3>4
  <2>3. ASSUME NEW u \in Active', NEW v \in Active', u # v
        PROVE  Parts(u)' \cap Parts(v)' = {}
    <3>1. u \in Active /\ v \in Active /\ u # t /\ v # t BY <1>6, <2>3
    <3>2. Parts(u)' = Parts(u) /\ Parts(v)' = Parts(v) BY <2>1, <3>1
    <3>. QED BY <1>0, <2>3, <3>1, <3>2 DEF DescInv
  <2>. QED BY <2>2, <2>3 DEF DescInv
<1>9. RingInv' BY <1>0, <1>3, <1>6 DEF RingInv, Heads
<1>10. DataInv'
  BY <1>0, <1>1, <1>3, <1>4, <1>5 DEF DataInv, Finished, Moved, Served
<1>11. WaitInv' BY <1>0, <1>1, <1>3, <1>4, <1>5 DEF WaitInv
<1>. QED BY <1>7, <1>8, <1>9, <1>10, <1>11 DEF DiskInv

(* What the handler finds in the used ring ends the wait of just those     *)
(* threads whose requests are there.                                       *)
LEMMA WalkStep ==
    ASSUME DiskInv, intr_walk
    PROVE  DiskInv'
<1>0. Types /\ DescInv /\ RingInv /\ DataInv /\ WaitInv BY DEF DiskInv
<1>1. /\ used' = <<>>
      /\ busy' = [t \in Threads |-> busy[t] /\ \A id \in Served : info[id] # t]
      /\ pc' = [t \in Threads |-> IF pc[t] = "wait" /\ ~busy'[t] THEN "ready" ELSE pc[t]]
      /\ intr' \in {"none", "raised"}
      /\ UNCHANGED <<desc, avail, info, ops, buffer, free, head, want, sector, inflight>>
  BY DEF intr_walk, device
<1>2. \A t \in Waiting : t \in Active BY DEF Waiting, Active
<1>3. ASSUME NEW t \in Waiting PROVE (\E id \in Served : info[id] = t) <=> head[t] \in Served
  <2>1. info[head[t]] = t BY <1>0, <1>2, <1>3 DEF DescInv
  <2>2. ASSUME NEW id \in Served, info[id] = t PROVE id = head[t]
    <3>1. PICK u \in Waiting : id = head[u]
      BY <1>0, <2>2, ServedIs DEF RingInv, Heads
    <3>. QED BY <1>0, <1>2, <2>2, <3>1 DEF DescInv
  <2>. QED BY <2>1, <2>2
<1>4. \A t \in Threads : busy'[t] <=> pc[t] = "wait" /\ head[t] \notin Served
  BY <1>0, <1>1, <1>3 DEF WaitInv, Waiting
<1>5. \A t \in Threads :
      pc'[t] = IF pc[t] = "wait" /\ head[t] \in Served THEN "ready" ELSE pc[t]
  BY <1>1, <1>4
<1>6. Active' = Active BY <1>5 DEF Active
<1>7. Waiting' = {t \in Waiting : head[t] \notin Served} BY <1>5 DEF Waiting
<1>8. Types' BY <1>0, <1>1 DEF Types
<1>9. DescInv'
  BY <1>0, <1>1, <1>6 DEF DescInv, Parts, Second, Third, Type
<1>10. RingInv'
  <2>1. \A h \in Heads : h \notin Served => h \in Heads'
    BY <1>1, <1>7 DEF Heads
  <2>2. \A i \in 1 .. Len(avail) : avail[i] \notin Served
    BY <1>0, ServedIs DEF RingInv
  <2>3. \A h \in inflight : h \notin Served
    BY <1>0, ServedIs DEF RingInv
  <2>. QED BY <1>0, <1>1, <2>1, <2>2, <2>3 DEF RingInv
<1>11. DataInv'
  <2>1. \A t \in Threads : Finished(t)' <=> Finished(t)
    <3>1. Served' = {} BY <1>1 DEF Served, ToSet
    <3>. QED BY <1>5, <3>1 DEF Finished
  <2>. QED BY <1>0, <1>1, <2>1 DEF DataInv, Moved
<1>12. WaitInv' BY <1>0, <1>1, <1>4, <1>5 DEF WaitInv
<1>. QED BY <1>8, <1>9, <1>10, <1>11, <1>12 DEF DiskInv

LEMMA TakeStep ==
    ASSUME DiskInv, device_take
    PROVE  DiskInv'
<1>0. Types /\ DescInv /\ RingInv /\ DataInv /\ WaitInv BY DEF DiskInv
<1>1. /\ avail # <<>> /\ avail' = Tail(avail) /\ inflight' = inflight \cup {avail[1]}
      /\ UNCHANGED <<desc, used, info, ops, busy, buffer, free, pc, head, want, intr, sector>>
  BY DEF device_take, driver
<1>2. /\ Len(avail) \in Nat /\ Len(avail) > 0 /\ Len(avail') = Len(avail) - 1
      /\ \A i \in 1 .. Len(avail') : avail'[i] = avail[i + 1] /\ i + 1 \in 1 .. Len(avail)
  BY <1>0, <1>1 DEF Types
<1>3. 1 \in 1 .. Len(avail) BY <1>2
<1>4. Types' BY <1>0, <1>1, <1>3 DEF Types
<1>5. DescInv'
  BY <1>0, <1>1 DEF DescInv, Parts, Second, Third, Type, Active
<1>6. RingInv'
  <2>1. Heads' = Heads BY <1>1 DEF Heads, Waiting
  <2>2. \A i \in 1 .. Len(avail') :
          avail'[i] \in Heads /\ avail'[i] \notin inflight /\ avail'[i] # avail[1]
    <3>1. ASSUME NEW i \in 1 .. Len(avail') PROVE i + 1 # 1 BY <1>2
    <3>. QED BY <1>0, <1>2, <1>3, <3>1 DEF RingInv
  <2>3. \A i, j \in 1 .. Len(avail') : avail'[i] = avail'[j] => i = j
    BY <1>0, <1>2 DEF RingInv
  <2>. QED BY <1>0, <1>1, <1>2, <1>3, <2>1, <2>2, <2>3 DEF RingInv
<1>7. DataInv' BY <1>0, <1>1 DEF DataInv, Finished, Moved, Served
<1>8. WaitInv' BY <1>0, <1>1 DEF WaitInv
<1>. QED BY <1>4, <1>5, <1>6, <1>7, <1>8 DEF DiskInv

(* The device follows the request to the buffer and the block of its own   *)
(* thread, and no other.                                                   *)
LEMMA CompleteStep ==
    ASSUME DiskInv, NEW h \in Descs, device_complete(h)
    PROVE  DiskInv'
<1>0. Types /\ DescInv /\ RingInv /\ DataInv /\ WaitInv BY DEF DiskInv
<1>1. PICK t \in Waiting : h = head[t] BY <1>0 DEF device_complete, RingInv, Heads
<1>2. \A u \in Waiting : u \in Active /\ u \in Threads BY DEF Waiting, Active
<1>3. ops[h] = [type |-> Type(t), sector |-> t] /\ desc[desc[h].next].what = t
  BY <1>0, <1>1, <1>2 DEF DescInv, Second
<1>4. /\ h \in inflight /\ inflight' = inflight \ {h} /\ used' = Append(used, h)
      /\ intr' \in {"raised", "again"}
      /\ UNCHANGED <<desc, avail, info, ops, busy, free, pc, head, want>>
  BY DEF device_complete, driver
<1>5. IF want[t] = None
      THEN buffer' = [buffer EXCEPT ![t] = sector[t]] /\ sector' = sector
      ELSE sector' = [sector EXCEPT ![t] = buffer[t]] /\ buffer' = buffer
  BY <1>3 DEF device_complete, Type
<1>6. h \notin Served BY <1>0, <1>4, ServedIs DEF RingInv
<1>7. want[t] # None => buffer[t] = want[t]
  BY <1>0, <1>1, <1>2, <1>6 DEF DataInv, Finished, Waiting
<1>8. Types'
  <2>1. used' \in Seq(Descs) BY <1>0, <1>4 DEF Types
  <2>2. /\ buffer' \in [Threads -> Vals \cup {Old, None}]
        /\ sector' \in [Threads -> Vals \cup {Old}]
    BY <1>0, <1>1, <1>2, <1>5, <1>7 DEF Types
  <2>. QED BY <1>0, <1>4, <2>1, <2>2 DEF Types
<1>9. DescInv'
  BY <1>0, <1>4 DEF DescInv, Parts, Second, Third, Type, Active
<1>10. Heads' = Heads BY <1>4 DEF Heads, Waiting
<1>11. /\ Len(used) \in Nat /\ Len(used') = Len(used) + 1 /\ used'[Len(used) + 1] = h
       /\ \A i \in 1 .. Len(used) : used'[i] = used[i]
       /\ \A i \in 1 .. Len(used') : i \in 1 .. Len(used) \/ i = Len(used) + 1
  BY <1>0, <1>4 DEF Types
<1>12. RingInv'
  <2>1. \A i \in 1 .. Len(used') : used'[i] \in Heads /\ used'[i] \notin inflight'
    BY <1>0, <1>4, <1>11 DEF RingInv
  <2>2. \A i \in 1 .. Len(avail), j \in 1 .. Len(used') : avail[i] # used'[j]
    BY <1>0, <1>4, <1>11 DEF RingInv
  <2>. QED BY <1>0, <1>4, <1>10, <2>1, <2>2 DEF RingInv
<1>13. DataInv'
  <2>1. Served' = Served \cup {h}
    <3>1. \A x : x \in Served' <=> \E i \in 1 .. Len(used') : used'[i] = x
      BY <1>8, ServedIs DEF Served, ToSet, Types
    <3>2. \A x : x \in Served <=> \E i \in 1 .. Len(used) : used[i] = x
      BY <1>0, ServedIs
    <3>3. Len(used) + 1 \in 1 .. Len(used') /\ \A i \in 1 .. Len(used) : i \in 1 .. Len(used')
      BY <1>11
    <3>. QED BY <1>11, <3>1, <3>2, <3>3
  <2>2. ASSUME NEW u \in Threads
        PROVE  /\ ~Finished(u)' /\ want'[u] # None => buffer'[u] = want'[u]
               /\ Finished(u)' => Moved(u)'
    <3>1. CASE u = t
      <4>1. Finished(u)' BY <1>1, <1>4, <2>1, <3>1 DEF Finished, Waiting
      <4>2. Moved(t)'
        BY <1>0, <1>2, <1>4, <1>5, <1>7, VirtioConstants DEF Moved, Types
      <4>. QED BY <3>1, <4>1, <4>2
    <3>2. CASE u # t
      <4>1. Finished(u)' <=> Finished(u)
        <5>1. pc[u] = "wait" => head[u] # h
          BY <1>0, <1>1, <1>2, <3>2, OneHead DEF Waiting
        <5>. QED BY <1>4, <2>1, <5>1 DEF Finished
      <4>2. buffer'[u] = buffer[u] /\ sector'[u] = sector[u]
        BY <1>0, <1>5, <3>2 DEF Types
      <4>. QED BY <1>0, <1>4, <4>1, <4>2 DEF DataInv, Moved
    <3>. QED BY <3>1, <3>2
  <2>. QED BY <2>2 DEF DataInv
<1>14. WaitInv' BY <1>0, <1>4 DEF WaitInv
<1>. QED BY <1>8, <1>9, <1>12, <1>13, <1>14 DEF DiskInv

LEMMA StepInv == DiskInv /\ [Next]_vars => DiskInv'
<1>. SUFFICES ASSUME DiskInv, [Next]_vars PROVE DiskInv'
  OBVIOUS
<1>1. CASE intr_ack \/ UNCHANGED vars
  <2>1. /\ intr' \in {"running", intr}
        /\ UNCHANGED <<memory, driver, device>>
    BY <1>1 DEF intr_ack, vars
  <2>. QED
    BY <2>1
      DEF DiskInv, Types, DescInv, RingInv, DataInv, WaitInv, Parts, Second, Third,
          Type, Heads, Finished, Moved, Served, Active, Waiting, memory, driver, device
<1>. QED
  BY <1>1, CallStep, FullStep, SubmitStep, FinishStep, WalkStep, TakeStep, CompleteStep
  DEF Next, rw, handler, device_step

(* What the driver and the device know of each request, from its           *)
(* descriptors to the buffer it fills or empties.                          *)
THEOREM VirtioInvariant == Spec => []DiskInv
<1>. QED BY InitInv, StepInv, PTL DEF Spec

(* virtio_disk_rw (kernel/virtio_disk.c): when it returns, its own block   *)
(* has been transferred, and free_chain() has not panicked.                *)
THEOREM OwnBlockTransferred == Spec => []Transferred
<1>1. DiskInv => Transferred
  BY DEF DiskInv, Types, DataInv, Finished, Moved, Transferred
<1>. QED BY <1>1, VirtioInvariant, PTL

(* Nobody sleeps for a request that virtio_disk_intr() has finished, or    *)
(* for descriptors that are there.                                         *)
THEOREM NobodyOverslept == Spec => []SleepsForReason
<1>1. DiskInv => SleepsForReason
  BY DEF DiskInv, DescInv, WaitInv, Active, SleepsForReason
<1>. QED BY <1>1, VirtioInvariant, PTL
-------------------------------------------------------------------------------
(* Pipes.                                                                  *)
CONSTANTS Readers, Writers, Bytes, PIPESIZE, UINT, Writes, Reads, Killable
VARIABLES nread, nwrite, data, readopen, writeopen, holds, ppc, todo, killed, got

Pipes == INSTANCE Pipe WITH pc <- ppc

(* Remainders.                                                             *)
LEMMA Multiple == ASSUME NEW x \in Int, NEW B \in Nat \ {0}, x >= 1 PROVE x * B >= B
OBVIOUS

LEMMA Remainder ==
    ASSUME NEW x \in Int, NEW B \in Nat \ {0}
    PROVE  /\ x \div B \in Int /\ x % B \in 0 .. B - 1
           /\ x = (x \div B) * B + (x % B)
OBVIOUS

LEMMA RemainderIs ==
    ASSUME NEW x \in Int, NEW B \in Nat \ {0}, NEW q \in Int, NEW r \in 0 .. B - 1,
           x = q * B + r
    PROVE  x % B = r
<1>. DEFINE k == x \div B
            s == x % B
<1>1. k \in Int /\ s \in 0 .. B - 1 /\ x = k * B + s BY Remainder
<1>. SUFFICES s = r OBVIOUS
<1>. HIDE DEF k, s
<1>2. (k - q) * B = r - s
  <2>1. k * B + s = q * B + r BY <1>1
  <2>2. k * B - q * B = (k - q) * B BY <1>1
  <2>3. k * B \in Int /\ q * B \in Int BY <1>1
  <2>. QED BY <1>1, <2>1, <2>2, <2>3
<1>3. CASE k - q >= 1
  <2>1. (k - q) * B >= B BY <1>1, <1>3, Multiple
  <2>. QED BY <1>1, <1>2, <2>1
<1>4. CASE q - k >= 1
  <2>1. (q - k) * B >= B BY <1>1, <1>4, Multiple
  <2>2. (q - k) * B = s - r
    <3>1. (q - k) * B = - ((k - q) * B) BY <1>1
    <3>. QED BY <3>1, <1>1, <1>2
  <2>. QED BY <1>1, <2>1, <2>2
<1>5. CASE k = q
  <2>1. (k - q) * B = 0 BY <1>1, <1>5
  <2>. QED BY <1>1, <1>2, <2>1
<1>. QED BY <1>1, <1>3, <1>4, <1>5

(* The remainder of a sum, when one summand is a remainder already.        *)
LEMMA RemainderOfSum ==
    ASSUME NEW x \in Int, NEW y \in Int, NEW B \in Nat \ {0}
    PROVE  ((x % B) + y) % B = (x + y) % B
<1>. DEFINE q == x \div B
            r == x % B
            k == (r + y) \div B
            s == (r + y) % B
<1>1. q \in Int /\ r \in 0 .. B - 1 /\ x = q * B + r BY Remainder
<1>2. r + y \in Int BY <1>1
<1>3. k \in Int /\ s \in 0 .. B - 1 /\ r + y = k * B + s BY <1>2, Remainder
<1>. SUFFICES s = (x + y) % B OBVIOUS
<1>. HIDE DEF q, r, k, s
<1>4. x + y = (q + k) * B + s
  <2>1. (q + k) * B = q * B + k * B BY <1>1, <1>3
  <2>2. q * B \in Int /\ k * B \in Int BY <1>1, <1>3
  <2>. QED BY <1>1, <1>3, <2>1, <2>2
<1>5. q + k \in Int /\ x + y \in Int BY <1>1, <1>3
<1>. QED BY <1>3, <1>4, <1>5, RemainderIs

(* A counter that wraps where the ring does still says the place.          *)
LEMMA RemainderTwice ==
    ASSUME NEW x \in Int, NEW U \in Nat \ {0}, NEW S \in Nat \ {0}, U % S = 0
    PROVE  (x % U) % S = x % S
<1>. DEFINE m == U \div S
            q == x \div U
            r == x % U
            k == r \div S
            s == r % S
<1>1. m \in Int /\ U = m * S BY Remainder
<1>2. q \in Int /\ r \in 0 .. U - 1 /\ x = q * U + r BY Remainder
<1>3. r \in Int BY <1>2
<1>4. k \in Int /\ s \in 0 .. S - 1 /\ r = k * S + s BY <1>3, Remainder
<1>. SUFFICES s = x % S OBVIOUS
<1>. HIDE DEF m, q, r, k, s
<1>5. x = (q * m + k) * S + s
  <2>1. (q * m + k) * S = (q * m) * S + k * S BY <1>1, <1>2, <1>4
  <2>2. (q * m) * S = q * (m * S) BY <1>1, <1>2
  <2>3. q * U = q * (m * S) BY <1>1
  <2>4. q * U \in Int /\ k * S \in Int BY <1>1, <1>2, <1>4
  <2>. QED BY <1>2, <1>4, <2>1, <2>2, <2>3, <2>4
<1>6. q * m + k \in Int BY <1>1, <1>2, <1>4
<1>. QED BY <1>4, <1>5, <1>6, RemainderIs

LEMMA SmallRemainder ==
    ASSUME NEW B \in Nat \ {0}, NEW r \in 0 .. B - 1
    PROVE  r % B = r
<1>1. r = 0 * B + r OBVIOUS
<1>. QED BY <1>1, RemainderIs

(* The distance of two counters.                                           *)
LEMMA Distance ==
    ASSUME NEW U \in Nat \ {0}, NEW a \in 0 .. U - 1, NEW c \in 0 .. U - 1
    PROVE  (((a + c) % U) - a) % U = c
<1>1. (((a + c) % U) + (-a)) % U = ((a + c) + (-a)) % U
  <2>1. a + c \in Int /\ -a \in Int OBVIOUS
  <2>. QED BY <2>1, RemainderOfSum
<1>2. (a + c) + (-a) = c OBVIOUS
<1>3. c % U = c BY SmallRemainder
<1>4. (a + c) % U \in Int BY Remainder
<1>5. ((a + c) % U) - a = ((a + c) % U) + (-a) BY <1>4
<1>. QED BY <1>1, <1>2, <1>3, <1>5

LEMMA DistanceBack ==
    ASSUME NEW U \in Nat \ {0}, NEW a \in 0 .. U - 1, NEW b \in 0 .. U - 1
    PROVE  /\ (b - a) % U \in 0 .. U - 1
           /\ b = (a + ((b - a) % U)) % U
<1>1. (b - a) % U \in 0 .. U - 1 BY Remainder
<1>2. (((b - a) % U) + a) % U = ((b - a) + a) % U
  <2>1. b - a \in Int /\ a \in Int OBVIOUS
  <2>. QED BY <2>1, RemainderOfSum
<1>3. (b - a) + a = b OBVIOUS
<1>4. b % U = b BY SmallRemainder
<1>5. a + ((b - a) % U) = ((b - a) % U) + a BY <1>1
<1>. QED BY <1>1, <1>2, <1>3, <1>4, <1>5

(* Places less than a turn apart differ.                                   *)
LEMMA PlacesDiffer ==
    ASSUME NEW S \in Nat \ {0}, NEW x \in Int, NEW y \in Int, x < y, y < x + S
    PROVE  x % S # y % S
<1>. DEFINE q == x \div S
            r == x % S
            k == y \div S
            s == y % S
<1>1. /\ q \in Int /\ r \in 0 .. S - 1 /\ x = q * S + r
      /\ k \in Int /\ s \in 0 .. S - 1 /\ y = k * S + s
  BY Remainder
<1>. SUFFICES ASSUME r = s PROVE FALSE OBVIOUS
<1>. HIDE DEF q, r, k, s
<1>2. (k - q) * S = y - x
  <2>1. (k - q) * S = k * S - q * S BY <1>1
  <2>2. k * S \in Int /\ q * S \in Int BY <1>1
  <2>. QED BY <1>1, <2>1, <2>2
<1>3. CASE k - q >= 1
  <2>1. (k - q) * S >= S BY <1>1, <1>3, Multiple
  <2>. QED BY <1>2, <2>1
<1>4. CASE k - q <= 0
  <2>1. (k - q) * S <= 0 BY <1>1, <1>4
  <2>. QED BY <1>2, <2>1
<1>. QED BY <1>1, <1>3, <1>4

-------------------------------------------------------------------------------
(* A ring of S places, between counters that wrap at U.                    *)
Wraps(U, S) == U \in Nat \ {0} /\ S \in Nat \ {0} /\ U > S /\ U % S = 0
Place(a, i, U, S) == ((a + i - 1) % U) % S

LEMMA PlaceIs ==
    ASSUME NEW U, NEW S, Wraps(U, S), NEW a \in Int, NEW i \in Int
    PROVE  /\ Place(a, i, U, S) = (a + i - 1) % S
           /\ Place(a, i, U, S) \in 0 .. S - 1
<1>1. a + i - 1 \in Int OBVIOUS
<1>2. Place(a, i, U, S) = (a + i - 1) % S BY <1>1, RemainderTwice DEF Wraps, Place
<1>3. (a + i - 1) % S \in 0 .. S - 1 BY <1>1, Remainder DEF Wraps
<1>. QED BY <1>2, <1>3

LEMMA OtherPlace ==
    ASSUME NEW U, NEW S, Wraps(U, S), NEW a \in Int, NEW i \in Int, NEW j \in Int,
           i < j, j < i + S
    PROVE  Place(a, i, U, S) # Place(a, j, U, S)
<1>1. PICK x : x = a + i - 1 OBVIOUS
<1>2. PICK y : y = a + j - 1 OBVIOUS
<1>3. x \in Int /\ y \in Int /\ x < y /\ y < x + S BY <1>1, <1>2 DEF Wraps
<1>4. x % S # y % S BY <1>3, PlacesDiffer DEF Wraps
<1>. QED BY <1>1, <1>2, <1>4, PlaceIs

(* The place seen from the other counter.                                  *)
LEMMA SamePlace ==
    ASSUME NEW U, NEW S, Wraps(U, S), NEW a \in Int, NEW c \in Int, NEW j \in Int
    PROVE  Place((a + c) % U, j, U, S) = Place(a, c + j, U, S)
<1>1. (((a + c) % U) + (j - 1)) % U = ((a + c) + (j - 1)) % U
  <2>1. a + c \in Int /\ j - 1 \in Int OBVIOUS
  <2>. QED BY ZenonT(40), <2>1, RemainderOfSum DEF Wraps
<1>2. (a + c) + (j - 1) = a + (c + j) - 1 OBVIOUS
<1>3. ((a + c) % U) + (j - 1) = ((a + c) % U) + j - 1
  <2>1. a + c \in Int OBVIOUS
  <2>2. (a + c) % U \in Int BY <2>1, Remainder DEF Wraps
  <2>. QED BY <2>2
<1>. QED BY <1>1, <1>2, <1>3 DEF Place

(* One counter moves on, by no more than there is room, or than there is.  *)
LEMMA DistanceIs ==
    ASSUME NEW U \in Nat \ {0}, NEW e \in 0 .. U - 1, NEW b, NEW d \in 0 .. U - 1,
           b = (e + d) % U
    PROVE  (b - e) % U = d
BY Distance

LEMMA InTwoSteps ==
    ASSUME NEW U \in Nat \ {0}, NEW a \in Int, NEW n \in Int, NEW d \in Int,
           NEW c \in Int, NEW e \in Int, c = n + d, e = (a + n) % U
    PROVE  (a + c) % U = (e + d) % U
<1>1. a + n \in Int OBVIOUS
<1>2. (((a + n) % U) + d) % U = ((a + n) + d) % U BY <1>1, RemainderOfSum
<1>3. (a + n) + d = a + c OBVIOUS
<1>. QED BY <1>2, <1>3

LEMMA Further ==
    ASSUME NEW U, NEW S, Wraps(U, S), NEW a \in 0 .. U - 1, NEW b \in 0 .. U - 1,
           NEW n \in Nat, ((b - a) % U) + n <= S, NEW e, e = (b + n) % U
    PROVE  e \in 0 .. U - 1 /\ (e - a) % U = ((b - a) % U) + n
<1>1. PICK c : c = (b - a) % U OBVIOUS
<1>2. PICK d : d = c + n OBVIOUS
<1>3. U \in Nat \ {0} BY DEF Wraps
<1>4. c \in 0 .. U - 1 /\ b = (a + c) % U BY <1>1, <1>3, DistanceBack
<1>5. b + n \in Int OBVIOUS
<1>6. e \in 0 .. U - 1 BY <1>3, <1>5, Remainder
<1>7. d \in 0 .. U - 1
  <2>1. c + n <= S BY <1>1
  <2>2. S \in Nat /\ U > S BY DEF Wraps
  <2>3. c \in Nat BY <1>3, <1>4
  <2>. QED BY <1>2, <1>3, <2>1, <2>2, <2>3
<1>8. (a + d) % U = (b + n) % U
  <2>1. a \in Int /\ c \in Int /\ n \in Int /\ a + c \in Int BY <1>3, <1>4
  <2>2. (((a + c) % U) + n) % U = ((a + c) + n) % U BY <1>3, <2>1, RemainderOfSum
  <2>3. (a + c) + n = a + d BY <1>2, <2>1
  <2>4. (a + d) % U = (((a + c) % U) + n) % U BY <2>2, <2>3
  <2>. QED BY <1>4, <2>4
<1>9. e = (a + d) % U BY <1>8
<1>10. (e - a) % U = d BY <1>3, <1>7, <1>9, DistanceIs
<1>11. d = ((b - a) % U) + n BY <1>1, <1>2
<1>. QED BY <1>6, <1>10, <1>11

LEMMA Nearer ==
    ASSUME NEW U, NEW S, Wraps(U, S), NEW a \in 0 .. U - 1, NEW b \in 0 .. U - 1,
           NEW n \in Nat, n <= (b - a) % U, NEW e, e = (a + n) % U
    PROVE  e \in 0 .. U - 1 /\ (b - e) % U = ((b - a) % U) - n
<1>1. PICK c : c = (b - a) % U OBVIOUS
<1>2. PICK d : d = c - n OBVIOUS
<1>3. U \in Nat \ {0} BY DEF Wraps
<1>4. c \in 0 .. U - 1 /\ b = (a + c) % U BY <1>1, <1>3, DistanceBack
<1>5. a + n \in Int OBVIOUS
<1>6. e \in 0 .. U - 1 BY <1>3, <1>5, Remainder
<1>7. d \in 0 .. U - 1 /\ c = n + d BY <1>1, <1>2, <1>3, <1>4
<1>8. (a + c) % U = (e + d) % U
  <2>1. a \in Int /\ n \in Int /\ d \in Int /\ c \in Int /\ e \in Int
    BY <1>3, <1>4, <1>6, <1>7
  <2>. QED BY <1>3, <1>7, <2>1, InTwoSteps
<1>9. b = (e + d) % U BY <1>4, <1>8
<1>10. (b - e) % U = d BY <1>3, <1>6, <1>7, <1>9, DistanceIs
<1>11. d = ((b - a) % U) - n BY <1>1, <1>2
<1>. QED BY <1>6, <1>10, <1>11

Stores(a, b, c, d, g, s, n, U, S) ==
    /\ Wraps(U, S) /\ a \in 0 .. U - 1 /\ b \in 0 .. U - 1 /\ c = (b - a) % U
    /\ n \in Nat /\ c + n <= S /\ DOMAIN d = 0 .. S - 1
    /\ g = [i \in DOMAIN d |->
              LET k == {j \in 1 .. n : Place(b, j, U, S) = i} IN
              IF k = {} THEN d[i] ELSE s[CHOOSE j \in k : TRUE]]

(* What is stored behind the last byte leaves the others as they were.     *)
LEMMA Stored ==
    ASSUME NEW a, NEW b, NEW c, NEW d, NEW g, NEW s, NEW n, NEW U, NEW S,
           Stores(a, b, c, d, g, s, n, U, S)
    PROVE  /\ \A i \in 1 .. c : g[Place(a, i, U, S)] = d[Place(a, i, U, S)]
           /\ \A j \in 1 .. n : g[Place(a, c + j, U, S)] = s[j]
<1>0. /\ Wraps(U, S) /\ a \in 0 .. U - 1 /\ b \in 0 .. U - 1 /\ c = (b - a) % U
      /\ n \in Nat /\ c + n <= S /\ DOMAIN d = 0 .. S - 1
  BY DEF Stores
<1>. USE <1>0
<1>1. c \in Nat /\ b = (a + c) % U
  <2>1. c \in 0 .. U - 1 /\ b = (a + c) % U BY DistanceBack DEF Wraps
  <2>. QED BY <2>1 DEF Wraps
<1>2. a \in Int /\ S \in Nat BY DEF Wraps
<1>3. \A j \in 1 .. n : Place(b, j, U, S) = Place(a, c + j, U, S)
  BY <1>1, <1>2, SamePlace
<1>. DEFINE K(i) == {j \in 1 .. n : Place(b, j, U, S) = i}
<1>4. \A i \in 0 .. S - 1 : g[i] = IF K(i) = {} THEN d[i] ELSE s[CHOOSE j \in K(i) : TRUE]
  BY DEF Stores
<1>. HIDE DEF K
<1>5. ASSUME NEW i \in 1 .. c PROVE g[Place(a, i, U, S)] = d[Place(a, i, U, S)]
  <2>1. i \in Int /\ Place(a, i, U, S) \in 0 .. S - 1 BY <1>1, <1>2, PlaceIs
  <2>2. ASSUME NEW j \in 1 .. n PROVE Place(b, j, U, S) # Place(a, i, U, S)
    <3>1. c + j \in Int /\ i < c + j /\ c + j < i + S BY SMTT(30), <1>1, <1>2
    <3>. QED BY <1>2, <1>3, <2>1, <3>1, OtherPlace
  <2>3. K(Place(a, i, U, S)) = {} BY <2>2 DEF K
  <2>. QED BY <1>4, <2>1, <2>3
<1>6. ASSUME NEW j \in 1 .. n PROVE g[Place(a, c + j, U, S)] = s[j]
  <2>1. c + j \in Int BY <1>1
  <2>2. Place(a, c + j, U, S) \in 0 .. S - 1 BY <1>2, <2>1, PlaceIs
  <2>3. ASSUME NEW m \in 1 .. n, m # j
        PROVE  Place(b, m, U, S) # Place(a, c + j, U, S)
    <3>1. c + m \in Int BY <1>1
    <3>2. CASE m < j
      <4>1. c + m < c + j /\ c + j < c + m + S BY SMTT(30), <1>1, <1>2, <3>2
      <4>. QED BY <1>2, <1>3, <2>1, <3>1, <4>1, OtherPlace
    <3>3. CASE j < m
      <4>1. c + j < c + m /\ c + m < c + j + S BY SMTT(30), <1>1, <1>2, <3>3
      <4>. QED BY <1>2, <1>3, <2>1, <3>1, <4>1, OtherPlace
    <3>4. m \in Int /\ j \in Int OBVIOUS
    <3>. QED BY <2>3, <3>2, <3>3, <3>4
  <2>4. K(Place(a, c + j, U, S)) = {j} BY <1>3, <2>3 DEF K
  <2>. QED BY <1>4, <2>2, <2>4
<1>. QED BY <1>5, <1>6
-------------------------------------------------------------------------------
Ring == Wraps(UINT, PIPESIZE)
Stuff == Bytes \cup {CHOOSE b \in Bytes : TRUE}
Buffer(s) == s \in Seq(Bytes \cup {None}) /\ \A i \in 1 .. Len(s) - 1 : s[i] # None

(* Never more in the ring than it has places; who waits or transfers has   *)
(* something left to transfer; whoever may write keeps the end open.       *)
Counters ==
    /\ nread \in 0 .. UINT - 1 /\ nwrite \in 0 .. UINT - 1
    /\ Pipes!Count \in 0 .. PIPESIZE
    /\ data \in [0 .. PIPESIZE - 1 -> Stuff]
Buffers ==
    /\ todo \in [Pipes!Procs -> Seq(Bytes \cup {None})]
    /\ \A p \in Pipes!Procs :
         Buffer(todo[p]) /\ (ppc[p] # "idle" => todo[p] # <<>>)
Ends ==
    /\ writeopen \in BOOLEAN /\ (holds \cap Writers # {} => writeopen)
PipeInv == Counters /\ Buffers /\ Ends

LEMMA Constants == Pipes!PipeConstants =>
    /\ Ring /\ None \notin Bytes
    /\ \A s \in Writes \cup Reads : Buffer(s) /\ s # <<>>
BY DEF Pipes!PipeConstants, Ring, Wraps, Buffer

LEMMA QueueType ==
    ASSUME Ring, Counters
    PROVE  Pipes!Queue \in Seq(Stuff) /\ Len(Pipes!Queue) = Pipes!Count
<1>1. PICK c : c = Pipes!Count OBVIOUS
<1>2. c \in Nat /\ data \in [0 .. PIPESIZE - 1 -> Stuff] /\ nread \in Int
  BY <1>1 DEF Counters
<1>3. Pipes!Queue = [i \in 1 .. c |-> data[Place(nread, i, UINT, PIPESIZE)]]
  BY <1>1 DEF Pipes!Queue, Pipes!Unsigned, Place
<1>4. ASSUME NEW i \in 1 .. c PROVE Place(nread, i, UINT, PIPESIZE) \in 0 .. PIPESIZE - 1
  <2>1. i \in Int OBVIOUS
  <2>. QED BY <1>2, <2>1, PlaceIs DEF Ring
<1>5. Pipes!Queue \in [1 .. c -> Stuff] BY <1>2, <1>3, <1>4
<1>. QED BY <1>1, <1>2, <1>5

(* The first bytes of the buffer go behind those in the pipe.              *)
LEMMA QueueGrows ==
    ASSUME Ring, Counters, NEW p, NEW n \in Nat, Pipes!Count + n <= PIPESIZE,
           Pipes!Store(p, n)
    PROVE  /\ nwrite' \in 0 .. UINT - 1 /\ Pipes!Count' = Pipes!Count + n
           /\ Pipes!Queue' = [i \in 1 .. Pipes!Count + n |->
                 IF i <= Pipes!Count THEN Pipes!Queue[i] ELSE todo[p][i - Pipes!Count]]
<1>1. PICK c : c = Pipes!Count OBVIOUS
<1>2. PICK b : b = nwrite' OBVIOUS
<1>3. c = (nwrite - nread) % UINT BY <1>1 DEF Pipes!Count, Pipes!Unsigned
<1>4. nread' = nread /\ b = (nwrite + n) % UINT
  BY <1>2 DEF Pipes!Store, Pipes!Unsigned
<1>5. nread \in 0 .. UINT - 1 /\ nwrite \in 0 .. UINT - 1 /\ c \in 0 .. PIPESIZE
  BY <1>1 DEF Counters
<1>6. c + n <= PIPESIZE BY <1>1
<1>7. b \in 0 .. UINT - 1 /\ (b - nread) % UINT = c + n
  BY <1>3, <1>4, <1>5, <1>6, Further DEF Ring
<1>8. Pipes!Count' = c + n BY <1>2, <1>4, <1>7 DEF Pipes!Count, Pipes!Unsigned
<1>9. PICK s : s = todo[p] OBVIOUS
<1>10. PICK g : g = data' OBVIOUS
<1>11. g = [i \in DOMAIN data |->
              LET k == {j \in 1 .. n : Place(nwrite, j, UINT, PIPESIZE) = i} IN
              IF k = {} THEN data[i] ELSE s[CHOOSE j \in k : TRUE]]
  BY <1>9, <1>10 DEF Pipes!Store, Pipes!Unsigned, Place
<1>12. DOMAIN data = 0 .. PIPESIZE - 1 BY DEF Counters
<1>13. /\ \A i \in 1 .. c : g[Place(nread, i, UINT, PIPESIZE)]
                            = data[Place(nread, i, UINT, PIPESIZE)]
       /\ \A j \in 1 .. n : g[Place(nread, c + j, UINT, PIPESIZE)] = s[j]
  <2>1. Stores(nread, nwrite, c, data, g, s, n, UINT, PIPESIZE)
    BY <1>3, <1>5, <1>6, <1>11, <1>12 DEF Ring, Stores
  <2>. QED BY <2>1, Stored
<1>14. Pipes!Queue = [i \in 1 .. c |-> data[Place(nread, i, UINT, PIPESIZE)]]
  BY <1>1 DEF Pipes!Queue, Pipes!Unsigned, Place
<1>15. Pipes!Queue' = [i \in 1 .. c + n |-> g[Place(nread, i, UINT, PIPESIZE)]]
  BY <1>4, <1>8, <1>10 DEF Pipes!Queue, Pipes!Unsigned, Place
<1>16. ASSUME NEW i \in 1 .. c + n
       PROVE  g[Place(nread, i, UINT, PIPESIZE)] =
                IF i <= c THEN data[Place(nread, i, UINT, PIPESIZE)] ELSE s[i - c]
  <2>1. CASE i <= c BY <1>5, <1>13, <2>1
  <2>2. CASE ~(i <= c)
    <3>1. i - c \in 1 .. n /\ c + (i - c) = i BY <1>5, <2>2
    <3>. QED BY <1>13, <2>2, <3>1
  <2>. QED BY <2>1, <2>2
<1>17. ASSUME NEW i \in 1 .. c + n, i <= c
       PROVE  Pipes!Queue[i] = data[Place(nread, i, UINT, PIPESIZE)]
  BY <1>5, <1>14, <1>17
<1>18. Pipes!Queue' = [i \in 1 .. c + n |-> IF i <= c THEN Pipes!Queue[i] ELSE s[i - c]]
  BY <1>15, <1>16, <1>17
<1>. QED BY <1>1, <1>2, <1>7, <1>8, <1>9, <1>18

(* The first bytes leave the pipe.                                         *)
Rest(n) == [i \in 1 .. Pipes!Count - n |-> Pipes!Queue[i + n]]

LEMMA QueueShrinks ==
    ASSUME Ring, Counters, NEW n \in Nat, n <= Pipes!Count,
           nread' = Pipes!Unsigned(nread + n), nwrite' = nwrite, data' = data
    PROVE  /\ nread' \in 0 .. UINT - 1 /\ Pipes!Count' = Pipes!Count - n
           /\ Pipes!Queue' = Rest(n)
<1>1. PICK c : c = Pipes!Count OBVIOUS
<1>2. PICK a : a = nread' OBVIOUS
<1>3. c = (nwrite - nread) % UINT BY <1>1 DEF Pipes!Count, Pipes!Unsigned
<1>4. a = (nread + n) % UINT BY <1>2 DEF Pipes!Unsigned
<1>5. nread \in 0 .. UINT - 1 /\ nwrite \in 0 .. UINT - 1 /\ c \in 0 .. PIPESIZE /\ n <= c
  BY <1>1 DEF Counters
<1>6. n <= (nwrite - nread) % UINT BY <1>3, <1>5
<1>7. a \in 0 .. UINT - 1 /\ (nwrite - a) % UINT = c - n
  BY <1>3, <1>4, <1>5, <1>6, Nearer DEF Ring
<1>8. Pipes!Count' = c - n BY <1>2, <1>7 DEF Pipes!Count, Pipes!Unsigned
<1>9. Pipes!Queue = [i \in 1 .. c |-> data[Place(nread, i, UINT, PIPESIZE)]]
  BY <1>1 DEF Pipes!Queue, Pipes!Unsigned, Place
<1>10. Pipes!Queue' = [i \in 1 .. c - n |-> data[Place(a, i, UINT, PIPESIZE)]]
  BY <1>2, <1>8 DEF Pipes!Queue, Pipes!Unsigned, Place
<1>11. ASSUME NEW i \in 1 .. c - n
       PROVE  data[Place(a, i, UINT, PIPESIZE)] = Pipes!Queue[i + n]
  <2>1. nread \in Int /\ n \in Int /\ i \in Int BY <1>5
  <2>2. Place(a, i, UINT, PIPESIZE) = Place(nread, n + i, UINT, PIPESIZE)
    BY <1>4, <2>1, SamePlace DEF Ring
  <2>3. i + n \in 1 .. c /\ n + i = i + n BY <1>5
  <2>. QED BY <1>9, <2>2, <2>3
<1>12. Pipes!Queue' = [i \in 1 .. c - n |-> Pipes!Queue[i + n]] BY <1>10, <1>11
<1>13. Pipes!Queue' = Rest(n) BY <1>1, <1>12 DEF Rest
<1>. QED BY <1>1, <1>2, <1>7, <1>8, <1>13

(* Buffers.                                                                *)
LEMMA ValidBytes ==
    ASSUME NEW s, Buffer(s), s # <<>>, None \notin Bytes
    PROVE  /\ Len(s) \in Nat \ {0}
           /\ Pipes!Valid(s) \in Nat
           /\ Len(s) - 1 <= Pipes!Valid(s) /\ Pipes!Valid(s) <= Len(s)
           /\ \A i \in 1 .. Pipes!Valid(s) : s[i] \in Bytes
<1>1. s \in Seq(Bytes \cup {None}) /\ \A i \in 1 .. Len(s) - 1 : s[i] # None
  BY DEF Buffer
<1>2. Len(s) \in Nat \ {0} BY <1>1
<1>3. \A i \in 1 .. Len(s) : s[i] \in Bytes \cup {None} BY <1>1
<1>. QED BY <1>1, <1>2, <1>3 DEF Pipes!Valid

LEMMA BufferRest ==
    ASSUME NEW s, Buffer(s), NEW n \in Nat, n <= Len(s)
    PROVE  Buffer(SubSeq(s, n + 1, Len(s)))
<1>1. s \in Seq(Bytes \cup {None}) /\ \A i \in 1 .. Len(s) - 1 : s[i] # None
  BY DEF Buffer
<1>2. PICK r : r = SubSeq(s, n + 1, Len(s)) OBVIOUS
<1>3. /\ r \in Seq(Bytes \cup {None}) /\ Len(r) = Len(s) - n
      /\ \A i \in 1 .. Len(s) - n : r[i] = s[i + n]
  BY <1>1, <1>2
<1>. QED BY <1>1, <1>2, <1>3 DEF Buffer

LEMMA EmptyBuffer == Buffer(<<>>)
BY DEF Buffer

(* Every wakeup leaves who is idle where it is.                            *)
LEMMA WakeupIs ==
    ASSUME NEW p \in Pipes!Procs, NEW l, NEW chan \in {"nread", "nwrite"},
           ppc' = Pipes!Wakeup(p, l, chan)
    PROVE  /\ ppc'[p] = l
           /\ \A q \in Pipes!Procs : q # p /\ ppc'[q] # "idle" => ppc[q] # "idle"
BY DEF Pipes!Wakeup

Step == [Pipes!Promise!FifoNext]_<<Pipes!Queue, writeopen, got>>

(* Bytes of a write go into the pipe.                                      *)
LEMMA StoreStep ==
    ASSUME Ring, None \notin Bytes, PipeInv, NEW p \in Pipes!Procs, todo[p] # <<>>,
           NEW n \in Nat, n <= Pipes!Valid(todo[p]), Pipes!Count + n <= PIPESIZE,
           Pipes!Store(p, n), got' = got, holds' = holds
    PROVE  /\ Counters' /\ Ends' /\ Step
           /\ todo' \in [Pipes!Procs -> Seq(Bytes \cup {None})]
           /\ Buffer(todo'[p])
           /\ \A q \in Pipes!Procs : q # p => todo'[q] = todo[q]
<1>1. PICK s : s = todo[p] OBVIOUS
<1>2. PICK c : c = Pipes!Count OBVIOUS
<1>3. Buffer(s) /\ s # <<>> BY <1>1 DEF PipeInv, Buffers
<1>4. /\ Len(s) \in Nat \ {0} /\ n <= Len(s) /\ \A i \in 1 .. n : s[i] \in Bytes
  <2>1. /\ Len(s) \in Nat \ {0} /\ Pipes!Valid(s) \in Nat /\ Pipes!Valid(s) <= Len(s)
        /\ \A i \in 1 .. Pipes!Valid(s) : s[i] \in Bytes
    BY <1>3, ValidBytes
  <2>2. n <= Pipes!Valid(s) BY <1>1
  <2>. QED BY <2>1, <2>2
<1>5. c \in Nat /\ c + n \in 0 .. PIPESIZE /\ PIPESIZE \in Nat
  BY <1>2 DEF PipeInv, Counters, Ring, Wraps
<1>6. Counters
  BY DEF PipeInv
<1>7. /\ nwrite' \in 0 .. UINT - 1 /\ Pipes!Count' = c + n
      /\ Pipes!Queue' = [i \in 1 .. c + n |-> IF i <= c THEN Pipes!Queue[i] ELSE s[i - c]]
  BY <1>1, <1>2, <1>6, QueueGrows
<1>8. Counters'
  <2>1. nread' = nread BY DEF Pipes!Store
  <2>2. data' \in [0 .. PIPESIZE - 1 -> Stuff]
    <3>1. data \in [0 .. PIPESIZE - 1 -> Stuff] BY <1>6 DEF Counters
    <3>. DEFINE K(i) == {j \in 1 .. n : Pipes!Unsigned(nwrite + j - 1) % PIPESIZE = i}
    <3>2. data' = [i \in DOMAIN data |->
                     IF K(i) = {} THEN data[i] ELSE s[CHOOSE j \in K(i) : TRUE]]
      BY <1>1 DEF Pipes!Store
    <3>3. ASSUME NEW i, K(i) # {} PROVE (CHOOSE j \in K(i) : TRUE) \in 1 .. n
      BY <3>3
    <3>. HIDE DEF K
    <3>4. ASSUME NEW i \in 0 .. PIPESIZE - 1
          PROVE  (IF K(i) = {} THEN data[i] ELSE s[CHOOSE j \in K(i) : TRUE]) \in Stuff
      <4>1. CASE K(i) = {} BY <3>1, <4>1
      <4>2. CASE K(i) # {}
        <5>1. PICK m : m = CHOOSE j \in K(i) : TRUE OBVIOUS
        <5>2. m \in 1 .. n BY <3>3, <4>2, <5>1
        <5>. QED BY <1>4, <4>2, <5>1, <5>2 DEF Stuff
      <4>. QED BY <4>1, <4>2
    <3>. QED BY <3>1, <3>2, <3>4
  <2>. QED BY <1>5, <1>6, <1>7, <2>1, <2>2 DEF Counters
<1>9. writeopen' = writeopen BY DEF Pipes!Store
<1>10. Ends' BY <1>9 DEF PipeInv, Ends
<1>11. DOMAIN Pipes!Queue = 1 .. c /\ Len(Pipes!Queue) = c
  BY <1>2, <1>5 DEF Pipes!Queue
<1>12. Step
  <2>1. CASE n = 0
    <3>1. Pipes!Queue' = [i \in 1 .. c |-> Pipes!Queue[i]] BY <1>5, <1>7, <2>1
    <3>2. Pipes!Queue = [i \in 1 .. c |-> Pipes!Queue[i]] BY <1>2 DEF Pipes!Queue
    <3>. QED BY <1>9, <3>1, <3>2 DEF Step
  <2>2. CASE n # 0
    <3>1. PICK r : r = [j \in 1 .. n |-> s[j]] OBVIOUS
    <3>2. r \in [1 .. n -> Bytes] /\ Len(r) = n BY <1>4, <3>1
    <3>3. Pipes!Queue' = Pipes!Queue \o r
      <4>1. PICK q : q = Pipes!Queue OBVIOUS
      <4>2. q \in Seq(Stuff) /\ Len(q) = c BY <1>6, <1>11, <4>1, QueueType
      <4>3. r \in Seq(Bytes) BY <3>2
      <4>4. q \o r = [i \in 1 .. c + n |-> IF i <= c THEN q[i] ELSE r[i - c]]
        <5>1. PICK e : e = q \o r OBVIOUS
        <5>2. r \in Seq(Stuff) BY <4>3 DEF Stuff
        <5>3. /\ e \in Seq(Stuff) /\ Len(e) = c + n
              /\ \A i \in 1 .. c + n : e[i] = IF i <= c THEN q[i] ELSE r[i - c]
          <6>1. /\ q \o r \in Seq(Stuff) /\ Len(q \o r) = Len(q) + Len(r)
                /\ \A i \in 1 .. Len(q) + Len(r) :
                     (q \o r)[i] = IF i <= Len(q) THEN q[i] ELSE r[i - Len(q)]
            BY <4>2, <5>2, ConcatProperties
          <6>. QED BY <3>2, <4>2, <5>1, <6>1
        <5>4. e = [i \in 1 .. c + n |-> e[i]] BY <5>3
        <5>5. e = [i \in 1 .. c + n |-> IF i <= c THEN q[i] ELSE r[i - c]]
          BY <5>3, <5>4
        <5>. QED BY <5>1, <5>5
      <4>5. ASSUME NEW i \in 1 .. c + n, ~(i <= c) PROVE r[i - c] = s[i - c]
        <5>1. i - c \in 1 .. n BY <1>5, <4>5
        <5>. QED BY <3>1, <5>1
      <4>. QED BY <1>7, <4>1, <4>4, <4>5
    <3>4. n \in 1 .. PIPESIZE - Len(Pipes!Queue) BY <1>5, <1>11, <2>2
    <3>5. Pipes!Promise!Put BY <1>9, <3>2, <3>3, <3>4 DEF Pipes!Promise!Put
    <3>. QED BY <3>5 DEF Step, Pipes!Promise!FifoNext
  <2>. QED BY <2>1, <2>2
<1>13. todo \in [Pipes!Procs -> Seq(Bytes \cup {None})] BY DEF PipeInv, Buffers
<1>14. todo' = [todo EXCEPT ![p] = SubSeq(s, n + 1, Len(s))]
  BY <1>1 DEF Pipes!Store
<1>15. Buffer(SubSeq(s, n + 1, Len(s))) BY <1>3, <1>4, BufferRest
<1>16. SubSeq(s, n + 1, Len(s)) \in Seq(Bytes \cup {None}) BY <1>15 DEF Buffer
<1>. QED BY <1>8, <1>10, <1>12, <1>13, <1>14, <1>15, <1>16

(* Steps that leave the ring alone.                                        *)
LEMMA SameRing ==
    ASSUME UNCHANGED <<nread, nwrite, data>>
    PROVE  Counters' = Counters /\ Pipes!Queue' = Pipes!Queue /\ Pipes!Count' = Pipes!Count
BY DEF Counters, Pipes!Queue, Pipes!Count, Pipes!Unsigned

(* Buffers afterwards: p's changed or p is idle, the others sleep or not.  *)
LEMMA BuffersKept ==
    ASSUME Buffers, NEW p \in Pipes!Procs,
           todo' \in [Pipes!Procs -> Seq(Bytes \cup {None})],
           \A q \in Pipes!Procs : q # p => todo'[q] = todo[q],
           \A q \in Pipes!Procs : q # p /\ ppc'[q] # "idle" => ppc[q] # "idle",
           Buffer(todo'[p]), ppc'[p] # "idle" => todo'[p] # <<>>
    PROVE  Buffers'
<1>. SUFFICES ASSUME NEW q \in Pipes!Procs
              PROVE  Buffer(todo'[q]) /\ (ppc'[q] # "idle" => todo'[q] # <<>>)
  BY DEF Buffers
<1>1. CASE q = p BY <1>1
<1>2. CASE q # p BY <1>2 DEF Buffers
<1>. QED BY <1>1, <1>2

PC == ppc \in [Pipes!Procs -> {"idle", "read", "write", "nread", "nwrite"}]

LEMMA GotoIs ==
    ASSUME PC, NEW p \in Pipes!Procs, NEW l, Pipes!Goto(p, l)
    PROVE  /\ ppc'[p] = l
           /\ \A q \in Pipes!Procs : q # p /\ ppc'[q] # "idle" => ppc[q] # "idle"
BY DEF PC, Pipes!Goto

LEMMA PipeCallStep ==
    ASSUME Pipes!PipeConstants, PC, PipeInv, NEW p \in Pipes!Procs,
           NEW s \in Writes \cup Reads, Pipes!call(p, s)
    PROVE  PipeInv' /\ Step
<1>1. UNCHANGED <<nread, nwrite, data, writeopen, holds>> BY DEF Pipes!call, Pipes!pipe
<1>2. Counters' /\ Pipes!Queue' = Pipes!Queue BY <1>1, SameRing DEF PipeInv
<1>3. Ends' BY <1>1 DEF PipeInv, Ends
<1>4. Buffers BY DEF PipeInv
<1>5. Buffer(s) /\ s # <<>> BY Constants
<1>6. todo' = [todo EXCEPT ![p] = s] BY DEF Pipes!call
<1>7. /\ todo' \in [Pipes!Procs -> Seq(Bytes \cup {None})] /\ todo'[p] = s
      /\ \A q \in Pipes!Procs : q # p => todo'[q] = todo[q]
  BY <1>4, <1>5, <1>6 DEF Buffers, Buffer
<1>8. \A q \in Pipes!Procs : q # p /\ ppc'[q] # "idle" => ppc[q] # "idle"
  <2>1. Pipes!Goto(p, IF p \in Readers THEN "read" ELSE "write") BY DEF Pipes!call
  <2>. QED BY <2>1, GotoIs
<1>9. Buffers' BY <1>4, <1>5, <1>7, <1>8, BuffersKept
<1>10. Step
  <2>1. got' = [got EXCEPT ![p] = None] BY DEF Pipes!call
  <2>2. Pipes!Promise!Nothing(p) BY <1>1, <1>2, <2>1 DEF Pipes!Promise!Nothing
  <2>. QED BY <2>2 DEF Step, Pipes!Promise!FifoNext
<1>. QED BY <1>2, <1>3, <1>9, <1>10 DEF PipeInv

LEMMA RefusedStep ==
    ASSUME PC, PipeInv, NEW p \in Pipes!Procs, Pipes!pipewrite_refused(p)
    PROVE  PipeInv' /\ Step
<1>1. UNCHANGED <<nread, nwrite, data, writeopen, holds, got>>
  BY DEF Pipes!pipewrite_refused, Pipes!pipe
<1>2. Counters' /\ Pipes!Queue' = Pipes!Queue BY <1>1, SameRing DEF PipeInv
<1>3. Ends' BY <1>1 DEF PipeInv, Ends
<1>4. Buffers BY DEF PipeInv
<1>5. todo' = [todo EXCEPT ![p] = <<>>] /\ Pipes!Goto(p, "idle")
  BY DEF Pipes!pipewrite_refused
<1>6. /\ todo' \in [Pipes!Procs -> Seq(Bytes \cup {None})] /\ Buffer(todo'[p])
      /\ \A q \in Pipes!Procs : q # p => todo'[q] = todo[q]
  BY <1>4, <1>5, EmptyBuffer DEF Buffers
<1>7. Buffers' BY <1>4, <1>5, <1>6, GotoIs, BuffersKept
<1>8. Step BY <1>1, <1>2 DEF Step
<1>. QED BY <1>2, <1>3, <1>7, <1>8 DEF PipeInv

LEMMA FitsIs ==
    ASSUME Ring, Counters, NEW p, NEW v \in Nat, v = Pipes!Valid(todo[p])
    PROVE  /\ Pipes!Fits(p) \in Nat /\ Pipes!Fits(p) <= v
           /\ Pipes!Count + Pipes!Fits(p) <= PIPESIZE
BY DEF Counters, Ring, Wraps, Pipes!Fits, Pipes!Least

LEMMA WriteStep ==
    ASSUME Pipes!PipeConstants, PC, PipeInv, NEW p \in Pipes!Procs,
           Pipes!pipewrite(p) \/ \E n \in 1 .. PIPESIZE : Pipes!pipewrite_killed(p, n)
    PROVE  PipeInv' /\ Step
<1>1. Ring /\ None \notin Bytes BY Constants
<1>2. Counters /\ Buffers BY DEF PipeInv
<1>3. ppc[p] = "write" BY DEF Pipes!pipewrite, Pipes!pipewrite_killed
<1>4. Buffer(todo[p]) /\ todo[p] # <<>> BY <1>2, <1>3 DEF Buffers
<1>5. Pipes!Valid(todo[p]) \in Nat BY <1>1, <1>4, ValidBytes
<1>6. /\ Pipes!Fits(p) \in Nat /\ Pipes!Fits(p) <= Pipes!Valid(todo[p])
      /\ Pipes!Count + Pipes!Fits(p) <= PIPESIZE
  BY <1>1, <1>2, <1>5, FitsIs
<1>7. got' = got /\ holds' = holds BY DEF Pipes!pipewrite, Pipes!pipewrite_killed
<1>8. CASE Pipes!pipewrite(p)
  <2>1. Pipes!Store(p, Pipes!Fits(p)) BY <1>8 DEF Pipes!pipewrite
  <2>2. /\ Counters' /\ Ends' /\ Step
        /\ todo' \in [Pipes!Procs -> Seq(Bytes \cup {None})]
        /\ Buffer(todo'[p])
        /\ \A q \in Pipes!Procs : q # p => todo'[q] = todo[q]
    BY <1>1, <1>4, <1>6, <1>7, <2>1, StoreStep
  <2>3. PICK l : /\ l = IF todo'[p] = <<>> \/ Pipes!Count + Pipes!Fits(p) < PIPESIZE
                        THEN "idle" ELSE "nwrite"
                 /\ ppc' = Pipes!Wakeup(p, l, "nread")
    BY <1>8 DEF Pipes!pipewrite
  <2>4. /\ ppc'[p] = l
        /\ \A q \in Pipes!Procs : q # p /\ ppc'[q] # "idle" => ppc[q] # "idle"
    BY <2>3, WakeupIs
  <2>5. Buffers' BY <1>2, <2>2, <2>3, <2>4, BuffersKept
  <2>. QED BY <2>2, <2>5 DEF PipeInv
<1>9. ASSUME NEW n \in 1 .. PIPESIZE, Pipes!pipewrite_killed(p, n) PROVE PipeInv' /\ Step
  <2>1. Pipes!Store(p, n) /\ n \in 1 .. Pipes!Fits(p) /\ Pipes!Goto(p, "idle")
    BY <1>9 DEF Pipes!pipewrite_killed
  <2>2. n \in Nat /\ n <= Pipes!Valid(todo[p]) /\ Pipes!Count + n <= PIPESIZE
    BY <1>1, <1>2, <1>5, <1>6, <2>1 DEF Counters, Ring, Wraps
  <2>3. /\ Counters' /\ Ends' /\ Step
        /\ todo' \in [Pipes!Procs -> Seq(Bytes \cup {None})]
        /\ Buffer(todo'[p])
        /\ \A q \in Pipes!Procs : q # p => todo'[q] = todo[q]
    BY <1>1, <1>4, <1>7, <2>1, <2>2, StoreStep
  <2>4. Buffers' BY <1>2, <2>1, <2>3, GotoIs, BuffersKept
  <2>. QED BY <2>3, <2>4 DEF PipeInv
<1>. QED BY <1>8, <1>9

LEMMA WaitStep ==
    ASSUME PC, PipeInv, NEW p \in Pipes!Procs, Pipes!piperead_wait(p)
    PROVE  PipeInv' /\ Step
<1>1. UNCHANGED <<nread, nwrite, data, writeopen, holds, todo>>
  BY DEF Pipes!piperead_wait, Pipes!pipe
<1>2. Counters' /\ Pipes!Queue' = Pipes!Queue BY <1>1, SameRing DEF PipeInv
<1>3. Ends' BY <1>1 DEF PipeInv, Ends
<1>4. Buffers /\ ppc[p] # "idle" BY DEF PipeInv, Pipes!piperead_wait
<1>5. \A q \in Pipes!Procs : q # p /\ ppc'[q] # "idle" => ppc[q] # "idle"
  <2>1. Pipes!Goto(p, "idle") \/ Pipes!Goto(p, "nread") BY DEF Pipes!piperead_wait
  <2>. QED BY <2>1, GotoIs
<1>6. Buffers' BY <1>1, <1>4, <1>5, BuffersKept DEF Buffers
<1>7. Step
  <2>1. CASE UNCHANGED got BY <1>1, <1>2, <2>1 DEF Step
  <2>2. CASE Pipes!Return(p, None)
    <3>1. Pipes!Promise!Nothing(p)
      BY <1>1, <1>2, <2>2 DEF Pipes!Promise!Nothing, Pipes!Return
    <3>. QED BY <3>1 DEF Step, Pipes!Promise!FifoNext
  <2>. QED BY <2>1, <2>2 DEF Pipes!piperead_wait
<1>. QED BY <1>2, <1>3, <1>6, <1>7 DEF PipeInv

LEMMA ReadStep ==
    ASSUME Pipes!PipeConstants, PC, PipeInv, NEW p \in Pipes!Procs, Pipes!piperead(p)
    PROVE  PipeInv' /\ Step
<1>1. Ring /\ None \notin Bytes BY Constants
<1>2. UNCHANGED <<nwrite, data, writeopen, holds, todo>> BY DEF Pipes!piperead
<1>3. Counters /\ Buffers /\ ppc[p] # "idle" BY DEF PipeInv, Pipes!piperead
<1>4. PICK c : c = Pipes!Count OBVIOUS
<1>5. PICK v : v = Pipes!Valid(todo[p]) OBVIOUS
<1>6. PICK l : l = Len(todo[p]) OBVIOUS
<1>7. PICK n : n = Pipes!Least(l, c) OBVIOUS
<1>8. PICK m : m = Pipes!Least(n, v) OBVIOUS
<1>9. PICK q : q = Pipes!Queue OBVIOUS
<1>10. l \in Nat \ {0} /\ v \in Nat /\ l - 1 <= v /\ v <= l
  <2>1. Buffer(todo[p]) /\ todo[p] # <<>> BY <1>3 DEF Buffers
  <2>. QED BY <1>1, <1>5, <1>6, <2>1, ValidBytes
<1>11. c \in Nat BY <1>4, <1>3 DEF Counters
<1>12. /\ n \in 0 .. c /\ m \in 0 .. n /\ n - m \in {0, 1}
       /\ c > 0 => n > 0
  BY <1>7, <1>8, <1>10, <1>11 DEF Pipes!Least
<1>13. q \in Seq(Stuff) /\ Len(q) = c BY <1>1, <1>3, <1>4, <1>9, QueueType
<1>14. PICK r : r = SubSeq(q, 1, m) OBVIOUS
<1>15. r \in Seq(Stuff) /\ Len(r) = m BY <1>12, <1>13, <1>14
<1>16. /\ nread' = Pipes!Unsigned(nread + n)
       /\ got' = [got EXCEPT ![p] = [bytes |-> r, cut |-> Len(r) < n]]
       /\ c > 0 \/ ~writeopen
       /\ ppc' = Pipes!Wakeup(p, "idle", "nwrite")
  BY <1>4, <1>5, <1>6, <1>7, <1>8, <1>9, <1>14 DEF Pipes!piperead, Pipes!Return
<1>17. /\ nread' \in 0 .. UINT - 1 /\ Pipes!Count' = Pipes!Count - n
       /\ Pipes!Queue' = Rest(n)
  <2>1. n \in Nat /\ n <= Pipes!Count BY <1>4, <1>11, <1>12
  <2>2. nread' = Pipes!Unsigned(nread + n) /\ nwrite' = nwrite /\ data' = data
    BY <1>2, <1>16
  <2>. QED BY <1>1, <1>3, <2>1, <2>2, QueueShrinks
<1>18. Counters'
  <2>1. c - n \in 0 .. PIPESIZE
    BY <1>1, <1>3, <1>4, <1>11, <1>12 DEF Counters, Ring, Wraps
  <2>2. nwrite' = nwrite /\ data' = data BY <1>2
  <2>. QED BY <1>3, <1>4, <1>17, <2>1, <2>2 DEF Counters
<1>19. Ends' BY <1>2 DEF PipeInv, Ends
<1>20. Buffers' BY <1>2, <1>3, <1>16, WakeupIs, BuffersKept DEF Buffers
<1>21. Pipes!Queue' = SubSeq(q, n + 1, Len(q))
  <2>1. PICK e : e = SubSeq(q, n + 1, Len(q)) OBVIOUS
  <2>2. /\ e \in Seq(Stuff) /\ Len(e) = c - n
        /\ \A i \in 1 .. c - n : e[i] = q[i + n]
    BY <1>11, <1>12, <1>13, <2>1
  <2>3. e = [i \in 1 .. c - n |-> q[i + n]] BY <2>2
  <2>4. Rest(n) = [i \in 1 .. c - n |-> q[i + n]] BY <1>4, <1>9 DEF Rest
  <2>. QED BY <1>17, <2>1, <2>3, <2>4
<1>22. PICK x : x = n - m OBVIOUS
<1>23. x \in {0, 1} /\ m + x = n BY <1>12, <1>22
<1>24. (Len(r) < n) = (x = 1)
  <2>1. Len(r) < n <=> x = 1 BY <1>12, <1>15, <1>22
  <2>. QED BY <2>1
<1>25. Pipes!Promise!Get(p)
  <2>1. m \in 0 .. Len(q) BY <1>11, <1>12, <1>13
  <2>2. m + x \in 1 .. Len(q) \/ (q = <<>> /\ ~writeopen)
    BY <1>11, <1>12, <1>13, <1>16, <1>23
  <2>3. got' = [got EXCEPT ![p] = [bytes |-> SubSeq(q, 1, m), cut |-> x = 1]]
    BY <1>14, <1>16, <1>24
  <2>4. Pipes!Queue' = SubSeq(q, m + x + 1, Len(q)) BY <1>21, <1>23
  <2>. QED BY <1>2, <1>9, <1>23, <2>1, <2>2, <2>3, <2>4 DEF Pipes!Promise!Get
<1>26. Step BY <1>25 DEF Step, Pipes!Promise!FifoNext
<1>. QED BY <1>18, <1>19, <1>20, <1>26 DEF PipeInv

LEMMA CloseStep ==
    ASSUME PC, PipeInv, NEW p \in Pipes!Procs, Pipes!close(p)
    PROVE  PipeInv' /\ Step
<1>1. UNCHANGED <<nread, nwrite, data, todo, got>> BY DEF Pipes!close
<1>2. Counters' /\ Pipes!Queue' = Pipes!Queue BY <1>1, SameRing DEF PipeInv
<1>3. Buffers /\ Ends BY DEF PipeInv
<1>4. holds' = holds \ {p} BY DEF Pipes!close
<1>5. /\ ppc'[p] # "idle" => ppc[p] # "idle"
      /\ \A q \in Pipes!Procs : q # p /\ ppc'[q] # "idle" => ppc[q] # "idle"
  <2>1. ppc' = ppc \/ ppc' = Pipes!Wakeup(p, "idle", "nread")
                  \/ ppc' = Pipes!Wakeup(p, "idle", "nwrite")
    BY DEF Pipes!close
  <2>. QED BY <2>1, WakeupIs
<1>6. Buffers' BY <1>1, <1>3, <1>5, BuffersKept DEF Buffers
<1>7. CASE p \in Writers /\ holds' \cap Writers # {}
  <2>1. writeopen' = TRUE BY <1>7 DEF Pipes!close
  <2>2. writeopen = TRUE BY <1>3, <1>4, <1>7 DEF Ends
  <2>. QED BY <1>1, <1>2, <1>6, <2>1, <2>2 DEF PipeInv, Ends, Step
<1>8. CASE p \in Writers /\ holds' \cap Writers = {}
  <2>1. writeopen' = FALSE BY <1>8 DEF Pipes!close
  <2>2. Pipes!Promise!CloseWrite BY <1>1, <1>2, <2>1 DEF Pipes!Promise!CloseWrite
  <2>. QED
    BY <1>2, <1>6, <1>8, <2>1, <2>2 DEF PipeInv, Ends, Step, Pipes!Promise!FifoNext
<1>9. CASE p \notin Writers
  <2>1. writeopen' = writeopen BY <1>9 DEF Pipes!close
  <2>2. Ends' BY <1>3, <1>4, <2>1 DEF Ends
  <2>. QED BY <1>1, <1>2, <1>6, <2>1, <2>2 DEF PipeInv, Step
<1>. QED BY <1>7, <1>8, <1>9

LEMMA KillStep ==
    ASSUME PC, PipeInv, NEW p \in Pipes!Procs, Pipes!kill(p)
    PROVE  PipeInv' /\ Step
<1>1. UNCHANGED <<nread, nwrite, data, writeopen, holds, todo, got>>
  BY DEF Pipes!kill, Pipes!pipe
<1>2. Counters' /\ Pipes!Queue' = Pipes!Queue BY <1>1, SameRing DEF PipeInv
<1>3. Ends' BY <1>1 DEF PipeInv, Ends
<1>4. \A q \in Pipes!Procs : ppc'[q] # "idle" => ppc[q] # "idle"
  BY DEF Pipes!kill, PC
<1>5. Buffers' BY <1>1, <1>4 DEF PipeInv, Buffers
<1>6. Step BY <1>1, <1>2 DEF Step
<1>. QED BY <1>2, <1>3, <1>5, <1>6 DEF PipeInv

LEMMA PCInit == Pipes!Init => PC
BY DEF Pipes!Init, PC

LEMMA PCStep == PC /\ [Pipes!Next]_Pipes!vars => PC'
<1>1. CASE UNCHANGED Pipes!vars BY <1>1 DEF Pipes!vars, PC
<1>2. ASSUME PC, NEW p \in Pipes!Procs, Pipes!go(p) \/ Pipes!kill(p) PROVE PC'
  BY <1>2 DEF PC, Pipes!go, Pipes!kill, Pipes!step, Pipes!use, Pipes!call, Pipes!close,
     Pipes!pipewrite, Pipes!pipewrite_refused, Pipes!pipewrite_killed,
     Pipes!piperead_wait, Pipes!piperead, Pipes!Goto, Pipes!Wakeup
<1>. QED BY <1>1, <1>2 DEF Pipes!Next

LEMMA PipeInit ==
    ASSUME Pipes!PipeConstants, Pipes!Init
    PROVE  PipeInv /\ Pipes!Promise!FifoInit
<1>1. Ring BY Constants
<1>2. Pipes!Count = 0
  <2>1. nwrite - nread = 0 BY DEF Pipes!Init
  <2>2. 0 % UINT = 0 BY <1>1, SmallRemainder DEF Ring, Wraps
  <2>. QED BY <2>1, <2>2 DEF Pipes!Count, Pipes!Unsigned
<1>3. Counters BY <1>1, <1>2 DEF Pipes!Init, Counters, Ring, Wraps, Stuff
<1>4. Buffers BY EmptyBuffer DEF Pipes!Init, Buffers
<1>5. Ends BY DEF Pipes!Init, Ends
<1>6. Pipes!Promise!FifoInit
  <2>1. Pipes!Queue = <<>> BY <1>2 DEF Pipes!Queue
  <2>. QED BY <2>1 DEF Pipes!Init, Pipes!Promise!FifoInit
<1>. QED BY <1>3, <1>4, <1>5, <1>6 DEF PipeInv

LEMMA PipeStep ==
    ASSUME Pipes!PipeConstants, PC, PipeInv, [Pipes!Next]_Pipes!vars
    PROVE  PipeInv' /\ Step
<1>1. CASE UNCHANGED Pipes!vars
  <2>1. UNCHANGED <<nread, nwrite, data, writeopen, holds, todo, got, ppc>>
    BY <1>1 DEF Pipes!vars, Pipes!pipe
  <2>2. Counters' /\ Pipes!Queue' = Pipes!Queue BY <2>1, SameRing DEF PipeInv
  <2>. QED BY <2>1, <2>2 DEF PipeInv, Ends, Buffers, Step
<1>2. ASSUME NEW p \in Pipes!Procs, Pipes!go(p) PROVE PipeInv' /\ Step
  <2>1. CASE Pipes!step(p)
    BY <2>1, RefusedStep, WriteStep, WaitStep, ReadStep DEF Pipes!step
  <2>2. CASE Pipes!use(p) BY <2>2, PipeCallStep, CloseStep DEF Pipes!use
  <2>. QED BY <1>2, <2>1, <2>2 DEF Pipes!go
<1>3. ASSUME NEW p \in Pipes!Procs, Pipes!kill(p) PROVE PipeInv' /\ Step
  BY <1>3, KillStep
<1>. QED BY <1>1, <1>2, <1>3 DEF Pipes!Next

(* A pipe is a queue: what is read is what was written, in order, for any  *)
(* size of the ring and of its counters, whoever is killed, whatever       *)
(* copyin() and copyout() fail on.                                         *)
THEOREM PipesAreFifos == Pipes!PipeConstants => (Pipes!Spec => Pipes!ImplementsFifo)
<1>. SUFFICES ASSUME Pipes!PipeConstants PROVE Pipes!Spec => Pipes!ImplementsFifo OBVIOUS
<1>1. Pipes!Init => PC /\ PipeInv /\ Pipes!Promise!FifoInit BY PCInit, PipeInit
<1>2. PC /\ PipeInv /\ [Pipes!Next]_Pipes!vars
        => (PC /\ PipeInv)' /\ [Pipes!Promise!FifoNext]_<<Pipes!Queue, writeopen, got>>
  BY PCStep, PipeStep DEF Step
<1>. QED BY <1>1, <1>2, PTL DEF Pipes!Spec, Pipes!ImplementsFifo, Pipes!Promise!FifoSpec
-------------------------------------------------------------------------------
(* The console.                                                            *)
CONSTANTS LReaders, Chars, LSIZE, LUINT, LReads, LKillable
VARIABLES cbuf, cr, cw, ce, cpc, cn, cvalid, cdst, ckilled

Lines == INSTANCE Console WITH
    Readers <- LReaders, SIZE <- LSIZE, UINT <- LUINT, Reads <- LReads,
    Killable <- LKillable, buf <- cbuf, r <- cr, w <- cw, e <- ce, pc <- cpc, n <- cn,
    valid <- cvalid, dst <- cdst, killed <- ckilled

Wheel == Wraps(LUINT, LSIZE)
Signs == Lines!Keys \cup {CHOOSE c \in Chars : TRUE}
Handed == Lines!Unsigned(cw - cr)
Typed == Lines!Unsigned(ce - cr)

(* From r on come the lines handed over, up to w, and then what is being   *)
(* edited, up to e; a reader has, of a line that goes on, no newline yet.  *)
Marks ==
    /\ cr \in 0 .. LUINT - 1 /\ cw \in 0 .. LUINT - 1 /\ ce \in 0 .. LUINT - 1
    /\ Handed <= Typed /\ Typed <= LSIZE
    /\ cbuf \in [0 .. LSIZE - 1 -> Signs]
Requests ==
    /\ cpc \in [LReaders -> {"idle", "read", "asleep"}]
    /\ cn \in [LReaders -> Nat] /\ cvalid \in [LReaders -> Nat]
    /\ \A p \in LReaders : cpc[p] # "idle" => cn[p] > 0
    /\ cdst \in [LReaders -> Seq(Signs)]
    /\ \A p \in LReaders : \A i \in 1 .. Len(cdst[p]) :
         /\ cdst[p][i] # "eof"
         /\ cdst[p][i] = "nl" => i = Len(cdst[p]) /\ cpc[p] = "idle"
LinesInv == Marks /\ Requests /\ Lines!SleepsForReason

LEMMA LineConstants == Lines!ConsoleConstants => Wheel
BY DEF Lines!ConsoleConstants, Wheel, Wraps

LEMMA MarkTypes ==
    ASSUME Wheel, Marks
    PROVE  /\ Handed \in Nat /\ Typed \in Nat /\ Handed <= Typed
           /\ Typed \in 0 .. LUINT - 1
           /\ LUINT \in Nat \ {0} /\ LSIZE \in Nat \ {0} /\ LUINT > LSIZE
           /\ cr \in Int /\ cw \in Int /\ ce \in Int
<1>1. LUINT \in Nat \ {0} /\ LSIZE \in Nat \ {0} /\ LUINT > LSIZE BY DEF Wheel, Wraps
<1>2. cr \in Int /\ cw \in Int /\ ce \in Int BY <1>1 DEF Marks
<1>3. cw - cr \in Int /\ ce - cr \in Int BY <1>2
<1>4. (cw - cr) % LUINT \in 0 .. LUINT - 1 /\ (ce - cr) % LUINT \in 0 .. LUINT - 1
  BY <1>1, <1>3, Remainder
<1>5. Handed \in 0 .. LUINT - 1 /\ Typed \in 0 .. LUINT - 1
  BY <1>4 DEF Handed, Typed, Lines!Unsigned
<1>6. Handed <= Typed BY DEF Marks
<1>. QED BY <1>1, <1>2, <1>5, <1>6

(* Where w and e are, seen from r.                                         *)
LEMMA MarksAre ==
    ASSUME Wheel, Marks
    PROVE  /\ cw = (cr + Handed) % LUINT /\ ce = (cr + Typed) % LUINT
           /\ Lines!Unsigned(ce - cw) = Typed - Handed
<1>0. LUINT \in Nat \ {0} BY MarkTypes
<1>1. cr \in 0 .. LUINT - 1 /\ cw \in 0 .. LUINT - 1 /\ ce \in 0 .. LUINT - 1
  BY DEF Marks
<1>2. PICK h : h = Handed OBVIOUS
<1>3. PICK t : t = Typed OBVIOUS
<1>4. h = (cw - cr) % LUINT /\ t = (ce - cr) % LUINT
  BY <1>2, <1>3 DEF Handed, Typed, Lines!Unsigned
<1>5. cw = (cr + h) % LUINT BY <1>0, <1>1, <1>4, DistanceBack
<1>6. ce = (cr + t) % LUINT BY <1>0, <1>1, <1>4, DistanceBack
<1>7. h \in Nat /\ h <= t BY <1>2, <1>3, MarkTypes
<1>8. h <= (ce - cr) % LUINT BY <1>4, <1>7
<1>9. (ce - cw) % LUINT = ((ce - cr) % LUINT) - h
  BY <1>1, <1>5, <1>7, <1>8, Nearer DEF Wheel
<1>10. (ce - cw) % LUINT = t - h BY <1>4, <1>9
<1>. QED BY <1>2, <1>3, <1>5, <1>6, <1>10 DEF Lines!Unsigned

LEMMA LinesAre ==
    ASSUME Wheel, Marks
    PROVE  /\ Lines!Committed = [i \in 1 .. Handed |-> cbuf[Place(cr, i, LUINT, LSIZE)]]
           /\ Lines!Committed \in Seq(Signs) /\ Len(Lines!Committed) = Handed
<1>1. PICK h : h = Handed OBVIOUS
<1>2. h \in Nat /\ cr \in Int BY <1>1, MarkTypes
<1>3. Lines!Committed = [i \in 1 .. h |-> cbuf[Place(cr, i, LUINT, LSIZE)]]
  BY <1>1 DEF Lines!Committed, Lines!Between, Lines!Unsigned, Handed, Place
<1>4. ASSUME NEW i \in 1 .. h PROVE Place(cr, i, LUINT, LSIZE) \in 0 .. LSIZE - 1
  <2>1. i \in Int OBVIOUS
  <2>. QED BY <1>2, <2>1, PlaceIs DEF Wheel
<1>5. cbuf \in [0 .. LSIZE - 1 -> Signs] BY DEF Marks
<1>6. Lines!Committed \in [1 .. h -> Signs] BY <1>3, <1>4, <1>5
<1>. QED BY <1>1, <1>2, <1>3, <1>6

(* What was handed over stays, if its places do.                           *)
LEMMA HandedOverIs ==
    ASSUME Wheel, Marks, Marks', cr' = cr, Handed <= Handed', Handed' \in Nat,
           \A i \in 1 .. Handed :
              cbuf'[Place(cr, i, LUINT, LSIZE)] = cbuf[Place(cr, i, LUINT, LSIZE)]
    PROVE  Lines!HandedOver
<1>1. PICK h : h = Handed OBVIOUS
<1>2. PICK k : k = Handed' OBVIOUS
<1>3. h \in Nat /\ k \in Nat /\ h <= k /\ cr \in Int BY <1>1, <1>2, MarkTypes
<1>4. PICK f : f = Lines!Committed OBVIOUS
<1>5. PICK g : g = Lines!Committed' OBVIOUS
<1>6. f = [i \in 1 .. h |-> cbuf[Place(cr, i, LUINT, LSIZE)]] /\ f \in Seq(Signs) /\ Len(f) = h
  BY <1>1, <1>4, LinesAre
<1>7. g = [i \in 1 .. k |-> cbuf'[Place(cr, i, LUINT, LSIZE)]]
  BY <1>2, <1>5 DEF Lines!Committed, Lines!Between, Lines!Unsigned, Handed, Place
<1>8. ASSUME NEW i \in 1 .. k PROVE Place(cr, i, LUINT, LSIZE) \in 0 .. LSIZE - 1
  <2>1. i \in Int OBVIOUS
  <2>. QED BY <1>3, <2>1, PlaceIs DEF Wheel
<1>9. cbuf' \in [0 .. LSIZE - 1 -> Signs] BY DEF Marks
<1>10. g \in [1 .. k -> Signs] BY <1>7, <1>8, <1>9
<1>11. g \in Seq(Signs) /\ Len(g) = k BY <1>3, <1>10
<1>12. \A i \in 1 .. h : g[i] = f[i] BY <1>1, <1>3, <1>6, <1>7
<1>13. SubSeq(g, 1, h) = f
  <2>1. PICK x : x = SubSeq(g, 1, h) OBVIOUS
  <2>2. x \in Seq(Signs) /\ Len(x) = h /\ \A i \in 1 .. h : x[i] = g[i]
    BY <1>3, <1>11, <2>1
  <2>. QED BY <1>6, <1>12, <2>1, <2>2
<1>. QED BY <1>3, <1>4, <1>5, <1>6, <1>11, <1>13 DEF Lines!HandedOver

(* Marks after e has moved to the place d behind r, and w stays or follows.*)
LEMMA MarksMove ==
    ASSUME Wheel, Marks, NEW d \in Nat, d <= LSIZE, Handed <= d,
           cr' = cr, ce' = (cr + d) % LUINT, cw' = cw \/ cw' = ce',
           cbuf' \in [0 .. LSIZE - 1 -> Signs]
    PROVE  /\ Marks' /\ Handed' \in Nat /\ Handed <= Handed'
           /\ Typed' = d /\ (cw' = cw => Handed' = Handed) /\ (cw' = ce' => Handed' = d)
<1>1. PICK h : h = Handed OBVIOUS
<1>2. /\ LUINT \in Nat \ {0} /\ LSIZE \in Nat /\ LUINT > LSIZE /\ h \in Nat
      /\ cr \in 0 .. LUINT - 1 /\ cw \in 0 .. LUINT - 1
  BY <1>1, MarkTypes DEF Marks
<1>3. PICK b : b = ce' OBVIOUS
<1>4. b = (cr + d) % LUINT BY <1>3
<1>5. b \in 0 .. LUINT - 1
  <2>1. cr + d \in Int BY <1>2
  <2>. QED BY <1>2, <1>4, <2>1, Remainder
<1>6. d \in 0 .. LUINT - 1 BY <1>2
<1>7. (b - cr) % LUINT = d BY <1>2, <1>4, <1>6, DistanceIs
<1>8. Typed' = d BY <1>3, <1>7 DEF Typed, Lines!Unsigned
<1>9. cw' = cw => Handed' = h BY <1>1 DEF Handed, Lines!Unsigned
<1>10. cw' = ce' => Handed' = d BY <1>3, <1>7 DEF Handed, Lines!Unsigned
<1>11. Handed' \in Nat /\ h <= Handed' /\ Handed' <= d BY <1>1, <1>2, <1>9, <1>10
<1>12. cw' \in 0 .. LUINT - 1 BY <1>2, <1>3, <1>5
<1>13. Marks' BY <1>2, <1>3, <1>5, <1>8, <1>11, <1>12 DEF Marks
<1>. QED BY <1>1, <1>8, <1>9, <1>10, <1>11, <1>13

LEMMA SameRequests ==
    ASSUME Requests, UNCHANGED <<cn, cvalid, cdst>>,
           cpc' \in [LReaders -> {"idle", "read", "asleep"}],
           \A p \in LReaders : cpc'[p] = "idle" <=> cpc[p] = "idle"
    PROVE  Requests'
BY DEF Requests

LEMMA KeyStep ==
    ASSUME Wheel, LinesInv, NEW c \in Lines!Keys, Lines!key(c)
    PROVE  LinesInv' /\ Lines!KeepsLines
<1>1. PICK h : h = Handed OBVIOUS
<1>2. PICK t : t = Typed OBVIOUS
<1>3. Marks BY DEF LinesInv
<1>4. /\ h \in Nat /\ t \in Nat /\ h <= t /\ LUINT \in Nat \ {0} /\ LSIZE \in Nat \ {0}
      /\ cr \in Int
  BY <1>1, <1>2, <1>3, MarkTypes
<1>5. t < LSIZE BY <1>2 DEF Lines!key, Typed
<1>6. ce = (cr + t) % LUINT BY <1>2, <1>3, MarksAre
<1>7. Place(cr, t + 1, LUINT, LSIZE) = ce % LSIZE
  <2>1. cr + (t + 1) - 1 = cr + t BY <1>4
  <2>. QED BY <1>6, <2>1 DEF Place
<1>8. PICK k : k = ce % LSIZE OBVIOUS
<1>9. k \in 0 .. LSIZE - 1
  <2>1. t + 1 \in Int BY <1>4
  <2>. QED BY <1>4, <1>7, <1>8, <2>1, PlaceIs DEF Wheel
<1>10. cbuf' = [cbuf EXCEPT ![k] = c] BY <1>8 DEF Lines!key
<1>11. cbuf \in [0 .. LSIZE - 1 -> Signs] /\ c \in Signs BY <1>3 DEF Marks, Signs
<1>12. cbuf' \in [0 .. LSIZE - 1 -> Signs] BY <1>10, <1>11
<1>13. ce' = (cr + (t + 1)) % LUINT
  <2>1. ce' = (ce + 1) % LUINT BY DEF Lines!key, Lines!Unsigned
  <2>2. PICK y : y = 1 OBVIOUS
  <2>3. cr + t \in Int /\ y \in Int /\ (cr + t) + y = cr + (t + 1) BY <1>4, <2>2
  <2>4. (((cr + t) % LUINT) + y) % LUINT = ((cr + t) + y) % LUINT
    BY <1>4, <2>3, RemainderOfSum
  <2>. QED BY <1>6, <2>1, <2>2, <2>3, <2>4
<1>14. cr' = cr /\ (cw' = cw \/ cw' = ce') BY DEF Lines!key
<1>15. PICK d : d = t + 1 OBVIOUS
<1>16. d \in Nat /\ d <= LSIZE /\ h <= d BY <1>4, <1>5, <1>15
<1>17. ce' = (cr + d) % LUINT BY <1>13, <1>15
<1>18. /\ Marks' /\ Handed' \in Nat /\ Handed <= Handed'
       /\ Typed' = d /\ (cw' = cw => Handed' = Handed) /\ (cw' = ce' => Handed' = d)
  BY <1>1, <1>3, <1>12, <1>14, <1>16, <1>17, MarksMove
<1>19. Lines!HandedOver
  <2>1. ASSUME NEW i \in 1 .. h
        PROVE  cbuf'[Place(cr, i, LUINT, LSIZE)] = cbuf[Place(cr, i, LUINT, LSIZE)]
    <3>1. i \in Int /\ t + 1 \in Int /\ i < t + 1 /\ t + 1 < i + LSIZE BY <1>4, <1>5
    <3>2. Place(cr, i, LUINT, LSIZE) # k
      BY <1>4, <1>7, <1>8, <3>1, OtherPlace DEF Wheel
    <3>3. Place(cr, i, LUINT, LSIZE) \in 0 .. LSIZE - 1
      BY <1>4, <3>1, PlaceIs DEF Wheel
    <3>. QED BY <1>10, <1>11, <3>2, <3>3
  <2>. QED BY <1>1, <1>3, <1>14, <1>18, <2>1, HandedOverIs
<1>20. Requests /\ Lines!SleepsForReason BY DEF LinesInv
<1>21. /\ cpc' \in [LReaders -> {"idle", "read", "asleep"}]
       /\ \A p \in LReaders : cpc'[p] = "idle" <=> cpc[p] = "idle"
  BY <1>20 DEF Lines!key, Lines!Wakeup, Requests
<1>22. Requests' BY <1>20, <1>21, SameRequests DEF Lines!key, Lines!call
<1>23. Lines!SleepsForReason'
  BY <1>20 DEF Lines!key, Lines!Wakeup, Lines!SleepsForReason
<1>. QED BY <1>18, <1>19, <1>22, <1>23 DEF LinesInv, Lines!KeepsLines

(* Who only changes what is being typed.                                   *)
LEMMA EditStep ==
    ASSUME Wheel, LinesInv, NEW d \in Nat, Handed <= d, d <= LSIZE,
           ce' = (cr + d) % LUINT,
           UNCHANGED <<cbuf, cr, cw, cpc, cn, cvalid, cdst>>
    PROVE  LinesInv' /\ Lines!KeepsLines
<1>1. Marks /\ Requests /\ Lines!SleepsForReason BY DEF LinesInv
<1>2. cbuf' \in [0 .. LSIZE - 1 -> Signs] /\ cr' = cr /\ cw' = cw BY <1>1 DEF Marks
<1>3. Marks' /\ Handed' \in Nat /\ Handed <= Handed' BY <1>1, <1>2, MarksMove
<1>4. Lines!HandedOver BY <1>1, <1>3, HandedOverIs
<1>. QED BY <1>1, <1>3, <1>4
         DEF LinesInv, Requests, Lines!SleepsForReason, Lines!KeepsLines

LEMMA BackspaceStep ==
    ASSUME Wheel, LinesInv, Lines!backspace
    PROVE  LinesInv' /\ Lines!KeepsLines
<1>1. PICK h : h = Handed OBVIOUS
<1>2. PICK t : t = Typed OBVIOUS
<1>3. Marks BY DEF LinesInv
<1>4. h \in Nat /\ t \in Nat /\ h <= t /\ t <= LSIZE /\ LUINT \in Nat \ {0} /\ cr \in Int
  BY <1>1, <1>2, <1>3, MarkTypes DEF Marks
<1>5. cw = (cr + h) % LUINT /\ ce = (cr + t) % LUINT BY <1>1, <1>2, <1>3, MarksAre
<1>6. h # t BY <1>5 DEF Lines!backspace
<1>7. PICK d : d = t - 1 OBVIOUS
<1>8. d \in Nat /\ h <= d /\ d <= LSIZE
  <2>1. LSIZE \in Nat BY <1>3, MarkTypes
  <2>. QED BY <1>4, <1>6, <1>7, <2>1
<1>9. ce' = (cr + d) % LUINT
  <2>1. ce' = (ce - 1) % LUINT BY DEF Lines!backspace, Lines!Unsigned
  <2>2. PICK y : y = -1 OBVIOUS
  <2>3. cr + t \in Int /\ y \in Int /\ (cr + t) + y = cr + d BY <1>4, <1>7, <2>2
  <2>4. (((cr + t) % LUINT) + y) % LUINT = ((cr + t) + y) % LUINT
    BY <1>4, <2>3, RemainderOfSum
  <2>5. ce - 1 = ((cr + t) % LUINT) + y
    <3>1. ce \in Int BY <1>3, MarkTypes
    <3>. QED BY <1>5, <2>2, <3>1
  <2>. QED BY <2>1, <2>3, <2>4, <2>5
<1>. QED BY <1>1, <1>8, <1>9, EditStep DEF Lines!backspace, Lines!call

LEMMA KillLineStep ==
    ASSUME Wheel, LinesInv, Lines!kill_line
    PROVE  LinesInv' /\ Lines!KeepsLines
<1>1. PICK h : h = Handed OBVIOUS
<1>2. PICK t : t = Typed OBVIOUS
<1>3. Marks BY DEF LinesInv
<1>4. h \in Nat /\ t \in Nat /\ h <= t /\ t <= LSIZE /\ LUINT \in Nat \ {0} /\ cr \in Int
  BY <1>1, <1>2, <1>3, MarkTypes DEF Marks
<1>5. cw = (cr + h) % LUINT BY <1>1, <1>3, MarksAre
<1>6. Len(Lines!Editing) = t - h
  <2>1. PICK z : z = Lines!Unsigned(ce - cw) OBVIOUS
  <2>2. z = t - h BY <1>1, <1>2, <1>3, <2>1, MarksAre
  <2>3. Lines!Editing = [i \in 1 .. z |-> cbuf[Lines!Unsigned(cw + i - 1) % LSIZE]]
    BY <2>1 DEF Lines!Editing, Lines!Between
  <2>. QED BY <1>4, <2>2, <2>3
<1>7. PICK k \in 1 .. t - h : ce' = Lines!Unsigned(cw + k - 1)
  BY <1>6 DEF Lines!kill_line
<1>8. PICK d : d = h + (k - 1) OBVIOUS
<1>9. d \in Nat /\ h <= d /\ d <= LSIZE
  <2>1. LSIZE \in Nat BY <1>3, MarkTypes
  <2>. QED BY <1>4, <1>8, <2>1
<1>10. ce' = (cr + d) % LUINT
  <2>1. ce' = (cw + k - 1) % LUINT BY <1>7 DEF Lines!Unsigned
  <2>2. PICK y : y = k - 1 OBVIOUS
  <2>3. cr + h \in Int /\ y \in Int /\ (cr + h) + y = cr + d BY <1>4, <1>8, <2>2
  <2>4. (((cr + h) % LUINT) + y) % LUINT = ((cr + h) + y) % LUINT
    BY <1>4, <2>3, RemainderOfSum
  <2>5. cw + k - 1 = ((cr + h) % LUINT) + y
    <3>1. cw \in Int BY <1>3, MarkTypes
    <3>2. k \in Int BY <1>4
    <3>3. cw + k - 1 = cw + y BY <2>2, <3>1, <3>2
    <3>. QED BY <1>5, <3>3
  <2>. QED BY <2>1, <2>3, <2>4, <2>5
<1>. QED BY <1>1, <1>9, <1>10, EditStep DEF Lines!kill_line, Lines!call

(* Who takes nothing.                                                      *)
LEMMA NothingTaken ==
    ASSUME Wheel, Marks, UNCHANGED <<cbuf, cr, cw, ce>>
    PROVE  Marks' /\ Lines!KeepsLines
<1>1. Marks' /\ Handed' = Handed BY DEF Marks, Handed, Typed, Lines!Unsigned
<1>2. Handed \in Nat /\ Handed <= Handed' BY <1>1, MarkTypes
<1>3. Lines!HandedOver BY <1>1, <1>2, HandedOverIs
<1>. QED BY <1>1, <1>3 DEF Lines!KeepsLines

LEMMA BeginStep ==
    ASSUME Lines!ConsoleConstants, Wheel, LinesInv, NEW p \in LReaders, NEW q \in LReads,
           Lines!read(p, q)
    PROVE  LinesInv' /\ Lines!KeepsLines
<1>1. Marks /\ Requests /\ Lines!SleepsForReason BY DEF LinesInv
<1>2. UNCHANGED <<cbuf, cr, cw, ce>> BY DEF Lines!read, Lines!cons
<1>3. Marks' /\ Lines!KeepsLines BY <1>1, <1>2, NothingTaken
<1>4. q.n \in Nat /\ q.n > 0 /\ q.valid \in Nat BY DEF Lines!ConsoleConstants
<1>5. /\ cpc' = [cpc EXCEPT ![p] = "read"] /\ cn' = [cn EXCEPT ![p] = q.n]
      /\ cvalid' = [cvalid EXCEPT ![p] = q.valid] /\ cdst' = [cdst EXCEPT ![p] = <<>>]
  BY DEF Lines!read, Lines!Goto, Lines!Rest
<1>6. Requests' BY <1>1, <1>4, <1>5 DEF Requests
<1>7. Lines!SleepsForReason' BY <1>1, <1>2, <1>5 DEF Lines!SleepsForReason, Requests
<1>. QED BY <1>3, <1>6, <1>7 DEF LinesInv

LEMMA EmptyStep ==
    ASSUME Wheel, LinesInv, NEW p \in LReaders, Lines!consoleread_wait(p)
    PROVE  LinesInv' /\ Lines!KeepsLines
<1>1. Marks /\ Requests /\ Lines!SleepsForReason BY DEF LinesInv
<1>2. UNCHANGED <<cbuf, cr, cw, ce>> BY DEF Lines!consoleread_wait, Lines!cons
<1>3. Marks' /\ Lines!KeepsLines BY <1>1, <1>2, NothingTaken
<1>4. cdst' = cdst /\ cpc[p] = "read" /\ cr = cw BY DEF Lines!consoleread_wait
<1>5. CASE ckilled[p]
  <2>1. /\ cpc' = [cpc EXCEPT ![p] = "idle"] /\ cn' = [cn EXCEPT ![p] = 0]
        /\ cvalid' = [cvalid EXCEPT ![p] = 0]
    BY <1>5 DEF Lines!consoleread_wait, Lines!Goto, Lines!Rest
  <2>2. Requests' BY <1>1, <1>4, <2>1 DEF Requests
  <2>3. Lines!SleepsForReason' BY <1>2, <1>4 DEF Lines!SleepsForReason
  <2>. QED BY <1>3, <2>2, <2>3 DEF LinesInv
<1>6. CASE ~ckilled[p]
  <2>1. cpc' = [cpc EXCEPT ![p] = "asleep"] /\ cn' = cn /\ cvalid' = cvalid
    BY <1>6 DEF Lines!consoleread_wait, Lines!Goto, Lines!Rest
  <2>2. Requests' BY <1>1, <1>4, <2>1 DEF Requests
  <2>3. Lines!SleepsForReason' BY <1>2, <1>4 DEF Lines!SleepsForReason
  <2>. QED BY <1>3, <2>2, <2>3 DEF LinesInv
<1>. QED BY <1>5, <1>6

LEMMA EndStep ==
    ASSUME Wheel, LinesInv, NEW p \in LReaders, Lines!kill(p)
    PROVE  LinesInv' /\ Lines!KeepsLines
<1>1. Marks /\ Requests /\ Lines!SleepsForReason BY DEF LinesInv
<1>2. UNCHANGED <<cbuf, cr, cw, ce, cn, cvalid, cdst>>
  BY DEF Lines!kill, Lines!cons, Lines!call
<1>3. Marks' /\ Lines!KeepsLines BY <1>1, <1>2, NothingTaken
<1>4. cpc' = [cpc EXCEPT ![p] = IF cpc[p] = "asleep" THEN "read" ELSE cpc[p]]
  BY DEF Lines!kill, Lines!Goto
<1>5. /\ cpc' \in [LReaders -> {"idle", "read", "asleep"}]
      /\ \A q \in LReaders : cpc'[q] = "idle" <=> cpc[q] = "idle"
  BY <1>1, <1>4 DEF Requests
<1>6. Requests' BY <1>1, <1>2, <1>5, SameRequests
<1>7. Lines!SleepsForReason' BY <1>1, <1>2, <1>4 DEF Lines!SleepsForReason, Requests
<1>. QED BY <1>3, <1>6, <1>7 DEF LinesInv

(* A finite set of numbers has a least one.                                *)
LEMMA LeastExists ==
    ASSUME NEW S, IsFiniteSet(S), S \subseteq Int, S # {}
    PROVE  \E x \in S : \A y \in S : x <= y
<1>. DEFINE Below(x) == {y \in S : y < x}
            T == {Below(x) : x \in S}
            R == StrictSubsetOrdering(S)
<1>1. IsWellFoundedOn(R, SUBSET S)
  BY FS_StrictSubsetOrderingWellFounded, FS_FiniteSubsetsOfFinite
<1>2. T \subseteq SUBSET S /\ T # {} OBVIOUS
<1>3. \E x \in T : \A y \in T : ~ (<<y, x>> \in R)
  <2>. HIDE DEF R, T
  <2>. QED BY <1>1, <1>2, WFMin
<1>4. PICK x \in S : \A y \in S : <<Below(y), Below(x)>> \notin R BY <1>3
<1>5. ASSUME NEW y \in S, y < x PROVE FALSE
  <2>1. ASSUME NEW z \in Below(y) PROVE z \in Below(x)
    <3>1. z \in Int /\ y \in Int /\ x \in Int OBVIOUS
    <3>2. z < y OBVIOUS
    <3>. QED BY <3>1, <3>2, <1>5
  <2>2. y \in Below(x) /\ y \notin Below(y) BY <1>5
  <2>3. <<Below(y), Below(x)>> \in R BY <2>1, <2>2 DEF StrictSubsetOrdering
  <2>. QED BY <1>4, <2>3
<1>. QED BY <1>5

(* The first place where a reader stops.                                   *)
LEMMA TakeIs ==
    ASSUME NEW p, NEW h \in Nat \ {0}, Len(Lines!Committed) = h,
           NEW k, k = Lines!Take(p)
    PROVE  /\ k \in 1 .. h
           /\ \A i \in 1 .. k - 1 : ~Lines!Stops(p, i)
           /\ Lines!Stops(p, k) \/ k = h
<1>1. PICK x : x = {i \in 1 .. h : Lines!Stops(p, i)} OBVIOUS
<1>2. k = IF x = {} THEN h ELSE CHOOSE i \in x : \A j \in x : i <= j
  BY <1>1 DEF Lines!Take
<1>3. CASE x = {} BY <1>1, <1>2, <1>3
<1>4. CASE x # {}
  <2>1. IsFiniteSet(1 .. h) BY FS_Interval
  <2>2. IsFiniteSet(x) /\ x \subseteq Int BY <1>1, <2>1, FS_Subset
  <2>3. \E i \in x : \A j \in x : i <= j BY <1>4, <2>2, LeastExists
  <2>4. k \in x /\ \A j \in x : k <= j BY <1>2, <1>4, <2>3
  <2>5. ASSUME NEW i \in 1 .. k - 1 PROVE ~Lines!Stops(p, i)
    <3>1. k \in 1 .. h BY <1>1, <2>4
    <3>2. i \notin x BY <2>4, <3>1
    <3>. QED BY <1>1, <3>1, <3>2
  <2>. QED BY <1>1, <2>4, <2>5
<1>. QED BY <1>3, <1>4

(* The first j characters go to a reader.                                  *)
LEMMA RestIs ==
    ASSUME NEW S, NEW s \in Seq(S), NEW j \in Nat, j <= Len(s)
    PROVE  /\ SubSeq(s, j + 1, Len(s)) \in Seq(S)
           /\ Len(SubSeq(s, j + 1, Len(s))) = Len(s) - j
           /\ \A i \in 1 .. Len(s) - j : SubSeq(s, j + 1, Len(s))[i] = s[i + j]
OBVIOUS

LEMMA LinesShrink ==
    ASSUME Wheel, Marks, NEW j \in Nat, j <= Handed,
           cr' = Lines!Unsigned(cr + j), UNCHANGED <<cbuf, cw, ce>>
    PROVE  /\ Marks' /\ Handed' = Handed - j
           /\ Lines!Committed' = SubSeq(Lines!Committed, j + 1, Len(Lines!Committed))
<1>1. PICK h : h = Handed OBVIOUS
<1>2. PICK t : t = Typed OBVIOUS
<1>3. PICK a : a = cr' OBVIOUS
<1>4. h \in Nat /\ t \in Nat /\ h <= t /\ t <= LSIZE /\ j <= h /\ LSIZE \in Nat
  BY <1>1, <1>2, MarkTypes DEF Marks
<1>5. h = (cw - cr) % LUINT /\ t = (ce - cr) % LUINT /\ a = (cr + j) % LUINT
  BY <1>1, <1>2, <1>3 DEF Handed, Typed, Lines!Unsigned
<1>6. cr \in 0 .. LUINT - 1 /\ cw \in 0 .. LUINT - 1 /\ ce \in 0 .. LUINT - 1
  BY DEF Marks
<1>7. a \in 0 .. LUINT - 1 /\ (cw - a) % LUINT = h - j
  <2>1. j <= (cw - cr) % LUINT BY <1>4, <1>5
  <2>2. a \in 0 .. LUINT - 1 /\ (cw - a) % LUINT = ((cw - cr) % LUINT) - j
    BY <1>5, <1>6, <2>1, Nearer DEF Wheel
  <2>. QED BY <1>5, <2>2
<1>8. (ce - a) % LUINT = t - j
  <2>1. j <= t BY <1>4
  <2>2. j <= (ce - cr) % LUINT BY <1>5, <2>1
  <2>3. (ce - a) % LUINT = ((ce - cr) % LUINT) - j
    BY <1>5, <1>6, <2>2, Nearer DEF Wheel
  <2>. QED BY <1>5, <2>3
<1>9. Handed' = h - j /\ Typed' = t - j
  BY <1>3, <1>7, <1>8 DEF Handed, Typed, Lines!Unsigned
<1>10. Marks'
  <2>1. h - j <= t - j /\ t - j <= LSIZE BY <1>4
  <2>2. cbuf \in [0 .. LSIZE - 1 -> Signs] BY DEF Marks
  <2>. QED BY <1>3, <1>6, <1>7, <1>9, <2>1, <2>2 DEF Marks
<1>11. PICK q : q = Lines!Committed OBVIOUS
<1>12. /\ q = [i \in 1 .. h |-> cbuf[Place(cr, i, LUINT, LSIZE)]]
       /\ q \in Seq(Signs) /\ Len(q) = h
  BY <1>1, <1>11, LinesAre
<1>13. Lines!Committed' = [i \in 1 .. h - j |-> cbuf[Place(a, i, LUINT, LSIZE)]]
  BY <1>3, <1>9 DEF Lines!Committed, Lines!Between, Lines!Unsigned, Handed, Place
<1>14. ASSUME NEW i \in 1 .. h - j
       PROVE  cbuf[Place(a, i, LUINT, LSIZE)] = q[i + j]
  <2>1. cr \in Int /\ j \in Int /\ i \in Int BY <1>4, MarkTypes
  <2>2. Place(a, i, LUINT, LSIZE) = Place(cr, j + i, LUINT, LSIZE)
    BY <1>5, <2>1, SamePlace DEF Wheel
  <2>3. i + j \in 1 .. h /\ j + i = i + j BY <1>4
  <2>. QED BY <1>12, <2>2, <2>3
<1>15. PICK g : g = SubSeq(q, j + 1, Len(q)) OBVIOUS
<1>16. g \in Seq(Signs) /\ Len(g) = h - j /\ \A i \in 1 .. h - j : g[i] = q[i + j]
  <2>1. q \in Seq(Signs) /\ Len(q) = h BY <1>12
  <2>. QED BY <1>4, <1>15, <2>1, RestIs
<1>17. Lines!Committed' = g BY <1>13, <1>14, <1>16
<1>. QED BY <1>1, <1>9, <1>10, <1>11, <1>15, <1>17

LEMMA ConsolereadStep ==
    ASSUME Wheel, LinesInv, NEW p \in LReaders, Lines!consoleread(p)
    PROVE  LinesInv' /\ Lines!KeepsLines
<1>1. Marks /\ Requests /\ Lines!SleepsForReason BY DEF LinesInv
<1>2. UNCHANGED <<cbuf, cw, ce>> /\ cpc[p] = "read" /\ cr # cw BY DEF Lines!consoleread
<1>3. PICK h : h = Handed OBVIOUS
<1>4. PICK q : q = Lines!Committed OBVIOUS
<1>5. h \in Nat \ {0} /\ LUINT \in Nat \ {0} /\ cr \in 0 .. LUINT - 1 /\ cw \in 0 .. LUINT - 1
  <2>1. h \in Nat /\ LUINT \in Nat \ {0} BY <1>1, <1>3, MarkTypes
  <2>2. cr \in 0 .. LUINT - 1 /\ cw \in 0 .. LUINT - 1 BY <1>1 DEF Marks
  <2>3. ASSUME h = 0 PROVE FALSE
    <3>1. cw = (cr + h) % LUINT BY <1>1, <1>3, MarksAre
    <3>2. cr + h = cr /\ cr % LUINT = cr BY <2>1, <2>2, <2>3, SmallRemainder
    <3>. QED BY <1>2, <3>1, <3>2
  <2>. QED BY <2>1, <2>2, <2>3
<1>6. q \in Seq(Signs) /\ Len(q) = h BY <1>1, <1>3, <1>4, LinesAre
<1>7. PICK k : k = Lines!Take(p) OBVIOUS
<1>8. /\ k \in 1 .. h /\ \A i \in 1 .. k - 1 : ~Lines!Stops(p, i)
      /\ Lines!Stops(p, k) \/ k = h
  BY <1>4, <1>5, <1>6, <1>7, TakeIs
<1>9. \A i \in 1 .. h : Lines!Stops(p, i) <=>
        q[i] \in {"nl", "eof"} \/ i = cn[p] \/ i = cvalid[p] + 1
  BY <1>4 DEF Lines!Stops
<1>10. cn[p] \in Nat \ {0} /\ cvalid[p] \in Nat
  <2>1. cn \in [LReaders -> Nat] /\ cvalid \in [LReaders -> Nat] BY <1>1 DEF Requests
  <2>2. cpc[p] # "idle" => cn[p] > 0 BY <1>1 DEF Requests
  <2>3. cn[p] > 0 BY <1>2, <2>2
  <2>. QED BY <2>1, <2>3
<1>11. PICK m : m = IF q[k] = "eof" \/ k > cvalid[p] THEN k - 1 ELSE k OBVIOUS
<1>12. m \in Nat /\ m <= k /\ m <= h BY <1>5, <1>8, <1>11
<1>13. PICK g : g = SubSeq(q, 1, m) OBVIOUS
<1>14. g \in Seq(Signs) /\ Len(g) = m /\ \A i \in 1 .. m : g[i] = q[i]
  BY <1>5, <1>6, <1>12, <1>13
<1>15. PICK d : d = cdst[p] OBVIOUS
<1>16. d \in Seq(Signs) /\ \A i \in 1 .. Len(d) : d[i] \notin {"nl", "eof"}
  BY <1>1, <1>2, <1>15 DEF Requests
<1>17. cdst' = [cdst EXCEPT ![p] = d \o g]
  BY <1>4, <1>7, <1>11, <1>13, <1>15 DEF Lines!consoleread, Lines!Kept
<1>18. PICK z : z = d \o g OBVIOUS
<1>19. /\ z \in Seq(Signs) /\ Len(z) = Len(d) + m
       /\ \A i \in 1 .. Len(d) + m : z[i] = IF i <= Len(d) THEN d[i] ELSE g[i - Len(d)]
  <2>1. /\ d \o g \in Seq(Signs) /\ Len(d \o g) = Len(d) + Len(g)
        /\ \A i \in 1 .. Len(d) + Len(g) :
             (d \o g)[i] = IF i <= Len(d) THEN d[i] ELSE g[i - Len(d)]
    BY <1>14, <1>16, ConcatProperties
  <2>. QED BY <1>14, <1>18, <2>1
<1>20. cdst' = [cdst EXCEPT ![p] = z] BY <1>17, <1>18
<1>21. cdst'[p] = z BY <1>1, <1>20 DEF Requests
<1>22. ASSUME NEW i \in 1 .. Len(z)
       PROVE  /\ z[i] # "eof"
              /\ z[i] = "nl" => i = Len(z) /\ Lines!Stops(p, k)
  <2>1. Len(d) \in Nat BY <1>16
  <2>2. CASE i <= Len(d)
    <3>1. i \in 1 .. Len(d) /\ z[i] = d[i] BY <1>12, <1>19, <2>1, <2>2
    <3>. QED BY <1>16, <3>1
  <2>3. CASE ~(i <= Len(d))
    <3>1. PICK x : x = i - Len(d) OBVIOUS
    <3>2. x \in 1 .. m /\ z[i] = q[x] BY <1>12, <1>14, <1>19, <2>1, <2>3, <3>1
    <3>3. CASE x < k
      <4>1. x \in 1 .. k - 1 /\ x \in 1 .. h BY <1>5, <1>8, <1>12, <3>2, <3>3
      <4>. QED BY <1>8, <1>9, <3>2, <4>1
    <3>4. CASE x = k
      <4>1. m = k /\ q[k] # "eof" BY <1>8, <1>11, <1>12, <3>2, <3>4
      <4>2. i = Len(z) BY <1>19, <2>1, <3>1, <3>4, <4>1
      <4>3. q[k] = "nl" => Lines!Stops(p, k) BY <1>8, <1>9
      <4>. QED BY <3>2, <3>4, <4>1, <4>2, <4>3
    <3>. QED BY <1>8, <1>12, <3>2, <3>3, <3>4
  <2>. QED BY <2>2, <2>3
<1>23. PICK saved \in BOOLEAN : saved <=> (q[k] = "eof" /\ z # <<>>) OBVIOUS
<1>24. PICK j : j = IF saved THEN k - 1 ELSE k OBVIOUS
<1>25. cr' = Lines!Unsigned(cr + j)
  BY <1>4, <1>7, <1>21, <1>23, <1>24 DEF Lines!consoleread
<1>26. j \in Nat /\ j <= h BY <1>5, <1>8, <1>24
<1>27. Marks' /\ Handed' = h - j /\ Lines!Committed' = SubSeq(q, j + 1, Len(q))
  BY <1>1, <1>2, <1>3, <1>4, <1>25, <1>26, LinesShrink
<1>28. ASSUME Lines!Stops(p, k) \/ ckilled[p]
       PROVE  Requests' /\ Lines!SleepsForReason'
  <2>1. /\ cpc' = [cpc EXCEPT ![p] = "idle"] /\ cn' = [cn EXCEPT ![p] = 0]
        /\ cvalid' = [cvalid EXCEPT ![p] = 0]
    BY <1>7, <1>28 DEF Lines!consoleread, Lines!Goto, Lines!Rest
  <2>2. Requests' BY <1>1, <1>19, <1>20, <1>22, <2>1 DEF Requests
  <2>3. Lines!SleepsForReason' BY <1>1, <1>2, <2>1 DEF Requests, Lines!SleepsForReason
  <2>. QED BY <2>2, <2>3
<1>29. ASSUME ~(Lines!Stops(p, k) \/ ckilled[p])
       PROVE  Requests' /\ Lines!SleepsForReason'
  <2>1. /\ cpc' = [cpc EXCEPT ![p] = "asleep"] /\ cn' = [cn EXCEPT ![p] = cn[p] - k]
        /\ cvalid' = [cvalid EXCEPT ![p] = cvalid[p] - k]
    BY <1>7, <1>29 DEF Lines!consoleread, Lines!Goto, Lines!Rest
  <2>2. \A i \in 1 .. k : i # cn[p] /\ i # cvalid[p] + 1
    <3>1. ASSUME NEW i \in 1 .. k PROVE ~Lines!Stops(p, i) /\ i \in 1 .. h
      BY <1>8, <1>29
    <3>. QED BY <1>9, <3>1
  <2>3. cn[p] - k \in Nat \ {0} /\ cvalid[p] - k \in Nat
    BY <1>5, <1>8, <1>10, <2>2
  <2>4. Requests' BY <1>1, <1>19, <1>20, <1>22, <1>29, <2>1, <2>3 DEF Requests
  <2>5. j = h
    <3>1. k = h /\ q[k] # "eof" BY <1>8, <1>9, <1>29
    <3>. QED BY <1>23, <1>24, <3>1
  <2>6. cr' = cw'
    <3>1. PICK a : a = cr' OBVIOUS
    <3>2. (cw - a) % LUINT = 0
      BY <1>2, <1>5, <1>27, <2>5, <3>1 DEF Handed, Lines!Unsigned
    <3>3. a \in 0 .. LUINT - 1 BY <1>27, <3>1 DEF Marks
    <3>4. cw = (a + ((cw - a) % LUINT)) % LUINT BY <1>5, <3>3, DistanceBack
    <3>5. a + 0 = a /\ a % LUINT = a BY <1>5, <3>3, SmallRemainder
    <3>. QED BY <1>2, <3>1, <3>2, <3>4, <3>5
  <2>7. Lines!SleepsForReason' BY <2>6 DEF Lines!SleepsForReason
  <2>. QED BY <2>4, <2>7
<1>30. Lines!KeepsLines
  <2>1. CASE j = 0
    <3>1. cr' = cr
      <4>1. cr + j = cr /\ cr % LUINT = cr BY <1>5, <2>1, SmallRemainder
      <4>. QED BY <1>25, <4>1 DEF Lines!Unsigned
    <3>2. Handed' = h BY <1>5, <1>27, <2>1
    <3>3. Lines!HandedOver BY <1>1, <1>2, <1>3, <1>5, <1>27, <3>1, <3>2, HandedOverIs
    <3>. QED BY <3>3 DEF Lines!KeepsLines
  <2>2. CASE j # 0
    <3>1. j \in 1 .. Len(q) BY <1>6, <1>26, <2>2
    <3>2. cdst'[p] = d \o SubSeq(q, 1, m) BY <1>13, <1>18, <1>21
    <3>3. CASE m = j
      <4>1. cdst'[p] = cdst[p] \o SubSeq(q, 1, j) BY <1>15, <3>2, <3>3
      <4>2. Lines!Given(p) BY <1>4, <1>27, <3>1, <4>1 DEF Lines!Given
      <4>. QED BY <4>2 DEF Lines!KeepsLines
    <3>4. CASE m # j
      <4>1. ~saved /\ j = k /\ m = j - 1 BY <1>8, <1>11, <1>23, <1>24, <3>4
      <4>2. cdst'[p] = cdst[p] \o SubSeq(q, 1, j - 1) BY <1>15, <3>2, <4>1
      <4>3. IF q[j] = "eof" THEN cdst'[p] = <<>> ELSE cvalid[p] = j - 1
        <5>1. CASE q[j] = "eof" BY <1>21, <1>23, <4>1, <5>1
        <5>2. CASE q[j] # "eof"
          <6>1. k > cvalid[p] BY <1>11, <4>1, <5>2, <1>8
          <6>2. ASSUME cvalid[p] + 1 < k PROVE FALSE
            <7>1. cvalid[p] + 1 \in 1 .. k - 1 /\ cvalid[p] + 1 \in 1 .. h
              BY <1>5, <1>8, <1>10, <6>2
            <7>. QED BY <1>8, <1>9, <7>1
          <6>3. cvalid[p] = k - 1 BY <1>8, <1>10, <6>1, <6>2
          <6>. QED BY <4>1, <5>2, <6>3
        <5>. QED BY <5>1, <5>2
      <4>4. Lines!Given(p) BY <1>4, <1>27, <3>1, <4>2, <4>3 DEF Lines!Given
      <4>. QED BY <4>4 DEF Lines!KeepsLines
    <3>. QED BY <3>3, <3>4
  <2>. QED BY <2>1, <2>2
<1>. QED BY <1>27, <1>28, <1>29, <1>30 DEF LinesInv

LEMMA LinesInit ==
    ASSUME Wheel, Lines!Init
    PROVE  LinesInv
<1>1. LUINT \in Nat \ {0} /\ LSIZE \in Nat \ {0} BY DEF Wheel, Wraps
<1>2. Handed = 0 /\ Typed = 0
  <2>1. cw - cr = 0 /\ ce - cr = 0 BY DEF Lines!Init
  <2>2. 0 % LUINT = 0 BY <1>1, SmallRemainder
  <2>. QED BY <2>1, <2>2 DEF Handed, Typed, Lines!Unsigned
<1>3. Marks BY <1>1, <1>2 DEF Lines!Init, Marks, Signs
<1>4. Requests BY DEF Lines!Init, Requests
<1>5. Lines!SleepsForReason BY DEF Lines!Init, Lines!SleepsForReason
<1>. QED BY <1>3, <1>4, <1>5 DEF LinesInv

LEMMA LinesStep ==
    ASSUME Lines!ConsoleConstants, LinesInv, [Lines!Next]_Lines!vars
    PROVE  LinesInv' /\ [Lines!KeepsLines]_Lines!vars
<1>1. Wheel BY LineConstants
<1>2. CASE UNCHANGED Lines!vars
  <2>1. Marks /\ Requests /\ Lines!SleepsForReason BY DEF LinesInv
  <2>2. UNCHANGED <<cbuf, cr, cw, ce, cpc, cn, cvalid, cdst>>
    BY <1>2 DEF Lines!vars, Lines!cons, Lines!call
  <2>3. Marks' BY <1>1, <2>1, <2>2, NothingTaken
  <2>. QED BY <1>2, <2>1, <2>2, <2>3 DEF LinesInv, Requests, Lines!SleepsForReason
<1>3. CASE Lines!Next
  BY <1>1, <1>3, KeyStep, BackspaceStep, KillLineStep, ConsolereadStep, EmptyStep,
     EndStep, BeginStep
    DEF Lines!Next
<1>. QED BY <1>2, <1>3

(* What the user has finished is kept and goes to the readers in order,    *)
(* whatever is typed meanwhile (`w' never passes `e' in kernel/console.c,  *)
(* nor comes back), no reader gets more than one line, and none sleeps     *)
(* while there is something for it.                                        *)
THEOREM LinesKept ==
    Lines!ConsoleConstants =>
      (Lines!Spec =>
          [][Lines!KeepsLines]_Lines!vars /\ [](Lines!OneLine /\ Lines!SleepsForReason))
<1>. SUFFICES ASSUME Lines!ConsoleConstants
              PROVE  Lines!Spec => [][Lines!KeepsLines]_Lines!vars
                                   /\ [](Lines!OneLine /\ Lines!SleepsForReason)
  OBVIOUS
<1>1. Lines!Init => LinesInv BY LineConstants, LinesInit
<1>2. LinesInv /\ [Lines!Next]_Lines!vars => LinesInv' /\ [Lines!KeepsLines]_Lines!vars
  BY LinesStep
<1>3. LinesInv => Lines!OneLine /\ Lines!SleepsForReason
  BY DEF LinesInv, Requests, Lines!OneLine
<1>. QED BY <1>1, <1>2, <1>3, PTL DEF Lines!Spec
-------------------------------------------------------------------------------
(* The uart.                                                               *)
CONSTANTS UWriters, UBytes, Echo, USIZE, UUINT, FIFO
VARIABLES tx_r, tx_w, tx_buf, lock, go, byte, asleep, echoing, thr, irq, sent

Serial == INSTANCE Uart WITH
    Writers <- UWriters, Bytes <- UBytes, SIZE <- USIZE, UINT <- UUINT, intr <- irq

(* What is left of one byte and of two when the echo is taken out.         *)
OneOf(s) == IF s[1] = Echo THEN <<>> ELSE <<s[1]>>
TwoOf(s) == IF s[2] = Echo THEN OneOf(s) ELSE Append(OneOf(s), s[2])

(* The device never has more than two bytes at once: few cases.            *)
LEMMA UsersAre ==
    ASSUME NEW s, Len(s) \in 0 .. 2
    PROVE  Serial!OfUsers(s) = IF Len(s) = 0 THEN <<>>
                               ELSE IF Len(s) = 1 THEN OneOf(s) ELSE TwoOf(s)
<1>1. PICK one : one = OneOf(s) OBVIOUS
<1>2. PICK two : two = TwoOf(s) OBVIOUS
<1>3. PICK l \in 0 .. 2 : l = Len(s) OBVIOUS
<1>. DEFINE D(g) == [k \in 0 .. l |->
              IF k = 0 THEN <<>>
              ELSE IF s[k] = Echo THEN g[k - 1] ELSE Append(g[k - 1], s[k])]
            h == [k \in 0 .. l |-> IF k = 0 THEN <<>> ELSE IF k = 1 THEN one ELSE two]
            f == CHOOSE g : g = D(g)
<1>4. one = IF s[1] = Echo THEN <<>> ELSE Append(<<>>, s[1]) BY <1>1 DEF OneOf
<1>5. two = IF s[2] = Echo THEN one ELSE Append(one, s[2]) BY <1>1, <1>2 DEF TwoOf
<1>6. h = D(h)
  <2>1. ASSUME NEW k \in 0 .. l
        PROVE  h[k] = IF k = 0 THEN <<>>
                      ELSE IF s[k] = Echo THEN h[k - 1] ELSE Append(h[k - 1], s[k])
    <3>1. h[0] = <<>> OBVIOUS
    <3>2. l >= 1 => h[1] = one BY <1>3
    <3>3. l = 2 => h[2] = two BY <1>3
    <3>. HIDE DEF h
    <3>4. CASE k = 0 BY <3>1, <3>4
    <3>5. CASE k = 1
      <4>1. k - 1 = 0 /\ l >= 1 BY <1>3, <3>5
      <4>. QED BY <1>4, <3>1, <3>2, <3>5, <4>1
    <3>6. CASE k = 2 BY <1>3, <1>5, <3>2, <3>3, <3>6
    <3>. QED BY <1>3, <3>4, <3>5, <3>6
  <2>2. h = [k \in 0 .. l |-> h[k]] OBVIOUS
  <2>. HIDE DEF h
  <2>. QED BY <2>1, <2>2
<1>7. f = D(f)
  <2>. HIDE DEF h, D
  <2>. QED BY <1>6
<1>8. Serial!OfUsers(s) = f[l] BY <1>3 DEF Serial!OfUsers
<1>. HIDE DEF f
<1>9. \A k \in 0 .. l : f[k] = IF k = 0 THEN <<>>
          ELSE IF s[k] = Echo THEN f[k - 1] ELSE Append(f[k - 1], s[k])
  BY <1>7
<1>. HIDE DEF D, h
<1>10. f[0] = <<>> BY <1>3, <1>9
<1>11. l >= 1 => f[1] = one
  <2>1. ASSUME l >= 1 PROVE f[1] = IF s[1] = Echo THEN f[0] ELSE Append(f[0], s[1])
    <3>1. 1 \in 0 .. l /\ 1 - 1 = 0 BY <1>3, <2>1
    <3>. QED BY <1>9, <3>1
  <2>. QED BY <1>4, <1>10, <2>1
<1>12. l = 2 => f[2] = two
  <2>1. ASSUME l = 2 PROVE f[2] = IF s[2] = Echo THEN f[1] ELSE Append(f[1], s[2])
    <3>1. 2 \in 0 .. l /\ 2 - 1 = 1 BY <2>1
    <3>. QED BY <1>9, <3>1
  <2>. QED BY <1>3, <1>5, <1>11, <2>1
<1>. QED BY <1>1, <1>2, <1>3, <1>8, <1>10, <1>11, <1>12

LEMMA UsersEmpty == Serial!OfUsers(<<>>) = <<>>
BY UsersAre

LEMMA UsersAppend ==
    ASSUME NEW S, NEW s \in Seq(S), Len(s) \in 0 .. 1, NEW c \in S
    PROVE  Serial!OfUsers(Append(s, c)) =
             IF c = Echo THEN Serial!OfUsers(s) ELSE Append(Serial!OfUsers(s), c)
<1>1. PICK t : t = Append(s, c) OBVIOUS
<1>2. /\ Len(s) \in 0 .. 1 /\ Len(t) = Len(s) + 1 /\ t[Len(t)] = c
      /\ Len(s) = 1 => t[1] = s[1]
  <2>2. /\ t \in Seq(S) /\ Len(t) = Len(s) + 1
        /\ \A i \in 1 .. Len(s) : t[i] = s[i]
        /\ t[Len(s) + 1] = c
    BY <1>1, AppendProperties
  <2>3. t[Len(t)] = c BY <2>2
  <2>4. ASSUME Len(s) = 1 PROVE t[1] = s[1]
    <3>1. 1 \in 1 .. Len(s) BY <2>4
    <3>. QED BY <2>2, <3>1
  <2>5. Len(t) = Len(s) + 1 BY <2>2
  <2>7. Len(s) = 1 => t[1] = s[1] BY <2>4
  <2>. QED BY <2>3, <2>5, <2>7
<1>3. CASE Len(s) = 0
  <2>1. Serial!OfUsers(s) = <<>> BY <1>3, UsersAre
  <2>2. Serial!OfUsers(t) = OneOf(t) BY <1>2, <1>3, UsersAre
  <2>. QED BY <1>1, <1>2, <1>3, <2>1, <2>2 DEF OneOf
<1>4. CASE Len(s) = 1
  <2>1. Serial!OfUsers(s) = OneOf(s) BY <1>4, UsersAre
  <2>2. Serial!OfUsers(t) = TwoOf(t) BY <1>2, <1>4, UsersAre
  <2>3. OneOf(t) = OneOf(s) /\ t[2] = c BY <1>2, <1>4 DEF OneOf
  <2>. QED BY <1>1, <2>1, <2>2, <2>3 DEF TwoOf
<1>. QED BY <1>2, <1>3, <1>4

LEMMA SmallSequences ==
    ASSUME NEW S, NEW a \in S, NEW b \in S
    PROVE  /\ <<a>> \o <<>> = <<a>> /\ Append(<<>>, a) = <<a>>
           /\ <<a>> \o <<b>> = Append(<<a>>, b)
OBVIOUS

LEMMA UsersTail ==
    ASSUME NEW S, NEW s \in Seq(S), Len(s) \in 1 .. 2
    PROVE  Serial!OfUsers(s) =
             IF s[1] = Echo THEN Serial!OfUsers(Tail(s))
             ELSE <<s[1]>> \o Serial!OfUsers(Tail(s))
<1>1. PICK t : t = Tail(s) OBVIOUS
<1>2. Len(t) = Len(s) - 1 /\ (Len(s) = 2 => t[1] = s[2]) BY <1>1
<1>3. CASE Len(s) = 1
  <2>1. Serial!OfUsers(s) = OneOf(s) BY <1>3, UsersAre
  <2>2. Serial!OfUsers(t) = <<>> BY <1>2, <1>3, UsersAre
  <2>3. <<s[1]>> \o <<>> = <<s[1]>> OBVIOUS
  <2>. QED BY <1>1, <2>1, <2>2, <2>3 DEF OneOf
<1>4. CASE Len(s) = 2
  <2>1. Serial!OfUsers(s) = TwoOf(s) BY <1>4, UsersAre
  <2>2. Serial!OfUsers(t) = OneOf(t) BY <1>2, <1>4, UsersAre
  <2>3. OneOf(t) = IF s[2] = Echo THEN <<>> ELSE <<s[2]>> BY <1>2, <1>4 DEF OneOf
  <2>4. s[1] \in S /\ s[2] \in S BY <1>4, ElementOfSeq
  <2>5. <<s[1]>> \o <<>> = <<s[1]>> BY <2>4, SmallSequences
  <2>6. <<s[1]>> \o <<s[2]>> = Append(<<s[1]>>, s[2]) BY <2>4, SmallSequences
  <2>7. Append(<<>>, s[2]) = <<s[2]>> BY <2>4, SmallSequences
  <2>. QED BY <1>1, <2>1, <2>2, <2>3, <2>5, <2>6, <2>7 DEF TwoOf, OneOf
<1>. QED BY <1>3, <1>4

(* A byte moves from the buffer to the device, behind the buffer, away.    *)
LEMMA ByteSent ==
    ASSUME NEW S, NEW x \in Seq(S), NEW y \in Seq(S), y # <<>>
    PROVE  Append(x, y[1]) \o Tail(y) = x \o y
<1>1. Len(y) \in Nat \ {0} BY EmptySeq, LenProperties
<1>2. y[1] \in S BY <1>1, ElementOfSeq
<1>3. <<y[1]>> \in Seq(S) /\ Tail(y) \in Seq(S) BY <1>2, HeadTailProperties
<1>4. y = <<y[1]>> \o Tail(y)
  <2>1. SubSeq(y, 1, Len(y)) = <<y[1]>> \o SubSeq(y, 1 + 1, Len(y))
    <3>1. 1 \in 1 .. Len(y) /\ Len(y) \in 1 .. Len(y) BY <1>1
    <3>. QED BY <3>1, SubSeqRecursiveFirst
  <2>2. Tail(y) = SubSeq(y, 2, Len(y)) BY TailIsSubSeq
  <2>3. SubSeq(y, 1, Len(y)) = y BY SubSeqFull
  <2>. QED BY <2>1, <2>2, <2>3
<1>5. Append(x, y[1]) = x \o <<y[1]>> BY <1>2, AppendIsConcat
<1>6. (x \o <<y[1]>>) \o Tail(y) = x \o (<<y[1]>> \o Tail(y)) BY <1>3, ConcatAssociative
<1>. QED BY <1>4, <1>5, <1>6

LEMMA BytePut ==
    ASSUME NEW S, NEW x \in Seq(S), NEW y \in Seq(S), NEW c \in S
    PROVE  x \o Append(y, c) = (x \o y) \o <<c>>
<1>1. <<c>> \in Seq(S) OBVIOUS
<1>2. y \o <<c>> = Append(y, c) BY AppendIsConcat
<1>. QED BY SMTT(30), <1>1, <1>2, ConcatAssociative

LEMMA ByteGone ==
    ASSUME NEW S, NEW c \in S, NEW z \in Seq(S)
    PROVE  /\ Len(<<c>> \o z) = 1 + Len(z) /\ SubSeq(<<c>> \o z, 1, 1) = <<c>>
           /\ SubSeq(<<c>> \o z, 2, Len(<<c>> \o z)) = z
<1>1. PICK q : q = <<c>> \o z OBVIOUS
<1>2. z \in Seq(S) /\ <<c>> \in Seq(S) /\ Len(z) \in Nat /\ Len(<<c>>) = 1
  BY LenProperties
<1>3. q = <<c>> \o z BY <1>1
<1>4. Len(q) = 1 + Len(z) BY <1>2, <1>3, ConcatProperties
<1>5. SubSeq(q, 1, 1) = <<c>>
  <2>1. SubSeq(<<c>> \o z, 1, 1) = SubSeq(<<c>>, 1, 1)
    <3>1. 1 \in 1 .. Len(<<c>>) BY <1>2
    <3>. QED BY <1>2, <3>1, SubSeqOfConcat1
  <2>2. SubSeq(<<c>>, 1, Len(<<c>>)) = <<c>> BY <1>2, SubSeqFull
  <2>. QED BY <1>2, <1>3, <2>1, <2>2
<1>6. SubSeq(q, 2, Len(q)) = z
  <2>1. CASE Len(z) = 0
    <3>1. SubSeq(q, 2, Len(q)) = <<>> BY <1>4, <2>1, SubSeqEmpty
    <3>2. z = <<>> BY <1>2, <2>1, EmptySeq
    <3>. QED BY <3>1, <3>2
  <2>2. CASE Len(z) # 0
    <3>1. PICK k : k = Len(z) OBVIOUS
    <3>2. k \in Nat \ {0} BY <1>2, <2>2, <3>1
    <3>3. SubSeq(<<c>> \o z, 2, 1 + k) = SubSeq(z, 2 - Len(<<c>>), (1 + k) - Len(<<c>>))
      <4>1. 2 \in Len(<<c>>) + 1 .. Len(<<c>>) + Len(z)
        BY <1>2, <3>1, <3>2
      <4>2. 1 + k \in Len(<<c>>) + 1 .. Len(<<c>>) + Len(z)
        BY <1>2, <3>1, <3>2
      <4>. QED BY <1>2, <4>1, <4>2, SubSeqOfConcat2
    <3>4. 2 - Len(<<c>>) = 1 /\ (1 + k) - Len(<<c>>) = k BY <1>2, <3>2
    <3>5. SubSeq(z, 1, Len(z)) = z BY <1>2, SubSeqFull
    <3>. QED BY <1>3, <1>4, <3>1, <3>3, <3>4, <3>5
  <2>. QED BY <2>1, <2>2
<1>. QED BY <1>1, <1>4, <1>5, <1>6

Drum == Wraps(UUINT, USIZE)
Unsent == (tx_w - tx_r) % UUINT
InBuffer == [i \in 1 .. Unsent |-> tx_buf[Place(tx_r, i, UUINT, USIZE)]]
Printed == UBytes \cup {Echo}

(* What is in the buffer comes from writers.  Whoever has found the        *)
(* transmitter idle, uartstart() or uartputc_sync(), may have one byte in  *)
(* the device before its own, the other's, and none if both have: a third  *)
(* is not possible, and neither drops a byte.                              *)
Buffered ==
    /\ tx_r \in 0 .. UUINT - 1 /\ tx_w \in 0 .. UUINT - 1
    /\ Unsent \in 0 .. USIZE
    /\ DOMAIN tx_buf = 0 .. USIZE - 1
    /\ \A i \in 1 .. Unsent : tx_buf[Place(tx_r, i, UUINT, USIZE)] \in UBytes
OnTheLine ==
    /\ byte \in [UWriters -> UBytes \cup {None}]
    /\ go \in BOOLEAN /\ echoing \in BOOLEAN
    /\ thr \in Seq(Printed) /\ Len(thr) \in 0 .. 2
    /\ go => lock # None /\ Unsent # 0
    /\ go \/ echoing => Len(thr) \in 0 .. 1
    /\ go /\ echoing => Len(thr) = 0
SerialInv == Buffered /\ OnTheLine /\ Serial!SleepsForReason

LineGot == [p \in {"line"} |-> IF sent = None THEN None
                               ELSE [bytes |-> <<sent>>, cut |-> FALSE]]
LineStep == [Serial!Line!FifoNext]_<<Serial!Queue, TRUE, LineGot>>

LEMMA SerialConstants == Serial!UartConstants =>
    Drum /\ Echo \notin UBytes /\ None \notin UBytes
BY DEF Serial!UartConstants, Drum, Wraps

LEMMA InBufferIs ==
    ASSUME Drum, Buffered
    PROVE  /\ InBuffer \in Seq(UBytes) /\ Len(InBuffer) = Unsent
           /\ UUINT \in Nat \ {0} /\ USIZE \in Nat \ {0} /\ tx_r \in Int /\ tx_w \in Int
           /\ Unsent \in Nat
BY DEF Drum, Wraps, Buffered, InBuffer

LEMMA QueueIs ==
    ASSUME Drum, Buffered
    PROVE  Serial!Queue = Serial!OfUsers(thr) \o InBuffer
<1>1. PICK c : c = Unsent OBVIOUS
<1>2. PICK u : u = Serial!OfUsers(thr) OBVIOUS
<1>3. c \in Nat /\ tx_r \in Int BY <1>1, InBufferIs
<1>4. Serial!Queue = u \o [i \in 1 .. c |-> tx_buf[(tx_r + i - 1) % USIZE]]
  BY <1>1, <1>2 DEF Serial!Queue, Unsent
<1>5. InBuffer = [i \in 1 .. c |-> tx_buf[Place(tx_r, i, UUINT, USIZE)]]
  BY <1>1 DEF InBuffer
<1>6. \A i \in 1 .. c : Place(tx_r, i, UUINT, USIZE) = (tx_r + i - 1) % USIZE
  <2>1. ASSUME NEW i \in 1 .. c
        PROVE  Place(tx_r, i, UUINT, USIZE) = (tx_r + i - 1) % USIZE
    <3>1. i \in Int BY <1>3
    <3>. QED BY <1>3, <3>1, PlaceIs DEF Drum
  <2>. QED BY <2>1
<1>7. [i \in 1 .. c |-> tx_buf[Place(tx_r, i, UUINT, USIZE)]]
        = [i \in 1 .. c |-> tx_buf[(tx_r + i - 1) % USIZE]]
  BY <1>6
<1>. QED BY <1>2, <1>4, <1>5, <1>7

LEMMA OneType ==
    ASSUME NEW s, s[1] \in Printed
    PROVE  OneOf(s) \in Seq(UBytes) /\ Len(OneOf(s)) \in 0 .. 1
<1>1. CASE s[1] = Echo
  <2>1. OneOf(s) = <<>> BY <1>1 DEF OneOf
  <2>. QED BY <2>1
<1>2. CASE s[1] # Echo
  <2>1. s[1] \in UBytes BY <1>2 DEF Printed
  <2>2. OneOf(s) = <<s[1]>> BY <1>2 DEF OneOf
  <2>. QED BY <2>1, <2>2
<1>. QED BY <1>1, <1>2

LEMMA UsersType ==
    ASSUME NEW s \in Seq(Printed), Len(s) \in 0 .. 2
    PROVE  Serial!OfUsers(s) \in Seq(UBytes) /\ Len(Serial!OfUsers(s)) \in 0 .. 2
<1>1. CASE Len(s) = 0
  <2>1. Serial!OfUsers(s) = <<>> BY <1>1, UsersAre
  <2>. QED BY <2>1
<1>2. CASE Len(s) = 1
  <2>1. s[1] \in Printed BY <1>2, ElementOfSeq
  <2>2. PICK o : o = OneOf(s) OBVIOUS
  <2>3. o \in Seq(UBytes) /\ Len(o) \in 0 .. 1 BY <2>1, <2>2, OneType
  <2>4. Serial!OfUsers(s) = o BY <1>2, <2>2, UsersAre
  <2>. QED BY <2>3, <2>4
<1>3. CASE Len(s) = 2
  <2>1. s[1] \in Printed /\ s[2] \in Printed BY <1>3, ElementOfSeq
  <2>2. PICK o : o = OneOf(s) OBVIOUS
  <2>3. o \in Seq(UBytes) /\ Len(o) \in 0 .. 1 BY <2>1, <2>2, OneType
  <2>4. PICK u : u = TwoOf(s) OBVIOUS
  <2>7. Serial!OfUsers(s) = u
    <3>1. Len(s) \in 0 .. 2 /\ Len(s) # 0 /\ Len(s) # 1 BY <1>3
    <3>. QED BY <2>4, <3>1, UsersAre
  <2>5. CASE s[2] = Echo
    <3>1. Serial!OfUsers(s) = o BY <2>2, <2>4, <2>5, <2>7 DEF TwoOf
    <3>. QED BY <2>3, <3>1
  <2>6. CASE s[2] # Echo
    <3>1. PICK x \in UBytes : x = s[2] BY <2>1, <2>6 DEF Printed
    <3>2. PICK t : t = Append(o, x) OBVIOUS
    <3>3. t \in Seq(UBytes) /\ Len(t) = Len(o) + 1 BY <2>3, <3>1, <3>2, AppendProperties
    <3>4. Serial!OfUsers(s) = t BY <2>2, <2>4, <2>6, <2>7, <3>1, <3>2 DEF TwoOf
    <3>5. Len(t) \in 0 .. 2
      <4>1. PICK l \in 0 .. 1 : l = Len(o) BY <2>3
      <4>2. l + 1 \in 0 .. 2 BY <4>1
      <4>. QED BY <3>3, <4>1, <4>2
    <3>. QED BY <3>3, <3>4, <3>5
  <2>. QED BY <2>5, <2>6
<1>. QED BY <1>1, <1>2, <1>3

LEMMA QueuePrimed ==
    ASSUME Drum, Buffered'
    PROVE  Serial!Queue' = (Serial!OfUsers(thr) \o InBuffer)'
<1>1. PICK c : c = Unsent' OBVIOUS
<1>2. PICK u : u = Serial!OfUsers(thr)' OBVIOUS
<1>3. PICK a : a = tx_r' OBVIOUS
<1>4. a \in 0 .. UUINT - 1 /\ c \in 0 .. USIZE /\ UUINT \in Nat /\ USIZE \in Nat
  BY <1>1, <1>3 DEF Buffered, Drum, Wraps
<1>5. Serial!Queue' = u \o [i \in 1 .. c |-> tx_buf'[(a + i - 1) % USIZE]]
  BY <1>1, <1>2, <1>3 DEF Serial!Queue, Unsent
<1>6. InBuffer' = [i \in 1 .. c |-> tx_buf'[Place(a, i, UUINT, USIZE)]]
  BY <1>1, <1>3 DEF InBuffer
<1>7. \A i \in 1 .. c : Place(a, i, UUINT, USIZE) = (a + i - 1) % USIZE
  <2>1. ASSUME NEW i \in 1 .. c
        PROVE  Place(a, i, UUINT, USIZE) = (a + i - 1) % USIZE
    <3>1. i \in Int /\ a \in Int BY <1>4
    <3>. QED BY <3>1, PlaceIs DEF Drum
  <2>. QED BY <2>1
<1>8. [i \in 1 .. c |-> tx_buf'[Place(a, i, UUINT, USIZE)]]
        = [i \in 1 .. c |-> tx_buf'[(a + i - 1) % USIZE]]
  BY <1>7
<1>. QED BY <1>2, <1>5, <1>6, <1>8

LEMMA FullIs ==
    ASSUME Drum, Buffered
    PROVE  Serial!Full <=> Unsent = USIZE
<1>1. PICK c : c = Unsent OBVIOUS
<1>2. c \in 0 .. UUINT - 1 /\ UUINT \in Nat \ {0} /\ USIZE \in 0 .. UUINT - 1
  BY <1>1 DEF Drum, Wraps, Buffered
<1>3. tx_r \in 0 .. UUINT - 1 /\ tx_w \in 0 .. UUINT - 1 BY DEF Buffered
<1>4. tx_w = (tx_r + c) % UUINT BY <1>1, <1>2, <1>3, DistanceBack DEF Unsent
<1>5. ASSUME tx_w = (tx_r + USIZE) % UUINT PROVE c = USIZE
  <2>1. (tx_w - tx_r) % UUINT = USIZE BY <1>2, <1>3, <1>5, DistanceIs
  <2>. QED BY <1>1, <2>1 DEF Unsent
<1>. QED BY <1>1, <1>4, <1>5 DEF Serial!Full

(* Steps that leave the buffer, or the line, as it is.                     *)
LEMMA SameBuffer ==
    ASSUME UNCHANGED <<tx_r, tx_w, tx_buf>>
    PROVE  /\ Buffered' = Buffered /\ InBuffer' = InBuffer /\ Unsent' = Unsent
           /\ Serial!Full' = Serial!Full
BY DEF Buffered, InBuffer, Unsent, Serial!Full

LEMMA SameLine ==
    ASSUME UNCHANGED <<tx_r, tx_w, tx_buf, thr, sent>>
    PROVE  LineStep
BY DEF LineStep, LineGot, Serial!Queue, Serial!OfUsers

LEMMA LockSteps ==
    ASSUME Serial!UartConstants, SerialInv,
           \/ Serial!uartintr \/ Serial!uartstart
           \/ \E p \in UWriters : Serial!uartputc_full(p) \/ \E c \in UBytes :
               Serial!consolewrite(p, c)
    PROVE  SerialInv' /\ LineStep
<1>1. Drum /\ None \notin UBytes /\ "intr" \notin UWriters
  BY SerialConstants DEF Serial!UartConstants
<1>2. Buffered /\ OnTheLine /\ Serial!SleepsForReason BY DEF SerialInv
<1>3. UNCHANGED <<tx_r, tx_w, tx_buf, thr, sent, echoing>>
  BY DEF Serial!uartintr, Serial!uartstart, Serial!uartputc_full, Serial!consolewrite,
         Serial!tx
<1>4. Buffered' /\ Unsent' = Unsent /\ Serial!Full' = Serial!Full
  BY <1>2, <1>3, SameBuffer
<1>5. OnTheLine'
  <2>1. CASE Serial!uartintr
    BY <1>2, <1>3, <1>4, <2>1 DEF Serial!uartintr, OnTheLine
  <2>2. CASE Serial!uartstart
    <3>1. ASSUME tx_w # tx_r PROVE Unsent # 0
      <4>1. PICK c : c = Unsent OBVIOUS
      <4>2. /\ tx_r \in 0 .. UUINT - 1 /\ tx_w \in 0 .. UUINT - 1 /\ UUINT \in Nat \ {0}
            /\ tx_r \in Int
        BY <1>1, <1>2 DEF Buffered, Drum, Wraps
      <4>3. tx_w = (tx_r + c) % UUINT BY <4>1, <4>2, DistanceBack DEF Unsent
      <4>4. tx_r + 0 = tx_r /\ tx_r % UUINT = tx_r BY <4>2, SmallRemainder
      <4>. QED BY <3>1, <4>1, <4>3, <4>4
    <3>2. CASE tx_w # tx_r /\ Serial!TxIdle
      BY <1>2, <1>3, <1>4, <2>2, <3>1, <3>2
        DEF Serial!uartstart, OnTheLine, Serial!TxIdle
    <3>3. CASE ~(tx_w # tx_r /\ Serial!TxIdle)
      BY <1>2, <1>3, <1>4, <2>2, <3>3 DEF Serial!uartstart, OnTheLine
    <3>. QED BY <3>2, <3>3
  <2>3. ASSUME NEW p \in UWriters,
               Serial!uartputc_full(p) \/ \E c \in UBytes : Serial!consolewrite(p, c)
        PROVE  OnTheLine'
    BY <1>2, <1>3, <1>4, <2>3 DEF Serial!uartputc_full, Serial!consolewrite, OnTheLine
  <2>. QED BY <2>1, <2>2, <2>3
<1>6. Serial!SleepsForReason'
  BY <1>2, <1>4 DEF Serial!uartintr, Serial!uartstart, Serial!uartputc_full,
     Serial!consolewrite, Serial!SleepsForReason
<1>. QED BY <1>3, <1>4, <1>5, <1>6, SameLine DEF SerialInv

(* uartputc() puts its byte behind the others.                             *)
LEMMA BufferGrows ==
    ASSUME Drum, Buffered, Unsent < USIZE, NEW c \in UBytes,
           tx_buf' = [tx_buf EXCEPT ![tx_w % USIZE] = c],
           tx_w' = (tx_w + 1) % UUINT, tx_r' = tx_r
    PROVE  Buffered' /\ Unsent' = Unsent + 1 /\ InBuffer' = Append(InBuffer, c)
<1>1. PICK k : k = Unsent OBVIOUS
<1>2. PICK m : m = k + 1 OBVIOUS
<1>3. /\ k \in Nat /\ k < USIZE /\ m \in Nat /\ UUINT \in Nat \ {0} /\ USIZE \in Nat \ {0}
      /\ tx_r \in Int /\ k = (tx_w - tx_r) % UUINT
  BY <1>1, <1>2, InBufferIs DEF Unsent
<1>4. tx_r \in 0 .. UUINT - 1 /\ tx_w \in 0 .. UUINT - 1 BY DEF Buffered
<1>5. PICK e : e = tx_w' OBVIOUS
<1>6. e \in 0 .. UUINT - 1 /\ (e - tx_r) % UUINT = m
  <2>1. PICK y : y = 1 OBVIOUS
  <2>2. y \in Nat /\ ((tx_w - tx_r) % UUINT) + y <= USIZE /\ e = (tx_w + y) % UUINT
    BY <1>3, <1>5, <2>1
  <2>3. e \in 0 .. UUINT - 1 /\ (e - tx_r) % UUINT = ((tx_w - tx_r) % UUINT) + y
    BY <1>4, <2>2, Further DEF Drum
  <2>. QED BY <1>2, <1>3, <2>1, <2>3
<1>7. Unsent' = m BY <1>5, <1>6 DEF Unsent
<1>8. PICK a : a = Place(tx_r, m, UUINT, USIZE) OBVIOUS
<1>9. a = tx_w % USIZE
  <2>1. tx_w = (tx_r + k) % UUINT BY <1>3, <1>4, DistanceBack
  <2>2. tx_r + m - 1 = tx_r + k BY <1>2, <1>3
  <2>. QED BY <1>8, <2>1, <2>2 DEF Place
<1>10. a \in 0 .. USIZE - 1
  <2>1. m \in Int BY <1>3
  <2>. QED BY <1>3, <1>8, <2>1, PlaceIs DEF Drum
<1>11. tx_buf' = [tx_buf EXCEPT ![a] = c] BY <1>9
<1>12. DOMAIN tx_buf = 0 .. USIZE - 1 BY DEF Buffered
<1>13. DOMAIN tx_buf' = 0 .. USIZE - 1 /\ tx_buf'[a] = c BY <1>10, <1>11, <1>12
<1>14. ASSUME NEW i \in 1 .. k
       PROVE  tx_buf'[Place(tx_r, i, UUINT, USIZE)] = tx_buf[Place(tx_r, i, UUINT, USIZE)]
  <2>1. i \in Int /\ m \in Int /\ i < m /\ m < i + USIZE BY <1>2, <1>3
  <2>2. Place(tx_r, i, UUINT, USIZE) # a BY <1>3, <1>8, <2>1, OtherPlace DEF Drum
  <2>3. Place(tx_r, i, UUINT, USIZE) \in 0 .. USIZE - 1 BY <1>3, <2>1, PlaceIs DEF Drum
  <2>. QED BY <1>11, <1>12, <2>2, <2>3
<1>15. \A i \in 1 .. k : tx_buf[Place(tx_r, i, UUINT, USIZE)] \in UBytes
  BY <1>1 DEF Buffered
<1>16. \A i \in 1 .. m : tx_buf'[Place(tx_r, i, UUINT, USIZE)]
                           = IF i = m THEN c ELSE tx_buf[Place(tx_r, i, UUINT, USIZE)]
  <2>1. ASSUME NEW i \in 1 .. m
        PROVE  tx_buf'[Place(tx_r, i, UUINT, USIZE)]
                 = IF i = m THEN c ELSE tx_buf[Place(tx_r, i, UUINT, USIZE)]
    <3>1. CASE i = m BY <1>8, <1>13, <3>1
    <3>2. CASE i # m
      <4>1. i \in 1 .. k BY <1>2, <1>3, <3>2
      <4>. QED BY <1>14, <3>2, <4>1
    <3>. QED BY <3>1, <3>2
  <2>. QED BY <2>1
<1>17. ASSUME NEW i \in 1 .. m PROVE tx_buf'[Place(tx_r, i, UUINT, USIZE)] \in UBytes
  <2>1. CASE i = m BY <1>16, <2>1
  <2>2. CASE i # m
    <3>1. i \in 1 .. k BY <1>2, <1>3, <2>2
    <3>. QED BY <1>15, <1>16, <2>2, <3>1
  <2>. QED BY <2>1, <2>2
<1>18. m \in 0 .. USIZE BY <1>2, <1>3
<1>19. Buffered' BY <1>4, <1>5, <1>6, <1>7, <1>13, <1>17, <1>18 DEF Buffered
<1>20. PICK q : q = InBuffer OBVIOUS
<1>21. q = [i \in 1 .. k |-> tx_buf[Place(tx_r, i, UUINT, USIZE)]]
  BY <1>1, <1>20 DEF InBuffer
<1>22. q \in Seq(UBytes) /\ Len(q) = k BY <1>1, <1>20, InBufferIs
<1>23. InBuffer' = [i \in 1 .. m |-> tx_buf'[Place(tx_r, i, UUINT, USIZE)]]
  BY <1>7 DEF InBuffer
<1>24. InBuffer' = [i \in 1 .. m |-> IF i = m THEN c ELSE q[i]]
  <2>1. \A i \in 1 .. m : i # m => i \in 1 .. k BY <1>2, <1>3
  <2>. QED BY <1>16, <1>21, <1>23, <2>1
<1>25. Append(q, c) = [i \in 1 .. m |-> IF i = m THEN c ELSE q[i]]
  <2>1. /\ Append(q, c) \in Seq(UBytes) /\ Len(Append(q, c)) = m
        /\ \A i \in 1 .. k : Append(q, c)[i] = q[i]
        /\ Append(q, c)[m] = c
    BY <1>2, <1>22, AppendProperties
  <2>2. PICK t : t = Append(q, c) OBVIOUS
  <2>3. t \in Seq(UBytes) /\ Len(t) = m /\ t[m] = c /\ \A i \in 1 .. k : t[i] = q[i]
    BY <2>1, <2>2
  <2>4. \A i \in 1 .. m : t[i] = IF i = m THEN c ELSE q[i]
    <3>1. \A i \in 1 .. m : i # m => i \in 1 .. k BY <1>2, <1>3
    <3>. QED BY <2>3, <3>1
  <2>5. t = [i \in 1 .. m |-> t[i]] BY <2>3
  <2>. QED BY <2>2, <2>4, <2>5
<1>. QED BY <1>1, <1>2, <1>7, <1>19, <1>20, <1>24, <1>25

(* uartstart() takes the first byte.                                       *)
LEMMA BufferShrinks ==
    ASSUME Drum, Buffered, Unsent # 0,
           tx_r' = (tx_r + 1) % UUINT, tx_w' = tx_w, tx_buf' = tx_buf
    PROVE  /\ Buffered' /\ Unsent' = Unsent - 1 /\ InBuffer' = Tail(InBuffer)
           /\ InBuffer[1] = tx_buf[tx_r % USIZE] /\ InBuffer[1] \in UBytes
<1>1. PICK k : k = Unsent OBVIOUS
<1>2. PICK m : m = k - 1 OBVIOUS
<1>3. /\ k \in Nat \ {0} /\ k <= USIZE /\ m \in Nat /\ UUINT \in Nat \ {0}
      /\ USIZE \in Nat \ {0} /\ tx_r \in Int /\ k = (tx_w - tx_r) % UUINT
  BY SMTT(30), <1>1, <1>2, InBufferIs DEF Unsent, Buffered
<1>4. tx_r \in 0 .. UUINT - 1 /\ tx_w \in 0 .. UUINT - 1 BY DEF Buffered
<1>5. PICK a : a = tx_r' OBVIOUS
<1>6. a \in 0 .. UUINT - 1 /\ (tx_w - a) % UUINT = m
  <2>1. PICK y : y = 1 OBVIOUS
  <2>2. y \in Nat /\ y <= (tx_w - tx_r) % UUINT /\ a = (tx_r + y) % UUINT
    BY <1>3, <1>5, <2>1
  <2>3. a \in 0 .. UUINT - 1 /\ (tx_w - a) % UUINT = ((tx_w - tx_r) % UUINT) - y
    BY <1>4, <2>2, Nearer DEF Drum
  <2>. QED BY <1>2, <1>3, <2>1, <2>3
<1>7. Unsent' = m BY <1>5, <1>6 DEF Unsent
<1>8. PICK q : q = InBuffer OBVIOUS
<1>9. q = [i \in 1 .. k |-> tx_buf[Place(tx_r, i, UUINT, USIZE)]]
  BY <1>1, <1>8 DEF InBuffer
<1>10. q \in Seq(UBytes) /\ Len(q) = k BY <1>1, <1>8, InBufferIs
<1>11. InBuffer' = [i \in 1 .. m |-> tx_buf[Place(a, i, UUINT, USIZE)]]
  BY <1>5, <1>7 DEF InBuffer
<1>12. ASSUME NEW i \in 1 .. m
       PROVE  tx_buf[Place(a, i, UUINT, USIZE)] = q[i + 1]
  <2>1. PICK y : y = 1 OBVIOUS
  <2>2. y \in Int /\ i \in Int /\ a = (tx_r + y) % UUINT BY <1>3, <1>5, <2>1
  <2>3. Place(a, i, UUINT, USIZE) = Place(tx_r, y + i, UUINT, USIZE)
    BY <1>3, <2>2, SamePlace DEF Drum
  <2>4. i + 1 \in 1 .. k /\ y + i = i + 1 BY <1>2, <1>3, <2>1
  <2>. QED BY <1>9, <2>3, <2>4
<1>13. PICK t : t = Tail(q) OBVIOUS
<1>14. t \in Seq(UBytes) /\ Len(t) = m /\ \A i \in 1 .. m : t[i] = q[i + 1]
  BY <1>2, <1>3, <1>10, <1>13
<1>15. InBuffer' = t BY <1>11, <1>12, <1>14
<1>16. ASSUME NEW i \in 1 .. m
       PROVE  tx_buf'[Place(tx_r', i, UUINT, USIZE)] \in UBytes
  <2>1. i + 1 \in 1 .. k BY <1>2, <1>3
  <2>2. q[i + 1] \in UBytes BY <1>10, <2>1, ElementOfSeq
  <2>. QED BY <1>5, <1>12, <2>2
<1>17. m \in 0 .. USIZE /\ DOMAIN tx_buf = 0 .. USIZE - 1 BY <1>2, <1>3 DEF Buffered
<1>18. Buffered' BY <1>4, <1>5, <1>6, <1>7, <1>16, <1>17 DEF Buffered
<1>19. q[1] = tx_buf[tx_r % USIZE] /\ q[1] \in UBytes
  <2>1. 1 \in 1 .. k BY <1>3
  <2>2. PICK y : y = 1 OBVIOUS
  <2>3. y \in Int /\ tx_r + y - 1 = tx_r BY <1>3, <2>2
  <2>4. Place(tx_r, y, UUINT, USIZE) = (tx_r + y - 1) % USIZE
    BY <1>3, <2>3, PlaceIs DEF Drum
  <2>5. q[1] = tx_buf[Place(tx_r, y, UUINT, USIZE)] BY <1>9, <2>1, <2>2
  <2>6. q[1] \in UBytes BY <1>10, <2>1, ElementOfSeq
  <2>. QED BY <2>3, <2>4, <2>5, <2>6
<1>. QED BY <1>1, <1>2, <1>7, <1>8, <1>13, <1>15, <1>18, <1>19

LEMMA OneMore == 0 + 1 \in 0 .. 1 /\ \A l \in 0 .. 1 : l + 1 \in 0 .. 2
OBVIOUS

(* The steps that move a byte.                                             *)
LEMMA PutStep ==
    ASSUME Serial!UartConstants, FIFO >= 2, SerialInv, NEW p \in UWriters, Serial!uartputc(p)
    PROVE  SerialInv' /\ LineStep
<1>1. Drum /\ None \notin UBytes /\ None \notin UWriters /\ FIFO \in Nat
  BY SerialConstants DEF Serial!UartConstants
<1>2. Buffered /\ OnTheLine /\ Serial!SleepsForReason BY DEF SerialInv
<1>3. UNCHANGED <<go, asleep, echoing, thr, irq, sent, tx_r>> /\ lock = None /\ ~Serial!Full
  BY DEF Serial!uartputc, Serial!Putting
<1>4. PICK c : c = byte[p] OBVIOUS
<1>5. c \in UBytes BY <1>2, <1>4 DEF Serial!uartputc, Serial!Putting, OnTheLine
<1>6. PICK k : k = Unsent OBVIOUS
<1>7. k \in Nat /\ k < USIZE /\ USIZE \in Nat
  <2>1. k \in 0 .. USIZE /\ k # USIZE BY <1>1, <1>2, <1>3, <1>6, FullIs DEF Buffered
  <2>2. USIZE \in Nat BY <1>1, <1>2, InBufferIs
  <2>. QED BY <2>1, <2>2
<1>8. Buffered' /\ Unsent' = k + 1 /\ InBuffer' = Append(InBuffer, c)
  BY <1>1, <1>2, <1>3, <1>4, <1>5, <1>6, <1>7, BufferGrows DEF Serial!uartputc
<1>9. ~go BY <1>2, <1>3 DEF OnTheLine
<1>10. OnTheLine'
  <2>1. byte' = [byte EXCEPT ![p] = None] BY DEF Serial!uartputc
  <2>2. byte' \in [UWriters -> UBytes \cup {None}] BY <1>2, <2>1 DEF OnTheLine
  <2>. QED BY <1>2, <1>3, <1>9, <2>2 DEF OnTheLine
<1>11. Serial!SleepsForReason' BY <1>2, <1>3 DEF Serial!SleepsForReason
<1>12. PICK q : q = InBuffer OBVIOUS
<1>13. PICK u : u = Serial!OfUsers(thr) OBVIOUS
<1>14. q \in Seq(UBytes) /\ Len(q) = k BY <1>1, <1>2, <1>6, <1>12, InBufferIs
<1>15. u \in Seq(UBytes) /\ Len(u) \in 0 .. 2 BY <1>2, <1>13, UsersType DEF OnTheLine
<1>16. Serial!Queue = u \o q BY <1>1, <1>2, <1>12, <1>13, QueueIs
<1>17. Serial!Queue' = u \o Append(q, c)
  <2>1. Serial!OfUsers(thr)' = u BY <1>3, <1>13 DEF Serial!OfUsers
  <2>2. Serial!Queue' = (Serial!OfUsers(thr) \o InBuffer)' BY <1>1, <1>8, QueuePrimed
  <2>. QED BY <1>8, <1>12, <2>1, <2>2
<1>18. PICK z : z = u \o q OBVIOUS
<1>19. z \in Seq(UBytes) /\ Len(z) = Len(u) + k
  BY <1>14, <1>15, <1>18, ConcatProperties
<1>20. Serial!Queue' = Serial!Queue \o <<c>>
  BY SMTT(30), <1>5, <1>14, <1>15, <1>16, <1>17, BytePut
<1>21. Serial!Line!Put
  <2>1. PICK n : n = 1 OBVIOUS
  <2>2. PICK s : s = <<c>> OBVIOUS
  <2>3. s \in [1 .. n -> UBytes] BY <1>5, <2>1, <2>2
  <2>4. n \in 1 .. (USIZE + FIFO) - Len(Serial!Queue)
    <3>1. PICK l \in 0 .. 2 : l = Len(u) BY <1>15
    <3>2. Len(Serial!Queue) = l + k BY <1>16, <1>18, <1>19, <3>1
    <3>3. 1 <= (USIZE + FIFO) - (l + k) BY <1>1, <1>7, <3>1
    <3>. QED BY <1>1, <1>7, <2>1, <3>1, <3>2, <3>3
  <2>5. Serial!Queue' = Serial!Queue \o s BY <1>20, <2>2
  <2>6. LineGot' = LineGot BY <1>3 DEF LineGot
  <2>. QED BY <2>3, <2>4, <2>5, <2>6 DEF Serial!Line!Put, LineGot
<1>. QED BY <1>2, <1>8, <1>10, <1>11, <1>21
         DEF SerialInv, LineStep, Serial!Line!FifoNext

LEMMA SendStep ==
    ASSUME Serial!UartConstants, FIFO >= 2, SerialInv, Serial!uartstart_send
    PROVE  SerialInv' /\ LineStep
<1>1. Drum /\ Echo \notin UBytes /\ FIFO \in Nat
  BY SerialConstants DEF Serial!UartConstants
<1>2. Buffered /\ OnTheLine /\ Serial!SleepsForReason BY DEF SerialInv
<1>3. UNCHANGED <<tx_w, tx_buf, lock, byte, echoing, irq, sent>> /\ go /\ go' = FALSE
  BY DEF Serial!uartstart_send
<1>4. Unsent # 0 BY <1>2, <1>3 DEF OnTheLine
<1>5. PICK q : q = InBuffer OBVIOUS
<1>6. /\ Buffered' /\ InBuffer' = Tail(q) /\ q[1] = tx_buf[tx_r % USIZE] /\ q[1] \in UBytes
  BY <1>1, <1>2, <1>3, <1>4, <1>5, BufferShrinks DEF Serial!uartstart_send
<1>7. q \in Seq(UBytes) /\ q # <<>>
  <2>1. q \in Seq(UBytes) /\ Len(q) = Unsent BY <1>1, <1>2, <1>5, InBufferIs
  <2>2. Len(q) # 0 BY <1>4, <2>1
  <2>. QED BY <2>1, <2>2
<1>8. PICK c : c = q[1] OBVIOUS
<1>9. c \in UBytes /\ c \in Printed /\ c # Echo BY <1>1, <1>6, <1>8 DEF Printed
<1>10. thr \in Seq(Printed) /\ Len(thr) \in 0 .. 1 /\ (echoing => Len(thr) = 0)
  BY <1>2, <1>3 DEF OnTheLine
<1>11. thr' = Append(thr, c)
  <2>1. Len(thr) < FIFO BY <1>1, <1>10
  <2>. QED BY <1>6, <1>8, <2>1 DEF Serial!uartstart_send, Serial!WriteTHR
<1>12. thr' \in Seq(Printed) /\ Len(thr') = Len(thr) + 1
  BY <1>9, <1>10, <1>11, AppendProperties
<1>13. OnTheLine'
  <2>1. Len(thr') \in 0 .. 2 /\ (echoing' => Len(thr') \in 0 .. 1)
    <3>1. PICK l \in 0 .. 1 : l = Len(thr) BY <1>10
    <3>2. l + 1 \in 0 .. 2 /\ 0 + 1 \in 0 .. 1 BY OneMore
    <3>. QED BY <1>3, <1>10, <1>12, <3>1, <3>2
  <2>. QED BY <1>2, <1>3, <1>12, <2>1 DEF OnTheLine
<1>14. Serial!SleepsForReason' BY DEF Serial!uartstart_send, Serial!SleepsForReason
<1>15. PICK u : u = Serial!OfUsers(thr) OBVIOUS
<1>16. u \in Seq(UBytes)
  <2>1. Len(thr) \in 0 .. 2 BY <1>10
  <2>. QED BY <1>10, <1>15, <2>1, UsersType
<1>17. PICK v : v = thr' OBVIOUS
<1>18. Serial!OfUsers(v) = Append(u, c)
  BY <1>9, <1>10, <1>11, <1>15, <1>17, UsersAppend
<1>19. Serial!OfUsers(thr)' = Append(u, c) BY <1>17, <1>18 DEF Serial!OfUsers
<1>20. Serial!Queue' = Append(u, c) \o Tail(q)
  <2>1. Serial!Queue' = (Serial!OfUsers(thr) \o InBuffer)' BY <1>1, <1>6, QueuePrimed
  <2>. QED BY <1>6, <1>19, <2>1
<1>21. Serial!Queue = u \o q BY <1>1, <1>2, <1>5, <1>15, QueueIs
<1>22. Serial!Queue' = Serial!Queue BY <1>7, <1>8, <1>16, <1>20, <1>21, ByteSent
<1>. QED BY <1>2, <1>3, <1>6, <1>13, <1>14, <1>22 DEF SerialInv, LineStep, LineGot

(* The echo comes between.                                                 *)
LEMMA EchoStep ==
    ASSUME Serial!UartConstants, FIFO >= 2, SerialInv, Serial!uartputc_sync
    PROVE  SerialInv' /\ LineStep
<1>1. Drum /\ FIFO \in Nat BY SerialConstants DEF Serial!UartConstants
<1>2. Buffered /\ OnTheLine /\ Serial!SleepsForReason BY DEF SerialInv
<1>3. UNCHANGED <<tx_r, tx_w, tx_buf, lock, go, byte, asleep, irq, sent>> /\ echoing' = ~echoing
  BY DEF Serial!uartputc_sync, Serial!tx
<1>4. /\ Buffered' /\ InBuffer' = InBuffer /\ Unsent' = Unsent
      /\ Serial!Full' = Serial!Full
  BY <1>2, <1>3, SameBuffer
<1>5. Serial!SleepsForReason' BY <1>2, <1>3, <1>4 DEF Serial!SleepsForReason
<1>6. CASE ~echoing
  <2>1. thr' = thr /\ thr = <<>> BY <1>6 DEF Serial!uartputc_sync, Serial!TxIdle
  <2>2. OnTheLine' BY <1>2, <1>3, <1>4, <1>6, <2>1 DEF OnTheLine
  <2>. QED BY <1>3, <1>4, <1>5, <2>1, <2>2, SameLine DEF SerialInv
<1>7. CASE echoing
  <2>1. thr \in Seq(Printed) /\ Len(thr) \in 0 .. 1 /\ (go => Len(thr) = 0)
    BY <1>2, <1>7 DEF OnTheLine
  <2>2. PICK c : c = Echo OBVIOUS
  <2>3. c \in Printed BY <2>2 DEF Printed
  <2>4. thr' = Append(thr, c)
    <3>1. Len(thr) < FIFO BY <1>1, <2>1
    <3>. QED BY <1>7, <2>2, <3>1 DEF Serial!uartputc_sync, Serial!WriteTHR
  <2>5. thr' \in Seq(Printed) /\ Len(thr') = Len(thr) + 1
    BY <2>1, <2>3, <2>4, AppendProperties
  <2>6. OnTheLine'
    <3>1. Len(thr') \in 0 .. 2 /\ (go' => Len(thr') \in 0 .. 1)
      <4>1. PICK l \in 0 .. 1 : l = Len(thr) BY <2>1
      <4>2. l + 1 \in 0 .. 2 /\ 0 + 1 \in 0 .. 1 BY OneMore
      <4>. QED BY <1>3, <2>1, <2>5, <4>1, <4>2
    <3>. QED BY <1>2, <1>3, <1>4, <1>7, <2>5, <3>1 DEF OnTheLine
  <2>7. PICK v : v = thr' OBVIOUS
  <2>8. Serial!OfUsers(v) = Serial!OfUsers(thr)
    BY <2>1, <2>2, <2>3, <2>4, <2>7, UsersAppend
  <2>9. Serial!OfUsers(thr)' = Serial!OfUsers(thr) BY <2>7, <2>8 DEF Serial!OfUsers
  <2>10. Serial!Queue' = Serial!Queue
    <3>1. Serial!Queue' = (Serial!OfUsers(thr) \o InBuffer)' BY <1>1, <1>4, QueuePrimed
    <3>2. Serial!Queue = Serial!OfUsers(thr) \o InBuffer BY <1>1, <1>2, QueueIs
    <3>. QED BY <1>4, <2>9, <3>1, <3>2
  <2>. QED BY <1>3, <1>4, <1>5, <2>6, <2>10 DEF SerialInv, LineStep, LineGot
<1>. QED BY <1>6, <1>7

LEMMA DeviceStep ==
    ASSUME Serial!UartConstants, FIFO >= 2, SerialInv, Serial!device_send
    PROVE  SerialInv' /\ LineStep
<1>1. Drum /\ Echo \notin UBytes /\ None \notin UBytes
  BY SerialConstants DEF Serial!UartConstants
<1>2. Buffered /\ OnTheLine /\ Serial!SleepsForReason BY DEF SerialInv
<1>3. UNCHANGED <<tx_r, tx_w, tx_buf, lock, go, byte, asleep, echoing>>
  BY DEF Serial!device_send, Serial!tx
<1>4. /\ Buffered' /\ InBuffer' = InBuffer /\ Unsent' = Unsent
      /\ Serial!Full' = Serial!Full
  BY <1>2, <1>3, SameBuffer
<1>5. Serial!SleepsForReason' BY <1>2, <1>3, <1>4 DEF Serial!SleepsForReason
<1>6. PICK c : c = thr[1] OBVIOUS
<1>7. thr \in Seq(Printed) /\ Len(thr) \in 1 .. 2
  <2>1. thr \in Seq(Printed) /\ Len(thr) \in 0 .. 2 BY <1>2 DEF OnTheLine
  <2>2. thr # <<>> BY DEF Serial!device_send
  <2>. QED BY <2>1, <2>2
<1>8. c \in Printed /\ c = Head(thr) BY <1>6, <1>7, ElementOfSeq
<1>9. PICK v : v = Tail(thr) OBVIOUS
<1>10. thr' = v /\ v \in Seq(Printed) /\ Len(v) = Len(thr) - 1
  BY <1>7, <1>9 DEF Serial!device_send
<1>11. OnTheLine'
  <2>1. Len(thr') \in 0 .. 1 /\ (Len(thr) \in 0 .. 1 => Len(thr') = 0) BY <1>7, <1>10
  <2>2. Len(thr) # 0 BY <1>7
  <2>. QED BY <1>2, <1>3, <1>4, <1>10, <2>1, <2>2 DEF OnTheLine
<1>12. PICK x : x = Serial!OfUsers(v) OBVIOUS
<1>13. Serial!OfUsers(thr)' = x BY <1>10, <1>12 DEF Serial!OfUsers
<1>14. PICK q : q = InBuffer OBVIOUS
<1>15. Serial!Queue' = x \o q
  <2>1. Serial!Queue' = (Serial!OfUsers(thr) \o InBuffer)' BY <1>1, <1>4, QueuePrimed
  <2>. QED BY <1>4, <1>13, <1>14, <2>1
<1>16. Serial!Queue = Serial!OfUsers(thr) \o q BY <1>1, <1>2, <1>14, QueueIs
<1>17. Serial!OfUsers(thr) = IF c = Echo THEN x ELSE <<c>> \o x
  BY <1>6, <1>7, <1>9, <1>12, UsersTail
<1>18. LineStep
  <2>1. CASE c = Echo
    <3>1. sent' = sent BY <1>8, <2>1 DEF Serial!device_send
    <3>2. Serial!Queue' = Serial!Queue BY <1>15, <1>16, <1>17, <2>1
    <3>. QED BY <3>1, <3>2 DEF LineStep, LineGot
  <2>2. CASE c # Echo
    <3>1. sent' = c BY <1>8, <2>2 DEF Serial!device_send
    <3>2. c \in UBytes /\ c # None BY <1>1, <1>8, <2>2 DEF Printed
    <3>3. x \in Seq(UBytes)
      <4>1. Len(v) \in 0 .. 2 BY <1>7, <1>10
      <4>. QED BY <1>10, <1>12, <4>1, UsersType
    <3>4. q \in Seq(UBytes) BY <1>1, <1>2, <1>14, InBufferIs
    <3>5. PICK w : w = Serial!Queue OBVIOUS
    <3>6. w = (<<c>> \o x) \o q BY <1>16, <1>17, <2>2, <3>5
    <3>7. /\ Len(w) = 1 + Len(x \o q) /\ SubSeq(w, 1, 1) = <<c>>
          /\ SubSeq(w, 2, Len(w)) = x \o q
      <4>1. PICK z : z = x \o q OBVIOUS
      <4>2. z \in Seq(UBytes) /\ <<c>> \in Seq(UBytes)
        BY <3>2, <3>3, <3>4, <4>1, ConcatProperties
      <4>3. w = <<c>> \o z BY <3>3, <3>4, <3>6, <4>1, <4>2, ConcatAssociative
      <4>4. /\ Len(<<c>> \o z) = 1 + Len(z) /\ SubSeq(<<c>> \o z, 1, 1) = <<c>>
            /\ SubSeq(<<c>> \o z, 2, Len(<<c>> \o z)) = z
        BY <3>2, <4>2, ByteGone
      <4>. QED BY <4>1, <4>3, <4>4
    <3>8. Len(x \o q) \in Nat BY <3>3, <3>4, ConcatProperties, LenProperties
    <3>9. PICK n : n = 1 OBVIOUS
    <3>10. PICK l : l = 0 OBVIOUS
    <3>11. /\ n \in 0 .. Len(w) /\ l \in {0, 1} /\ n + l \in 1 .. Len(w) /\ n + l + 1 = 2
           /\ (l = 1) = FALSE
      BY <3>7, <3>8, <3>9, <3>10
    <3>12. LineGot' = [LineGot EXCEPT !["line"] = [bytes |-> SubSeq(w, 1, n), cut |-> l = 1]]
      <4>1. LineGot' = [p \in {"line"} |-> [bytes |-> <<c>>, cut |-> FALSE]]
        BY <3>1, <3>2 DEF LineGot
      <4>2. SubSeq(w, 1, n) = <<c>> BY <3>7, <3>9
      <4>3. [LineGot EXCEPT !["line"] = [bytes |-> <<c>>, cut |-> FALSE]]
              = [p \in {"line"} |-> [bytes |-> <<c>>, cut |-> FALSE]]
        BY DEF LineGot
      <4>. QED BY <3>11, <4>1, <4>2, <4>3
    <3>13. Serial!Queue' = SubSeq(w, n + l + 1, Len(w)) BY <1>15, <3>7, <3>11
    <3>14. Serial!Line!Get("line")
      BY <3>5, <3>11, <3>12, <3>13 DEF Serial!Line!Get, LineGot
    <3>. QED BY <3>14 DEF LineStep, Serial!Line!FifoNext
  <2>. QED BY <2>1, <2>2
<1>. QED BY <1>4, <1>5, <1>11, <1>18 DEF SerialInv

LEMMA SerialInit ==
    ASSUME Serial!UartConstants, Serial!Init
    PROVE  SerialInv /\ Serial!Line!FifoInit
<1>1. Drum BY SerialConstants
<1>2. UUINT \in Nat \ {0} /\ USIZE \in Nat \ {0} BY <1>1 DEF Drum, Wraps
<1>3. tx_r = 0 /\ tx_w = 0 /\ thr = <<>> /\ sent = None /\ asleep = {}
  BY DEF Serial!Init
<1>4. Unsent = 0
  <2>1. tx_w - tx_r = 0 BY <1>3
  <2>2. 0 % UUINT = 0 BY <1>2, SmallRemainder
  <2>. QED BY <2>1, <2>2 DEF Unsent
<1>5. Buffered BY <1>2, <1>3, <1>4 DEF Buffered, Serial!Init
<1>6. OnTheLine
  <2>1. /\ byte = [p \in UWriters |-> None] /\ go = FALSE /\ echoing = FALSE
        /\ thr \in Seq(Printed) /\ Len(thr) = 0
    BY <1>3 DEF Serial!Init
  <2>2. byte \in [UWriters -> UBytes \cup {None}] BY <2>1
  <2>3. ~go /\ ~echoing /\ go \in BOOLEAN /\ echoing \in BOOLEAN BY <2>1
  <2>4. Len(thr) \in 0 .. 2 BY <2>1
  <2>. QED BY <2>1, <2>2, <2>3, <2>4 DEF OnTheLine
<1>7. Serial!SleepsForReason BY <1>3 DEF Serial!SleepsForReason
<1>8. Serial!Queue = <<>>
  <2>1. Serial!OfUsers(thr) = <<>> BY <1>3, UsersEmpty
  <2>2. InBuffer = <<>> BY <1>4 DEF InBuffer
  <2>. QED BY <1>1, <1>5, <2>1, <2>2, QueueIs
<1>9. LineGot = [p \in {"line"} |-> None] BY <1>3 DEF LineGot
<1>. QED BY <1>5, <1>6, <1>7, <1>8, <1>9 DEF SerialInv, Serial!Line!FifoInit, LineGot

LEMMA SerialStep ==
    ASSUME Serial!UartConstants, FIFO >= 2, SerialInv, [Serial!Next]_Serial!vars
    PROVE  SerialInv' /\ LineStep
<1>1. CASE UNCHANGED Serial!vars
  <2>1. UNCHANGED <<tx_r, tx_w, tx_buf, lock, go, byte, asleep, echoing, thr, irq, sent>>
    BY <1>1 DEF Serial!vars, Serial!tx
  <2>2. Buffered' /\ Unsent' = Unsent /\ Serial!Full' = Serial!Full
    BY <2>1, SameBuffer DEF SerialInv
  <2>. QED BY <2>1, <2>2, SameLine DEF SerialInv, OnTheLine, Serial!SleepsForReason
<1>2. CASE Serial!Next
  BY <1>2, LockSteps, PutStep, SendStep, EchoStep, DeviceStep
    DEF Serial!Next, Serial!Kernel
<1>. QED BY <1>1, <1>2

(* What writers print leaves the device in the order in which uartputc()   *)
(* stored it and none of it is lost, though uartputc_sync(), which one     *)
(* caller at a time is in, takes no lock: the device has two bytes at most,*)
(* and it has room for 16.  Who sleeps, sleeps while the buffer is full.   *)
THEOREM PrintedInOrder ==
    Serial!UartConstants /\ FIFO >= 2
      => (Serial!Spec => Serial!ImplementsFifo /\ []Serial!SleepsForReason)
<1>. SUFFICES ASSUME Serial!UartConstants, FIFO >= 2
     PROVE  Serial!Spec => Serial!ImplementsFifo /\ []Serial!SleepsForReason
  OBVIOUS
<1>1. Serial!Init => SerialInv /\ Serial!Line!FifoInit BY SerialInit
<1>2. SerialInv /\ [Serial!Next]_Serial!vars
        => SerialInv' /\ [Serial!Line!FifoNext]_<<Serial!Queue, TRUE, LineGot>>
  BY SerialStep DEF LineStep
<1>3. SerialInv => Serial!SleepsForReason BY DEF SerialInv
<1>. QED BY <1>1, <1>2, <1>3, PTL
         DEF Serial!Spec, Serial!ImplementsFifo, Serial!Line!FifoSpec, LineGot
===============================================================================
