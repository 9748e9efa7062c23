------------------------------ MODULE BcacheProofs ----------------------------
(***************************************************************************)
(* Proofs about Bcache, for any threads, blocks, buffers and pins: the     *)
(* cache is one copy of each block behind a lock (Blocks), nobody sleeps   *)
(* on a lock that is free, and bget panics only when the other threads and *)
(* the pins use up all buffers.                                            *)
(***************************************************************************)
EXTENDS Bcache, FiniteSetTheorems, TLAPS

Uses(t) == pc[t] \notin {"idle", "panic"}
Locks(t) == pc[t] \in {"read", "hold", "write", "written"}
Users(i) == {t \in Threads : my[t] = i}

Types ==
    /\ blockno \in [Bufs -> Nums \cup {None}]
    /\ valid \in [Bufs -> BOOLEAN]
    /\ refcnt \in [Bufs -> Int]
    /\ data \in [Bufs -> Vals]
    /\ owner \in [Bufs -> Threads \cup {None}]
    /\ lru \in [Bufs -> Bufs]
    /\ disk \in [Nums -> Vals]
    /\ pc \in [Threads -> {"idle", "lock", "asleep", "read", "hold", "write", "written",
                           "unlocked", "panic"}]
    /\ my \in [Threads -> Bufs \cup {None}]
    /\ dirty \in [Threads -> BOOLEAN]
    /\ pinned \subseteq Nums

(* A thread that uses a buffer uses one that has a block; no two buffers   *)
(* have the same block, and a block that is pinned has one.                *)
BlockInv ==
    /\ \A t \in Threads : IF Uses(t) THEN my[t] \in Bufs /\ Block(t) \in Nums ELSE my[t] = None
    /\ \A i, j \in Bufs : blockno[i] = blockno[j] /\ blockno[i] # None => i = j
    /\ \A b \in pinned : \E i \in Bufs : blockno[i] = b

(* refcnt counts the users and the pin. *)
CountInv == \A i \in Bufs :
    refcnt[i] = Cardinality(Users(i)) + (IF blockno[i] \in pinned THEN 1 ELSE 0)

(* The owner of a sleeplock is the thread that holds the buffer, and who   *)
(* sleeps on it sleeps for that.                                           *)
OwnerInv ==
    /\ \A i \in Bufs, t \in Threads : owner[i] = t <=> my[t] = i /\ Locks(t)
    /\ SleepsForReason

(* A buffer that is valid, unpinned and unchanged by its holder is what is *)
(* on the disk.                                                            *)
ValidInv ==
    /\ \A t \in Threads :
         /\ pc[t] = "read" => ~valid[my[t]]
         /\ pc[t] \in {"hold", "write", "written"} => valid[my[t]]
         /\ dirty[t] => pc[t] \in {"hold", "write"}
         /\ pc[t] = "written" => data[my[t]] = disk[Block(t)]
    /\ \A i \in Bufs :
         valid[i] /\ blockno[i] # None =>
             data[i] = disk[blockno[i]] \/ blockno[i] \in pinned \/ \E t \in Users(i) : dirty[t]

CacheInv == Types /\ BlockInv /\ CountInv /\ OwnerInv /\ ValidInv

(* No more blocks are pinned than the log holds. *)
RoomInv == Cardinality(pinned) <= MaxPinned

(* bget is out of buffers only if those that other threads use, in bread() *)
(* or until brelse(), and those that the log has pinned are all.           *)
Panics == \E t \in Threads : pc[t] # "panic" /\ pc'[t] = "panic"
OutOfBuffers ==
    Panics => /\ NBUF <= Cardinality({u \in Threads : Uses(u)}) + Cardinality(pinned)
              /\ Cardinality(pinned) <= MaxPinned
-------------------------------------------------------------------------------
(* How many use a buffer when one thread more does, and one less.          *)
LEMMA UsersFinite ==
    ASSUME NEW i
    PROVE  IsFiniteSet(Users(i)) /\ Cardinality(Users(i)) \in Nat
BY BcacheConstants, FS_Subset, FS_CardinalityType DEF Users

LEMMA UserJoins ==
    ASSUME Types, NEW t \in Threads, NEW i \in Bufs, my[t] = None, my' = [my EXCEPT ![t] = i]
    PROVE  \A j \in Bufs : Cardinality(Users(j)') = Cardinality(Users(j)) + (IF j = i THEN 1 ELSE 0)
<1>. SUFFICES ASSUME NEW j \in Bufs
              PROVE  Cardinality(Users(j)') = Cardinality(Users(j)) + (IF j = i THEN 1 ELSE 0)
  OBVIOUS
<1>1. CASE j = i
  <2>1. t \notin Users(j) BY <1>1, BcacheConstants DEF Users, Bufs
  <2>2. \A u \in Threads : my'[u] = j <=> u = t \/ my[u] = j BY <1>1 DEF Types
  <2>3. Users(j)' = Users(j) \cup {t} BY <2>2 DEF Users
  <2>. QED BY <1>1, <2>1, <2>3, UsersFinite, FS_AddElement
<1>2. CASE j # i
  <2>1. Users(j)' = Users(j) BY <1>2, BcacheConstants DEF Users, Types, Bufs
  <2>. QED BY <1>2, <2>1, UsersFinite
<1>. QED BY <1>1, <1>2

LEMMA UserLeaves ==
    ASSUME Types, NEW t \in Threads, NEW i \in Bufs, my[t] = i, my' = [my EXCEPT ![t] = None]
    PROVE  \A j \in Bufs : Cardinality(Users(j)') = Cardinality(Users(j)) - (IF j = i THEN 1 ELSE 0)
<1>. SUFFICES ASSUME NEW j \in Bufs
              PROVE  Cardinality(Users(j)') = Cardinality(Users(j)) - (IF j = i THEN 1 ELSE 0)
  OBVIOUS
<1>1. CASE j = i
  <2>1. Users(j)' = Users(j) \ {t} /\ t \in Users(j)
    BY <1>1, BcacheConstants DEF Users, Types, Bufs
  <2>. QED BY SMTT(30), <1>1, <2>1, UsersFinite, FS_RemoveElement
<1>2. CASE j # i
  <2>1. Users(j)' = Users(j) BY <1>2, BcacheConstants DEF Users, Types, Bufs
  <2>. QED BY <1>2, <2>1, UsersFinite
<1>. QED BY <1>1, <1>2

LEMMA NoUsers ==
    ASSUME CountInv, NEW i \in Bufs, refcnt[i] = 0
    PROVE  Users(i) = {} /\ blockno[i] \notin pinned
<1>1. Cardinality(Users(i)) = 0 /\ blockno[i] \notin pinned
  BY UsersFinite DEF CountInv
<1>. QED BY <1>1, UsersFinite, FS_EmptySet
-------------------------------------------------------------------------------
LEMMA InitInv == Init => CacheInv
<1>. SUFFICES ASSUME Init PROVE CacheInv
  OBVIOUS
<1>0. \A i \in Bufs : Users(i) = {} BY BcacheConstants DEF Init, Users, Bufs
<1>1. Types BY BcacheConstants DEF Init, Types, Bufs
<1>2. BlockInv BY DEF Init, BlockInv, Uses
<1>3. CountInv BY SMTT(30), <1>0, FS_EmptySet DEF Init, CountInv
<1>4. OwnerInv BY BcacheConstants DEF Init, OwnerInv, Locks, SleepsForReason
<1>5. ValidInv BY DEF Init, ValidInv
<1>. QED BY <1>1, <1>2, <1>3, <1>4, <1>5 DEF CacheInv

LEMMA bget_cachedInv ==
    ASSUME CacheInv, NEW t \in Threads, NEW b \in Nums, bget_cached(t, b)
    PROVE  CacheInv'
<1>0. Types /\ BlockInv /\ CountInv /\ OwnerInv /\ ValidInv BY DEF CacheInv
<1>1. my[t] = None BY <1>0 DEF BlockInv, Uses, bget_cached
<1>2. PICK i \in Bufs : Cached(i, b) /\ Use(t, i) /\ refcnt' = [refcnt EXCEPT ![i] = @ + 1]
  BY DEF bget_cached
<1>3. Types'
  <2>1. refcnt' \in [Bufs -> Int] BY <1>0, <1>2 DEF Types
  <2>2. my' \in [Threads -> Bufs \cup {None}] BY <1>0, <1>2 DEF Types, Use
  <2>3. pc' \in [Threads -> {"idle", "lock", "asleep", "read", "hold", "write",
                             "written", "unlocked", "panic"}]
    BY <1>0, <1>2 DEF Types, Use, Goto
  <2>. QED BY <1>0, <2>1, <2>2, <2>3 DEF Types, bget_cached
<1>4. BlockInv'
  BY <1>0 DEF Types, BlockInv, Uses, Block, bget_cached, Use, Goto, Cached
<1>5. CountInv'
  <2>1. \A j \in Bufs : Cardinality(Users(j)') = Cardinality(Users(j)) + (IF j = i THEN 1 ELSE 0)
    BY <1>0, <1>1, <1>2, UserJoins DEF Use
  <2>2. \A j \in Bufs : refcnt'[j] = refcnt[j] + (IF j = i THEN 1 ELSE 0)
    BY <1>0, <1>2 DEF Types
  <2>. QED BY <1>0, <2>1, <2>2, UsersFinite DEF CountInv, bget_cached
<1>6. OwnerInv'
  BY <1>0 DEF OwnerInv, Locks, SleepsForReason, bget_cached, Use, Goto
<1>7. ValidInv'
  BY <1>0 DEF ValidInv, Users, Block, bget_cached, Use, Goto
<1>. QED BY <1>3, <1>4, <1>5, <1>6, <1>7 DEF CacheInv

LEMMA bget_recycleInv ==
    ASSUME CacheInv, NEW t \in Threads, NEW b \in Nums, bget_recycle(t, b)
    PROVE  CacheInv'
<1>0. Types /\ BlockInv /\ CountInv /\ OwnerInv /\ ValidInv BY DEF CacheInv
<1>1. my[t] = None BY <1>0 DEF BlockInv, Uses, bget_recycle
<1>2. CASE Goto(t, "panic") /\ UNCHANGED <<blockno, valid, refcnt, my>>
  <2>1. Types' BY <1>0, <1>2 DEF Types, bget_recycle, Goto
  <2>2. BlockInv'
    BY <1>0, <1>2 DEF BlockInv, Uses, Block, bget_recycle, Goto
  <2>3. CountInv' BY <1>0, <1>2 DEF CountInv, Users, bget_recycle
  <2>4. OwnerInv'
    BY <1>0, <1>2 DEF OwnerInv, Locks, SleepsForReason, bget_recycle, Goto
  <2>5. ValidInv'
    BY <1>0, <1>2 DEF ValidInv, Users, Block, bget_recycle, Goto
  <2>. QED BY <2>1, <2>2, <2>3, <2>4, <2>5 DEF CacheInv
<1>3. ASSUME NEW i \in Bufs, Unused(i), Use(t, i),
             blockno' = [blockno EXCEPT ![i] = b],
             valid' = [valid EXCEPT ![i] = FALSE],
             refcnt' = [refcnt EXCEPT ![i] = 1]
      PROVE  CacheInv'
  <2>0. Users(i) = {} /\ blockno[i] \notin pinned
    BY <1>0, <1>3, NoUsers DEF Unused
  <2>1. /\ pc[t] = "idle" /\ \A j \in Bufs : blockno[j] # b
         /\ UNCHANGED <<data, owner, lru, disk, dirty, pinned>>
    BY DEF bget_recycle, Cached
  <2>2. Types'
    <3>1. blockno' \in [Bufs -> Nums \cup {None}] BY <1>0, <1>3 DEF Types
    <3>2. valid' \in [Bufs -> BOOLEAN] /\ refcnt' \in [Bufs -> Int]
      BY <1>0, <1>3 DEF Types
    <3>3. my' \in [Threads -> Bufs \cup {None}] BY <1>0, <1>3 DEF Types, Use
    <3>4. pc' \in [Threads -> {"idle", "lock", "asleep", "read", "hold", "write",
                               "written", "unlocked", "panic"}]
      BY <1>0, <1>3 DEF Types, Use, Goto
    <3>. QED BY <1>0, <2>1, <3>1, <3>2, <3>3, <3>4 DEF Types
  <2>3. BlockInv'
    BY <1>0, <1>3, <2>0, <2>1 DEF Types, BlockInv, Uses, Block, Use, Goto
  <2>4. CountInv'
    <3>1. \A j \in Bufs : Cardinality(Users(j)') = Cardinality(Users(j)) + (IF j = i THEN 1 ELSE 0)
      BY <1>0, <1>1, <1>3, UserJoins DEF Use
    <3>2. Cardinality(Users(i)) = 0 BY <2>0, FS_EmptySet
    <3>3. b \notin pinned BY <1>0, <2>1 DEF BlockInv
    <3>. QED
      BY <1>0, <1>3, <3>1, <3>2, <3>3, <2>1, UsersFinite DEF Types, CountInv
  <2>5. OwnerInv'
    BY <1>0, <1>3, <2>1 DEF OwnerInv, Locks, SleepsForReason, Use, Goto
  <2>6. ValidInv'
    BY <1>0, <1>3, <2>0, <2>1 DEF Types, ValidInv, Users, Block, Use, Goto
  <2>. QED BY <2>2, <2>3, <2>4, <2>5, <2>6 DEF CacheInv
<1>. QED BY <1>2, <1>3 DEF bget_recycle

LEMMA acquiresleepInv ==
    ASSUME CacheInv, NEW t \in Threads, acquiresleep(t)
    PROVE  CacheInv'
<1>0. Types /\ BlockInv /\ CountInv /\ OwnerInv /\ ValidInv BY DEF CacheInv
<1>1. my[t] \in Bufs /\ Block(t) \in Nums
  BY <1>0 DEF BlockInv, Uses, acquiresleep
<1>2. Types'
  <2>1. \E point \in {"hold", "read", "asleep"} : pc' = [pc EXCEPT ![t] = point]
    BY DEF acquiresleep, Goto
  <2>2. owner' \in [Bufs -> Threads \cup {None}]
    BY <1>0 DEF Types, acquiresleep
  <2>. QED BY <1>0, <2>1, <2>2 DEF Types, acquiresleep
<1>3. BlockInv'
  BY <1>0 DEF Types, BlockInv, Uses, Block, acquiresleep, Goto
<1>4. CountInv'
  BY <1>0 DEF CountInv, Users, acquiresleep
<1>5. OwnerInv'
  BY <1>0, BcacheConstants DEF Types, BlockInv, OwnerInv, Locks, Uses, SleepsForReason,
           acquiresleep, Goto
<1>6. ValidInv'
  BY <1>0 DEF Types, ValidInv, Users, Block, acquiresleep, Goto
<1>. QED BY <1>2, <1>3, <1>4, <1>5, <1>6 DEF CacheInv

LEMMA bread_doneInv ==
    ASSUME CacheInv, NEW t \in Threads, bread_done(t)
    PROVE  CacheInv'
<1>0. Types /\ BlockInv /\ CountInv /\ OwnerInv /\ ValidInv BY DEF CacheInv
<1>1. my[t] \in Bufs /\ Block(t) \in Nums BY <1>0 DEF BlockInv, Uses, bread_done
<1>2. Types'
  BY <1>0, <1>1 DEF Types, bread_done, Goto
<1>3. BlockInv'
  BY <1>0 DEF BlockInv, Uses, Block, bread_done, Goto
<1>4. CountInv'
  BY <1>0 DEF CountInv, Users, bread_done
<1>5. OwnerInv'
  BY <1>0 DEF OwnerInv, Locks, SleepsForReason, bread_done, Goto
<1>6. ValidInv'
  BY <1>0, <1>1 DEF Types, OwnerInv, ValidInv, Locks, Users, Block, bread_done, Goto
<1>. QED BY <1>2, <1>3, <1>4, <1>5, <1>6 DEF CacheInv

LEMMA modifyInv ==
    ASSUME CacheInv, NEW t \in Threads, NEW v \in Vals, modify(t, v)
    PROVE  CacheInv'
<1>0. Types /\ BlockInv /\ CountInv /\ OwnerInv /\ ValidInv BY DEF CacheInv
<1>1. my[t] \in Bufs /\ Block(t) \in Nums BY <1>0 DEF BlockInv, Uses, modify
<1>2. Types' BY <1>0, <1>1, BcacheConstants DEF Types, Bufs, modify
<1>3. BlockInv'
  BY <1>0 DEF BlockInv, Uses, Block, modify
<1>4. CountInv'
  BY <1>0 DEF CountInv, Users, modify
<1>5. OwnerInv'
  BY <1>0 DEF OwnerInv, Locks, SleepsForReason, modify
<1>6. ValidInv'
  BY <1>0 DEF Types, OwnerInv, ValidInv, Locks, Users, Block, modify
<1>. QED BY <1>2, <1>3, <1>4, <1>5, <1>6 DEF CacheInv

LEMMA log_writeInv ==
    ASSUME CacheInv, NEW t \in Threads, log_write(t)
    PROVE  CacheInv'
<1>0. Types /\ BlockInv /\ CountInv /\ OwnerInv /\ ValidInv BY DEF CacheInv
<1>1. my[t] \in Bufs /\ Block(t) \in Nums BY <1>0 DEF BlockInv, Uses, log_write
<1>2. Types'
  <2>1. refcnt' \in [Bufs -> Int] BY <1>0, <1>1 DEF Types, log_write
  <2>. QED BY <1>0, <1>1, <2>1 DEF Types, log_write
<1>3. BlockInv'
  BY <1>0 DEF BlockInv, Uses, Block, log_write
<1>4. CountInv'
  <2>1. \A j \in Bufs : blockno[j] = Block(t) => j = my[t]
    BY <1>0, <1>1, BcacheConstants DEF BlockInv, Block
  <2>2. \A j \in Bufs : refcnt'[j] = refcnt[j] + (IF j = my[t] /\ Block(t) \notin pinned THEN 1 ELSE 0)
    BY <1>0 DEF Types, log_write
  <2>3. \A j \in Bufs : Users(j)' = Users(j) BY DEF Users, log_write
  <2>4. \A j \in Bufs : blockno'[j] \in pinned' <=> blockno[j] \in pinned \/ j = my[t]
    BY <2>1 DEF log_write, Block
  <2>. QED BY <1>0, <1>1, <2>2, <2>3, <2>4, UsersFinite DEF CountInv, Block
<1>5. OwnerInv'
  BY <1>0 DEF OwnerInv, Locks, SleepsForReason, log_write
<1>6. ValidInv'
  BY <1>0 DEF ValidInv, Users, Block, log_write
<1>. QED BY <1>2, <1>3, <1>4, <1>5, <1>6 DEF CacheInv

LEMMA bwriteInv ==
    ASSUME CacheInv, NEW t \in Threads, bwrite(t)
    PROVE  CacheInv'
<1>0. Types /\ BlockInv /\ CountInv /\ OwnerInv /\ ValidInv BY DEF CacheInv
<1>1. my[t] \in Bufs /\ Block(t) \in Nums BY <1>0 DEF BlockInv, Uses, bwrite
<1>2. Types'
  BY <1>0 DEF Types, bwrite, Goto, buffers
<1>3. BlockInv'
  BY <1>0 DEF BlockInv, Uses, Block, bwrite, Goto, buffers
<1>4. CountInv'
  BY <1>0 DEF CountInv, Users, bwrite, buffers
<1>5. OwnerInv'
  BY <1>0 DEF OwnerInv, Locks, SleepsForReason, bwrite, Goto, buffers
<1>6. ValidInv'
  BY <1>0 DEF ValidInv, Users, Block, bwrite, Goto, buffers
<1>. QED BY <1>2, <1>3, <1>4, <1>5, <1>6 DEF CacheInv

LEMMA bwrite_doneInv ==
    ASSUME CacheInv, NEW t \in Threads, bwrite_done(t)
    PROVE  CacheInv'
<1>0. Types /\ BlockInv /\ CountInv /\ OwnerInv /\ ValidInv BY DEF CacheInv
<1>1. my[t] \in Bufs /\ Block(t) \in Nums
  BY <1>0 DEF BlockInv, Uses, bwrite_done
<1>2. Types'
  BY <1>0, <1>1 DEF Types, bwrite_done, Goto, buffers
<1>3. BlockInv'
  BY <1>0 DEF BlockInv, Uses, Block, bwrite_done, Goto, buffers
<1>4. CountInv'
  BY <1>0 DEF CountInv, Users, bwrite_done, buffers
<1>5. OwnerInv'
  BY <1>0 DEF OwnerInv, Locks, SleepsForReason, bwrite_done, Goto, buffers
<1>6. ValidInv'
  BY <1>0, BcacheConstants DEF Types, BlockInv, ValidInv, Uses, Users, Block,
           bwrite_done, Goto, buffers
<1>. QED BY <1>2, <1>3, <1>4, <1>5, <1>6 DEF CacheInv

LEMMA bunpinInv ==
    ASSUME CacheInv, NEW t \in Threads, bunpin(t)
    PROVE  CacheInv'
<1>0. Types /\ BlockInv /\ CountInv /\ OwnerInv /\ ValidInv BY DEF CacheInv
<1>1. my[t] \in Bufs /\ Block(t) \in Nums BY <1>0 DEF BlockInv, Uses, bunpin
<1>2. Types'
  <2>1. refcnt' \in [Bufs -> Int] BY <1>0, <1>1 DEF Types, bunpin
  <2>. QED BY <1>0, <1>1, <2>1 DEF Types, bunpin, threads
<1>3. BlockInv'
  BY <1>0 DEF BlockInv, Uses, Block, bunpin, threads
<1>4. CountInv'
  <2>1. \A j \in Bufs : blockno[j] = Block(t) => j = my[t]
    BY <1>0, <1>1, BcacheConstants DEF BlockInv, Block
  <2>2. \A j \in Bufs : refcnt'[j] = refcnt[j] - (IF j = my[t] THEN 1 ELSE 0)
    BY <1>0 DEF Types, bunpin
  <2>3. \A j \in Bufs : Users(j)' = Users(j) BY DEF Users, bunpin, threads
  <2>4. \A j \in Bufs : blockno'[j] \in pinned' <=> blockno[j] \in pinned /\ j # my[t]
    BY <2>1 DEF bunpin, Block
  <2>5. blockno[my[t]] \in pinned BY DEF bunpin, Block
  <2>. QED BY <1>0, <1>1, <2>2, <2>3, <2>4, <2>5, UsersFinite DEF CountInv
<1>5. OwnerInv'
  BY <1>0 DEF OwnerInv, Locks, SleepsForReason, bunpin, threads
<1>6. ValidInv'
  BY <1>0, <1>1 DEF BlockInv, ValidInv, Users, Block, bunpin, threads
<1>. QED BY <1>2, <1>3, <1>4, <1>5, <1>6 DEF CacheInv

LEMMA brelse_unlockInv ==
    ASSUME CacheInv, NEW t \in Threads, brelse_unlock(t)
    PROVE  CacheInv'
<1>0. Types /\ BlockInv /\ CountInv /\ OwnerInv /\ ValidInv BY DEF CacheInv
<1>1. my[t] \in Bufs /\ Block(t) \in Nums
  BY <1>0 DEF BlockInv, Uses, brelse_unlock
<1>2. Types'
  BY <1>0 DEF Types, brelse_unlock
<1>3. BlockInv'
  BY <1>0 DEF BlockInv, Uses, Block, brelse_unlock
<1>4. CountInv'
  BY <1>0 DEF CountInv, Users, brelse_unlock
<1>5. OwnerInv'
  BY <1>0, BcacheConstants DEF Types, OwnerInv, Locks, SleepsForReason, brelse_unlock
<1>6. ValidInv'
  BY <1>0 DEF ValidInv, Users, Block, brelse_unlock
<1>. QED BY <1>2, <1>3, <1>4, <1>5, <1>6 DEF CacheInv

LEMMA brelse_countInv ==
    ASSUME CacheInv, NEW t \in Threads, brelse_count(t)
    PROVE  CacheInv'
<1>0. Types /\ BlockInv /\ CountInv /\ OwnerInv /\ ValidInv BY DEF CacheInv
<1>1. my[t] \in Bufs /\ Block(t) \in Nums
  BY <1>0 DEF BlockInv, Uses, brelse_count
<1>2. Types'
  <2>1. refcnt' \in [Bufs -> Int] BY <1>0, <1>1 DEF Types, brelse_count
  <2>2. MovedToFront(my[t]) \in [Bufs -> Bufs]
    <3>1. \A k \in Bufs : k # 1 => k - 1 \in Bufs BY BcacheConstants DEF Bufs
    <3>. QED BY <1>0, <1>1, <3>1 DEF MovedToFront, Types
  <2>. QED BY <1>0, <1>1, <2>1, <2>2 DEF Types, brelse_count, Goto
<1>3. BlockInv'
  BY <1>0 DEF Types, BlockInv, Uses, Block, brelse_count, Goto
<1>4. CountInv'
  <2>1. \A j \in Bufs : Cardinality(Users(j)') = Cardinality(Users(j)) - (IF j = my[t] THEN 1 ELSE 0)
    BY <1>0, <1>1, UserLeaves DEF brelse_count
  <2>2. \A j \in Bufs : refcnt'[j] = refcnt[j] - (IF j = my[t] THEN 1 ELSE 0)
    BY <1>0 DEF Types, brelse_count
  <2>. QED BY <1>0, <2>1, <2>2, UsersFinite DEF CountInv, brelse_count
<1>5. OwnerInv'
  BY <1>0 DEF OwnerInv, Locks, SleepsForReason, brelse_count, Goto
<1>6. ValidInv'
  BY <1>0 DEF ValidInv, Users, Block, brelse_count, Goto
<1>. QED BY <1>2, <1>3, <1>4, <1>5, <1>6 DEF CacheInv

LEMMA StepInv == CacheInv /\ [Next]_vars => CacheInv'
<1>. SUFFICES ASSUME CacheInv, [Next]_vars PROVE CacheInv'
  OBVIOUS
<1>1. ASSUME NEW t \in Threads, NEW b \in Nums, bget_cached(t, b) PROVE CacheInv'
  BY <1>1, bget_cachedInv
<1>2. ASSUME NEW t \in Threads, NEW b \in Nums, bget_recycle(t, b) PROVE CacheInv'
  BY <1>2, bget_recycleInv
<1>3. ASSUME NEW t \in Threads, acquiresleep(t) PROVE CacheInv'
  BY <1>3, acquiresleepInv
<1>4. ASSUME NEW t \in Threads, bread_done(t) PROVE CacheInv'
  BY <1>4, bread_doneInv
<1>5. ASSUME NEW t \in Threads, NEW v \in Vals, modify(t, v) PROVE CacheInv'
  BY <1>5, modifyInv
<1>6. ASSUME NEW t \in Threads, log_write(t) PROVE CacheInv'
  BY <1>6, log_writeInv
<1>7. ASSUME NEW t \in Threads, bwrite(t) PROVE CacheInv' BY <1>7, bwriteInv
<1>8. ASSUME NEW t \in Threads, bwrite_done(t) PROVE CacheInv'
  BY <1>8, bwrite_doneInv
<1>9. ASSUME NEW t \in Threads, bunpin(t) PROVE CacheInv' BY <1>9, bunpinInv
<1>10. ASSUME NEW t \in Threads, brelse_unlock(t) PROVE CacheInv'
  BY <1>10, brelse_unlockInv
<1>11. ASSUME NEW t \in Threads, brelse_count(t) PROVE CacheInv'
  BY <1>11, brelse_countInv
<1>12. CASE UNCHANGED vars
  <2>0. Types /\ BlockInv /\ CountInv /\ OwnerInv /\ ValidInv BY DEF CacheInv
  <2>1. Types' BY <2>0, <1>12 DEF Types, vars, buffers, threads
  <2>2. BlockInv'
    BY <2>0, <1>12 DEF BlockInv, Uses, Block, vars, buffers, threads
  <2>3. CountInv' BY <2>0, <1>12 DEF CountInv, Users, vars, buffers, threads
  <2>4. OwnerInv'
    BY <2>0, <1>12 DEF OwnerInv, Locks, SleepsForReason, vars, buffers, threads
  <2>5. ValidInv'
    BY <2>0, <1>12 DEF ValidInv, Users, Block, vars, buffers, threads
  <2>. QED BY <2>1, <2>2, <2>3, <2>4, <2>5 DEF CacheInv
<1>. QED
  BY <1>1, <1>2, <1>3, <1>4, <1>5, <1>6, <1>7, <1>8, <1>9, <1>10, <1>11, <1>12 DEF Next,
           Thread

(* What the cache keeps, about its buffers, locks and counts.              *)
THEOREM CacheInvariant == Spec => []CacheInv
<1>. QED BY InitInv, StepInv, PTL DEF Spec

(* releasesleep() wakes those who sleep on the lock: who still sleeps does *)
(* so because another thread has it (kernel/sleeplock.c).                  *)
THEOREM NoLostWakeup == Spec => []SleepsForReason
<1>1. CacheInv => SleepsForReason BY DEF CacheInv, OwnerInv
<1>. QED BY <1>1, CacheInvariant, PTL
-------------------------------------------------------------------------------
LEMMA InitRoom == Init => RoomInv
BY FS_EmptySet, BcacheConstants DEF Init, RoomInv

(* The pins are of different buffers, hence finitely many.                 *)
LEMMA PinnedFinite ==
    ASSUME Types, BlockInv
    PROVE  IsFiniteSet(pinned) /\ Cardinality(pinned) \in Nat
<1>. DEFINE S == {i \in Bufs : blockno[i] \in pinned}
            f == [i \in S |-> blockno[i]]
<1>1. IsFiniteSet(S) BY BcacheConstants, FS_Interval, FS_Subset DEF Bufs
<1>2. f \in Surjection(S, pinned) BY DEF Surjection, BlockInv
<1>. QED BY <1>1, <1>2, FS_Surjection, FS_CardinalityType

LEMMA StepRoom == CacheInv /\ RoomInv /\ [Next]_vars => RoomInv'
<1>. SUFFICES ASSUME CacheInv, RoomInv, [Next]_vars PROVE RoomInv'
  OBVIOUS
<1>0. Types /\ BlockInv BY DEF CacheInv
<1>1. ASSUME NEW t \in Threads, log_write(t) PROVE RoomInv'
  <2>1. Cardinality(pinned') <= MaxPinned
    <3>1. CASE Block(t) \in pinned
      <4>1. pinned' = pinned BY <1>1, <3>1 DEF log_write
      <4>. QED BY <4>1 DEF RoomInv
    <3>2. CASE Block(t) \notin pinned
      <4>1. Cardinality(pinned') = Cardinality(pinned) + 1
        BY <1>0, <1>1, <3>2, PinnedFinite, FS_AddElement DEF log_write
      <4>2. Cardinality(pinned) < MaxPinned BY <1>1, <3>2 DEF log_write
      <4>. QED BY <1>0, <4>1, <4>2, PinnedFinite, BcacheConstants
    <3>. QED BY <3>1, <3>2
  <2>. QED BY <1>1, <2>1 DEF RoomInv, log_write
<1>2. ASSUME NEW t \in Threads, bunpin(t) PROVE RoomInv'
  <2>1. Cardinality(pinned') <= MaxPinned
    <3>1. Cardinality(pinned') = Cardinality(pinned) - 1
      BY <1>0, <1>2, PinnedFinite, FS_RemoveElement DEF bunpin
    <3>. QED BY <1>0, <3>1, PinnedFinite, BcacheConstants DEF RoomInv
  <2>. QED BY <1>2, <2>1 DEF RoomInv, bunpin
<1>3. CASE UNCHANGED pinned BY <1>3 DEF RoomInv
<1>. QED
  BY <1>1, <1>2, <1>3 DEF Next, Thread, vars, buffers, bget_cached, bget_recycle,
           acquiresleep, bread_done, modify, bwrite, bwrite_done, brelse_unlock, brelse_count

(* When all buffers are in use: each has a user or a pin.                  *)
LEMMA UsedUp ==
    ASSUME CacheInv, RoomInv, \A i \in Bufs : refcnt[i] # 0
    PROVE  NBUF <= Cardinality({u \in Threads : Uses(u)}) + Cardinality(pinned)
<1>0. Types /\ BlockInv /\ CountInv BY DEF CacheInv
<1>. DEFINE Used == {i \in Bufs : Users(i) # {}}
            Pins == {i \in Bufs : blockno[i] \in pinned}
            Busy == {u \in Threads : Uses(u)}
            f == [u \in Busy |-> my[u]]
            g == [i \in Pins |-> blockno[i]]
<1>1. IsFiniteSet(Bufs) /\ Cardinality(Bufs) = NBUF
  BY BcacheConstants, FS_Interval DEF Bufs
<1>2. IsFiniteSet(Used) /\ IsFiniteSet(Pins) BY <1>1, FS_Subset
<1>3. IsFiniteSet(Busy) BY BcacheConstants, FS_Subset
<1>4. Cardinality(Used) <= Cardinality(Busy)
  <2>1. f \in Surjection(Busy, Used)
    <3>1. \A u \in Busy : f[u] \in Used BY <1>0 DEF BlockInv, Users
    <3>2. \A i \in Used : \E u \in Busy : f[u] = i
      BY <1>0, BcacheConstants DEF BlockInv, Users, Bufs
    <3>. QED BY <3>1, <3>2 DEF Surjection
  <2>. QED BY <1>3, <2>1, FS_Surjection
<1>5. Cardinality(Pins) <= Cardinality(pinned)
  <2>1. g \in Injection(Pins, pinned)
    <3>1. \A i, j \in Pins : g[i] = g[j] => i = j
      BY <1>0, BcacheConstants DEF BlockInv, Types
    <3>. QED BY <3>1 DEF Injection, IsInjective
  <2>. QED BY <1>0, <2>1, PinnedFinite, FS_Injection
<1>6. Bufs = Used \cup Pins
  <2>1. ASSUME NEW i \in Bufs, Users(i) = {} PROVE blockno[i] \in pinned
    <3>1. Cardinality(Users(i)) = 0 BY <2>1, FS_EmptySet
    <3>. QED BY <1>0, <3>1 DEF CountInv
  <2>. QED BY <2>1
<1>7. NBUF = Cardinality(Used) + Cardinality(Pins) - Cardinality(Used \cap Pins)
  BY <1>1, <1>2, <1>6, FS_Union
<1>8. Cardinality(Used \cap Pins) \in Nat
  BY <1>2, FS_Intersection, FS_CardinalityType
<1>9. /\ Cardinality(Used) \in Nat /\ Cardinality(Pins) \in Nat /\ Cardinality(Busy) \in Nat
      /\ Cardinality(pinned) \in Nat
  BY <1>0, <1>2, <1>3, PinnedFinite, FS_CardinalityType, BcacheConstants
<1>. QED BY <1>4, <1>5, <1>7, <1>8, <1>9, BcacheConstants

(* bget() (kernel/bio.c) panics only when every buffer is pinned or with a *)
(* thread other than its caller: with 30 buffers (param.h), when blocks in *)
(* the log and buffers that calls hold add up to 30.  A thread has one     *)
(* buffer; a process that holds two at a time stands for two.              *)
THEOREM PanicsOnlyWhenUsedUp == Spec => [][OutOfBuffers]_vars
<1>1. CacheInv /\ RoomInv /\ [Next]_vars => OutOfBuffers
  <2>. SUFFICES ASSUME CacheInv, RoomInv, [Next]_vars,
                       NEW t \in Threads, pc[t] # "panic", pc'[t] = "panic"
                PROVE  NBUF <= Cardinality({u \in Threads : Uses(u)}) + Cardinality(pinned)
    BY DEF OutOfBuffers, Panics, RoomInv
  <2>0. Types BY DEF CacheInv
  <2>1. ASSUME NEW u \in Threads, NEW b \in Nums, bget_recycle(u, b)
        PROVE  \A i \in Bufs : refcnt[i] # 0
    <3>1. ASSUME NEW i \in Bufs, Use(u, i) PROVE FALSE BY <2>0, <3>1 DEF Use, Goto, Types
    <3>. QED BY <2>1, <3>1 DEF bget_recycle
  <2>2. ASSUME NEW u \in Threads, acquiresleep(u) PROVE FALSE
    BY <2>0, <2>2 DEF Types, acquiresleep, Goto
  <2>3. ASSUME NEW u \in Threads, brelse_unlock(u) PROVE FALSE
    BY <2>3 DEF brelse_unlock
  <2>4. ASSUME NEW u \in Threads, NEW l \in {"lock", "hold", "write", "written", "idle"}, Goto(u, l)
        PROVE  FALSE
    BY <2>0, <2>4 DEF Types, Goto
  <2>5. ASSUME UNCHANGED pc PROVE FALSE BY <2>5
  <2>6. \A i \in Bufs : refcnt[i] # 0
    BY <2>1, <2>2, <2>3, <2>4, <2>5 DEF Next, Thread, vars, threads, Use, bget_cached,
             bread_done, modify, log_write, bwrite, bwrite_done, bunpin, brelse_count
  <2>. QED BY <2>6, UsedUp
<1>. QED BY <1>1, CacheInvariant, InitRoom, StepRoom, PTL DEF Spec
-------------------------------------------------------------------------------
(* Blocks: what a block contains, before a step and after it.              *)
LEMMA ContentsOf ==
    ASSUME BlockInv, NEW b \in Nums
    PROVE  /\ \A i \in Bufs : blockno[i] = b /\ valid[i] => Contents(b) = data[i]
           /\ (\A i \in Bufs : blockno[i] = b => ~valid[i]) => Contents(b) = disk[b]
BY BcacheConstants DEF BlockInv, Contents, Cached

LEMMA ContentsOfNext ==
    ASSUME BlockInv', NEW b \in Nums
    PROVE  /\ \A i \in Bufs : blockno'[i] = b /\ valid'[i] => Contents(b)' = data'[i]
           /\ (\A i \in Bufs : blockno'[i] = b => ~valid'[i]) => Contents(b)' = disk'[b]
BY BcacheConstants DEF BlockInv, Contents, Cached

LEMMA ValSame ==
    ASSUME \A b \in Nums : Contents(b)' = Contents(b)
    PROVE  val' = val
BY DEF val

LEMMA HoldersSame ==
    ASSUME \A t \in Threads :
             /\ pc[t] \in {"hold", "write", "written"} <=> pc'[t] \in {"hold", "write", "written"}
             /\ pc[t] \in {"hold", "write", "written"} => Block(t)' = Block(t)
    PROVE  holders' = holders
<1>1. \A b \in Nums : Holders(b)' = Holders(b) BY DEF Holders
<1>. QED BY <1>1 DEF holders

(* One buffer per block and one owner per buffer: one holder.              *)
LEMMA OneHolder ==
    ASSUME CacheInv, NEW t \in Threads, pc[t] \in {"lock", "read", "hold", "write", "written"},
           owner[my[t]] \in {None, t}
    PROVE  /\ Block(t) \in Nums
           /\ Holders(Block(t)) \subseteq {t}
           /\ pc[t] \in {"hold", "write", "written"} => Holders(Block(t)) = {t}
           /\ pc[t] \in {"lock", "read"} => Holders(Block(t)) = {}
<1>0. BlockInv /\ OwnerInv BY DEF CacheInv
<1>1. my[t] \in Bufs /\ Block(t) \in Nums BY <1>0 DEF BlockInv, Uses
<1>2. ASSUME NEW u \in Holders(Block(t)) PROVE u = t
  <2>1. my[u] = my[t]
    BY <1>0, BcacheConstants DEF Holders, BlockInv, Uses, Block
  <2>2. owner[my[t]] = u BY <1>0, <1>1, <2>1 DEF Holders, OwnerInv, Locks
  <2>. QED BY <2>2, BcacheConstants DEF Holders
<1>. QED BY <1>1, <1>2 DEF Holders

(* A thread that gets the lock of a buffer, or its contents, may hold the  *)
(* block.                                                                  *)
LEMMA HoldRefines ==
    ASSUME CacheInv, NEW t \in Threads, pc[t] \in {"lock", "read"},
           owner[my[t]] \in {None, t}, Goto(t, "hold"), UNCHANGED <<blockno, my>>, val' = val
    PROVE  Store!BlocksNext
<1>0. Types BY DEF CacheInv
<1>. DEFINE b == Block(t)
<1>1. b \in Nums /\ Holders(b) = {} BY OneHolder
<1>2. \A c \in Nums : Holders(c)' = IF c = b THEN {t} ELSE Holders(c)
  <2>1. \A u \in Threads : pc'[u] = IF u = t THEN "hold" ELSE pc[u]
    BY <1>0 DEF Types, Goto
  <2>2. \A u \in Threads : Block(u)' = Block(u) BY DEF Block
  <2>. QED BY <1>1, <2>1, <2>2 DEF Holders
<1>3. holders' = [holders EXCEPT ![b] = {t}] BY <1>1, <1>2 DEF holders
<1>4. Store!Hold(t, b) BY <1>1, <1>3 DEF Store!Hold, holders
<1>. QED BY <1>1, <1>4 DEF Store!BlocksNext

LEMMA acquiresleepRefines ==
    ASSUME CacheInv, CacheInv', NEW t \in Threads, acquiresleep(t)
    PROVE  StoreStep
<1>0. Types BY DEF CacheInv
<1>1. val' = val
  <2>1. \A b \in Nums : Contents(b)' = Contents(b)
    BY DEF Contents, Cached, acquiresleep
  <2>. QED BY <2>1, ValSame
<1>2. CASE owner[my[t]] = None /\ valid[my[t]]
  <2>1. Store!BlocksNext BY <1>1, <1>2, HoldRefines DEF acquiresleep
  <2>. QED BY <2>1 DEF StoreStep
<1>3. CASE ~(owner[my[t]] = None /\ valid[my[t]])
  <2>1. holders' = holders
    <3>1. pc[t] = "lock" /\ \E l \in {"read", "asleep"} : pc' = [pc EXCEPT ![t] = l]
      BY <1>3 DEF acquiresleep, Goto
    <3>2. \A u \in Threads : Block(u)' = Block(u) BY DEF Block, acquiresleep
    <3>. QED BY <1>0, <3>1, <3>2, HoldersSame DEF Types
  <2>. QED BY <1>1, <2>1 DEF StoreStep
<1>. QED BY <1>2, <1>3

(* The read brings what Contents already says.                             *)
LEMMA bread_doneRefines ==
    ASSUME CacheInv, CacheInv', NEW t \in Threads, bread_done(t)
    PROVE  StoreStep
<1>0. Types /\ BlockInv /\ OwnerInv /\ ValidInv /\ BlockInv' BY DEF CacheInv
<1>1. my[t] \in Bufs /\ Block(t) \in Nums BY <1>0 DEF BlockInv, Uses, bread_done
<1>2. val' = val
  <2>1. ASSUME NEW b \in Nums PROVE Contents(b)' = Contents(b)
    <3>1. CASE b = Block(t)
      <4>1. \A i \in Bufs : blockno[i] = b => i = my[t]
        BY <1>0, <1>1, <3>1, BcacheConstants DEF BlockInv, Block
      <4>2. Contents(b) = disk[b]
        BY <1>0, <4>1, ContentsOf DEF ValidInv, bread_done
      <4>3. blockno'[my[t]] = b /\ valid'[my[t]] /\ data'[my[t]] = disk[b]
        BY <1>0, <1>1, <3>1 DEF Types, Block, bread_done
      <4>4. Contents(b)' = disk[b] BY <1>0, <1>1, <4>3, ContentsOfNext
      <4>. QED BY <4>2, <4>4
    <3>2. CASE b # Block(t)
      <4>1. \A i \in Bufs : blockno[i] = b => i # my[t] BY <3>2 DEF Block
      <4>2. \A i \in Bufs : blockno[i] = b => valid'[i] = valid[i] /\ data'[i] = data[i]
        BY <1>0, <4>1 DEF Types, bread_done
      <4>3. UNCHANGED <<blockno, disk>> BY DEF bread_done
      <4>4. CASE \E i \in Bufs : blockno[i] = b /\ valid[i]
        BY <1>0, <4>2, <4>3, ContentsOf, ContentsOfNext
      <4>5. CASE \A i \in Bufs : blockno[i] = b => ~valid[i]
        BY <1>0, <4>2, <4>3, ContentsOf, ContentsOfNext
      <4>. QED BY <4>4, <4>5
    <3>. QED BY <3>1, <3>2
  <2>. QED BY <2>1, ValSame
<1>3. owner[my[t]] = t BY <1>0, <1>1 DEF OwnerInv, Locks, bread_done
<1>4. Store!BlocksNext BY <1>2, <1>3, HoldRefines DEF bread_done
<1>. QED BY <1>4 DEF StoreStep

LEMMA modifyRefines ==
    ASSUME CacheInv, CacheInv', NEW t \in Threads, NEW v \in Vals, modify(t, v)
    PROVE  StoreStep
<1>0. Types /\ BlockInv /\ OwnerInv /\ ValidInv /\ BlockInv' BY DEF CacheInv
<1>1. my[t] \in Bufs /\ Block(t) \in Nums BY <1>0 DEF BlockInv, Uses, modify
<1>. DEFINE b == Block(t)
<1>2. t \in Holders(b) BY DEF Holders, modify
<1>3. ASSUME NEW c \in Nums PROVE Contents(c)' = IF c = b THEN v ELSE Contents(c)
  <2>1. CASE c = b
    <3>1. blockno'[my[t]] = b /\ valid'[my[t]] /\ data'[my[t]] = v
      BY <1>0, <1>1 DEF Types, ValidInv, Block, modify
    <3>. QED BY <1>0, <1>1, <2>1, <3>1, ContentsOfNext
  <2>2. CASE c # b
    <3>1. \A i \in Bufs : blockno[i] = c => data'[i] = data[i]
      BY <2>2 DEF Block, modify
    <3>. QED BY <1>0, <2>2, <3>1, ContentsOf, ContentsOfNext DEF modify
  <2>. QED BY <2>1, <2>2
<1>4. val' = [val EXCEPT ![b] = v] BY <1>1, <1>3 DEF val
<1>5. holders' = holders BY HoldersSame DEF modify, Block
<1>6. Store!Change(t, b) BY <1>1, <1>2, <1>4, <1>5 DEF Store!Change, holders
<1>. QED BY <1>1, <1>6 DEF Store!BlocksNext, StoreStep

LEMMA brelse_unlockRefines ==
    ASSUME CacheInv, NEW t \in Threads, brelse_unlock(t)
    PROVE  StoreStep
<1>0. Types /\ BlockInv /\ OwnerInv BY DEF CacheInv
<1>1. my[t] \in Bufs /\ Block(t) \in Nums
  BY <1>0 DEF BlockInv, Uses, brelse_unlock
<1>. DEFINE b == Block(t)
<1>2. pc[t] \in {"hold", "written"} /\ owner[my[t]] = t
  BY <1>0, <1>1 DEF OwnerInv, Locks, brelse_unlock
<1>3. Holders(b) = {t} BY <1>2, OneHolder
<1>4. val' = val
  <2>1. \A c \in Nums : Contents(c)' = Contents(c)
    BY DEF Contents, Cached, brelse_unlock
  <2>. QED BY <2>1, ValSame
<1>5. \A c \in Nums : Holders(c)' = IF c = b THEN {} ELSE Holders(c)
  <2>1. \A u \in Threads : pc'[u] \in {"hold", "write", "written"} <=>
                             u # t /\ pc[u] \in {"hold", "write", "written"}
    BY DEF brelse_unlock
  <2>2. \A u \in Threads : Block(u)' = Block(u) BY DEF Block, brelse_unlock
  <2>. QED BY <1>3, <2>1, <2>2 DEF Holders
<1>6. holders' = [holders EXCEPT ![b] = {}] BY <1>1, <1>5 DEF holders
<1>7. Store!Release(t, b) BY <1>1, <1>3, <1>4, <1>6 DEF Store!Release, holders
<1>. QED BY <1>1, <1>7 DEF Store!BlocksNext, StoreStep

(* A buffer is recycled that nobody uses and that is not pinned: what it   *)
(* contained is on the disk.                                               *)
LEMMA bget_recycleRefines ==
    ASSUME CacheInv, CacheInv', NEW t \in Threads, NEW b \in Nums, bget_recycle(t, b)
    PROVE  StoreStep
<1>0. Types /\ BlockInv /\ CountInv /\ OwnerInv /\ ValidInv /\ BlockInv'
  BY DEF CacheInv
<1>1. pc[t] = "idle" /\ my[t] = None BY <1>0 DEF BlockInv, Uses, bget_recycle
<1>2. CASE Goto(t, "panic") /\ UNCHANGED <<blockno, valid, refcnt, my>>
  <2>1. \A c \in Nums : Contents(c)' = Contents(c)
    BY <1>2 DEF Contents, Cached, bget_recycle
  <2>2. holders' = holders
    BY <1>1, <1>2, HoldersSame DEF Goto, Block
  <2>. QED BY <2>1, <2>2, ValSame DEF StoreStep
<1>3. ASSUME NEW i \in Bufs, Unused(i), Use(t, i),
             blockno' = [blockno EXCEPT ![i] = b],
             valid' = [valid EXCEPT ![i] = FALSE]
      PROVE  StoreStep
  <2>1. Users(i) = {} /\ blockno[i] \notin pinned
    BY <1>0, <1>3, NoUsers DEF Unused
  <2>2. UNCHANGED <<data, disk>> /\ \A j \in Bufs : blockno[j] # b
    BY DEF bget_recycle, Cached
  <2>3. ASSUME NEW c \in Nums PROVE Contents(c)' = Contents(c)
    <3>1. CASE c = b
      <4>1. \A j \in Bufs : blockno'[j] = b => ~valid'[j]
        BY <1>0, <1>3, <2>2 DEF Types
      <4>. QED BY <1>0, <3>1, <4>1, <2>2, ContentsOf, ContentsOfNext
    <3>2. CASE c # b /\ c = blockno[i]
      <4>1. \A j \in Bufs : blockno'[j] # c
        BY <1>0, <1>3, <3>2, BcacheConstants DEF Types, BlockInv
      <4>2. Contents(c)' = disk[c] BY <1>0, <4>1, <2>2, ContentsOfNext
      <4>3. valid[i] => data[i] = disk[c]
        BY <1>0, <3>2, <2>1, BcacheConstants DEF ValidInv
      <4>4. \A j \in Bufs : blockno[j] = c => j = i
        BY <1>0, <3>2, BcacheConstants DEF BlockInv
      <4>5. Contents(c) = disk[c]
        <5>1. CASE valid[i] BY <1>0, <1>3, <3>2, <4>3, <5>1, ContentsOf
        <5>2. CASE ~valid[i] BY <1>0, <4>4, <5>2, ContentsOf
        <5>. QED BY <5>1, <5>2
      <4>. QED BY <4>2, <4>5
    <3>3. CASE c # b /\ c # blockno[i]
      <4>1. \A j \in Bufs : /\ blockno'[j] = c <=> blockno[j] = c
                            /\ blockno[j] = c => valid'[j] = valid[j]
        BY <1>0, <1>3, <3>3 DEF Types
      <4>. QED BY <1>0, <4>1, <2>2, ContentsOf, ContentsOfNext
    <3>. QED BY <3>1, <3>2, <3>3
  <2>4. holders' = holders
    <3>1. \A u \in Threads : u # t => pc'[u] = pc[u] /\ my'[u] = my[u]
      BY <1>3 DEF Use, Goto
    <3>2. pc'[t] = "lock" BY <1>0, <1>3 DEF Types, Use, Goto
    <3>3. \A u \in Threads : u # t /\ pc[u] \in {"hold", "write", "written"} => Block(u)' = Block(u)
      BY <1>3, <2>1, <3>1 DEF Users, Block
    <3>. QED BY <1>1, <3>1, <3>2, <3>3, HoldersSame
  <2>. QED BY <2>3, <2>4, ValSame DEF StoreStep
<1>. QED BY <1>2, <1>3 DEF bget_recycle

(* The block that is written is cached, so its contents stay what they are.*)
LEMMA bwrite_doneRefines ==
    ASSUME CacheInv, CacheInv', NEW t \in Threads, bwrite_done(t)
    PROVE  StoreStep
<1>0. Types /\ BlockInv /\ ValidInv /\ BlockInv' BY DEF CacheInv
<1>1. my[t] \in Bufs /\ Block(t) \in Nums
  BY <1>0 DEF BlockInv, Uses, bwrite_done
<1>2. ASSUME NEW c \in Nums PROVE Contents(c)' = Contents(c)
  <2>1. CASE c = Block(t)
    <3>1. blockno[my[t]] = c /\ valid[my[t]]
      BY <1>0, <2>1 DEF ValidInv, Block, bwrite_done
    <3>. QED
      BY <1>0, <1>1, <3>1, ContentsOf, ContentsOfNext DEF bwrite_done, buffers
  <2>2. CASE c # Block(t)
    <3>1. disk'[c] = disk[c] BY <1>0, <2>2 DEF Types, bwrite_done
    <3>. QED BY <1>0, <3>1, ContentsOf, ContentsOfNext DEF bwrite_done, buffers
  <2>. QED BY <2>1, <2>2
<1>3. holders' = holders
  BY HoldersSame DEF bwrite_done, Goto, Block, buffers
<1>. QED BY <1>2, <1>3, ValSame DEF StoreStep

(* The other steps change no block and no holder.                          *)
LEMMA OthersRefine ==
    ASSUME CacheInv, NEW t \in Threads,
           \/ \E b \in Nums : bget_cached(t, b)
           \/ log_write(t) \/ bwrite(t) \/ bunpin(t) \/ brelse_count(t)
    PROVE  StoreStep
<1>0. Types /\ BlockInv BY DEF CacheInv
<1>1. val' = val
  <2>1. UNCHANGED <<blockno, valid, data, disk>>
    BY DEF bget_cached, log_write, bwrite, bunpin, brelse_count, buffers
  <2>2. \A b \in Nums : Contents(b)' = Contents(b) BY <2>1 DEF Contents, Cached
  <2>. QED BY <2>2, ValSame
<1>2. holders' = holders
  <2>1. ASSUME NEW b \in Nums, bget_cached(t, b) PROVE holders' = holders
    BY <2>1, HoldersSame DEF bget_cached, Use, Goto, Block
  <2>2. CASE log_write(t) BY <2>2, HoldersSame DEF log_write, Block
  <2>3. CASE bwrite(t)
    BY <2>3, HoldersSame DEF bwrite, Goto, Block, buffers
  <2>4. CASE bunpin(t) BY <2>4, HoldersSame DEF bunpin, Block, threads
  <2>5. CASE brelse_count(t)
    BY <2>5, HoldersSame DEF brelse_count, Goto, Block
  <2>. QED BY <2>1, <2>2, <2>3, <2>4, <2>5
<1>. QED BY <1>1, <1>2 DEF StoreStep

LEMMA InitRefines == Init => Store!BlocksInit
<1>. SUFFICES ASSUME Init PROVE Store!BlocksInit
  OBVIOUS
<1>1. ASSUME NEW b \in Nums PROVE Contents(b) \in Vals /\ Holders(b) = {}
  BY BcacheConstants DEF Init, Contents, Holders
<1>. QED BY <1>1 DEF Store!BlocksInit, val, holders

(* bio.c:5: the cache is "a synchronization point for disk blocks": one    *)
(* thread at a time holds a block, and finds what the last one left.       *)
THEOREM OneCopyOfEachBlock == Spec => ImplementsBlocks
<1>1. CacheInv /\ CacheInv' /\ [Next]_vars => [Store!BlocksNext]_<<val, holders>>
  <2>. SUFFICES ASSUME CacheInv, CacheInv', [Next]_vars PROVE StoreStep
    BY DEF StoreStep
  <2>1. ASSUME NEW t \in Threads, Thread(t, Nums) PROVE StoreStep
    BY <2>1, acquiresleepRefines, bread_doneRefines, modifyRefines,
       brelse_unlockRefines, bget_recycleRefines, bwrite_doneRefines, OthersRefine
    DEF Thread
  <2>2. CASE UNCHANGED vars
    BY <2>2 DEF vars, buffers, threads, StoreStep, val, holders, Contents, Cached,
             Holders, Block
  <2>. QED BY <2>1, <2>2 DEF Next
<1>. QED
  BY <1>1, InitRefines, CacheInvariant, PTL DEF Spec, ImplementsBlocks, Store!BlocksSpec
===============================================================================
