----------------------------- MODULE FileSystemProofs ----------------------------
(***************************************************************************)
(* Proofs about the file system.                                           *)
(*                                                                         *)
(* The first part is about Contents, the module extended, for any image    *)
(* without holes, any number of files, of blocks and of processes: each    *)
(* block is used by one place, what a file has below its size is there, no *)
(* call panics, no transaction logs more blocks than begin_op() reserved,  *)
(* and the blocks implement ByteFiles.                                     *)
(*                                                                         *)
(* The second part is about Files, for any processes, names and sizes of   *)
(* the tables: references and links are counted, a file that is used stays *)
(* allocated, and the only panic is that of iget() when the inode table is *)
(* full.                                                                   *)
(*                                                                         *)
(* The third part is about Tree, for any processes, names, paths and       *)
(* number of inodes: directories are a tree, nobody waits in a circle, and *)
(* only a path with ".." can get to a panic.  The parts do not depend on   *)
(* one another.                                                            *)
(***************************************************************************)
EXTENDS Contents, FiniteSetTheorems, WellFoundedInduction, TLAPS, SequenceTheorems

Cell == {byte} \cup Procs \cup 0 .. NBLOCKS
Dinode == [size : Nat, addrs : [0 .. NDIRECT -> 0 .. NBLOCKS]]
Busy == {"writei", "iupdate", "itrunc"}

Types ==
    /\ used \subseteq Blocks
    /\ block \in [Blocks -> [0 .. BSIZE - 1 -> Cell]]
    /\ dinode \in [Made -> Dinode] /\ inode \in [Made -> Dinode]
    /\ owner \in [Made -> Procs \cup {Nobody}]
    /\ off \in [Opened -> Nat]
    /\ pc \in [Procs -> {"idle", "begin_op"} \cup Busy]
    /\ fd \in [Procs -> Opened \cup {Nobody}]
    /\ left \in [Procs -> Nat] /\ done \in [Procs -> Nat]
    /\ logged \in [Procs -> SUBSET ({"bitmap", "data"} \X Nat)]

(* A call has the lock of its file's inode, from the first step of its     *)
(* transaction to the last, and what it keeps is of this transaction.      *)
LockInv ==
    /\ \A p \in Procs : pc[p] # "idle" => fd[p] \in Opened
    /\ \A p \in Procs : pc[p] \in Busy => owner[Ip(p)] = p
    /\ \A i \in Made : owner[i] # Nobody => pc[owner[i]] \in Busy /\ Ip(owner[i]) = i
    /\ \A p \in Procs : pc[p] \notin Busy => done[p] = 0 /\ logged[p] = {}
    /\ \A p \in Procs : pc[p] = "itrunc" => Truncates

(* The bitmap has the blocks that some place of a file names, and each is  *)
(* named at one place.                                                     *)
Places == Made \X (0 .. MAXFILE)
Map == [x \in Places |-> At(x[1], x[2])]
NamedOnce(f, u) ==
    /\ f \in [Places -> 0 .. NBLOCKS]
    /\ \A b \in Blocks : b \in u <=> \E x \in Places : f[x] = b
    /\ \A x, y \in Places : f[x] = f[y] /\ f[x] # 0 => x = y

(* An indirect block holds block numbers.                                  *)
EntriesInv(i) ==
    Indirect(i) # 0 => block[Indirect(i)] \in [0 .. BSIZE - 1 -> 0 .. NBLOCKS]

(* A file that is not being truncated has the blocks below its size.       *)
FilledTo(i, s) == \A n \in 0 .. MAXFILE - 1 : n * BSIZE < s => Addr(i, n) # 0
Truncating(i) == owner[i] # Nobody /\ pc[owner[i]] = "itrunc"
WholeInv(i) ==
    /\ owner[i] = Nobody => inode[i] = dinode[i]
    /\ ~Truncating(i) => inode[i].size <= MAXFILE * BSIZE /\ FilledTo(i, inode[i].size)

(* A write begins at or before the end of its file, and where it has come  *)
(* to there are blocks behind it.                                          *)
InWrite(p) == pc[p] \in {"writei", "iupdate"}
WriteInv(p) ==
    InWrite(p) =>
        /\ off[fd[p]] <= inode[Ip(p)].size
        /\ done[p] <= Todo(p) /\ off[fd[p]] + Todo(p) <= MAXFILE * BSIZE
        /\ FilledTo(Ip(p), Here(p))

(* What it logs are the blocks that its bytes fall into, the bitmaps of    *)
(* those that begin behind the offset, since only these may be new, and    *)
(* the indirect block with its bitmap.                                     *)
First(p) == off[fd[p]] \div BSIZE
End(p) == off[fd[p]] + Todo(p)
MayLog(p, x) ==
    \/ \E n \in 0 .. MAXFILE - 1 :
         /\ First(p) <= n /\ n * BSIZE < End(p) /\ Addr(Ip(p), n) # 0
         /\ \/ x = DBLOCK(Addr(Ip(p), n))
            \/ off[fd[p]] <= n * BSIZE /\ x = BBLOCK(Addr(Ip(p), n))
    \/ /\ Indirect(Ip(p)) # 0
       /\ x \in {DBLOCK(Indirect(Ip(p))), BBLOCK(Indirect(Ip(p)))}
LogInv(p) ==
    /\ InWrite(p) => \A x \in logged[p] : MayLog(p, x)
    /\ pc[p] = "itrunc" => \A x \in logged[p] : \E b \in Blocks : x = BBLOCK(b)

ContentsInv ==
    /\ Types /\ LockInv /\ NamedOnce(Map, used)
    /\ \A i \in Made : EntriesInv(i) /\ WholeInv(i)
    /\ \A p \in Procs : WriteInv(p) /\ LogInv(p)
-------------------------------------------------------------------------------
(* Bytes and blocks.                                                       *)
LEMMA Division ==
    ASSUME NEW a \in Nat, NEW B \in Nat \ {0}
    PROVE  /\ a \div B \in Nat /\ a % B \in 0 .. B - 1
           /\ a = (a \div B) * B + (a % B)
OBVIOUS

LEMMA Multiple == ASSUME NEW x \in Int, NEW B \in Nat \ {0}, x >= 1 PROVE x * B >= B
OBVIOUS

LEMMA Reaches ==
    ASSUME NEW B \in Nat \ {0}, NEW a \in Nat, NEW n \in Nat
    PROVE  n <= a \div B <=> n * B <= a
<1>. DEFINE q == a \div B
            r == a % B
<1>. HIDE DEF q, r
<1>2. a = q * B + r /\ q \in Nat /\ r \in 0 .. B - 1 BY Division DEF q, r
<1>3. CASE n <= q
  <2>1. q * B = n * B + (q - n) * B BY <1>2
  <2>2. (q - n) * B >= 0 BY <1>2, <1>3
  <2>3. n * B \in Int /\ q * B \in Int /\ (q - n) * B \in Int BY <1>2
  <2>. QED BY <1>2, <1>3, <2>1, <2>2, <2>3 DEF q
<1>4. CASE n > q
  <2>1. n * B = q * B + (n - q) * B BY <1>2
  <2>2. (n - q) * B >= B BY <1>2, <1>4, Multiple
  <2>3. n * B \in Int /\ q * B \in Int /\ (n - q) * B \in Int BY <1>2
  <2>. QED BY <1>2, <1>4, <2>1, <2>2, <2>3 DEF q
<1>. QED BY <1>2, <1>3, <1>4

(* The least and the greatest.                                             *)
LEMMA MinIsLeast ==
    ASSUME NEW S, IsFiniteSet(S), S \subseteq Int, S # {}
    PROVE  Min(S) \in S /\ \A y \in S : Min(S) <= y
<1>. DEFINE Below(x) == {y \in S : y < x}
            T == {Below(x) : x \in S}
            R == StrictSubsetOrdering(S)
<1>1. IsWellFoundedOn(R, SUBSET S)
  BY FS_StrictSubsetOrderingWellFounded, FS_FiniteSubsetsOfFinite
<1>2. T \subseteq SUBSET S /\ T # {} OBVIOUS
<1>3. \E x \in T : \A y \in T : ~ (<<y, x>> \in R)
  <2>. HIDE DEF R, T
  <2>. QED BY <1>1, <1>2, WFMin
<1>4. PICK x \in S : \A y \in S : <<Below(y), Below(x)>> \notin R BY <1>3
<1>5. ASSUME NEW y \in S, y < x PROVE FALSE
  <2>1. ASSUME NEW z \in Below(y) PROVE z \in Below(x)
    <3>1. z \in Int /\ y \in Int /\ x \in Int OBVIOUS
    <3>2. z < y OBVIOUS
    <3>. QED BY <3>1, <3>2, <1>5
  <2>2. y \in Below(x) /\ y \notin Below(y) BY <1>5
  <2>3. <<Below(y), Below(x)>> \in R BY <2>1, <2>2 DEF StrictSubsetOrdering
  <2>. QED BY <1>4, <2>3
<1>6. \A y \in S : x =< y BY <1>5
<1>. QED BY <1>6 DEF Min

LEMMA MinOfTwo ==
    ASSUME NEW a \in Int, NEW b \in Int
    PROVE  Min({a, b}) = IF a <= b THEN a ELSE b
<1>1. CASE a <= b
  <2>1. \E x \in {a, b} : \A y \in {a, b} : x =< y BY <1>1
  <2>. QED BY <1>1, <2>1 DEF Min
<1>2. CASE ~(a <= b)
  <2>1. \E x \in {a, b} : \A y \in {a, b} : x =< y BY <1>2
  <2>. QED BY <1>2, <2>1 DEF Min
<1>. QED BY <1>1, <1>2

LEMMA MaxOfTwo ==
    ASSUME NEW a \in Int, NEW b \in Int
    PROVE  Max({a, b}) = IF a <= b THEN b ELSE a
<1>1. CASE a <= b
  <2>1. \E x \in {a, b} : \A y \in {a, b} : x >= y BY <1>1
  <2>. QED BY <1>1, <2>1 DEF Max
<1>2. CASE ~(a <= b)
  <2>1. \E x \in {a, b} : \A y \in {a, b} : x >= y BY <1>2
  <2>. QED BY <1>2, <2>1 DEF Max
<1>. QED BY <1>1, <1>2

(* A free block, named at a place that named none; a named one, given back. *)
LEMMA NamesOneMore ==
    ASSUME NEW f, NEW u, NamedOnce(f, u), NEW x \in Places, f[x] = 0,
           NEW b \in Blocks, b \notin u
    PROVE  NamedOnce([f EXCEPT ![x] = b], u \cup {b})
<1>. DEFINE g == [f EXCEPT ![x] = b]
<1>1. b # 0 /\ b \in 0 .. NBLOCKS BY DEF Blocks
<1>2. g \in [Places -> 0 .. NBLOCKS] BY <1>1 DEF NamedOnce
<1>3. \A y \in Places : g[y] = IF y = x THEN b ELSE f[y] BY DEF NamedOnce
<1>4. \A y \in Places : f[y] # b BY DEF NamedOnce
<1>. HIDE DEF g
<1>5. \A c \in Blocks : c \in u \cup {b} <=> \E y \in Places : g[y] = c
  <2>. TAKE c \in Blocks
  <2>1. CASE c = b BY <1>3, <2>1
  <2>2. CASE c # b
    <3>1. c # 0 BY DEF Blocks
    <3>2. \A y \in Places : f[y] = c <=> g[y] = c BY <1>3, <1>4, <2>2, <3>1
    <3>. QED BY <2>2, <3>2 DEF NamedOnce
  <2>. QED BY <2>1, <2>2
<1>6. \A y, z \in Places : g[y] = g[z] /\ g[y] # 0 => y = z BY <1>3, <1>4 DEF NamedOnce
<1>7. NamedOnce(g, u \cup {b}) BY <1>2, <1>5, <1>6 DEF NamedOnce
<1>. QED BY <1>7 DEF g

LEMMA NamesOneLess ==
    ASSUME ContentsConstants, NEW f, NEW u, NamedOnce(f, u), NEW x \in Places, f[x] # 0
    PROVE  f[x] \in u /\ NamedOnce([f EXCEPT ![x] = 0], u \ {f[x]})
<1>. DEFINE g == [f EXCEPT ![x] = 0]
            b == f[x]
<1>2. b \in Blocks /\ b \in 0 .. NBLOCKS BY DEF NamedOnce, Blocks
<1>3. \A y \in Places : g[y] = IF y = x THEN 0 ELSE f[y] BY DEF NamedOnce
<1>4. \A y \in Places : f[y] = b <=> y = x BY DEF NamedOnce
<1>8. b \in u BY <1>2 DEF NamedOnce
<1>9. b # 0 OBVIOUS
<1>10. 0 \in 0 .. NBLOCKS BY DEF ContentsConstants
<1>11. g \in [Places -> 0 .. NBLOCKS] BY <1>10 DEF NamedOnce
<1>. HIDE DEF g, b
<1>5. \A c \in Blocks : c \in u \ {b} <=> \E y \in Places : g[y] = c
  <2>. TAKE c \in Blocks
  <2>1. c # 0 BY DEF Blocks
  <2>2. CASE c = b BY <1>3, <1>4, <1>9, <2>2
  <2>3. CASE c # b
    <3>1. \A y \in Places : f[y] = c <=> g[y] = c BY <1>3, <1>4, <2>1, <2>3 DEF b
    <3>. QED BY <2>3, <3>1 DEF NamedOnce
  <2>. QED BY <2>2, <2>3
<1>6. \A y, z \in Places : g[y] = g[z] /\ g[y] # 0 => y = z BY <1>3 DEF NamedOnce
<1>7. NamedOnce(g, u \ {b}) BY <1>5, <1>6, <1>11 DEF NamedOnce
<1>. QED BY <1>7, <1>8 DEF g, b
-------------------------------------------------------------------------------
LEMMA Sizes ==
    ASSUME ContentsConstants
    PROVE  /\ NBLOCKS \in Nat \ {0} /\ BSIZE \in Nat \ {0} /\ NDIRECT \in Nat /\ BPB \in Nat \ {0}
           /\ MAXFILE \in Nat \ {0} /\ MAXFILE = NDIRECT + BSIZE /\ NINDIRECT = BSIZE
           /\ MAXFILE * BSIZE \in Nat
           /\ MaxWrite \in Nat \ {0}
<1>1. NINDIRECT \in Nat \ {0} /\ NDIRECT \in Nat /\ BPB \in Nat \ {0} /\ NBLOCKS \in Nat \ {0}
  BY DEF ContentsConstants
<1>2. MAXOPBLOCKS \in Nat /\ MAXOPBLOCKS >= 6 BY DEF ContentsConstants
<1>3. (MAXOPBLOCKS - 1 - 1 - 2) \div 2 \in Nat \ {0} BY <1>2
<1>. DEFINE k == (MAXOPBLOCKS - 1 - 1 - 2) \div 2
<1>4. \A x, y \in Nat \ {0} : x * y \in Nat \ {0} OBVIOUS
<1>5. MaxWrite \in Nat \ {0}
  <2>. HIDE DEF k
  <2>1. k * NINDIRECT \in Nat \ {0} BY <1>1, <1>3, <1>4 DEF k
  <2>. QED BY <2>1 DEF MaxWrite, BSIZE, k
<1>6. MAXFILE \in Nat \ {0} BY <1>1 DEF MAXFILE
<1>7. MAXFILE * BSIZE \in Nat BY <1>1, <1>6, <1>4 DEF BSIZE
<1>. QED BY <1>1, <1>5, <1>6, <1>7 DEF BSIZE, MAXFILE

(* What is left of a call, or of the longest write that a transaction does. *)
LEMMA TodoIs ==
    ASSUME ContentsConstants, Types, NEW p \in Procs
    PROVE  Todo(p) \in Nat /\ Todo(p) <= MaxWrite /\ Todo(p) <= left[p]
<1>1. MaxWrite \in Nat BY Sizes
<1>2. left[p] \in Nat BY DEF Types
<1>3. Todo(p) = IF left[p] <= MaxWrite THEN left[p] ELSE MaxWrite
  BY <1>1, <1>2, MinOfTwo DEF Todo
<1>. QED BY <1>1, <1>2, <1>3

LEMMA AddrTypes ==
    ASSUME ContentsConstants, Types, NEW i \in Made, EntriesInv(i)
    PROVE  /\ Indirect(i) \in 0 .. NBLOCKS
           /\ \A n \in 0 .. MAXFILE - 1 : Addr(i, n) \in 0 .. NBLOCKS
<1>0. NDIRECT \in Nat /\ MAXFILE \in Nat BY Sizes
<1>1. inode[i].addrs \in [0 .. NDIRECT -> 0 .. NBLOCKS] BY DEF Types, Dinode
<1>2. Indirect(i) \in 0 .. NBLOCKS BY <1>0, <1>1 DEF Indirect
<1>3. ASSUME NEW n \in 0 .. MAXFILE - 1 PROVE Addr(i, n) \in 0 .. NBLOCKS
  <2>1. CASE n < NDIRECT BY <1>0, <1>1, <2>1 DEF Addr
  <2>2. CASE n >= NDIRECT /\ Indirect(i) = 0 BY <1>0, <1>2, <2>2 DEF Addr
  <2>3. CASE n >= NDIRECT /\ Indirect(i) # 0
    <3>1. n - NDIRECT \in 0 .. BSIZE - 1 BY <2>3, Sizes
    <3>2. block[Indirect(i)][n - NDIRECT] \in 0 .. NBLOCKS BY <2>3, <3>1 DEF EntriesInv
    <3>. QED BY <1>0, <2>3, <3>2 DEF Addr
  <2>. QED BY <1>0, <2>1, <2>2, <2>3
<1>. QED BY <1>2, <1>3

(* balloc() finds a block that nobody has.                                 *)
LEMMA Chosen ==
    ASSUME ContentsConstants, Types, Free # {}
    PROVE  balloc \in Blocks /\ balloc \notin used
<1>1. IsFiniteSet(Blocks) /\ Blocks \subseteq Int BY Sizes, FS_Interval DEF Blocks
<1>2. IsFiniteSet(Free) BY <1>1, FS_Subset DEF Free
<1>3. Free \subseteq Int BY <1>1 DEF Free
<1>4. Min(Free) \in Free BY <1>2, <1>3, MinIsLeast
<1>. QED BY <1>4 DEF balloc, Free

(* While one process works on one file, the others and theirs are as they  *)
(* were.                                                                   *)
Touches(p, i) ==
    /\ \A j \in Made \ {i} :
         /\ inode'[j] = inode[j] /\ dinode'[j] = dinode[j] /\ owner'[j] = owner[j]
         /\ Indirect(j) # 0 => block'[Indirect(j)] = block[Indirect(j)]
    /\ \A o \in Opened : FileOf[o] # i => off'[o] = off[o]
    /\ \A q \in Procs \ {p} :
         /\ pc'[q] = pc[q] /\ fd'[q] = fd[q]
         /\ left'[q] = left[q] /\ done'[q] = done[q] /\ logged'[q] = logged[q]
    /\ owner[i] \in {p, Nobody} /\ owner'[i] \in {p, Nobody}
    /\ pc[p] \in Busy => Ip(p) = i

LEMMA WhoPasses ==
    ASSUME ContentsConstants, Types, LockInv, NEW i \in Made, NEW n
    PROVE  Passed(i, n) <=> Truncating(i) /\ n < done[owner[i]]
<1>1. Nobody \notin Procs BY DEF ContentsConstants
<1>2. ASSUME NEW p \in Procs, pc[p] = "itrunc", Ip(p) = i PROVE owner[i] = p
  BY <1>2 DEF LockInv, Busy
<1>3. ASSUME Truncating(i) PROVE owner[i] \in Procs /\ Ip(owner[i]) = i
  BY <1>3 DEF Truncating, LockInv, Types
<1>. QED BY <1>1, <1>2, <1>3 DEF Passed, Truncating

(* What a process has of its own is disjoint from the others'.             *)
LEMMA OthersElsewhere ==
    ASSUME ContentsConstants, Types, LockInv, NEW p \in Procs, NEW i \in Made, Touches(p, i),
           NEW q \in Procs, q # p, pc[q] \in Busy
    PROVE  /\ fd[q] \in Opened /\ Ip(q) \in Made /\ Ip(q) # i
           /\ fd'[q] = fd[q] /\ Ip(q)' = Ip(q) /\ off'[fd[q]] = off[fd[q]]
<1>1. Nobody \notin Procs /\ FileOf \in [Opened -> Made] BY DEF ContentsConstants
<1>2. fd[q] \in Opened /\ owner[Ip(q)] = q BY DEF LockInv, Busy
<1>3. Ip(q) \in Made BY <1>1, <1>2 DEF Ip
<1>4. Ip(q) # i BY <1>1, <1>2 DEF Touches
<1>5. fd'[q] = fd[q] /\ Ip(q)' = Ip(q) BY DEF Touches, Ip
<1>6. off'[fd[q]] = off[fd[q]] BY <1>2, <1>4 DEF Touches, Ip
<1>. QED BY <1>2, <1>3, <1>4, <1>5, <1>6

LEMMA AddrElsewhere ==
    ASSUME NEW p, NEW i, Touches(p, i), NEW j \in Made, j # i
    PROVE  Indirect(j)' = Indirect(j) /\ \A n : Addr(j, n)' = Addr(j, n)
<1>1. inode'[j] = inode[j] BY DEF Touches
<1>2. Indirect(j)' = Indirect(j) BY <1>1 DEF Indirect
<1>3. Indirect(j) # 0 => block'[Indirect(j)] = block[Indirect(j)] BY DEF Touches
<1>. QED BY <1>1, <1>2, <1>3 DEF Addr

LEMMA NamesElsewhere ==
    ASSUME ContentsConstants, Types, LockInv, NEW p \in Procs, NEW i \in Made, Touches(p, i),
           (Types /\ LockInv)', NEW j \in Made, j # i
    PROVE  Truncating(j)' = Truncating(j) /\ \A n : At(j, n)' = At(j, n)
<1>1. Nobody \notin Procs BY DEF ContentsConstants
<1>2. owner'[j] = owner[j] BY DEF Touches
<1>3. owner[j] # p BY <1>1 DEF LockInv, Touches
<1>4. ASSUME NEW n PROVE Passed(j, n)' <=> Passed(j, n)
  <2>1. ~(pc'[p] = "itrunc" /\ Ip(p)' = j) BY <1>2, <1>3 DEF LockInv, Busy
  <2>2. ~(pc[p] = "itrunc" /\ Ip(p) = j) BY <1>3 DEF LockInv, Busy
  <2>3. ASSUME NEW q \in Procs, q # p
        PROVE  pc'[q] = pc[q] /\ Ip(q)' = Ip(q) /\ done'[q] = done[q]
    BY <2>3 DEF Touches, Ip
  <2>4. ASSUME NEW q \in Procs
        PROVE  pc'[q] = "itrunc" /\ Ip(q)' = j /\ n < done'[q]
                 <=> pc[q] = "itrunc" /\ Ip(q) = j /\ n < done[q]
    BY <2>1, <2>2, <2>3
  <2>. QED BY <2>4 DEF Passed
<1>5. Truncating(j)' = Truncating(j)
  <2>1. owner[j] \in Procs \cup {Nobody} BY DEF Types
  <2>2. CASE owner[j] = Nobody BY <1>2, <2>2 DEF Truncating
  <2>3. CASE owner[j] \in Procs
    <3>1. pc'[owner[j]] = pc[owner[j]] BY <1>3, <2>3 DEF Touches
    <3>. QED BY <1>2, <3>1 DEF Truncating
  <2>. QED BY <2>1, <2>2, <2>3
<1>6. Indirect(j)' = Indirect(j) /\ \A n : Addr(j, n)' = Addr(j, n) BY AddrElsewhere
<1>. QED BY <1>4, <1>5, <1>6 DEF At

(* The files and the processes that are not touched keep what holds of them. *)
LEMMA FilesElsewhere ==
    ASSUME ContentsConstants, Types, LockInv, NEW p \in Procs, NEW i \in Made, Touches(p, i),
           (Types /\ LockInv)', NEW j \in Made, j # i, EntriesInv(j), WholeInv(j)
    PROVE  EntriesInv(j)' /\ WholeInv(j)'
<1>1. /\ inode'[j] = inode[j] /\ dinode'[j] = dinode[j] /\ owner'[j] = owner[j]
      /\ Indirect(j) # 0 => block'[Indirect(j)] = block[Indirect(j)]
  BY DEF Touches
<1>2. Indirect(j)' = Indirect(j) /\ \A n : Addr(j, n)' = Addr(j, n) BY AddrElsewhere
<1>3. Truncating(j)' = Truncating(j) BY NamesElsewhere
<1>4. EntriesInv(j)' BY <1>1, <1>2 DEF EntriesInv
<1>5. WholeInv(j)' BY <1>1, <1>2, <1>3 DEF WholeInv, FilledTo
<1>. QED BY <1>4, <1>5

LEMMA WritesElsewhere ==
    ASSUME ContentsConstants, Types, LockInv, NEW p \in Procs, NEW i \in Made, Touches(p, i),
           NEW q \in Procs, q # p, WriteInv(q), LogInv(q)
    PROVE  WriteInv(q)' /\ LogInv(q)'
<1>1. /\ pc'[q] = pc[q] /\ left'[q] = left[q] /\ done'[q] = done[q] /\ logged'[q] = logged[q]
  BY DEF Touches
<1>2. CASE pc[q] \notin Busy
  BY <1>1, <1>2 DEF WriteInv, LogInv, InWrite, Busy
<1>3. CASE pc[q] \in Busy
  <2>1. /\ fd[q] \in Opened /\ Ip(q) \in Made /\ Ip(q) # i
        /\ fd'[q] = fd[q] /\ Ip(q)' = Ip(q) /\ off'[fd[q]] = off[fd[q]]
    BY <1>3, OthersElsewhere
  <2>2. /\ Indirect(Ip(q))' = Indirect(Ip(q)) /\ inode'[Ip(q)] = inode[Ip(q)]
        /\ \A n : Addr(Ip(q), n)' = Addr(Ip(q), n)
    <3>1. ASSUME NEW j \in Made, j = Ip(q)
          PROVE  Indirect(j)' = Indirect(j) /\ \A n : Addr(j, n)' = Addr(j, n)
      BY <2>1, <3>1, AddrElsewhere
    <3>2. inode'[Ip(q)] = inode[Ip(q)] BY <2>1 DEF Touches
    <3>3. Indirect(Ip(q))' = Indirect(Ip(q)) BY <2>1, <3>2 DEF Indirect
    <3>. QED BY <2>1, <3>1, <3>2, <3>3
  <2>3. Todo(q)' = Todo(q) /\ Here(q)' = Here(q) BY <1>1, <2>1 DEF Todo, Here
  <2>4. WriteInv(q)'
    BY <1>1, <2>1, <2>2, <2>3 DEF WriteInv, InWrite, FilledTo
  <2>5. First(q)' = First(q) /\ End(q)' = End(q) BY <2>1, <2>3 DEF First, End
  <2>6. ASSUME NEW x, MayLog(q, x) PROVE MayLog(q, x)'
    BY <2>1, <2>2, <2>5, <2>6 DEF MayLog
  <2>7. LogInv(q)' BY <1>1, <2>6 DEF LogInv, InWrite
  <2>. QED BY <2>4, <2>7
<1>. QED BY <1>2, <1>3

(* A step in which one process works on one file keeps the whole, if it    *)
(* keeps the bitmap and what holds of that process and of that file.       *)
LEMMA Combined ==
    ASSUME ContentsConstants, ContentsInv, NEW p \in Procs, NEW i \in Made, Touches(p, i),
           (Types /\ LockInv)', NamedOnce(Map', used'),
           (EntriesInv(i) /\ WholeInv(i))', (WriteInv(p) /\ LogInv(p))'
    PROVE  ContentsInv'
<1>. Types /\ LockInv BY DEF ContentsInv
<1>1. ASSUME NEW j \in Made PROVE EntriesInv(j)' /\ WholeInv(j)'
  <2>1. CASE j = i BY <2>1
  <2>2. CASE j # i
    <3>1. EntriesInv(j) /\ WholeInv(j) BY DEF ContentsInv
    <3>. QED BY <2>2, <3>1, FilesElsewhere
  <2>. QED BY <2>1, <2>2
<1>2. ASSUME NEW q \in Procs PROVE WriteInv(q)' /\ LogInv(q)'
  <2>1. CASE q = p BY <2>1
  <2>2. CASE q # p
    <3>1. WriteInv(q) /\ LogInv(q) BY DEF ContentsInv
    <3>. QED BY <2>2, <3>1, WritesElsewhere
  <2>. QED BY <2>1, <2>2
<1>3. NamedOnce(Map, used)' BY DEF NamedOnce
<1>. QED BY <1>1, <1>2, <1>3 DEF ContentsInv

LEMMA SameNames ==
    ASSUME ContentsConstants, Types, LockInv, NEW p \in Procs, NEW i \in Made, Touches(p, i),
           (Types /\ LockInv)', \A n \in 0 .. MAXFILE : At(i, n)' = At(i, n)
    PROVE  Map' = Map
<1>1. ASSUME NEW x \in Places PROVE At(x[1], x[2])' = At(x[1], x[2])
  <2>1. x[1] \in Made /\ x[2] \in 0 .. MAXFILE BY DEF Places
  <2>2. CASE x[1] = i BY <2>1, <2>2
  <2>3. CASE x[1] # i
    <3>. DEFINE j == x[1]
                n == x[2]
    <3>1. j \in Made /\ j # i BY <2>1, <2>3
    <3>. HIDE DEF j, n
    <3>2. At(j, n)' = At(j, n) BY <3>1, NamesElsewhere
    <3>. QED BY <3>2 DEF j, n
  <2>. QED BY <2>2, <2>3
<1>. QED BY <1>1 DEF Map

LEMMA OneName ==
    ASSUME ContentsConstants, Types, LockInv, NEW p \in Procs, NEW i \in Made, Touches(p, i),
           (Types /\ LockInv)', NEW m \in 0 .. MAXFILE, NEW b, At(i, m)' = b,
           \A n \in (0 .. MAXFILE) \ {m} : At(i, n)' = At(i, n)
    PROVE  /\ <<i, m>> \in Places /\ Map[<<i, m>>] = At(i, m)
           /\ Map' = [Map EXCEPT ![<<i, m>>] = b]
<1>1. ASSUME NEW x \in Places
      PROVE  At(x[1], x[2])' = IF x = <<i, m>> THEN b ELSE At(x[1], x[2])
  <2>1. x[1] \in Made /\ x[2] \in 0 .. MAXFILE /\ x = <<x[1], x[2]>> BY DEF Places
  <2>2. CASE x[1] = i /\ x[2] = m BY <2>1, <2>2
  <2>3. CASE x[1] = i /\ x[2] # m BY <2>1, <2>3
  <2>4. CASE x[1] # i
    <3>. DEFINE j == x[1]
                n == x[2]
    <3>1. j \in Made /\ j # i BY <2>1, <2>4
    <3>. HIDE DEF j, n
    <3>2. At(j, n)' = At(j, n) BY <3>1, NamesElsewhere
    <3>3. At(x[1], x[2])' = At(x[1], x[2]) BY <3>2 DEF j, n
    <3>. QED BY <2>4, <3>3
  <2>. QED BY <2>2, <2>3, <2>4
<1>2. <<i, m>> \in Places BY DEF Places
<1>3. Map[<<i, m>>] = At(i, m) BY <1>2 DEF Map
<1>. QED BY <1>1, <1>2, <1>3 DEF Map
-------------------------------------------------------------------------------
(* What a process that has an inode knows of it.                           *)
LEMMA Holder ==
    ASSUME ContentsConstants, Types, LockInv, NEW p \in Procs, pc[p] \in Busy
    PROVE  /\ fd[p] \in Opened /\ Ip(p) \in Made /\ owner[Ip(p)] = p /\ p # Nobody
           /\ Truncating(Ip(p)) <=> pc[p] = "itrunc"
           /\ \A n : Passed(Ip(p), n) <=> pc[p] = "itrunc" /\ n < done[p]
<1>1. Nobody \notin Procs /\ FileOf \in [Opened -> Made] BY DEF ContentsConstants
<1>2. fd[p] \in Opened /\ owner[Ip(p)] = p BY DEF LockInv, Busy
<1>3. Ip(p) \in Made BY <1>1, <1>2 DEF Ip
<1>4. Truncating(Ip(p)) <=> pc[p] = "itrunc" BY <1>1, <1>2 DEF Truncating
<1>5. \A n : Passed(Ip(p), n) <=> pc[p] = "itrunc" /\ n < done[p]
  BY <1>2, <1>3, <1>4, WhoPasses
<1>. QED BY <1>1, <1>2, <1>3, <1>4, <1>5

(* The same of the state after a step.                                     *)
LEMMA HolderAfter ==
    ASSUME ContentsConstants, (Types /\ LockInv)', NEW p \in Procs, pc'[p] \in Busy
    PROVE  /\ fd'[p] \in Opened /\ Ip(p)' \in Made /\ owner'[Ip(p)'] = p /\ p # Nobody
           /\ \A i : i = Ip(p)' => (Truncating(i)' <=> pc'[p] = "itrunc")
           /\ \A i, n : i = Ip(p)' => (Passed(i, n)' <=> pc'[p] = "itrunc" /\ n < done'[p])
<1>1. Nobody \notin Procs /\ FileOf \in [Opened -> Made] BY DEF ContentsConstants
<1>2. fd'[p] \in Opened /\ owner'[Ip(p)'] = p BY DEF LockInv, Busy
<1>3. Ip(p)' \in Made BY <1>1, <1>2 DEF Ip
<1>4. ASSUME NEW i, i = Ip(p)' PROVE Truncating(i)' <=> pc'[p] = "itrunc"
  BY <1>1, <1>2, <1>4 DEF Truncating
<1>5. ASSUME NEW i, NEW n, i = Ip(p)'
      PROVE  Passed(i, n)' <=> pc'[p] = "itrunc" /\ n < done'[p]
  <2>1. ASSUME NEW q \in Procs, pc'[q] = "itrunc", Ip(q)' = i PROVE q = p
    BY <1>2, <1>5, <2>1 DEF LockInv, Busy
  <2>. QED BY <1>5, <2>1 DEF Passed
<1>. QED BY <1>1, <1>2, <1>3, <1>4, <1>5

(* The inode locks, while a transaction goes on, begins and ends.          *)
Others(p) ==
    \A q \in Procs \ {p} :
        pc'[q] = pc[q] /\ fd'[q] = fd[q] /\ done'[q] = done[q] /\ logged'[q] = logged[q]

LEMMA LocksHeld ==
    ASSUME ContentsConstants, Types, LockInv, NEW p \in Procs, pc[p] \in Busy,
           pc'[p] \in Busy,
           Others(p), fd'[p] = fd[p], owner' = owner, pc'[p] = "itrunc" => pc[p] = "itrunc"
    PROVE  LockInv'
<1>1. \A q \in Procs : fd'[q] = fd[q] /\ (pc'[q] \in Busy <=> pc[q] \in Busy)
  BY DEF Others
<1>2. \A q \in Procs : pc'[q] # "idle" => fd'[q] \in Opened
  BY <1>1 DEF Others, LockInv, Busy
<1>3. \A q \in Procs : pc'[q] = "itrunc" => Truncates BY DEF Others, LockInv
<1>4. \A q \in Procs : pc'[q] \notin Busy => done'[q] = 0 /\ logged'[q] = {}
  BY <1>1 DEF Others, LockInv
<1>5. ASSUME NEW i \in Made, owner'[i] # Nobody
      PROVE  pc'[owner'[i]] \in Busy /\ FileOf[fd'[owner'[i]]] = i
  <2>1. owner'[i] = owner[i] /\ pc[owner[i]] \in Busy /\ FileOf[fd[owner[i]]] = i
    BY <1>5 DEF LockInv, Ip
  <2>2. owner[i] \in Procs BY <1>5 DEF Types
  <2>. QED BY <1>1, <2>1, <2>2
<1>6. \A q \in Procs : pc'[q] \in Busy => owner'[FileOf[fd'[q]]] = q
  BY <1>1 DEF LockInv, Ip
<1>. QED BY <1>2, <1>3, <1>4, <1>5, <1>6 DEF LockInv, Ip

LEMMA LocksReleased ==
    ASSUME ContentsConstants, Types, LockInv, NEW p \in Procs, pc[p] \in Busy,
           pc'[p] \notin Busy,
           Others(p), done'[p] = 0, logged'[p] = {},
           owner' = [owner EXCEPT ![Ip(p)] = Nobody],
           pc'[p] # "idle" => fd'[p] = fd[p]
    PROVE  LockInv'
<1>1. \A q \in Procs : pc'[q] \in Busy => q # p /\ pc[q] \in Busy /\ fd'[q] = fd[q]
  BY DEF Others
<1>2. \A q \in Procs : pc'[q] # "idle" => fd'[q] \in Opened BY DEF Others, LockInv, Busy
<1>3. \A q \in Procs : pc'[q] = "itrunc" => Truncates BY DEF Others, LockInv, Busy
<1>4. \A q \in Procs : pc'[q] \notin Busy => done'[q] = 0 /\ logged'[q] = {}
  BY <1>1 DEF Others, LockInv
<1>7. Ip(p) \in Made /\ owner[Ip(p)] = p BY Holder
<1>5. ASSUME NEW i \in Made, owner'[i] # Nobody
      PROVE  pc'[owner'[i]] \in Busy /\ FileOf[fd'[owner'[i]]] = i
  <2>0. i # Ip(p) BY <1>5, <1>7 DEF Types
  <2>1. owner'[i] = owner[i] BY <2>0 DEF Types
  <2>2. owner[i] \in Procs /\ owner[i] # Nobody BY <1>5, <2>1 DEF Types
  <2>3. pc[owner[i]] \in Busy /\ FileOf[fd[owner[i]]] = i BY <2>2 DEF LockInv, Ip
  <2>4. owner[i] # p BY <2>0, <2>3 DEF Ip
  <2>. QED BY <2>1, <2>2, <2>3, <2>4 DEF Others
<1>6. ASSUME NEW q \in Procs, pc'[q] \in Busy PROVE owner'[FileOf[fd'[q]]] = q
  <2>1. q # p /\ pc[q] \in Busy /\ fd'[q] = fd[q] BY <1>1, <1>6
  <2>2. owner[FileOf[fd[q]]] = q /\ FileOf[fd[q]] \in Made BY <2>1, Holder DEF Ip
  <2>3. FileOf[fd[q]] # Ip(p) BY <1>7, <2>1, <2>2
  <2>. QED BY <2>1, <2>2, <2>3 DEF Types
<1>. QED BY <1>2, <1>3, <1>4, <1>5, <1>6 DEF LockInv, Ip

LEMMA LocksTaken ==
    ASSUME ContentsConstants, Types, LockInv, NEW p \in Procs, pc[p] \notin Busy,
           pc'[p] \in Busy,
           Others(p), NEW o \in Opened, fd'[p] = o, owner[FileOf[o]] = Nobody,
           owner' = [owner EXCEPT ![FileOf[o]] = p], pc'[p] = "itrunc" => Truncates
    PROVE  LockInv'
<1>0. Nobody \notin Procs /\ FileOf[o] \in Made BY DEF ContentsConstants
<1>2. \A q \in Procs : pc'[q] # "idle" => fd'[q] \in Opened BY DEF Others, LockInv
<1>3. \A q \in Procs : pc'[q] = "itrunc" => Truncates BY DEF Others, LockInv
<1>4. \A q \in Procs : pc'[q] \notin Busy => done'[q] = 0 /\ logged'[q] = {}
  BY DEF Others, LockInv
<1>5. ASSUME NEW i \in Made, owner'[i] # Nobody
      PROVE  pc'[owner'[i]] \in Busy /\ FileOf[fd'[owner'[i]]] = i
  <2>1. CASE i = FileOf[o]
    <3>1. owner'[i] = p BY <2>1 DEF Types
    <3>. QED BY <2>1, <3>1
  <2>2. CASE i # FileOf[o]
    <3>1. owner'[i] = owner[i] BY <2>2 DEF Types
    <3>2. owner[i] \in Procs /\ owner[i] # Nobody BY <1>5, <3>1 DEF Types
    <3>3. pc[owner[i]] \in Busy /\ FileOf[fd[owner[i]]] = i BY <3>2 DEF LockInv, Ip
    <3>4. owner[i] # p BY <3>3
    <3>. QED BY <3>1, <3>2, <3>3, <3>4 DEF Others
  <2>. QED BY <2>1, <2>2
<1>6. ASSUME NEW q \in Procs, pc'[q] \in Busy PROVE owner'[FileOf[fd'[q]]] = q
  <2>1. CASE q = p BY <1>0, <2>1 DEF Types
  <2>2. CASE q # p
    <3>1. pc[q] \in Busy /\ fd'[q] = fd[q] BY <1>6, <2>2 DEF Others
    <3>2. owner[FileOf[fd[q]]] = q /\ FileOf[fd[q]] \in Made BY <3>1, Holder DEF Ip
    <3>3. FileOf[fd[q]] # FileOf[o] BY <1>0, <3>2
    <3>. QED BY <3>1, <3>2, <3>3 DEF Types
  <2>. QED BY <2>1, <2>2
<1>. QED BY <1>2, <1>3, <1>4, <1>5, <1>6 DEF LockInv, Ip

(* Steps outside transactions.                                             *)
LEMMA LocksApart ==
    ASSUME ContentsConstants, Types, LockInv, NEW p \in Procs, pc[p] \notin Busy,
           pc'[p] \notin Busy,
           Others(p), owner' = owner, done'[p] = 0, logged'[p] = {},
           pc'[p] # "idle" => fd'[p] \in Opened
    PROVE  LockInv'
<1>2. \A q \in Procs : pc'[q] # "idle" => fd'[q] \in Opened BY DEF Others, LockInv
<1>3. \A q \in Procs : pc'[q] = "itrunc" => Truncates BY DEF Others, LockInv, Busy
<1>4. \A q \in Procs : pc'[q] \notin Busy => done'[q] = 0 /\ logged'[q] = {}
  BY DEF Others, LockInv
<1>5. ASSUME NEW i \in Made, owner'[i] # Nobody
      PROVE  pc'[owner'[i]] \in Busy /\ FileOf[fd'[owner'[i]]] = i
  <2>1. owner[i] \in Procs BY <1>5 DEF Types
  <2>2. pc[owner[i]] \in Busy /\ FileOf[fd[owner[i]]] = i BY <1>5 DEF LockInv, Ip
  <2>3. owner[i] # p BY <2>2
  <2>. QED BY <2>1, <2>2, <2>3 DEF Others
<1>6. \A q \in Procs : pc'[q] \in Busy => owner'[FileOf[fd'[q]]] = q
  BY DEF Others, LockInv, Ip
<1>. QED BY <1>2, <1>3, <1>4, <1>5, <1>6 DEF LockInv, Ip

(* The steps that change no block and no inode.                            *)
LEMMA Quiet ==
    ASSUME ContentsConstants, ContentsInv, NEW p \in Procs, NEW i \in Made, Touches(p, i),
           (Types /\ LockInv)', UNCHANGED disk, inode' = inode,
           \A n \in 0 .. MAXFILE : Passed(i, n)' <=> Passed(i, n),
           Truncating(i) => Truncating(i)', owner'[i] = Nobody => owner[i] = Nobody,
           (WriteInv(p) /\ LogInv(p))'
    PROVE  ContentsInv'
<1>. Types /\ LockInv /\ EntriesInv(i) /\ WholeInv(i) /\ NamedOnce(Map, used)
  BY DEF ContentsInv
<1>1. used' = used /\ block' = block /\ dinode' = dinode BY DEF disk
<1>2. Indirect(i)' = Indirect(i) /\ \A n : Addr(i, n)' = Addr(i, n)
  BY <1>1 DEF Indirect, Addr
<1>3. \A n \in 0 .. MAXFILE : At(i, n)' = At(i, n) BY <1>2 DEF At
<1>4. NamedOnce(Map', used') BY <1>1, <1>3, SameNames
<1>5. EntriesInv(i)' BY <1>1, <1>2 DEF EntriesInv
<1>6. WholeInv(i)' BY <1>1, <1>2 DEF WholeInv, FilledTo
<1>. QED BY <1>4, <1>5, <1>6, Combined

LEMMA FilewriteStep ==
    ASSUME ContentsConstants, ContentsInv, NEW p \in Procs, NEW o \in Opened,
           NEW n \in Lengths,
           filewrite(p, o, n)
    PROVE  ContentsInv'
<1>. Types /\ LockInv /\ NamedOnce(Map, used) BY DEF ContentsInv
<1>1. /\ pc[p] = "idle" /\ pc' = [pc EXCEPT ![p] = "begin_op"]
      /\ fd' = [fd EXCEPT ![p] = o] /\ left' = [left EXCEPT ![p] = n]
  BY DEF filewrite, Goto
<1>2. /\ used' = used /\ block' = block /\ dinode' = dinode /\ inode' = inode
      /\ owner' = owner /\ off' = off /\ done' = done /\ logged' = logged
  BY DEF filewrite, disk
<1>3. n \in Nat BY DEF ContentsConstants
<1>4. pc'[p] = "begin_op" /\ fd'[p] = o /\ done[p] = 0 /\ logged[p] = {}
  BY <1>1 DEF Types, LockInv, Busy
<1>5. \A q \in Procs \ {p} : pc'[q] = pc[q] /\ fd'[q] = fd[q] /\ left'[q] = left[q]
  BY <1>1 DEF Types
<1>6. Types' BY <1>1, <1>2, <1>3 DEF Types
<1>7. LockInv'
  <2>1. Others(p) BY <1>2, <1>5 DEF Others
  <2>. QED BY <1>1, <1>2, <1>4, <2>1, LocksApart DEF Busy
<1>8. ASSUME NEW i \in Made
      PROVE  /\ \A m : Addr(i, m)' = Addr(i, m) /\ At(i, m)' = At(i, m)
             /\ EntriesInv(i)' /\ WholeInv(i)'
  <2>1. Indirect(i)' = Indirect(i) /\ \A m : Addr(i, m)' = Addr(i, m)
    BY <1>2 DEF Indirect, Addr
  <2>2. \A q \in Procs : pc'[q] = "itrunc" <=> pc[q] = "itrunc" BY <1>1, <1>4, <1>5
  <2>3. \A m : Passed(i, m)' <=> Passed(i, m)
    <3>1. ASSUME NEW m, NEW q \in Procs
          PROVE  pc'[q] = "itrunc" /\ Ip(q)' = i /\ m < done'[q]
                   <=> pc[q] = "itrunc" /\ Ip(q) = i /\ m < done[q]
      BY <1>1, <1>2, <1>4, <1>5 DEF Ip
    <3>. QED BY <3>1 DEF Passed
  <2>4. Truncating(i)' = Truncating(i) BY <1>2, <2>2 DEF Truncating, Types
  <2>5. EntriesInv(i)' BY <1>2, <2>1 DEF EntriesInv, ContentsInv
  <2>6. WholeInv(i)'
    <3>1. WholeInv(i) BY DEF ContentsInv
    <3>. QED BY <1>2, <2>1, <2>4, <3>1 DEF WholeInv, FilledTo
  <2>. QED BY <2>1, <2>3, <2>5, <2>6 DEF At
<1>9. NamedOnce(Map, used)'
  <2>1. Map' = Map BY <1>8 DEF Map, Places
  <2>. QED BY <1>2, <2>1 DEF NamedOnce
<1>10. ASSUME NEW q \in Procs PROVE WriteInv(q)' /\ LogInv(q)'
  <2>1. CASE q = p BY <1>4, <2>1 DEF WriteInv, LogInv, InWrite
  <2>2. CASE q # p /\ pc[q] \notin Busy
    BY <1>5, <2>2 DEF WriteInv, LogInv, InWrite, Busy
  <2>3. CASE q # p /\ pc[q] \in Busy
    <3>1. /\ pc'[q] = pc[q] /\ Ip(q)' = Ip(q) /\ Todo(q)' = Todo(q) /\ Here(q)' = Here(q)
          /\ First(q)' = First(q) /\ End(q)' = End(q) /\ off'[fd'[q]] = off[fd[q]]
          /\ done'[q] = done[q] /\ logged'[q] = logged[q] /\ inode' = inode
      BY <1>2, <1>5, <2>3 DEF Ip, Todo, Here, First, End
    <3>2. Ip(q) \in Made BY <2>3, Holder
    <3>3. \A m : Addr(Ip(q), m)' = Addr(Ip(q), m) BY <1>2, <3>1 DEF Addr, Indirect
    <3>4. Indirect(Ip(q))' = Indirect(Ip(q)) BY <1>2, <3>1 DEF Indirect
    <3>5. WriteInv(q)'
      <4>1. WriteInv(q) BY DEF ContentsInv
      <4>. QED BY <3>1, <3>3, <4>1 DEF WriteInv, InWrite, FilledTo
    <3>6. \A x : MayLog(q, x)' <=> MayLog(q, x)
      <4>1. fd'[q] = fd[q] /\ off' = off BY <1>2, <1>5, <2>3
      <4>. QED BY <3>1, <3>3, <3>4, <4>1 DEF MayLog
    <3>7. LogInv(q)'
      <4>1. LogInv(q) BY DEF ContentsInv
      <4>. QED BY <3>1, <3>6, <4>1 DEF LogInv, InWrite
    <3>. QED BY <3>5, <3>7
  <2>. QED BY <2>1, <2>2, <2>3
<1>. QED BY <1>6, <1>7, <1>8, <1>9, <1>10 DEF ContentsInv

LEMMA WriteiStep ==
    ASSUME ContentsConstants, ContentsInv, NEW p \in Procs, writei(p)
    PROVE  ContentsInv' /\ \E i \in Made : i = Ip(p) /\ Touches(p, i)
<1>. Types /\ LockInv BY DEF ContentsInv
<1>0. PICK i \in Made : i = Ip(p) BY DEF ContentsConstants, LockInv, Ip, writei
<1>1. /\ pc[p] = "begin_op" /\ pc' = [pc EXCEPT ![p] = "writei"] /\ ~Refused(p)
      /\ owner[i] = Nobody /\ owner' = [owner EXCEPT ![i] = p]
  BY <1>0 DEF writei, Goto, ilock
<1>2. /\ UNCHANGED disk /\ used' = used /\ block' = block /\ dinode' = dinode
      /\ inode' = inode /\ off' = off /\ fd' = fd /\ left' = left
      /\ done' = done /\ logged' = logged
  BY DEF writei, disk
<1>3. /\ Nobody \notin Procs /\ p # Nobody /\ fd[p] \in Opened /\ i = FileOf[fd[p]]
  BY <1>0, <1>1 DEF ContentsConstants, LockInv, Ip
<1>4. pc'[p] = "writei" /\ done[p] = 0 /\ logged[p] = {} /\ owner'[i] = p
  <2>1. pc'[p] = "writei" /\ owner'[i] = p BY <1>1 DEF Types
  <2>2. done[p] = 0 /\ logged[p] = {} BY <1>1 DEF LockInv, Busy
  <2>. QED BY <2>1, <2>2
<1>5. Types'
  <2>1. pc' \in [Procs -> {"idle", "begin_op"} \cup Busy] BY <1>1 DEF Types, Busy
  <2>2. owner' \in [Made -> Procs \cup {Nobody}] BY <1>1 DEF Types
  <2>. QED BY <1>2, <2>1, <2>2 DEF Types
<1>6. LockInv'
  <2>1. Others(p) BY <1>1, <1>2 DEF Others, Types
  <2>. QED BY <1>1, <1>2, <1>3, <1>4, <2>1, LocksTaken DEF Busy
<1>7. Touches(p, i) BY <1>1, <1>2, <1>3, <1>4 DEF Touches, Types, Busy
<1>8. Ip(p) = i /\ Ip(p)' = i /\ Todo(p)' = Todo(p) /\ Here(p)' = off[fd[p]]
  <2>1. off[fd[p]] \in Nat BY <1>3 DEF Types
  <2>. QED BY <1>0, <1>2, <1>4, <2>1 DEF Ip, Todo, Here
<1>9. ~Truncating(i) /\ ~Truncating(i)' /\ \A n : ~Passed(i, n) /\ ~Passed(i, n)'
  <2>1. ~Truncating(i) /\ \A n : ~Passed(i, n) BY <1>1, <1>3, WhoPasses DEF Truncating
  <2>2. ~Truncating(i)' BY <1>4 DEF Truncating
  <2>3. \A n : ~Passed(i, n)' BY <1>4, <1>5, <1>6, <1>8, HolderAfter DEF Busy
  <2>. QED BY <2>1, <2>2, <2>3
<1>10. WriteInv(p)'
  <2>1. WholeInv(i) BY <1>3 DEF ContentsInv
  <2>2. off[fd[p]] \in Nat /\ inode[i].size \in Nat BY <1>3 DEF Types, Dinode
  <2>3. off[fd[p]] <= inode[i].size /\ off[fd[p]] + Todo(p) <= MAXFILE * BSIZE
    <3>1. off[fd[p]] + Todo(p) \in Int /\ MAXFILE * BSIZE \in Int BY <2>2, TodoIs, Sizes
    <3>. QED BY <1>0, <1>1, <2>2, <3>1 DEF Refused
  <2>4. FilledTo(i, inode[i].size) BY <1>9, <2>1 DEF WholeInv
  <2>5. ASSUME NEW n \in 0 .. MAXFILE - 1, n * BSIZE < off[fd[p]] PROVE Addr(i, n) # 0
    <3>1. n * BSIZE \in Int BY Sizes
    <3>2. n * BSIZE < inode[i].size BY <2>2, <2>3, <2>5, <3>1
    <3>. QED BY <2>4, <3>2 DEF FilledTo
  <2>6. FilledTo(i, off[fd[p]]) BY <2>5 DEF FilledTo
  <2>7. FilledTo(i, off[fd[p]])' BY <1>2, <2>6 DEF FilledTo, Addr, Indirect
  <2>8. FilledTo(Ip(p), Here(p))' BY <1>2, <1>8, <2>7 DEF FilledTo
  <2>9. done'[p] <= Todo(p)' BY <1>2, <1>4, <1>8, TodoIs
  <2>. QED BY <1>2, <1>8, <2>3, <2>8, <2>9 DEF WriteInv
<1>11. LogInv(p)' BY <1>2, <1>4 DEF LogInv
<1>100. ContentsInv' BY <1>2, <1>3, <1>4, <1>5, <1>6, <1>7, <1>9, <1>10, <1>11, Quiet
<1>. QED BY <1>100, <1>0, <1>7

LEMMA RefusedStep ==
    ASSUME ContentsConstants, ContentsInv, NEW p \in Procs, writei_refused(p)
    PROVE  ContentsInv' /\ \E i \in Made : i = Ip(p) /\ Touches(p, i)
<1>. Types /\ LockInv BY DEF ContentsInv
<1>0. PICK i \in Made : i = Ip(p) BY DEF ContentsConstants, LockInv, Ip, writei_refused
<1>1. /\ pc[p] = "begin_op" /\ pc' = [pc EXCEPT ![p] = "idle"]
      /\ owner[i] = Nobody /\ owner' = [owner EXCEPT ![i] = Nobody]
      /\ fd' = [fd EXCEPT ![p] = Nobody] /\ left' = [left EXCEPT ![p] = 0]
      /\ done' = [done EXCEPT ![p] = 0] /\ logged' = [logged EXCEPT ![p] = {}]
  BY <1>0 DEF writei_refused, end_op, Goto, iunlock
<1>2. /\ UNCHANGED disk /\ used' = used /\ block' = block /\ dinode' = dinode
      /\ inode' = inode /\ off' = off
  BY DEF writei_refused, disk
<1>3. /\ Nobody \notin Procs /\ p # Nobody /\ fd[p] \in Opened /\ i = FileOf[fd[p]]
  BY <1>0, <1>1 DEF ContentsConstants, LockInv, Ip
<1>4. /\ pc'[p] = "idle" /\ done'[p] = 0 /\ logged'[p] = {} /\ owner' = owner
  BY <1>1, <1>3 DEF Types
<1>5. Types' BY <1>1, <1>2, <1>3, <1>4 DEF Types
<1>6. LockInv'
  <2>1. Others(p) BY <1>1 DEF Others, Types
  <2>. QED BY <1>1, <1>4, <2>1, LocksApart DEF Busy
<1>7. Touches(p, i) BY <1>1, <1>2, <1>3, <1>4 DEF Touches, Types, Busy
<1>9. ~Truncating(i) /\ \A n : ~Passed(i, n) /\ ~Passed(i, n)'
  <2>1. ~Truncating(i) /\ \A n : ~Passed(i, n) BY <1>1, <1>3, WhoPasses DEF Truncating
  <2>2. ASSUME NEW q \in Procs, pc'[q] = "itrunc", Ip(q)' = i PROVE FALSE
    <3>1. owner'[i] = q BY <1>6, <2>2 DEF LockInv, Busy
    <3>. QED BY <1>1, <1>3, <1>4, <3>1
  <2>. QED BY <2>1, <2>2 DEF Passed
<1>10. WriteInv(p)' /\ LogInv(p)' BY <1>4 DEF WriteInv, LogInv, InWrite
<1>100. ContentsInv' BY <1>1, <1>2, <1>3, <1>4, <1>5, <1>6, <1>7, <1>9, <1>10, Quiet
<1>. QED BY <1>100, <1>0, <1>7

LEMMA ShortStep ==
    ASSUME ContentsConstants, ContentsInv, NEW p \in Procs, writei_short(p)
    PROVE  ContentsInv' /\ \E i \in Made : i = Ip(p) /\ Touches(p, i)
<1>. Types /\ LockInv BY DEF ContentsInv
<1>0. PICK i \in Made : i = Ip(p)
  <2>1. pc[p] \in Busy BY DEF writei_short, Writing, Busy
  <2>. QED BY <2>1, Holder
<1>1. /\ pc[p] = "writei" /\ pc' = [pc EXCEPT ![p] = "iupdate"]
      /\ UNCHANGED disk /\ used' = used /\ block' = block /\ dinode' = dinode
      /\ inode' = inode /\ off' = off /\ fd' = fd /\ left' = left
      /\ done' = done /\ logged' = logged /\ owner' = owner
  BY DEF writei_short, Goto, disk, Writing
<1>2. /\ fd[p] \in Opened /\ owner[i] = p /\ p # Nobody
      /\ ~Truncating(i) /\ \A n : ~Passed(i, n)
  BY <1>0, <1>1, Holder DEF Busy
<1>4. pc'[p] = "iupdate" BY <1>1 DEF Types
<1>5. Types' BY <1>1 DEF Types, Busy
<1>6. LockInv'
  <2>1. Others(p) BY <1>1 DEF Others, Types
  <2>. QED BY <1>1, <1>4, <2>1, LocksHeld DEF Busy
<1>7. Touches(p, i) BY <1>0, <1>1, <1>2 DEF Touches, Types
<1>8. Ip(p) = i /\ Ip(p)' = i /\ Todo(p)' = Todo(p) /\ Here(p)' = Here(p)
  BY <1>0, <1>1 DEF Ip, Todo, Here
<1>9. \A n : ~Passed(i, n)' BY <1>4, <1>5, <1>6, <1>8, HolderAfter DEF Busy
<1>10. WriteInv(p)'
  <2>1. WriteInv(p) /\ InWrite(p) BY <1>1 DEF ContentsInv, InWrite
  <2>2. \A n : Addr(i, n)' = Addr(i, n) BY <1>1 DEF Addr, Indirect
  <2>. QED BY <1>1, <1>8, <2>1, <2>2 DEF WriteInv, FilledTo
<1>11. LogInv(p)'
  <2>1. LogInv(p) /\ InWrite(p) BY <1>1 DEF ContentsInv, InWrite
  <2>2. Indirect(i)' = Indirect(i) /\ \A n : Addr(i, n)' = Addr(i, n)
    BY <1>1 DEF Addr, Indirect
  <2>3. First(p)' = First(p) /\ End(p)' = End(p) BY <1>1, <1>8 DEF First, End
  <2>4. \A x : MayLog(p, x) => MayLog(p, x)' BY <1>1, <1>8, <2>2, <2>3 DEF MayLog
  <2>. QED BY <1>1, <1>4, <2>1, <2>4 DEF LogInv
<1>100. ContentsInv' BY <1>1, <1>2, <1>5, <1>6, <1>7, <1>9, <1>10, <1>11, Quiet
<1>. QED BY <1>100, <1>0, <1>7

LEMMA OpenStep ==
    ASSUME ContentsConstants, ContentsInv, NEW p \in Procs, NEW o \in Opened, open(p, o)
    PROVE  ContentsInv' /\ Touches(p, FileOf[o])
<1>. Types /\ LockInv BY DEF ContentsInv
<1>0. PICK i \in Made : i = FileOf[o] BY DEF ContentsConstants
<1>1. /\ pc[p] = "idle" /\ owner[i] = Nobody /\ off' = [off EXCEPT ![o] = 0]
      /\ UNCHANGED disk /\ used' = used /\ block' = block /\ dinode' = dinode
      /\ inode' = inode /\ pc' = pc /\ fd' = fd /\ left' = left
      /\ done' = done /\ logged' = logged /\ owner' = owner
  BY <1>0 DEF open, disk, locals
<1>5. Types' BY <1>1 DEF Types
<1>6. LockInv' BY <1>1 DEF LockInv, Ip
<1>7. Touches(p, i) BY <1>0, <1>1 DEF Touches, Types, Busy
<1>9. \A n \in 0 .. MAXFILE : Passed(i, n)' <=> Passed(i, n) BY <1>1 DEF Passed, Ip
<1>10. WriteInv(p)' /\ LogInv(p)'
  BY <1>1 DEF WriteInv, LogInv, InWrite
<1>11. Truncating(i)' = Truncating(i) BY <1>1 DEF Truncating
<1>100. ContentsInv' BY <1>1, <1>5, <1>6, <1>7, <1>9, <1>10, <1>11, Quiet
<1>. QED BY <1>100, <1>0, <1>7

LEMMA OpenTruncStep ==
    ASSUME ContentsConstants, ContentsInv, NEW p \in Procs, NEW o \in Opened, open_trunc(p, o)
    PROVE  ContentsInv' /\ Touches(p, FileOf[o])
<1>. Types /\ LockInv BY DEF ContentsInv
<1>0. PICK i \in Made : i = FileOf[o] BY DEF ContentsConstants
<1>1. /\ pc[p] = "idle" /\ owner[i] = Nobody /\ off' = [off EXCEPT ![o] = 0] /\ Truncates
      /\ owner' = [owner EXCEPT ![i] = p] /\ fd' = [fd EXCEPT ![p] = o]
      /\ pc' = [pc EXCEPT ![p] = "itrunc"]
  BY <1>0 DEF open_trunc, ilock, Goto
<1>2. /\ UNCHANGED disk /\ used' = used /\ block' = block /\ dinode' = dinode
      /\ inode' = inode /\ left' = left /\ done' = done /\ logged' = logged
  BY DEF open_trunc, disk
<1>3. Nobody \notin Procs /\ p # Nobody BY DEF ContentsConstants
<1>4. /\ pc'[p] = "itrunc" /\ fd'[p] = o /\ owner'[i] = p /\ done[p] = 0 /\ logged[p] = {}
  <2>1. pc'[p] = "itrunc" /\ fd'[p] = o /\ owner'[i] = p BY <1>1 DEF Types
  <2>2. done[p] = 0 /\ logged[p] = {} BY <1>1 DEF LockInv, Busy
  <2>. QED BY <2>1, <2>2
<1>5. Types'
  <2>1. pc' \in [Procs -> {"idle", "begin_op"} \cup Busy] BY <1>1 DEF Types, Busy
  <2>2. owner' \in [Made -> Procs \cup {Nobody}] /\ off' \in [Opened -> Nat]
    BY <1>1 DEF Types
  <2>3. fd' \in [Procs -> Opened \cup {Nobody}] BY <1>1 DEF Types
  <2>. QED BY <1>2, <2>1, <2>2, <2>3 DEF Types
<1>6. LockInv'
  <2>1. Others(p) BY <1>1, <1>2 DEF Others, Types
  <2>. QED BY <1>0, <1>1, <1>4, <2>1, LocksTaken DEF Busy
<1>7. Touches(p, i)
  BY <1>0, <1>1, <1>2, <1>3, <1>4 DEF Touches, Types, Busy
<1>8. Ip(p)' = i BY <1>0, <1>4 DEF Ip
<1>9. ~Truncating(i) /\ \A n \in 0 .. MAXFILE : ~Passed(i, n) /\ ~Passed(i, n)'
  <2>1. ~Truncating(i) /\ \A n : ~Passed(i, n) BY <1>1, <1>3, WhoPasses DEF Truncating
  <2>2. \A n : Passed(i, n)' => n < 0
    BY <1>2, <1>4, <1>5, <1>6, <1>8, HolderAfter DEF Busy
  <2>3. \A n \in 0 .. MAXFILE : ~(n < 0) BY Sizes
  <2>. QED BY <2>1, <2>2, <2>3
<1>10. WriteInv(p)' BY <1>4 DEF WriteInv, InWrite
<1>11. LogInv(p)' BY <1>2, <1>4 DEF LogInv, InWrite
<1>100. ContentsInv'
  BY <1>1, <1>2, <1>3, <1>4, <1>5, <1>6, <1>7, <1>9, <1>10, <1>11, Quiet
<1>. QED BY <1>100, <1>0, <1>7

(* The block of a byte: what lies below the end of a filled file is there. *)
LEMMA BlockOf ==
    ASSUME ContentsConstants, NEW a \in Nat, NEW s \in Nat, a < s, s <= MAXFILE * BSIZE
    PROVE  a \div BSIZE \in 0 .. MAXFILE - 1 /\ (a \div BSIZE) * BSIZE <= a
<1>1. BSIZE \in Nat \ {0} /\ MAXFILE \in Nat \ {0} /\ MAXFILE * BSIZE \in Nat BY Sizes
<1>. DEFINE q == a \div BSIZE
<1>2. q \in Nat BY <1>1, Division
<1>. HIDE DEF q
<1>3. q * BSIZE <= a BY <1>1, <1>2, Reaches DEF q
<1>4. ~(MAXFILE * BSIZE <= a) BY <1>1
<1>5. ~(MAXFILE <= q) BY <1>1, <1>4, Reaches DEF q
<1>. QED BY <1>1, <1>2, <1>3, <1>5 DEF q

LEMMA NoHoles ==
    ASSUME ContentsConstants, NEW i, NEW s \in Nat, s <= MAXFILE * BSIZE, FilledTo(i, s),
           NEW S \in SUBSET Nat, \A b \in S : b < s
    PROVE  ~Holes(i, S)
<1>1. ASSUME NEW b \in S PROVE Addr(i, b \div BSIZE) # 0
  <2>1. b \in Nat /\ b < s OBVIOUS
  <2>. DEFINE q == b \div BSIZE
  <2>2. q \in 0 .. MAXFILE - 1 /\ q * BSIZE <= b BY <2>1, BlockOf
  <2>. HIDE DEF q
  <2>3. BSIZE \in Nat BY Sizes
  <2>4. q * BSIZE \in Nat
    <3>1. q \in Nat BY <2>2
    <3>. QED BY <2>3, <3>1
  <2>5. q * BSIZE < s BY <2>1, <2>2, <2>4
  <2>6. Addr(i, q) # 0 BY <2>2, <2>5 DEF FilledTo
  <2>. QED BY <2>6 DEF q
<1>. QED BY <1>1 DEF Holes

LEMMA FilereadStep ==
    ASSUME ContentsConstants, ContentsInv, NEW p \in Procs, NEW o \in Opened,
           NEW n \in Lengths,
           fileread(p, o, n)
    PROVE  ContentsInv' /\ Touches(p, FileOf[o])
<1>. Types /\ LockInv BY DEF ContentsInv
<1>0. PICK i \in Made : i = FileOf[o] BY DEF ContentsConstants
<1>. DEFINE r == Min({n, inode[i].size - off[o]})
<1>1. /\ pc[p] = "idle" /\ owner[i] = Nobody /\ r > 0
      /\ UNCHANGED disk /\ used' = used /\ block' = block /\ dinode' = dinode
      /\ inode' = inode /\ fd' = fd /\ left' = left
      /\ done' = done /\ logged' = logged /\ owner' = owner
  BY <1>0 DEF fileread, disk
<1>2. n \in Nat /\ inode[i].size \in Nat /\ off[o] \in Nat
  BY DEF ContentsConstants, Types, Dinode
<1>3. r \in Nat /\ off[o] + r <= inode[i].size
  <2>1. inode[i].size - off[o] \in Int /\ n \in Int BY <1>2
  <2>2. r = IF n <= inode[i].size - off[o] THEN n ELSE inode[i].size - off[o]
    BY <2>1, MinOfTwo
  <2>. HIDE DEF r
  <2>. QED BY <1>1, <1>2, <2>2
<1>4. ~Holes(i, off[o] .. off[o] + r - 1)
  <2>. HIDE DEF r
  <2>1. WholeInv(i) BY DEF ContentsInv
  <2>2. inode[i].size <= MAXFILE * BSIZE /\ FilledTo(i, inode[i].size)
    BY <1>1, <2>1 DEF WholeInv, Truncating
  <2>. DEFINE S == off[o] .. off[o] + r - 1
  <2>3. S \in SUBSET Nat /\ \A b \in S : b < inode[i].size BY <1>2, <1>3
  <2>. HIDE DEF S
  <2>4. ~Holes(i, S) BY <1>2, <2>2, <2>3, NoHoles
  <2>. QED BY <2>4 DEF S
<1>5. off' = [off EXCEPT ![o] = @ + r] /\ pc' = pc BY <1>0, <1>4 DEF fileread
<1>. HIDE DEF r
<1>6. Types'
  <2>1. off' \in [Opened -> Nat] BY <1>2, <1>3, <1>5 DEF Types
  <2>. QED BY <1>1, <1>5, <2>1 DEF Types
<1>7. LockInv' BY <1>1, <1>5 DEF LockInv, Ip
<1>8. Touches(p, i) BY <1>0, <1>1, <1>5 DEF Touches, Types, Busy
<1>9. \A m \in 0 .. MAXFILE : Passed(i, m)' <=> Passed(i, m)
  BY <1>1, <1>5 DEF Passed, Ip
<1>10. WriteInv(p)' /\ LogInv(p)' BY <1>1, <1>5 DEF WriteInv, LogInv, InWrite
<1>11. Truncating(i)' = Truncating(i) BY <1>1, <1>5 DEF Truncating
<1>100. ContentsInv' BY <1>1, <1>5, <1>6, <1>7, <1>8, <1>9, <1>10, <1>11, Quiet
<1>. QED BY <1>100, <1>0, <1>8
-------------------------------------------------------------------------------
(* The steps of a write.                                                   *)
Kept(i) ==
    /\ Indirect(i) # 0 => Indirect(i)' = Indirect(i)
    /\ \A n \in 0 .. MAXFILE - 1 : Addr(i, n) # 0 => Addr(i, n)' = Addr(i, n)

(* The data stays where it was, and a block that is new to the file is     *)
(* cleared.                                                                *)
DataKept(j) ==
    \A n \in 0 .. MAXFILE - 1 : At(j, n) # 0 => block'[At(j, n)] = block[At(j, n)]
Zeroed(i) ==
    \A n \in 0 .. MAXFILE - 1 :
        Addr(i, n) = 0 /\ Addr(i, n)' # 0 =>
            block'[Addr(i, n)'] = [c \in 0 .. BSIZE - 1 |-> 0]

WriteKeeps(p, i) ==
    /\ pc[p] = "writei" /\ UNCHANGED <<dinode, owner, off, pc, fd, left>>
    /\ \A q \in Procs \ {p} : done'[q] = done[q] /\ logged'[q] = logged[q]
    /\ \A j \in Made \ {i} :
         inode'[j] = inode[j] /\ (Indirect(j) # 0 => block'[Indirect(j)] = block[Indirect(j)])
    /\ inode'[i].size = inode[i].size /\ Kept(i)

LEMMA WriteKept ==
    ASSUME ContentsConstants, ContentsInv, NEW p \in Procs, NEW i \in Made, i = Ip(p),
           WriteKeeps(p, i), Types'
    PROVE  /\ Touches(p, i) /\ LockInv' /\ Ip(p)' = i /\ WholeInv(i)'
           /\ \A n : ~Passed(i, n) /\ ~Passed(i, n)'
           /\ off[fd[p]] \in Nat /\ done[p] \in Nat /\ Todo(p) \in Nat /\ WriteInv(p)
           /\ off'[fd'[p]] = off[fd[p]] /\ Todo(p)' = Todo(p)
           /\ \A s : FilledTo(i, s) => FilledTo(i, s)'
           /\ \A x : MayLog(p, x) => MayLog(p, x)'
<1>. Types /\ LockInv BY DEF ContentsInv
<1>1. /\ pc[p] = "writei" /\ dinode' = dinode /\ owner' = owner /\ off' = off
      /\ pc' = pc /\ fd' = fd /\ left' = left /\ inode'[i].size = inode[i].size
  BY DEF WriteKeeps
<1>2. /\ fd[p] \in Opened /\ owner[i] = p /\ p # Nobody
      /\ ~Truncating(i) /\ \A n : ~Passed(i, n)
  BY <1>1, Holder DEF Busy
<1>3. LockInv'
  <2>1. Others(p) BY <1>1 DEF Others, WriteKeeps
  <2>. QED BY <1>1, <2>1, LocksHeld DEF Busy
<1>4. Touches(p, i) BY <1>1, <1>2 DEF Touches, WriteKeeps
<1>5. Ip(p)' = i /\ off'[fd'[p]] = off[fd[p]] /\ Todo(p)' = Todo(p) BY <1>1 DEF Ip, Todo
<1>6. \A n : ~Passed(i, n)' BY <1>1, <1>3, <1>5, HolderAfter DEF Busy
<1>7. \A s : FilledTo(i, s) => FilledTo(i, s)' BY DEF FilledTo, WriteKeeps, Kept
<1>8. WholeInv(i)'
  <2>1. WholeInv(i) BY DEF ContentsInv
  <2>2. inode[i].size <= MAXFILE * BSIZE /\ FilledTo(i, inode[i].size)
    BY <1>2, <2>1 DEF WholeInv
  <2>3. \A n \in 0 .. MAXFILE - 1 : n * BSIZE < inode'[i].size => Addr(i, n)' # 0
    BY <1>1, <2>2 DEF FilledTo, WriteKeeps, Kept
  <2>4. FilledTo(i, inode[i].size)' BY <2>3 DEF FilledTo
  <2>5. inode'[i].size <= MAXFILE * BSIZE BY <1>1, <2>2
  <2>. QED BY <1>1, <1>2, <2>4, <2>5 DEF WholeInv
<1>9. First(p)' = First(p) /\ End(p)' = End(p) BY <1>5 DEF First, End
<1>10. ASSUME NEW x, MayLog(p, x) PROVE MayLog(p, x)'
  <2>1. CASE Indirect(i) # 0 /\ x \in {DBLOCK(Indirect(i)), BBLOCK(Indirect(i))}
    <3>1. Indirect(i)' = Indirect(i) BY <2>1 DEF WriteKeeps, Kept
    <3>. QED BY <1>5, <2>1, <3>1 DEF MayLog
  <2>2. ASSUME NEW n \in 0 .. MAXFILE - 1, First(p) <= n, n * BSIZE < End(p), Addr(i, n) # 0,
               \/ x = DBLOCK(Addr(i, n))
               \/ off[fd[p]] <= n * BSIZE /\ x = BBLOCK(Addr(i, n))
        PROVE  MayLog(p, x)'
    <3>1. Addr(i, n)' = Addr(i, n) BY <2>2 DEF WriteKeeps, Kept
    <3>. QED BY <1>5, <1>9, <2>2, <3>1 DEF MayLog
  <2>. QED BY <1>10, <2>1, <2>2 DEF MayLog
<1>11. off[fd[p]] \in Nat /\ done[p] \in Nat BY <1>2 DEF Types
<1>12. Todo(p) \in Nat /\ WriteInv(p) BY TodoIs DEF ContentsInv
<1>. QED BY <1>2, <1>3, <1>4, <1>5, <1>6, <1>7, <1>8, <1>10, <1>11, <1>12

LEMMA WriteCombined ==
    ASSUME ContentsConstants, ContentsInv, NEW p \in Procs, NEW i \in Made, i = Ip(p),
           WriteKeeps(p, i), Types', NamedOnce(Map', used'), EntriesInv(i)',
           done'[p] <= Todo(p),
           \A n \in 0 .. MAXFILE - 1 : n * BSIZE < off[fd[p]] + done'[p] => Addr(i, n) # 0,
           \A x \in logged'[p] \ logged[p] : MayLog(p, x)'
    PROVE  ContentsInv'
<1>1. /\ Touches(p, i) /\ LockInv' /\ Ip(p)' = i /\ WholeInv(i)'
      /\ off[fd[p]] \in Nat /\ Todo(p) \in Nat /\ WriteInv(p)
      /\ off'[fd'[p]] = off[fd[p]] /\ Todo(p)' = Todo(p)
      /\ \A x : MayLog(p, x) => MayLog(p, x)'
  BY WriteKept
<1>2. pc[p] = "writei" /\ pc' = pc /\ inode'[i].size = inode[i].size BY DEF WriteKeeps
<1>3. \A n \in 0 .. MAXFILE - 1 : n * BSIZE < off[fd[p]] + done'[p] => Addr(i, n)' # 0
  BY DEF WriteKeeps, Kept
<1>4. Here(p)' = off[fd[p]] + done'[p] BY <1>1 DEF Here
<1>5. WriteInv(p)'
  <2>1. off[fd[p]] <= inode[i].size /\ off[fd[p]] + Todo(p) <= MAXFILE * BSIZE
    BY <1>1, <1>2 DEF WriteInv, InWrite
  <2>2. FilledTo(i, Here(p))' BY <1>3, <1>4 DEF FilledTo
  <2>3. FilledTo(Ip(p), Here(p))' BY <1>1, <2>2 DEF FilledTo
  <2>. QED BY <1>1, <1>2, <2>1, <2>3 DEF WriteInv
<1>6. LogInv(p)'
  <2>1. LogInv(p) BY DEF ContentsInv
  <2>2. \A x \in logged'[p] : MayLog(p, x)' BY <1>1, <1>2, <2>1 DEF LogInv, InWrite
  <2>. QED BY <1>2, <2>2 DEF LogInv
<1>. QED BY <1>1, <1>5, <1>6, Combined

LEMMA Allocated ==
    ASSUME ContentsConstants, ContentsInv, NEW p \in Procs, NEW i \in Made, i = Ip(p),
           WriteKeeps(p, i), Types', EntriesInv(i)', Free # {}, used' = used \cup {balloc},
           NEW m \in 0 .. MAXFILE, At(i, m) = 0, At(i, m)' = balloc,
           \A n \in (0 .. MAXFILE) \ {m} : At(i, n)' = At(i, n),
           done' = done, \A x \in logged'[p] \ logged[p] : MayLog(p, x)'
    PROVE  ContentsInv'
<1>. Types /\ LockInv /\ NamedOnce(Map, used) BY DEF ContentsInv
<1>1. /\ Touches(p, i) /\ LockInv' /\ WriteInv(p) BY WriteKept
<1>2. PICK b \in Blocks : b = balloc /\ b \notin used BY Chosen
<1>3. /\ <<i, m>> \in Places /\ Map[<<i, m>>] = 0 /\ Map' = [Map EXCEPT ![<<i, m>>] = b]
  BY <1>1, <1>2, OneName
<1>4. PICK f : f = Map OBVIOUS
<1>5. NamedOnce([f EXCEPT ![<<i, m>>] = b], used \cup {b})
  BY <1>2, <1>3, <1>4, NamesOneMore
<1>6. NamedOnce(Map', used') BY <1>2, <1>3, <1>4, <1>5
<1>7. done[p] <= Todo(p) /\ FilledTo(i, off[fd[p]] + done[p])
  BY <1>1 DEF WriteInv, InWrite, WriteKeeps, Here
<1>. QED BY <1>6, <1>7, WriteCombined DEF FilledTo

(* The byte that is written next, and its block.                           *)
LEMMA WhereWriting ==
    ASSUME ContentsConstants, ContentsInv, NEW p \in Procs, Writing(p)
    PROVE  /\ off[fd[p]] \in Nat /\ done[p] \in Nat /\ Todo(p) \in Nat
           /\ Here(p) = off[fd[p]] + done[p] /\ Bn(p) \in 0 .. MAXFILE - 1
           /\ Bn(p) * BSIZE \in Nat /\ Bn(p) * BSIZE <= Here(p)
           /\ First(p) <= Bn(p) /\ Bn(p) * BSIZE < End(p)
           /\ off[fd[p]] + Todo(p) <= MAXFILE * BSIZE
           /\ Addr(Ip(p), Bn(p)) = 0 => off[fd[p]] <= Bn(p) * BSIZE
<1>. Types /\ LockInv BY DEF ContentsInv
<1>1. pc[p] = "writei" /\ done[p] < Todo(p) BY DEF Writing
<1>2. fd[p] \in Opened BY <1>1, Holder DEF Busy
<1>3. off[fd[p]] \in Nat /\ done[p] \in Nat /\ Todo(p) \in Nat BY <1>2, TodoIs DEF Types
<1>4. off[fd[p]] + Todo(p) <= MAXFILE * BSIZE /\ FilledTo(Ip(p), Here(p))
  BY <1>1 DEF ContentsInv, WriteInv, InWrite
<1>. DEFINE a == off[fd[p]]
            h == Here(p)
            t == Todo(p)
            n == Bn(p)
<1>5. h = a + done[p] BY DEF Here
<1>6. BSIZE \in Nat \ {0} /\ MAXFILE * BSIZE \in Nat /\ MAXFILE \in Nat BY Sizes
<1>7. n = h \div BSIZE BY DEF Bn
<1>. HIDE DEF a, h, t, n
<1>8. a \in Nat /\ t \in Nat /\ h \in Nat /\ a <= h /\ h < a + t /\ a + t <= MAXFILE * BSIZE
  BY <1>1, <1>3, <1>4, <1>5, <1>6 DEF a, t
<1>9. n \in 0 .. MAXFILE - 1 /\ n * BSIZE <= h
  BY <1>6, <1>7, <1>8, BlockOf
<1>10. n * BSIZE \in Nat
  <2>1. n \in Nat BY <1>9
  <2>. QED BY <1>6, <2>1
<1>11. a \div BSIZE <= n
  <2>. DEFINE k == a \div BSIZE
  <2>1. k \in Nat BY <1>6, <1>8, Division
  <2>. HIDE DEF k
  <2>2. k * BSIZE <= a BY <1>6, <1>8, <2>1, Reaches DEF k
  <2>3. k * BSIZE \in Nat BY <1>6, <2>1
  <2>4. k * BSIZE <= h BY <1>8, <2>2, <2>3
  <2>5. k <= n BY <1>6, <1>7, <1>8, <2>1, <2>4, Reaches
  <2>. QED BY <2>5 DEF k
<1>12. n * BSIZE < a + t BY <1>8, <1>9, <1>10
<1>13. ASSUME Addr(Ip(p), n) = 0 PROVE a <= n * BSIZE
  <2>1. ~(n * BSIZE < h) BY <1>4, <1>9, <1>13 DEF FilledTo, h
  <2>. QED BY <1>8, <1>10, <2>1
<1>. QED
  BY <1>3, <1>4, <1>5, <1>9, <1>10, <1>11, <1>12, <1>13 DEF a, h, t, n, First, End

(* Indirect blocks are in use, and no data is in them.                     *)
LEMMA IndirectUsed ==
    ASSUME ContentsConstants, ContentsInv, NEW j \in Made
    PROVE  /\ Indirect(j) # 0 => Indirect(j) \in used /\ Indirect(j) \in Blocks
           /\ \A i \in Made, n \in 0 .. MAXFILE - 1 :
                At(i, n) # 0 => At(i, n) # Indirect(j) /\ At(i, n) \in used
           /\ \A i \in Made : i # j /\ Indirect(j) # 0 => Indirect(i) # Indirect(j)
<1>1. MAXFILE \in Nat BY Sizes
<1>2. ASSUME NEW i \in Made, NEW n \in 0 .. MAXFILE
      PROVE  <<i, n>> \in Places /\ Map[<<i, n>>] = At(i, n)
    BY DEF Places, Map
<1>3. \A i \in Made : At(i, MAXFILE) = Indirect(i) BY DEF At
<1>4. MAXFILE \in 0 .. MAXFILE BY <1>1
<1>5. NamedOnce(Map, used) BY DEF ContentsInv
<1>6. ASSUME NEW i \in Made, NEW n \in 0 .. MAXFILE, At(i, n) # 0
      PROVE  At(i, n) \in used /\ At(i, n) \in Blocks
  <2>1. At(i, n) \in 0 .. NBLOCKS BY <1>2, <1>5 DEF NamedOnce
  <2>2. At(i, n) \in Blocks
    <3>1. NBLOCKS \in Nat BY Sizes
    <3>. QED BY <1>6, <2>1, <3>1 DEF Blocks
  <2>. QED BY <1>2, <1>5, <2>2 DEF NamedOnce
<1>7. ASSUME NEW i \in Made, NEW n \in 0 .. MAXFILE - 1, At(i, n) # 0
      PROVE  At(i, n) # Indirect(j) /\ At(i, n) \in used
  <2>1. n \in 0 .. MAXFILE /\ n # MAXFILE BY <1>1
  <2>2. <<i, n>> # <<j, MAXFILE>> BY <2>1
  <2>3. Map[<<i, n>>] = At(i, n) /\ Map[<<j, MAXFILE>>] = Indirect(j)
        /\ <<i, n>> \in Places /\ <<j, MAXFILE>> \in Places
    BY <1>2, <1>3, <1>4, <2>1
  <2>4. Map[<<i, n>>] # Map[<<j, MAXFILE>>] BY <1>5, <1>7, <2>2, <2>3 DEF NamedOnce
  <2>. QED BY <1>6, <1>7, <2>1, <2>3, <2>4
<1>8. ASSUME NEW i \in Made, i # j, Indirect(j) # 0 PROVE Indirect(i) # Indirect(j)
  <2>1. <<i, MAXFILE>> # <<j, MAXFILE>> BY <1>8
  <2>2. Map[<<i, MAXFILE>>] = Indirect(i) /\ Map[<<j, MAXFILE>>] = Indirect(j)
        /\ <<i, MAXFILE>> \in Places /\ <<j, MAXFILE>> \in Places
    BY <1>2, <1>3, <1>4
  <2>. QED BY <1>5, <1>8, <2>1, <2>2 DEF NamedOnce
<1>9. Indirect(j) # 0 => Indirect(j) \in used /\ Indirect(j) \in Blocks
  BY <1>3, <1>4, <1>6
<1>. QED BY <1>7, <1>8, <1>9

LEMMA BmapAddrStep ==
    ASSUME ContentsConstants, ContentsInv, NEW p \in Procs, bmap_addr(p)
    PROVE  /\ ContentsInv'
           /\ \E i \in Made : i = Ip(p) /\ Touches(p, i) /\ Kept(i) /\ Zeroed(i)
           /\ \A j \in Made : DataKept(j)
<1>. Types /\ LockInv BY DEF ContentsInv
<1>0. PICK i \in Made : i = Ip(p)
  <2>1. pc[p] \in Busy BY DEF bmap_addr, Writing, Busy
  <2>. QED BY <2>1, Holder
<1>1. PICK b \in Blocks : b = balloc /\ b \notin used
  <2>1. Free # {} BY DEF bmap_addr
  <2>. QED BY <2>1, Chosen
<1>2. PICK n \in 0 .. MAXFILE - 1 : n = Bn(p) BY WhereWriting DEF bmap_addr
<1>. DEFINE k == IF n < NDIRECT THEN n ELSE NDIRECT
            m == IF n < NDIRECT THEN n ELSE MAXFILE
<1>3. /\ Writing(p) /\ Free # {} /\ inode[i].addrs[k] = 0
      /\ used' = used \cup {b} /\ block' = [block EXCEPT ![b] = [c \in 0 .. BSIZE - 1 |-> 0]]
      /\ inode' = [inode EXCEPT ![i].addrs[k] = b]
      /\ logged' = [logged EXCEPT ![p] = @ \cup {BBLOCK(b), DBLOCK(b)}]
      /\ UNCHANGED <<dinode, owner, off, pc, fd, left>> /\ done' = done
  BY <1>0, <1>1, <1>2 DEF bmap_addr, bzero, log_write, Place
<1>4. /\ NDIRECT \in Nat /\ MAXFILE \in Nat \ {0} /\ BSIZE \in Nat \ {0} /\ BPB \in Nat \ {0}
      /\ NBLOCKS \in Nat \ {0} /\ MAXFILE = NDIRECT + BSIZE
  BY Sizes
<1>5. k \in 0 .. NDIRECT /\ m \in 0 .. MAXFILE BY <1>4
<1>6. b # 0 /\ b \in 0 .. NBLOCKS /\ b \in Nat BY DEF Blocks
<1>7. inode[i] \in Dinode BY DEF Types
<1>8. /\ inode'[i].size = inode[i].size
      /\ \A c \in 0 .. NDIRECT : inode'[i].addrs[c] = IF c = k THEN b ELSE inode[i].addrs[c]
      /\ \A j \in Made \ {i} : inode'[j] = inode[j]
  <2>. HIDE DEF k
  <2>1. inode'[i] = [inode[i] EXCEPT !.addrs[k] = b] BY <1>3 DEF Types
  <2>2. inode'[i].size = inode[i].size /\ inode'[i].addrs = [inode[i].addrs EXCEPT ![k] = b]
    BY <1>7, <2>1 DEF Dinode
  <2>3. inode[i].addrs \in [0 .. NDIRECT -> 0 .. NBLOCKS] BY <1>7 DEF Dinode
  <2>4. \A j \in Made \ {i} : inode'[j] = inode[j] BY <1>3 DEF Types
  <2>. QED BY <2>2, <2>3, <2>4
<1>9. block'[b] = [c \in 0 .. BSIZE - 1 |-> 0] /\ \A c \in Blocks \ {b} : block'[c] = block[c]
  BY <1>3 DEF Types
<1>10. Types'
  <2>1. used' \subseteq Blocks BY <1>3 DEF Types
  <2>2. block' \in [Blocks -> [0 .. BSIZE - 1 -> Cell]]
    <3>1. 0 \in Cell BY <1>4 DEF Cell
    <3>2. [c \in 0 .. BSIZE - 1 |-> 0] \in [0 .. BSIZE - 1 -> Cell] BY <3>1
    <3>. QED BY <1>3, <3>2 DEF Types
  <2>3. inode' \in [Made -> Dinode]
    <3>. HIDE DEF k
    <3>1. inode[i].addrs \in [0 .. NDIRECT -> 0 .. NBLOCKS] BY <1>7 DEF Dinode
    <3>2. [inode[i].addrs EXCEPT ![k] = b] \in [0 .. NDIRECT -> 0 .. NBLOCKS]
      BY <1>5, <1>6, <3>1
    <3>3. [inode[i] EXCEPT !.addrs[k] = b] = [inode[i] EXCEPT !.addrs = [inode[i].addrs EXCEPT ![k] = b]]
      BY <1>7 DEF Dinode
    <3>4. [inode[i] EXCEPT !.addrs[k] = b] \in Dinode BY <1>7, <3>2, <3>3 DEF Dinode
    <3>5. inode' = [inode EXCEPT ![i] = [inode[i] EXCEPT !.addrs[k] = b]]
      BY <1>3 DEF Types
    <3>. QED BY <3>4, <3>5 DEF Types
  <2>4. logged' \in [Procs -> SUBSET ({"bitmap", "data"} \X Nat)]
    <3>1. b \div BPB \in Nat BY <1>4, <1>6, Division
    <3>2. BBLOCK(b) \in {"bitmap", "data"} \X Nat /\ DBLOCK(b) \in {"bitmap", "data"} \X Nat
      BY <1>6, <3>1 DEF BBLOCK, DBLOCK
    <3>. QED BY <1>3, <3>2 DEF Types
  <2>. QED BY <1>3, <2>1, <2>2, <2>3, <2>4 DEF Types
<1>11. \A j \in Made : Indirect(j) # 0 =>
       Indirect(j) # b /\ block'[Indirect(j)] = block[Indirect(j)]
  BY <1>1, <1>9, IndirectUsed
<1>12. Indirect(i)' = IF k = NDIRECT THEN b ELSE Indirect(i) BY <1>4, <1>8 DEF Indirect
<1>13. k = NDIRECT => Indirect(i) = 0 BY <1>3 DEF Indirect
<1>14. EntriesInv(i)
  BY DEF ContentsInv
<1>15. ASSUME NEW c \in 0 .. MAXFILE - 1
       PROVE  Addr(i, c)' = IF c = m THEN b ELSE Addr(i, c)
  <2>1. CASE n < NDIRECT /\ c < NDIRECT
    <3>1. c \in 0 .. NDIRECT BY <1>4, <2>1
    <3>. QED BY <1>8, <2>1, <3>1 DEF Addr
  <2>2. CASE n < NDIRECT /\ ~(c < NDIRECT)
    <3>1. k # NDIRECT /\ c # m BY <1>4, <2>2
    <3>. QED BY <1>11, <1>12, <2>2, <3>1 DEF Addr
  <2>3. CASE ~(n < NDIRECT) /\ c < NDIRECT
    <3>1. c \in 0 .. NDIRECT /\ c # k /\ c # m BY <1>4, <2>3
    <3>. QED BY <1>8, <2>3, <3>1 DEF Addr
  <2>4. CASE ~(n < NDIRECT) /\ ~(c < NDIRECT)
    <3>1. k = NDIRECT /\ c # m /\ c - NDIRECT \in 0 .. BSIZE - 1 BY <1>4, <2>4
    <3>2. Indirect(i)' = b /\ Indirect(i) = 0 BY <1>12, <1>13, <3>1
    <3>3. Addr(i, c) = 0 BY <2>4, <3>2 DEF Addr
    <3>4. Addr(i, c)' = 0
      <4>1. block'[b][c - NDIRECT] = 0 BY <1>9, <3>1
      <4>. QED BY <2>4, <3>2, <4>1 DEF Addr
    <3>. QED BY <3>1, <3>3, <3>4
  <2>. QED BY <2>1, <2>2, <2>3, <2>4
<1>16. Addr(i, n) = 0
  <2>1. CASE n < NDIRECT BY <1>3, <2>1 DEF Addr
  <2>2. CASE ~(n < NDIRECT) BY <1>13, <2>2 DEF Addr
  <2>. QED BY <2>1, <2>2
<1>17. Kept(i)
  <2>1. k # NDIRECT => Indirect(i)' = Indirect(i) BY <1>12
  <2>2. \A c \in 0 .. MAXFILE - 1 : Addr(i, c) # 0 => Addr(i, c)' = Addr(i, c)
    BY <1>4, <1>15, <1>16
  <2>. QED BY <1>13, <2>1, <2>2 DEF Kept
<1>18. WriteKeeps(p, i)
  <2>1. pc[p] = "writei" BY <1>3 DEF Writing
  <2>2. \A q \in Procs \ {p} : done'[q] = done[q] /\ logged'[q] = logged[q]
    BY <1>3 DEF Types
  <2>. QED BY <1>3, <1>8, <1>11, <1>17, <2>1, <2>2 DEF WriteKeeps
<1>19. \A c : ~Passed(i, c) /\ ~Passed(i, c)' BY <1>0, <1>10, <1>18, WriteKept
<1>20. At(i, m) = 0 /\ At(i, m)' = b /\ \A c \in (0 .. MAXFILE) \ {m} : At(i, c)' = At(i, c)
  <2>1. ASSUME NEW c \in 0 .. MAXFILE - 1
        PROVE  At(i, c)' = Addr(i, c)' /\ At(i, c) = Addr(i, c)
    <3>1. c # MAXFILE BY <1>4
    <3>. QED BY <1>19, <3>1 DEF At
  <2>2. At(i, MAXFILE)' = Indirect(i)' /\ At(i, MAXFILE) = Indirect(i) BY DEF At
  <2>3. \A c \in 0 .. MAXFILE : c \in 0 .. MAXFILE - 1 \/ c = MAXFILE BY <1>4
  <2>4. CASE n < NDIRECT
    <3>1. m = n /\ k # NDIRECT /\ n # MAXFILE BY <1>4, <2>4
    <3>. QED BY <1>12, <1>15, <1>16, <2>1, <2>2, <2>3, <3>1
  <2>5. CASE ~(n < NDIRECT)
    <3>1. m = MAXFILE /\ k = NDIRECT /\ \A c \in 0 .. MAXFILE - 1 : c # m BY <1>4, <2>5
    <3>. QED BY <1>12, <1>13, <1>15, <2>1, <2>2, <2>3, <3>1
  <2>. QED BY <2>4, <2>5
<1>21. EntriesInv(i)'
  <2>1. CASE k = NDIRECT
    <3>1. [c \in 0 .. BSIZE - 1 |-> 0] \in [0 .. BSIZE - 1 -> 0 .. NBLOCKS] BY <1>4
    <3>. QED BY <1>9, <1>12, <2>1, <3>1 DEF EntriesInv
  <2>2. CASE k # NDIRECT BY <1>11, <1>12, <1>14, <2>2 DEF EntriesInv
  <2>. QED BY <2>1, <2>2
<1>22. ASSUME NEW x \in logged'[p] \ logged[p] PROVE MayLog(p, x)'
  <2>1. x \in {BBLOCK(b), DBLOCK(b)} BY <1>3 DEF Types
  <2>2. Ip(p)' = i /\ off'[fd'[p]] = off[fd[p]] /\ Todo(p)' = Todo(p)
    BY <1>0, <1>10, <1>18, WriteKept
  <2>3. First(p)' = First(p) /\ End(p)' = End(p) BY <2>2 DEF First, End
  <2>4. CASE n < NDIRECT
    <3>1. Addr(i, n)' = b BY <1>15, <2>4
    <3>2. First(p) <= n /\ n * BSIZE < End(p) /\ off[fd[p]] <= n * BSIZE
      BY <1>0, <1>2, <1>3, <1>16, WhereWriting
    <3>. QED BY <1>6, <2>1, <2>2, <2>3, <3>1, <3>2 DEF MayLog, BBLOCK, DBLOCK
  <2>5. CASE ~(n < NDIRECT)
    <3>1. Indirect(i)' = b BY <1>12, <2>5
    <3>. QED BY <1>6, <2>1, <2>2, <3>1 DEF MayLog, BBLOCK, DBLOCK
  <2>. QED BY <2>4, <2>5
<1>. HIDE DEF k, m
<1>23. Touches(p, i) BY <1>0, <1>10, <1>18, WriteKept
<1>24. \A j \in Made : DataKept(j)
  <2>1. ASSUME NEW j \in Made, NEW c \in 0 .. MAXFILE - 1, At(j, c) # 0
        PROVE  At(j, c) \in Blocks \ {b}
    <3>1. At(j, c) \in used BY <2>1, IndirectUsed
    <3>. QED BY <1>1, <3>1 DEF Types
  <2>. QED BY <1>9, <2>1 DEF DataKept
<1>25. Zeroed(i) BY <1>9, <1>15 DEF Zeroed
<1>100. ContentsInv'
  BY <1>0, <1>1, <1>3, <1>5, <1>10, <1>18, <1>20, <1>21, <1>22, Allocated
<1>. QED BY <1>100, <1>0, <1>17, <1>23, <1>24, <1>25

LEMMA BmapEntryStep ==
    ASSUME ContentsConstants, ContentsInv, NEW p \in Procs, bmap_entry(p)
    PROVE  /\ ContentsInv'
           /\ \E i \in Made : i = Ip(p) /\ Touches(p, i) /\ Kept(i) /\ Zeroed(i)
           /\ \A j \in Made : DataKept(j)
<1>. Types /\ LockInv BY DEF ContentsInv
<1>0. PICK i \in Made : i = Ip(p)
  <2>1. pc[p] \in Busy BY DEF bmap_entry, Writing, Busy
  <2>. QED BY <2>1, Holder
<1>1. PICK b \in Blocks : b = balloc /\ b \notin used
  <2>1. Free # {} BY DEF bmap_entry
  <2>. QED BY <2>1, Chosen
<1>2. PICK n \in 0 .. MAXFILE - 1 : n = Bn(p) BY WhereWriting DEF bmap_entry
<1>4. /\ NDIRECT \in Nat /\ MAXFILE \in Nat \ {0} /\ BSIZE \in Nat \ {0} /\ BPB \in Nat \ {0}
      /\ NBLOCKS \in Nat \ {0} /\ MAXFILE = NDIRECT + BSIZE
  BY Sizes
<1>5. n \in 0 .. MAXFILE /\ n # MAXFILE /\ n \in Nat BY <1>4
<1>6. b # 0 /\ b \in 0 .. NBLOCKS /\ b \in Nat BY DEF Blocks
<1>7. Writing(p) /\ Free # {} /\ Addr(i, n) = 0 BY <1>0, <1>2 DEF bmap_entry
<1>8. ~(n < NDIRECT)
  <2>1. inode[i].addrs[Place(p)] # 0 BY <1>0 DEF bmap_entry
  <2>. QED BY <1>2, <1>7, <2>1 DEF Place, Addr
<1>9. PICK d : d = Indirect(i) OBVIOUS
<1>10. d # 0 /\ d \in used /\ d \in Blocks /\ d # b
  <2>1. inode[i].addrs[Place(p)] # 0 BY <1>0 DEF bmap_entry
  <2>2. d # 0 BY <1>2, <1>8, <1>9, <2>1 DEF Place, Indirect
  <2>. QED BY <1>1, <1>9, <2>2, IndirectUsed
<1>11. PICK k \in 0 .. BSIZE - 1 : k = n - NDIRECT BY <1>4, <1>8
<1>3. /\ used' = used \cup {b} /\ inode' = inode
      /\ block' = [bzero(b) EXCEPT ![d][k] = b]
      /\ logged' = [logged EXCEPT ![p] = @ \cup {BBLOCK(b), DBLOCK(b), DBLOCK(d)}]
      /\ UNCHANGED <<dinode, owner, off, pc, fd, left>> /\ done' = done
  BY <1>0, <1>1, <1>2, <1>9, <1>11 DEF bmap_entry, log_write
<1>12. EntriesInv(i) BY DEF ContentsInv
<1>13. block[d] \in [0 .. BSIZE - 1 -> 0 .. NBLOCKS]
  BY <1>9, <1>10, <1>12 DEF EntriesInv
<1>14. bzero(b) \in [Blocks -> [0 .. BSIZE - 1 -> Cell]]
  <2>1. 0 \in Cell BY <1>4 DEF Cell
  <2>2. [c \in 0 .. BSIZE - 1 |-> 0] \in [0 .. BSIZE - 1 -> Cell] BY <2>1
  <2>. QED BY <2>2 DEF Types, bzero
<1>15. bzero(b)[d] = block[d] /\ \A c \in Blocks \ {b} : bzero(b)[c] = block[c]
  BY <1>10 DEF Types, bzero
<1>16. block' = [bzero(b) EXCEPT ![d] = [block[d] EXCEPT ![k] = b]]
  BY <1>3, <1>10, <1>14, <1>15
<1>17. /\ block'[d] = [block[d] EXCEPT ![k] = b]
       /\ \A c \in Blocks \ {b, d} : block'[c] = block[c]
  BY <1>10, <1>14, <1>15, <1>16
<1>18. [block[d] EXCEPT ![k] = b] \in [0 .. BSIZE - 1 -> 0 .. NBLOCKS]
  BY <1>6, <1>13
<1>19. Types'
  <2>1. used' \subseteq Blocks BY <1>3 DEF Types
  <2>2. block' \in [Blocks -> [0 .. BSIZE - 1 -> Cell]]
    <3>1. [block[d] EXCEPT ![k] = b] \in [0 .. BSIZE - 1 -> Cell]
      <4>1. block[d] \in [0 .. BSIZE - 1 -> Cell] BY <1>10 DEF Types
      <4>2. b \in Cell BY <1>6 DEF Cell
      <4>. QED BY <4>1, <4>2
    <3>. QED BY <1>14, <1>16, <3>1
  <2>4. logged' \in [Procs -> SUBSET ({"bitmap", "data"} \X Nat)]
    <3>0. d \in Nat BY <1>10 DEF Blocks
    <3>1. b \div BPB \in Nat BY <1>4, <1>6, Division
    <3>2. /\ BBLOCK(b) \in {"bitmap", "data"} \X Nat /\ DBLOCK(b) \in {"bitmap", "data"} \X Nat
          /\ DBLOCK(d) \in {"bitmap", "data"} \X Nat
      BY <1>6, <3>0, <3>1 DEF BBLOCK, DBLOCK
    <3>. QED BY <1>3, <3>2 DEF Types
  <2>. QED BY <1>3, <2>1, <2>2, <2>4 DEF Types
<1>20. \A j \in Made \ {i} : Indirect(j) # 0 => block'[Indirect(j)] = block[Indirect(j)]
  <2>1. ASSUME NEW j \in Made, j # i, Indirect(j) # 0
        PROVE  Indirect(j) \in Blocks \ {b, d}
    BY <1>1, <1>9, <2>1, IndirectUsed
  <2>. QED BY <1>17, <2>1
<1>21. Indirect(i)' = d BY <1>3, <1>9 DEF Indirect
<1>22. ASSUME NEW c \in 0 .. MAXFILE - 1
       PROVE  Addr(i, c)' = IF c = n THEN b ELSE Addr(i, c)
  <2>1. CASE c < NDIRECT BY <1>3, <1>8, <2>1 DEF Addr
  <2>2. CASE ~(c < NDIRECT)
    <3>1. c - NDIRECT \in 0 .. BSIZE - 1 BY <1>4, <2>2
    <3>2. c = n <=> c - NDIRECT = k BY <1>4, <1>11
    <3>3. block'[d][c - NDIRECT] = IF c = n THEN b ELSE block[d][c - NDIRECT]
      BY <1>13, <1>17, <3>1, <3>2
    <3>. QED BY <1>9, <1>10, <1>21, <2>2, <3>3 DEF Addr
  <2>. QED BY <2>1, <2>2
<1>23. WriteKeeps(p, i)
  <2>1. pc[p] = "writei" BY <1>7 DEF Writing
  <2>2. \A q \in Procs \ {p} : done'[q] = done[q] /\ logged'[q] = logged[q]
    BY <1>3 DEF Types
  <2>3. Kept(i) BY <1>7, <1>9, <1>21, <1>22 DEF Kept
  <2>. QED BY <1>3, <1>20, <2>1, <2>2, <2>3 DEF WriteKeeps
<1>24. \A c : ~Passed(i, c) /\ ~Passed(i, c)' BY <1>0, <1>19, <1>23, WriteKept
<1>25. At(i, n) = 0 /\ At(i, n)' = b /\ \A c \in (0 .. MAXFILE) \ {n} : At(i, c)' = At(i, c)
  <2>1. ASSUME NEW c \in 0 .. MAXFILE - 1
        PROVE  At(i, c)' = Addr(i, c)' /\ At(i, c) = Addr(i, c)
    <3>1. c # MAXFILE BY <1>4
    <3>. QED BY <1>24, <3>1 DEF At
  <2>2. At(i, MAXFILE)' = Indirect(i)' /\ At(i, MAXFILE) = Indirect(i) BY DEF At
  <2>3. \A c \in 0 .. MAXFILE : c \in 0 .. MAXFILE - 1 \/ c = MAXFILE BY <1>4
  <2>. QED BY <1>7, <1>9, <1>21, <1>22, <2>1, <2>2, <2>3
<1>26. EntriesInv(i)' BY <1>17, <1>18, <1>21 DEF EntriesInv
<1>27. ASSUME NEW x \in logged'[p] \ logged[p] PROVE MayLog(p, x)'
  <2>1. x \in {BBLOCK(b), DBLOCK(b), DBLOCK(d)} BY <1>3 DEF Types
  <2>2. Ip(p)' = i /\ off'[fd'[p]] = off[fd[p]] /\ Todo(p)' = Todo(p)
    BY <1>0, <1>19, <1>23, WriteKept
  <2>3. First(p)' = First(p) /\ End(p)' = End(p) BY <2>2 DEF First, End
  <2>4. Addr(i, n)' = b BY <1>22
  <2>5. First(p) <= n /\ n * BSIZE < End(p) /\ off[fd[p]] <= n * BSIZE
    BY <1>0, <1>2, <1>7, WhereWriting
  <2>6. CASE x = DBLOCK(d) BY <1>10, <1>21, <2>2, <2>6 DEF MayLog
  <2>7. CASE x \in {BBLOCK(b), DBLOCK(b)}
    BY <1>6, <2>2, <2>3, <2>4, <2>5, <2>7 DEF MayLog, BBLOCK, DBLOCK
  <2>. QED BY <2>1, <2>6, <2>7
<1>28. Touches(p, i) /\ Kept(i)
  <2>1. Touches(p, i) BY <1>0, <1>19, <1>23, WriteKept
  <2>. QED BY <1>23, <2>1 DEF WriteKeeps
<1>29. \A j \in Made : DataKept(j)
  <2>1. ASSUME NEW j \in Made, NEW c \in 0 .. MAXFILE - 1, At(j, c) # 0
        PROVE  At(j, c) \in Blocks \ {b, d}
    <3>1. At(j, c) \in used /\ At(j, c) # d BY <1>9, <2>1, IndirectUsed
    <3>. QED BY <1>1, <3>1 DEF Types
  <2>. QED BY <1>17, <2>1 DEF DataKept
<1>30. Zeroed(i)
  <2>1. bzero(b)[b] = [c \in 0 .. BSIZE - 1 |-> 0] BY DEF Types, bzero
  <2>2. block'[b] = [c \in 0 .. BSIZE - 1 |-> 0] BY <1>10, <1>14, <1>16, <2>1
  <2>. QED BY <1>22, <2>2 DEF Zeroed
<1>100. ContentsInv'
  BY <1>0, <1>1, <1>3, <1>5, <1>7, <1>19, <1>23, <1>25, <1>26, <1>27, Allocated
<1>. QED BY <1>100, <1>0, <1>28, <1>29, <1>30

LEMMA WriteBlockStep ==
    ASSUME ContentsConstants, ContentsInv, NEW p \in Procs, writei_block(p)
    PROVE  ContentsInv' /\ \E i \in Made : i = Ip(p) /\ Touches(p, i)
<1>. Types /\ LockInv BY DEF ContentsInv
<1>0. PICK i \in Made : i = Ip(p)
  <2>1. pc[p] \in Busy BY DEF writei_block, Writing, Busy
  <2>. QED BY <2>1, Holder
<1>2. PICK n \in 0 .. MAXFILE - 1 : n = Bn(p) BY WhereWriting DEF writei_block
<1>4. /\ NDIRECT \in Nat /\ MAXFILE \in Nat \ {0} /\ BSIZE \in Nat \ {0} /\ BPB \in Nat \ {0}
      /\ NBLOCKS \in Nat \ {0} /\ MAXFILE = NDIRECT + BSIZE
  BY Sizes
<1>5. n \in 0 .. MAXFILE /\ n # MAXFILE /\ n \in Nat BY <1>4
<1>6. PICK a : a = Addr(i, n) OBVIOUS
<1>7. Writing(p) /\ a # 0 BY <1>0, <1>2, <1>6 DEF writei_block
<1>. DEFINE h == Here(p)
            from == h % BSIZE
            m == Min({Todo(p) - done[p], BSIZE - from})
            new ==
                [c \in DOMAIN block[a] |-> IF c \in from .. from + m - 1 THEN p ELSE block[a][c]]
<1>3. /\ block' = [block EXCEPT ![a] = new] /\ done' = [done EXCEPT ![p] = @ + m]
      /\ logged' = [logged EXCEPT ![p] = @ \cup {DBLOCK(a)}]
      /\ used' = used /\ inode' = inode
      /\ UNCHANGED <<dinode, owner, off, pc, fd, left>>
  <2>. HIDE DEF from, h
  <2>. QED BY <1>0, <1>2, <1>6 DEF writei_block, log_write, from, h
<1>8. /\ off[fd[p]] \in Nat /\ done[p] \in Nat /\ Todo(p) \in Nat
      /\ h = off[fd[p]] + done[p] /\ n * BSIZE \in Nat /\ n * BSIZE <= h
      /\ First(p) <= n /\ n * BSIZE < End(p) /\ done[p] < Todo(p)
  BY <1>2, <1>7, WhereWriting DEF Writing
<1>9. PICK f : f = from OBVIOUS
<1>10. f \in 0 .. BSIZE - 1 /\ h = n * BSIZE + f
  <2>1. n = h \div BSIZE BY <1>2 DEF Bn
  <2>2. h \in Nat BY <1>8
  <2>. HIDE DEF h
  <2>. QED BY <1>4, <1>9, <2>1, <2>2, Division
<1>11. m \in Nat /\ m <= Todo(p) - done[p] /\ m <= BSIZE - f
  <2>1. Todo(p) - done[p] \in Nat /\ BSIZE - f \in Nat BY <1>4, <1>8, <1>10
  <2>2. m = IF Todo(p) - done[p] <= BSIZE - f THEN Todo(p) - done[p] ELSE BSIZE - f
    <3>. HIDE DEF from
    <3>. QED BY <1>9, <2>1, MinOfTwo
  <2>. HIDE DEF m
  <2>. QED BY <2>1, <2>2
<1>. HIDE DEF h, from, m
<1>12. a \in Blocks
  <2>1. EntriesInv(i) BY DEF ContentsInv
  <2>2. a \in 0 .. NBLOCKS BY <1>6, <2>1, AddrTypes
  <2>. QED BY <1>4, <1>7, <2>2 DEF Blocks
<1>13. \A c \in Blocks \ {a} : block'[c] = block[c] BY <1>3 DEF Types
<1>14. ~Passed(i, n) BY <1>0, <1>7, Holder DEF Writing, Busy
<1>15. \A j \in Made : Indirect(j) # 0 => Indirect(j) \in Blocks \ {a}
  <2>1. At(i, n) = a BY <1>5, <1>6, <1>14 DEF At
  <2>. QED BY <1>7, <2>1, IndirectUsed
<1>16. \A j \in Made : Indirect(j) # 0 => block'[Indirect(j)] = block[Indirect(j)]
  BY <1>13, <1>15
<1>17. Indirect(i)' = Indirect(i) /\ \A c : Addr(i, c)' = Addr(i, c)
  BY <1>3, <1>16 DEF Indirect, Addr
<1>18. Types'
  <2>1. block' \in [Blocks -> [0 .. BSIZE - 1 -> Cell]]
    <3>1. block[a] \in [0 .. BSIZE - 1 -> Cell] BY <1>12 DEF Types
    <3>2. p \in Cell BY DEF Cell
    <3>3. new \in [0 .. BSIZE - 1 -> Cell] BY <3>1, <3>2
    <3>. HIDE DEF new
    <3>. QED BY <1>3, <3>3 DEF Types
  <2>2. done' \in [Procs -> Nat] BY <1>3, <1>8, <1>11 DEF Types
  <2>3. logged' \in [Procs -> SUBSET ({"bitmap", "data"} \X Nat)]
    <3>1. DBLOCK(a) \in {"bitmap", "data"} \X Nat BY <1>12 DEF DBLOCK, Blocks
    <3>. QED BY <1>3, <3>1 DEF Types
  <2>. QED BY <1>3, <2>1, <2>2, <2>3 DEF Types
<1>. HIDE DEF new
<1>19. WriteKeeps(p, i)
  <2>1. pc[p] = "writei" BY <1>7 DEF Writing
  <2>2. \A q \in Procs \ {p} : done'[q] = done[q] /\ logged'[q] = logged[q]
    BY <1>3 DEF Types
  <2>3. Kept(i) BY <1>17 DEF Kept
  <2>. QED BY <1>3, <1>16, <2>1, <2>2, <2>3 DEF WriteKeeps
<1>20. Touches(p, i) /\ LockInv' /\ \A c : ~Passed(i, c) /\ ~Passed(i, c)'
  BY <1>0, <1>18, <1>19, WriteKept
<1>21. \A c \in 0 .. MAXFILE : At(i, c)' = At(i, c) BY <1>17, <1>20 DEF At
<1>22. NamedOnce(Map', used')
  <2>1. NamedOnce(Map, used) BY DEF ContentsInv
  <2>. QED BY <1>3, <1>18, <1>20, <1>21, <2>1, SameNames
<1>23. EntriesInv(i)'
  <2>1. EntriesInv(i) BY DEF ContentsInv
  <2>. QED BY <1>16, <1>17, <2>1 DEF EntriesInv
<1>24. done'[p] = done[p] + m BY <1>3 DEF Types
<1>25. ASSUME NEW c \in 0 .. MAXFILE - 1, c * BSIZE < off[fd[p]] + done'[p]
       PROVE  Addr(i, c) # 0
  <2>1. c \in Nat BY <1>25
  <2>2. c * BSIZE \in Nat /\ (c + 1) * BSIZE = c * BSIZE + BSIZE
        /\ (n + 1) * BSIZE = n * BSIZE + BSIZE
    BY <1>4, <1>5, <2>1
  <2>3. off[fd[p]] + done'[p] <= n * BSIZE + BSIZE
    BY <1>4, <1>8, <1>10, <1>11, <1>24
  <2>4. CASE c > n
    <3>1. c * BSIZE - (n + 1) * BSIZE = (c - (n + 1)) * BSIZE BY <1>4, <1>5, <2>1
    <3>2. (c - (n + 1)) * BSIZE >= 0 BY <1>4, <1>5, <2>1, <2>4
    <3>3. n * BSIZE + BSIZE <= c * BSIZE BY <1>4, <1>8, <2>2, <3>1, <3>2
    <3>4. off[fd[p]] + done'[p] \in Int BY <1>8, <1>11, <1>24
    <3>. QED BY <1>4, <1>8, <1>25, <2>2, <2>3, <3>3, <3>4
  <2>5. CASE c = n BY <1>6, <1>7, <2>5
  <2>6. CASE c < n
    <3>1. n * BSIZE - (c + 1) * BSIZE = (n - (c + 1)) * BSIZE BY <1>4, <1>5, <2>1
    <3>2. (n - (c + 1)) * BSIZE >= 0 BY <1>4, <1>5, <2>1, <2>6
    <3>3. c * BSIZE < h BY <1>4, <1>8, <2>2, <3>1, <3>2
    <3>4. FilledTo(i, h)
      BY <1>0, <1>7 DEF ContentsInv, WriteInv, InWrite, Writing, h
    <3>. QED BY <3>3, <3>4 DEF FilledTo
  <2>. QED BY <1>5, <2>1, <2>4, <2>5, <2>6
<1>26. ASSUME NEW x \in logged'[p] \ logged[p] PROVE MayLog(p, x)'
  <2>1. x = DBLOCK(a) BY <1>3 DEF Types
  <2>2. Ip(p)' = i /\ off'[fd'[p]] = off[fd[p]] /\ Todo(p)' = Todo(p)
    BY <1>0, <1>18, <1>19, WriteKept
  <2>3. First(p)' = First(p) /\ End(p)' = End(p) BY <2>2 DEF First, End
  <2>4. Addr(i, n)' = a BY <1>6, <1>17
  <2>. QED BY <1>7, <1>8, <2>1, <2>2, <2>3, <2>4 DEF MayLog
<1>27. done'[p] <= Todo(p) BY <1>8, <1>11, <1>24
<1>100. ContentsInv'
  BY <1>0, <1>18, <1>19, <1>22, <1>23, <1>25, <1>26, <1>27, WriteCombined
<1>. QED BY <1>100, <1>0, <1>20

LEMMA WriteDoneStep ==
    ASSUME ContentsConstants, ContentsInv, NEW p \in Procs, writei_done(p)
    PROVE  ContentsInv' /\ \E i \in Made : i = Ip(p) /\ Touches(p, i)
<1>. Types /\ LockInv BY DEF ContentsInv
<1>1. pc[p] \in Busy /\ InWrite(p) BY DEF writei_done, Busy, InWrite
<1>0. PICK i \in Made : i = Ip(p) BY <1>1, Holder
<1>2. /\ fd[p] \in Opened /\ owner[i] = p /\ p # Nobody
      /\ ~Truncating(i) /\ \A n : ~Passed(i, n)
  BY <1>0, <1>1, Holder DEF InWrite
<1>3. /\ off[fd[p]] \in Nat /\ done[p] \in Nat /\ Todo(p) \in Nat /\ left[p] \in Nat
  BY <1>2, TodoIs DEF Types
<1>4. PICK h \in Nat : h = Here(p) /\ h = off[fd[p]] + done[p] BY <1>3 DEF Here
<1>5. PICK s \in Nat : s = inode[i].size BY DEF Types, Dinode
<1>6. PICK t \in Nat : t = IF s <= h THEN h ELSE s BY <1>4, <1>5
<1>7. Grown(p) = [inode[i] EXCEPT !.size = t]
  <2>1. Max({s, h}) = t BY <1>4, <1>5, <1>6, MaxOfTwo
  <2>. QED BY <1>0, <1>4, <1>5, <2>1 DEF Grown
<1>8. /\ inode' = [inode EXCEPT ![i] = [inode[i] EXCEPT !.size = t]]
      /\ dinode' = [dinode EXCEPT ![i] = [inode[i] EXCEPT !.size = t]]
      /\ off' = [off EXCEPT ![fd[p]] = h]
      /\ used' = used /\ block' = block
      /\ owner' = [owner EXCEPT ![i] = Nobody]
      /\ done' = [done EXCEPT ![p] = 0] /\ logged' = [logged EXCEPT ![p] = {}]
  BY <1>0, <1>4, <1>7 DEF writei_done, iupdate, end_op, iunlock
<1>9. PICK l \in {"idle", "begin_op"} :
        /\ pc' = [pc EXCEPT ![p] = l]
        /\ fd' = [fd EXCEPT ![p] = IF l = "idle" THEN Nobody ELSE @]
  BY DEF writei_done, end_op, Goto
<1>10. PICK k \in Nat : left' = [left EXCEPT ![p] = k]
  <2>1. CASE done[p] = Todo(p) /\ left[p] > done[p]
    <3>1. left[p] - done[p] \in Nat BY <1>3, <2>1
    <3>2. left' = [left EXCEPT ![p] = left[p] - done[p]] BY <2>1 DEF writei_done
    <3>. QED BY <3>1, <3>2
  <2>2. CASE ~(done[p] = Todo(p) /\ left[p] > done[p])
    <3>1. left' = [left EXCEPT ![p] = 0] BY <2>2 DEF writei_done
    <3>. QED BY <3>1
  <2>. QED BY <2>1, <2>2
<1>11. pc'[p] = l /\ pc'[p] \notin Busy /\ done'[p] = 0 /\ logged'[p] = {} /\ owner'[i] = Nobody
  BY <1>8, <1>9 DEF Types, Busy
<1>12. [inode[i] EXCEPT !.size = t] \in Dinode BY DEF Types, Dinode
<1>13. /\ inode'[i] = [inode[i] EXCEPT !.size = t] /\ dinode'[i] = inode'[i]
       /\ inode'[i].size = t /\ inode'[i].addrs = inode[i].addrs
       /\ \A j \in Made \ {i} : inode'[j] = inode[j] /\ dinode'[j] = dinode[j]
  BY <1>8 DEF Types, Dinode
<1>14. Types'
  <2>1. inode' \in [Made -> Dinode] /\ dinode' \in [Made -> Dinode]
    BY <1>8, <1>12 DEF Types
  <2>2. owner' \in [Made -> Procs \cup {Nobody}] /\ off' \in [Opened -> Nat]
    BY <1>8 DEF Types
  <2>3. pc' \in [Procs -> {"idle", "begin_op"} \cup Busy] BY <1>9 DEF Types
  <2>4. fd' \in [Procs -> Opened \cup {Nobody}] BY <1>9 DEF Types
  <2>5. left' \in [Procs -> Nat] /\ done' \in [Procs -> Nat] BY <1>8, <1>10 DEF Types
  <2>6. logged' \in [Procs -> SUBSET ({"bitmap", "data"} \X Nat)] BY <1>8 DEF Types
  <2>. QED BY <1>8, <2>1, <2>2, <2>3, <2>4, <2>5, <2>6 DEF Types
<1>15. \A q \in Procs \ {p} :
          /\ pc'[q] = pc[q] /\ fd'[q] = fd[q] /\ left'[q] = left[q]
          /\ done'[q] = done[q] /\ logged'[q] = logged[q]
  BY <1>8, <1>9, <1>10 DEF Types
<1>16. LockInv'
  <2>1. Others(p) BY <1>15 DEF Others
  <2>2. pc'[p] # "idle" => fd'[p] = fd[p] BY <1>9, <1>11 DEF Types
  <2>. QED BY <1>0, <1>1, <1>8, <1>11, <2>1, <2>2, LocksReleased
<1>17. Touches(p, i)
  <2>1. \A j \in Made \ {i} : owner'[j] = owner[j] BY <1>8 DEF Types
  <2>2. \A o \in Opened : FileOf[o] # i => off'[o] = off[o] BY <1>0, <1>8 DEF Types, Ip
  <2>. QED BY <1>0, <1>2, <1>8, <1>11, <1>13, <1>15, <2>1, <2>2 DEF Touches
<1>18. Indirect(i)' = Indirect(i) /\ \A c : Addr(i, c)' = Addr(i, c)
  BY <1>8, <1>13 DEF Indirect, Addr
<1>19. \A n : ~Passed(i, n)'
  <2>1. ASSUME NEW q \in Procs, pc'[q] = "itrunc", Ip(q)' = i PROVE FALSE
    <3>1. owner'[i] = q BY <1>16, <2>1 DEF LockInv, Busy
    <3>. QED BY <1>11, <3>1 DEF ContentsConstants
  <2>. QED BY <2>1 DEF Passed
<1>20. NamedOnce(Map', used')
  <2>1. \A n \in 0 .. MAXFILE : At(i, n)' = At(i, n) BY <1>2, <1>18, <1>19 DEF At
  <2>2. NamedOnce(Map, used) BY DEF ContentsInv
  <2>. QED BY <1>8, <1>14, <1>16, <1>17, <2>1, <2>2, SameNames
<1>21. EntriesInv(i)'
  <2>1. EntriesInv(i) BY DEF ContentsInv
  <2>. QED BY <1>8, <1>18, <2>1 DEF EntriesInv
<1>22. WholeInv(i)'
  <2>1. WholeInv(i) /\ WriteInv(p) BY DEF ContentsInv
  <2>2. s <= MAXFILE * BSIZE /\ FilledTo(i, s) BY <1>2, <1>5, <2>1 DEF WholeInv
  <2>3. FilledTo(i, h) /\ done[p] <= Todo(p) /\ off[fd[p]] + Todo(p) <= MAXFILE * BSIZE
    BY <1>0, <1>1, <1>4, <2>1 DEF WriteInv
  <2>4. h <= MAXFILE * BSIZE
    <3>1. MAXFILE * BSIZE \in Nat BY Sizes
    <3>. QED BY <1>3, <1>4, <2>3, <3>1
  <2>5. t <= MAXFILE * BSIZE /\ FilledTo(i, t) BY <1>6, <2>2, <2>3, <2>4
  <2>6. FilledTo(i, inode[i].size)' BY <1>13, <1>18, <2>5 DEF FilledTo
  <2>. QED BY <1>13, <2>5, <2>6 DEF WholeInv
<1>23. WriteInv(p)' /\ LogInv(p)' BY <1>11 DEF WriteInv, LogInv, InWrite, Busy
<1>100. ContentsInv' BY <1>14, <1>16, <1>17, <1>20, <1>21, <1>22, <1>23, Combined
<1>. QED BY <1>100, <1>0, <1>17
-------------------------------------------------------------------------------
(* The steps of a truncation that go on: one place less is named.          *)
TruncKeeps(p, i) ==
    /\ pc[p] = "itrunc" /\ UNCHANGED <<block, dinode, owner, off, fd, left>>
    /\ \A q \in Procs \ {p} : done'[q] = done[q] /\ logged'[q] = logged[q]
    /\ \A j \in Made \ {i} : inode'[j] = inode[j]

(* What the places of a file name when itrunc() has come to block d.       *)
Rest(i, n, d) ==
    IF n = MAXFILE THEN Indirect(i) ELSE IF n < d THEN 0 ELSE Addr(i, n)

LEMMA RestIsNamed ==
    ASSUME ContentsConstants, Types, LockInv, NEW p \in Procs, NEW i \in Made, i = Ip(p),
           pc[p] = "itrunc", NEW n
    PROVE  At(i, n) = Rest(i, n, done[p])
<1>1. Passed(i, n) <=> n < done[p] BY Holder DEF Busy
<1>. QED BY <1>1 DEF At, Rest

LEMMA Freed ==
    ASSUME ContentsConstants, ContentsInv, NEW p \in Procs, NEW i \in Made, i = Ip(p),
           TruncKeeps(p, i), NEW b \in Blocks, bfree(p, b, "itrunc"), pc' = pc => Types',
           NEW m \in 0 .. MAXFILE, At(i, m) = b, Rest(i, m, done[p])' = 0,
           \A n \in (0 .. MAXFILE) \ {m} : Rest(i, n, done[p])' = Rest(i, n, done[p]),
           Indirect(i)' \in {0, Indirect(i)}
    PROVE  ContentsInv' /\ Touches(p, i)
<1>. Types /\ LockInv /\ EntriesInv(i) /\ NamedOnce(Map, used) BY DEF ContentsInv
<1>1. /\ pc[p] = "itrunc" /\ block' = block /\ dinode' = dinode /\ owner' = owner
      /\ off' = off /\ fd' = fd /\ left' = left
  BY DEF TruncKeeps
<1>2. fd[p] \in Opened /\ owner[i] = p /\ p # Nobody /\ Truncating(i)
  BY <1>1, Holder DEF Busy
<1>4. b # 0 BY DEF Blocks
<1>5. <<i, m>> \in Places /\ Map[<<i, m>>] = b BY DEF Places, Map
<1>6. PICK f : f = Map OBVIOUS
<1>7. b \in used /\ NamedOnce([f EXCEPT ![<<i, m>>] = 0], used \ {b})
  <2>1. f[<<i, m>>] = b /\ f[<<i, m>>] # 0 BY <1>4, <1>5, <1>6
  <2>. QED BY <1>5, <1>6, <2>1, NamesOneLess
<1>8. pc' = pc
  <2>1. pc' = [pc EXCEPT ![p] = "itrunc"] BY <1>7 DEF bfree, Goto
  <2>. QED BY <1>1, <2>1 DEF Types
<1>9. Types' BY <1>8 DEF Types
<1>10. LockInv'
  <2>1. Others(p) BY <1>1, <1>8 DEF Others, TruncKeeps
  <2>. QED BY <1>1, <1>8, <2>1, LocksHeld DEF Busy
<1>11. Touches(p, i) BY <1>1, <1>2, <1>8 DEF Touches, TruncKeeps
<1>12. Ip(p)' = i BY <1>1 DEF Ip
<1>13. Truncating(i)' /\ \A n : At(i, n)' = Rest(i, n, done[p])'
  <2>1. Truncating(i)' /\ \A n : Passed(i, n)' <=> n < done'[p]
    BY <1>1, <1>8, <1>9, <1>10, <1>12, HolderAfter DEF Busy
  <2>. QED BY <2>1 DEF At, Rest
<1>14. At(i, m)' = 0 /\ \A n \in (0 .. MAXFILE) \ {m} : At(i, n)' = At(i, n)
  BY <1>1, <1>13, RestIsNamed
<1>15. NamedOnce(Map', used')
  <2>1. Map' = [Map EXCEPT ![<<i, m>>] = 0] BY <1>9, <1>10, <1>11, <1>14, OneName
  <2>2. used' = used \ {b} BY DEF bfree
  <2>. QED BY <1>6, <1>7, <2>1, <2>2
<1>16. EntriesInv(i)' BY <1>1 DEF EntriesInv
<1>17. WholeInv(i)' BY <1>1, <1>2, <1>13 DEF WholeInv
<1>18. WriteInv(p)' BY <1>1, <1>8 DEF WriteInv, InWrite
<1>19. LogInv(p)'
  <2>1. LogInv(p) BY DEF ContentsInv
  <2>2. logged'[p] = logged[p] \cup {BBLOCK(b)} BY DEF Types, bfree, log_write
  <2>. QED BY <1>1, <1>8, <2>1, <2>2 DEF LogInv, InWrite
<1>100. ContentsInv' BY <1>9, <1>10, <1>11, <1>15, <1>16, <1>17, <1>18, <1>19, Combined
<1>. QED BY <1>100, <1>11

LEMMA TruncBlockStep ==
    ASSUME ContentsConstants, ContentsInv, NEW p \in Procs, itrunc_block(p)
    PROVE  ContentsInv' /\ \E i \in Made : i = Ip(p) /\ Touches(p, i)
<1>. Types /\ LockInv BY DEF ContentsInv
<1>1. pc[p] = "itrunc" /\ Unfreed(p) # {} BY DEF itrunc_block
<1>0. PICK i \in Made : i = Ip(p) BY <1>1, Holder DEF Busy
<1>2. /\ NDIRECT \in Nat /\ MAXFILE \in Nat \ {0} /\ BPB \in Nat \ {0} /\ NBLOCKS \in Nat \ {0}
      /\ NDIRECT < MAXFILE
  BY Sizes
<1>3. PICK d \in Nat : d = done[p] BY DEF Types
<1>4. PICK m \in d .. MAXFILE - 1 :
        /\ m = Min(Unfreed(p)) /\ Addr(i, m) # 0
        /\ \A n \in d .. MAXFILE - 1 : n < m => Addr(i, n) = 0
  <2>1. Unfreed(p) = {n \in d .. MAXFILE - 1 : Addr(i, n) # 0} BY <1>0, <1>3 DEF Unfreed
  <2>2. IsFiniteSet(d .. MAXFILE - 1) BY <1>2, FS_Interval
  <2>3. Unfreed(p) \subseteq d .. MAXFILE - 1 BY <2>1
  <2>4. IsFiniteSet(Unfreed(p)) BY <2>2, <2>3, FS_Subset
  <2>5. Unfreed(p) \subseteq Int BY <2>3
  <2>. DEFINE M == Min(Unfreed(p))
  <2>6. M \in Unfreed(p) /\ \A y \in Unfreed(p) : M <= y
    BY <1>1, <2>4, <2>5, MinIsLeast
  <2>. HIDE DEF M
  <2>7. M \in d .. MAXFILE - 1 /\ Addr(i, M) # 0 BY <2>1, <2>6
  <2>8. ASSUME NEW n \in d .. MAXFILE - 1, n < M PROVE Addr(i, n) = 0
    <3>1. ~(M <= n) BY <1>3, <2>7, <2>8
    <3>. QED BY <2>1, <2>6, <3>1
  <2>. QED BY <2>7, <2>8 DEF M
<1>5. m \in Nat /\ m \in 0 .. MAXFILE /\ m # MAXFILE /\ m < MAXFILE BY <1>2
<1>6. PICK b \in Blocks : b = Addr(i, m)
  <2>1. EntriesInv(i) BY DEF ContentsInv
  <2>2. m \in 0 .. MAXFILE - 1 BY <1>3
  <2>3. Addr(i, m) \in 0 .. NBLOCKS BY <2>1, <2>2, AddrTypes
  <2>. QED BY <1>2, <1>4, <2>3 DEF Blocks
<1>7. /\ bfree(p, b, "itrunc") /\ done' = [done EXCEPT ![p] = m + 1]
      /\ inode' = IF m < NDIRECT THEN [inode EXCEPT ![i].addrs[m] = 0] ELSE inode
      /\ UNCHANGED <<block, dinode, owner, off, fd, left>>
  BY <1>0, <1>4, <1>6 DEF itrunc_block
<1>8. /\ \A j \in Made \ {i} : inode'[j] = inode[j]
      /\ \A n \in 0 .. NDIRECT : n # m => inode'[i].addrs[n] = inode[i].addrs[n]
      /\ inode' \in [Made -> Dinode]
  <2>1. CASE m < NDIRECT
    <3>1. inode[i] \in Dinode /\ inode[i].addrs \in [0 .. NDIRECT -> 0 .. NBLOCKS]
      BY DEF Types, Dinode
    <3>0. 0 \in 0 .. NBLOCKS BY <1>2
    <3>2. [inode[i].addrs EXCEPT ![m] = 0] \in [0 .. NDIRECT -> 0 .. NBLOCKS]
      BY <3>0, <3>1
    <3>3. [inode[i] EXCEPT !.addrs[m] = 0] = [inode[i] EXCEPT !.addrs = [inode[i].addrs EXCEPT ![m] = 0]]
      BY <3>1 DEF Dinode
    <3>4. inode' = [inode EXCEPT ![i] = [inode[i] EXCEPT !.addrs = [inode[i].addrs EXCEPT ![m] = 0]]]
      BY <1>7, <2>1, <3>3 DEF Types
    <3>5. inode'[i].addrs = [inode[i].addrs EXCEPT ![m] = 0]
      BY <3>1, <3>4 DEF Types, Dinode
    <3>6. [inode[i] EXCEPT !.addrs = [inode[i].addrs EXCEPT ![m] = 0]] \in Dinode
      BY <3>1, <3>2 DEF Dinode
    <3>. QED BY <3>1, <3>4, <3>5, <3>6 DEF Types
  <2>2. CASE ~(m < NDIRECT) BY <1>7, <2>2 DEF Types
  <2>. QED BY <2>1, <2>2
<1>9. Indirect(i)' = Indirect(i)
  <2>1. CASE m < NDIRECT
    <3>1. NDIRECT \in 0 .. NDIRECT /\ NDIRECT # m BY <1>2, <2>1
    <3>. QED BY <1>8, <3>1 DEF Indirect
  <2>2. CASE ~(m < NDIRECT) BY <1>7, <2>2 DEF Indirect
  <2>. QED BY <2>1, <2>2
<1>10. ASSUME NEW n \in 0 .. MAXFILE - 1, n # m PROVE Addr(i, n)' = Addr(i, n)
  <2>1. CASE n < NDIRECT
    <3>1. n \in 0 .. NDIRECT BY <1>2, <2>1
    <3>. QED BY <1>8, <1>10, <2>1, <3>1 DEF Addr
  <2>2. CASE ~(n < NDIRECT) BY <1>7, <1>9, <2>2 DEF Addr
  <2>. QED BY <2>1, <2>2
<1>11. done'[p] = m + 1 /\ \A q \in Procs \ {p} : done'[q] = done[q] /\ logged'[q] = logged[q]
  BY <1>7 DEF Types, bfree, log_write
<1>12. Rest(i, m, done[p])' = 0 BY <1>5, <1>11 DEF Rest
<1>13. ASSUME NEW n \in (0 .. MAXFILE) \ {m} PROVE Rest(i, n, done[p])' = Rest(i, n, done[p])
  <2>1. CASE n = MAXFILE BY <1>9, <2>1 DEF Rest
  <2>2. CASE n # MAXFILE /\ n < m
    <3>1. n < done'[p] BY <1>5, <1>11, <2>2
    <3>2. n < d \/ n \in d .. MAXFILE - 1 BY <1>2, <2>2
    <3>. QED BY <1>3, <1>4, <2>2, <3>1, <3>2 DEF Rest
  <2>3. CASE n # MAXFILE /\ ~(n < m)
    <3>1. ~(n < m + 1) /\ ~(n < d) /\ n \in 0 .. MAXFILE - 1 /\ n # m
      BY <1>2, <1>5, <2>3
    <3>2. Addr(i, n)' = Addr(i, n) BY <1>10, <3>1
    <3>. QED BY <1>3, <1>11, <2>3, <3>1, <3>2 DEF Rest
  <2>. QED BY <2>2, <2>1, <2>3
<1>14. At(i, m) = b
  <2>1. ~(m < d) BY <1>3
  <2>. QED BY <1>0, <1>1, <1>3, <1>5, <1>6, <2>1, RestIsNamed DEF Rest
<1>15. TruncKeeps(p, i) BY <1>1, <1>7, <1>8, <1>11 DEF TruncKeeps
<1>16. ASSUME pc' = pc PROVE Types'
  <2>1. used' \subseteq Blocks BY <1>7 DEF bfree, Types
  <2>2. done' \in [Procs -> Nat] BY <1>5, <1>7 DEF Types
  <2>3. logged' \in [Procs -> SUBSET ({"bitmap", "data"} \X Nat)]
    <3>1. b \in Nat BY DEF Blocks
    <3>2. b \div BPB \in Nat BY <1>2, <3>1, Division
    <3>3. BBLOCK(b) \in {"bitmap", "data"} \X Nat BY <3>2 DEF BBLOCK
    <3>. QED BY <1>7, <3>3 DEF Types, bfree, log_write
  <2>. QED BY <1>7, <1>8, <1>16, <2>1, <2>2, <2>3 DEF Types
<1>100. ContentsInv' /\ Touches(p, i)
  BY <1>0, <1>5, <1>7, <1>9, <1>12, <1>13, <1>14, <1>15, <1>16, Freed
<1>. QED BY <1>0, <1>100

LEMMA TruncIndirectStep ==
    ASSUME ContentsConstants, ContentsInv, NEW p \in Procs, itrunc_indirect(p)
    PROVE  ContentsInv' /\ \E i \in Made : i = Ip(p) /\ Touches(p, i)
<1>. Types /\ LockInv BY DEF ContentsInv
<1>1. pc[p] = "itrunc" /\ Unfreed(p) = {} BY DEF itrunc_indirect
<1>0. PICK i \in Made : i = Ip(p) BY <1>1, Holder DEF Busy
<1>2. /\ NDIRECT \in Nat /\ MAXFILE \in Nat \ {0} /\ BPB \in Nat \ {0} /\ NBLOCKS \in Nat \ {0}
  BY Sizes
<1>3. PICK d \in Nat : d = done[p] BY DEF Types
<1>4. \A n \in d .. MAXFILE - 1 : Addr(i, n) = 0 BY <1>0, <1>1, <1>3 DEF Unfreed
<1>5. NDIRECT \in 0 .. NDIRECT /\ MAXFILE \in 0 .. MAXFILE BY <1>2
<1>6. PICK b \in Blocks : b = Indirect(i)
  <2>1. Indirect(i) # 0 BY <1>0 DEF itrunc_indirect
  <2>. QED BY <2>1, IndirectUsed
<1>7. /\ bfree(p, b, "itrunc") /\ done' = [done EXCEPT ![p] = MAXFILE]
      /\ inode' = [inode EXCEPT ![i].addrs[NDIRECT] = 0]
      /\ UNCHANGED <<block, dinode, owner, off, fd, left>>
  BY <1>0, <1>6 DEF itrunc_indirect
<1>8. /\ \A j \in Made \ {i} : inode'[j] = inode[j]
      /\ inode'[i].addrs[NDIRECT] = 0
      /\ inode' \in [Made -> Dinode]
  <2>1. inode[i] \in Dinode /\ inode[i].addrs \in [0 .. NDIRECT -> 0 .. NBLOCKS]
    BY DEF Types, Dinode
  <2>2. [inode[i].addrs EXCEPT ![NDIRECT] = 0] \in [0 .. NDIRECT -> 0 .. NBLOCKS]
    BY <1>2, <2>1
  <2>3. [inode[i] EXCEPT !.addrs[NDIRECT] = 0]
          = [inode[i] EXCEPT !.addrs = [inode[i].addrs EXCEPT ![NDIRECT] = 0]]
    BY <2>1 DEF Dinode
  <2>4. inode' = [inode EXCEPT ![i] =
                    [inode[i] EXCEPT !.addrs = [inode[i].addrs EXCEPT ![NDIRECT] = 0]]]
    BY <1>7, <2>3 DEF Types
  <2>5. inode'[i].addrs = [inode[i].addrs EXCEPT ![NDIRECT] = 0]
    BY <2>1, <2>4 DEF Types, Dinode
  <2>6. [inode[i] EXCEPT !.addrs = [inode[i].addrs EXCEPT ![NDIRECT] = 0]] \in Dinode
    BY <2>1, <2>2 DEF Dinode
  <2>. QED BY <1>5, <2>1, <2>4, <2>5, <2>6 DEF Types
<1>9. Indirect(i)' = 0 BY <1>8 DEF Indirect
<1>11. done'[p] = MAXFILE /\ \A q \in Procs \ {p} :
       done'[q] = done[q] /\ logged'[q] = logged[q]
  BY <1>7 DEF Types, bfree, log_write
<1>12. Rest(i, MAXFILE, done[p])' = 0 BY <1>9 DEF Rest
<1>13. ASSUME NEW n \in (0 .. MAXFILE) \ {MAXFILE}
       PROVE  Rest(i, n, done[p])' = Rest(i, n, done[p])
  <2>1. n < MAXFILE /\ n # MAXFILE /\ (n < d \/ n \in d .. MAXFILE - 1) BY <1>2
  <2>. QED BY <1>3, <1>4, <1>11, <2>1 DEF Rest
<1>14. At(i, MAXFILE) = b BY <1>6 DEF At
<1>15. TruncKeeps(p, i) BY <1>1, <1>7, <1>8, <1>11 DEF TruncKeeps
<1>16. ASSUME pc' = pc PROVE Types'
  <2>1. used' \subseteq Blocks BY <1>7 DEF bfree, Types
  <2>2. done' \in [Procs -> Nat] BY <1>2, <1>7 DEF Types
  <2>3. logged' \in [Procs -> SUBSET ({"bitmap", "data"} \X Nat)]
    <3>1. b \in Nat BY DEF Blocks
    <3>2. b \div BPB \in Nat BY <1>2, <3>1, Division
    <3>3. BBLOCK(b) \in {"bitmap", "data"} \X Nat BY <3>2 DEF BBLOCK
    <3>. QED BY <1>7, <3>3 DEF Types, bfree, log_write
  <2>. QED BY <1>7, <1>8, <1>16, <2>1, <2>2, <2>3 DEF Types
<1>100. ContentsInv' /\ Touches(p, i)
  BY <1>0, <1>5, <1>7, <1>9, <1>12, <1>13, <1>14, <1>15, <1>16, Freed
<1>. QED BY <1>0, <1>100

LEMMA TruncStep ==
    ASSUME ContentsConstants, ContentsInv, NEW p \in Procs, itrunc(p)
    PROVE  ContentsInv' /\ \E i \in Made : i = Ip(p) /\ Touches(p, i)
<1>. Types /\ LockInv /\ NamedOnce(Map, used) BY DEF ContentsInv
<1>1. pc[p] = "itrunc" /\ Unfreed(p) = {} BY DEF itrunc
<1>0. PICK i \in Made : i = Ip(p) BY <1>1, Holder DEF Busy
<1>2. fd[p] \in Opened /\ owner[i] = p /\ p # Nobody BY <1>0, <1>1, Holder DEF Busy
<1>3. /\ NDIRECT \in Nat /\ MAXFILE \in Nat \ {0} /\ BSIZE \in Nat \ {0} /\ NBLOCKS \in Nat \ {0}
      /\ MAXFILE = NDIRECT + BSIZE
  BY Sizes
<1>4. PICK d \in Nat : d = done[p] BY DEF Types
<1>5. Indirect(i) = 0 /\ \A n \in d .. MAXFILE - 1 : Addr(i, n) = 0
  BY <1>0, <1>1, <1>4 DEF itrunc, Unfreed
<1>6. /\ inode' = [inode EXCEPT ![i] = Cleared] /\ dinode' = [dinode EXCEPT ![i] = Cleared]
      /\ pc' = [pc EXCEPT ![p] = "idle"] /\ fd' = [fd EXCEPT ![p] = Nobody]
      /\ owner' = [owner EXCEPT ![i] = Nobody]
      /\ done' = [done EXCEPT ![p] = 0] /\ logged' = [logged EXCEPT ![p] = {}]
      /\ used' = used /\ block' = block /\ off' = off /\ left' = left
  BY <1>0 DEF itrunc, end_op, Goto, iunlock
<1>7. /\ Cleared \in Dinode /\ Cleared.size = 0
      /\ \A n \in 0 .. NDIRECT : Cleared.addrs[n] = 0
  <2>1. 0 \in 0 .. NBLOCKS BY <1>3
  <2>. QED BY <2>1 DEF Cleared, Dinode
<1>8. /\ inode'[i] = Cleared /\ dinode'[i] = Cleared /\ owner'[i] = Nobody
      /\ pc'[p] = "idle" /\ done'[p] = 0 /\ logged'[p] = {}
  BY <1>6 DEF Types
<1>9. Types'
  <2>1. inode' \in [Made -> Dinode] /\ dinode' \in [Made -> Dinode]
    BY <1>6, <1>7 DEF Types
  <2>2. owner' \in [Made -> Procs \cup {Nobody}] BY <1>6 DEF Types
  <2>3. pc' \in [Procs -> {"idle", "begin_op"} \cup Busy] BY <1>6 DEF Types
  <2>4. fd' \in [Procs -> Opened \cup {Nobody}] /\ done' \in [Procs -> Nat]
    BY <1>6 DEF Types
  <2>5. logged' \in [Procs -> SUBSET ({"bitmap", "data"} \X Nat)] BY <1>6 DEF Types
  <2>. QED BY <1>6, <2>1, <2>2, <2>3, <2>4, <2>5 DEF Types
<1>10. \A q \in Procs \ {p} :
          pc'[q] = pc[q] /\ fd'[q] = fd[q] /\ done'[q] = done[q] /\ logged'[q] = logged[q]
  BY <1>6 DEF Types
<1>11. LockInv'
  <2>1. Others(p) BY <1>10 DEF Others
  <2>. QED BY <1>0, <1>1, <1>6, <1>8, <2>1, LocksReleased DEF Busy
<1>12. Touches(p, i)
  <2>1. \A j \in Made \ {i} :
        inode'[j] = inode[j] /\ dinode'[j] = dinode[j] /\ owner'[j] = owner[j]
    BY <1>6 DEF Types
  <2>. QED BY <1>0, <1>2, <1>6, <1>8, <1>10, <2>1 DEF Touches
<1>13. \A n : ~Passed(i, n)'
  <2>1. ASSUME NEW q \in Procs, pc'[q] = "itrunc", Ip(q)' = i PROVE FALSE
    <3>1. owner'[i] = q BY <1>11, <2>1 DEF LockInv, Busy
    <3>. QED BY <1>8, <3>1 DEF ContentsConstants
  <2>. QED BY <2>1 DEF Passed
<1>14. Indirect(i)' = 0 BY <1>3, <1>7, <1>8 DEF Indirect
<1>15. ASSUME NEW n \in 0 .. MAXFILE PROVE At(i, n)' = At(i, n)
  <2>1. At(i, n) = 0
    <3>1. n = MAXFILE \/ n < d \/ n \in d .. MAXFILE - 1 BY <1>3, <1>4
    <3>. QED BY <1>0, <1>1, <1>4, <1>5, <3>1, RestIsNamed DEF Rest
  <2>2. CASE n = MAXFILE BY <1>14, <2>1, <2>2 DEF At
  <2>3. CASE n # MAXFILE /\ n < NDIRECT
    <3>1. n \in 0 .. NDIRECT BY <1>3, <2>3
    <3>2. Addr(i, n)' = 0 BY <1>7, <1>8, <2>3, <3>1 DEF Addr
    <3>. QED BY <1>13, <2>1, <2>3, <3>2 DEF At
  <2>4. CASE n # MAXFILE /\ ~(n < NDIRECT)
    <3>1. Addr(i, n)' = 0 BY <1>14, <2>4 DEF Addr
    <3>. QED BY <1>13, <2>1, <2>4, <3>1 DEF At
  <2>. QED BY <2>2, <2>3, <2>4
<1>16. NamedOnce(Map', used') BY <1>6, <1>9, <1>11, <1>12, <1>15, SameNames
<1>17. EntriesInv(i)' BY <1>14 DEF EntriesInv
<1>18. WholeInv(i)'
  <2>1. \A n \in 0 .. MAXFILE - 1 : ~(n * BSIZE < 0) BY <1>3
  <2>2. MAXFILE * BSIZE >= 0 BY <1>3
  <2>3. inode'[i].size = 0 BY <1>7, <1>8
  <2>4. FilledTo(i, inode[i].size)' BY <2>1, <2>3 DEF FilledTo
  <2>. QED BY <1>8, <2>2, <2>3, <2>4 DEF WholeInv
<1>19. WriteInv(p)' /\ LogInv(p)' BY <1>8 DEF WriteInv, LogInv, InWrite
<1>100. ContentsInv' BY <1>9, <1>11, <1>12, <1>16, <1>17, <1>18, <1>19, Combined
<1>. QED BY <1>100, <1>0, <1>12
-------------------------------------------------------------------------------
LEMMA ContentsInit == ASSUME ContentsConstants, Init PROVE ContentsInv
<1>1. /\ used = Image.used /\ block = Image.block /\ dinode = Image.dinode /\ inode = Image.dinode
      /\ owner = [i \in Made |-> Nobody] /\ off = [o \in Opened |-> 0]
      /\ pc = [p \in Procs |-> "idle"] /\ fd = [p \in Procs |-> Nobody]
      /\ left = [p \in Procs |-> 0] /\ done = [p \in Procs |-> 0]
      /\ logged = [p \in Procs |-> {}]
  BY DEF Init, Made
<1>2. /\ used \subseteq Blocks
      /\ block \in [Blocks -> [0 .. BSIZE - 1 -> {byte} \cup Procs \cup 0 .. NBLOCKS]]
      /\ inode \in [Made -> [size : 0 .. MAXFILE * BSIZE, addrs : [0 .. NDIRECT -> 0 .. NBLOCKS]]]
      /\ \A b \in Blocks : b \in used <=> \E i \in Made, n \in 0 .. MAXFILE : MadeAt(i, n) = b
      /\ \A i \in Made, n \in 0 .. MAXFILE : MadeAt(i, n) \in 0 .. NBLOCKS
      /\ \A i, j \in Made, n, m \in 0 .. MAXFILE :
           MadeAt(i, n) = MadeAt(j, m) /\ MadeAt(i, n) # 0 => i = j /\ n = m
      /\ \A i \in Made, n \in 0 .. MAXFILE :
           n < MAXFILE /\ n * BSIZE < inode[i].size => MadeAt(i, n) # 0
  <2>1. ImageConstants BY DEF ContentsConstants
  <2>2. /\ Image.used \subseteq Blocks
        /\ Image.block \in [Blocks -> [0 .. BSIZE - 1 -> {byte} \cup Procs \cup 0 .. NBLOCKS]]
        /\ Image.dinode \in
             [Made -> [size : 0 .. MAXFILE * BSIZE, addrs : [0 .. NDIRECT -> 0 .. NBLOCKS]]]
    BY <2>1 DEF ImageConstants
  <2>3. \A b \in Blocks :
          b \in Image.used <=> \E i \in Made, n \in 0 .. MAXFILE : MadeAt(i, n) = b
    BY <2>1 DEF ImageConstants
  <2>4. \A i, j \in Made, n, m \in 0 .. MAXFILE :
          /\ MadeAt(i, n) \in 0 .. NBLOCKS
          /\ MadeAt(i, n) = MadeAt(j, m) /\ MadeAt(i, n) # 0 => i = j /\ n = m
          /\ n < MAXFILE /\ n * BSIZE < Image.dinode[i].size => MadeAt(i, n) # 0
    BY <2>1 DEF ImageConstants
  <2>5. \A i \in Made, n \in 0 .. MAXFILE : MadeAt(i, n) \in 0 .. NBLOCKS BY <2>4
  <2>6. \A i \in Made, n \in 0 .. MAXFILE :
          n < MAXFILE /\ n * BSIZE < Image.dinode[i].size => MadeAt(i, n) # 0
    BY <2>4
  <2>7. \A i, j \in Made, n, m \in 0 .. MAXFILE :
          MadeAt(i, n) = MadeAt(j, m) /\ MadeAt(i, n) # 0 => i = j /\ n = m
    BY <2>4
  <2>8. /\ used \subseteq Blocks
        /\ block \in [Blocks -> [0 .. BSIZE - 1 -> {byte} \cup Procs \cup 0 .. NBLOCKS]]
        /\ inode \in [Made -> [size : 0 .. MAXFILE * BSIZE, addrs : [0 .. NDIRECT -> 0 .. NBLOCKS]]]
    BY <1>1, <2>2
  <2>9. \A b \in Blocks : b \in used <=> \E i \in Made, n \in 0 .. MAXFILE : MadeAt(i, n) = b
    BY <1>1, <2>3
  <2>10. \A i \in Made, n \in 0 .. MAXFILE :
           n < MAXFILE /\ n * BSIZE < inode[i].size => MadeAt(i, n) # 0
    BY <1>1, <2>6
  <2>. QED BY <2>5, <2>7, <2>8, <2>9, <2>10
<1>3. /\ NDIRECT \in Nat /\ MAXFILE \in Nat \ {0} /\ BSIZE \in Nat \ {0} /\ NBLOCKS \in Nat \ {0}
      /\ MAXFILE = NDIRECT + BSIZE
  BY Sizes
<1>4. Types
  <2>1. inode \in [Made -> Dinode] BY <1>2 DEF Dinode
  <2>2. dinode = inode BY <1>1
  <2>. QED BY <1>1, <1>2, <2>1, <2>2 DEF Types, Cell
<1>5. LockInv BY <1>1 DEF LockInv, Busy
<1>6. ASSUME NEW i \in Made, NEW n \in 0 .. MAXFILE
      PROVE  At(i, n) = MadeAt(i, n) /\ (n # MAXFILE => Addr(i, n) = MadeAt(i, n))
  <2>1. ~Passed(i, n) BY <1>1 DEF Passed
  <2>2. ~(MAXFILE < NDIRECT) BY <1>3
  <2>. QED BY <1>1, <2>1, <2>2 DEF At, Addr, Indirect, MadeAt
<1>7. NamedOnce(Map, used)
  <2>1. \A x \in Places :
        Map[x] = MadeAt(x[1], x[2]) /\ x[1] \in Made /\ x[2] \in 0 .. MAXFILE
                          /\ x = <<x[1], x[2]>>
    BY <1>6 DEF Map, Places
  <2>2. Map \in [Places -> 0 .. NBLOCKS]
    <3>1. \A x \in Places : Map[x] \in 0 .. NBLOCKS BY <1>2, <2>1
    <3>. QED BY <3>1 DEF Map
  <2>3. ASSUME NEW b \in Blocks PROVE b \in used <=> \E x \in Places : Map[x] = b
    <3>1. ASSUME NEW x \in Places, Map[x] = b PROVE b \in used BY <1>2, <2>1, <3>1
    <3>2. ASSUME NEW i \in Made, NEW n \in 0 .. MAXFILE, MadeAt(i, n) = b
          PROVE  \E x \in Places : Map[x] = b
      <4>1. <<i, n>> \in Places /\ Map[<<i, n>>] = b BY <1>6, <3>2 DEF Map, Places
      <4>. QED BY <4>1
    <3>. QED BY <1>2, <3>1, <3>2
  <2>4. ASSUME NEW x \in Places, NEW y \in Places, Map[x] = Map[y], Map[x] # 0 PROVE x = y
    <3>1. x[1] = y[1] /\ x[2] = y[2] BY <1>2, <2>1, <2>4
    <3>. QED BY <2>1, <3>1
  <2>. QED BY <2>2, <2>3, <2>4 DEF NamedOnce
<1>8. ASSUME NEW i \in Made PROVE EntriesInv(i) /\ WholeInv(i)
  <2>1. ASSUME Indirect(i) # 0 PROVE block[Indirect(i)] \in [0 .. BSIZE - 1 -> 0 .. NBLOCKS]
    <3>. DEFINE f == block[Indirect(i)]
    <3>1. ASSUME NEW c \in 0 .. BSIZE - 1 PROVE f[c] \in 0 .. NBLOCKS
      <4>. DEFINE n == NDIRECT + c
      <4>1. n \in 0 .. MAXFILE /\ ~(n < NDIRECT) /\ n # MAXFILE /\ n - NDIRECT = c
        BY <1>3
      <4>. HIDE DEF n
      <4>2. MadeAt(i, n) = f[c] BY <1>1, <2>1, <4>1 DEF MadeAt, Indirect
      <4>. QED BY <1>2, <4>1, <4>2
    <3>2. Indirect(i) \in Blocks
      <4>1. NDIRECT \in 0 .. NDIRECT BY <1>3
      <4>2. Indirect(i) \in 0 .. NBLOCKS BY <1>2, <4>1 DEF Indirect
      <4>. QED BY <1>3, <2>1, <4>2 DEF Blocks
    <3>3. f \in [0 .. BSIZE - 1 -> {byte} \cup Procs \cup 0 .. NBLOCKS] BY <1>2, <3>2
    <3>. HIDE DEF f
    <3>4. f \in [0 .. BSIZE - 1 -> 0 .. NBLOCKS] BY <3>1, <3>3
    <3>. QED BY <3>4 DEF f
  <2>2. inode[i].size <= MAXFILE * BSIZE
    <3>1. inode[i].size \in 0 .. MAXFILE * BSIZE BY <1>2
    <3>. QED BY <3>1
  <2>3. FilledTo(i, inode[i].size)
    <3>1. \A n \in 0 .. MAXFILE - 1 : n \in 0 .. MAXFILE /\ n < MAXFILE /\ n # MAXFILE
      BY <1>3
    <3>. QED BY <1>2, <1>6, <3>1 DEF FilledTo
  <2>. QED BY <1>1, <2>1, <2>2, <2>3 DEF EntriesInv, WholeInv
<1>9. \A p \in Procs : WriteInv(p) /\ LogInv(p)
  BY <1>1 DEF WriteInv, LogInv, InWrite
<1>. QED BY <1>4, <1>5, <1>7, <1>8, <1>9 DEF ContentsInv

LEMMA ContentsStutter == ASSUME ContentsInv, UNCHANGED vars PROVE ContentsInv'
<1>1. /\ used' = used /\ block' = block /\ dinode' = dinode /\ inode' = inode
      /\ owner' = owner /\ off' = off /\ pc' = pc /\ fd' = fd /\ left' = left
      /\ done' = done /\ logged' = logged
  BY DEF vars, disk, locals
<1>2. Types' BY <1>1 DEF ContentsInv, Types
<1>3. LockInv' BY <1>1 DEF ContentsInv, LockInv, Ip
<1>4. /\ \A i : Indirect(i)' = Indirect(i) /\ Truncating(i)' = Truncating(i)
      /\ \A i, n : Addr(i, n)' = Addr(i, n) /\ Passed(i, n)' = Passed(i, n)
  BY <1>1 DEF Indirect, Addr, Truncating, Passed, Ip
<1>5. \A i, n : At(i, n)' = At(i, n) BY <1>4 DEF At
<1>6. Map' = Map BY <1>5 DEF Map
<1>7. NamedOnce(Map, used)' BY <1>1, <1>6 DEF ContentsInv, NamedOnce
<1>8. \A i \in Made : EntriesInv(i)' BY <1>1, <1>4 DEF ContentsInv, EntriesInv
<1>9. \A i \in Made : WholeInv(i)' BY <1>1, <1>4 DEF ContentsInv, WholeInv, FilledTo
<1>10. \A p : Ip(p)' = Ip(p) /\ Todo(p)' = Todo(p) /\ Here(p)' = Here(p)
              /\ First(p)' = First(p) /\ End(p)' = End(p)
  BY <1>1 DEF Ip, Todo, Here, First, End
<1>11. \A p \in Procs : WriteInv(p)'
  BY <1>1, <1>4, <1>10 DEF ContentsInv, WriteInv, InWrite, FilledTo
<1>12. \A p, x : MayLog(p, x)' = MayLog(p, x) BY <1>1, <1>4, <1>10 DEF MayLog
<1>13. \A p \in Procs : LogInv(p)' BY <1>1, <1>12 DEF ContentsInv, LogInv, InWrite
<1>. QED BY <1>2, <1>3, <1>7, <1>8, <1>9, <1>11, <1>13 DEF ContentsInv

LEMMA ContentsNext == ASSUME ContentsConstants, ContentsInv, [Next]_vars PROVE ContentsInv'
<1>1. CASE UNCHANGED vars BY <1>1, ContentsStutter
<1>2. ASSUME NEW p \in Procs, writes(p) PROVE ContentsInv'
  BY <1>2, WriteiStep, RefusedStep, BmapAddrStep, BmapEntryStep, WriteBlockStep,
     ShortStep,
     WriteDoneStep DEF writes
<1>3. ASSUME NEW p \in Procs, truncates(p) PROVE ContentsInv'
  BY <1>3, TruncBlockStep, TruncIndirectStep, TruncStep DEF truncates
<1>4. ASSUME NEW p \in Procs, NEW o \in Opened, open(p, o) \/ open_trunc(p, o)
      PROVE  ContentsInv'
  BY <1>4, OpenStep, OpenTruncStep
<1>5. ASSUME NEW p \in Procs, NEW o \in Opened, NEW n \in Lengths,
             filewrite(p, o, n) \/ fileread(p, o, n)
      PROVE  ContentsInv'
  BY <1>5, FilewriteStep, FilereadStep
<1>. QED BY <1>1, <1>2, <1>3, <1>4, <1>5 DEF Next

(* The inductive invariant.                                                *)
THEOREM ContentsInvariant == ContentsConstants => (Spec => []ContentsInv)
<1>. SUFFICES ASSUME ContentsConstants PROVE Spec => []ContentsInv OBVIOUS
<1>1. Init => ContentsInv BY ContentsInit
<1>2. ContentsInv /\ [Next]_vars => ContentsInv' BY ContentsNext
<1>. QED BY <1>1, <1>2, PTL DEF Spec
-------------------------------------------------------------------------------
LEMMA KeptSpace == ASSUME ContentsConstants, ContentsInv PROVE SpaceKept
<1>. Types BY DEF ContentsInv
<1>1. Inodes = Made BY DEF Inodes, Types
<1>2. NamedOnce(Map, used) BY DEF ContentsInv
<1>3. \A x \in Places : Map[x] = At(x[1], x[2]) BY DEF Map
<1>4. ASSUME NEW b \in Blocks PROVE NamedAt(b) = IF b \in used THEN 1 ELSE 0
  <2>. DEFINE S == {x \in Places : Map[x] = b}
  <2>1. {x \in Inodes \X (0 .. MAXFILE) : At(x[1], x[2]) = b} = S
    BY <1>1, <1>3 DEF Places
  <2>2. NamedAt(b) = Cardinality(S) BY <2>1 DEF NamedAt
  <2>3. b # 0 BY DEF Blocks
  <2>4. CASE b \in used
    <3>1. PICK x \in Places : Map[x] = b BY <1>2, <2>4 DEF NamedOnce
    <3>2. \A y \in Places : Map[y] = b => y = x BY <1>2, <2>3, <3>1 DEF NamedOnce
    <3>3. S = {x} BY <3>1, <3>2
    <3>. HIDE DEF S
    <3>. QED BY <2>2, <2>4, <3>3, FS_Singleton
  <2>5. CASE b \notin used
    <3>1. S = {} BY <1>2, <2>5 DEF NamedOnce
    <3>. HIDE DEF S
    <3>. QED BY <2>2, <2>5, <3>1, FS_EmptySet
  <2>. QED BY <2>4, <2>5
<1>5. ASSUME NEW i \in Made, owner[i] = Nobody
      PROVE  /\ inode[i] = dinode[i]
             /\ inode[i].size > 0 => ~Holes(i, 0 .. inode[i].size - 1)
  <2>1. WholeInv(i) /\ ~Truncating(i) BY <1>5 DEF ContentsInv, Truncating
  <2>2. PICK s \in Nat : s = inode[i].size BY DEF Types, Dinode
  <2>3. s <= MAXFILE * BSIZE /\ FilledTo(i, s) BY <2>1, <2>2 DEF WholeInv
  <2>4. 0 .. s - 1 \in SUBSET Nat /\ \A b \in 0 .. s - 1 : b < s OBVIOUS
  <2>5. ~Holes(i, 0 .. s - 1) BY <2>3, <2>4, NoHoles
  <2>. QED BY <1>5, <2>1, <2>2, <2>5 DEF WholeInv
<1>. QED BY <1>1, <1>4, <1>5 DEF SpaceKept

(* How many blocks a transaction logs.                                     *)
LEMMA Images ==
    ASSUME NEW f, NEW a \in Int, NEW k \in Nat
    PROVE  /\ IsFiniteSet({f[n] : n \in a .. a + k - 1})
           /\ Cardinality({f[n] : n \in a .. a + k - 1}) <= k
           /\ Cardinality({f[n] : n \in a .. a + k - 1}) \in Nat
<1>. DEFINE S == a .. a + k - 1
            T == {f[n] : n \in S}
            g == [n \in S |-> f[n]]
<1>1. IsFiniteSet(S) /\ Cardinality(S) = k
  <2>1. a + k - 1 \in Int OBVIOUS
  <2>2. IsFiniteSet(S) /\ Cardinality(S) = IF a > a + k - 1 THEN 0 ELSE (a + k - 1) - a + 1
    BY <2>1, FS_Interval
  <2>. HIDE DEF S
  <2>. QED BY <2>2
<1>2. g \in Surjection(S, T) BY DEF Surjection
<1>. HIDE DEF S, T, g
<1>3. IsFiniteSet(T) /\ Cardinality(T) <= Cardinality(S) BY <1>1, <1>2, FS_Surjection
<1>4. Cardinality(T) \in Nat BY <1>3, FS_CardinalityType
<1>. QED BY <1>1, <1>3, <1>4 DEF S, T

LEMMA UnionIsLess ==
    ASSUME NEW S, NEW T, NEW s \in Nat, NEW t \in Nat,
           IsFiniteSet(S), Cardinality(S) <= s, IsFiniteSet(T), Cardinality(T) <= t
    PROVE  IsFiniteSet(S \cup T) /\ Cardinality(S \cup T) <= s + t
<1>1. /\ IsFiniteSet(S \cup T)
      /\ Cardinality(S \cup T) = Cardinality(S) + Cardinality(T) - Cardinality(S \cap T)
  BY FS_Union
<1>2. IsFiniteSet(S \cap T) BY FS_Intersection
<1>3. /\ Cardinality(S) \in Nat /\ Cardinality(T) \in Nat /\ Cardinality(S \cap T) \in Nat
  BY <1>2, FS_CardinalityType
<1>. QED BY <1>1, <1>3

LEMMA PairIsLess == ASSUME NEW x, NEW y PROVE IsFiniteSet({x, y}) /\ Cardinality({x, y}) <= 2
<1>1. IsFiniteSet({x}) /\ Cardinality({x}) = 1 /\ IsFiniteSet({y}) /\ Cardinality({y}) = 1
  BY FS_Singleton
<1>2. Cardinality({x}) <= 1 /\ Cardinality({y}) <= 1 /\ 1 \in Nat BY <1>1
<1>4. IsFiniteSet({x} \cup {y}) /\ Cardinality({x} \cup {y}) <= 1 + 1
  BY <1>1, <1>2, UnionIsLess
<1>3. {x} \cup {y} = {x, y} OBVIOUS
<1>. QED BY <1>3, <1>4

LEMMA SubsetIsLess ==
    ASSUME NEW S, IsFiniteSet(S), NEW s \in Nat, Cardinality(S) <= s, NEW T \in SUBSET S
    PROVE  IsFiniteSet(T) /\ Cardinality(T) <= s
<1>1. IsFiniteSet(T) /\ Cardinality(T) <= Cardinality(S) BY FS_Subset
<1>2. Cardinality(T) \in Nat /\ Cardinality(S) \in Nat BY <1>1, FS_CardinalityType
<1>. QED BY <1>1, <1>2

(* The blocks of a write of at most k * B bytes: at most k + 1 that it     *)
(* meets, and at most k that begin behind the offset.                      *)
LEMMA BlocksMet ==
    ASSUME NEW B \in Nat \ {0}, NEW a \in Nat, NEW t \in Nat, NEW k \in Nat, t <= k * B
    PROVE  LET F == a \div B
               G == IF a = F * B THEN F ELSE F + 1 IN
           /\ F \in Nat /\ G \in Nat
           /\ \A n \in Nat : F <= n /\ n * B < a + t =>
                /\ n \in F .. F + (k + 1) - 1
                /\ a <= n * B => n \in G .. G + k - 1
<1>. DEFINE F == a \div B
            G == IF a = F * B THEN F ELSE F + 1
            r == a % B
<1>1. F \in Nat /\ r \in 0 .. B - 1 /\ a = F * B + r BY Division
<1>. HIDE DEF F, r
<1>2. F * B \in Nat /\ k * B \in Nat BY <1>1
<1>3. G \in Nat BY <1>1
<1>4. ASSUME NEW n \in Nat, F <= n, n * B < a + t
      PROVE  /\ n \in F .. F + (k + 1) - 1
             /\ a <= n * B => n \in G .. G + k - 1
  <2>1. n * B \in Nat /\ (n - F) * B = n * B - F * B BY <1>1
  <2>2. (n - F) * B < r + k * B BY <1>1, <1>2, <1>4, <2>1
  <2>3. (n - F - k) * B = (n - F) * B - k * B BY <1>1
  <2>4. (n - F - k) * B < r /\ (n - F - k) * B \in Int BY <1>1, <1>2, <2>1, <2>2, <2>3
  <2>5. n - F - k < 1
    <3>1. ASSUME n - F - k >= 1 PROVE FALSE
      <4>1. n - F - k \in Int BY <1>1
      <4>2. (n - F - k) * B >= B BY <3>1, <4>1, Multiple
      <4>. QED BY <1>1, <2>4, <4>2
    <3>. QED BY <1>1, <3>1
  <2>6. n \in F .. F + (k + 1) - 1 BY <1>1, <1>4, <2>5
  <2>7. ASSUME a <= n * B PROVE n \in G .. G + k - 1
    <3>1. CASE a = F * B
      <4>1. r = 0 BY <1>1, <1>2, <3>1
      <4>2. (n - F - k) * B < 0 BY <2>4, <4>1
      <4>3. n - F - k < 0
        <5>1. ASSUME n - F - k >= 0 PROVE FALSE
          <6>1. n - F - k \in Nat BY <1>1, <5>1
          <6>2. (n - F - k) * B >= 0 BY <6>1
          <6>. QED BY <2>4, <4>2, <6>2
        <5>. QED BY <1>1, <5>1
      <4>. QED BY <1>1, <1>4, <3>1, <4>3
    <3>2. CASE a # F * B
      <4>1. n # F BY <1>1, <1>2, <2>7, <3>2
      <4>. QED BY <1>1, <1>4, <2>5, <3>2, <4>1
    <3>. QED BY <3>1, <3>2
  <2>. QED BY <2>6, <2>7
<1>. QED BY <1>1, <1>3, <1>4 DEF F

LEMMA WriteFits ==
    ASSUME ContentsConstants, ContentsInv, NEW p \in Procs, InWrite(p)
    PROVE  Cardinality(logged[p] \cup {IBLOCK(Ip(p))}) <= MAXOPBLOCKS
<1>. Types /\ LockInv BY DEF ContentsInv
<1>1. PICK i : i = Ip(p) OBVIOUS
<1>2. fd[p] \in Opened BY Holder DEF InWrite, Busy
<1>3. PICK a \in Nat : a = off[fd[p]] BY <1>2 DEF Types
<1>4. PICK t \in Nat : t = Todo(p) BY TodoIs
<1>. DEFINE k == (MAXOPBLOCKS - 1 - 1 - 2) \div 2
<1>5. k \in Nat /\ 2 * k + 4 <= MAXOPBLOCKS
  <2>1. MAXOPBLOCKS \in Nat /\ MAXOPBLOCKS >= 6 BY DEF ContentsConstants
  <2>. QED BY <2>1
<1>6. BSIZE \in Nat \ {0} /\ MAXFILE \in Nat BY Sizes
<1>7. t <= k * BSIZE BY <1>4, TodoIs DEF MaxWrite
<1>. HIDE DEF k
<1>. DEFINE F == a \div BSIZE
            G == IF a = F * BSIZE THEN F ELSE F + 1
            d == [n \in Int |-> DBLOCK(Addr(i, n))]
            m == [n \in Int |-> BBLOCK(Addr(i, n))]
            D == {d[n] : n \in F .. F + (k + 1) - 1}
            M == {m[n] : n \in G .. G + k - 1}
            X == {DBLOCK(Indirect(i)), BBLOCK(Indirect(i))}
            I == {IBLOCK(i)}
<1>8. /\ F \in Nat /\ G \in Nat
      /\ \A n \in Nat : F <= n /\ n * BSIZE < a + t =>
           n \in F .. F + (k + 1) - 1 /\ (a <= n * BSIZE => n \in G .. G + k - 1)
  BY <1>5, <1>6, <1>7, BlocksMet
<1>. HIDE DEF F, G
<1>9. ASSUME NEW x \in logged[p] PROVE x \in D \cup M \cup X
  <2>1. MayLog(p, x) BY DEF ContentsInv, LogInv
  <2>2. CASE Indirect(i) # 0 /\ x \in {DBLOCK(Indirect(i)), BBLOCK(Indirect(i))}
    BY <2>2
  <2>3. ASSUME NEW n \in 0 .. MAXFILE - 1, First(p) <= n, n * BSIZE < End(p),
               \/ x = DBLOCK(Addr(i, n))
               \/ off[fd[p]] <= n * BSIZE /\ x = BBLOCK(Addr(i, n))
        PROVE  x \in D \cup M
    <3>1. n \in Nat /\ F <= n /\ n * BSIZE < a + t
      BY <1>3, <1>4, <1>6, <2>3 DEF First, End, F
    <3>2. n \in F .. F + (k + 1) - 1 /\ (a <= n * BSIZE => n \in G .. G + k - 1)
      BY <1>8, <3>1
    <3>3. CASE x = DBLOCK(Addr(i, n))
      <4>1. x = d[n] BY <3>3
      <4>. HIDE DEF d
      <4>2. x \in D BY <3>2, <4>1
      <4>. QED BY <4>2
    <3>4. CASE off[fd[p]] <= n * BSIZE /\ x = BBLOCK(Addr(i, n))
      <4>1. x = m[n] /\ n \in G .. G + k - 1 BY <1>3, <3>2, <3>4
      <4>. HIDE DEF m
      <4>2. x \in M BY <4>1
      <4>. QED BY <4>2
    <3>. QED BY <2>3, <3>3, <3>4
  <2>. QED BY <1>1, <2>1, <2>2, <2>3 DEF MayLog
<1>10. IsFiniteSet(D) /\ Cardinality(D) <= k + 1
  <2>1. F \in Int /\ k + 1 \in Nat BY <1>5, <1>8
  <2>. HIDE DEF d
  <2>. QED BY <2>1, Images
<1>11. IsFiniteSet(M) /\ Cardinality(M) <= k
  <2>1. G \in Int BY <1>8
  <2>. HIDE DEF m
  <2>. QED BY <1>5, <2>1, Images
<1>12. IsFiniteSet(X) /\ Cardinality(X) <= 2 BY PairIsLess
<1>13. IsFiniteSet(I) /\ Cardinality(I) <= 1
  <2>1. IsFiniteSet(I) /\ Cardinality(I) = 1 BY FS_Singleton
  <2>. QED BY <2>1
<1>. HIDE DEF D, M, X, I, d, m
<1>14. IsFiniteSet(D \cup M) /\ Cardinality(D \cup M) <= (k + 1) + k
  <2>1. k + 1 \in Nat BY <1>5
  <2>. QED BY <1>5, <1>10, <1>11, <2>1, UnionIsLess
<1>15. IsFiniteSet(D \cup M \cup X) /\ Cardinality(D \cup M \cup X) <= ((k + 1) + k) + 2
  <2>1. (k + 1) + k \in Nat /\ 2 \in Nat BY <1>5
  <2>. QED BY <1>12, <1>14, <2>1, UnionIsLess
<1>16. /\ IsFiniteSet(D \cup M \cup X \cup I)
       /\ Cardinality(D \cup M \cup X \cup I) <= (((k + 1) + k) + 2) + 1
  <2>1. ((k + 1) + k) + 2 \in Nat /\ 1 \in Nat BY <1>5
  <2>. QED BY <1>13, <1>15, <2>1, UnionIsLess
<1>17. logged[p] \cup {IBLOCK(Ip(p))} \in SUBSET (D \cup M \cup X \cup I)
  BY <1>1, <1>9 DEF I
<1>18. (((k + 1) + k) + 2) + 1 \in Nat /\ (((k + 1) + k) + 2) + 1 <= MAXOPBLOCKS BY <1>5
<1>19. MAXOPBLOCKS \in Nat BY DEF ContentsConstants
<1>20. Cardinality(D \cup M \cup X \cup I) <= MAXOPBLOCKS
  <2>1. Cardinality(D \cup M \cup X \cup I) \in Nat BY <1>16, FS_CardinalityType
  <2>. QED BY <1>16, <1>18, <1>19, <2>1
<1>. QED BY <1>16, <1>17, <1>19, <1>20, SubsetIsLess

LEMMA TruncFits ==
    ASSUME ContentsConstants, ContentsInv, NEW p \in Procs, pc[p] = "itrunc"
    PROVE  Cardinality(logged[p] \cup {IBLOCK(Ip(p))}) <= MAXOPBLOCKS
<1>1. BPB \in Nat \ {0} /\ BPB > NBLOCKS /\ NBLOCKS \in Nat
  BY DEF ContentsConstants, ContentsInv, LockInv
<1>2. ASSUME NEW b \in Blocks PROVE BBLOCK(b) = <<"bitmap", 0>>
  <2>1. b \in Nat /\ b < BPB BY <1>1 DEF Blocks
  <2>2. b \div BPB = 0 BY <1>1, <2>1
  <2>. QED BY <2>2 DEF BBLOCK
<1>3. logged[p] \subseteq {<<"bitmap", 0>>} BY <1>2 DEF ContentsInv, LogInv
<1>. DEFINE S == {<<"bitmap", 0>>, IBLOCK(Ip(p))}
<1>4. IsFiniteSet(S) /\ Cardinality(S) <= 2 BY PairIsLess
<1>5. logged[p] \cup {IBLOCK(Ip(p))} \in SUBSET S BY <1>3
<1>. HIDE DEF S
<1>6. 2 \in Nat OBVIOUS
<1>7. /\ IsFiniteSet(logged[p] \cup {IBLOCK(Ip(p))})
      /\ Cardinality(logged[p] \cup {IBLOCK(Ip(p))}) <= 2
  BY <1>4, <1>5, <1>6, SubsetIsLess
<1>8. MAXOPBLOCKS \in Nat /\ MAXOPBLOCKS >= 6 BY DEF ContentsConstants
<1>9. Cardinality(logged[p] \cup {IBLOCK(Ip(p))}) \in Nat BY <1>7, FS_CardinalityType
<1>. QED BY <1>7, <1>8, <1>9

(* bmap(), itrunc(), balloc() and bfree() (kernel/fs.c): a block is in use *)
(* exactly while one place of one file names it, a file that no call has   *)
(* is on disk what it is in memory, and it has the blocks below its size.  *)
THEOREM SpaceIsKept == ContentsConstants => (Spec => []SpaceKept)
<1>. SUFFICES ASSUME ContentsConstants PROVE Spec => []SpaceKept OBVIOUS
<1>1. ContentsInv => SpaceKept BY KeptSpace
<1>. QED BY <1>1, ContentsInvariant, PTL

(* No transaction of filewrite() (kernel/file.c) or of open() with O_TRUNC *)
(* logs more blocks than begin_op() (kernel/log.c) reserved for it.        *)
THEOREM TransactionsFit == ContentsConstants => (Spec => []OpFits)
<1>. SUFFICES ASSUME ContentsConstants PROVE Spec => []OpFits OBVIOUS
<1>1. ContentsInv => OpFits
  BY WriteFits, TruncFits DEF OpFits, InWrite
<1>. QED BY <1>1, ContentsInvariant, PTL

(* bfree() never panics ("freeing free block"), and no read comes to a     *)
(* block that bmap() would have to allocate outside a transaction.         *)
THEOREM ContentsNeverPanic == ContentsConstants => (Spec => []NoPanic)
<1>. SUFFICES ASSUME ContentsConstants PROVE Spec => []NoPanic OBVIOUS
<1>1. ContentsInv => NoPanic BY DEF ContentsInv, Types, Busy, NoPanic
<1>. QED BY <1>1, ContentsInvariant, PTL
-------------------------------------------------------------------------------
(* Files as sequences of bytes.  Who has the inode's lock decides how long *)
(* a file is and where an open file's offset has come to.                  *)
Writes(i) == owner[i] # Nobody /\ InWrite(owner[i])
Reach(i) == IF Writes(i) THEN Here(owner[i]) ELSE 0
Length(i) ==
    IF Truncating(i) THEN 0
    ELSE IF inode[i].size <= Reach(i) THEN Reach(i) ELSE inode[i].size
Position(o) ==
    IF Writes(FileOf[o]) /\ fd[owner[FileOf[o]]] = o THEN Reach(FileOf[o]) ELSE off[o]
Abstract ==
    /\ \A i \in Made :
        Size(i) = Length(i) /\ Length(i) \in Nat /\ Length(i) <= MAXFILE * BSIZE
    /\ \A o \in Opened : Offset(o) = Position(o) /\ Position(o) \in Nat

LEMMA WriterOf ==
    ASSUME ContentsConstants, ContentsInv, NEW i \in Made, Writes(i)
    PROVE  /\ owner[i] \in Procs /\ Ip(owner[i]) = i /\ fd[owner[i]] \in Opened
           /\ FileOf[fd[owner[i]]] = i
           /\ Reach(i) \in Nat /\ Reach(i) = off[fd[owner[i]]] + done[owner[i]]
           /\ Reach(i) <= MAXFILE * BSIZE
<1>. Types /\ LockInv BY DEF ContentsInv
<1>1. PICK w \in Procs : w = owner[i] BY DEF Types, Writes
<1>2. pc[w] \in Busy /\ Ip(w) = i /\ InWrite(w) BY <1>1 DEF LockInv, Writes
<1>3. fd[w] \in Opened BY <1>2, Holder
<1>4. FileOf[fd[w]] = i BY <1>2 DEF Ip
<1>5. off[fd[w]] \in Nat /\ done[w] \in Nat /\ Todo(w) \in Nat BY <1>3, TodoIs DEF Types
<1>6. Reach(i) = off[fd[w]] + done[w] BY <1>1 DEF Reach, Here
<1>7. done[w] <= Todo(w) /\ off[fd[w]] + Todo(w) <= MAXFILE * BSIZE
  BY <1>2 DEF ContentsInv, WriteInv
<1>8. MAXFILE * BSIZE \in Nat BY Sizes
<1>. QED BY <1>1, <1>2, <1>3, <1>4, <1>5, <1>6, <1>7, <1>8

LEMMA Abstraction == ASSUME ContentsConstants, ContentsInv PROVE Abstract
<1>. Types /\ LockInv BY DEF ContentsInv
<1>0. Nobody \notin Procs /\ FileOf \in [Opened -> Made] BY DEF ContentsConstants
<1>1. ASSUME NEW i \in Made PROVE Truncated(i) <=> Truncating(i)
  <2>1. ASSUME NEW p \in Procs, pc[p] = "itrunc", Ip(p) = i PROVE Truncating(i)
    BY <1>0, <2>1 DEF LockInv, Busy, Truncating
  <2>2. ASSUME Truncating(i) PROVE owner[i] \in Procs /\ Ip(owner[i]) = i
    BY <2>2 DEF Truncating, LockInv, Types
  <2>. QED BY <2>1, <2>2 DEF Truncated, Truncating
<1>2. ASSUME NEW o \in Opened, NEW p \in Writer(o)
      PROVE  Writes(FileOf[o]) /\ p = owner[FileOf[o]] /\ fd[p] = o
  <2>1. p \in Procs /\ pc[p] \in Busy /\ fd[p] = o /\ InWrite(p)
    BY DEF Writer, Busy, InWrite
  <2>2. owner[FileOf[o]] = p BY <2>1 DEF LockInv, Ip
  <2>. QED BY <1>0, <2>1, <2>2 DEF Writes
<1>3. ASSUME NEW i \in Made, Writes(i) PROVE owner[i] \in Writer(fd[owner[i]])
  <2>1. owner[i] \in Procs BY <1>3, WriterOf
  <2>. QED BY <1>3, <2>1 DEF Writer, InWrite, Writes
<1>4. ASSUME NEW o \in Opened PROVE Offset(o) = Position(o) /\ Position(o) \in Nat
  <2>. DEFINE i == FileOf[o]
  <2>1. i \in Made BY <1>0
  <2>2. off[o] \in Nat BY DEF Types
  <2>. HIDE DEF i
  <2>3. CASE Writes(i) /\ fd[owner[i]] = o
    <3>1. Writer(o) = {owner[i]} BY <1>2, <1>3, <2>1, <2>3 DEF i
    <3>2. Offset(o) = off[o] + done[owner[i]] BY <3>1 DEF Offset
    <3>3. Reach(i) \in Nat /\ Reach(i) = off[o] + done[owner[i]] BY <2>1, <2>3, WriterOf
    <3>. QED BY <2>3, <3>2, <3>3 DEF Position, i
  <2>4. CASE ~(Writes(i) /\ fd[owner[i]] = o)
    <3>1. Writer(o) = {} BY <1>2, <2>4 DEF i
    <3>2. Offset(o) = off[o] BY <2>2, <3>1 DEF Offset
    <3>. QED BY <2>2, <2>4, <3>2 DEF Position, i
  <2>. QED BY <2>3, <2>4
<1>5. ASSUME NEW i \in Made
      PROVE  Size(i) = Length(i) /\ Length(i) \in Nat /\ Length(i) <= MAXFILE * BSIZE
  <2>. DEFINE X == {x \in Opened : FileOf[x] = i /\ Writer(x) # {}}
  <2>1. PICK s \in Nat : s = inode[i].size BY DEF Types, Dinode
  <2>2. MAXFILE * BSIZE \in Nat BY Sizes
  <2>3. CASE Truncating(i) BY <1>1, <2>2, <2>3 DEF Size, Length
  <2>4. CASE ~Truncating(i)
    <3>1. s <= MAXFILE * BSIZE BY <2>1, <2>4 DEF ContentsInv, WholeInv
    <3>2. Size(i) = Max({s} \cup {Offset(o) : o \in X}) BY <1>1, <2>1, <2>4 DEF Size
    <3>3. CASE Writes(i)
      <4>1. PICK o \in Opened : o = fd[owner[i]] /\ FileOf[o] = i BY <3>3, WriterOf
      <4>2. X = {o}
        <5>1. o \in X BY <1>3, <3>3, <4>1
        <5>2. \A x \in X : x = o BY <1>2, <4>1
        <5>. QED BY <5>1, <5>2
      <4>3. PICK h \in Nat : h = Reach(i) /\ h <= MAXFILE * BSIZE BY <3>3, WriterOf
      <4>4. Offset(o) = h BY <1>4, <3>3, <4>1, <4>3 DEF Position
      <4>5. {s} \cup {Offset(x) : x \in X} = {s, h} BY <4>2, <4>4
      <4>6. Size(i) = IF s <= h THEN h ELSE s BY <3>2, <4>5, MaxOfTwo
      <4>. QED BY <2>1, <2>4, <3>1, <4>3, <4>6 DEF Length
    <3>4. CASE ~Writes(i)
      <4>1. X = {} BY <1>2, <3>4
      <4>2. {s} \cup {Offset(x) : x \in X} = {s, s} BY <4>1
      <4>3. Size(i) = s BY <2>1, <3>2, <4>2, MaxOfTwo
      <4>4. Reach(i) = 0 BY <3>4 DEF Reach
      <4>. QED BY <2>1, <2>4, <3>1, <4>3, <4>4 DEF Length
    <3>. QED BY <3>3, <3>4
  <2>. QED BY <2>3, <2>4
<1>. QED BY <1>4, <1>5 DEF Abstract

LEMMA SameBytes ==
    ASSUME NEW i, Size(i)' = Size(i), \A k \in 1 .. Size(i) : Byte(i, k - 1)' = Byte(i, k - 1)
    PROVE  Bytes(i)' = Bytes(i)
BY DEF Bytes

(* The files that a step does not touch are as they were.                  *)
LEMMA WriterElsewhere ==
    ASSUME ContentsConstants, ContentsInv, ContentsInv', NEW p \in Procs, NEW i \in Made,
           Touches(p, i), NEW j \in Made, j # i
    PROVE  /\ Writes(j)' = Writes(j) /\ Reach(j)' = Reach(j) /\ owner'[j] = owner[j]
           /\ Writes(j) => fd'[owner[j]] = fd[owner[j]]
<1>. Types /\ LockInv BY DEF ContentsInv
<1>1. owner'[j] = owner[j] /\ owner[j] \in Procs \cup {Nobody} BY DEF Touches, Types
<1>2. CASE owner[j] = Nobody BY <1>1, <1>2 DEF Writes, Reach
<1>3. CASE owner[j] # Nobody
  <2>1. PICK w \in Procs : w = owner[j] BY <1>1, <1>3
  <2>2. pc[w] \in Busy /\ Ip(w) = j BY <1>3, <2>1 DEF LockInv
  <2>3. w # p BY <2>2 DEF Touches
  <2>4. pc'[w] = pc[w] /\ done'[w] = done[w] BY <2>3 DEF Touches
  <2>5. fd'[w] = fd[w] /\ off'[fd[w]] = off[fd[w]] BY <2>2, <2>3, OthersElsewhere
  <2>6. InWrite(w)' = InWrite(w) BY <2>4 DEF InWrite
  <2>7. Here(w)' = Here(w) BY <2>4, <2>5 DEF Here
  <2>8. Writes(j)' = Writes(j) BY <1>1, <2>1, <2>6 DEF Writes
  <2>9. Reach(j)' = Reach(j) BY <1>1, <2>1, <2>7, <2>8 DEF Reach
  <2>. QED BY <1>1, <2>1, <2>5, <2>8, <2>9
<1>. QED BY <1>2, <1>3

LEMMA BytesElsewhere ==
    ASSUME ContentsConstants, ContentsInv, ContentsInv', Abstract, Abstract',
           NEW p \in Procs, NEW i \in Made, Touches(p, i), NEW j \in Made, j # i, DataKept(j)
    PROVE  Bytes(j)' = Bytes(j)
<1>. Types /\ LockInv /\ (Types /\ LockInv)' BY DEF ContentsInv
<1>1. Writes(j)' = Writes(j) /\ Reach(j)' = Reach(j) BY WriterElsewhere
<1>2. Truncating(j)' = Truncating(j) BY NamesElsewhere
<1>3. inode'[j] = inode[j] BY DEF Touches
<1>4. Length(j)' = Length(j) BY <1>1, <1>2, <1>3 DEF Length
<1>5. Size(j)' = Size(j) /\ Size(j) = Length(j) /\ Length(j) \in Nat
      /\ Length(j) <= MAXFILE * BSIZE
  BY <1>4 DEF Abstract
<1>6. ASSUME NEW k \in 1 .. Size(j) PROVE Byte(j, k - 1)' = Byte(j, k - 1)
  <2>1. PICK s \in Nat : s = Length(j) /\ k \in 1 .. s /\ s <= MAXFILE * BSIZE BY <1>5
  <2>2. ~Truncating(j) BY <2>1 DEF Length
  <2>3. PICK a \in Nat : a = k - 1 /\ a < s BY <2>1
  <2>4. PICK n \in 0 .. MAXFILE - 1 : n = a \div BSIZE BY <2>1, <2>3, BlockOf
  <2>5. Addr(j, n)' = Addr(j, n) BY AddrElsewhere
  <2>6. At(j, n) = Addr(j, n)
    <3>1. ~Passed(j, n) BY <2>2, WhoPasses
    <3>2. n # MAXFILE BY Sizes
    <3>. QED BY <3>1, <3>2 DEF At
  <2>7. Addr(j, n) # 0 => block'[Addr(j, n)] = block[Addr(j, n)] BY <2>6 DEF DataKept
  <2>8. Byte(j, a)' = Byte(j, a) BY <2>4, <2>5, <2>7 DEF Byte
  <2>. QED BY <2>3, <2>8
<1>. QED BY <1>5, <1>6, SameBytes

LEMMA OffsetElsewhere ==
    ASSUME ContentsConstants, ContentsInv, ContentsInv', Abstract, Abstract',
           NEW p \in Procs, NEW i \in Made, Touches(p, i), NEW o \in Opened, FileOf[o] # i
    PROVE  Offset(o)' = Offset(o)
<1>1. PICK j \in Made : j = FileOf[o] /\ j # i BY DEF ContentsConstants
<1>2. /\ Writes(j)' = Writes(j) /\ Reach(j)' = Reach(j) /\ owner'[j] = owner[j]
      /\ Writes(j) => fd'[owner[j]] = fd[owner[j]]
  BY <1>1, WriterElsewhere
<1>3. off'[o] = off[o] BY DEF Touches
<1>4. Position(o)' = Position(o) BY <1>1, <1>2, <1>3 DEF Position
<1>. QED BY <1>4 DEF Abstract

LEMMA Still ==
    ASSUME ContentsConstants, \A j \in Made : Bytes(j)' = Bytes(j),
           \A o \in Opened : Offset(o)' = Offset(o)
    PROVE  UNCHANGED <<now, offset>>
<1>1. {FileOf[o] : o \in Opened} \subseteq Made BY DEF ContentsConstants
<1>2. now' = now BY <1>1 DEF now
<1>3. offset' = offset BY DEF offset
<1>. QED BY <1>2, <1>3

(* A step that leaves the bytes and the offsets of its own file alone.     *)
LEMMA StillStep ==
    ASSUME ContentsConstants, ContentsInv, ContentsInv', Abstract, Abstract',
           NEW p \in Procs, NEW i \in Made, Touches(p, i), \A j \in Made : DataKept(j),
           Length(i)' = Length(i), \A a \in 0 .. Length(i) - 1 : Byte(i, a)' = Byte(i, a),
           \A o \in Opened : FileOf[o] = i => Position(o)' = Position(o)
    PROVE  UNCHANGED <<now, offset>>
<1>1. Size(i)' = Size(i) /\ Size(i) = Length(i) /\ Length(i) \in Nat BY DEF Abstract
<1>2. ASSUME NEW k \in 1 .. Size(i) PROVE Byte(i, k - 1)' = Byte(i, k - 1)
  <2>1. PICK a \in 0 .. Length(i) - 1 : a = k - 1 BY <1>1
  <2>2. Byte(i, a)' = Byte(i, a) OBVIOUS
  <2>. QED BY <2>1, <2>2
<1>3. Bytes(i)' = Bytes(i) BY <1>1, <1>2, SameBytes
<1>4. \A j \in Made : Bytes(j)' = Bytes(j) BY <1>3, BytesElsewhere
<1>5. ASSUME NEW o \in Opened PROVE Offset(o)' = Offset(o)
  <2>1. CASE FileOf[o] = i BY <2>1 DEF Abstract
  <2>2. CASE FileOf[o] # i BY <2>2, OffsetElsewhere
  <2>. QED BY <2>1, <2>2
<1>. QED BY <1>4, <1>5, Still
-------------------------------------------------------------------------------
(* What the steps do to the bytes.                                         *)
LEMMA IdleFile ==
    ASSUME ContentsConstants, ContentsInv, NEW i \in Made, owner[i] = Nobody
    PROVE  ~Truncating(i) /\ ~Writes(i) /\ Reach(i) = 0 /\ Length(i) = inode[i].size
<1>1. ~Truncating(i) /\ ~Writes(i) BY DEF Truncating, Writes
<1>2. Reach(i) = 0 BY <1>1 DEF Reach
<1>3. inode[i].size \in Nat BY DEF ContentsInv, Types, Dinode
<1>. QED BY <1>1, <1>2, <1>3 DEF Length

LEMMA FilewriteStill ==
    ASSUME ContentsConstants, ContentsInv, ContentsInv', Abstract, Abstract',
           NEW p \in Procs, NEW o \in Opened, NEW n \in Lengths, filewrite(p, o, n)
    PROVE  UNCHANGED <<now, offset>>
<1>. Types /\ LockInv BY DEF ContentsInv
<1>1. /\ pc[p] = "idle" /\ pc' = [pc EXCEPT ![p] = "begin_op"] /\ fd' = [fd EXCEPT ![p] = o]
      /\ used' = used /\ block' = block /\ inode' = inode /\ owner' = owner /\ off' = off
      /\ done' = done
  BY DEF filewrite, Goto, disk
<1>2. \A q \in Procs \ {p} : pc'[q] = pc[q] /\ fd'[q] = fd[q] BY <1>1 DEF Types
<1>3. ASSUME NEW j \in Made
      PROVE  /\ Writes(j)' = Writes(j) /\ Reach(j)' = Reach(j) /\ Length(j)' = Length(j)
             /\ Writes(j) => fd'[owner[j]] = fd[owner[j]]
  <2>1. CASE owner[j] = Nobody
    <3>1. ~Writes(j) /\ ~Writes(j)' /\ ~Truncating(j) /\ ~Truncating(j)'
      BY <1>1, <2>1 DEF Writes, Truncating
    <3>2. Reach(j)' = 0 /\ Reach(j) = 0 BY <3>1 DEF Reach
    <3>3. Writes(j)' = Writes(j) BY <1>1, <2>1 DEF Writes
    <3>4. Length(j)' = Length(j) BY <1>1, <3>1, <3>2 DEF Length
    <3>. QED BY <3>1, <3>2, <3>3, <3>4
  <2>2. CASE owner[j] # Nobody
    <3>1. PICK w \in Procs : w = owner[j] BY <2>2 DEF Types
    <3>2. w # p BY <1>1, <2>2, <3>1 DEF LockInv, Busy
    <3>3. pc'[w] = pc[w] /\ fd'[w] = fd[w] BY <1>2, <3>2
    <3>4. Here(w)' = Here(w) /\ InWrite(w)' = InWrite(w) BY <1>1, <3>3 DEF Here, InWrite
    <3>5. Truncating(j)' = Truncating(j) /\ Writes(j)' = Writes(j)
      BY <1>1, <3>1, <3>3, <3>4 DEF Truncating, Writes
    <3>6. Reach(j)' = Reach(j) BY <1>1, <3>1, <3>4, <3>5 DEF Reach
    <3>. QED BY <1>1, <3>1, <3>3, <3>5, <3>6 DEF Length
  <2>. QED BY <2>1, <2>2
<1>4. \A j, a : Byte(j, a)' = Byte(j, a) BY <1>1 DEF Byte, Addr, Indirect
<1>5. \A j \in Made : Bytes(j)' = Bytes(j)
  <2>1. \A j \in Made : Size(j)' = Size(j) BY <1>3 DEF Abstract
  <2>. QED BY <1>4, <2>1, SameBytes
<1>6. ASSUME NEW x \in Opened PROVE Offset(x)' = Offset(x)
  <2>1. FileOf[x] \in Made BY DEF ContentsConstants
  <2>2. Position(x)' = Position(x) BY <1>1, <1>3, <2>1 DEF Position
  <2>. QED BY <2>2 DEF Abstract
<1>. QED BY <1>5, <1>6, Still

LEMMA WriteiStill ==
    ASSUME ContentsConstants, ContentsInv, ContentsInv', Abstract, Abstract',
           NEW p \in Procs, writei(p)
    PROVE  UNCHANGED <<now, offset>>
<1>. Types /\ LockInv BY DEF ContentsInv
<1>1. PICK i \in Made : i = Ip(p) /\ Touches(p, i) BY WriteiStep
<1>2. /\ pc[p] = "begin_op" /\ pc' = [pc EXCEPT ![p] = "writei"] /\ ~Refused(p)
      /\ owner[i] = Nobody /\ owner' = [owner EXCEPT ![i] = p]
      /\ block' = block /\ inode' = inode /\ off' = off /\ fd' = fd /\ done' = done
  BY <1>1 DEF writei, Goto, ilock, disk
<1>3. /\ p # Nobody /\ pc'[p] = "writei" /\ owner'[i] = p /\ done[p] = 0
      /\ fd[p] \in Opened /\ FileOf[fd[p]] = i
  <2>1. p # Nobody BY DEF ContentsConstants
  <2>2. pc'[p] = "writei" /\ owner'[i] = p BY <1>2 DEF Types
  <2>3. done[p] = 0 /\ fd[p] \in Opened BY <1>2 DEF LockInv, Busy
  <2>. QED BY <1>1, <2>1, <2>2, <2>3 DEF Ip
<1>4. off[fd[p]] \in Nat /\ inode[i].size \in Nat /\ off[fd[p]] <= inode[i].size
  <2>1. off[fd[p]] \in Nat /\ inode[i].size \in Nat BY <1>3 DEF Types, Dinode
  <2>. QED BY <1>1, <1>2, <2>1 DEF Refused
<1>5. Writes(i)' /\ ~Truncating(i)' /\ Reach(i)' = off[fd[p]]
  <2>1. Writes(i)' /\ ~Truncating(i)' BY <1>3 DEF Writes, InWrite, Truncating
  <2>2. Here(p)' = off[fd[p]] BY <1>2, <1>3, <1>4 DEF Here
  <2>. QED BY <1>3, <2>1, <2>2 DEF Reach
<1>6. Length(i)' = Length(i)
  <2>1. Length(i) = inode[i].size BY <1>2, IdleFile
  <2>. QED BY <1>2, <1>4, <1>5, <2>1 DEF Length
<1>7. \A a : Byte(i, a)' = Byte(i, a) BY <1>2 DEF Byte, Addr, Indirect
<1>8. ASSUME NEW o \in Opened, FileOf[o] = i PROVE Position(o)' = Position(o)
  <2>1. Position(o) = off[o] BY <1>2, <1>8, IdleFile DEF Position
  <2>. QED BY <1>2, <1>3, <1>5, <1>8, <2>1 DEF Position
<1>9. \A j \in Made : DataKept(j) BY <1>2 DEF DataKept
<1>. QED BY <1>1, <1>6, <1>7, <1>8, <1>9, StillStep

LEMMA RefusedStill ==
    ASSUME ContentsConstants, ContentsInv, ContentsInv', Abstract, Abstract',
           NEW p \in Procs, writei_refused(p)
    PROVE  UNCHANGED <<now, offset>>
<1>. Types /\ LockInv BY DEF ContentsInv
<1>1. PICK i \in Made : i = Ip(p) /\ Touches(p, i) BY RefusedStep
<1>2. /\ owner[i] = Nobody /\ owner' = [owner EXCEPT ![i] = Nobody]
      /\ block' = block /\ inode' = inode /\ off' = off
  BY <1>1 DEF writei_refused, end_op, iunlock, disk
<1>3. owner'[i] = Nobody BY <1>2 DEF Types
<1>4. ~Truncating(i) /\ ~Writes(i) /\ ~Truncating(i)' /\ ~Writes(i)'
  BY <1>2, <1>3 DEF Truncating, Writes
<1>5. Reach(i) = 0 /\ Reach(i)' = 0 BY <1>4 DEF Reach
<1>6. Length(i)' = Length(i) BY <1>2, <1>4, <1>5 DEF Length
<1>7. \A a : Byte(i, a)' = Byte(i, a) BY <1>2 DEF Byte, Addr, Indirect
<1>8. \A o \in Opened : FileOf[o] = i => Position(o)' = Position(o)
  BY <1>2, <1>4 DEF Position
<1>9. \A j \in Made : DataKept(j) BY <1>2 DEF DataKept
<1>. QED BY <1>1, <1>6, <1>7, <1>8, <1>9, StillStep

LEMMA ShortStill ==
    ASSUME ContentsConstants, ContentsInv, ContentsInv', Abstract, Abstract',
           NEW p \in Procs, writei_short(p)
    PROVE  UNCHANGED <<now, offset>>
<1>. Types /\ LockInv BY DEF ContentsInv
<1>1. PICK i \in Made : i = Ip(p) /\ Touches(p, i) BY ShortStep
<1>2. /\ pc[p] = "writei" /\ pc' = [pc EXCEPT ![p] = "iupdate"]
      /\ block' = block /\ inode' = inode /\ off' = off /\ fd' = fd
      /\ done' = done /\ owner' = owner
  BY DEF writei_short, Goto, disk, Writing
<1>3. pc'[p] = "iupdate" BY <1>2 DEF Types
<1>4. owner[i] = p /\ p # Nobody BY <1>1, <1>2, Holder DEF Busy
<1>5. Writes(i) /\ Writes(i)' /\ ~Truncating(i) /\ ~Truncating(i)' /\ Reach(i)' = Reach(i)
  <2>1. Writes(i) /\ Writes(i)' /\ ~Truncating(i) /\ ~Truncating(i)'
    BY <1>2, <1>3, <1>4 DEF Writes, InWrite, Truncating
  <2>2. Here(p)' = Here(p) BY <1>2 DEF Here
  <2>. QED BY <1>2, <1>4, <2>1, <2>2 DEF Reach
<1>6. Length(i)' = Length(i) BY <1>2, <1>5 DEF Length
<1>7. \A a : Byte(i, a)' = Byte(i, a) BY <1>2 DEF Byte, Addr, Indirect
<1>8. \A o \in Opened : FileOf[o] = i => Position(o)' = Position(o)
  BY <1>2, <1>5 DEF Position
<1>9. \A j \in Made : DataKept(j) BY <1>2 DEF DataKept
<1>. QED BY <1>1, <1>6, <1>7, <1>8, <1>9, StillStep

(* bmap() enters a block, which is cleared.                                *)
LEMMA BmapStill ==
    ASSUME ContentsConstants, ContentsInv, ContentsInv', Abstract, Abstract',
           NEW p \in Procs, bmap_addr(p) \/ bmap_entry(p)
    PROVE  UNCHANGED <<now, offset>>
<1>. Types /\ LockInv BY DEF ContentsInv
<1>1. PICK i \in Made : i = Ip(p) /\ Touches(p, i) /\ Kept(i) /\ Zeroed(i)
  BY BmapAddrStep, BmapEntryStep
<1>2. \A j \in Made : DataKept(j) BY BmapAddrStep, BmapEntryStep
<1>3. /\ pc[p] = "writei" /\ pc' = pc /\ owner' = owner /\ off' = off /\ fd' = fd /\ done' = done
  BY DEF bmap_addr, bmap_entry, Writing
<1>4. inode'[i].size = inode[i].size
  <2>1. CASE bmap_addr(p)
    <3>1. PICK k, b : inode' = [inode EXCEPT ![i].addrs[k] = b]
      BY <1>1, <2>1 DEF bmap_addr
    <3>. QED BY <3>1 DEF Types, Dinode
  <2>2. CASE bmap_entry(p) BY <2>2 DEF bmap_entry
  <2>. QED BY <2>1, <2>2
<1>5. owner[i] = p /\ p # Nobody BY <1>1, <1>3, Holder DEF Busy
<1>6. Writes(i) /\ ~Truncating(i) BY <1>3, <1>5 DEF Writes, InWrite, Truncating
<1>7. Writes(i)' = Writes(i) /\ Truncating(i)' = Truncating(i) /\ Reach(i)' = Reach(i)
  <2>1. Writes(i)' = Writes(i) /\ Truncating(i)' = Truncating(i)
    BY <1>3 DEF Writes, InWrite, Truncating
  <2>2. Here(p)' = Here(p) BY <1>3 DEF Here
  <2>. QED BY <1>3, <1>5, <2>1, <2>2 DEF Reach
<1>8. Length(i)' = Length(i) BY <1>4, <1>7 DEF Length
<1>9. ASSUME NEW a \in 0 .. Length(i) - 1 PROVE Byte(i, a)' = Byte(i, a)
  <2>1. PICK s \in Nat : s = Length(i) /\ a \in Nat /\ a < s /\ s <= MAXFILE * BSIZE
    BY DEF Abstract
  <2>2. PICK n \in 0 .. MAXFILE - 1 : n = a \div BSIZE BY <2>1, BlockOf
  <2>3. PICK c \in 0 .. BSIZE - 1 : c = a % BSIZE BY <2>1, Sizes, Division
  <2>4. CASE Addr(i, n) # 0
    <3>1. Addr(i, n)' = Addr(i, n) BY <1>1, <2>4 DEF Kept
    <3>2. At(i, n) = Addr(i, n)
      <4>1. ~Passed(i, n) BY <1>6, WhoPasses
      <4>2. n # MAXFILE BY Sizes
      <4>. QED BY <4>1, <4>2 DEF At
    <3>3. block'[Addr(i, n)] = block[Addr(i, n)] BY <1>2, <2>4, <3>2 DEF DataKept
    <3>. QED BY <2>2, <2>4, <3>1, <3>3 DEF Byte
  <2>5. CASE Addr(i, n) = 0
    <3>1. Byte(i, a) = 0 BY <2>2, <2>5 DEF Byte
    <3>2. CASE Addr(i, n)' = 0 BY <2>2, <3>1, <3>2 DEF Byte
    <3>3. CASE Addr(i, n)' # 0
      <4>1. block'[Addr(i, n)'] = [x \in 0 .. BSIZE - 1 |-> 0]
        BY <1>1, <2>5, <3>3 DEF Zeroed
      <4>2. block'[Addr(i, n)'][c] = 0 BY <4>1
      <4>. QED BY <2>2, <2>3, <3>1, <3>3, <4>2 DEF Byte
    <3>. QED BY <3>2, <3>3
  <2>. QED BY <2>4, <2>5
<1>10. \A o \in Opened : FileOf[o] = i => Position(o)' = Position(o)
  BY <1>3, <1>7 DEF Position
<1>. QED BY <1>1, <1>2, <1>8, <1>9, <1>10, StillStep

LEMMA DoneStill ==
    ASSUME ContentsConstants, ContentsInv, ContentsInv', Abstract, Abstract',
           NEW p \in Procs, writei_done(p)
    PROVE  UNCHANGED <<now, offset>>
<1>. Types /\ LockInv BY DEF ContentsInv
<1>1. PICK i \in Made : i = Ip(p) /\ Touches(p, i) BY WriteDoneStep
<1>2. InWrite(p) BY DEF writei_done, InWrite
<1>3. owner[i] = p /\ p # Nobody /\ fd[p] \in Opened /\ FileOf[fd[p]] = i
  BY <1>1, <1>2, Holder DEF InWrite, Busy, Ip
<1>4. Writes(i) /\ ~Truncating(i)
  <2>1. pc[p] # "itrunc" BY <1>2 DEF InWrite
  <2>. QED BY <1>2, <1>3, <2>1 DEF Writes, Truncating
<1>5. PICK h \in Nat : h = Reach(i) /\ h = Here(p) /\ h = off[fd[p]] + done[p]
  BY <1>3, <1>4, WriterOf DEF Here
<1>6. PICK s \in Nat : s = inode[i].size BY DEF Types, Dinode
<1>7. PICK t \in Nat : t = IF s <= h THEN h ELSE s BY <1>5, <1>6
<1>8. Length(i) = t BY <1>4, <1>5, <1>6, <1>7 DEF Length
<1>9. /\ inode' = [inode EXCEPT ![i] = [inode[i] EXCEPT !.size = t]]
      /\ off' = [off EXCEPT ![fd[p]] = h] /\ block' = block
      /\ owner' = [owner EXCEPT ![i] = Nobody]
  <2>1. Max({s, h}) = t BY <1>5, <1>6, <1>7, MaxOfTwo
  <2>2. Grown(p) = [inode[i] EXCEPT !.size = t] BY <1>1, <1>5, <1>6, <2>1 DEF Grown
  <2>. QED BY <1>1, <1>5, <2>2 DEF writei_done, end_op, iunlock
<1>10. /\ owner'[i] = Nobody /\ inode'[i].size = t /\ inode'[i].addrs = inode[i].addrs
       /\ off'[fd[p]] = h /\ \A o \in Opened \ {fd[p]} : off'[o] = off[o]
  BY <1>3, <1>9 DEF Types, Dinode
<1>11. ~Truncating(i)' /\ ~Writes(i)' BY <1>10 DEF Truncating, Writes
<1>12. Length(i)' = Length(i)
  <2>1. Reach(i)' = 0 BY <1>11 DEF Reach
  <2>. QED BY <1>7, <1>8, <1>10, <1>11, <2>1 DEF Length
<1>13. \A a : Byte(i, a)' = Byte(i, a) BY <1>9, <1>10 DEF Byte, Addr, Indirect
<1>14. ASSUME NEW o \in Opened, FileOf[o] = i PROVE Position(o)' = Position(o)
  <2>1. Position(o)' = off'[o] BY <1>11, <1>14 DEF Position
  <2>2. Position(o) = IF fd[p] = o THEN h ELSE off[o]
    BY <1>3, <1>4, <1>5, <1>14 DEF Position
  <2>. QED BY <1>10, <2>1, <2>2
<1>15. \A j \in Made : DataKept(j) BY <1>9 DEF DataKept
<1>. QED BY <1>1, <1>12, <1>13, <1>14, <1>15, StillStep

(* While itrunc() frees its blocks a file has no bytes.                    *)
LEMMA FreeingStill ==
    ASSUME ContentsConstants, ContentsInv, ContentsInv', Abstract, Abstract',
           NEW p \in Procs, itrunc_block(p) \/ itrunc_indirect(p)
    PROVE  UNCHANGED <<now, offset>>
<1>. Types /\ LockInv BY DEF ContentsInv
<1>1. PICK i \in Made : i = Ip(p) /\ Touches(p, i) BY TruncBlockStep, TruncIndirectStep
<1>2. pc[p] = "itrunc" /\ block' = block /\ owner' = owner /\ off' = off
  BY DEF itrunc_block, itrunc_indirect
<1>3. PICK l \in {"itrunc", "panic"} : pc' = [pc EXCEPT ![p] = l]
  BY DEF itrunc_block, itrunc_indirect, bfree, Goto
<1>4. pc'[p] = "itrunc"
  <2>1. pc'[p] = l BY <1>3 DEF Types
  <2>2. pc'[p] # "panic" BY DEF ContentsInv, Types, Busy
  <2>. QED BY <2>1, <2>2
<1>5. owner[i] = p /\ p # Nobody BY <1>1, <1>2, Holder DEF Busy
<1>6. Truncating(i) /\ Truncating(i)' /\ ~Writes(i) /\ ~Writes(i)'
  BY <1>2, <1>4, <1>5 DEF Truncating, Writes, InWrite
<1>7. Length(i) = 0 /\ Length(i)' = 0 BY <1>6 DEF Length
<1>8. \A a \in 0 .. Length(i) - 1 : Byte(i, a)' = Byte(i, a) BY <1>7
<1>9. \A o \in Opened : FileOf[o] = i => Position(o)' = Position(o)
  BY <1>2, <1>6 DEF Position
<1>10. \A j \in Made : DataKept(j) BY <1>2 DEF DataKept
<1>. QED BY <1>1, <1>7, <1>8, <1>9, <1>10, StillStep

LEMMA TruncStill ==
    ASSUME ContentsConstants, ContentsInv, ContentsInv', Abstract, Abstract',
           NEW p \in Procs, itrunc(p)
    PROVE  UNCHANGED <<now, offset>>
<1>. Types /\ LockInv BY DEF ContentsInv
<1>1. PICK i \in Made : i = Ip(p) /\ Touches(p, i) BY TruncStep
<1>2. /\ pc[p] = "itrunc" /\ block' = block /\ off' = off
      /\ inode' = [inode EXCEPT ![i] = Cleared] /\ owner' = [owner EXCEPT ![i] = Nobody]
  BY <1>1 DEF itrunc, end_op, iunlock
<1>3. owner'[i] = Nobody /\ inode'[i].size = 0 BY <1>2 DEF Types, Cleared
<1>4. owner[i] = p /\ p # Nobody BY <1>1, <1>2, Holder DEF Busy
<1>5. Truncating(i) /\ ~Truncating(i)' /\ ~Writes(i) /\ ~Writes(i)'
  BY <1>2, <1>3, <1>4 DEF Truncating, Writes, InWrite
<1>6. Length(i) = 0 /\ Length(i)' = 0
  <2>1. Reach(i)' = 0 BY <1>5 DEF Reach
  <2>. QED BY <1>3, <1>5, <2>1 DEF Length
<1>7. \A a \in 0 .. Length(i) - 1 : Byte(i, a)' = Byte(i, a) BY <1>6
<1>8. \A o \in Opened : FileOf[o] = i => Position(o)' = Position(o)
  BY <1>2, <1>5 DEF Position
<1>9. \A j \in Made : DataKept(j) BY <1>2 DEF DataKept
<1>. QED BY <1>1, <1>6, <1>7, <1>8, <1>9, StillStep

LEMMA OpenSeen ==
    ASSUME ContentsConstants, ContentsInv, ContentsInv', Abstract, Abstract',
           NEW p \in Procs, NEW o \in Opened, open(p, o)
    PROVE  Store!Open(o)
<1>. Types /\ LockInv BY DEF ContentsInv
<1>1. PICK i \in Made : i = FileOf[o] BY DEF ContentsConstants
<1>2. Touches(p, i) BY <1>1, OpenStep
<1>3. /\ owner[i] = Nobody /\ off' = [off EXCEPT ![o] = 0] /\ owner' = owner
      /\ block' = block /\ inode' = inode
  BY <1>1 DEF open, disk
<1>4. ~Truncating(i) /\ ~Writes(i) /\ ~Truncating(i)' /\ ~Writes(i)'
  BY <1>3 DEF Truncating, Writes
<1>5. Length(i)' = Length(i)
  <2>1. Reach(i) = 0 /\ Reach(i)' = 0 BY <1>4 DEF Reach
  <2>. QED BY <1>3, <1>4, <2>1 DEF Length
<1>6. \A j \in Made : DataKept(j) BY <1>3 DEF DataKept
<1>7. \A j \in Made : Bytes(j)' = Bytes(j)
  <2>1. \A a : Byte(i, a)' = Byte(i, a) BY <1>3 DEF Byte, Addr, Indirect
  <2>2. Size(i)' = Size(i) BY <1>5 DEF Abstract
  <2>3. Bytes(i)' = Bytes(i) BY <2>1, <2>2, SameBytes
  <2>. QED BY <1>2, <1>6, <2>3, BytesElsewhere
<1>8. ASSUME NEW x \in Opened PROVE Offset(x)' = IF x = o THEN 0 ELSE Offset(x)
  <2>1. CASE FileOf[x] # i BY <1>1, <1>2, <2>1, OffsetElsewhere
  <2>2. CASE FileOf[x] = i
    <3>1. Position(x)' = off'[x] /\ Position(x) = off[x] BY <1>4, <2>2 DEF Position
    <3>2. off'[x] = IF x = o THEN 0 ELSE off[x] BY <1>3 DEF Types
    <3>. QED BY <3>1, <3>2 DEF Abstract
  <2>. QED BY <2>1, <2>2
<1>9. now' = now
  <2>1. {FileOf[x] : x \in Opened} \subseteq Made BY DEF ContentsConstants
  <2>. QED BY <1>7, <2>1 DEF now
<1>10. offset' = [offset EXCEPT ![o] = 0] BY <1>8 DEF offset
<1>. QED BY <1>9, <1>10 DEF Store!Open

LEMMA OpenTruncSeen ==
    ASSUME ContentsConstants, ContentsInv, ContentsInv', Abstract, Abstract',
           NEW p \in Procs, NEW o \in Opened, open_trunc(p, o)
    PROVE  Store!OpenTruncate(o)
<1>. Types /\ LockInv BY DEF ContentsInv
<1>1. PICK i \in Made : i = FileOf[o] BY DEF ContentsConstants
<1>2. Touches(p, i) BY <1>1, OpenTruncStep
<1>3. /\ owner[i] = Nobody /\ off' = [off EXCEPT ![o] = 0] /\ owner' = [owner EXCEPT ![i] = p]
      /\ block' = block /\ pc' = [pc EXCEPT ![p] = "itrunc"]
  BY <1>1 DEF open_trunc, ilock, Goto, disk
<1>4. owner'[i] = p /\ p # Nobody /\ pc'[p] = "itrunc"
  BY <1>3 DEF Types, ContentsConstants
<1>5. ~Writes(i) /\ Truncating(i)' /\ ~Writes(i)'
  BY <1>3, <1>4 DEF Truncating, Writes, InWrite
<1>6. \A j \in Made : DataKept(j) BY <1>3 DEF DataKept
<1>7. Bytes(i)' = <<>>
  <2>1. Size(i)' = 0 BY <1>5 DEF Abstract, Length
  <2>. QED BY <2>1 DEF Bytes
<1>8. \A j \in Made \ {i} : Bytes(j)' = Bytes(j) BY <1>2, <1>6, BytesElsewhere
<1>9. ASSUME NEW x \in Opened PROVE Offset(x)' = IF x = o THEN 0 ELSE Offset(x)
  <2>1. CASE FileOf[x] # i BY <1>1, <1>2, <2>1, OffsetElsewhere
  <2>2. CASE FileOf[x] = i
    <3>1. Position(x)' = off'[x] /\ Position(x) = off[x] BY <1>5, <2>2 DEF Position
    <3>2. off'[x] = IF x = o THEN 0 ELSE off[x] BY <1>3 DEF Types
    <3>. QED BY <3>1, <3>2 DEF Abstract
  <2>. QED BY <2>1, <2>2
<1>10. now' = [now EXCEPT ![FileOf[o]] = <<>>]
  <2>1. {FileOf[x] : x \in Opened} \subseteq Made BY DEF ContentsConstants
  <2>2. i \in {FileOf[x] : x \in Opened} BY <1>1
  <2>. QED BY <1>1, <1>7, <1>8, <2>1, <2>2 DEF now
<1>11. offset' = [offset EXCEPT ![o] = 0] BY <1>9 DEF offset
<1>. QED BY <1>10, <1>11 DEF Store!OpenTruncate

LEMMA ReadSeen ==
    ASSUME ContentsConstants, ContentsInv, ContentsInv', Abstract, Abstract',
           NEW p \in Procs, NEW o \in Opened, NEW n \in Lengths, fileread(p, o, n)
    PROVE  \E r \in 1 .. MAXFILE * BSIZE : Store!Read(o, r)
<1>. Types /\ LockInv BY DEF ContentsInv
<1>1. PICK i \in Made : i = FileOf[o] BY DEF ContentsConstants
<1>2. Touches(p, i) BY <1>1, FilereadStep
<1>. DEFINE m == Min({n, inode[i].size - off[o]})
<1>3. /\ pc[p] = "idle" /\ owner[i] = Nobody /\ m > 0 /\ owner' = owner /\ block' = block
      /\ inode' = inode
      /\ \/ pc' = [pc EXCEPT ![p] = "panic"]
         \/ off' = [off EXCEPT ![o] = @ + m]
  BY <1>1 DEF fileread, disk, Goto
<1>4. n \in Nat /\ inode[i].size \in Nat /\ off[o] \in Nat
  BY DEF ContentsConstants, Types, Dinode
<1>5. m \in Nat /\ off[o] + m <= inode[i].size
  <2>1. inode[i].size - off[o] \in Int /\ n \in Int BY <1>4
  <2>2. m = IF n <= inode[i].size - off[o] THEN n ELSE inode[i].size - off[o]
    BY <2>1, MinOfTwo
  <2>. HIDE DEF m
  <2>. QED BY <1>3, <1>4, <2>2
<1>. HIDE DEF m
<1>6. off' = [off EXCEPT ![o] = @ + m]
  <2>1. pc' # [pc EXCEPT ![p] = "panic"]
    <3>1. pc'[p] # "panic" BY DEF ContentsInv, Types, Busy
    <3>. QED BY <3>1 DEF Types
  <2>. QED BY <1>3, <2>1
<1>7. ~Truncating(i) /\ ~Writes(i) /\ ~Truncating(i)' /\ ~Writes(i)'
  BY <1>3 DEF Truncating, Writes
<1>8. Length(i)' = Length(i) /\ Length(i) = inode[i].size
  <2>1. Reach(i) = 0 /\ Reach(i)' = 0 BY <1>7 DEF Reach
  <2>. QED BY <1>3, <1>4, <1>7, <2>1 DEF Length
<1>9. \A j \in Made : DataKept(j) BY <1>3 DEF DataKept
<1>10. \A j \in Made : Bytes(j)' = Bytes(j)
  <2>1. \A a : Byte(i, a)' = Byte(i, a) BY <1>3 DEF Byte, Addr, Indirect
  <2>2. Size(i)' = Size(i) BY <1>8 DEF Abstract
  <2>3. Bytes(i)' = Bytes(i) BY <2>1, <2>2, SameBytes
  <2>. QED BY <1>2, <1>9, <2>3, BytesElsewhere
<1>11. ASSUME NEW x \in Opened PROVE Offset(x)' = IF x = o THEN Offset(x) + m ELSE Offset(x)
  <2>1. CASE FileOf[x] # i BY <1>1, <1>2, <2>1, OffsetElsewhere
  <2>2. CASE FileOf[x] = i
    <3>1. Position(x)' = off'[x] /\ Position(x) = off[x] BY <1>7, <2>2 DEF Position
    <3>2. off'[x] = IF x = o THEN off[x] + m ELSE off[x] BY <1>6 DEF Types
    <3>. QED BY <3>1, <3>2 DEF Abstract
  <2>. QED BY <2>1, <2>2
<1>12. {FileOf[x] : x \in Opened} \subseteq Made /\ i \in {FileOf[x] : x \in Opened}
  BY <1>1 DEF ContentsConstants
<1>13. now' = now BY <1>10, <1>12 DEF now
<1>14. offset' = [offset EXCEPT ![o] = @ + m] BY <1>11 DEF offset
<1>15. offset[o] + m <= Len(now[FileOf[o]]) /\ m <= MAXFILE * BSIZE
  <2>1. Size(i) = inode[i].size /\ Size(i) \in Nat /\ Size(i) <= MAXFILE * BSIZE
    BY <1>8 DEF Abstract
  <2>2. now[i] = Bytes(i) /\ Len(Bytes(i)) = Size(i) BY <1>12, <2>1 DEF now, Bytes
  <2>3. offset[o] = off[o] BY <1>1, <1>7 DEF offset, Abstract, Position
  <2>4. MAXFILE * BSIZE \in Nat BY Sizes
  <2>. QED BY <1>1, <1>4, <1>5, <2>1, <2>2, <2>3, <2>4
<1>16. Store!Read(o, m) BY <1>13, <1>14, <1>15 DEF Store!Read
<1>17. m \in 1 .. MAXFILE * BSIZE
  <2>1. MAXFILE * BSIZE \in Nat BY Sizes
  <2>. QED BY <1>3, <1>5, <1>15, <2>1
<1>. QED BY <1>16, <1>17

(* What concatenation does.                                                *)
LEMMA Concatenated ==
    ASSUME NEW S, NEW a \in Seq(S), NEW b \in Seq(S)
    PROVE  /\ a \o b \in Seq(S) /\ Len(a \o b) = Len(a) + Len(b)
           /\ \A n \in 1 .. Len(a) + Len(b) :
                 (a \o b)[n] = IF n <= Len(a) THEN a[n] ELSE b[n - Len(a)]
  BY ConcatProperties

(* e is the L values f with the m values b, each of them v, written behind *)
(* the first h: a run of new values written into a sequence.               *)
Overwrites(S, L, h, m, t, v, f, b, e) ==
    /\ L \in Nat /\ h \in Nat /\ m \in Nat /\ t \in Nat
    /\ h <= L /\ t = IF L <= h + m THEN h + m ELSE L
    /\ v \in S
    /\ f \in [1 .. L -> S] /\ b \in [1 .. m -> {v}] /\ e \in [1 .. t -> S]
    /\ \A n \in 1 .. t : e[n] = IF n \in h + 1 .. h + m THEN v ELSE f[n]

Spliced(f, h, m, b) == SubSeq(f, 1, h) \o b \o SubSeq(f, h + m + 1, Len(f))

LEMMA Overwritten ==
    ASSUME NEW S, NEW L, NEW h, NEW m, NEW t, NEW v, NEW f, NEW b, NEW e,
           Overwrites(S, L, h, m, t, v, f, b, e)
    PROVE  e = Spliced(f, h, m, b)
<1>0. /\ L \in Nat /\ h \in Nat /\ m \in Nat /\ t \in Nat
      /\ h <= L /\ t = IF L <= h + m THEN h + m ELSE L
      /\ v \in S
      /\ f \in [1 .. L -> S] /\ b \in [1 .. m -> {v}] /\ e \in [1 .. t -> S]
      /\ \A n \in 1 .. t : e[n] = IF n \in h + 1 .. h + m THEN v ELSE f[n]
  BY DEF Overwrites
<1>. USE <1>0
<1>. DEFINE a == SubSeq(f, 1, h)
            c == SubSeq(f, h + m + 1, Len(f))
            ab == a \o b
            d == ab \o c
<1>1. Len(f) = L /\ f \in Seq(S) OBVIOUS
<1>2. a \in Seq(S) /\ Len(a) = h /\ \A n \in 1 .. h : a[n] = f[n] BY <1>1
<1>3. b \in Seq(S) /\ Len(b) = m /\ \A n \in 1 .. m : b[n] = v OBVIOUS
<1>4. c \in Seq(S) /\ Len(c) = t - (h + m) /\ \A n \in 1 .. t - (h + m) : c[n] = f[h + m + n]
  BY <1>1
<1>. HIDE DEF a, c
<1>5. /\ ab \in Seq(S) /\ Len(ab) = Len(a) + Len(b)
      /\ \A n \in 1 .. Len(a) + Len(b) : ab[n] = IF n <= Len(a) THEN a[n] ELSE b[n - Len(a)]
  <2>1. a \in Seq(S) /\ b \in Seq(S) BY <1>2, <1>3
  <2>. QED BY <2>1, Concatenated
<1>. HIDE DEF ab
<1>6. /\ d \in Seq(S) /\ Len(d) = Len(ab) + Len(c)
      /\ \A n \in 1 .. Len(ab) + Len(c) :
          d[n] = IF n <= Len(ab) THEN ab[n] ELSE c[n - Len(ab)]
  <2>1. ab \in Seq(S) /\ c \in Seq(S) BY <1>4, <1>5
  <2>. QED BY <2>1, Concatenated
<1>. HIDE DEF d
<1>7. Len(ab) = h + m /\ Len(d) = t BY <1>2, <1>3, <1>4, <1>5, <1>6
<1>8. ASSUME NEW n \in 1 .. t PROVE d[n] = e[n]
  <2>1. CASE n <= h
    <3>1. ab[n] = a[n] /\ d[n] = ab[n] BY <1>2, <1>3, <1>5, <1>6, <1>7, <2>1
    <3>2. a[n] = f[n] /\ n \notin h + 1 .. h + m BY <1>2, <2>1
    <3>. QED BY <3>1, <3>2
  <2>2. CASE n > h /\ n <= h + m
    <3>1. n - h \in 1 .. m /\ n \in 1 .. h + m /\ ~(n <= h) BY <2>2
    <3>2. ab[n] = b[n - h]
      <4>1. Len(a) = h /\ Len(b) = m BY <1>2, <1>3
      <4>. QED BY <1>5, <3>1, <4>1
    <3>. d[n] = ab[n]
      <4>1. Len(ab) + Len(c) = t BY <1>6, <1>7
      <4>. QED BY <1>6, <1>7, <2>2, <4>1
    <3>3. b[n - h] = v /\ n \in h + 1 .. h + m BY <1>3, <2>2, <3>1
    <3>. QED BY <3>2, <3>3
  <2>3. CASE n > h + m
    <3>1. n - (h + m) \in 1 .. t - (h + m) /\ h + m + (n - (h + m)) = n BY <2>3
    <3>2. c[n - (h + m)] = f[n] BY <1>4, <3>1
    <3>3. d[n] = c[n - (h + m)] BY <1>6, <1>7, <2>3
    <3>4. n \notin h + 1 .. h + m BY <2>3
    <3>. QED BY <3>2, <3>3, <3>4
  <2>. QED BY <2>1, <2>2, <2>3
<1>9. d \in [1 .. t -> S] BY <1>6, <1>7, LenProperties
<1>10. d = e BY <1>8, <1>9
<1>. QED BY <1>10 DEF d, ab, a, c, Spliced

(* A byte is in block n, behind the first f of its bytes and among the     *)
(* next m, exactly if it is one of the m that begin f bytes into block n.  *)
LEMMA InBlock ==
    ASSUME NEW B \in Nat \ {0}, NEW n \in Nat, NEW f \in 0 .. B - 1, NEW m \in Nat,
           m <= B - f,
           NEW a \in Nat
    PROVE  a \in n * B + f .. n * B + f + m - 1
             <=> a \div B = n /\ a % B \in f .. f + m - 1
<1>. DEFINE q == a \div B
            r == a % B
            w == n * B
<1>1. q \in Nat /\ r \in 0 .. B - 1 /\ a = q * B + r BY Division
<1>2. w \in Nat OBVIOUS
<1>. HIDE DEF q, r
<1>3. CASE q = n BY <1>1, <1>3
<1>4. CASE q < n
  <2>1. (n - (q + 1)) * B >= 0 BY <1>1, <1>4
  <2>2. (n - (q + 1)) * B = w - q * B - B BY <1>1
  <2>3. q * B \in Int /\ (n - (q + 1)) * B \in Int BY <1>1
  <2>. HIDE DEF w
  <2>4. a < w BY <1>1, <1>2, <2>1, <2>2, <2>3
  <2>. QED BY <1>2, <1>4, <2>4 DEF w, q
<1>5. CASE q > n
  <2>1. (q - (n + 1)) * B >= 0 BY <1>1, <1>5
  <2>2. (q - (n + 1)) * B = q * B - w - B BY <1>1
  <2>3. q * B \in Int /\ (q - (n + 1)) * B \in Int BY <1>1
  <2>. HIDE DEF w
  <2>4. a >= w + B BY <1>1, <1>2, <2>1, <2>2, <2>3
  <2>. QED BY <1>2, <1>5, <2>4 DEF w, q
<1>. QED BY <1>1, <1>3, <1>4, <1>5 DEF q

LEMMA CellOf ==
    ASSUME ContentsConstants, ContentsInv, NEW i \in Made, NEW a \in Nat, a < MAXFILE * BSIZE
    PROVE  Byte(i, a) \in Cell
<1>. Types BY DEF ContentsInv
<1>1. PICK n \in 0 .. MAXFILE - 1 : n = a \div BSIZE
  <2>1. MAXFILE * BSIZE \in Nat BY Sizes
  <2>. QED BY <2>1, BlockOf
<1>2. PICK c \in 0 .. BSIZE - 1 : c = a % BSIZE BY Sizes, Division
<1>3. Addr(i, n) \in 0 .. NBLOCKS
  <2>1. EntriesInv(i) BY DEF ContentsInv
  <2>. QED BY <2>1, AddrTypes
<1>4. CASE Addr(i, n) = 0
  <2>1. 0 \in 0 .. NBLOCKS BY Sizes
  <2>. QED BY <1>1, <1>4, <2>1 DEF Byte, Cell
<1>5. CASE Addr(i, n) # 0
  <2>1. Addr(i, n) \in Blocks BY <1>3, <1>5, Sizes DEF Blocks
  <2>2. block[Addr(i, n)][c] \in Cell
    <3>1. block[Addr(i, n)] \in [0 .. BSIZE - 1 -> Cell] BY <2>1 DEF Types
    <3>. QED BY <1>2, <3>1
  <2>3. Byte(i, a) = block[Addr(i, n)][c] BY <1>1, <1>2, <1>5 DEF Byte
  <2>. QED BY <2>2, <2>3
<1>. QED BY <1>4, <1>5

LEMMA WriteSeen ==
    ASSUME ContentsConstants, ContentsInv, ContentsInv', Abstract, Abstract',
           NEW p \in Procs, writei_block(p)
    PROVE  \E o \in Opened, m \in 1 .. MAXFILE * BSIZE : Store!Write(o, m, p)
<1>. Types /\ LockInv BY DEF ContentsInv
<1>1. PICK i \in Made : i = Ip(p) /\ Touches(p, i) BY WriteBlockStep
<1>2. pc[p] = "writei" /\ done[p] < Todo(p) BY DEF writei_block, Writing
<1>3. PICK o \in Opened : o = fd[p] /\ FileOf[o] = i BY <1>1, <1>2, Holder DEF Busy, Ip
<1>4. owner[i] = p /\ p # Nobody BY <1>1, <1>2, Holder DEF Busy
<1>5. Writes(i) /\ ~Truncating(i) BY <1>2, <1>4 DEF Writes, InWrite, Truncating
<1>6. PICK h \in Nat : h = Reach(i) /\ h = Here(p) /\ h = off[o] + done[p]
  BY <1>3, <1>4, <1>5, WriterOf DEF Here
<1>7. PICK s \in Nat : s = inode[i].size BY DEF Types, Dinode
<1>8. PICK L \in Nat : L = Length(i) /\ L = IF s <= h THEN h ELSE s
  BY <1>5, <1>6, <1>7 DEF Length
<1>9. BSIZE \in Nat \ {0} /\ MAXFILE \in Nat \ {0} /\ MAXFILE * BSIZE \in Nat BY Sizes
<1>10. PICK n \in 0 .. MAXFILE - 1 : n = Bn(p) BY WhereWriting DEF writei_block
<1>11. PICK f \in 0 .. BSIZE - 1 : f = h % BSIZE /\ h = n * BSIZE + f
  <2>1. n = h \div BSIZE BY <1>6, <1>10 DEF Bn
  <2>. QED BY <1>9, <2>1, Division
<1>12. PICK x : x = Addr(i, n) /\ x # 0 BY <1>1, <1>10 DEF writei_block
<1>13. PICK m : m = Min({Todo(p) - done[p], BSIZE - f}) OBVIOUS
<1>14. m \in Nat \ {0} /\ m <= BSIZE - f
  <2>1. PICK t \in Nat : t = Todo(p) - done[p] /\ t > 0
    <3>1. Todo(p) \in Nat /\ done[p] \in Nat BY TodoIs DEF Types
    <3>. QED BY <1>2, <3>1
  <2>2. BSIZE - f \in Nat /\ BSIZE - f > 0 BY <1>9
  <2>3. m = IF t <= BSIZE - f THEN t ELSE BSIZE - f BY <1>13, <2>1, <2>2, MinOfTwo
  <2>. QED BY <2>1, <2>2, <2>3
<1>. DEFINE new == [c \in DOMAIN block[x] |-> IF c \in f .. f + m - 1 THEN p ELSE block[x][c]]
<1>15. /\ block' = [block EXCEPT ![x] = new] /\ done' = [done EXCEPT ![p] = @ + m]
       /\ inode' = inode /\ owner' = owner /\ off' = off /\ pc' = pc /\ fd' = fd
  BY <1>1, <1>6, <1>10, <1>11, <1>12, <1>13 DEF writei_block
<1>16. x \in Blocks
  <2>1. EntriesInv(i) BY DEF ContentsInv
  <2>2. x \in 0 .. NBLOCKS BY <1>12, <2>1, AddrTypes
  <2>. QED BY <1>12, <2>2, Sizes DEF Blocks
<1>17. /\ \A c \in 0 .. BSIZE - 1 :
            block'[x][c] = IF c \in f .. f + m - 1 THEN p ELSE block[x][c]
       /\ \A y \in Blocks \ {x} : block'[y] = block[y]
  BY <1>15, <1>16 DEF Types
<1>. HIDE DEF new
(* No other place of any file names the block.                             *)
<1>18. ASSUME NEW j \in Made, NEW k \in 0 .. MAXFILE - 1, At(j, k) = x PROVE j = i /\ k = n
  <2>1. n # MAXFILE /\ n \in 0 .. MAXFILE /\ k \in 0 .. MAXFILE BY <1>9
  <2>2. ~Passed(i, n) BY <1>5, WhoPasses
  <2>3. At(i, n) = x BY <1>12, <2>1, <2>2 DEF At
  <2>4. <<j, k>> \in Places /\ <<i, n>> \in Places /\ Map[<<j, k>>] = x /\ Map[<<i, n>>] = x
    BY <1>18, <2>1, <2>3 DEF Places, Map
  <2>. QED BY <1>12, <2>4 DEF ContentsInv, NamedOnce
<1>19. \A j \in Made : Indirect(j) # 0 => Indirect(j) # x /\ Indirect(j) \in Blocks
  <2>1. n # MAXFILE BY <1>9
  <2>2. ~Passed(i, n) BY <1>5, WhoPasses
  <2>3. At(i, n) = x BY <1>12, <2>1, <2>2 DEF At
  <2>. QED BY <1>12, <2>3, IndirectUsed
<1>20. \A k : Addr(i, k)' = Addr(i, k) BY <1>15, <1>17, <1>19 DEF Addr, Indirect
(* The bytes of this file, ...                                             *)
<1>21. ASSUME NEW a \in Nat, a < MAXFILE * BSIZE
       PROVE  Byte(i, a)' = IF a \in h .. h + m - 1 THEN p ELSE Byte(i, a)
  <2>1. PICK k \in 0 .. MAXFILE - 1 : k = a \div BSIZE BY <1>9, <1>21, BlockOf
  <2>2. PICK c \in 0 .. BSIZE - 1 : c = a % BSIZE BY <1>9, Division
  <2>3. a \in h .. h + m - 1 <=> k = n /\ c \in f .. f + m - 1
    <3>1. n \in Nat /\ m \in Nat BY <1>9, <1>14
    <3>2. a \in n * BSIZE + f .. n * BSIZE + f + m - 1
            <=> a \div BSIZE = n /\ a % BSIZE \in f .. f + m - 1
      BY <1>9, <1>14, <3>1, InBlock
    <3>. QED BY <1>11, <2>1, <2>2, <3>2
  <2>4. Addr(i, k) \in 0 .. NBLOCKS
    <3>1. EntriesInv(i) BY DEF ContentsInv
    <3>. QED BY <3>1, AddrTypes
  <2>5. CASE k = n
    <3>1. Byte(i, a)' = block'[x][c] /\ Byte(i, a) = block[x][c]
      BY <1>12, <1>20, <2>1, <2>2, <2>5 DEF Byte
    <3>. QED BY <1>17, <2>3, <2>5, <3>1
  <2>6. CASE k # n
    <3>1. Addr(i, k) # x
      <4>1. k # MAXFILE BY <1>9
      <4>2. At(i, k) = Addr(i, k) BY <1>5, <4>1, WhoPasses DEF At
      <4>. QED BY <1>18, <2>6, <4>2
    <3>2. Addr(i, k) # 0 => Addr(i, k) \in Blocks \ {x} BY <2>4, <3>1, Sizes DEF Blocks
    <3>3. Byte(i, a)' = Byte(i, a) BY <1>17, <1>20, <2>1, <3>2 DEF Byte
    <3>. QED BY <2>3, <2>6, <3>3
  <2>. QED BY <2>5, <2>6
(* ... its length, ...                                                     *)
<1>22. Reach(i)' = h + m
  <2>1. Here(p)' = off[o] + done'[p] BY <1>3, <1>15 DEF Here
  <2>2. done'[p] = done[p] + m /\ done[p] \in Nat /\ off[o] \in Nat BY <1>15 DEF Types
  <2>3. Writes(i)' BY <1>5, <1>15 DEF Writes, InWrite
  <2>. QED BY <1>4, <1>6, <1>14, <1>15, <2>1, <2>2, <2>3 DEF Reach
<1>23. PICK t \in Nat : /\ t = Length(i)' /\ t <= MAXFILE * BSIZE
                        /\ t = IF L <= h + m THEN h + m ELSE L
  <2>1. ~Truncating(i)' BY <1>5, <1>15 DEF Truncating
  <2>2. Length(i)' = IF s <= h + m THEN h + m ELSE s
    BY <1>7, <1>15, <1>22, <2>1 DEF Length
  <2>3. Length(i)' \in Nat /\ Length(i)' <= MAXFILE * BSIZE BY DEF Abstract
  <2>. QED BY <1>8, <1>14, <2>2, <2>3
<1>24. Size(i) = L /\ Size(i)' = t /\ L <= MAXFILE * BSIZE BY <1>8, <1>23 DEF Abstract
<1>25. Bytes(i) \in [1 .. L -> Cell]
  <2>1. ASSUME NEW k \in 1 .. L PROVE Byte(i, k - 1) \in Cell
    <3>1. PICK a \in Nat : a = k - 1 /\ a < L OBVIOUS
    <3>2. a < MAXFILE * BSIZE BY <1>9, <1>24, <3>1
    <3>3. Byte(i, a) \in Cell BY <3>2, CellOf
    <3>. QED BY <3>1, <3>3
  <2>. QED BY <1>24, <2>1 DEF Bytes
<1>26. PICK g : g = Bytes(i) OBVIOUS
<1>27. Bytes(i)' = [k \in 1 .. t |-> IF k \in h + 1 .. h + m THEN p ELSE g[k]]
  <2>1. ASSUME NEW k \in 1 .. t
        PROVE  Byte(i, k - 1)' = IF k \in h + 1 .. h + m THEN p ELSE g[k]
    <3>1. PICK a \in Nat : a = k - 1 /\ a < t /\ k = a + 1 OBVIOUS
    <3>2. a < MAXFILE * BSIZE BY <1>9, <1>23, <3>1
    <3>3. Byte(i, a)' = IF a \in h .. h + m - 1 THEN p ELSE Byte(i, a) BY <1>21, <3>2
    <3>4. a \in h .. h + m - 1 <=> k \in h + 1 .. h + m BY <1>14, <3>1
    <3>5. k \notin h + 1 .. h + m => g[k] = Byte(i, a)
      <4>1. ASSUME k \notin h + 1 .. h + m PROVE k \in 1 .. L
        BY <1>8, <1>14, <1>23, <4>1
      <4>2. ASSUME k \in 1 .. L PROVE g[k] = Byte(i, k - 1)
        BY <1>24, <1>26, <4>2 DEF Bytes
      <4>. QED BY <3>1, <4>1, <4>2
    <3>6. Byte(i, k - 1)' = Byte(i, a)' BY <3>1
    <3>. QED BY <3>3, <3>4, <3>5, <3>6
  <2>. QED BY <1>24, <2>1 DEF Bytes
<1>28. Bytes(i)' = SubSeq(g, 1, h) \o [k \in 1 .. m |-> p] \o SubSeq(g, h + m + 1, Len(g))
  <2>1. g \in [1 .. L -> Cell] /\ h <= L BY <1>8, <1>25, <1>26
  <2>2. PICK e : e = [k \in 1 .. t |-> IF k \in h + 1 .. h + m THEN p ELSE g[k]] OBVIOUS
  <2>3. PICK b : b = [k \in 1 .. m |-> p] OBVIOUS
  <2>4. p \in Cell BY DEF Cell
  <2>5. m \in Nat /\ b \in [1 .. m -> {p}] BY <1>14, <2>3
  <2>6. /\ e \in [1 .. t -> Cell]
        /\ \A k \in 1 .. t : e[k] = IF k \in h + 1 .. h + m THEN p ELSE g[k]
    <3>1. ASSUME NEW k \in 1 .. t, k \notin h + 1 .. h + m PROVE g[k] \in Cell
      <4>1. k \in 1 .. L BY <1>14, <1>23, <2>1, <3>1
      <4>. QED BY <2>1, <4>1
    <3>. QED BY <2>2, <2>4, <3>1
  <2>7. e = SubSeq(g, 1, h) \o b \o SubSeq(g, h + m + 1, Len(g))
    <3>1. /\ L \in Nat /\ h \in Nat /\ t \in Nat /\ m \in Nat
          /\ t = IF L <= h + m THEN h + m ELSE L
      BY <1>6, <1>8, <1>14, <1>23
    <3>2. Overwrites(Cell, L, h, m, t, p, g, b, e)
      BY <2>1, <2>4, <2>5, <2>6, <3>1 DEF Overwrites
    <3>3. e = Spliced(g, h, m, b) BY <3>2, Overwritten
    <3>. QED BY <3>3 DEF Spliced
  <2>. QED BY <1>27, <2>2, <2>3, <2>7
(* ... the other files, and the offsets.                                   *)
<1>29. ASSUME NEW j \in Made, j # i PROVE Bytes(j)' = Bytes(j)
  <2>1. ASSUME NEW k \in 0 .. MAXFILE - 1, At(j, k) # 0
        PROVE  block'[At(j, k)] = block[At(j, k)]
    <3>1. At(j, k) \in Blocks BY <2>1, IndirectUsed DEF Types
    <3>2. At(j, k) # x BY <1>18, <1>29
    <3>. QED BY <1>17, <3>1, <3>2
  <2>2. DataKept(j) BY <2>1 DEF DataKept
  <2>. QED BY <1>1, <1>29, <2>2, BytesElsewhere
<1>30. ASSUME NEW y \in Opened PROVE Offset(y)' = IF y = o THEN Offset(y) + m ELSE Offset(y)
  <2>1. CASE FileOf[y] # i BY <1>1, <1>3, <2>1, OffsetElsewhere
  <2>2. CASE FileOf[y] = i
    <3>1. Writes(i)' BY <1>5, <1>15 DEF Writes, InWrite
    <3>2. Position(y)' = IF y = o THEN h + m ELSE off[y]
      BY <1>3, <1>4, <1>15, <1>22, <2>2, <3>1 DEF Position
    <3>3. Position(y) = IF y = o THEN h ELSE off[y]
      BY <1>3, <1>4, <1>5, <1>6, <2>2 DEF Position
    <3>. QED BY <3>2, <3>3 DEF Abstract
  <2>. QED BY <2>1, <2>2
<1>31. {FileOf[y] : y \in Opened} \subseteq Made /\ i \in {FileOf[y] : y \in Opened}
  BY <1>3 DEF ContentsConstants
<1>32. offset[o] = h /\ now[i] = g /\ Len(g) = L
  <2>1. Offset(o) = h BY <1>3, <1>4, <1>5, <1>6 DEF Abstract, Position
  <2>2. now[i] = g BY <1>26, <1>31 DEF now
  <2>3. Len(g) = L BY <1>25, <1>26
  <2>. QED BY <2>1, <2>2, <2>3 DEF offset
<1>33. offset' = [offset EXCEPT ![o] = @ + m] BY <1>30 DEF offset
<1>34. now' = [now EXCEPT ![i] = SubSeq(g, 1, h) \o [k \in 1 .. m |-> p]
                                   \o SubSeq(g, h + m + 1, Len(g))]
  BY <1>28, <1>29, <1>31 DEF now
<1>35. Store!Write(o, m, p) BY <1>3, <1>8, <1>32, <1>33, <1>34 DEF Store!Write
<1>36. m \in 1 .. MAXFILE * BSIZE
  <2>1. m <= BSIZE BY <1>9, <1>14
  <2>2. (MAXFILE - 1) * BSIZE >= 0 BY <1>9
  <2>3. (MAXFILE - 1) * BSIZE = MAXFILE * BSIZE - BSIZE BY <1>9
  <2>. QED BY <1>9, <1>14, <2>1, <2>2, <2>3
<1>. QED BY <1>35, <1>36

LEMMA InitSeen == ASSUME ContentsConstants, Init, ContentsInv, Abstract PROVE StoreInit
<1>. DEFINE Vals == Procs \cup {byte}
<1>1. /\ block = Image.block /\ inode = Image.dinode /\ owner = [i \in Made |-> Nobody]
      /\ off = [o \in Opened |-> 0]
  BY DEF Init, Made
<1>2. /\ \A i \in Made, n \in 0 .. MAXFILE - 1 :
           n * BSIZE < inode[i].size => MadeAt(i, n) # 0
      /\ \A o \in Opened : \A n \in 0 .. inode[FileOf[o]].size - 1 :
           block[MadeAt(FileOf[o], n \div BSIZE)][n % BSIZE] = byte
  <2>1. ImageConstants BY DEF ContentsConstants
  <2>2. MAXFILE \in Nat BY Sizes
  <2>3. \A o \in Opened : \A n \in 0 .. Image.dinode[FileOf[o]].size - 1 :
          Image.block[MadeAt(FileOf[o], n \div BSIZE)][n % BSIZE] = byte
    BY DEF ContentsConstants
  <2>. QED BY <1>1, <2>1, <2>2, <2>3 DEF ImageConstants
<1>3. ASSUME NEW i \in Made, NEW n \in 0 .. MAXFILE - 1 PROVE Addr(i, n) = MadeAt(i, n)
  <2>1. n # MAXFILE BY Sizes
  <2>. QED BY <1>1, <2>1 DEF Addr, Indirect, MadeAt
<1>4. {FileOf[o] : o \in Opened} \subseteq Made BY DEF ContentsConstants
<1>5. ASSUME NEW o \in Opened PROVE Bytes(FileOf[o]) \in Seq(Vals)
  <2>. DEFINE i == FileOf[o]
  <2>0. i \in Made BY <1>4
  <2>. HIDE DEF i
  <2>1. PICK L \in Nat : L = Size(i) /\ L = inode[i].size /\ L <= MAXFILE * BSIZE
    BY <1>1, <2>0, IdleFile DEF Abstract
  <2>2. ASSUME NEW k \in 1 .. L PROVE Byte(i, k - 1) = byte
    <3>1. PICK a \in Nat : a = k - 1 /\ a < L BY <2>1
    <3>2. BSIZE \in Nat \ {0} /\ MAXFILE * BSIZE \in Nat BY Sizes
    <3>3. PICK n \in 0 .. MAXFILE - 1 : n = a \div BSIZE BY <2>1, <3>1, <3>2, BlockOf
    <3>4. n * BSIZE <= a
      <4>1. PICK r \in 0 .. BSIZE - 1 : r = a % BSIZE
        <5>1. (a % BSIZE) \in 0 .. BSIZE - 1 BY <3>2, Division
        <5>. QED BY <5>1
      <4>2. a = (a \div BSIZE) * BSIZE + r BY <3>2, <4>1, Division
      <4>3. a = n * BSIZE + r BY <3>3, <4>2
      <4>4. n * BSIZE \in Nat BY <3>2
      <4>. QED BY <3>2, <4>3, <4>4
    <3>5. MadeAt(i, n) # 0
      <4>1. n * BSIZE \in Nat BY <3>2
      <4>2. n * BSIZE < L BY <3>1, <3>4, <4>1
      <4>. QED BY <1>2, <2>0, <2>1, <4>2
    <3>6. block[MadeAt(i, n)][a % BSIZE] = byte
      <4>1. a \in 0 .. L - 1 BY <2>1, <3>1
      <4>. QED BY <1>2, <2>1, <3>3, <4>1 DEF i
    <3>7. Byte(i, a) = byte BY <1>3, <2>0, <3>3, <3>5, <3>6 DEF Byte
    <3>. QED BY <3>1, <3>7
  <2>3. Bytes(i) \in [1 .. L -> Vals] BY <2>1, <2>2 DEF Bytes
  <2>. QED BY <2>1, <2>3 DEF i
<1>6. now \in [{FileOf[o] : o \in Opened} -> Seq(Vals)] BY <1>5, <1>4 DEF now
<1>7. ASSUME NEW o \in Opened PROVE Offset(o) = 0
  <2>1. PICK i \in Made : i = FileOf[o] BY DEF ContentsConstants
  <2>2. ~Writes(i) BY <1>1, <2>1 DEF Writes
  <2>3. Position(o) = off[o] BY <2>1, <2>2 DEF Position
  <2>. QED BY <1>1, <2>3 DEF Abstract
<1>8. offset = [o \in Opened |-> 0] BY <1>7 DEF offset
<1>. QED BY <1>6, <1>8 DEF StoreInit, Store!BytesInit, Store!Files

(* Every step is one of the abstract store's, or none of its business.     *)
LEMMA StepSeen ==
    ASSUME ContentsConstants, ContentsInv, ContentsInv', Abstract, Abstract', [Next]_vars
    PROVE  StoreStep
<1>1. CASE UNCHANGED vars
  BY <1>1
    DEF vars, disk, locals, StoreStep, now, offset, Bytes, Byte, Size, Offset,
        Truncated, Writer, Addr, Indirect, Ip
<1>2. CASE Next
  <2>1. PICK p \in Procs :
          \/ writes(p) \/ truncates(p)
          \/ \E o \in Opened :
               \/ open(p, o) \/ open_trunc(p, o)
               \/ \E n \in Lengths : filewrite(p, o, n) \/ fileread(p, o, n)
    BY <1>2 DEF Next
  <2>2. CASE writes(p)
    <3>1. CASE writei_block(p)
      <4>1. PICK o \in Opened, m \in 1 .. MAXFILE * BSIZE : Store!Write(o, m, p)
        BY <3>1, WriteSeen
      <4>. QED BY <4>1 DEF StoreStep, Store!BytesNext
    <3>2. CASE ~writei_block(p)
      <4>1. UNCHANGED <<now, offset>>
        BY <2>2, <3>2, WriteiStill, RefusedStill, ShortStill, BmapStill, DoneStill
          DEF writes
      <4>. QED BY <4>1 DEF StoreStep
    <3>. QED BY <3>1, <3>2
  <2>3. CASE truncates(p)
    <3>1. UNCHANGED <<now, offset>> BY <2>3, FreeingStill, TruncStill DEF truncates
    <3>. QED BY <3>1 DEF StoreStep
  <2>4. CASE \E o \in Opened : open(p, o) \/ open_trunc(p, o)
    BY <2>4, OpenSeen, OpenTruncSeen DEF StoreStep, Store!BytesNext
  <2>5. CASE \E o \in Opened, n \in Lengths : filewrite(p, o, n)
    <3>1. UNCHANGED <<now, offset>> BY <2>5, FilewriteStill
    <3>. QED BY <3>1 DEF StoreStep
  <2>6. CASE \E o \in Opened, n \in Lengths : fileread(p, o, n)
    <3>1. PICK o \in Opened, r \in 1 .. MAXFILE * BSIZE : Store!Read(o, r)
      BY <2>6, ReadSeen
    <3>. QED BY <3>1 DEF StoreStep, Store!BytesNext
  <2>. QED BY <2>1, <2>2, <2>3, <2>4, <2>5, <2>6
<1>. QED BY <1>1, <1>2

(* To its users a file is a sequence of bytes with an offset per open      *)
(* file: whatever way the blocks are given out, found, filled and freed,   *)
(* every step of a write, a read, an open or a truncation is one that the  *)
(* abstract store allows, or changes nothing that they see.                *)
THEOREM FilesAreBytes == ContentsConstants => (Spec => ImplementsByteFiles)
<1>. SUFFICES ASSUME ContentsConstants PROVE Spec => ImplementsByteFiles OBVIOUS
<1>1. Spec => []ContentsInv
  BY ContentsInit, ContentsNext, PTL DEF Spec
<1>2. ContentsInv => Abstract BY Abstraction
<1>3. Init /\ ContentsInv /\ Abstract => StoreInit BY InitSeen
<1>4. ContentsInv /\ ContentsInv' /\ Abstract /\ Abstract' /\ [Next]_vars => [StoreStep]_vars
  BY StepSeen
<1>. QED BY <1>1, <1>2, <1>3, <1>4, PTL DEF Spec, ImplementsByteFiles
-------------------------------------------------------------------------------
(* The file table, the table of inodes, and names.                         *)
CONSTANTS FileNames, NINODES, NINODE, NFILE, NOFILE, DirFull, None
VARIABLES dir, type, nlink, itable, iowner, dirowner, ftable, ofile, fpc, fip, name

Table == INSTANCE Files WITH
    Names <- FileNames, owner <- iowner, pc <- fpc, ip <- fip

(* The library's operators, as Files sees them, are those seen here.       *)
LEMMA SameSizes ==
    ASSUME NEW S
    PROVE  /\ Table!Cardinality(S) = Cardinality(S)
           /\ Table!IsFiniteSet(S) <=> IsFiniteSet(S)
           /\ Table!Min(S) = Min(S)
<1>1. Table!Cardinality(S) = Cardinality(S) BY DEF Table!Cardinality, Cardinality
<1>2. Table!IsFiniteSet(S) <=> IsFiniteSet(S) BY DEF Table!IsFiniteSet, IsFiniteSet
<1>3. Table!Min(S) = Min(S) BY DEF Table!Min, Min
<1>. QED BY <1>1, <1>2, <1>3

(* Where a call has an inode, a name, the inode's sleeplock, the directory;*)
(* where it has written the inode off; where it has changed a link count   *)
(* and not the directory, or the other way round.                          *)
HasInode == {"open_lock", "open_file", "create_lock", "create_link", "link_lock",
    "link_inc", "link_dir", "link_bad", "link_dec", "unlink_lock", "unlink_entry",
    "unlink_dec", "put", "put_free", "put_invalid", "put_count"}
HasName == {"create", "create_lock", "create_link", "link_lock", "link_inc", "link_dir",
    "unlink", "unlink_lock", "unlink_entry"}
Holds == {"open_file", "create_link", "link_inc", "link_dec", "unlink_entry",
    "unlink_dec", "put_free", "put_invalid"}
HoldsDir == {"create", "create_lock", "create_link", "unlink", "unlink_lock",
    "unlink_entry"}
WrittenOff == {"put_invalid", "put_count"}
Between == {"link_dir", "link_bad", "link_dec", "unlink_dec"}

Entries == [inum : Table!Inums \cup {None}, ref : Nat, valid : BOOLEAN, nlink : Nat]

TableTypes ==
         /\ dir \in [FileNames -> Table!Inums \cup {None}] /\ type \in [Table!Inums -> BOOLEAN]
         /\ nlink \in [Table!Inums -> Nat] /\ itable \in [Table!Slots -> Entries]
         /\ iowner \in [Table!Slots -> Procs \cup {None}] /\ dirowner \in Procs \cup {None}
         /\ ftable \in [Table!FileIds -> [ref : Nat, ip : Table!Slots \cup {None}]]
         /\ ofile \in [Procs -> [Table!Fds -> Table!FileIds \cup {None}]]
         /\ fpc \in [Procs -> HasInode \cup {"idle", "create", "unlink", "panic"}]
         /\ fip \in [Procs -> Table!Slots \cup {None}] /\ name \in [Procs -> FileNames \cup {None}]
         /\ \A s \in Table!Slots : itable[s].ref > 0 => itable[s].inum \in Table!Inums
         /\ \A f \in Table!FileIds : ftable[f].ref > 0 => ftable[f].ip \in Table!Slots
         /\ \A p \in Procs : fip[p] # None <=> fpc[p] \in HasInode
         /\ \A p \in Procs : fpc[p] \in HasName => name[p] \in FileNames

TableLockInv ==
         /\ \A p \in Procs : fpc[p] \in Holds => iowner[fip[p]] = p
         /\ \A s \in Table!Slots : iowner[s] # None =>
             fip[iowner[s]] = s /\ fpc[iowner[s]] \in Holds
         /\ \A p \in Procs : fpc[p] \in HoldsDir => dirowner = p

(* The inode table is a cache of the inodes on disk.                       *)
TableInv ==
    /\ \A s, t \in Table!Slots :
         itable[s].ref > 0 /\ itable[t].ref > 0 /\ itable[s].inum = itable[t].inum => s = t
    /\ \A p \in Procs : fpc[p] \in Holds => itable[fip[p]].valid
    /\ \A s \in Table!Slots :
         itable[s].ref > 0 /\ itable[s].valid => itable[s].nlink = nlink[itable[s].inum]

(* What has a name, is open or is in the hands of a call is allocated.     *)
UseInv ==
    /\ \A f \in Table!FileIds : ftable[f].ref > 0 => type[itable[ftable[f].ip].inum]
    /\ \A p \in Procs : fpc[p] \in HasInode \ WrittenOff => type[Table!Inum(p)]
    /\ \A n \in FileNames : dir[n] # None => type[dir[n]]

(* Who frees an inode is alone with it, until it is free on disk.          *)
FreeInv ==
    /\ \A p \in Procs : fpc[p] \in {"put_free", "put_invalid"} => Table!Nlink(p) = 0
    /\ \A p \in Procs : fpc[p] = "put_free" => itable[fip[p]].ref = 1
    /\ \A s \in Table!Slots : itable[s].ref > 0 /\ itable[s].valid /\ ~type[itable[s].inum] =>
         \E p \in Procs : fpc[p] = "put_invalid" /\ fip[p] = s

(* A new inode has no name, and no link is on its way to it.               *)
NewInv ==
    \A p \in Procs : fpc[p] \in {"create_lock", "create_link"} =>
        /\ nlink[Table!Inum(p)] = 0 /\ dir[name[p]] = None
        /\ \A q \in Procs : fip[q] = fip[p] => fpc[q] \notin {"link_lock", "link_inc"}

NameInv ==
    \A p \in Procs : fpc[p] \in {"unlink_lock", "unlink_entry"} =>
        dir[name[p]] = Table!Inum(p)

FilesInv ==
    /\ TableTypes /\ TableLockInv /\ TableInv /\ UseInv /\ FreeInv /\ NewInv /\ NameInv
    /\ Table!RefsCounted /\ Table!LinksCounted
-------------------------------------------------------------------------------
(* Counting: what a step that concerns one element does to the size of a   *)
(* set, and what sizes 0 and 1 say.                                        *)
LEMMA OneDiffers ==
    ASSUME NEW S, IsFiniteSet(S), NEW A \in SUBSET S, NEW B \in SUBSET S, NEW x \in S,
           \A y \in S : y # x => (y \in A <=> y \in B)
    PROVE  /\ Cardinality(A) \in Nat /\ Cardinality(B) \in Nat
           /\ (x \in A <=> x \in B) => Cardinality(B) = Cardinality(A)
           /\ x \in A /\ x \notin B => Cardinality(B) = Cardinality(A) - 1
           /\ x \notin A /\ x \in B => Cardinality(B) = Cardinality(A) + 1
<1>1. IsFiniteSet(A) /\ IsFiniteSet(B) BY FS_Subset
<1>2. Cardinality(A) \in Nat /\ Cardinality(B) \in Nat BY <1>1, FS_CardinalityType
<1>3. CASE x \in A <=> x \in B
  <2>1. A = B BY <1>3
  <2>. QED BY <2>1, <1>2, <1>3
<1>4. CASE x \in A /\ x \notin B
  <2>1. B = A \ {x} BY <1>4
  <2>2. Cardinality(A \ {x}) = Cardinality(A) - 1 BY <1>1, <1>4, FS_RemoveElement
  <2>. QED BY <2>1, <2>2, <1>2, <1>4
<1>5. CASE x \notin A /\ x \in B
  <2>1. B = A \cup {x} BY <1>5
  <2>2. Cardinality(A \cup {x}) = Cardinality(A) + 1 BY <1>1, <1>5, FS_AddElement
  <2>. QED BY <2>1, <2>2, <1>2, <1>5
<1>. QED BY <1>3, <1>4, <1>5

LEMMA SmallSets ==
    ASSUME NEW S, IsFiniteSet(S), NEW A \in SUBSET S
    PROVE  /\ Cardinality(A) \in Nat
           /\ Cardinality(A) = 0 <=> A = {}
           /\ Cardinality(A) = 1 => \A x, y \in A : x = y
<1>1. IsFiniteSet(A) BY FS_Subset
<1>2. Cardinality(A) \in Nat BY <1>1, FS_CardinalityType
<1>3. Cardinality(A) = 0 <=> A = {} BY <1>1, FS_EmptySet
<1>4. ASSUME Cardinality(A) = 1, NEW x \in A, NEW y \in A PROVE x = y
  <2>1. IsFiniteSet(A \ {x}) /\ Cardinality(A \ {x}) = Cardinality(A) - 1
    BY <1>1, <1>4, FS_RemoveElement
  <2>2. Cardinality(A \ {x}) = 0 BY <2>1, <1>4
  <2>3. A \ {x} = {} BY <2>1, <2>2, FS_EmptySet
  <2>. QED BY <2>3
<1>. QED BY <1>2, <1>3, <1>4

-------------------------------------------------------------------------------
(* What is counted.                                                        *)
Descriptors(f) == {x \in Procs \X Table!Fds : ofile[x[1]][x[2]] = f}
Openings(s) == {f \in Table!FileIds : ftable[f].ref > 0 /\ ftable[f].ip = s}
Callers(s) == {p \in Procs : fip[p] = s}
Changers(i) == {p \in Procs : fpc[p] \in Between /\ Table!Inum(p) = i}
NamesOf(i) == {n \in FileNames : dir[n] = i}

LEMMA Refs ==
    Table!RefsCounted <=>
            /\ \A f \in Table!FileIds : ftable[f].ref = Cardinality(Descriptors(f))
            /\ \A s \in Table!Slots :
                 itable[s].ref = Cardinality(Openings(s)) + Cardinality(Callers(s))
BY SameSizes DEF Table!RefsCounted, Descriptors, Openings, Callers

LEMMA Links ==
    Table!LinksCounted <=>
            \A i \in Table!Inums : type[i] =>
              nlink[i] = Cardinality(NamesOf(i)) + Cardinality(Changers(i))
BY SameSizes
  DEF Table!LinksCounted, Table!Linked, Table!Ahead, NamesOf, Changers, Between

LEMMA AllFinite ==
    ASSUME Table!FilesConstants
    PROVE  /\ IsFiniteSet(Procs) /\ IsFiniteSet(FileNames)
           /\ IsFiniteSet(Table!FileIds) /\ IsFiniteSet(Table!Fds) /\ IsFiniteSet(Table!Slots)
           /\ IsFiniteSet(Table!Inums) /\ IsFiniteSet(Procs \X Table!Fds)
           /\ None \notin Procs /\ None \notin FileNames
           /\ None \notin Table!Inums /\ None \notin Table!Slots /\ None \notin Table!FileIds
<1>1. IsFiniteSet(Procs) /\ IsFiniteSet(FileNames) BY SameSizes DEF Table!FilesConstants
<1>2. NINODES \in Int /\ NINODE \in Int /\ NFILE \in Int /\ NOFILE \in Int /\ 1 \in Int
  BY DEF Table!FilesConstants
<1>3. IsFiniteSet(Table!FileIds) BY <1>2, FS_Interval DEF Table!FileIds
<1>4. IsFiniteSet(Table!Fds) BY <1>2, FS_Interval DEF Table!Fds
<1>5. IsFiniteSet(Table!Slots) BY <1>2, FS_Interval DEF Table!Slots
<1>6. IsFiniteSet(Table!Inums) BY <1>2, FS_Interval DEF Table!Inums
<1>7. IsFiniteSet(Procs \X Table!Fds) BY <1>1, <1>4, FS_Product
<1>. QED
  BY <1>1, <1>3, <1>4, <1>5, <1>6, <1>7
    DEF Table!FilesConstants, Table!Inums, Table!Slots, Table!FileIds

(* Who refers to what: a file or an entry with references is referred to,  *)
(* what is referred to has references, and with one there is no other.     *)
LEMMA WhoRefers ==
    ASSUME Table!FilesConstants, TableTypes, Table!RefsCounted
    PROVE  /\ Holds \subseteq HasInode /\ Between \subseteq HasInode
           /\ \A p \in Procs, d \in Table!Fds : ofile[p][d] # None =>
               ftable[ofile[p][d]].ref > 0
           /\ \A p \in Procs : fpc[p] \in HasInode =>
                fip[p] \in Table!Slots /\ itable[fip[p]].ref > 0 /\ Table!Inum(p) \in Table!Inums
           /\ \A f \in Table!FileIds : ftable[f].ref > 0 =>
                /\ ftable[f].ip \in Table!Slots /\ itable[ftable[f].ip].ref > 0
                /\ itable[ftable[f].ip].inum \in Table!Inums
           /\ \A s \in Table!Slots : itable[s].ref > 0 =>
                \/ \E p \in Procs : fip[p] = s
                \/ \E f \in Table!FileIds : ftable[f].ref > 0 /\ ftable[f].ip = s
           /\ \A p, q \in Procs : fpc[p] \in HasInode /\ itable[fip[p]].ref = 1 =>
                /\ fip[q] = fip[p] => q = p
                /\ \A f \in Table!FileIds : ftable[f].ref > 0 => ftable[f].ip # fip[p]
<1>1. /\ IsFiniteSet(Procs) /\ IsFiniteSet(Table!FileIds) /\ IsFiniteSet(Procs \X Table!Fds)
      /\ None \notin Table!Slots
  BY AllFinite
<1>2. \A f \in Table!FileIds : /\ Cardinality(Descriptors(f)) \in Nat
                               /\ Cardinality(Descriptors(f)) = 0 <=> Descriptors(f) = {}
  <2>1. \A f \in Table!FileIds : Descriptors(f) \in SUBSET (Procs \X Table!Fds)
    BY DEF Descriptors
  <2>. QED BY <2>1, <1>1, SmallSets
<1>3. \A s \in Table!Slots : /\ Cardinality(Openings(s)) \in Nat /\ Cardinality(Callers(s)) \in Nat
                             /\ Cardinality(Openings(s)) = 0 <=> Openings(s) = {}
                             /\ Cardinality(Callers(s)) = 0 <=> Callers(s) = {}
                             /\ Cardinality(Callers(s)) = 1 => \A p, q \in Callers(s) : p = q
  <2>1. \A s \in Table!Slots :
        Openings(s) \in SUBSET Table!FileIds /\ Callers(s) \in SUBSET Procs
    BY DEF Openings, Callers
  <2>. QED BY <2>1, <1>1, SmallSets
<1>4. /\ \A f \in Table!FileIds : ftable[f].ref = Cardinality(Descriptors(f))
      /\ \A s \in Table!Slots :
          itable[s].ref = Cardinality(Openings(s)) + Cardinality(Callers(s))
  BY Refs
<1>5. ASSUME NEW p \in Procs, NEW d \in Table!Fds, ofile[p][d] # None
      PROVE  ftable[ofile[p][d]].ref > 0
  <2>1. ofile[p][d] \in Table!FileIds BY <1>5 DEF TableTypes
  <2>2. <<p, d>> \in Descriptors(ofile[p][d]) BY DEF Descriptors
  <2>. QED BY <2>1, <2>2, <1>2, <1>4
<1>6. ASSUME NEW p \in Procs, fpc[p] \in HasInode
      PROVE  fip[p] \in Table!Slots /\ itable[fip[p]].ref > 0 /\ Table!Inum(p) \in Table!Inums
  <2>1. fip[p] \in Table!Slots BY <1>6 DEF TableTypes
  <2>2. p \in Callers(fip[p]) BY DEF Callers
  <2>3. itable[fip[p]].ref > 0 BY <2>1, <2>2, <1>3, <1>4
  <2>. QED BY <2>1, <2>3 DEF TableTypes, Table!Inum
<1>7. ASSUME NEW f \in Table!FileIds, ftable[f].ref > 0
      PROVE  /\ ftable[f].ip \in Table!Slots /\ itable[ftable[f].ip].ref > 0
             /\ itable[ftable[f].ip].inum \in Table!Inums
  <2>1. ftable[f].ip \in Table!Slots BY <1>7 DEF TableTypes
  <2>2. f \in Openings(ftable[f].ip) BY <1>7 DEF Openings
  <2>3. itable[ftable[f].ip].ref > 0 BY <2>1, <2>2, <1>3, <1>4
  <2>. QED BY <2>1, <2>3 DEF TableTypes
<1>8. ASSUME NEW s \in Table!Slots, itable[s].ref > 0
      PROVE  \/ \E p \in Procs : fip[p] = s
             \/ \E f \in Table!FileIds : ftable[f].ref > 0 /\ ftable[f].ip = s
  <2>1. Openings(s) # {} \/ Callers(s) # {} BY <1>3, <1>4, <1>8
  <2>. QED BY <2>1 DEF Openings, Callers
<1>9. ASSUME NEW p \in Procs, NEW q \in Procs, fpc[p] \in HasInode, itable[fip[p]].ref = 1
      PROVE  /\ fip[q] = fip[p] => q = p
             /\ \A f \in Table!FileIds : ftable[f].ref > 0 => ftable[f].ip # fip[p]
  <2>1. fip[p] \in Table!Slots BY <1>6, <1>9
  <2>2. p \in Callers(fip[p]) /\ Callers(fip[p]) # {} BY DEF Callers
  <2>3. Cardinality(Callers(fip[p])) = 1 /\ Cardinality(Openings(fip[p])) = 0
    BY <2>1, <2>2, <1>3, <1>4, <1>9
  <2>4. Openings(fip[p]) = {} BY <2>1, <2>3, <1>3
  <2>5. \A r \in Callers(fip[p]) : r = p BY <2>1, <2>2, <2>3, <1>3
  <2>. QED BY <2>4, <2>5 DEF Openings, Callers
<1>. QED BY <1>5, <1>6, <1>7, <1>8, <1>9 DEF Holds, Between, HasInode
-------------------------------------------------------------------------------
(* Steps that leave the directory, the disk and the counted sets alone.    *)
LEMMA LinksFrame ==
    ASSUME Table!LinksCounted, UNCHANGED Table!disk,
           \A q \in Procs : fpc'[q] \in Between <=> fpc[q] \in Between,
           \A q \in Procs : fpc[q] \in Between => Table!Inum(q)' = Table!Inum(q)
    PROVE  Table!LinksCounted'
<1>1. \A i \in Table!Inums : Changers(i)' = Changers(i) BY DEF Changers
<1>2. \A i \in Table!Inums : NamesOf(i)' = NamesOf(i) BY DEF NamesOf, Table!disk
<1>. QED
  BY <1>1, <1>2
    DEF Table!LinksCounted, Table!Linked, Table!Ahead, NamesOf, Changers, Between,
        Table!disk

LEMMA RefsFrame ==
    ASSUME Table!RefsCounted, UNCHANGED <<ofile, ftable, fip>>,
           \A s \in Table!Slots : itable'[s].ref = itable[s].ref
    PROVE  Table!RefsCounted'
BY DEF Table!RefsCounted

(* ilock(): the inode that is locked is allocated.                         *)
LEMMA LockStep ==
    ASSUME Table!FilesConstants, FilesInv, NEW p \in Procs, NEW l,
           <<fpc[p], l>> \in {<<"open_lock", "open_file">>, <<"create_lock", "create_link">>,
             <<"link_lock", "link_inc">>, <<"link_bad", "link_dec">>,
             <<"unlink_lock", "unlink_entry">>},
           Table!ilock(p, l), UNCHANGED <<Table!disk, dirowner, ftable, ofile, fip, name>>
    PROVE  FilesInv'
<1>. USE DEF FilesInv
<1>1. /\ fip[p] \in Table!Slots /\ itable[fip[p]].ref > 0 /\ Table!Inum(p) \in Table!Inums /\ type[Table!Inum(p)]
      /\ fpc[p] \in HasInode /\ fpc[p] \notin Holds /\ l \in HasInode /\ l \in Holds
      /\ l \notin WrittenOff
  BY WhoRefers DEF UseInv, HasInode, Holds, WrittenOff
<1>2. /\ \A q \in Procs : q # p => fpc'[q] = fpc[q]
      /\ fpc' = [fpc EXCEPT ![p] = l] /\ fpc'[p] = l
  BY <1>1 DEF Table!ilock, Table!Goto, TableTypes
<1>3. /\ iowner[fip[p]] = None /\ iowner' = [iowner EXCEPT ![fip[p]] = p]
  BY DEF Table!ilock
<1>4. /\ itable' \in [Table!Slots -> Entries]
      /\ \A s \in Table!Slots : /\ itable'[s].inum = itable[s].inum /\ itable'[s].ref = itable[s].ref
                                /\ s # fip[p] => itable'[s] = itable[s]
                                /\ itable[s].valid => itable'[s] = itable[s]
      /\ itable'[fip[p]].valid /\ itable'[fip[p]].nlink = nlink[Table!Inum(p)]
  <2>. DEFINE e == itable[fip[p]]
              e2 == [e EXCEPT !.valid = TRUE, !.nlink = nlink[Table!Inum(p)]]
  <2>1. e \in Entries /\ nlink[Table!Inum(p)] \in Nat BY <1>1 DEF TableTypes
  <2>2. /\ e2 \in Entries /\ e2.inum = e.inum /\ e2.ref = e.ref /\ e2.valid
        /\ e2.nlink = nlink[Table!Inum(p)]
    BY <2>1 DEF Entries
  <2>3. itable' = [itable EXCEPT ![fip[p]] = IF e.valid THEN e ELSE e2]
    BY DEF Table!ilock
  <2>4. e.valid => e.nlink = nlink[Table!Inum(p)] BY <1>1 DEF TableInv, Table!Inum
  <2>. HIDE DEF e2
  <2>. QED BY <2>1, <2>2, <2>3, <2>4, <1>1 DEF TableTypes
<1>5. TableTypes'
  <2>1. fpc' \in [Procs -> HasInode \cup {"idle", "create", "unlink", "panic"}]
    BY <1>1, <1>2 DEF TableTypes
  <2>2. iowner' \in [Table!Slots -> Procs \cup {None}] BY <1>1, <1>3 DEF TableTypes
  <2>3. \A q \in Procs : fip'[q] # None <=> fpc'[q] \in HasInode
    BY <1>1, <1>2 DEF TableTypes
  <2>4. \A q \in Procs : fpc'[q] \in HasName => name'[q] \in FileNames
    BY <1>2 DEF TableTypes, HasName
  <2>. QED BY <2>1, <2>2, <2>3, <2>4, <1>4 DEF TableTypes, Table!disk
<1>6. TableLockInv'
  <2>1. ASSUME NEW q \in Procs, fpc'[q] \in Holds PROVE iowner'[fip'[q]] = q
    <3>1. CASE q = p BY <3>1, <1>1, <1>3 DEF TableTypes
    <3>2. CASE q # p
      <4>1. fpc[q] \in Holds /\ fip[q] \in Table!Slots BY <3>2, <2>1, <1>2, WhoRefers
      <4>2. iowner[fip[q]] = q /\ q # None BY <4>1, AllFinite DEF TableLockInv
      <4>. QED BY <4>1, <4>2, <1>3 DEF TableTypes
    <3>. QED BY <3>1, <3>2
  <2>2. \A s \in Table!Slots : iowner'[s] # None =>
        fip'[iowner'[s]] = s /\ fpc'[iowner'[s]] \in Holds
    BY <1>1, <1>2, <1>3 DEF TableLockInv, TableTypes
  <2>3. \A q \in Procs : fpc'[q] \in HoldsDir => dirowner' = q
    BY <1>2 DEF TableLockInv, HoldsDir
  <2>. QED BY <2>1, <2>2, <2>3 DEF TableLockInv
<1>7. TableInv'
  <2>1. ASSUME NEW q \in Procs, fpc'[q] \in Holds PROVE itable'[fip'[q]].valid
    <3>1. CASE q = p BY <3>1, <1>4
    <3>2. CASE q # p
      <4>1. fpc[q] \in Holds /\ fip[q] \in Table!Slots BY <3>2, <2>1, <1>2, WhoRefers
      <4>. QED BY <4>1, <1>4 DEF TableInv
    <3>. QED BY <3>1, <3>2
  <2>2. \A s \in Table!Slots : itable'[s].ref > 0 /\ itable'[s].valid
                                 => itable'[s].nlink = nlink'[itable'[s].inum]
    BY <1>4 DEF TableInv, Table!disk, Table!Inum
  <2>. QED BY <2>1, <2>2, <1>4 DEF TableInv
<1>8. Table!RefsCounted' BY <1>4, RefsFrame
<1>9. \A q \in Procs : fpc[q] \in HasInode => Table!Inum(q)' = Table!Inum(q)
  BY <1>4, WhoRefers DEF Table!Inum
<1>10. UseInv'
  <2>1. \A q \in Procs : fpc'[q] \in HasInode \ WrittenOff => type'[Table!Inum(q)']
    BY <1>1, <1>2, <1>9 DEF UseInv, Table!disk
  <2>2. \A f \in Table!FileIds : ftable'[f].ref > 0 => type'[itable'[ftable'[f].ip].inum]
    BY <1>4, WhoRefers DEF UseInv, Table!disk
  <2>. QED BY <2>1, <2>2 DEF UseInv, Table!disk, Table!Inum
<1>11. FreeInv'
  <2>1. ASSUME NEW q \in Procs, fpc'[q] \in {"put_free", "put_invalid"}
        PROVE  Table!Nlink(q)' = 0 /\ (fpc'[q] = "put_free" => itable'[fip'[q]].ref = 1)
    <3>1. q # p /\ fpc[q] \in HasInode /\ fpc[q] \in Holds
      BY <1>1, <1>2, <2>1 DEF HasInode, Holds
    <3>2. fip[q] \in Table!Slots /\ itable[fip[q]].valid BY <3>1, WhoRefers DEF TableInv
    <3>. QED BY <3>1, <3>2, <2>1, <1>2, <1>4 DEF FreeInv, Table!Nlink
  <2>2. ASSUME NEW s \in Table!Slots, itable'[s].ref > 0, itable'[s].valid,
               ~type'[itable'[s].inum]
        PROVE  \E q \in Procs : fpc'[q] = "put_invalid" /\ fip'[q] = s
    <3>1. s # fip[p] BY <2>2, <1>1, <1>4 DEF Table!disk, Table!Inum
    <3>2. itable[s].ref > 0 /\ itable[s].valid /\ ~type[itable[s].inum]
      BY <3>1, <2>2, <1>4 DEF Table!disk
    <3>3. PICK q \in Procs : fpc[q] = "put_invalid" /\ fip[q] = s BY <3>2 DEF FreeInv
    <3>. QED BY <3>1, <3>3, <1>2
  <2>. QED BY <2>1, <2>2 DEF FreeInv
<1>12. NewInv'
  <2>1. ASSUME NEW q \in Procs, fpc'[q] \in {"create_lock", "create_link"}
        PROVE  /\ nlink'[Table!Inum(q)'] = 0 /\ dir'[name'[q]] = None
               /\ \A r \in Procs : fip'[r] = fip'[q] =>
                   fpc'[r] \notin {"link_lock", "link_inc"}
    <3>1. fpc[q] \in {"create_lock", "create_link"} BY <2>1, <1>2
    <3>2. fpc[q] \in HasInode BY <3>1 DEF HasInode
    <3>3. \A r \in Procs : fpc'[r] \in {"link_lock", "link_inc"} =>
          fpc[r] \in {"link_lock", "link_inc"}
      BY <1>2
    <3>. QED BY <3>1, <3>2, <3>3, <1>9 DEF NewInv, Table!disk
  <2>. QED BY <2>1 DEF NewInv
<1>13. NameInv'
  <2>1. ASSUME NEW q \in Procs, fpc'[q] \in {"unlink_lock", "unlink_entry"}
        PROVE  dir'[name'[q]] = Table!Inum(q)'
    <3>1. fpc[q] \in {"unlink_lock", "unlink_entry"} BY <2>1, <1>2
    <3>2. fpc[q] \in HasInode BY <3>1 DEF HasInode
    <3>. QED BY <3>1, <3>2, <1>9 DEF NameInv, Table!disk
  <2>. QED BY <2>1 DEF NameInv
<1>14. Table!LinksCounted'
  <2>1. \A q \in Procs : fpc'[q] \in Between <=> fpc[q] \in Between BY <1>2 DEF Between
  <2>2. \A q \in Procs : fpc[q] \in Between => Table!Inum(q)' = Table!Inum(q)
    BY <1>9 DEF Between, HasInode
  <2>. QED BY <2>1, <2>2, LinksFrame
<1>. QED BY <1>5, <1>6, <1>7, <1>8, <1>10, <1>11, <1>12, <1>13, <1>14

(* The beginning of create() and of unlink(), and the end where there is   *)
(* no inode: the lock of the directory is taken or let go.                 *)
LEMMA DirStep ==
    ASSUME Table!FilesConstants, FilesInv, NEW p \in Procs,
           NEW l \in {"idle", "create", "unlink"},
           fpc[p] \in {"idle", "create", "unlink"}, fpc' = [fpc EXCEPT ![p] = l],
           UNCHANGED <<Table!disk, itable, iowner, ftable, ofile, fip>>,
           name' \in [Procs -> FileNames \cup {None}],
           \A q \in Procs : q # p => name'[q] = name[q],
           dirowner \in {None, p}, dirowner' \in {None, p},
           l # "idle" => name'[p] \in FileNames /\ dirowner' = p
    PROVE  FilesInv'
<1>. USE DEF FilesInv
<1>1. /\ \A q \in Procs : q # p => fpc'[q] = fpc[q]
      /\ fpc'[p] = l /\ fpc' \in [Procs -> HasInode \cup {"idle", "create", "unlink", "panic"}]
  BY DEF TableTypes
<1>2. /\ fpc[p] \notin HasInode /\ l \notin HasInode
      /\ Holds \subseteq HasInode /\ Between \subseteq HasInode
  BY WhoRefers DEF HasInode
<1>3. \A q \in Procs : fpc'[q] \in HasInode \/ fpc[q] \in HasInode =>
      fpc'[q] = fpc[q] /\ q # p
  BY <1>1, <1>2
<1>4. TableTypes'
  <2>1. \A q \in Procs : fip'[q] # None <=> fpc'[q] \in HasInode
    BY <1>1, <1>2 DEF TableTypes
  <2>2. \A q \in Procs : fpc'[q] \in HasName => name'[q] \in FileNames
    BY <1>1 DEF TableTypes, HasName
  <2>3. dirowner' \in Procs \cup {None} OBVIOUS
  <2>. QED BY <2>1, <2>2, <2>3, <1>1 DEF TableTypes, Table!disk
<1>5. TableLockInv'
  <2>1. \A q \in Procs : fpc'[q] \in HoldsDir => dirowner' = q
    BY <1>1, AllFinite DEF TableLockInv, HoldsDir
  <2>2. \A s \in Table!Slots : iowner'[s] # None =>
        fip'[iowner'[s]] = s /\ fpc'[iowner'[s]] \in Holds
    BY <1>2, <1>3 DEF TableLockInv, TableTypes
  <2>3. \A q \in Procs : fpc'[q] \in Holds => iowner'[fip'[q]] = q
    BY <1>2, <1>3 DEF TableLockInv
  <2>. QED BY <2>1, <2>2, <2>3 DEF TableLockInv
<1>6. TableInv' BY <1>2, <1>3 DEF TableInv, Table!disk
<1>7. Table!RefsCounted' BY RefsFrame
<1>8. UseInv' BY <1>3 DEF UseInv, Table!disk, Table!Inum
<1>9. FreeInv'
  <2>1. {"put_free", "put_invalid"} \subseteq HasInode BY DEF HasInode
  <2>. QED BY <2>1, <1>3 DEF FreeInv, Table!disk, Table!Nlink
<1>10. NewInv'
  <2>1. {"create_lock", "create_link", "link_lock", "link_inc"} \subseteq HasInode
    BY DEF HasInode
  <2>. QED BY <2>1, <1>3 DEF NewInv, Table!disk, Table!Inum
<1>11. NameInv'
  <2>1. {"unlink_lock", "unlink_entry"} \subseteq HasInode BY DEF HasInode
  <2>. QED BY <2>1, <1>3 DEF NameInv, Table!disk, Table!Inum
<1>12. Table!LinksCounted'
  <2>1. \A q \in Procs : fpc'[q] \in Between <=> fpc[q] \in Between BY <1>2, <1>3
  <2>. QED BY <2>1, LinksFrame DEF Table!Inum
<1>. QED BY <1>4, <1>5, <1>6, <1>7, <1>8, <1>9, <1>10, <1>11, <1>12

(* A name, or a call between its two changes, is counted in nlink.         *)
LEMMA Counts ==
    ASSUME Table!FilesConstants, FilesInv, NEW i \in Table!Inums, type[i]
    PROVE  /\ \A n \in FileNames : dir[n] = i => nlink[i] > 0
           /\ \A p \in Procs : fpc[p] \in Between /\ Table!Inum(p) = i => nlink[i] > 0
<1>. DEFINE N == NamesOf(i)
            C == Changers(i)
<1>1. N \in SUBSET FileNames /\ C \in SUBSET Procs BY DEF NamesOf, Changers
<1>2. /\ Cardinality(N) \in Nat /\ Cardinality(C) \in Nat
      /\ N # {} => Cardinality(N) # 0
      /\ C # {} => Cardinality(C) # 0
  <2>. HIDE DEF N, C
  <2>. QED BY <1>1, AllFinite, SmallSets
<1>3. nlink[i] = Cardinality(N) + Cardinality(C) BY Links DEF FilesInv
<1>4. (\E n \in FileNames : dir[n] = i) => N # {} BY DEF NamesOf
<1>5. (\E p \in Procs : fpc[p] \in Between /\ Table!Inum(p) = i) => C # {}
  BY DEF Changers
<1>. HIDE DEF N, C
<1>. QED BY <1>2, <1>3, <1>4, <1>5

(* A link count is changed, on disk and in the table, under the lock of    *)
(* the inode; create() also enters it in the directory.                    *)
LEMMA CountStep ==
    ASSUME Table!FilesConstants, FilesInv, NEW p \in Procs, NEW k \in Nat,
           NEW l \in {"open_file", "put", "link_dir"},
           fpc[p] \in {"create_link", "link_inc", "link_dec", "unlink_dec"},
           l = "link_dir" => name[p] \in FileNames,
           Table!SetNlink(p, k), fpc' = [fpc EXCEPT ![p] = l],
           iowner' = IF l = "open_file" THEN iowner ELSE [iowner EXCEPT ![fip[p]] = None],
           dirowner' \in Procs \cup {None},
           \A q \in Procs : q # p /\ dirowner = q => dirowner' = q,
           dir' \in [FileNames -> Table!Inums \cup {None}],
           \A n \in FileNames :
               dir'[n] = dir[n] \/ (fpc[p] = "create_link" /\ dir'[n] = Table!Inum(p)),
           Table!LinksCounted', UNCHANGED <<type, ftable, ofile, fip, name>>
    PROVE  FilesInv'
<1>. USE DEF FilesInv
<1>1. /\ fip[p] \in Table!Slots /\ itable[fip[p]].ref > 0 /\ Table!Inum(p) \in Table!Inums /\ type[Table!Inum(p)]
      /\ fpc[p] \in HasInode /\ fpc[p] \in Holds /\ l \in HasInode /\ l \notin HoldsDir
      /\ iowner[fip[p]] = p /\ itable[fip[p]].valid
      /\ l \in Holds <=> l = "open_file"
      /\ Holds \subseteq HasInode /\ p # None
  BY WhoRefers, AllFinite
  DEF UseInv, TableLockInv, TableInv, HasInode, Holds, HoldsDir, WrittenOff
<1>2. /\ \A q \in Procs : q # p => fpc'[q] = fpc[q]
      /\ fpc'[p] = l /\ fpc' \in [Procs -> HasInode \cup {"idle", "create", "unlink", "panic"}]
  BY <1>1 DEF TableTypes
<1>3. /\ itable' \in [Table!Slots -> Entries]
      /\ \A s \in Table!Slots : /\ itable'[s].inum = itable[s].inum /\ itable'[s].ref = itable[s].ref
                                /\ itable'[s].valid = itable[s].valid
                                /\ s # fip[p] => itable'[s] = itable[s]
      /\ itable'[fip[p]].nlink = k
      /\ nlink' \in [Table!Inums -> Nat] /\ nlink'[Table!Inum(p)] = k
      /\ \A i \in Table!Inums : i # Table!Inum(p) => nlink'[i] = nlink[i]
  <2>. DEFINE e == [itable[fip[p]] EXCEPT !.nlink = k]
  <2>1. itable[fip[p]] \in Entries BY <1>1 DEF TableTypes
  <2>2. /\ e \in Entries /\ e.inum = itable[fip[p]].inum /\ e.ref = itable[fip[p]].ref
        /\ e.valid = itable[fip[p]].valid /\ e.nlink = k
    BY <2>1 DEF Entries
  <2>3. itable' = [itable EXCEPT ![fip[p]] = e] BY DEF Table!SetNlink
  <2>4. nlink' = [nlink EXCEPT ![Table!Inum(p)] = k] BY DEF Table!SetNlink
  <2>. HIDE DEF e
  <2>. QED BY <2>2, <2>3, <2>4, <1>1 DEF TableTypes
<1>4. \A q \in Procs : fpc[q] \in HasInode =>
        /\ Table!Inum(q)' = Table!Inum(q) /\ fip[q] \in Table!Slots /\ Table!Inum(q) \in Table!Inums
        /\ Table!Inum(q) = Table!Inum(p) => fip[q] = fip[p]
  BY <1>1, <1>3, WhoRefers DEF Table!Inum, TableInv
<1>5. \A q \in Procs : q # p /\ fpc[q] \in Holds => fip[q] # fip[p] /\ iowner'[fip[q]] = q
  BY <1>1, <1>4 DEF TableLockInv, TableTypes
<1>6. TableTypes'
  <2>1. \A q \in Procs : fip'[q] # None <=> fpc'[q] \in HasInode
    BY <1>1, <1>2 DEF TableTypes
  <2>2. \A q \in Procs : fpc'[q] \in HasName => name'[q] \in FileNames
    BY <1>2 DEF TableTypes, HasName
  <2>3. iowner' \in [Table!Slots -> Procs \cup {None}] BY DEF TableTypes
  <2>. QED BY <2>1, <2>2, <2>3, <1>2, <1>3 DEF TableTypes
<1>7. TableLockInv'
  <2>1. \A q \in Procs : fpc'[q] \in HoldsDir => dirowner' = q
    BY <1>1, <1>2 DEF TableLockInv
  <2>2. \A s \in Table!Slots : iowner'[s] # None =>
        fip'[iowner'[s]] = s /\ fpc'[iowner'[s]] \in Holds
    <3>1. ASSUME NEW s \in Table!Slots, iowner'[s] # None
          PROVE  fip'[iowner'[s]] = s /\ fpc'[iowner'[s]] \in Holds
      <4>1. iowner'[s] = iowner[s] /\ iowner[s] \in Procs /\ iowner[s] # None
        BY <3>1 DEF TableTypes
      <4>2. fip[iowner[s]] = s /\ fpc[iowner[s]] \in Holds BY <4>1 DEF TableLockInv
      <4>3. CASE iowner[s] = p
        <5>1. l = "open_file" BY <4>2, <4>3, <3>1, <1>1 DEF TableTypes
        <5>. QED BY <5>1, <4>1, <4>2, <4>3, <1>1, <1>2
      <4>4. CASE iowner[s] # p BY <4>1, <4>2, <4>4, <1>2
      <4>. QED BY <4>3, <4>4
    <3>. QED BY <3>1
  <2>3. \A q \in Procs : fpc'[q] \in Holds => iowner'[fip'[q]] = q BY <1>1, <1>2, <1>5
  <2>. QED BY <2>1, <2>2, <2>3 DEF TableLockInv
<1>8. TableInv'
  <2>1. \A q \in Procs : fpc'[q] \in Holds => itable'[fip'[q]].valid
    BY <1>1, <1>2, <1>3, <1>4 DEF TableInv
  <2>2. \A s \in Table!Slots : itable'[s].ref > 0 /\ itable'[s].valid
                                 => itable'[s].nlink = nlink'[itable'[s].inum]
    BY <1>1, <1>3 DEF TableInv, Table!Inum, TableTypes
  <2>. QED BY <2>1, <2>2, <1>3 DEF TableInv
<1>9. Table!RefsCounted' BY <1>3, RefsFrame
<1>10. UseInv'
  <2>1. \A q \in Procs : fpc'[q] \in HasInode \ WrittenOff => type'[Table!Inum(q)']
    BY <1>1, <1>2, <1>4 DEF UseInv
  <2>2. \A f \in Table!FileIds : ftable'[f].ref > 0 => type'[itable'[ftable'[f].ip].inum]
    BY <1>3, WhoRefers DEF UseInv
  <2>3. \A n \in FileNames : dir'[n] # None => type'[dir'[n]] BY <1>1 DEF UseInv
  <2>. QED BY <2>1, <2>2, <2>3 DEF UseInv, Table!Inum
<1>11. FreeInv'
  <2>1. ASSUME NEW q \in Procs, fpc'[q] \in {"put_free", "put_invalid"}
        PROVE  Table!Nlink(q)' = 0 /\ (fpc'[q] = "put_free" => itable'[fip'[q]].ref = 1)
    <3>1. q # p /\ fpc[q] \in Holds /\ fip[q] \in Table!Slots
      BY <1>1, <1>2, <1>4, <2>1 DEF Holds
    <3>. QED BY <3>1, <2>1, <1>2, <1>3, <1>5 DEF FreeInv, Table!Nlink
  <2>2. ASSUME NEW s \in Table!Slots, itable'[s].ref > 0, itable'[s].valid,
               ~type'[itable'[s].inum]
        PROVE  \E q \in Procs : fpc'[q] = "put_invalid" /\ fip'[q] = s
    <3>1. itable[s].ref > 0 /\ itable[s].valid /\ ~type[itable[s].inum] BY <2>2, <1>3
    <3>2. PICK q \in Procs : fpc[q] = "put_invalid" /\ fip[q] = s BY <3>1 DEF FreeInv
    <3>3. q # p BY <3>2
    <3>. QED BY <3>2, <3>3, <1>2
  <2>. QED BY <2>1, <2>2 DEF FreeInv
<1>12. ASSUME NEW q \in Procs, q # p, fpc[q] \in HoldsDir PROVE dir' = dir
  <2>1. fpc[p] # "create_link" BY <1>12 DEF TableLockInv, HoldsDir
  <2>. QED BY <2>1 DEF TableTypes
<1>13. NewInv'
  <2>1. ASSUME NEW q \in Procs, fpc'[q] \in {"create_lock", "create_link"}
        PROVE  /\ nlink'[Table!Inum(q)'] = 0 /\ dir'[name'[q]] = None
               /\ \A r \in Procs : fip'[r] = fip'[q] =>
                   fpc'[r] \notin {"link_lock", "link_inc"}
    <3>1. q # p /\ fpc[q] \in {"create_lock", "create_link"} BY <2>1, <1>2
    <3>2. fpc[q] \in HasInode /\ fpc[q] \in HoldsDir BY <3>1 DEF HasInode, HoldsDir
    <3>3. \A r \in Procs : fpc'[r] \in {"link_lock", "link_inc"} =>
          fpc[r] \in {"link_lock", "link_inc"}
      BY <1>2
    <3>4. fpc[p] # "create_link" BY <3>1, <3>2 DEF TableLockInv, HoldsDir
    <3>5. Table!Inum(q) # Table!Inum(p)
      <4>1. nlink[Table!Inum(q)] = 0 BY <3>1 DEF NewInv
      <4>2. CASE fpc[p] = "link_inc" BY <4>2, <3>1, <3>2, <1>4 DEF NewInv
      <4>3. CASE fpc[p] \in Between BY <4>1, <4>3, <1>1, Counts
      <4>. QED BY <4>2, <4>3, <3>4 DEF Between
    <3>. QED BY <3>1, <3>2, <3>3, <3>5, <1>3, <1>4, <1>12 DEF NewInv
  <2>. QED BY <2>1 DEF NewInv
<1>14. NameInv'
  <2>1. ASSUME NEW q \in Procs, fpc'[q] \in {"unlink_lock", "unlink_entry"}
        PROVE  dir'[name'[q]] = Table!Inum(q)'
    <3>1. q # p /\ fpc[q] \in {"unlink_lock", "unlink_entry"} BY <2>1, <1>2
    <3>2. fpc[q] \in HasInode /\ fpc[q] \in HoldsDir BY <3>1 DEF HasInode, HoldsDir
    <3>. QED BY <3>1, <3>2, <1>4, <1>12 DEF NameInv
  <2>. QED BY <2>1 DEF NameInv
<1>. QED BY <1>6, <1>7, <1>8, <1>9, <1>10, <1>11, <1>13, <1>14

(* An entry of the directory is made or removed, or could not be made.     *)
LEMMA EntryStep ==
    ASSUME Table!FilesConstants, FilesInv, NEW p \in Procs,
           NEW l \in {"put", "link_bad", "unlink_dec"},
           fpc[p] = IF l = "unlink_dec" THEN "unlink_entry" ELSE "link_dir",
           fpc' = [fpc EXCEPT ![p] = l],
           dirowner \in {None, p}, dirowner' \in {None, p},
           dir' \in [FileNames -> Table!Inums \cup {None}],
           \A n \in FileNames : dir'[n] \in {dir[n], None, Table!Inum(p)},
           Table!LinksCounted',
               UNCHANGED <<type, nlink, itable, iowner, ftable, ofile, fip, name>>
    PROVE  FilesInv'
<1>. USE DEF FilesInv
<1>1. /\ Table!Inum(p) \in Table!Inums /\ type[Table!Inum(p)] /\ fpc[p] \in HasInode /\ l \in HasInode
      /\ fpc[p] \in Holds <=> l \in Holds
      /\ l \notin HoldsDir /\ l \notin HasName /\ Holds \subseteq HasInode
  BY WhoRefers DEF UseInv, HasInode, Holds, HoldsDir, HasName, WrittenOff
<1>2. /\ \A q \in Procs : q # p => fpc'[q] = fpc[q]
      /\ fpc'[p] = l /\ fpc' \in [Procs -> HasInode \cup {"idle", "create", "unlink", "panic"}]
  BY <1>1 DEF TableTypes
<1>3. TableTypes'
  <2>1. \A q \in Procs : fip'[q] # None <=> fpc'[q] \in HasInode
    BY <1>1, <1>2 DEF TableTypes
  <2>2. \A q \in Procs : fpc'[q] \in HasName => name'[q] \in FileNames
    BY <1>1, <1>2 DEF TableTypes
  <2>. QED BY <2>1, <2>2, <1>2 DEF TableTypes
<1>4. TableLockInv'
  <2>1. \A q \in Procs : fpc'[q] \in HoldsDir => dirowner' = q
    BY <1>1, <1>2, AllFinite DEF TableLockInv
  <2>2. \A q \in Procs : fpc'[q] \in Holds <=> fpc[q] \in Holds BY <1>1, <1>2
  <2>. QED BY <2>1, <2>2 DEF TableLockInv, TableTypes
<1>5. TableInv'
  <2>1. \A q \in Procs : fpc'[q] \in Holds => fpc[q] \in Holds BY <1>1, <1>2
  <2>. QED BY <2>1 DEF TableInv
<1>6. Table!RefsCounted' BY RefsFrame
<1>7. UseInv'
  <2>1. \A q \in Procs : fpc'[q] \in HasInode \ WrittenOff => type'[Table!Inum(q)']
    BY <1>1, <1>2 DEF UseInv, Table!Inum
  <2>2. \A n \in FileNames : dir'[n] # None => type'[dir'[n]] BY <1>1 DEF UseInv
  <2>. QED BY <2>1, <2>2 DEF UseInv, Table!Inum
<1>8. FreeInv'
  <2>1. \A q \in Procs : fpc'[q] \in {"put_free", "put_invalid"} => fpc'[q] = fpc[q]
    BY <1>2
  <2>2. \A q \in Procs : fpc[q] = "put_invalid" => fpc'[q] = fpc[q] BY <1>2
  <2>. QED BY <2>1, <2>2 DEF FreeInv, Table!Nlink
<1>9. ASSUME NEW q \in Procs, q # p PROVE fpc[q] \notin HoldsDir
  BY <1>9, AllFinite DEF TableLockInv
<1>10. \A q \in Procs :
       fpc'[q] \notin {"create_lock", "create_link", "unlink_lock", "unlink_entry"}
  BY <1>2, <1>9 DEF HoldsDir
<1>11. NewInv' /\ NameInv' BY <1>10 DEF NewInv, NameInv
<1>. QED BY <1>3, <1>4, <1>5, <1>6, <1>7, <1>8, <1>11

(* iput() finds the last use of an inode without names: nobody else has it *)
(* or its sleeplock.                                                       *)
LEMMA LastStep ==
    ASSUME Table!FilesConstants, FilesInv, NEW p \in Procs, Table!iput_last(p)
    PROVE  FilesInv' /\ fpc'[p] # "panic"
<1>. USE DEF FilesInv
<1>1. /\ fpc[p] = "put" /\ fpc[p] \in HasInode /\ fpc[p] \notin Holds /\ Holds \subseteq HasInode
      /\ fip[p] \in Table!Slots /\ itable[fip[p]].ref = 1 /\ Table!Nlink(p) = 0 /\ itable[fip[p]].valid
      /\ type[Table!Inum(p)]
  BY WhoRefers DEF Table!iput_last, Table!LastUse, HasInode, Holds, UseInv, WrittenOff
<1>2. iowner[fip[p]] = None
  <2>1. SUFFICES ASSUME iowner[fip[p]] # None PROVE FALSE OBVIOUS
  <2>2. iowner[fip[p]] \in Procs BY <1>1, <2>1 DEF TableTypes
  <2>3. fip[iowner[fip[p]]] = fip[p] /\ fpc[iowner[fip[p]]] \in Holds
    BY <1>1, <2>1 DEF TableLockInv
  <2>. QED BY <1>1, <2>2, <2>3, WhoRefers
<1>3. /\ iowner' = [iowner EXCEPT ![fip[p]] = p] /\ fpc' = [fpc EXCEPT ![p] = "put_free"]
      /\ UNCHANGED <<dir, type, nlink, itable, dirowner, ftable, ofile, fip, name>>
  BY <1>2 DEF Table!iput_last, Table!Goto, Table!disk
<1>4. /\ \A q \in Procs : q # p => fpc'[q] = fpc[q]
      /\ fpc'[p] = "put_free"
      /\ fpc' \in [Procs -> HasInode \cup {"idle", "create", "unlink", "panic"}]
  BY <1>3 DEF TableTypes, HasInode
<1>5. TableTypes'
  <2>1. \A q \in Procs : fip'[q] # None <=> fpc'[q] \in HasInode
    BY <1>1, <1>3, <1>4 DEF TableTypes, HasInode
  <2>2. \A q \in Procs : fpc'[q] \in HasName => name'[q] \in FileNames
    BY <1>3, <1>4 DEF TableTypes, HasName
  <2>3. iowner' \in [Table!Slots -> Procs \cup {None}] BY <1>3 DEF TableTypes
  <2>. QED BY <2>1, <2>2, <2>3, <1>3, <1>4 DEF TableTypes
<1>6. TableLockInv'
  <2>1. ASSUME NEW q \in Procs, fpc'[q] \in Holds PROVE iowner'[fip'[q]] = q
    <3>1. CASE q = p BY <3>1, <1>1, <1>3 DEF TableTypes
    <3>2. CASE q # p
      <4>1. fpc[q] \in Holds /\ fip[q] \in Table!Slots BY <3>2, <2>1, <1>4, WhoRefers
      <4>2. iowner[fip[q]] = q /\ q # None BY <4>1, AllFinite DEF TableLockInv
      <4>. QED BY <4>1, <4>2, <1>2, <1>3 DEF TableTypes
    <3>. QED BY <3>1, <3>2
  <2>2. \A s \in Table!Slots : iowner'[s] # None =>
        fip'[iowner'[s]] = s /\ fpc'[iowner'[s]] \in Holds
    BY <1>1, <1>3, <1>4 DEF TableLockInv, TableTypes, Holds
  <2>3. \A q \in Procs : fpc'[q] \in HoldsDir => dirowner' = q
    BY <1>3, <1>4 DEF TableLockInv, HoldsDir
  <2>. QED BY <2>1, <2>2, <2>3 DEF TableLockInv
<1>7. TableInv' BY <1>1, <1>3, <1>4 DEF TableInv
<1>8. Table!RefsCounted' BY <1>3, RefsFrame
<1>9. UseInv'
  <2>1. \A q \in Procs : fpc'[q] \in HasInode \ WrittenOff => type'[Table!Inum(q)']
    BY <1>1, <1>3, <1>4 DEF UseInv, Table!Inum
  <2>. QED BY <2>1, <1>3 DEF UseInv
<1>10. FreeInv'
  <2>1. \A q \in Procs : fpc'[q] \in {"put_free", "put_invalid"} => Table!Nlink(q)' = 0
    BY <1>1, <1>3, <1>4 DEF FreeInv, Table!Nlink
  <2>2. \A q \in Procs : fpc[q] = "put_invalid" => fpc'[q] = fpc[q] BY <1>1, <1>4
  <2>3. \A q \in Procs : fpc'[q] = "put_free" => itable'[fip'[q]].ref = 1
    BY <1>1, <1>3, <1>4 DEF FreeInv
  <2>. QED BY <2>1, <2>2, <2>3, <1>3 DEF FreeInv
<1>11. \A q \in Procs : fpc'[q] \in {"create_lock", "create_link", "link_lock", "link_inc",
                                     "unlink_lock", "unlink_entry"} => fpc[q] = fpc'[q]
  BY <1>4
<1>12. NewInv' BY <1>3, <1>11 DEF NewInv, Table!Inum
<1>13. NameInv' BY <1>3, <1>11 DEF NameInv, Table!Inum
<1>14. Table!LinksCounted'
  <2>1. \A q \in Procs : fpc'[q] \in Between <=> fpc[q] \in Between
    BY <1>1, <1>4 DEF Between
  <2>. QED BY <2>1, <1>3, LinksFrame DEF Table!Inum, Table!disk
<1>. QED BY <1>4, <1>5, <1>6, <1>7, <1>8, <1>9, <1>10, <1>12, <1>13, <1>14

(* It is freed: no file, no other call and no name is left without it.     *)
LEMMA FreeStep ==
    ASSUME Table!FilesConstants, FilesInv, NEW p \in Procs, Table!iput_free(p)
    PROVE  FilesInv'
<1>. USE DEF FilesInv
<1>1. /\ fpc[p] = "put_free" /\ fpc[p] \in HasInode /\ fpc[p] \in Holds /\ Holds \subseteq HasInode
      /\ fip[p] \in Table!Slots /\ itable[fip[p]].ref = 1 /\ Table!Nlink(p) = 0 /\ itable[fip[p]].valid
      /\ Table!Inum(p) \in Table!Inums /\ type[Table!Inum(p)] /\ nlink[Table!Inum(p)] = 0
  <2>1. fpc[p] = "put_free" /\ fpc[p] \in HasInode /\ fpc[p] \in Holds /\ Holds \subseteq HasInode
    BY DEF Table!iput_free, HasInode, Holds
  <2>2. fip[p] \in Table!Slots /\ itable[fip[p]].ref = 1 /\ Table!Inum(p) \in Table!Inums /\ Table!Nlink(p) = 0
    BY <2>1, WhoRefers DEF FreeInv
  <2>3. itable[fip[p]].valid /\ nlink[Table!Inum(p)] = 0
    BY <2>1, <2>2 DEF TableInv, Table!Inum, Table!Nlink
  <2>. QED BY <2>1, <2>2, <2>3 DEF UseInv, WrittenOff
<1>2. /\ type' = [type EXCEPT ![Table!Inum(p)] = FALSE] /\ fpc' = [fpc EXCEPT ![p] = "put_invalid"]
      /\ UNCHANGED <<dir, nlink, itable, iowner, dirowner, ftable, ofile, fip, name>>
  BY DEF Table!iput_free, Table!Goto
<1>3. /\ \A q \in Procs : q # p => fpc'[q] = fpc[q]
      /\ fpc'[p] = "put_invalid"
      /\ fpc' \in [Procs -> HasInode \cup {"idle", "create", "unlink", "panic"}]
      /\ \A i \in Table!Inums : i # Table!Inum(p) => type'[i] = type[i]
      /\ type' \in [Table!Inums -> BOOLEAN]
  BY <1>2 DEF TableTypes, HasInode
<1>4. TableTypes'
  <2>1. \A q \in Procs : fip'[q] # None <=> fpc'[q] \in HasInode
    BY <1>1, <1>2, <1>3 DEF TableTypes, HasInode
  <2>2. \A q \in Procs : fpc'[q] \in HasName => name'[q] \in FileNames
    BY <1>2, <1>3 DEF TableTypes, HasName
  <2>. QED BY <2>1, <2>2, <1>2, <1>3 DEF TableTypes
<1>5. TableLockInv'
  <2>1. \A q \in Procs : fpc'[q] \in Holds <=> fpc[q] \in Holds BY <1>1, <1>3 DEF Holds
  <2>2. \A q \in Procs : fpc'[q] \in HoldsDir => fpc[q] \in HoldsDir
    BY <1>3 DEF HoldsDir
  <2>. QED BY <2>1, <2>2, <1>2 DEF TableLockInv, TableTypes
<1>6. TableInv' BY <1>1, <1>2, <1>3 DEF TableInv
<1>7. Table!RefsCounted' BY <1>2, RefsFrame
<1>8. UseInv'
  <2>1. ASSUME NEW q \in Procs, fpc'[q] \in HasInode \ WrittenOff PROVE type'[Table!Inum(q)']
    <3>1. q # p BY <2>1, <1>3 DEF WrittenOff
    <3>2. fpc[q] \in HasInode \ WrittenOff BY <2>1, <3>1, <1>3
    <3>3. fip[q] # fip[p] BY <1>1, <3>1, WhoRefers
    <3>4. fip[q] \in Table!Slots /\ itable[fip[q]].ref > 0 /\ Table!Inum(q) \in Table!Inums
      BY <3>2, WhoRefers
    <3>5. Table!Inum(q) # Table!Inum(p) BY <3>3, <3>4, <1>1 DEF TableInv, Table!Inum
    <3>. QED BY <3>2, <3>4, <3>5, <1>2, <1>3 DEF UseInv, Table!Inum
  <2>2. ASSUME NEW f \in Table!FileIds, ftable'[f].ref > 0
        PROVE  type'[itable'[ftable'[f].ip].inum]
    <3>1. ftable[f].ref > 0 BY <2>2, <1>2
    <3>2. /\ ftable[f].ip # fip[p] /\ ftable[f].ip \in Table!Slots
          /\ itable[ftable[f].ip].ref > 0 /\ itable[ftable[f].ip].inum \in Table!Inums
      BY <3>1, <1>1, WhoRefers
    <3>3. itable[ftable[f].ip].inum # Table!Inum(p)
      BY <3>2, <1>1 DEF TableInv, Table!Inum
    <3>. QED BY <3>1, <3>2, <3>3, <1>2, <1>3 DEF UseInv
  <2>3. ASSUME NEW n \in FileNames, dir'[n] # None PROVE type'[dir'[n]]
    <3>1. dir[n] \in Table!Inums /\ dir[n] # None BY <2>3, <1>2 DEF TableTypes
    <3>2. dir[n] # Table!Inum(p) BY <1>1, Counts
    <3>. QED BY <3>1, <3>2, <1>2, <1>3 DEF UseInv
  <2>. QED BY <2>1, <2>2, <2>3 DEF UseInv
<1>9. FreeInv'
  <2>1. ASSUME NEW q \in Procs, fpc'[q] \in {"put_free", "put_invalid"}
        PROVE  Table!Nlink(q)' = 0 /\ (fpc'[q] = "put_free" => itable'[fip'[q]].ref = 1)
    <3>1. fpc[q] \in {"put_free", "put_invalid"} /\ (fpc'[q] = "put_free" =>
          fpc[q] = "put_free")
      BY <2>1, <1>1, <1>3
    <3>. QED BY <3>1, <1>2 DEF FreeInv, Table!Nlink
  <2>2. ASSUME NEW s \in Table!Slots, itable'[s].ref > 0, itable'[s].valid,
               ~type'[itable'[s].inum]
        PROVE  \E q \in Procs : fpc'[q] = "put_invalid" /\ fip'[q] = s
    <3>1. CASE s = fip[p] BY <3>1, <1>2, <1>3
    <3>2. CASE s # fip[p]
      <4>1. itable[s].inum # Table!Inum(p)
        BY <3>2, <2>2, <1>1, <1>2 DEF TableInv, Table!Inum
      <4>2. itable[s].ref > 0 /\ itable[s].valid /\ itable[s].inum \in Table!Inums
        BY <2>2, <1>2 DEF TableTypes
      <4>3. ~type[itable[s].inum] BY <4>1, <4>2, <2>2, <1>2, <1>3
      <4>4. PICK q \in Procs : fpc[q] = "put_invalid" /\ fip[q] = s
        BY <4>2, <4>3 DEF FreeInv
      <4>. QED BY <4>4, <1>1, <1>2, <1>3
    <3>. QED BY <3>1, <3>2
  <2>. QED BY <2>1, <2>2 DEF FreeInv
<1>10. \A q \in Procs : fpc'[q] \in {"create_lock", "create_link", "link_lock", "link_inc",
                                     "unlink_lock", "unlink_entry"} => fpc[q] = fpc'[q]
  BY <1>3
<1>11. NewInv' BY <1>2, <1>10 DEF NewInv, Table!Inum
<1>12. NameInv' BY <1>2, <1>10 DEF NameInv, Table!Inum
<1>13. Table!LinksCounted'
  <2>1. \A q \in Procs : fpc'[q] \in Between <=> fpc[q] \in Between
    BY <1>1, <1>3 DEF Between
  <2>2. \A q \in Procs : Table!Inum(q)' = Table!Inum(q) BY <1>2 DEF Table!Inum
  <2>3. \A i \in Table!Inums : type'[i] => type[i] BY <1>1, <1>3
  <2>4. \A i \in Table!Inums : Changers(i)' = Changers(i) BY <2>1, <2>2 DEF Changers
  <2>. QED
    BY <2>3, <2>4, <1>2
      DEF Table!LinksCounted, Table!Linked, Table!Ahead, Changers, Between
<1>. QED BY <1>4, <1>5, <1>6, <1>7, <1>8, <1>9, <1>11, <1>12, <1>13

(* The entry is invalid, and the sleeplock let go.                         *)
LEMMA InvalidStep ==
    ASSUME Table!FilesConstants, FilesInv, NEW p \in Procs, Table!iput_invalid(p)
    PROVE  FilesInv'
<1>. USE DEF FilesInv
<1>1. /\ fpc[p] = "put_invalid" /\ fpc[p] \in HasInode /\ fpc[p] \in Holds
      /\ Holds \subseteq HasInode /\ fip[p] \in Table!Slots /\ iowner[fip[p]] = p
  BY WhoRefers DEF Table!iput_invalid, HasInode, Holds, TableLockInv
<1>2. /\ fpc' = [fpc EXCEPT ![p] = "put_count"] /\ iowner' = [iowner EXCEPT ![fip[p]] = None]
      /\ itable' = [itable EXCEPT ![fip[p]].valid = FALSE]
      /\ UNCHANGED <<dir, type, nlink, dirowner, ftable, ofile, fip, name>>
  BY DEF Table!iput_invalid, Table!iunlock, Table!Goto, Table!disk
<1>3. /\ \A q \in Procs : q # p => fpc'[q] = fpc[q]
      /\ fpc'[p] = "put_count"
      /\ fpc' \in [Procs -> HasInode \cup {"idle", "create", "unlink", "panic"}]
  BY <1>2 DEF TableTypes, HasInode
<1>4. /\ itable' \in [Table!Slots -> Entries]
      /\ \A s \in Table!Slots : /\ itable'[s].inum = itable[s].inum /\ itable'[s].ref = itable[s].ref
                                /\ s # fip[p] => itable'[s] = itable[s]
      /\ ~itable'[fip[p]].valid
  <2>. DEFINE e == [itable[fip[p]] EXCEPT !.valid = FALSE]
  <2>1. itable[fip[p]] \in Entries BY <1>1 DEF TableTypes
  <2>2. /\ e \in Entries /\ e.inum = itable[fip[p]].inum /\ e.ref = itable[fip[p]].ref
        /\ ~e.valid
    BY <2>1 DEF Entries
  <2>3. itable' = [itable EXCEPT ![fip[p]] = e] BY <1>2
  <2>. HIDE DEF e
  <2>. QED BY <2>2, <2>3, <1>1 DEF TableTypes
<1>5. \A q \in Procs : fpc[q] \in HasInode =>
      Table!Inum(q)' = Table!Inum(q) /\ fip[q] \in Table!Slots
  BY <1>2, <1>4, WhoRefers DEF Table!Inum
<1>6. \A q \in Procs : q # p /\ fpc[q] \in Holds => fip[q] # fip[p] /\ iowner'[fip[q]] = q
  BY <1>1, <1>2, <1>5 DEF TableLockInv, TableTypes
<1>7. \A q \in Procs : fpc'[q] \in Holds => q # p /\ fpc[q] \in Holds
  BY <1>3 DEF Holds
<1>8. TableTypes'
  <2>1. \A q \in Procs : fip'[q] # None <=> fpc'[q] \in HasInode
    BY <1>1, <1>2, <1>3 DEF TableTypes, HasInode
  <2>2. \A q \in Procs : fpc'[q] \in HasName => name'[q] \in FileNames
    BY <1>2, <1>3 DEF TableTypes, HasName
  <2>3. iowner' \in [Table!Slots -> Procs \cup {None}] BY <1>2 DEF TableTypes
  <2>. QED BY <2>1, <2>2, <2>3, <1>2, <1>3, <1>4 DEF TableTypes
<1>9. TableLockInv'
  <2>1. \A q \in Procs : fpc'[q] \in Holds => iowner'[fip'[q]] = q BY <1>2, <1>6, <1>7
  <2>2. \A s \in Table!Slots : iowner'[s] # None =>
        fip'[iowner'[s]] = s /\ fpc'[iowner'[s]] \in Holds
    BY <1>1, <1>2, <1>3 DEF TableLockInv, TableTypes
  <2>3. \A q \in Procs : fpc'[q] \in HoldsDir => dirowner' = q
    BY <1>2, <1>3 DEF TableLockInv, HoldsDir
  <2>. QED BY <2>1, <2>2, <2>3 DEF TableLockInv
<1>10. TableInv'
  <2>1. \A q \in Procs : fpc'[q] \in Holds => itable'[fip'[q]].valid
    BY <1>1, <1>2, <1>4, <1>5, <1>6, <1>7 DEF TableInv
  <2>2. \A s \in Table!Slots : itable'[s].ref > 0 /\ itable'[s].valid
                                 => itable'[s].nlink = nlink'[itable'[s].inum]
    BY <1>2, <1>4 DEF TableInv
  <2>. QED BY <2>1, <2>2, <1>4 DEF TableInv
<1>11. Table!RefsCounted' BY <1>2, <1>4, RefsFrame
<1>12. UseInv'
  <2>1. \A q \in Procs : fpc'[q] \in HasInode \ WrittenOff => type'[Table!Inum(q)']
    BY <1>2, <1>3, <1>5 DEF UseInv, WrittenOff
  <2>2. \A f \in Table!FileIds : ftable'[f].ref > 0 => type'[itable'[ftable'[f].ip].inum]
    BY <1>2, <1>4, WhoRefers DEF UseInv
  <2>. QED BY <2>1, <2>2, <1>2 DEF UseInv, Table!Inum
<1>13. FreeInv'
  <2>1. ASSUME NEW q \in Procs, fpc'[q] \in {"put_free", "put_invalid"}
        PROVE  Table!Nlink(q)' = 0 /\ (fpc'[q] = "put_free" => itable'[fip'[q]].ref = 1)
    <3>1. fpc[q] = fpc'[q] /\ fpc[q] \in Holds /\ q # p BY <2>1, <1>3 DEF Holds
    <3>2. fip[q] # fip[p] /\ fip[q] \in Table!Slots BY <3>1, <1>1, <1>5, <1>6
    <3>. QED BY <3>1, <3>2, <2>1, <1>2, <1>4 DEF FreeInv, Table!Nlink
  <2>2. ASSUME NEW s \in Table!Slots, itable'[s].ref > 0, itable'[s].valid,
               ~type'[itable'[s].inum]
        PROVE  \E q \in Procs : fpc'[q] = "put_invalid" /\ fip'[q] = s
    <3>1. s # fip[p] /\ itable'[s] = itable[s] BY <2>2, <1>4
    <3>2. PICK q \in Procs : fpc[q] = "put_invalid" /\ fip[q] = s
      BY <3>1, <2>2, <1>2 DEF FreeInv
    <3>. QED BY <3>1, <3>2, <1>2, <1>3
  <2>. QED BY <2>1, <2>2 DEF FreeInv
<1>14. \A q \in Procs : fpc'[q] \in {"create_lock", "create_link", "link_lock", "link_inc",
                                     "unlink_lock", "unlink_entry"} => fpc[q] = fpc'[q]
  BY <1>3
<1>15. \A q \in Procs :
       fpc[q] \in {"create_lock", "create_link", "unlink_lock", "unlink_entry"}
         => Table!Inum(q)' = Table!Inum(q)
  BY <1>5 DEF HasInode
<1>16. NewInv' BY <1>2, <1>14, <1>15 DEF NewInv
<1>17. NameInv' BY <1>2, <1>14, <1>15 DEF NameInv
<1>18. Table!LinksCounted'
  <2>1. \A q \in Procs : fpc'[q] \in Between <=> fpc[q] \in Between
    BY <1>1, <1>3 DEF Between
  <2>2. \A q \in Procs : fpc[q] \in Between => Table!Inum(q)' = Table!Inum(q)
    BY <1>5 DEF Between, HasInode
  <2>. QED BY <2>1, <2>2, <1>2, LinksFrame DEF Table!disk
<1>. QED BY <1>8, <1>9, <1>10, <1>11, <1>12, <1>13, <1>16, <1>17, <1>18

(* The reference of a call to an entry of the inode table is given up.     *)
LEMMA DropStep ==
    ASSUME Table!FilesConstants, FilesInv, NEW p \in Procs, fpc[p] \in {"put", "put_count"},
           Table!Drop(p), Table!LetDir(p), Table!Return(p),
               UNCHANGED <<Table!disk, iowner, ftable, ofile>>
    PROVE  FilesInv'
<1>. USE DEF FilesInv
<1>1. /\ fpc[p] \in HasInode /\ fpc[p] \notin Holds /\ Holds \subseteq HasInode
      /\ fip[p] \in Table!Slots /\ itable[fip[p]].ref > 0 /\ itable[fip[p]] \in Entries
      /\ "idle" \notin HasInode
  BY WhoRefers DEF HasInode, Holds, TableTypes
<1>2. /\ fpc' = [fpc EXCEPT ![p] = "idle"] /\ fip' = [fip EXCEPT ![p] = None]
      /\ name' = [name EXCEPT ![p] = None]
      /\ UNCHANGED <<dir, type, nlink, iowner, ftable, ofile>>
  BY DEF Table!Return, Table!Goto, Table!disk
<1>3. /\ \A q \in Procs : q # p => fpc'[q] = fpc[q] /\ fip'[q] = fip[q] /\ name'[q] = name[q]
      /\ fpc'[p] = "idle" /\ fip'[p] = None
      /\ fpc' \in [Procs -> HasInode \cup {"idle", "create", "unlink", "panic"}]
      /\ fip' \in [Procs -> Table!Slots \cup {None}] /\ name' \in [Procs -> FileNames \cup {None}]
  BY <1>2 DEF TableTypes
<1>4. /\ itable' \in [Table!Slots -> Entries]
      /\ \A s \in Table!Slots : /\ itable'[s].inum = itable[s].inum /\ itable'[s].valid = itable[s].valid
                                /\ itable'[s].nlink = itable[s].nlink
                                /\ itable'[s].ref > 0 => itable[s].ref > 0
                                /\ s # fip[p] => itable'[s] = itable[s]
      /\ itable'[fip[p]].ref = itable[fip[p]].ref - 1
  <2>. DEFINE e == [itable[fip[p]] EXCEPT !.ref = @ - 1]
  <2>0. itable[fip[p]].ref - 1 \in Nat BY <1>1 DEF Entries
  <2>1. /\ e \in Entries /\ e.inum = itable[fip[p]].inum /\ e.valid = itable[fip[p]].valid
        /\ e.nlink = itable[fip[p]].nlink /\ e.ref = itable[fip[p]].ref - 1
    BY <2>0, <1>1 DEF Entries
  <2>2. itable' = [itable EXCEPT ![fip[p]] = e] BY DEF Table!Drop
  <2>. HIDE DEF e
  <2>. QED BY <2>1, <2>2, <1>1 DEF TableTypes
<1>5. \A q \in Procs : q # p /\ fpc[q] \in HasInode =>
        Table!Inum(q)' = Table!Inum(q) /\ Table!Nlink(q)' = Table!Nlink(q) /\ fip'[q] = fip[q] /\ fip[q] \in Table!Slots
  BY <1>3, <1>4, WhoRefers DEF Table!Inum, Table!Nlink
<1>6. \A q \in Procs : fpc'[q] \in HasInode =>
      q # p /\ fpc[q] \in HasInode /\ fpc'[q] = fpc[q]
  BY <1>1, <1>3
<1>7. Table!RefsCounted'
  <2>1. \A f \in Table!FileIds : ftable'[f].ref =
          Cardinality({x \in Procs \X Table!Fds : ofile'[x[1]][x[2]] = f})
    BY SameSizes, <1>2 DEF Table!RefsCounted
  <2>2. ASSUME NEW s \in Table!Slots
        PROVE  itable'[s].ref = Cardinality(Openings(s)') + Cardinality(Callers(s)')
    <3>1. Openings(s)' = Openings(s) BY <1>2 DEF Openings
    <3>2. itable[s].ref = Cardinality(Openings(s)) + Cardinality(Callers(s)) BY Refs
    <3>. DEFINE A == Callers(s)
                B == Callers(s)'
    <3>3. A \in SUBSET Procs /\ B \in SUBSET Procs BY DEF Callers
    <3>4. \A q \in Procs : q # p => (q \in A <=> q \in B) BY <1>3 DEF Callers
    <3>5. p \notin B /\ (p \in A <=> s = fip[p]) BY <1>3, AllFinite DEF Callers
    <3>6. Cardinality(Openings(s)) \in Nat
      <4>1. Openings(s) \in SUBSET Table!FileIds BY DEF Openings
      <4>. QED BY <4>1, AllFinite, SmallSets
    <3>. HIDE DEF A, B
    <3>7. /\ Cardinality(A) \in Nat /\ Cardinality(B) \in Nat
          /\ s = fip[p] => Cardinality(B) = Cardinality(A) - 1
          /\ s # fip[p] => Cardinality(B) = Cardinality(A)
      BY <3>3, <3>4, <3>5, AllFinite, OneDiffers
    <3>8. itable'[s].ref = Cardinality(Openings(s)) + Cardinality(B)
      BY <3>2, <3>6, <3>7, <1>1, <1>4 DEF A
    <3>. QED BY <3>1, <3>8 DEF B
  <2>. QED BY SameSizes, <2>1, <2>2 DEF Table!RefsCounted, Openings, Callers
<1>8. TableTypes'
  <2>1. \A q \in Procs : fip'[q] # None <=> fpc'[q] \in HasInode
    BY <1>1, <1>3 DEF TableTypes
  <2>2. \A q \in Procs : fpc'[q] \in HasName => name'[q] \in FileNames
    BY <1>3 DEF TableTypes, HasName
  <2>3. dirowner' \in Procs \cup {None} BY DEF Table!LetDir, TableTypes
  <2>. QED BY <2>1, <2>2, <2>3, <1>2, <1>3, <1>4 DEF TableTypes
<1>9. TableLockInv'
  <2>1. \A q \in Procs : fpc'[q] \in Holds => iowner'[fip'[q]] = q
    BY <1>1, <1>2, <1>5, <1>6 DEF TableLockInv
  <2>2. \A s \in Table!Slots : iowner'[s] # None =>
        fip'[iowner'[s]] = s /\ fpc'[iowner'[s]] \in Holds
    BY <1>1, <1>2, <1>3 DEF TableLockInv, TableTypes
  <2>3. \A q \in Procs : fpc'[q] \in HoldsDir => dirowner' = q
    BY <1>3 DEF TableLockInv, HoldsDir, Table!LetDir
  <2>. QED BY <2>1, <2>2, <2>3 DEF TableLockInv
<1>10. TableInv'
  <2>1. \A q \in Procs : fpc'[q] \in Holds => itable'[fip'[q]].valid
    BY <1>1, <1>4, <1>5, <1>6 DEF TableInv
  <2>2. \A s \in Table!Slots : itable'[s].ref > 0 /\ itable'[s].valid
                                 => itable'[s].nlink = nlink'[itable'[s].inum]
    BY <1>2, <1>4 DEF TableInv
  <2>. QED BY <2>1, <2>2, <1>4 DEF TableInv
<1>11. UseInv'
  <2>1. \A q \in Procs : fpc'[q] \in HasInode \ WrittenOff => type'[Table!Inum(q)']
    BY <1>2, <1>5, <1>6 DEF UseInv
  <2>2. \A f \in Table!FileIds : ftable'[f].ref > 0 => type'[itable'[ftable'[f].ip].inum]
    BY <1>2, <1>4, WhoRefers DEF UseInv
  <2>. QED BY <2>1, <2>2, <1>2 DEF UseInv, Table!Inum
<1>12. FreeInv'
  <2>1. ASSUME NEW q \in Procs, fpc'[q] \in {"put_free", "put_invalid"}
        PROVE  Table!Nlink(q)' = 0 /\ (fpc'[q] = "put_free" => itable'[fip'[q]].ref = 1)
    <3>1. q # p /\ fpc'[q] = fpc[q] /\ fpc[q] \in HasInode BY <2>1, <1>3 DEF HasInode
    <3>2. Table!Nlink(q)' = 0 BY <3>1, <2>1, <1>5 DEF FreeInv
    <3>3. fpc[q] = "put_free" => itable[fip[q]].ref = 1 /\ fip[p] # fip[q]
      BY <3>1, WhoRefers DEF FreeInv
    <3>. QED BY <3>1, <3>2, <3>3, <1>4, <1>5
  <2>2. ASSUME NEW s \in Table!Slots, itable'[s].ref > 0, itable'[s].valid,
               ~type'[itable'[s].inum]
        PROVE  \E q \in Procs : fpc'[q] = "put_invalid" /\ fip'[q] = s
    <3>1. itable[s].ref > 0 /\ itable[s].valid /\ ~type[itable[s].inum]
      BY <2>2, <1>2, <1>4
    <3>2. PICK q \in Procs : fpc[q] = "put_invalid" /\ fip[q] = s BY <3>1 DEF FreeInv
    <3>. QED BY <3>2, <1>3
  <2>. QED BY <2>1, <2>2 DEF FreeInv
<1>13. \A q \in Procs : fpc'[q] \in {"create_lock", "create_link", "link_lock", "link_inc",
                                     "unlink_lock", "unlink_entry"} =>
         /\ q # p /\ fpc[q] = fpc'[q] /\ fip'[q] = fip[q] /\ name'[q] = name[q]
         /\ Table!Inum(q)' = Table!Inum(q) /\ fip[q] # None
  BY <1>3, <1>5, AllFinite DEF HasInode
<1>14. NewInv' BY <1>2, <1>13 DEF NewInv
<1>15. NameInv' BY <1>2, <1>13 DEF NameInv
<1>16. Table!LinksCounted'
  <2>1. \A q \in Procs : fpc'[q] \in Between <=> fpc[q] \in Between BY <1>3 DEF Between
  <2>2. \A q \in Procs : fpc[q] \in Between => Table!Inum(q)' = Table!Inum(q)
    BY <1>5 DEF Between, HasInode
  <2>. QED BY <2>1, <2>2, LinksFrame
<1>. QED BY <1>7, <1>8, <1>9, <1>10, <1>11, <1>12, <1>14, <1>15, <1>16

(* iget() finds the entry of the inode, or one that is free, or none.      *)
LEMMA SlotFound ==
    ASSUME Table!FilesConstants, NEW i \in Table!Inums
    PROVE  \/ Table!Slot(i) = None
           \/ /\ Table!Slot(i) \in Table!Slots
              /\ \/ itable[Table!Slot(i)].ref > 0 /\ itable[Table!Slot(i)].inum = i
                 \/ /\ itable[Table!Slot(i)].ref = 0
                    /\ \A s \in Table!Slots : itable[s].ref > 0 => itable[s].inum # i
<1>. DEFINE hits == {s \in Table!Slots : itable[s].ref > 0 /\ itable[s].inum = i}
            empty == {s \in Table!Slots : itable[s].ref = 0}
<1>1. hits \subseteq Table!Slots /\ empty \subseteq Table!Slots /\ Table!Slots \subseteq Int
  BY DEF Table!Slots
<1>2. IsFiniteSet(hits) /\ IsFiniteSet(empty)
  <2>. HIDE DEF hits, empty
  <2>. QED BY <1>1, AllFinite, FS_Subset
<1>3. hits # {} => Min(hits) \in hits
  <2>. HIDE DEF hits, empty
  <2>. QED BY <1>1, <1>2, MinIsLeast
<1>4. empty # {} => Min(empty) \in empty
  <2>. HIDE DEF hits, empty
  <2>. QED BY <1>1, <1>2, MinIsLeast
<1>5. Table!Slot(i) = IF hits # {} THEN Min(hits) ELSE IF empty # {} THEN Min(empty) ELSE None
  BY SameSizes DEF Table!Slot
<1>6. CASE hits # {} BY <1>3, <1>5, <1>6
<1>7. CASE hits = {} /\ empty # {} BY <1>4, <1>5, <1>7
<1>8. CASE hits = {} /\ empty = {} BY <1>5, <1>8
<1>. QED BY <1>6, <1>7, <1>8

(* iget(): a reference to an inode that has a name, or that is new.        *)
Gets(p, i, l) ==
    /\ Table!iget(p, i, l)
    /\ fpc[p] \in {"idle", "create", "unlink"}
    /\ UNCHANGED <<dir, iowner, ftable, ofile>>
    /\ \/ type[i] /\ (\E n \in FileNames : dir[n] = i) /\ UNCHANGED <<type, nlink>>
       \/ ~type[i] /\ type' = [type EXCEPT ![i] = TRUE] /\ nlink' = [nlink EXCEPT ![i] = 0]
    /\ name' \in [Procs -> FileNames \cup {None}]
    /\ \A q \in Procs : q # p => name'[q] = name[q]
    /\ l # "open_lock" => name'[p] \in FileNames
    /\ dirowner \in {None, p} /\ dirowner' \in {None, p}
    /\ l \in {"create_lock", "unlink_lock"} => dirowner' = p
    /\ l = "create_lock" => ~type[i] /\ dir[name'[p]] = None
    /\ l = "unlink_lock" => dir[name'[p]] = i

LEMMA Got ==
    ASSUME Table!FilesConstants, TableTypes, NEW p \in Procs, NEW i \in Table!Inums,
           NEW l, Table!iget(p, i, l), fip[p] = None
    PROVE  /\ itable' \in [Table!Slots -> Entries]
           /\ \A s \in Table!Slots : s # fip'[p] => itable'[s] = itable[s]
           /\ fip'[p] # None =>
                 /\ fip'[p] \in Table!Slots /\ fpc' = [fpc EXCEPT ![p] = l]
                 /\ itable'[fip'[p]].ref = itable[fip'[p]].ref + 1
                 /\ itable'[fip'[p]].inum = i
                 /\ \/ /\ itable[fip'[p]].ref > 0 /\ itable[fip'[p]].inum = i
                       /\ itable'[fip'[p]].valid = itable[fip'[p]].valid
                       /\ itable'[fip'[p]].nlink = itable[fip'[p]].nlink
                    \/ /\ itable[fip'[p]].ref = 0 /\ ~itable'[fip'[p]].valid
                       /\ \A s \in Table!Slots : itable[s].ref > 0 => itable[s].inum # i
           /\ fip'[p] = None => fpc' = [fpc EXCEPT ![p] = "panic"]
           /\ \A q \in Procs : q # p => fip'[q] = fip[q]
           /\ fip' \in [Procs -> Table!Slots \cup {None}]
<1>1. CASE Table!Slot(i) = None
  <2>1. fip' = fip /\ itable' = itable /\ fpc' = [fpc EXCEPT ![p] = "panic"]
    BY <1>1 DEF Table!iget, Table!Goto
  <2>. QED BY <2>1 DEF TableTypes
<1>2. CASE Table!Slot(i) # None
  <2>. DEFINE s == Table!Slot(i)
              e == itable[s]
              e1 == [e EXCEPT !.ref = e.ref + 1]
              e2 == [inum |-> i, ref |-> 1, valid |-> FALSE, nlink |-> e.nlink]
  <2>1. s \in Table!Slots /\ e \in Entries BY <1>2, SlotFound DEF TableTypes
  <2>2. /\ e1 \in Entries /\ e1.inum = e.inum /\ e1.valid = e.valid
        /\ e1.nlink = e.nlink /\ e1.ref = e.ref + 1
    BY <2>1 DEF Entries
  <2>3. e2 \in Entries /\ e2.inum = i /\ ~e2.valid /\ e2.ref = 1 BY <2>1 DEF Entries
  <2>4. /\ itable' = [itable EXCEPT ![s] = IF e.ref > 0 THEN e1 ELSE e2]
        /\ fip' = [fip EXCEPT ![p] = s] /\ fpc' = [fpc EXCEPT ![p] = l]
    <3>1. itable' = [itable EXCEPT ![s] = IF e.ref > 0 THEN e1 ELSE e2]
      BY <1>2 DEF Table!iget
    <3>2. fip' = [fip EXCEPT ![p] = s] /\ fpc' = [fpc EXCEPT ![p] = l]
      BY <1>2 DEF Table!iget, Table!Goto
    <3>. QED BY <3>1, <3>2
  <2>5. \/ e.ref > 0 /\ e.inum = i
        \/ e.ref = 0 /\ \A t \in Table!Slots : itable[t].ref > 0 => itable[t].inum # i
    BY <1>2, SlotFound
  <2>. HIDE DEF s, e1, e2
  <2>6. itable' \in [Table!Slots -> Entries] BY <2>1, <2>2, <2>3, <2>4 DEF TableTypes
  <2>7. \A t \in Table!Slots : t # s => itable'[t] = itable[t] BY <2>4 DEF TableTypes
  <2>8. itable'[s] = IF e.ref > 0 THEN e1 ELSE e2 BY <2>1, <2>4 DEF TableTypes
  <2>9. /\ fip'[p] = s /\ (\A q \in Procs : q # p => fip'[q] = fip[q])
        /\ fip' \in [Procs -> Table!Slots \cup {None}]
    BY <2>1, <2>4 DEF TableTypes
  <2>. QED BY <2>1, <2>2, <2>3, <2>4, <2>5, <2>6, <2>7, <2>8, <2>9, AllFinite
<1>. QED BY <1>1, <1>2

LEMMA GetStep ==
    ASSUME Table!FilesConstants, FilesInv, NEW p \in Procs, NEW i \in Table!Inums,
           NEW l \in {"open_lock", "create_lock", "link_lock", "unlink_lock"}, Gets(p, i, l)
    PROVE  FilesInv' /\ (fpc'[p] = "panic" => fip'[p] = None)
<1>. USE DEF FilesInv
<1>0. /\ UNCHANGED <<dir, iowner, ftable, ofile>>
      /\ name' \in [Procs -> FileNames \cup {None}]
      /\ \A q \in Procs : q # p => name'[q] = name[q]
      /\ l # "open_lock" => name'[p] \in FileNames
      /\ dirowner \in {None, p} /\ dirowner' \in {None, p}
      /\ l \in {"create_lock", "unlink_lock"} => dirowner' = p
      /\ l = "create_lock" => ~type[i] /\ dir[name'[p]] = None
      /\ l = "unlink_lock" => dir[name'[p]] = i
      /\ fpc[p] \in {"idle", "create", "unlink"} /\ Table!iget(p, i, l)
      /\ type[i] => \E n \in FileNames : dir[n] = i
  BY DEF Gets
<1>1. /\ fpc[p] \notin HasInode /\ l \in HasInode /\ l \notin Holds /\ fip[p] = None
      /\ "panic" \notin HasInode /\ Holds \subseteq HasInode /\ l \notin WrittenOff
      /\ fpc[p] \notin Between /\ l \notin Between /\ "panic" \notin Between
  BY <1>0, WhoRefers DEF HasInode, Holds, WrittenOff, TableTypes, Between
<1>2. /\ \A q \in Procs : q # p => fpc'[q] = fpc[q] /\ fip'[q] = fip[q]
      /\ fpc'[p] \in {l, "panic"} /\ fip'[p] \in Table!Slots \cup {None}
      /\ fip'[p] # None <=> fpc'[p] = l
      /\ fpc' \in [Procs -> HasInode \cup {"idle", "create", "unlink", "panic"}]
      /\ fip' \in [Procs -> Table!Slots \cup {None}]
  <2>1. fpc' \in {[fpc EXCEPT ![p] = l], [fpc EXCEPT ![p] = "panic"]} BY <1>0, <1>1, Got
  <2>2. fip' \in [Procs -> Table!Slots \cup {None}] /\ \A q \in Procs : q # p =>
        fip'[q] = fip[q]
    BY <1>0, <1>1, Got
  <2>3. fpc' \in [Procs -> HasInode \cup {"idle", "create", "unlink", "panic"}]
    BY <2>1, <1>1 DEF TableTypes
  <2>4. /\ fip'[p] = None => fpc'[p] = "panic"
        /\ fip'[p] # None => fpc'[p] = l
    BY <1>0, <1>1, Got DEF TableTypes
  <2>5. \A q \in Procs : q # p => fpc'[q] = fpc[q] BY <2>1 DEF TableTypes
  <2>. QED BY <2>2, <2>3, <2>4, <2>5, <1>1
<1>3. /\ itable' \in [Table!Slots -> Entries]
      /\ \A s \in Table!Slots : s # fip'[p] => itable'[s] = itable[s]
      /\ fip'[p] # None => /\ fip'[p] \in Table!Slots /\ itable'[fip'[p]].ref = itable[fip'[p]].ref + 1
                           /\ itable'[fip'[p]].inum = i
                           /\ \/ /\ itable[fip'[p]].ref > 0 /\ itable[fip'[p]].inum = i
                                 /\ itable'[fip'[p]].valid = itable[fip'[p]].valid
                                 /\ itable'[fip'[p]].nlink = itable[fip'[p]].nlink
                              \/ /\ itable[fip'[p]].ref = 0 /\ ~itable'[fip'[p]].valid
                                 /\ \A s \in Table!Slots : itable[s].ref > 0 =>
                                     itable[s].inum # i
  BY <1>0, <1>1, Got
<1>4. \A s \in Table!Slots : itable[s].ref > 0 =>
        /\ itable'[s].ref > 0 /\ itable'[s].inum = itable[s].inum
        /\ itable'[s].valid = itable[s].valid /\ itable'[s].nlink = itable[s].nlink
  <2>1. ASSUME NEW s \in Table!Slots, itable[s].ref > 0
        PROVE  /\ itable'[s].ref > 0 /\ itable'[s].inum = itable[s].inum
               /\ itable'[s].valid = itable[s].valid /\ itable'[s].nlink = itable[s].nlink
    <3>1. CASE s # fip'[p] BY <3>1, <2>1, <1>3
    <3>2. CASE s = fip'[p]
      <4>1. fip'[p] # None /\ itable[s].ref \in Nat
        BY <3>2, AllFinite DEF TableTypes, Entries
      <4>. QED BY <4>1, <3>2, <2>1, <1>3
    <3>. QED BY <3>1, <3>2
  <2>. QED BY <2>1
<1>5. /\ type' \in [Table!Inums -> BOOLEAN] /\ nlink' \in [Table!Inums -> Nat] /\ type'[i]
      /\ \A j \in Table!Inums : /\ j # i => type'[j] = type[j] /\ nlink'[j] = nlink[j]
                                /\ type[j] => type'[j] /\ nlink'[j] = nlink[j]
                                /\ nlink[j] = 0 => nlink'[j] = 0
                                /\ ~type[j] /\ type'[j] => j = i /\ nlink'[j] = 0
  <2>1. CASE type[i] /\ UNCHANGED <<type, nlink>> BY <2>1 DEF TableTypes
  <2>2. CASE ~type[i] /\ type' = [type EXCEPT ![i] = TRUE] /\ nlink' = [nlink EXCEPT ![i] = 0]
    BY <2>2 DEF TableTypes
  <2>. QED BY <2>1, <2>2 DEF Gets
<1>6. \A q \in Procs : fpc'[q] \in HasInode =>
        \/ q = p /\ fpc'[q] = l /\ fip'[q] \in Table!Slots /\ Table!Inum(q)' = i
        \/ /\ q # p /\ fpc[q] \in HasInode /\ fpc'[q] = fpc[q] /\ fip'[q] = fip[q]
           /\ fip[q] \in Table!Slots /\ fip[q] # None /\ itable[fip[q]].ref > 0
           /\ Table!Inum(q)' = Table!Inum(q) /\ Table!Nlink(q)' = Table!Nlink(q) /\ Table!Inum(q) \in Table!Inums
  BY <1>1, <1>2, <1>3, <1>4, WhoRefers, AllFinite DEF Table!Inum, Table!Nlink
<1>7. Table!RefsCounted'
  <2>1. \A f \in Table!FileIds : ftable'[f].ref =
          Cardinality({x \in Procs \X Table!Fds : ofile'[x[1]][x[2]] = f})
    BY SameSizes, <1>0 DEF Table!RefsCounted
  <2>2. ASSUME NEW s \in Table!Slots
        PROVE  itable'[s].ref = Cardinality(Openings(s)') + Cardinality(Callers(s)')
    <3>1. Openings(s)' = Openings(s) BY <1>0 DEF Openings
    <3>2. itable[s].ref = Cardinality(Openings(s)) + Cardinality(Callers(s)) BY Refs
    <3>. DEFINE A == Callers(s)
                B == Callers(s)'
    <3>3. A \in SUBSET Procs /\ B \in SUBSET Procs BY DEF Callers
    <3>4. \A q \in Procs : q # p => (q \in A <=> q \in B) BY <1>2 DEF Callers
    <3>5. p \notin A /\ (p \in B <=> s = fip'[p]) BY <1>1, AllFinite DEF Callers
    <3>6. Cardinality(Openings(s)) \in Nat
      <4>1. Openings(s) \in SUBSET Table!FileIds BY DEF Openings
      <4>. QED BY <4>1, AllFinite, SmallSets
    <3>. HIDE DEF A, B
    <3>7. /\ Cardinality(A) \in Nat /\ Cardinality(B) \in Nat
          /\ s = fip'[p] => Cardinality(B) = Cardinality(A) + 1
          /\ s # fip'[p] => Cardinality(B) = Cardinality(A)
      BY <3>3, <3>4, <3>5, AllFinite, OneDiffers
    <3>8. /\ s = fip'[p] => itable'[s].ref = itable[s].ref + 1
          /\ s # fip'[p] => itable'[s].ref = itable[s].ref
      BY <1>3, AllFinite
    <3>9. itable'[s].ref = Cardinality(Openings(s)) + Cardinality(B)
      BY <3>2, <3>6, <3>7, <3>8 DEF A
    <3>. QED BY <3>1, <3>9 DEF B
  <2>. QED BY SameSizes, <2>1, <2>2 DEF Table!RefsCounted, Openings, Callers
<1>8. TableTypes'
  <2>1. \A q \in Procs : fip'[q] # None <=> fpc'[q] \in HasInode
    BY <1>1, <1>2 DEF TableTypes
  <2>2. \A q \in Procs : fpc'[q] \in HasName => name'[q] \in FileNames
    BY <1>0, <1>2 DEF TableTypes, HasName
  <2>3. dirowner' \in Procs \cup {None} BY <1>0
  <2>4. \A s \in Table!Slots : itable'[s].ref > 0 => itable'[s].inum \in Table!Inums
    BY <1>3, AllFinite DEF TableTypes
  <2>. QED BY <2>1, <2>2, <2>3, <2>4, <1>0, <1>2, <1>3, <1>5 DEF TableTypes
<1>9. TableLockInv'
  <2>1. ASSUME NEW q \in Procs, fpc'[q] \in Holds PROVE iowner'[fip'[q]] = q
    <3>1. q # p /\ fpc[q] = fpc'[q] /\ fip'[q] = fip[q] BY <2>1, <1>1, <1>2
    <3>. QED BY <3>1, <2>1, <1>0 DEF TableLockInv
  <2>2. \A s \in Table!Slots : iowner'[s] # None =>
        fip'[iowner'[s]] = s /\ fpc'[iowner'[s]] \in Holds
    BY <1>0, <1>1, <1>2 DEF TableLockInv, TableTypes
  <2>3. \A q \in Procs : fpc'[q] \in HoldsDir => dirowner' = q
    BY <1>0, <1>2, AllFinite DEF TableLockInv, HoldsDir
  <2>. QED BY <2>1, <2>2, <2>3 DEF TableLockInv
<1>10. TableInv'
  <2>1. \A q \in Procs : fpc'[q] \in Holds => itable'[fip'[q]].valid
    BY ZenonT(40), <1>1, <1>4, <1>6 DEF TableInv
  <2>2. ASSUME NEW s \in Table!Slots, itable'[s].ref > 0, itable'[s].valid
        PROVE  itable'[s].nlink = nlink'[itable'[s].inum]
    <3>1. itable[s].ref > 0
      <4>1. s # None /\ itable[s].ref \in Nat BY AllFinite DEF TableTypes, Entries
      <4>. QED BY <4>1, <2>2, <1>3
    <3>2. /\ itable'[s].inum = itable[s].inum /\ itable'[s].nlink = itable[s].nlink
          /\ itable[s].valid /\ itable[s].inum \in Table!Inums
          /\ itable[s].nlink = nlink[itable[s].inum]
      BY <3>1, <2>2, <1>4 DEF TableTypes, TableInv
    <3>3. CASE type[itable[s].inum] BY <3>2, <3>3, <1>5
    <3>4. CASE ~type[itable[s].inum]
      <4>1. PICK q \in Procs : fpc[q] = "put_invalid" /\ fip[q] = s
        BY <3>1, <3>2, <3>4 DEF FreeInv
      <4>2. itable[s].nlink = 0 BY <4>1 DEF FreeInv, Table!Nlink
      <4>. QED BY <4>2, <3>2, <1>5
    <3>. QED BY <3>3, <3>4
  <2>3. ASSUME NEW s \in Table!Slots, NEW t \in Table!Slots, itable'[s].ref > 0,
               itable'[t].ref > 0,
               itable'[s].inum = itable'[t].inum
        PROVE  s = t
    <3>1. ASSUME NEW u \in Table!Slots, itable'[u].ref > 0
          PROVE  \/ itable[u].ref > 0 /\ itable[u].inum = itable'[u].inum
                 \/ /\ u = fip'[p] /\ itable'[u].inum = i
                    /\ \A v \in Table!Slots : itable[v].ref > 0 => itable[v].inum # i
      BY <3>1, <1>3, AllFinite
    <3>. QED BY <3>1, <2>3 DEF TableInv
  <2>. QED BY <2>1, <2>2, <2>3 DEF TableInv
<1>11. UseInv'
  <2>1. \A q \in Procs : fpc'[q] \in HasInode \ WrittenOff => type'[Table!Inum(q)']
    BY <1>5, <1>6 DEF UseInv
  <2>2. \A f \in Table!FileIds : ftable'[f].ref > 0 => type'[itable'[ftable'[f].ip].inum]
    BY <1>0, <1>4, <1>5, WhoRefers DEF UseInv
  <2>3. \A n \in FileNames : dir'[n] # None => type'[dir'[n]]
    BY <1>0, <1>5 DEF UseInv, TableTypes
  <2>. QED BY <2>1, <2>2, <2>3 DEF UseInv, Table!Inum
<1>12. FreeInv'
  <2>1. ASSUME NEW q \in Procs, fpc'[q] \in {"put_free", "put_invalid"}
        PROVE  Table!Nlink(q)' = 0
    <3>1. fpc'[q] \in HasInode /\ fpc'[q] # l BY <2>1 DEF HasInode
    <3>2. fpc[q] = fpc'[q] /\ Table!Nlink(q)' = Table!Nlink(q) BY <3>1, <1>6
    <3>. QED BY <3>2, <2>1 DEF FreeInv
  <2>2. ASSUME NEW q \in Procs, fpc'[q] = "put_free" PROVE itable'[fip'[q]].ref = 1
    <3>1. /\ q # p /\ fpc[q] = "put_free" /\ fpc[q] \in HasInode \ WrittenOff /\ fip'[q] = fip[q]
          /\ fip[q] \in Table!Slots /\ fpc[q] \in Holds /\ itable[fip[q]].ref = 1 /\ Table!Inum(q) \in Table!Inums
      BY <2>2, <1>2, WhoRefers DEF HasInode, Holds, WrittenOff, FreeInv
    <3>2. type[Table!Inum(q)] /\ nlink[Table!Inum(q)] = 0
      BY <3>1 DEF UseInv, FreeInv, TableInv, Table!Nlink, Table!Inum
    <3>3. Table!Inum(q) # i BY <3>1, <3>2, <1>0, Counts
    <3>4. fip[q] # fip'[p]
      <4>1. itable'[fip[q]].inum = Table!Inum(q) BY <3>1, <1>4 DEF Table!Inum
      <4>. QED BY <4>1, <3>1, <3>3, <1>3, AllFinite
    <3>. QED BY <3>1, <3>4, <1>3
  <2>3. ASSUME NEW s \in Table!Slots, itable'[s].ref > 0, itable'[s].valid,
               ~type'[itable'[s].inum]
        PROVE  \E q \in Procs : fpc'[q] = "put_invalid" /\ fip'[q] = s
    <3>1. itable[s].ref > 0
      <4>1. s # None /\ itable[s].ref \in Nat BY AllFinite DEF TableTypes, Entries
      <4>. QED BY <4>1, <2>3, <1>3
    <3>2. itable[s].valid /\ itable[s].inum \in Table!Inums /\ ~type[itable[s].inum]
      BY <3>1, <2>3, <1>4, <1>5 DEF TableTypes
    <3>3. PICK q \in Procs : fpc[q] = "put_invalid" /\ fip[q] = s
      BY <3>1, <3>2 DEF FreeInv
    <3>4. q # p BY <3>3, <1>0
    <3>. QED BY <3>3, <3>4, <1>2
  <2>. QED BY <2>1, <2>2, <2>3 DEF FreeInv
<1>13. NewInv'
  <2>1. ASSUME NEW q \in Procs, fpc'[q] \in {"create_lock", "create_link"}
        PROVE  /\ nlink'[Table!Inum(q)'] = 0 /\ dir'[name'[q]] = None
               /\ \A r \in Procs : fip'[r] = fip'[q] =>
                   fpc'[r] \notin {"link_lock", "link_inc"}
    <3>1. fpc'[q] \in HasInode /\ fpc'[q] \in HoldsDir BY <2>1 DEF HasInode, HoldsDir
    <3>2. CASE q = p
      <4>1. l = "create_lock" /\ ~type[i] /\ Table!Inum(q)' = i
        BY <3>1, <3>2, <2>1, <1>0, <1>2, <1>6
      <4>2. ASSUME NEW r \in Procs, fip'[r] = fip'[q]
            PROVE  fpc'[r] \notin {"link_lock", "link_inc"}
        <5>1. SUFFICES ASSUME fpc'[r] \in {"link_lock", "link_inc"} PROVE FALSE OBVIOUS
        <5>2. r # p /\ fpc[r] = fpc'[r] BY <5>1, <4>1, <3>2, <1>2
        <5>3. fpc[r] \in HasInode \ WrittenOff BY <5>1, <5>2 DEF HasInode, WrittenOff
        <5>4. type[Table!Inum(r)] BY <5>3 DEF UseInv
        <5>5. Table!Inum(r) = Table!Inum(q)' BY <4>2, <5>2, <5>3, <1>6 DEF Table!Inum
        <5>. QED BY <4>1, <5>4, <5>5
      <4>. QED BY <4>1, <4>2, <3>2, <1>0, <1>5
    <3>3. CASE q # p
      <4>1. /\ fpc[q] = fpc'[q] /\ fip'[q] = fip[q] /\ Table!Inum(q)' = Table!Inum(q) /\ Table!Inum(q) \in Table!Inums
            /\ fpc[q] \in HoldsDir
        BY <3>1, <3>3, <1>6
      <4>2. dirowner = q BY <4>1 DEF TableLockInv
      <4>3. FALSE BY <4>2, <3>3, <1>0, AllFinite
      <4>. QED BY <4>3
    <3>. QED BY <3>2, <3>3
  <2>. QED BY <2>1 DEF NewInv
<1>14. NameInv'
  <2>1. ASSUME NEW q \in Procs, fpc'[q] \in {"unlink_lock", "unlink_entry"}
        PROVE  dir'[name'[q]] = Table!Inum(q)'
    <3>1. fpc'[q] \in HasInode BY <2>1 DEF HasInode
    <3>2. CASE q = p BY <3>1, <3>2, <2>1, <1>0, <1>6
    <3>3. CASE q # p BY <3>1, <3>3, <2>1, <1>0, <1>6 DEF NameInv
    <3>. QED BY <3>2, <3>3
  <2>. QED BY <2>1 DEF NameInv
<1>15. Table!LinksCounted'
  <2>1. \A q \in Procs : fpc'[q] \in Between <=> fpc[q] \in Between BY <1>1, <1>2
  <2>2. \A q \in Procs : fpc[q] \in Between =>
        fpc'[q] \in HasInode /\ Table!Inum(q)' = Table!Inum(q)
    BY <2>1, <1>1, <1>6, WhoRefers
  <2>3. \A j \in Table!Inums : Changers(j)' = Changers(j) BY <2>1, <2>2 DEF Changers
  <2>4. \A j \in Table!Inums : NamesOf(j)' = NamesOf(j) BY <1>0 DEF NamesOf
  <2>5. ASSUME NEW j \in Table!Inums, type'[j]
        PROVE  nlink'[j] = Cardinality(NamesOf(j)) + Cardinality(Changers(j))
    <3>1. CASE type[j] BY <3>1, <1>5, Links
    <3>2. CASE ~type[j]
      <4>1. nlink'[j] = 0 BY <3>2, <2>5, <1>5
      <4>2. NamesOf(j) = {}
        <5>1. \A n \in FileNames : dir[n] = j => dir[n] # None BY AllFinite
        <5>. QED BY <5>1, <3>2 DEF NamesOf, UseInv
      <4>3. Changers(j) = {}
        <5>1. Between \subseteq HasInode \ WrittenOff
          BY DEF Between, HasInode, WrittenOff
        <5>. QED BY <5>1, <3>2 DEF Changers, UseInv
      <4>4. Cardinality({}) = 0 BY FS_EmptySet
      <4>. QED BY <4>1, <4>2, <4>3, <4>4
    <3>. QED BY <3>1, <3>2
  <2>6. \A j \in Table!Inums : type'[j] =>
        nlink'[j] = Cardinality(NamesOf(j)') + Cardinality(Changers(j)')
    BY <2>3, <2>4, <2>5
  <2>. QED
    BY SameSizes, <2>6
      DEF Table!LinksCounted, Table!Linked, Table!Ahead, NamesOf, Changers, Between
<1>. QED BY <1>1, <1>2, <1>7, <1>8, <1>9, <1>10, <1>11, <1>12, <1>13, <1>14, <1>15
-------------------------------------------------------------------------------
(* The calls on the file table: what they leave alone.                     *)
LEMMA FileStep ==
    ASSUME Table!FilesConstants, FilesInv, NEW p \in Procs,
           <<fpc[p], fpc'[p]>> \in {<<"open_file", "idle">>, <<"open_file", "put">>,
             <<"idle", "idle">>, <<"idle", "put">>},
           \A q \in Procs : q # p =>
               fpc'[q] = fpc[q] /\ fip'[q] = fip[q] /\ name'[q] = name[q],
           iowner' = IF fpc[p] = "open_file" THEN [iowner EXCEPT ![fip[p]] = None] ELSE iowner,
           fpc'[p] = "put" => type[itable[fip'[p]].inum],
           \A f \in Table!FileIds : ftable'[f].ref > 0 => type[itable[ftable'[f].ip].inum],
           UNCHANGED <<Table!disk, itable, dirowner>>, TableTypes', Table!RefsCounted'
    PROVE  FilesInv'
<1>. USE DEF FilesInv
<1>1. UNCHANGED <<dir, type, nlink>> BY DEF Table!disk
<1>2. /\ fpc'[p] \notin Holds /\ fpc'[p] \notin HoldsDir /\ Holds \subseteq HasInode
      /\ fpc[p] \in Holds <=> fpc[p] = "open_file"
      /\ fpc[p] \notin Between /\ fpc'[p] \notin Between
      /\ fpc[p] = "open_file" => fip[p] \in Table!Slots /\ iowner[fip[p]] = p
      /\ fpc'[p] \in HasInode => fpc'[p] = "put"
  <2>1. fpc[p] \in {"open_file", "idle"} /\ fpc'[p] \in {"put", "idle"} OBVIOUS
  <2>2. fpc[p] \in Holds <=> fpc[p] = "open_file" BY <2>1 DEF Holds
  <2>3. fpc[p] = "open_file" => fip[p] \in Table!Slots /\ iowner[fip[p]] = p
    BY <2>2, WhoRefers DEF TableLockInv
  <2>. QED BY <2>1, <2>2, <2>3, WhoRefers DEF Holds, HoldsDir, Between, HasInode
<1>3. \A q \in Procs : fpc[q] \in HasInode => fip[q] \in Table!Slots BY WhoRefers
<1>4. TableLockInv'
  <2>1. ASSUME NEW q \in Procs, fpc'[q] \in Holds PROVE iowner'[fip'[q]] = q
    <3>1. q # p /\ fpc[q] \in Holds /\ fip'[q] = fip[q] BY <2>1, <1>2
    <3>2. iowner[fip[q]] = q /\ fip[q] \in Table!Slots
      BY <3>1, <1>2, <1>3 DEF TableLockInv
    <3>. QED BY <3>1, <3>2, <1>2 DEF TableTypes
  <2>2. ASSUME NEW s \in Table!Slots, iowner'[s] # None
        PROVE  fip'[iowner'[s]] = s /\ fpc'[iowner'[s]] \in Holds
    <3>1. iowner'[s] = iowner[s] /\ iowner[s] \in Procs BY <2>2 DEF TableTypes
    <3>2. fip[iowner[s]] = s /\ fpc[iowner[s]] \in Holds BY <3>1, <2>2 DEF TableLockInv
    <3>3. iowner[s] # p BY <3>1, <3>2, <2>2, <1>2 DEF TableTypes
    <3>. QED BY <3>1, <3>2, <3>3
  <2>3. \A q \in Procs : fpc'[q] \in HoldsDir => dirowner' = q BY <1>2 DEF TableLockInv
  <2>. QED BY <2>1, <2>2, <2>3 DEF TableLockInv
<1>5. TableInv'
  <2>1. \A q \in Procs : fpc'[q] \in Holds => itable'[fip'[q]].valid
    BY <1>2 DEF TableInv
  <2>. QED BY <2>1, <1>1 DEF TableInv
<1>6. UseInv'
  <2>1. \A q \in Procs : fpc'[q] \in HasInode \ WrittenOff => type'[Table!Inum(q)']
    BY <1>1, <1>2 DEF UseInv, Table!Inum
  <2>2. \A f \in Table!FileIds : ftable'[f].ref > 0 => type'[itable'[ftable'[f].ip].inum]
    BY <1>1
  <2>. QED BY <2>1, <2>2, <1>1 DEF UseInv, Table!Inum
<1>7. \A q \in Procs : fpc'[q] \in HasInode /\ fpc'[q] # "put" =>
        q # p /\ fpc'[q] = fpc[q] /\ fip'[q] = fip[q] /\ name'[q] = name[q]
  BY <1>2
<1>8. FreeInv'
  <2>1. {"put_free", "put_invalid"} \subseteq HasInode BY DEF HasInode
  <2>2. \A q \in Procs : fpc[q] = "put_invalid" =>
        fpc'[q] = fpc[q] /\ fip'[q] = fip[q] OBVIOUS
  <2>. QED BY <2>1, <2>2, <1>1, <1>7 DEF FreeInv, Table!Nlink
<1>9. NewInv'
  <2>1. {"create_lock", "create_link", "link_lock", "link_inc"} \subseteq HasInode
    BY DEF HasInode
  <2>. QED BY <2>1, <1>1, <1>7 DEF NewInv, Table!Inum
<1>10. NameInv'
  <2>1. {"unlink_lock", "unlink_entry"} \subseteq HasInode BY DEF HasInode
  <2>. QED BY <2>1, <1>1, <1>7 DEF NameInv, Table!Inum
<1>11. Table!LinksCounted'
  <2>1. \A q \in Procs : fpc'[q] \in Between <=> fpc[q] \in Between BY <1>2
  <2>2. \A q \in Procs : fpc[q] \in Between => Table!Inum(q)' = Table!Inum(q)
    BY <1>2 DEF Table!Inum
  <2>. QED BY <2>1, <2>2, LinksFrame
<1>. QED BY <1>4, <1>5, <1>6, <1>8, <1>9, <1>10, <1>11

(* One descriptor is set.                                                  *)
SetsFd(p, d, v) == ofile[p][d] # v /\ ofile' = [ofile EXCEPT ![p][d] = v]

LEMMA SetDescriptor ==
    ASSUME Table!FilesConstants, TableTypes, NEW p \in Procs, NEW d \in Table!Fds,
           NEW v \in Table!FileIds \cup {None},
           SetsFd(p, d, v)
    PROVE  /\ ofile' \in [Procs -> [Table!Fds -> Table!FileIds \cup {None}]]
           /\ \A g \in Table!FileIds :
                /\ Cardinality(Descriptors(g)) \in Nat
                /\ g = v => Cardinality(Descriptors(g)') = Cardinality(Descriptors(g)) + 1
                /\ g = ofile[p][d] =>
                     Cardinality(Descriptors(g)') = Cardinality(Descriptors(g)) - 1
                /\ g \notin {v, ofile[p][d]} =>
                     Cardinality(Descriptors(g)') = Cardinality(Descriptors(g))
<1>1. \A q \in Procs, c \in Table!Fds : <<q, c>> # <<p, d>> => ofile'[q][c] = ofile[q][c]
  BY DEF TableTypes, SetsFd
<1>2. /\ ofile'[p][d] = v /\ ofile[p][d] # v
      /\ ofile' \in [Procs -> [Table!Fds -> Table!FileIds \cup {None}]]
  BY DEF TableTypes, SetsFd
<1>3. ASSUME NEW g \in Table!FileIds
      PROVE  /\ Cardinality(Descriptors(g)) \in Nat
             /\ g = v => Cardinality(Descriptors(g)') = Cardinality(Descriptors(g)) + 1
             /\ g = ofile[p][d] =>
                 Cardinality(Descriptors(g)') = Cardinality(Descriptors(g)) - 1
             /\ g \notin {v, ofile[p][d]} =>
                  Cardinality(Descriptors(g)') = Cardinality(Descriptors(g))
  <2>. DEFINE A == Descriptors(g)
              B == Descriptors(g)'
              D == Procs \X Table!Fds
              x == <<p, d>>
  <2>1. A \in SUBSET D /\ B \in SUBSET D /\ x \in D BY DEF Descriptors
  <2>2. \A y \in D : y # x => (y \in A <=> y \in B)
    <3>1. ASSUME NEW y \in D, y # x PROVE ofile'[y[1]][y[2]] = ofile[y[1]][y[2]]
      <4>1. y = <<y[1], y[2]>> /\ y[1] \in Procs /\ y[2] \in Table!Fds OBVIOUS
      <4>. QED BY <4>1, <3>1, <1>1
    <3>. QED BY <3>1 DEF Descriptors
  <2>3. (x \in A <=> ofile[p][d] = g) /\ (x \in B <=> v = g) BY <1>2 DEF Descriptors
  <2>4. IsFiniteSet(D) BY AllFinite
  <2>. HIDE DEF A, B, D, x
  <2>5. /\ Cardinality(A) \in Nat
        /\ (x \in A <=> x \in B) => Cardinality(B) = Cardinality(A)
        /\ x \in A /\ x \notin B => Cardinality(B) = Cardinality(A) - 1
        /\ x \notin A /\ x \in B => Cardinality(B) = Cardinality(A) + 1
    BY <2>1, <2>2, <2>4, OneDiffers
  <2>6. /\ Cardinality(A) \in Nat
        /\ g = v => Cardinality(B) = Cardinality(A) + 1
        /\ g = ofile[p][d] => Cardinality(B) = Cardinality(A) - 1
        /\ g \notin {v, ofile[p][d]} => Cardinality(B) = Cardinality(A)
    BY <2>3, <2>5, <1>2
  <2>. QED BY <2>6 DEF A, B
<1>. QED BY <1>2, <1>3

(* One entry of the file table is set, or the inode of one call.           *)
SetsFile(f, x) == ftable' = [ftable EXCEPT ![f] = x]
Opens(x, s) == x.ref > 0 /\ x.ip = s

LEMMA SetFile ==
    ASSUME Table!FilesConstants, TableTypes, NEW f \in Table!FileIds,
           NEW x \in [ref : Nat, ip : Table!Slots \cup {None}], SetsFile(f, x)
    PROVE  /\ ftable' \in [Table!FileIds -> [ref : Nat, ip : Table!Slots \cup {None}]]
           /\ ftable'[f] = x /\ \A g \in Table!FileIds : g # f => ftable'[g] = ftable[g]
           /\ \A s \in Table!Slots :
                /\ Cardinality(Openings(s)) \in Nat
                /\ (Opens(ftable[f], s) <=> Opens(x, s)) =>
                     Cardinality(Openings(s)') = Cardinality(Openings(s))
                /\ Opens(ftable[f], s) /\ ~Opens(x, s) =>
                     Cardinality(Openings(s)') = Cardinality(Openings(s)) - 1
                /\ ~Opens(ftable[f], s) /\ Opens(x, s) =>
                     Cardinality(Openings(s)') = Cardinality(Openings(s)) + 1
<1>1. /\ ftable' \in [Table!FileIds -> [ref : Nat, ip : Table!Slots \cup {None}]]
      /\ ftable'[f] = x /\ \A g \in Table!FileIds : g # f => ftable'[g] = ftable[g]
  BY DEF TableTypes, SetsFile
<1>2. ASSUME NEW s \in Table!Slots
      PROVE  /\ Cardinality(Openings(s)) \in Nat
             /\ (Opens(ftable[f], s) <=> Opens(x, s)) =>
                  Cardinality(Openings(s)') = Cardinality(Openings(s))
             /\ Opens(ftable[f], s) /\ ~Opens(x, s) =>
                  Cardinality(Openings(s)') = Cardinality(Openings(s)) - 1
             /\ ~Opens(ftable[f], s) /\ Opens(x, s) =>
                  Cardinality(Openings(s)') = Cardinality(Openings(s)) + 1
  <2>. DEFINE A == Openings(s)
              B == Openings(s)'
  <2>1. A \in SUBSET Table!FileIds /\ B \in SUBSET Table!FileIds BY DEF Openings
  <2>2. \A g \in Table!FileIds : g # f => (g \in A <=> g \in B) BY <1>1 DEF Openings
  <2>3. (f \in A <=> Opens(ftable[f], s)) /\ (f \in B <=> Opens(x, s))
    BY <1>1 DEF Openings, Opens
  <2>. HIDE DEF A, B
  <2>4. /\ Cardinality(A) \in Nat
        /\ (f \in A <=> f \in B) => Cardinality(B) = Cardinality(A)
        /\ f \in A /\ f \notin B => Cardinality(B) = Cardinality(A) - 1
        /\ f \notin A /\ f \in B => Cardinality(B) = Cardinality(A) + 1
    BY <2>1, <2>2, AllFinite, OneDiffers
  <2>. QED BY <2>3, <2>4 DEF A, B
<1>. QED BY <1>1, <1>2

SetsIp(p, v) == fip' = [fip EXCEPT ![p] = v]

LEMMA SetCaller ==
    ASSUME Table!FilesConstants, TableTypes, NEW p \in Procs,
           NEW v \in Table!Slots \cup {None}, SetsIp(p, v)
    PROVE  \A s \in Table!Slots :
             /\ Cardinality(Callers(s)) \in Nat
             /\ (fip[p] = s <=> v = s) => Cardinality(Callers(s)') = Cardinality(Callers(s))
             /\ fip[p] = s /\ v # s => Cardinality(Callers(s)') = Cardinality(Callers(s)) - 1
             /\ fip[p] # s /\ v = s => Cardinality(Callers(s)') = Cardinality(Callers(s)) + 1
<1>1. fip'[p] = v /\ \A q \in Procs : q # p => fip'[q] = fip[q]
  BY DEF TableTypes, SetsIp
<1>2. ASSUME NEW s \in Table!Slots
      PROVE  /\ Cardinality(Callers(s)) \in Nat
             /\ (fip[p] = s <=> v = s) => Cardinality(Callers(s)') = Cardinality(Callers(s))
             /\ fip[p] = s /\ v # s => Cardinality(Callers(s)') = Cardinality(Callers(s)) - 1
             /\ fip[p] # s /\ v = s => Cardinality(Callers(s)') = Cardinality(Callers(s)) + 1
  <2>. DEFINE A == Callers(s)
              B == Callers(s)'
  <2>1. A \in SUBSET Procs /\ B \in SUBSET Procs BY DEF Callers
  <2>2. \A q \in Procs : q # p => (q \in A <=> q \in B) BY <1>1 DEF Callers
  <2>3. (p \in A <=> fip[p] = s) /\ (p \in B <=> v = s) BY <1>1 DEF Callers
  <2>. HIDE DEF A, B
  <2>4. /\ Cardinality(A) \in Nat
        /\ (p \in A <=> p \in B) => Cardinality(B) = Cardinality(A)
        /\ p \in A /\ p \notin B => Cardinality(B) = Cardinality(A) - 1
        /\ p \notin A /\ p \in B => Cardinality(B) = Cardinality(A) + 1
    BY <2>1, <2>2, AllFinite, OneDiffers
  <2>. QED BY <2>3, <2>4 DEF A, B
<1>. QED BY <1>2

(* The free descriptor and the free file that are taken.                   *)
LEMMA FreeOnes ==
    ASSUME Table!FilesConstants, NEW p \in Procs
    PROVE  /\ Table!FreeFds(p) # {} => Min(Table!FreeFds(p)) \in Table!FreeFds(p)
           /\ Table!FreeFiles # {} => Min(Table!FreeFiles) \in Table!FreeFiles
           /\ Table!FreeInums # {} => Min(Table!FreeInums) \in Table!FreeInums
<1>1. Table!FreeFds(p) \subseteq Table!Fds /\ Table!FreeFiles \subseteq Table!FileIds /\ Table!FreeInums \subseteq Table!Inums
  BY DEF Table!FreeFds, Table!FreeFiles, Table!FreeInums
<1>2. Table!Fds \subseteq Int /\ Table!FileIds \subseteq Int /\ Table!Inums \subseteq Int
  BY DEF Table!Fds, Table!FileIds, Table!Inums
<1>3. IsFiniteSet(Table!FreeFds(p)) /\ IsFiniteSet(Table!FreeFiles) /\ IsFiniteSet(Table!FreeInums)
  BY <1>1, AllFinite, FS_Subset
<1>. QED BY <1>1, <1>2, <1>3, MinIsLeast

(* sys_open(): the reference of the call becomes that of the new file.     *)
LEMMA OpenFileStep ==
    ASSUME Table!FilesConstants, FilesInv, NEW p \in Procs, Table!open_file(p)
    PROVE  FilesInv'
<1>. USE DEF FilesInv
<1>1. /\ fpc[p] = "open_file" /\ iowner' = [iowner EXCEPT ![fip[p]] = None]
      /\ UNCHANGED <<Table!disk, itable, dirowner>>
  BY DEF Table!open_file, Table!iunlock
<1>2. /\ fpc[p] \in HasInode \ WrittenOff /\ fpc[p] \notin WrittenOff /\ fip[p] \in Table!Slots
      /\ type[Table!Inum(p)] /\ fip[p] # None
  <2>1. fpc[p] \in HasInode \ WrittenOff BY <1>1 DEF HasInode, WrittenOff
  <2>. QED BY <2>1, WhoRefers, AllFinite DEF UseInv
<1>3. iowner' \in [Table!Slots -> Procs \cup {None}] BY <1>1 DEF TableTypes
<1>4. CASE Table!FreeFiles # {} /\ Table!FreeFds(p) # {}
  <2>. DEFINE f == Min(Table!FreeFiles)
              d == Min(Table!FreeFds(p))
              x == [ref |-> 1, ip |-> fip[p]]
  <2>1. /\ f \in Table!FileIds /\ ftable[f].ref = 0 /\ d \in Table!Fds /\ ofile[p][d] = None
        /\ x \in [ref : Nat, ip : Table!Slots \cup {None}] /\ x.ref = 1 /\ x.ip = fip[p]
    BY <1>2, <1>4, FreeOnes DEF Table!FreeFiles, Table!FreeFds
  <2>2. /\ ftable' = [ftable EXCEPT ![f] = x] /\ ofile' = [ofile EXCEPT ![p][d] = f]
        /\ fpc' = [fpc EXCEPT ![p] = "idle"] /\ fip' = [fip EXCEPT ![p] = None]
        /\ name' = [name EXCEPT ![p] = None]
    BY SameSizes, <1>4 DEF Table!open_file, Table!Return, Table!Goto
  <2>. HIDE DEF f, d, x
  <2>3. f # None /\ None \notin Table!FileIds BY <2>1, AllFinite
  <2>4. /\ \A q \in Procs : q # p =>
            fpc'[q] = fpc[q] /\ fip'[q] = fip[q] /\ name'[q] = name[q]
        /\ fpc'[p] = "idle" /\ fip'[p] = None
        /\ fpc' \in [Procs -> HasInode \cup {"idle", "create", "unlink", "panic"}]
        /\ fip' \in [Procs -> Table!Slots \cup {None}] /\ name' \in [Procs -> FileNames \cup {None}]
    BY <2>2 DEF TableTypes
  <2>5. /\ ftable' \in [Table!FileIds -> [ref : Nat, ip : Table!Slots \cup {None}]] /\ ftable'[f] = x
        /\ \A g \in Table!FileIds : g # f => ftable'[g] = ftable[g]
        /\ \A s \in Table!Slots :
             /\ Cardinality(Openings(s)) \in Nat
             /\ s # fip[p] => Cardinality(Openings(s)') = Cardinality(Openings(s))
             /\ s = fip[p] => Cardinality(Openings(s)') = Cardinality(Openings(s)) + 1
    <3>1. SetsFile(f, x) BY <2>2 DEF SetsFile
    <3>2. \A s \in Table!Slots : ~Opens(ftable[f], s) /\ (Opens(x, s) <=> s = fip[p])
      BY <2>1 DEF Opens
    <3>. QED BY <2>1, <3>1, <3>2, SetFile
  <2>6. /\ ofile' \in [Procs -> [Table!Fds -> Table!FileIds \cup {None}]]
        /\ \A g \in Table!FileIds :
             /\ Cardinality(Descriptors(g)) \in Nat
             /\ g = f => Cardinality(Descriptors(g)') = Cardinality(Descriptors(g)) + 1
             /\ g # f => Cardinality(Descriptors(g)') = Cardinality(Descriptors(g))
    <3>1. f \in Table!FileIds \cup {None} /\ SetsFd(p, d, f)
      BY <2>1, <2>2, <2>3 DEF SetsFd
    <3>2. /\ ofile' \in [Procs -> [Table!Fds -> Table!FileIds \cup {None}]]
          /\ \A g \in Table!FileIds :
               /\ Cardinality(Descriptors(g)) \in Nat
               /\ g = f => Cardinality(Descriptors(g)') = Cardinality(Descriptors(g)) + 1
               /\ g \notin {f, ofile[p][d]} =>
                    Cardinality(Descriptors(g)') = Cardinality(Descriptors(g))
      BY <3>1, <2>1, SetDescriptor
    <3>. QED BY <3>2, <2>1, <2>3
  <2>7. \A s \in Table!Slots :
          /\ Cardinality(Callers(s)) \in Nat
          /\ s # fip[p] => Cardinality(Callers(s)') = Cardinality(Callers(s))
          /\ s = fip[p] => Cardinality(Callers(s)') = Cardinality(Callers(s)) - 1
    <3>1. None \notin Table!Slots BY AllFinite
    <3>2. SetsIp(p, None) BY <2>2 DEF SetsIp
    <3>. QED BY <3>1, <3>2, <1>2, SetCaller
  <2>8. Table!RefsCounted'
    <3>1. \A g \in Table!FileIds : ftable'[g].ref = Cardinality(Descriptors(g)')
      BY <2>1, <2>5, <2>6, Refs
    <3>2. \A s \in Table!Slots :
            itable'[s].ref = Cardinality(Openings(s)') + Cardinality(Callers(s)')
      BY <2>5, <2>7, <1>1, Refs
    <3>. QED
      BY SameSizes, <3>1, <3>2 DEF Table!RefsCounted, Descriptors, Openings, Callers
  <2>9. TableTypes'
    <3>0. "idle" \notin HasInode BY DEF HasInode
    <3>1. \A q \in Procs : fip'[q] # None <=> fpc'[q] \in HasInode
      BY <3>0, <2>4 DEF TableTypes
    <3>2. \A q \in Procs : fpc'[q] \in HasName => name'[q] \in FileNames
      BY <2>4 DEF TableTypes, HasName
    <3>3. \A g \in Table!FileIds : ftable'[g].ref > 0 => ftable'[g].ip \in Table!Slots
      BY <2>1, <2>5, <1>2 DEF TableTypes
    <3>. QED
      BY <3>1, <3>2, <3>3, <2>4, <2>5, <2>6, <1>1, <1>3 DEF TableTypes, Table!disk
  <2>10. \A g \in Table!FileIds : ftable'[g].ref > 0 => type[itable[ftable'[g].ip].inum]
    BY <2>1, <2>5, <1>2 DEF UseInv, Table!Inum
  <2>. QED BY <2>4, <2>8, <2>9, <2>10, <1>1, FileStep
<1>5. CASE ~(Table!FreeFiles # {} /\ Table!FreeFds(p) # {})
  <2>1. fpc' = [fpc EXCEPT ![p] = "put"] /\ UNCHANGED <<ftable, ofile, fip, name>>
    BY <1>5 DEF Table!open_file, Table!Goto
  <2>2. /\ \A q \in Procs : q # p => fpc'[q] = fpc[q]
        /\ fpc'[p] = "put" /\ fpc' \in [Procs -> HasInode \cup {"idle", "create", "unlink", "panic"}]
    BY <2>1 DEF TableTypes, HasInode
  <2>3. TableTypes'
    <3>1. \A q \in Procs : fip'[q] # None <=> fpc'[q] \in HasInode
      BY <2>1, <2>2, <1>2 DEF TableTypes, HasInode
    <3>2. \A q \in Procs : fpc'[q] \in HasName => name'[q] \in FileNames
      BY <2>1, <2>2 DEF TableTypes, HasName
    <3>. QED BY <3>1, <3>2, <2>1, <2>2, <1>1, <1>3 DEF TableTypes, Table!disk
  <2>4. Table!RefsCounted' BY <2>1, <1>1, RefsFrame
  <2>5. \A g \in Table!FileIds : ftable'[g].ref > 0 => type[itable[ftable'[g].ip].inum]
    BY <2>1 DEF UseInv
  <2>. QED BY <2>1, <2>2, <2>3, <2>4, <2>5, <1>1, <1>2, FileStep DEF Table!Inum
<1>. QED BY <1>4, <1>5

(* sys_dup(): another descriptor of a file that is open.                   *)
LEMMA DupStep ==
    ASSUME Table!FilesConstants, FilesInv, NEW p \in Procs, NEW c \in Table!Fds,
           Table!dup(p, c)
    PROVE  FilesInv'
<1>. USE DEF FilesInv
<1>. DEFINE f == ofile[p][c]
            d == Min(Table!FreeFds(p))
            x == [ref |-> ftable[f].ref + 1, ip |-> ftable[f].ip]
<1>1. /\ fpc[p] = "idle" /\ UNCHANGED <<itable, iowner, dirowner, fpc, fip, name>>
      /\ UNCHANGED <<dir, type, nlink>> /\ UNCHANGED Table!disk
  BY DEF Table!dup, Table!locals, Table!disk
<1>2. /\ f \in Table!FileIds /\ f # None /\ ftable[f].ref > 0 /\ d \in Table!Fds /\ ofile[p][d] = None
      /\ ftable[f] \in [ref : Nat, ip : Table!Slots \cup {None}]
  <2>1. f # None /\ Table!FreeFds(p) # {} BY DEF Table!dup
  <2>2. f \in Table!FileIds BY <2>1 DEF TableTypes
  <2>3. ftable[f].ref > 0 BY <2>1, WhoRefers
  <2>4. d \in Table!Fds /\ ofile[p][d] = None BY <2>1, FreeOnes DEF Table!FreeFds
  <2>. QED BY <2>1, <2>2, <2>3, <2>4 DEF TableTypes
<1>3. ofile' = [ofile EXCEPT ![p][d] = f] /\ ftable' = [ftable EXCEPT ![f] = x]
  <2>1. ftable' = [ftable EXCEPT ![f].ref = @ + 1] BY DEF Table!dup
  <2>2. [ftable[f] EXCEPT !.ref = ftable[f].ref + 1] = x BY <1>2
  <2>3. ftable' = [ftable EXCEPT ![f] = [ftable[f] EXCEPT !.ref = ftable[f].ref + 1]]
    BY <2>1
  <2>. QED BY SameSizes, <2>2, <2>3 DEF Table!dup
<1>4. /\ x \in [ref : Nat, ip : Table!Slots \cup {None}] /\ x.ref > 0 /\ x.ip = ftable[f].ip
      /\ x.ref = ftable[f].ref + 1
  BY <1>2
<1>. HIDE DEF f, d, x
<1>5. /\ ftable' \in [Table!FileIds -> [ref : Nat, ip : Table!Slots \cup {None}]] /\ ftable'[f] = x
      /\ \A g \in Table!FileIds : g # f => ftable'[g] = ftable[g]
      /\ \A s \in Table!Slots : Cardinality(Openings(s)') = Cardinality(Openings(s))
  <2>1. SetsFile(f, x) BY <1>3 DEF SetsFile
  <2>2. \A s \in Table!Slots : Opens(ftable[f], s) <=> Opens(x, s)
    BY <1>2, <1>4 DEF Opens
  <2>. QED BY <2>1, <2>2, <1>2, <1>4, SetFile
<1>6. /\ ofile' \in [Procs -> [Table!Fds -> Table!FileIds \cup {None}]]
      /\ \A g \in Table!FileIds :
           /\ Cardinality(Descriptors(g)) \in Nat
           /\ g = f => Cardinality(Descriptors(g)') = Cardinality(Descriptors(g)) + 1
           /\ g # f => Cardinality(Descriptors(g)') = Cardinality(Descriptors(g))
  <2>1. f \in Table!FileIds \cup {None} /\ SetsFd(p, d, f) BY <1>2, <1>3 DEF SetsFd
  <2>2. None \notin Table!FileIds BY AllFinite
  <2>. QED BY <2>1, <2>2, <1>2, SetDescriptor
<1>7. Table!RefsCounted'
  <2>1. \A g \in Table!FileIds : ftable'[g].ref = Cardinality(Descriptors(g)')
    BY <1>2, <1>4, <1>5, <1>6, Refs
  <2>2. \A s \in Table!Slots : Callers(s)' = Callers(s) BY <1>1 DEF Callers
  <2>3. \A s \in Table!Slots :
        itable'[s].ref = Cardinality(Openings(s)') + Cardinality(Callers(s)')
    BY <2>2, <1>1, <1>5, Refs
  <2>. QED
    BY SameSizes, <2>1, <2>3 DEF Table!RefsCounted, Descriptors, Openings, Callers
<1>8. TableTypes'
  <2>1. \A g \in Table!FileIds : ftable'[g].ref > 0 => ftable'[g].ip \in Table!Slots
    BY <1>2, <1>4, <1>5 DEF TableTypes
  <2>. QED BY <2>1, <1>1, <1>5, <1>6 DEF TableTypes
<1>9. \A g \in Table!FileIds : ftable'[g].ref > 0 => type[itable[ftable'[g].ip].inum]
  BY <1>2, <1>4, <1>5 DEF UseInv
<1>. QED BY <1>1, <1>7, <1>8, <1>9, FileStep

(* fork(): the child has all the descriptors of its parent.                *)
LEMMA ForkStep ==
    ASSUME Table!FilesConstants, FilesInv, NEW p \in Procs, NEW q \in Procs \ {p},
           Table!fork(p, q)
    PROVE  FilesInv'
<1>. USE DEF FilesInv
<1>. DEFINE mine(f) == {d \in Table!Fds : ofile[p][d] = f}
<1>1. /\ fpc[p] = "idle" /\ UNCHANGED <<itable, iowner, dirowner, fpc, fip, name>>
      /\ UNCHANGED <<dir, type, nlink>> /\ UNCHANGED Table!disk
      /\ ofile' = [ofile EXCEPT ![q] = ofile[p]] /\ \A d \in Table!Fds : ofile[q][d] = None
      /\ ftable' = [f \in Table!FileIds |->
           [ftable[f] EXCEPT !.ref = ftable[f].ref + Cardinality(mine(f))]]
  BY SameSizes DEF Table!fork, Table!FreeFds, Table!locals, Table!disk
<1>2. \A f \in Table!FileIds : mine(f) \in SUBSET Table!Fds /\ Cardinality(mine(f)) \in Nat
  BY AllFinite, SmallSets
<1>3. \A f \in Table!FileIds : Cardinality(Descriptors(f)') = Cardinality(Descriptors(f))
                                                              + Cardinality(mine(f))
  <2>1. ASSUME NEW f \in Table!FileIds
        PROVE  Cardinality(Descriptors(f)') = Cardinality(Descriptors(f)) + Cardinality(mine(f))
    <3>. DEFINE A == Descriptors(f)
                M == mine(f)
                B == {q} \X M
    <3>1. f # None BY AllFinite
    <3>2. \A r \in Procs : ofile'[r] = IF r = q THEN ofile[p] ELSE ofile[r]
      BY <1>1 DEF TableTypes
    <3>3. Descriptors(f)' = A \cup B
      <4>1. ASSUME NEW y \in Procs \X Table!Fds
            PROVE  ofile'[y[1]][y[2]] = f <=> y \in A \/ y \in B
        <5>1. y = <<y[1], y[2]>> /\ y[1] \in Procs /\ y[2] \in Table!Fds OBVIOUS
        <5>2. y \in A <=> ofile[y[1]][y[2]] = f BY DEF Descriptors
        <5>3. y \in B <=> y[1] = q /\ ofile[p][y[2]] = f BY <5>1
        <5>. QED BY <5>1, <5>2, <5>3, <3>1, <3>2, <1>1
      <4>2. A \subseteq Procs \X Table!Fds /\ B \subseteq Procs \X Table!Fds
        BY DEF Descriptors
      <4>. QED BY <4>1, <4>2 DEF Descriptors
    <3>4. A \cap B = {}
      <4>1. \A y \in A : ofile[y[1]][y[2]] = f /\ y[2] \in Table!Fds BY DEF Descriptors
      <4>2. \A y \in B : y[1] = q OBVIOUS
      <4>. QED BY <4>1, <4>2, <3>1, <1>1
    <3>5. A \in SUBSET (Procs \X Table!Fds) /\ M \in SUBSET Table!Fds BY DEF Descriptors
    <3>. HIDE DEF A, M
    <3>6. IsFiniteSet(A) /\ IsFiniteSet(M) /\ Cardinality(A) \in Nat /\ Cardinality(M) \in Nat
      BY <3>5, AllFinite, FS_Subset, FS_CardinalityType
    <3>7. IsFiniteSet({q}) /\ Cardinality({q}) = 1 BY FS_Singleton
    <3>8. IsFiniteSet(B) /\ Cardinality(B) = 1 * Cardinality(M)
      <4>. DEFINE Q == {q}
      <4>. HIDE DEF Q
      <4>1. IsFiniteSet(Q) /\ Cardinality(Q) = 1 BY <3>7 DEF Q
      <4>2. IsFiniteSet(Q \X M) /\ Cardinality(Q \X M) = Cardinality(Q) * Cardinality(M)
        BY <4>1, <3>6, FS_Product
      <4>. QED BY <4>1, <4>2 DEF Q
    <3>. HIDE DEF B
    <3>9. Cardinality(A \cup B) = Cardinality(A) + Cardinality(B) - Cardinality(A \cap B)
      BY <3>6, <3>8, FS_Union
    <3>10. Cardinality({}) = 0 BY FS_EmptySet
    <3>11. Cardinality(A \cap B) = 0 BY <3>4, <3>10
    <3>12. Cardinality(B) = Cardinality(M) BY <3>6, <3>8
    <3>13. Cardinality(A \cup B) = Cardinality(A) + Cardinality(M)
      BY <3>6, <3>9, <3>11, <3>12
    <3>14. Cardinality(Descriptors(f)') = Cardinality(A) + Cardinality(M) BY <3>3, <3>13
    <3>. QED BY <3>14 DEF A, M
  <2>. QED BY <2>1
<1>4. \A f \in Table!FileIds :
        /\ ftable'[f].ref = ftable[f].ref + Cardinality(mine(f))
        /\ ftable'[f].ip = ftable[f].ip /\ ftable'[f] \in [ref : Nat, ip : Table!Slots \cup {None}]
        /\ ftable[f].ref \in Nat
  <2>1. ASSUME NEW f \in Table!FileIds
        PROVE  /\ ftable'[f].ref = ftable[f].ref + Cardinality(mine(f))
               /\ ftable'[f].ip = ftable[f].ip /\ ftable'[f] \in [ref : Nat, ip : Table!Slots \cup {None}]
               /\ ftable[f].ref \in Nat
    <3>. DEFINE n == Cardinality(mine(f))
    <3>1. n \in Nat BY <1>2
    <3>2. ftable'[f] = [ftable[f] EXCEPT !.ref = ftable[f].ref + n] BY <1>1
    <3>3. ftable[f] \in [ref : Nat, ip : Table!Slots \cup {None}] BY DEF TableTypes
    <3>. HIDE DEF n
    <3>4. /\ ftable'[f].ref = ftable[f].ref + n /\ ftable'[f].ip = ftable[f].ip
          /\ ftable'[f] \in [ref : Nat, ip : Table!Slots \cup {None}] /\ ftable[f].ref \in Nat
      BY <3>1, <3>2, <3>3
    <3>. QED BY <3>4 DEF n
  <2>. QED BY <2>1
<1>5. \A f \in Table!FileIds : ftable'[f].ref > 0 <=> ftable[f].ref > 0
  <2>1. ASSUME NEW f \in Table!FileIds, ftable[f].ref = 0 PROVE Cardinality(mine(f)) = 0
    <3>1. mine(f) = {} BY <2>1, WhoRefers, AllFinite
    <3>. QED BY <3>1, FS_EmptySet
  <2>. HIDE DEF mine
  <2>. QED BY <2>1, <1>2, <1>4
<1>. HIDE DEF mine
<1>6. Table!RefsCounted'
  <2>1. \A f \in Table!FileIds : ftable'[f].ref = Cardinality(Descriptors(f)')
    BY <1>3, <1>4, Refs
  <2>2. \A s \in Table!Slots : Callers(s)' = Callers(s) BY <1>1 DEF Callers
  <2>3. \A s \in Table!Slots : Openings(s)' = Openings(s) BY <1>4, <1>5 DEF Openings
  <2>4. \A s \in Table!Slots :
        itable'[s].ref = Cardinality(Openings(s)') + Cardinality(Callers(s)')
    BY <2>2, <2>3, <1>1, Refs
  <2>. QED
    BY SameSizes, <2>1, <2>4 DEF Table!RefsCounted, Descriptors, Openings, Callers
<1>7. TableTypes'
  <2>1. ofile' \in [Procs -> [Table!Fds -> Table!FileIds \cup {None}]]
    BY <1>1 DEF TableTypes
  <2>2. ftable' \in [Table!FileIds -> [ref : Nat, ip : Table!Slots \cup {None}]]
    BY <1>1, <1>4
  <2>3. \A f \in Table!FileIds : ftable'[f].ref > 0 => ftable'[f].ip \in Table!Slots
    BY <1>4, <1>5 DEF TableTypes
  <2>. QED BY <2>1, <2>2, <2>3, <1>1 DEF TableTypes
<1>8. \A f \in Table!FileIds : ftable'[f].ref > 0 => type[itable[ftable'[f].ip].inum]
  BY <1>4, <1>5 DEF UseInv
<1>. QED BY <1>1, <1>6, <1>7, <1>8, FileStep

(* fileclose(): with its last descriptor a file hands its reference to the *)
(* inode to the call.                                                      *)
LEMMA CloseStep ==
    ASSUME Table!FilesConstants, FilesInv, NEW p \in Procs, NEW d \in Table!Fds,
           Table!close(p, d)
    PROVE  FilesInv'
<1>. USE DEF FilesInv
<1>. DEFINE f == ofile[p][d]
<1>1. /\ fpc[p] = "idle" /\ UNCHANGED <<itable, iowner, dirowner, name>>
      /\ UNCHANGED <<dir, type, nlink>> /\ UNCHANGED Table!disk
      /\ ofile' = [ofile EXCEPT ![p][d] = None]
  BY DEF Table!close, Table!locals, Table!disk
<1>2. /\ f \in Table!FileIds /\ f # None /\ ftable[f].ref > 0 /\ ftable[f].ref \in Nat
      /\ ftable[f].ip \in Table!Slots
      /\ ftable[f] \in [ref : Nat, ip : Table!Slots \cup {None}]
  <2>1. f # None BY DEF Table!close
  <2>2. f \in Table!FileIds BY <2>1 DEF TableTypes
  <2>3. ftable[f].ref > 0 BY <2>1, WhoRefers
  <2>. QED BY <2>1, <2>2, <2>3 DEF TableTypes
<1>3. /\ ofile' \in [Procs -> [Table!Fds -> Table!FileIds \cup {None}]]
      /\ \A g \in Table!FileIds :
           /\ Cardinality(Descriptors(g)) \in Nat
           /\ g = f => Cardinality(Descriptors(g)') = Cardinality(Descriptors(g)) - 1
           /\ g # f => Cardinality(Descriptors(g)') = Cardinality(Descriptors(g))
  <2>1. SetsFd(p, d, None) BY <1>1, <1>2 DEF SetsFd
  <2>2. None \notin Table!FileIds BY AllFinite
  <2>. QED BY <2>1, <2>2, SetDescriptor
<1>4. CASE ftable[f].ref > 1
  <2>. DEFINE x == [ref |-> ftable[f].ref - 1, ip |-> ftable[f].ip]
  <2>1. /\ x \in [ref : Nat, ip : Table!Slots \cup {None}] /\ x.ref > 0 /\ x.ip = ftable[f].ip
        /\ x.ref = ftable[f].ref - 1
    BY <1>2, <1>4
  <2>2. UNCHANGED <<fpc, fip, name>> /\ SetsFile(f, x)
    <3>1. UNCHANGED Table!locals /\ ftable' = [ftable EXCEPT ![f].ref = @ - 1]
      BY <1>4 DEF Table!close
    <3>2. ftable' = [ftable EXCEPT ![f] = [ftable[f] EXCEPT !.ref = ftable[f].ref - 1]]
      BY <3>1
    <3>3. [ftable[f] EXCEPT !.ref = ftable[f].ref - 1] = x BY <1>2
    <3>. QED BY <3>1, <3>2, <3>3 DEF SetsFile, Table!locals
  <2>. HIDE DEF f, x
  <2>3. \A s \in Table!Slots : Opens(ftable[f], s) <=> Opens(x, s)
    BY <1>2, <2>1 DEF Opens
  <2>4. /\ ftable' \in [Table!FileIds -> [ref : Nat, ip : Table!Slots \cup {None}]] /\ ftable'[f] = x
        /\ \A g \in Table!FileIds : g # f => ftable'[g] = ftable[g]
        /\ \A s \in Table!Slots : Cardinality(Openings(s)') = Cardinality(Openings(s))
    BY <1>2, <2>1, <2>2, <2>3, SetFile
  <2>5. Table!RefsCounted'
    <3>1. \A g \in Table!FileIds : ftable'[g].ref = Cardinality(Descriptors(g)')
      BY <1>2, <1>3, <2>1, <2>4, Refs
    <3>2. \A s \in Table!Slots : Callers(s)' = Callers(s) BY <2>2 DEF Callers
    <3>3. \A s \in Table!Slots :
          itable'[s].ref = Cardinality(Openings(s)') + Cardinality(Callers(s)')
      BY <3>2, <1>1, <2>4, Refs
    <3>. QED
      BY SameSizes, <3>1, <3>3 DEF Table!RefsCounted, Descriptors, Openings, Callers
  <2>6. TableTypes'
    <3>1. \A g \in Table!FileIds : ftable'[g].ref > 0 => ftable'[g].ip \in Table!Slots
      BY <1>2, <2>1, <2>4 DEF TableTypes
    <3>. QED BY <3>1, <1>1, <1>3, <2>2, <2>4 DEF TableTypes
  <2>7. \A g \in Table!FileIds : ftable'[g].ref > 0 => type[itable[ftable'[g].ip].inum]
    BY <1>2, <2>1, <2>4 DEF UseInv
  <2>. QED BY <1>1, <2>2, <2>5, <2>6, <2>7, FileStep
<1>5. CASE ~(ftable[f].ref > 1)
  <2>. DEFINE s0 == ftable[f].ip
  <2>1. /\ ftable[f].ref = 1 /\ s0 \in Table!Slots /\ s0 # None /\ fip[p] = None
    <3>1. "idle" \notin HasInode BY DEF HasInode
    <3>2. fip[p] = None BY <3>1, <1>1 DEF TableTypes
    <3>3. s0 \in Table!Slots /\ s0 # None BY <1>2, AllFinite
    <3>4. ftable[f].ref = 1 BY <1>2, <1>5
    <3>. QED BY <3>2, <3>3, <3>4
  <2>2. /\ SetsFile(f, Table!NoFile) /\ fip' = [fip EXCEPT ![p] = s0] /\ fpc' = [fpc EXCEPT ![p] = "put"]
    BY <1>5 DEF Table!close, SetsFile, Table!Goto
  <2>3. Table!NoFile \in [ref : Nat, ip : Table!Slots \cup {None}] /\ Table!NoFile.ref = 0
    BY DEF Table!NoFile
  <2>. HIDE DEF f, s0
  <2>4. \A s \in Table!Slots : ~Opens(Table!NoFile, s) /\ (Opens(ftable[f], s) <=> s = s0)
    BY <2>1, <2>3 DEF Opens, s0
  <2>5. /\ ftable' \in [Table!FileIds -> [ref : Nat, ip : Table!Slots \cup {None}]] /\ ftable'[f] = Table!NoFile
        /\ \A g \in Table!FileIds : g # f => ftable'[g] = ftable[g]
        /\ \A s \in Table!Slots :
             /\ Cardinality(Openings(s)) \in Nat
             /\ s = s0 => Cardinality(Openings(s)') = Cardinality(Openings(s)) - 1
             /\ s # s0 => Cardinality(Openings(s)') = Cardinality(Openings(s))
    BY <1>2, <2>2, <2>3, <2>4, SetFile
  <2>6. \A s \in Table!Slots :
          /\ Cardinality(Callers(s)) \in Nat
          /\ s = s0 => Cardinality(Callers(s)') = Cardinality(Callers(s)) + 1
          /\ s # s0 => Cardinality(Callers(s)') = Cardinality(Callers(s))
    <3>1. None \notin Table!Slots BY AllFinite
    <3>2. SetsIp(p, s0) BY <2>2 DEF SetsIp
    <3>. QED BY <3>1, <3>2, <2>1, SetCaller
  <2>7. Table!RefsCounted'
    <3>1. \A g \in Table!FileIds : ftable'[g].ref = Cardinality(Descriptors(g)')
      BY <1>2, <1>3, <2>1, <2>3, <2>5, Refs
    <3>2. \A s \in Table!Slots :
          itable'[s].ref = Cardinality(Openings(s)') + Cardinality(Callers(s)')
      BY <1>1, <2>5, <2>6, Refs
    <3>. QED
      BY SameSizes, <3>1, <3>2 DEF Table!RefsCounted, Descriptors, Openings, Callers
  <2>8. /\ \A q \in Procs : q # p => fpc'[q] = fpc[q] /\ fip'[q] = fip[q]
        /\ fpc'[p] = "put" /\ fip'[p] = s0 /\ "put" \in HasInode
        /\ fpc' \in [Procs -> HasInode \cup {"idle", "create", "unlink", "panic"}]
        /\ fip' \in [Procs -> Table!Slots \cup {None}]
    <3>1. "put" \in HasInode BY DEF HasInode
    <3>. QED BY <3>1, <2>1, <2>2 DEF TableTypes
  <2>9. TableTypes'
    <3>1. \A q \in Procs : fip'[q] # None <=> fpc'[q] \in HasInode
      BY <2>1, <2>8 DEF TableTypes
    <3>2. \A q \in Procs : fpc'[q] \in HasName => name'[q] \in FileNames
      BY <1>1, <2>8 DEF TableTypes, HasName
    <3>3. \A g \in Table!FileIds : ftable'[g].ref > 0 => ftable'[g] = ftable[g]
      BY <2>3, <2>5
    <3>4. \A g \in Table!FileIds : ftable'[g].ref > 0 => ftable'[g].ip \in Table!Slots
      BY <3>3 DEF TableTypes
    <3>. QED BY <3>1, <3>2, <3>4, <1>1, <1>3, <2>5, <2>8 DEF TableTypes
  <2>10. \A g \in Table!FileIds : ftable'[g].ref > 0 => type[itable[ftable'[g].ip].inum]
    BY <2>3, <2>5 DEF UseInv
  <2>11. type[itable[fip'[p]].inum] BY <1>2, <2>8 DEF UseInv, s0
  <2>. QED BY <1>1, <2>7, <2>8, <2>9, <2>10, <2>11, FileStep
<1>. QED BY <1>4, <1>5

-------------------------------------------------------------------------------
(* The links of the inode of a call are counted after a step that changes  *)
(* its names by k, if the link count follows names and calls between.      *)
Moves(p, k) ==
    LET b(l) == IF l \in Between THEN 1 ELSE 0 IN
    /\ fpc[p] \in HasInode /\ type' = type
    /\ \A q \in Procs : q # p => fpc'[q] = fpc[q]
    /\ \A q \in Procs : fpc[q] \in HasInode => Table!Inum(q)' = Table!Inum(q)
    /\ fpc'[p] \in Between => fpc'[p] \in HasInode
    /\ \A j \in Table!Inums : Cardinality(NamesOf(j)') =
         Cardinality(NamesOf(j)) + IF j = Table!Inum(p) THEN k ELSE 0
    /\ \A j \in Table!Inums : j # Table!Inum(p) => nlink'[j] = nlink[j]
    /\ nlink'[Table!Inum(p)] = nlink[Table!Inum(p)] + k + b(fpc'[p]) - b(fpc[p])

LEMMA LinksStep ==
    ASSUME Table!FilesConstants, FilesInv, NEW p \in Procs, NEW k \in Int, Moves(p, k)
    PROVE  Table!LinksCounted'
<1>. USE DEF FilesInv
<1>1. /\ \A q \in Procs : q # p => fpc'[q] = fpc[q]
      /\ \A q \in Procs : fpc[q] \in HasInode => Table!Inum(q)' = Table!Inum(q)
      /\ fpc[p] \in HasInode /\ Table!Inum(p) \in Table!Inums /\ type' = type
  BY WhoRefers DEF Moves
<1>2. ASSUME NEW j \in Table!Inums, type[j]
      PROVE  nlink'[j] = Cardinality(NamesOf(j)') + Cardinality(Changers(j)')
  <2>. DEFINE A == Changers(j)
              B == Changers(j)'
  <2>1. A \in SUBSET Procs /\ B \in SUBSET Procs BY DEF Changers
  <2>2. \A q \in Procs : q # p => (q \in A <=> q \in B)
    BY <1>1, WhoRefers DEF Changers
  <2>3. /\ p \in A <=> fpc[p] \in Between /\ j = Table!Inum(p)
        /\ p \in B <=> fpc'[p] \in Between /\ j = Table!Inum(p)
    BY <1>1 DEF Changers
  <2>4. Cardinality(NamesOf(j)) \in Nat
    <3>1. NamesOf(j) \in SUBSET FileNames BY DEF NamesOf
    <3>. QED BY <3>1, AllFinite, SmallSets
  <2>5. nlink[j] = Cardinality(NamesOf(j)) + Cardinality(A) /\ nlink[j] \in Nat
    BY <1>2, Links DEF TableTypes
  <2>. HIDE DEF A, B
  <2>6. /\ Cardinality(A) \in Nat /\ Cardinality(B) \in Nat
        /\ (p \in A <=> p \in B) => Cardinality(B) = Cardinality(A)
        /\ p \in A /\ p \notin B => Cardinality(B) = Cardinality(A) - 1
        /\ p \notin A /\ p \in B => Cardinality(B) = Cardinality(A) + 1
    BY <2>1, <2>2, AllFinite, OneDiffers
  <2>7. /\ Cardinality(NamesOf(j)') =
             Cardinality(NamesOf(j)) + IF j = Table!Inum(p) THEN k ELSE 0
        /\ j # Table!Inum(p) => nlink'[j] = nlink[j]
        /\ j = Table!Inum(p) =>
            nlink'[j] = nlink[j] + k + (IF fpc'[p] \in Between THEN 1 ELSE 0)
                                              - (IF fpc[p] \in Between THEN 1 ELSE 0)
    BY DEF Moves
  <2>8. nlink'[j] = Cardinality(NamesOf(j)') + Cardinality(B)
    <3>1. CASE j # Table!Inum(p) BY <3>1, <2>3, <2>4, <2>5, <2>6, <2>7
    <3>2. CASE j = Table!Inum(p) BY <3>2, <2>3, <2>4, <2>5, <2>6, <2>7
    <3>. QED BY <3>1, <3>2
  <2>. QED BY <2>8 DEF B
<1>3. \A j \in Table!Inums : type'[j] =>
      nlink'[j] = Cardinality(NamesOf(j)') + Cardinality(Changers(j)')
  BY <1>1, <1>2
<1>. QED
  BY SameSizes, <1>3
    DEF Table!LinksCounted, Table!Linked, Table!Ahead, NamesOf, Changers, Between

(* One name is entered or removed.                                         *)
SetsName(x, v) == dir' = [dir EXCEPT ![x] = v]

LEMMA SetName ==
    ASSUME Table!FilesConstants, TableTypes, NEW x \in FileNames,
           NEW v \in Table!Inums \cup {None}, SetsName(x, v)
    PROVE  /\ dir' \in [FileNames -> Table!Inums \cup {None}]
           /\ dir'[x] = v /\ \A n \in FileNames : n # x => dir'[n] = dir[n]
           /\ \A j \in Table!Inums :
                /\ Cardinality(NamesOf(j)) \in Nat
                /\ (dir[x] = j <=> v = j) =>
                    Cardinality(NamesOf(j)') = Cardinality(NamesOf(j))
                /\ dir[x] = j /\ v # j =>
                    Cardinality(NamesOf(j)') = Cardinality(NamesOf(j)) - 1
                /\ dir[x] # j /\ v = j =>
                    Cardinality(NamesOf(j)') = Cardinality(NamesOf(j)) + 1
<1>1. /\ dir'[x] = v /\ \A n \in FileNames : n # x => dir'[n] = dir[n]
      /\ dir' \in [FileNames -> Table!Inums \cup {None}]
  BY DEF TableTypes, SetsName
<1>2. ASSUME NEW j \in Table!Inums
      PROVE  /\ Cardinality(NamesOf(j)) \in Nat
             /\ (dir[x] = j <=> v = j) => Cardinality(NamesOf(j)') = Cardinality(NamesOf(j))
             /\ dir[x] = j /\ v # j => Cardinality(NamesOf(j)') = Cardinality(NamesOf(j)) - 1
             /\ dir[x] # j /\ v = j => Cardinality(NamesOf(j)') = Cardinality(NamesOf(j)) + 1
  <2>. DEFINE A == NamesOf(j)
              B == NamesOf(j)'
  <2>1. A \in SUBSET FileNames /\ B \in SUBSET FileNames BY DEF NamesOf
  <2>2. \A n \in FileNames : n # x => (n \in A <=> n \in B) BY <1>1 DEF NamesOf
  <2>3. (x \in A <=> dir[x] = j) /\ (x \in B <=> v = j) BY <1>1 DEF NamesOf
  <2>. HIDE DEF A, B
  <2>4. /\ Cardinality(A) \in Nat
        /\ (x \in A <=> x \in B) => Cardinality(B) = Cardinality(A)
        /\ x \in A /\ x \notin B => Cardinality(B) = Cardinality(A) - 1
        /\ x \notin A /\ x \in B => Cardinality(B) = Cardinality(A) + 1
    BY <2>1, <2>2, AllFinite, OneDiffers
  <2>. QED BY <2>3, <2>4 DEF A, B
<1>. QED BY <1>1, <1>2

(* Who has the inode locked sees its link count in the table.              *)
LEMMA Locked ==
    ASSUME Table!FilesConstants, FilesInv, NEW p \in Procs, fpc[p] \in Holds \ WrittenOff
    PROVE  /\ fip[p] \in Table!Slots /\ Table!Inum(p) \in Table!Inums /\ type[Table!Inum(p)] /\ fpc[p] \in HasInode
           /\ Table!Nlink(p) = nlink[Table!Inum(p)] /\ Table!Nlink(p) \in Nat
           /\ fpc[p] \in Between => Table!Nlink(p) - 1 \in Nat
           /\ fpc[p] = "unlink_entry" => Table!Nlink(p) > 0
<1>. USE DEF FilesInv
<1>1. fip[p] \in Table!Slots /\ Table!Inum(p) \in Table!Inums /\ itable[fip[p]].ref > 0 /\ fpc[p] \in HasInode
  BY WhoRefers
<1>2. type[Table!Inum(p)] BY <1>1 DEF UseInv
<1>3. itable[fip[p]].valid BY DEF TableInv
<1>4. Table!Nlink(p) = nlink[Table!Inum(p)]
  BY <1>1, <1>3 DEF TableInv, Table!Nlink, Table!Inum
<1>5. nlink[Table!Inum(p)] \in Nat BY <1>1 DEF TableTypes
<1>6. fpc[p] \in Between => nlink[Table!Inum(p)] > 0 BY <1>1, <1>2, Counts
<1>7. fpc[p] = "unlink_entry" => nlink[Table!Inum(p)] > 0
  <2>1. ASSUME fpc[p] = "unlink_entry"
        PROVE  name[p] \in FileNames /\ dir[name[p]] = Table!Inum(p)
    BY <2>1 DEF NameInv, TableTypes, HasName
  <2>. QED BY <2>1, <1>1, <1>2, Counts
<1>. QED BY <1>1, <1>2, <1>4, <1>5, <1>6, <1>7

LEMMA Recount ==
    ASSUME Table!FilesConstants, FilesInv, NEW p \in Procs, fpc[p] \in Holds \ WrittenOff,
           NEW n \in Nat, Table!SetNlink(p, n), fip' = fip
    PROVE  /\ \A q \in Procs : fpc[q] \in HasInode => Table!Inum(q)' = Table!Inum(q)
           /\ nlink'[Table!Inum(p)] = n /\ \A j \in Table!Inums : j # Table!Inum(p) =>
               nlink'[j] = nlink[j]
<1>. USE DEF FilesInv
<1>1. fip[p] \in Table!Slots /\ Table!Inum(p) \in Table!Inums BY Locked
<1>2. nlink' = [nlink EXCEPT ![Table!Inum(p)] = n] /\ itable' = [itable EXCEPT ![fip[p]].nlink = n]
  BY DEF Table!SetNlink
<1>3. \A s \in Table!Slots : itable'[s].inum = itable[s].inum
  <2>1. itable[fip[p]] \in Entries BY <1>1 DEF TableTypes
  <2>. QED BY <2>1, <1>1, <1>2 DEF TableTypes, Entries
<1>4. \A q \in Procs : fpc[q] \in HasInode => fip[q] \in Table!Slots BY WhoRefers
<1>. QED BY <1>1, <1>2, <1>3, <1>4 DEF Table!Inum, TableTypes

(* link_inc, link_dec, unlink_dec: a count, and no name.                   *)
LEMMA CountOnly ==
    ASSUME Table!FilesConstants, FilesInv, NEW p \in Procs,
           Table!link_inc(p) \/ Table!link_dec(p) \/ Table!unlink_dec(p)
    PROVE  FilesInv'
<1>. USE DEF FilesInv
<1>. DEFINE n == IF fpc[p] = "link_inc" THEN Table!Nlink(p) + 1 ELSE Table!Nlink(p) - 1
            l == IF fpc[p] = "link_inc" THEN "link_dir" ELSE "put"
<1>1. /\ fpc[p] \in {"link_inc", "link_dec", "unlink_dec"}
      /\ Table!SetNlink(p, n) /\ fpc' = [fpc EXCEPT ![p] = l]
      /\ iowner' = [iowner EXCEPT ![fip[p]] = None]
      /\ UNCHANGED <<dir, type, dirowner, ftable, ofile, fip, name>>
  BY DEF Table!link_inc, Table!link_dec, Table!unlink_dec, Table!iunlock, Table!Goto
<1>2. /\ fpc[p] \in Holds \ WrittenOff /\ fpc[p] \in HasInode
      /\ fpc[p] \in Between <=> fpc[p] # "link_inc"
      /\ l \in {"link_dir", "put"} /\ l \in HasInode
      /\ l \in Between <=> fpc[p] = "link_inc"
      /\ l = "link_dir" => name[p] \in FileNames
  BY <1>1 DEF Holds, HasInode, WrittenOff, Between, TableTypes, HasName
<1>3. n \in Nat /\ Table!Nlink(p) = nlink[Table!Inum(p)] /\ Table!Nlink(p) \in Nat /\ Table!Inum(p) \in Table!Inums
  BY <1>2, Locked
<1>4. n = nlink[Table!Inum(p)] + 0 + (IF l \in Between THEN 1 ELSE 0)
                                 - (IF fpc[p] \in Between THEN 1 ELSE 0)
  BY <1>2, <1>3
<1>. HIDE DEF n, l
<1>5. Moves(p, 0)
  <2>1. fpc'[p] = l /\ \A q \in Procs : q # p => fpc'[q] = fpc[q] BY <1>1 DEF TableTypes
  <2>2. /\ \A q \in Procs : fpc[q] \in HasInode => Table!Inum(q)' = Table!Inum(q)
        /\ nlink'[Table!Inum(p)] = n /\ \A j \in Table!Inums : j # Table!Inum(p) =>
            nlink'[j] = nlink[j]
    BY <1>1, <1>2, <1>3, Recount
  <2>3. \A j \in Table!Inums : NamesOf(j)' = NamesOf(j) BY <1>1 DEF NamesOf
  <2>4. \A j \in Table!Inums : Cardinality(NamesOf(j)) \in Nat
    <3>1. \A j \in Table!Inums : NamesOf(j) \in SUBSET FileNames BY DEF NamesOf
    <3>. QED BY <3>1, AllFinite, SmallSets
  <2>. QED BY <2>1, <2>2, <2>3, <2>4, <1>1, <1>2, <1>4 DEF Moves
<1>6. Table!LinksCounted' BY <1>5, LinksStep
<1>7. dirowner' \in Procs \cup {None} /\ dir' \in [FileNames -> Table!Inums \cup {None}]
  BY <1>1 DEF TableTypes
<1>8. iowner' = IF l = "open_file" THEN iowner ELSE [iowner EXCEPT ![fip[p]] = None]
  BY <1>1, <1>2
<1>. QED BY <1>1, <1>2, <1>3, <1>6, <1>7, <1>8, CountStep

(* create(): the first link of a new inode, or none.                       *)
LEMMA CreateStep ==
    ASSUME Table!FilesConstants, FilesInv, NEW p \in Procs,
           Table!create_link(p) \/ Table!create_fail(p)
    PROVE  FilesInv'
<1>. USE DEF FilesInv
<1>1. /\ fpc[p] = "create_link" /\ UNCHANGED <<type, ftable, ofile, fip, name>>
      /\ fpc[p] \in Holds \ WrittenOff /\ fpc[p] \in HasInode /\ fpc[p] \notin Between
      /\ name[p] \in FileNames /\ dirowner = p
  BY DEF Table!create_link, Table!create_fail, Holds, HasInode, WrittenOff, Between,
         TableTypes, HasName, TableLockInv, HoldsDir
<1>2. /\ nlink[Table!Inum(p)] = 0 /\ dir[name[p]] = None /\ Table!Inum(p) \in Table!Inums /\ None \notin Table!Inums
  BY <1>1, Locked, AllFinite DEF NewInv
<1>3. CASE Table!create_link(p)
  <2>1. /\ Table!SetNlink(p, 1) /\ SetsName(name[p], Table!Inum(p)) /\ dirowner' = None
        /\ fpc' = [fpc EXCEPT ![p] = "open_file"] /\ iowner' = iowner
    BY <1>1, <1>3 DEF Table!create_link, SetsName, Table!LetDir, Table!Goto
  <2>2. /\ dir' \in [FileNames -> Table!Inums \cup {None}] /\ dir'[name[p]] = Table!Inum(p)
        /\ \A m \in FileNames : m # name[p] => dir'[m] = dir[m]
        /\ \A j \in Table!Inums : Cardinality(NamesOf(j)') =
             Cardinality(NamesOf(j)) + IF j = Table!Inum(p) THEN 1 ELSE 0
    BY <2>1, <1>1, <1>2, SetName
  <2>3. /\ fpc'[p] = "open_file" /\ \A q \in Procs : q # p => fpc'[q] = fpc[q]
    BY <2>1 DEF TableTypes
  <2>4. /\ \A q \in Procs : fpc[q] \in HasInode => Table!Inum(q)' = Table!Inum(q)
        /\ nlink'[Table!Inum(p)] = 1 /\ \A j \in Table!Inums : j # Table!Inum(p) =>
            nlink'[j] = nlink[j]
    BY <2>1, <1>1, Recount
  <2>5. "open_file" \notin Between BY DEF Between
  <2>6. Moves(p, 1) BY <2>2, <2>3, <2>4, <2>5, <1>1, <1>2 DEF Moves
  <2>7. Table!LinksCounted' BY <2>6, LinksStep
  <2>8. \A m \in FileNames :
        dir'[m] = dir[m] \/ (fpc[p] = "create_link" /\ dir'[m] = Table!Inum(p))
    BY <2>2, <1>1
  <2>9. \A q \in Procs : q # p /\ dirowner = q => dirowner' = q BY <1>1
  <2>. QED BY <2>1, <2>2, <2>7, <2>8, <2>9, <1>1, CountStep
<1>4. CASE Table!create_fail(p)
  <2>1. /\ Table!SetNlink(p, 0) /\ UNCHANGED <<dir, dirowner>>
        /\ fpc' = [fpc EXCEPT ![p] = "put"] /\ iowner' = [iowner EXCEPT ![fip[p]] = None]
    BY <1>4 DEF Table!create_fail, Table!iunlock, Table!Goto
  <2>2. fpc'[p] = "put" /\ \A q \in Procs : q # p => fpc'[q] = fpc[q]
    BY <2>1 DEF TableTypes
  <2>3. /\ \A q \in Procs : fpc[q] \in HasInode => Table!Inum(q)' = Table!Inum(q)
        /\ nlink'[Table!Inum(p)] = 0 /\ \A j \in Table!Inums : j # Table!Inum(p) =>
            nlink'[j] = nlink[j]
    BY <2>1, <1>1, Recount
  <2>4. "put" \notin Between BY DEF Between
  <2>5. \A j \in Table!Inums : NamesOf(j)' = NamesOf(j) BY <2>1 DEF NamesOf
  <2>6. \A j \in Table!Inums : Cardinality(NamesOf(j)) \in Nat
    <3>1. \A j \in Table!Inums : NamesOf(j) \in SUBSET FileNames BY DEF NamesOf
    <3>. QED BY <3>1, AllFinite, SmallSets
  <2>7. Moves(p, 0) BY <2>2, <2>3, <2>4, <2>5, <2>6, <1>1, <1>2 DEF Moves
  <2>8. Table!LinksCounted' BY <2>7, LinksStep
  <2>9. dirowner' \in Procs \cup {None} /\ dir' \in [FileNames -> Table!Inums \cup {None}]
    BY <2>1 DEF TableTypes
  <2>. QED BY <2>1, <2>8, <2>9, <1>1, CountStep
<1>. QED BY <1>3, <1>4

(* link_dir: the entry of the new name, unless it exists or has no room.   *)
LEMMA LinkDirStep ==
    ASSUME Table!FilesConstants, FilesInv, NEW p \in Procs, Table!link_dir(p)
    PROVE  FilesInv'
<1>. USE DEF FilesInv
<1>1. /\ fpc[p] = "link_dir" /\ fpc[p] \in HasInode \ WrittenOff /\ fpc[p] \in Between
      /\ fpc[p] \in HasInode /\ name[p] \in FileNames /\ dirowner = None /\ dirowner' = None
      /\ UNCHANGED <<type, nlink, itable, iowner, ftable, ofile, fip, name>>
  BY DEF Table!link_dir, HasInode, WrittenOff, Between, TableTypes, HasName
<1>2. Table!Inum(p) \in Table!Inums /\ None \notin Table!Inums /\ nlink[Table!Inum(p)] \in Nat
  BY <1>1, WhoRefers, AllFinite DEF TableTypes
<1>3. \A j \in Table!Inums : Cardinality(NamesOf(j)) \in Nat
  <2>1. \A j \in Table!Inums : NamesOf(j) \in SUBSET FileNames BY DEF NamesOf
  <2>. QED BY <2>1, AllFinite, SmallSets
<1>4. \A q \in Procs : Table!Inum(q)' = Table!Inum(q) BY <1>1 DEF Table!Inum
<1>5. CASE dir[name[p]] = None /\ SetsName(name[p], Table!Inum(p)) /\ Table!Goto(p, "put")
  <2>1. /\ dir' \in [FileNames -> Table!Inums \cup {None}] /\ dir'[name[p]] = Table!Inum(p)
        /\ \A m \in FileNames : m # name[p] => dir'[m] = dir[m]
        /\ \A j \in Table!Inums : Cardinality(NamesOf(j)') =
             Cardinality(NamesOf(j)) + IF j = Table!Inum(p) THEN 1 ELSE 0
    BY <1>1, <1>2, <1>5, SetName
  <2>2. /\ fpc' = [fpc EXCEPT ![p] = "put"] /\ fpc'[p] = "put"
        /\ \A q \in Procs : q # p => fpc'[q] = fpc[q]
    BY <1>5 DEF Table!Goto, TableTypes
  <2>3. "put" \notin Between BY DEF Between
  <2>4. Moves(p, 1) BY <2>1, <2>2, <2>3, <1>1, <1>2, <1>4 DEF Moves
  <2>5. Table!LinksCounted' BY <2>4, LinksStep
  <2>. QED BY <2>1, <2>2, <2>5, <1>1, EntryStep
<1>6. CASE Table!Goto(p, "link_bad") /\ UNCHANGED dir
  <2>1. /\ fpc' = [fpc EXCEPT ![p] = "link_bad"] /\ fpc'[p] = "link_bad"
        /\ \A q \in Procs : q # p => fpc'[q] = fpc[q]
    BY <1>6 DEF Table!Goto, TableTypes
  <2>2. "link_bad" \in Between /\ "link_bad" \in HasInode BY DEF Between, HasInode
  <2>3. \A j \in Table!Inums : NamesOf(j)' = NamesOf(j) BY <1>6 DEF NamesOf
  <2>4. Moves(p, 0) BY <2>1, <2>2, <2>3, <1>1, <1>2, <1>3, <1>4 DEF Moves
  <2>5. Table!LinksCounted' BY <2>4, LinksStep
  <2>6. dir' \in [FileNames -> Table!Inums \cup {None}] BY <1>6 DEF TableTypes
  <2>. QED BY <2>1, <2>5, <2>6, <1>1, <1>6, EntryStep
<1>. QED BY <1>5, <1>6 DEF Table!link_dir, SetsName

(* unlink_entry: the name goes; its inode has a link, so nothing panics.   *)
LEMMA UnlinkStep ==
    ASSUME Table!FilesConstants, FilesInv, NEW p \in Procs, Table!unlink_entry(p)
    PROVE  FilesInv' /\ fpc'[p] # "panic"
<1>. USE DEF FilesInv
<1>1. /\ fpc[p] = "unlink_entry" /\ fpc[p] \in Holds \ WrittenOff /\ fpc[p] \notin Between
      /\ fpc[p] \in HasInode /\ name[p] \in FileNames /\ dirowner = p /\ dir[name[p]] = Table!Inum(p)
      /\ UNCHANGED <<type, nlink, itable, iowner, ftable, ofile, fip, name>>
  BY DEF Table!unlink_entry, Holds, HasInode, WrittenOff, Between, TableTypes, HasName,
         TableLockInv, HoldsDir, NameInv
<1>2. Table!Inum(p) \in Table!Inums /\ None \notin Table!Inums /\ nlink[Table!Inum(p)] \in Nat /\ Table!Nlink(p) > 0
      /\ Table!Nlink(p) \in Nat
  BY <1>1, Locked, AllFinite
<1>3. /\ SetsName(name[p], None) /\ dirowner' = None /\ fpc' = [fpc EXCEPT ![p] = "unlink_dec"]
  BY <1>1, <1>2 DEF Table!unlink_entry, SetsName, Table!LetDir, Table!Goto
<1>4. \A q \in Procs : Table!Inum(q)' = Table!Inum(q) BY <1>1 DEF Table!Inum
<1>5. /\ dir' \in [FileNames -> Table!Inums \cup {None}] /\ dir'[name[p]] = None
      /\ \A m \in FileNames : m # name[p] => dir'[m] = dir[m]
      /\ \A j \in Table!Inums : Cardinality(NamesOf(j)') =
           Cardinality(NamesOf(j)) + IF j = Table!Inum(p) THEN -1 ELSE 0
  BY <1>1, <1>2, <1>3, SetName
<1>6. fpc'[p] = "unlink_dec" /\ \A q \in Procs : q # p => fpc'[q] = fpc[q]
  BY <1>3 DEF TableTypes
<1>7. "unlink_dec" \in Between /\ "unlink_dec" \in HasInode BY DEF Between, HasInode
<1>8. Moves(p, -1) BY <1>1, <1>2, <1>4, <1>5, <1>6, <1>7 DEF Moves
<1>9. Table!LinksCounted' BY <1>8, LinksStep
<1>10. FilesInv' BY <1>1, <1>3, <1>5, <1>9, EntryStep
<1>. QED BY <1>6, <1>10

-------------------------------------------------------------------------------
(* The calls of iget(), by namei() or on the way of create() and unlink(). *)
LEMMA NameiStep ==
    ASSUME Table!FilesConstants, FilesInv, NEW p \in Procs, NEW n \in FileNames,
           NEW l \in {"open_lock", "link_lock"}, Table!namei(p, n, l),
           name' = name \/ (\E m \in FileNames : name' = [name EXCEPT ![p] = m]),
           l = "link_lock" => \E m \in FileNames : name' = [name EXCEPT ![p] = m]
    PROVE  FilesInv' /\ (fpc'[p] = "panic" => fip'[p] = None)
<1>. USE DEF FilesInv
<1>1. /\ fpc[p] = "idle" /\ dirowner = None /\ dirowner' = None /\ Table!iget(p, dir[n], l)
      /\ UNCHANGED <<dir, type, nlink, iowner, ftable, ofile>> /\ dir[n] # None
  BY DEF Table!namei, Table!disk
<1>2. dir[n] \in Table!Inums /\ type[dir[n]] BY <1>1 DEF TableTypes, UseInv
<1>3. /\ name' \in [Procs -> FileNames \cup {None}]
      /\ \A q \in Procs : q # p => name'[q] = name[q]
      /\ l # "open_lock" => name'[p] \in FileNames
  BY DEF TableTypes
<1>4. Gets(p, dir[n], l) BY <1>1, <1>2, <1>3 DEF Gets
<1>. QED BY <1>2, <1>4, GetStep

LEMMA FoundStep ==
    ASSUME Table!FilesConstants, FilesInv, NEW p \in Procs,
           Table!create_found(p) \/ Table!create_ialloc(p) \/ Table!unlink_found(p)
    PROVE  FilesInv' /\ (fpc'[p] = "panic" => fip'[p] = None)
<1>. USE DEF FilesInv
<1>1. /\ fpc[p] \in {"create", "unlink"} /\ dirowner = p /\ name[p] \in FileNames
      /\ UNCHANGED <<dir, iowner, ftable, ofile, name>>
  <2>1. fpc[p] \in {"create", "unlink"} /\ UNCHANGED <<dir, iowner, ftable, ofile, name>>
    BY DEF Table!create_found, Table!create_ialloc, Table!unlink_found, Table!disk
  <2>. QED BY <2>1 DEF TableLockInv, HoldsDir, TableTypes, HasName
<1>2. /\ name' \in [Procs -> FileNames \cup {None}] /\ name'[p] \in FileNames
      /\ \A q \in Procs : q # p => name'[q] = name[q]
  BY <1>1 DEF TableTypes
<1>3. CASE Table!create_found(p)
  <2>1. /\ dir[name[p]] # None /\ Table!iget(p, dir[name[p]], "open_lock") /\ dirowner' = None
        /\ UNCHANGED <<type, nlink>>
    BY <1>1, <1>3 DEF Table!create_found, Table!LetDir, Table!disk
  <2>2. dir[name[p]] \in Table!Inums /\ type[dir[name[p]]]
    BY <2>1, <1>1 DEF TableTypes, UseInv
  <2>3. Gets(p, dir[name[p]], "open_lock") BY <2>1, <2>2, <1>1, <1>2 DEF Gets
  <2>. QED BY <2>2, <2>3, GetStep
<1>4. CASE Table!unlink_found(p)
  <2>1. /\ dir[name[p]] # None /\ Table!iget(p, dir[name[p]], "unlink_lock") /\ dirowner' = p
        /\ UNCHANGED <<type, nlink>>
    BY <1>1, <1>4 DEF Table!unlink_found, Table!disk
  <2>2. dir[name[p]] \in Table!Inums /\ type[dir[name[p]]]
    BY <2>1, <1>1 DEF TableTypes, UseInv
  <2>3. Gets(p, dir[name[p]], "unlink_lock") BY <2>1, <2>2, <1>1, <1>2 DEF Gets
  <2>. QED BY <2>2, <2>3, GetStep
<1>5. CASE Table!create_ialloc(p)
  <2>. DEFINE i == Min(Table!FreeInums)
  <2>1. /\ dir[name[p]] = None /\ Table!FreeInums # {} /\ Table!iget(p, i, "create_lock") /\ dirowner' = p
        /\ type' = [type EXCEPT ![i] = TRUE] /\ nlink' = [nlink EXCEPT ![i] = 0]
    BY SameSizes, <1>1, <1>5 DEF Table!create_ialloc
  <2>2. i \in Table!Inums /\ ~type[i] BY <2>1, FreeOnes DEF Table!FreeInums
  <2>. HIDE DEF i
  <2>3. Gets(p, i, "create_lock") BY <2>1, <2>2, <1>1, <1>2 DEF Gets
  <2>. QED BY <2>2, <2>3, GetStep
<1>. QED BY <1>3, <1>4, <1>5

(* iget() leaves no reference to a call only if the table is full.         *)
TableFull == \A s \in Table!Slots : itable[s].ref > 0

LEMMA GetFails ==
    ASSUME Table!FilesConstants, TableTypes, NEW p \in Procs, NEW i \in Table!Inums,
           NEW l, l # "panic", Table!iget(p, i, l),
           fpc'[p] = "panic"
    PROVE  TableFull
<1>1. Table!Slot(i) = None
  <2>1. SUFFICES ASSUME Table!Slot(i) # None PROVE FALSE OBVIOUS
  <2>2. fpc' = [fpc EXCEPT ![p] = l] BY <2>1 DEF Table!iget, Table!Goto
  <2>. QED BY <2>2 DEF TableTypes
<1>. DEFINE empty == {s \in Table!Slots : itable[s].ref = 0}
<1>2. empty \subseteq Table!Slots /\ Table!Slots \subseteq Int BY DEF Table!Slots
<1>3. IsFiniteSet(empty) BY <1>2, AllFinite, FS_Subset
<1>4. empty = {}
  <2>1. SUFFICES ASSUME empty # {} PROVE FALSE OBVIOUS
  <2>2. Min(empty) \in Table!Slots BY <2>1, <1>2, <1>3, MinIsLeast
  <2>. DEFINE hits == {s \in Table!Slots : itable[s].ref > 0 /\ itable[s].inum = i}
  <2>3. hits \subseteq Table!Slots OBVIOUS
  <2>4. IsFiniteSet(hits) BY <2>3, AllFinite, FS_Subset
  <2>5. hits # {} => Min(hits) \in Table!Slots BY <2>3, <2>4, <1>2, MinIsLeast
  <2>6. Table!Slot(i) = IF hits # {} THEN Min(hits) ELSE IF empty # {} THEN Min(empty) ELSE None
    BY SameSizes DEF Table!Slot
  <2>. HIDE DEF hits, empty
  <2>. QED BY <2>1, <2>2, <2>5, <2>6, <1>1, AllFinite
<1>. QED BY <1>4 DEF TableFull, TableTypes, Entries
-------------------------------------------------------------------------------
LEMMA InitInv == ASSUME Table!FilesConstants, Table!Init PROVE FilesInv
<1>. USE DEF Table!Init
<1>1. \A s \in Table!Slots : itable[s] = Table!NoInode BY DEF Table!Slots
<1>2. \A f \in Table!FileIds : ftable[f] = Table!NoFile BY DEF Table!FileIds
<1>3. \A p \in Procs : fpc[p] = "idle" /\ fip[p] = None OBVIOUS
<1>4. Table!NoInode \in Entries /\ Table!NoInode.ref = 0 BY DEF Table!NoInode, Entries
<1>5. Table!NoFile \in [ref : Nat, ip : Table!Slots \cup {None}] /\ Table!NoFile.ref = 0
  BY DEF Table!NoFile
<1>6. "idle" \notin HasInode /\ "idle" \notin HasName BY DEF HasInode, HasName
<1>7. TableTypes
  <2>1. itable \in [Table!Slots -> Entries] BY <1>4
  <2>2. ftable \in [Table!FileIds -> [ref : Nat, ip : Table!Slots \cup {None}]] BY <1>5
  <2>. QED BY <2>1, <2>2, <1>1, <1>2, <1>3, <1>4, <1>5, <1>6 DEF TableTypes
<1>8. TableLockInv BY <1>3 DEF TableLockInv, Holds, HoldsDir
<1>9. TableInv BY <1>1, <1>3, <1>4 DEF TableInv, Holds
<1>10. UseInv BY <1>2, <1>3, <1>5, <1>6 DEF UseInv
<1>11. FreeInv BY <1>1, <1>3, <1>4 DEF FreeInv
<1>12. NewInv BY <1>3 DEF NewInv
<1>13. NameInv BY <1>3 DEF NameInv
<1>14. Cardinality({}) = 0 BY FS_EmptySet
<1>15. Table!RefsCounted
  <2>1. \A f \in Table!FileIds : Descriptors(f) = {} BY AllFinite DEF Descriptors
  <2>2. \A s \in Table!Slots : Openings(s) = {} BY <1>2, <1>5 DEF Openings
  <2>3. \A s \in Table!Slots : Callers(s) = {} BY <1>3, AllFinite DEF Callers
  <2>4. \A f \in Table!FileIds : ftable[f].ref = Cardinality(Descriptors(f))
    BY <2>1, <1>2, <1>5, <1>14
  <2>5. \A s \in Table!Slots : itable[s].ref = 0 BY <1>1, <1>4
  <2>6. \A s \in Table!Slots : Cardinality(Openings(s)) = 0 /\ Cardinality(Callers(s)) = 0
    BY <2>2, <2>3, <1>14
  <2>7. \A s \in Table!Slots :
        itable[s].ref = Cardinality(Openings(s)) + Cardinality(Callers(s))
    <3>. HIDE DEF Table!Init
    <3>. QED BY <2>5, <2>6
  <2>. QED BY <2>4, <2>7, Refs
<1>16. Table!LinksCounted BY DEF Table!LinksCounted
<1>. QED BY <1>7, <1>8, <1>9, <1>10, <1>11, <1>12, <1>13, <1>15, <1>16 DEF FilesInv

(* No step but those of iget() ends in a panic.                            *)
OnlyGetPanics ==
    \A p \in Procs : fpc'[p] = "panic" /\ fpc[p] # "panic" =>
        fpc[p] \in {"idle", "create", "unlink"} /\ TableFull

LEMMA Calls ==
    ASSUME Table!FilesConstants, FilesInv, NEW p \in Procs
    PROVE  /\ Table!put(p) => FilesInv' /\ OnlyGetPanics
           /\ Table!opening(p) => FilesInv' /\ OnlyGetPanics
           /\ Table!linking(p) => FilesInv' /\ OnlyGetPanics
           /\ Table!unlinking(p) => FilesInv' /\ OnlyGetPanics
<1>. USE DEF FilesInv
<1>1. ASSUME NEW l, fpc' = [fpc EXCEPT ![p] = l], l # "panic" PROVE OnlyGetPanics
  BY <1>1 DEF OnlyGetPanics, TableTypes
<1>2. ASSUME Table!put(p) PROVE FilesInv' /\ OnlyGetPanics
  <2>1. CASE Table!iput(p)
    <3>1. FilesInv' BY <2>1, DropStep DEF Table!iput
    <3>. QED BY <3>1, <2>1, <1>1 DEF Table!iput, Table!Return, Table!Goto
  <2>2. CASE Table!iput_last(p)
    <3>1. FilesInv' /\ fpc'[p] # "panic" BY <2>2, LastStep
    <3>2. \A q \in Procs : q # p => fpc'[q] = fpc[q]
      BY <2>2 DEF Table!iput_last, Table!Goto, TableTypes
    <3>. QED BY <3>1, <3>2 DEF OnlyGetPanics
  <2>3. CASE Table!iput_free(p)
    <3>1. FilesInv' BY <2>3, FreeStep
    <3>. QED BY <3>1, <2>3, <1>1 DEF Table!iput_free, Table!Goto
  <2>4. CASE Table!iput_invalid(p)
    <3>1. FilesInv' BY <2>4, InvalidStep
    <3>. QED BY <3>1, <2>4, <1>1 DEF Table!iput_invalid, Table!Goto
  <2>5. CASE Table!iput_count(p)
    <3>1. FilesInv' BY <2>5, DropStep DEF Table!iput_count
    <3>. QED BY <3>1, <2>5, <1>1 DEF Table!iput_count, Table!Return, Table!Goto
  <2>. QED BY <1>2, <2>1, <2>2, <2>3, <2>4, <2>5 DEF Table!put
<1>3. ASSUME NEW l,
             <<fpc[p], l>> \in {<<"open_lock", "open_file">>, <<"create_lock", "create_link">>,
               <<"link_lock", "link_inc">>, <<"link_bad", "link_dec">>,
               <<"unlink_lock", "unlink_entry">>},
             Table!ilock(p, l), UNCHANGED <<Table!disk, dirowner, ftable, ofile, fip, name>>
      PROVE  FilesInv' /\ OnlyGetPanics
  <2>1. FilesInv' BY <1>3, LockStep
  <2>2. fpc[p] \in HasInode \ WrittenOff BY <1>3 DEF HasInode, WrittenOff
  <2>3. fpc' = [fpc EXCEPT ![p] = l] BY <1>3, <2>2 DEF Table!ilock, Table!Goto, UseInv
  <2>. QED BY <2>1, <2>3, <1>1, <1>3
<1>4. ASSUME Table!create_found(p) \/ Table!create_ialloc(p) \/ Table!unlink_found(p)
      PROVE  FilesInv' /\ OnlyGetPanics
  <2>1. FilesInv' BY <1>4, FoundStep
  <2>2. PICK i, l :
        Table!iget(p, i, l) /\ i \in Table!Inums /\ l # "panic" /\ fpc[p] \in {"create", "unlink"}
    <3>1. fpc[p] \in {"create", "unlink"} /\ name[p] \in FileNames
      BY <1>4
        DEF Table!create_found, Table!create_ialloc, Table!unlink_found, TableTypes,
            HasName
    <3>2. dir[name[p]] # None => dir[name[p]] \in Table!Inums BY <3>1 DEF TableTypes
    <3>3. Table!FreeInums # {} => Min(Table!FreeInums) \in Table!Inums
      BY FreeOnes DEF Table!FreeInums
    <3>4. \/ dir[name[p]] # None /\ Table!iget(p, dir[name[p]], "open_lock")
          \/ dir[name[p]] # None /\ Table!iget(p, dir[name[p]], "unlink_lock")
          \/ Table!FreeInums # {} /\ Table!iget(p, Min(Table!FreeInums), "create_lock")
      BY SameSizes, <1>4 DEF Table!create_found, Table!create_ialloc, Table!unlink_found
    <3>. QED BY <3>1, <3>2, <3>3, <3>4
  <2>3. fpc'[p] = "panic" => TableFull BY <2>2, GetFails
  <2>4. \A q \in Procs : q # p => fpc'[q] = fpc[q]
    BY <2>2 DEF Table!iget, Table!Goto, TableTypes
  <2>. QED BY <2>1, <2>2, <2>3, <2>4 DEF OnlyGetPanics
<1>5. ASSUME Table!opening(p) PROVE FilesInv' /\ OnlyGetPanics
  <2>1. CASE Table!open_lock(p) BY <2>1, <1>3 DEF Table!open_lock
  <2>2. CASE Table!open_file(p)
    <3>1. FilesInv' BY <2>2, OpenFileStep
    <3>. QED BY <3>1, <2>2, <1>1 DEF Table!open_file, Table!Return, Table!Goto
  <2>3. CASE Table!create_found(p) \/ Table!create_ialloc(p) BY <2>3, <1>4
  <2>4. CASE Table!create_none(p)
    <3>1. /\ fpc[p] = "create" /\ fpc' = [fpc EXCEPT ![p] = "idle"] /\ fip' = [fip EXCEPT ![p] = None]
          /\ name' = [name EXCEPT ![p] = None] /\ dirowner' \in {None, p} /\ dirowner = p
          /\ UNCHANGED <<Table!disk, itable, iowner, ftable, ofile>>
      BY <2>4
        DEF Table!create_none, Table!Return, Table!Goto, Table!LetDir, TableLockInv,
            HoldsDir
    <3>2. "create" \notin HasInode BY DEF HasInode
    <3>3. fip' = fip BY <3>1, <3>2 DEF TableTypes
    <3>4. /\ name' \in [Procs -> FileNames \cup {None}]
          /\ \A q \in Procs : q # p => name'[q] = name[q]
      BY <3>1 DEF TableTypes
    <3>5. FilesInv' BY <3>1, <3>3, <3>4, DirStep
    <3>. QED BY <3>1, <3>5, <1>1
  <2>5. CASE Table!create_lock(p) BY <2>5, <1>3 DEF Table!create_lock
  <2>6. CASE Table!create_link(p) \/ Table!create_fail(p)
    <3>1. FilesInv' BY <2>6, CreateStep
    <3>. QED BY <3>1, <2>6, <1>1 DEF Table!create_link, Table!create_fail, Table!Goto
  <2>. QED BY <1>5, <2>1, <2>2, <2>3, <2>4, <2>5, <2>6 DEF Table!opening
<1>6. ASSUME Table!linking(p) PROVE FilesInv' /\ OnlyGetPanics
  <2>1. CASE Table!link_lock(p) BY <2>1, <1>3 DEF Table!link_lock
  <2>2. CASE Table!link_inc(p) \/ Table!link_dec(p)
    <3>1. FilesInv' BY <2>2, CountOnly
    <3>. QED BY <3>1, <2>2, <1>1 DEF Table!link_inc, Table!link_dec, Table!Goto
  <2>3. CASE Table!link_dir(p)
    <3>1. FilesInv' BY <2>3, LinkDirStep
    <3>. QED BY <3>1, <2>3, <1>1 DEF Table!link_dir, Table!Goto
  <2>4. CASE Table!link_bad(p) BY <2>4, <1>3 DEF Table!link_bad
  <2>. QED BY <1>6, <2>1, <2>2, <2>3, <2>4 DEF Table!linking
<1>7. ASSUME Table!unlinking(p) PROVE FilesInv' /\ OnlyGetPanics
  <2>1. CASE Table!unlink_found(p) BY <2>1, <1>4
  <2>2. CASE Table!unlink_none(p)
    <3>1. /\ fpc[p] = "unlink" /\ fpc' = [fpc EXCEPT ![p] = "idle"] /\ fip' = [fip EXCEPT ![p] = None]
          /\ name' = [name EXCEPT ![p] = None] /\ dirowner' \in {None, p} /\ dirowner = p
          /\ UNCHANGED <<Table!disk, itable, iowner, ftable, ofile>>
      BY <2>2
        DEF Table!unlink_none, Table!Return, Table!Goto, Table!LetDir, TableLockInv,
            HoldsDir
    <3>2. "unlink" \notin HasInode BY DEF HasInode
    <3>3. fip' = fip BY <3>1, <3>2 DEF TableTypes
    <3>4. /\ name' \in [Procs -> FileNames \cup {None}]
          /\ \A q \in Procs : q # p => name'[q] = name[q]
      BY <3>1 DEF TableTypes
    <3>5. FilesInv' BY <3>1, <3>3, <3>4, DirStep
    <3>. QED BY <3>1, <3>5, <1>1
  <2>3. CASE Table!unlink_lock(p) BY <2>3, <1>3 DEF Table!unlink_lock
  <2>4. CASE Table!unlink_entry(p)
    <3>1. FilesInv' /\ fpc'[p] # "panic" BY <2>4, UnlinkStep
    <3>2. \A q \in Procs : q # p => fpc'[q] = fpc[q]
      BY <2>4 DEF Table!unlink_entry, Table!Goto, TableTypes
    <3>. QED BY <3>1, <3>2 DEF OnlyGetPanics
  <2>5. CASE Table!unlink_dec(p)
    <3>1. FilesInv' BY <2>5, CountOnly
    <3>. QED BY <3>1, <2>5, <1>1 DEF Table!unlink_dec, Table!Goto
  <2>. QED BY <1>7, <2>1, <2>2, <2>3, <2>4, <2>5 DEF Table!unlinking
<1>. QED BY <1>2, <1>5, <1>6, <1>7

(* The calls that begin with the names and descriptors of their arguments. *)
LEMMA Begins ==
    ASSUME Table!FilesConstants, FilesInv, NEW p \in Procs
    PROVE  /\ \A n \in FileNames :
               Table!open(p, n) \/ Table!create(p, n) \/ Table!unlink(p, n) =>
                FilesInv' /\ OnlyGetPanics
           /\ \A old, new \in FileNames : Table!link(p, old, new) =>
               FilesInv' /\ OnlyGetPanics
           /\ \A d \in Table!Fds : Table!dup(p, d) \/ Table!close(p, d) =>
               FilesInv' /\ OnlyGetPanics
           /\ \A q \in Procs \ {p} : Table!fork(p, q) => FilesInv' /\ OnlyGetPanics
<1>. USE DEF FilesInv
<1>1. ASSUME NEW n \in FileNames, NEW l \in {"open_lock", "link_lock"}, Table!namei(p, n, l)
      PROVE  OnlyGetPanics
  <2>1. fpc[p] = "idle" /\ dir[n] \in Table!Inums /\ Table!iget(p, dir[n], l)
    BY <1>1 DEF Table!namei, TableTypes
  <2>2. fpc'[p] = "panic" => TableFull BY <2>1, GetFails
  <2>3. \A q \in Procs : q # p => fpc'[q] = fpc[q]
    BY <2>1 DEF Table!iget, Table!Goto, TableTypes
  <2>. QED BY <2>1, <2>2, <2>3 DEF OnlyGetPanics
<1>2. ASSUME NEW n \in FileNames, Table!open(p, n) PROVE FilesInv' /\ OnlyGetPanics
  <2>1. Table!namei(p, n, "open_lock") /\ name' = name BY <1>2 DEF Table!open
  <2>2. FilesInv' BY <2>1, NameiStep
  <2>. QED BY <2>1, <2>2, <1>1
<1>3. ASSUME NEW n \in FileNames, Table!create(p, n) \/ Table!unlink(p, n)
      PROVE  FilesInv' /\ OnlyGetPanics
  <2>. DEFINE l == IF Table!create(p, n) THEN "create" ELSE "unlink"
  <2>1. /\ fpc[p] = "idle" /\ dirowner = None /\ dirowner' = p
        /\ name' = [name EXCEPT ![p] = n] /\ fpc' = [fpc EXCEPT ![p] = l]
        /\ UNCHANGED <<Table!disk, itable, iowner, ftable, ofile, fip>>
    BY <1>3 DEF Table!create, Table!unlink, Table!lock_dir, Table!Goto
  <2>2. /\ name' \in [Procs -> FileNames \cup {None}] /\ name'[p] \in FileNames
        /\ \A q \in Procs : q # p => name'[q] = name[q]
    BY <2>1 DEF TableTypes
  <2>3. l \in {"create", "unlink"} /\ l # "panic" OBVIOUS
  <2>. HIDE DEF l
  <2>4. FilesInv' BY <2>1, <2>2, <2>3, DirStep
  <2>5. OnlyGetPanics BY <2>1, <2>3 DEF OnlyGetPanics, TableTypes
  <2>. QED BY <2>4, <2>5
<1>4. ASSUME NEW old \in FileNames, NEW new \in FileNames, Table!link(p, old, new)
      PROVE  FilesInv' /\ OnlyGetPanics
  <2>1. Table!namei(p, old, "link_lock") /\ name' = [name EXCEPT ![p] = new]
    BY <1>4 DEF Table!link
  <2>2. FilesInv' BY <2>1, NameiStep
  <2>. QED BY <2>1, <2>2, <1>1
<1>5. ASSUME NEW d \in Table!Fds, Table!dup(p, d) PROVE FilesInv' /\ OnlyGetPanics
  <2>1. FilesInv' BY <1>5, DupStep
  <2>. QED BY <2>1, <1>5 DEF Table!dup, Table!locals, OnlyGetPanics
<1>6. ASSUME NEW d \in Table!Fds, Table!close(p, d) PROVE FilesInv' /\ OnlyGetPanics
  <2>1. FilesInv' BY <1>6, CloseStep
  <2>2. \A q \in Procs : fpc'[q] = "panic" => fpc[q] = "panic"
    BY <1>6 DEF Table!close, Table!locals, Table!Goto, TableTypes
  <2>. QED BY <2>1, <2>2 DEF OnlyGetPanics
<1>7. ASSUME NEW q \in Procs \ {p}, Table!fork(p, q) PROVE FilesInv' /\ OnlyGetPanics
  <2>1. FilesInv' BY <1>7, ForkStep
  <2>. QED BY <2>1, <1>7 DEF Table!fork, Table!locals, OnlyGetPanics
<1>. QED BY <1>2, <1>3, <1>4, <1>5, <1>6, <1>7

LEMMA StepInv == ASSUME Table!FilesConstants, FilesInv, [Table!Next]_(Table!vars)
                 PROVE  FilesInv' /\ OnlyGetPanics
<1>1. CASE UNCHANGED Table!vars
  <2>1. UNCHANGED <<dir, type, nlink, itable, iowner, dirowner, ftable, ofile, fpc, fip, name>>
    BY <1>1 DEF Table!vars, Table!disk, Table!locals
  <2>. USE DEF FilesInv
  <2>2. TableTypes' BY <2>1 DEF TableTypes
  <2>3. TableLockInv' BY <2>1 DEF TableLockInv
  <2>4. TableInv' BY <2>1 DEF TableInv
  <2>5. UseInv' BY <2>1 DEF UseInv, Table!Inum
  <2>6. FreeInv' BY <2>1 DEF FreeInv, Table!Nlink
  <2>7. NewInv' BY <2>1 DEF NewInv, Table!Inum
  <2>8. NameInv' BY <2>1 DEF NameInv, Table!Inum
  <2>9. Table!RefsCounted' BY <2>1, RefsFrame
  <2>10. Table!LinksCounted' BY <2>1, LinksFrame DEF Table!disk, Table!Inum
  <2>11. OnlyGetPanics BY <2>1 DEF OnlyGetPanics
  <2>. QED BY <2>2, <2>3, <2>4, <2>5, <2>6, <2>7, <2>8, <2>9, <2>10, <2>11
<1>2. CASE Table!Next
  <2>1. PICK p \in Procs :
          \/ Table!put(p) \/ Table!opening(p) \/ Table!linking(p) \/ Table!unlinking(p)
          \/ \E n \in FileNames : Table!open(p, n) \/ Table!create(p, n) \/ Table!unlink(p, n)
          \/ \E old, new \in FileNames : Table!link(p, old, new)
          \/ \E d \in Table!Fds : Table!dup(p, d) \/ Table!close(p, d)
          \/ \E q \in Procs \ {p} : Table!fork(p, q)
    BY <1>2 DEF Table!Next
  <2>. QED BY <2>1, Calls, Begins
<1>. QED BY <1>1, <1>2
-------------------------------------------------------------------------------
(* The invariant: the locks, what the table caches, what is in use, who    *)
(* frees, and the counts of references and links.                          *)
THEOREM FilesInvariant == Table!FilesConstants => (Table!Spec => []FilesInv)
<1>. SUFFICES ASSUME Table!FilesConstants PROVE Table!Spec => []FilesInv OBVIOUS
<1>1. Table!Init => FilesInv BY InitInv
<1>2. FilesInv /\ [Table!Next]_(Table!vars) => FilesInv' BY StepInv
<1>. QED BY <1>1, <1>2, PTL DEF Table!Spec

(* The reference counts of files and inodes are right, and the link counts *)
(* but for the calls under way; an inode with a name, or in use, is        *)
(* allocated, so that a file that is open survives its last name.          *)
LEMMA CountsRight == ASSUME Table!FilesConstants, FilesInv PROVE Table!Counted
<1>. USE DEF FilesInv
<1>1. ASSUME NEW i \in Table!Inums, Table!Linked(i) > 0 PROVE type[i]
  <2>. DEFINE N == {n \in FileNames : dir[n] = i}
  <2>1. N # {}
    <3>1. Cardinality({}) = 0 BY FS_EmptySet
    <3>. QED BY SameSizes, <3>1, <1>1 DEF Table!Linked
  <2>2. PICK n \in FileNames : dir[n] = i BY <2>1
  <2>3. dir[n] # None BY <2>2, AllFinite
  <2>. QED BY <2>2, <2>3 DEF UseInv
<1>2. ASSUME NEW i \in Table!Inums, Table!Used(i) PROVE type[i] \/ Table!Freeing(i)
  <2>1. PICK s \in Table!Slots : itable[s].ref > 0 /\ itable[s].inum = i
    BY <1>2 DEF Table!Used
  <2>2. CASE \E f \in Table!FileIds : ftable[f].ref > 0 /\ ftable[f].ip = s
    BY <2>1, <2>2 DEF UseInv
  <2>3. ASSUME NEW p \in Procs, fip[p] = s PROVE type[i] \/ Table!Freeing(i)
    <3>1. Table!Inum(p) = i /\ fpc[p] \in HasInode
      BY <2>1, <2>3, AllFinite DEF Table!Inum, TableTypes
    <3>2. CASE fpc[p] \in WrittenOff BY <3>1, <3>2 DEF Table!Freeing, WrittenOff
    <3>3. CASE fpc[p] \notin WrittenOff BY <3>1, <3>3 DEF UseInv
    <3>. QED BY <3>2, <3>3
  <2>. QED BY <2>1, <2>2, <2>3, WhoRefers
<1>. QED BY <1>1, <1>2 DEF Table!Counted, Table!AllocatedWhileUsed

(* Counts of fs.c and file.c: ref is the number of tables and calls that   *)
(* hold a file, nlink the number of its names, and what has either stays   *)
(* allocated.  The converse is not claimed: the run iput_leak refutes it.  *)
THEOREM FilesCounted == Table!FilesConstants => (Table!Spec => []Table!Counted)
<1>. SUFFICES ASSUME Table!FilesConstants PROVE Table!Spec => []Table!Counted OBVIOUS
<1>1. FilesInv => Table!Counted BY CountsRight
<1>. QED BY <1>1, FilesInvariant, PTL

(* ilock() never finds its inode free ("ilock: no type"), unlink() never   *)
(* an inode without links ("unlink: nlink < 1"), and iput() never waits    *)
(* for the sleeplock under its spinlock: a call panics only in iget(), and *)
(* only with a reference to every entry of the inode table.                *)
THEOREM PanicsOnlyWhenFull == Table!FilesConstants => (Table!Spec =>
    [][OnlyGetPanics]_(Table!vars))
<1>. SUFFICES ASSUME Table!FilesConstants
              PROVE  Table!Spec => [][OnlyGetPanics]_(Table!vars) OBVIOUS
<1>1. FilesInv /\ [Table!Next]_(Table!vars) => OnlyGetPanics BY StepInv
<1>. QED BY <1>1, FilesInvariant, PTL DEF Table!Spec

(* A file that is open, or an inode in the hands of a call that has not    *)
(* written it off, is not given to another file: it stays allocated.       *)
THEOREM OpenFilesKept ==
    Table!FilesConstants => (Table!Spec => []\A f \in Table!FileIds :
              ftable[f].ref > 0 => type[itable[ftable[f].ip].inum])
<1>. SUFFICES ASSUME Table!FilesConstants
              PROVE  Table!Spec => []\A f \in Table!FileIds :
                             ftable[f].ref > 0 => type[itable[ftable[f].ip].inum]
  OBVIOUS
<1>1. FilesInv => \A f \in Table!FileIds : ftable[f].ref > 0 =>
      type[itable[ftable[f].ip].inum]
  BY DEF FilesInv, UseInv
<1>. QED BY <1>1, FilesInvariant, PTL
-------------------------------------------------------------------------------
(* Directories.                                                            *)
CONSTANTS TNames, TPaths, NODES, Removed
VARIABLES ttype, tnlink, tchild, tup, towner, tcwd, tpc, tpath, tname, tdp, tip

Dirs == INSTANCE Tree WITH
    Names <- TNames, Paths <- TPaths, NINODES <- NODES,
    type <- ttype, nlink <- tnlink, child <- tchild, up <- tup, owner <- towner,
    cwd <- tcwd, pc <- tpc, path <- tpath, name <- tname, dp <- tdp, ip <- tip

Nodes == 1 .. NODES
Bare == [m \in TNames |-> 0]
(* Whether no path goes up, and the elements of paths behind a first "/".  *)
Dotless == \A to \in TPaths : \A k \in 1 .. Len(to) : to[k] # ".."
Elements == {e \in TNames \cup {".", ".."} : Dotless => e # ".."}

(* What the inodes are, given their types, links, entries and "..": each   *)
(* entry is the only one of an allocated inode; links are counted; entries *)
(* lead away from a root.                                                  *)
Placed(i, c) == i = 1 \/ \E j \in Nodes, m \in TNames : c[j][m] = i
Below(i, t, c) == {m \in TNames : c[i][m] # 0 /\ t[c[i][m]] = "dir"}
Sorts(t, n, c, u) ==
    /\ t \in [Nodes -> {"free", "dir", "dev"}] /\ n \in [Nodes -> Nat]
    /\ c \in [Nodes -> [TNames -> Nodes \cup {0}]] /\ u \in [Nodes -> Nodes]
Leads(t, c, u) ==
    /\ t[1] = "dir"
    /\ \A i \in Nodes : t[i] # "dir" => c[i] = Bare
    /\ \A i \in Nodes, m \in TNames : c[i][m] # 0 =>
         /\ t[c[i][m]] # "free" /\ c[i][m] # 1
         /\ t[c[i][m]] = "dir" => u[c[i][m]] = i
Once(c) ==
    \A i, j \in Nodes, m, l \in TNames :
        c[i][m] # 0 /\ c[i][m] = c[j][l] => i = j /\ m = l
Linked(t, n, c) ==
    \A i \in Nodes :
        /\ t[i] = "dir" =>
             n[i] = (IF Placed(i, c) THEN 1 ELSE 0) + Cardinality(Below(i, t, c))
        /\ t[i] = "dev" /\ Placed(i, c) => n[i] = 1
NoOrphans(t, n, c) ==
    \A i \in Nodes : t[i] # "free" => Placed(i, c) \/ (n[i] = 0 /\ c[i] = Bare)
Rooted(c) ==
    \E d \in [Nodes -> Nat], b \in Nat :
        /\ \A i \in Nodes : d[i] <= b
        /\ \A i \in Nodes, m \in TNames : c[i][m] # 0 => d[i] < d[c[i][m]]
Shape(t, n, c, u) ==
    /\ Sorts(t, n, c, u) /\ Leads(t, c, u) /\ Once(c) /\ Linked(t, n, c) /\ Rooted(c)
    /\ ~Removed => NoOrphans(t, n, c)

(* What the processes have: the types, ...                                 *)
Calling == {"mkdir", "mknod", "unlink", "chdir"}
Walkers ==
    /\ tcwd \in [Procs -> Nodes]
    /\ tdp \in [Procs -> Nodes \cup {0}] /\ tip \in [Procs -> Nodes \cup {0}]
    /\ towner \in [Nodes -> Procs \cup {"none"}]
    /\ tpath \in [Procs -> Seq(Elements)] /\ tname \in [Procs -> Elements \cup {"none"}]
    /\ tpc \in [Procs -> Calling \cup {"idle", "create_exists", "unlink_ip", "panic"}]

(* ... directories that stay, and where a call has its inodes, ...         *)
StandsAt(t, w, l, x, m, d, i) ==
    /\ t[w] = "dir"
    /\ d # 0 => t[d] = "dir" /\ m \in Elements
    /\ x # <<>> \/ l \in {"idle", "chdir"} => d = 0
    /\ l = "idle" => i = 0
    /\ l \in Calling => (d = 0 <=> i # 0)
    /\ l \in {"unlink_ip", "create_exists"} => i # 0
    /\ Dotless => l # "panic" /\ (i # 0 => t[i] # "free")
Stands(p) == StandsAt(ttype, tcwd[p], tpc[p], tpath[p], tname[p], tdp[p], tip[p])

(* ... and that unlink() has the directory locked in which it has found    *)
(* the inode.                                                              *)
UnlinksAt(p, c, o, l, m, d, i) ==
    l = "unlink_ip" => d # 0 /\ o[d] = p /\ m \in TNames /\ c[d][m] = i
Unlinks(p) == UnlinksAt(p, tchild, towner, tpc[p], tname[p], tdp[p], tip[p])
DirsLocked == \A i \in Nodes : towner[i] # "none" =>
    tpc[towner[i]] = "unlink_ip" /\ tdp[towner[i]] = i
Alive == \A i \in Nodes : ttype[i] # "free" => tnlink[i] > 0 \/ Dirs!Held(i)

TreeInv ==
    /\ Shape(ttype, tnlink, tchild, tup) /\ Walkers
    /\ \A p \in Procs : Stands(p) /\ Unlinks(p)
    /\ DirsLocked /\ Alive
-------------------------------------------------------------------------------
(* What the counts of a shape say of one inode.                            *)
LEMMA BelowFinite ==
    ASSUME IsFiniteSet(TNames), NEW i, NEW t, NEW c
    PROVE  /\ Below(i, t, c) \subseteq TNames
           /\ IsFiniteSet(Below(i, t, c)) /\ Cardinality(Below(i, t, c)) \in Nat
           /\ Cardinality(Below(i, t, c)) = 0 <=> Below(i, t, c) = {}
<1>1. Below(i, t, c) \subseteq TNames BY DEF Below
<1>. QED BY <1>1, SmallSets, FS_Subset

LEMMA Unlinked ==
    ASSUME NODES \in Nat \ {0}, IsFiniteSet(TNames),
           NEW t, NEW n, NEW c, NEW u, Shape(t, n, c, u),
           NEW i \in Nodes, t[i] # "free", n[i] = 0
    PROVE  ~Placed(i, c) /\ \A m \in TNames : c[i][m] # 0 => t[c[i][m]] = "dev"
<1>1. t[i] \in {"dir", "dev"} BY DEF Shape, Sorts
<1>2. CASE t[i] = "dir"
  <2>1. n[i] = (IF Placed(i, c) THEN 1 ELSE 0) + Cardinality(Below(i, t, c))
    BY <1>2 DEF Shape, Linked
  <2>2. ~Placed(i, c) /\ Cardinality(Below(i, t, c)) = 0 BY <2>1, BelowFinite
  <2>3. Below(i, t, c) = {} BY <2>2, BelowFinite
  <2>4. ASSUME NEW m \in TNames, c[i][m] # 0 PROVE t[c[i][m]] = "dev"
    <3>1. c[i][m] \in Nodes /\ t[c[i][m]] # "free" BY <2>4 DEF Shape, Sorts, Leads
    <3>. QED BY <2>3, <2>4, <3>1 DEF Below, Shape, Sorts
  <2>. QED BY <2>2, <2>4
<1>3. CASE t[i] = "dev"
  <2>1. ~Placed(i, c) BY <1>3 DEF Shape, Linked
  <2>2. c[i] = Bare BY <1>3 DEF Shape, Leads
  <2>. QED BY <2>1, <2>2 DEF Bare
<1>. QED BY <1>1, <1>2, <1>3

(* Inodes without links can be freed.                                      *)
LEMMA FreeShape ==
    ASSUME NODES \in Nat \ {0}, IsFiniteSet(TNames),
           NEW t, NEW n, NEW c, NEW u, Shape(t, n, c, u),
           NEW F \in SUBSET Nodes, \A i \in F : t[i] # "free" /\ n[i] = 0
    PROVE  Shape([i \in Nodes |-> IF i \in F THEN "free" ELSE t[i]], n,
                 [i \in Nodes |-> IF i \in F THEN Bare ELSE c[i]], u)
<1>. DEFINE t2 == [i \in Nodes |-> IF i \in F THEN "free" ELSE t[i]]
            c2 == [i \in Nodes |-> IF i \in F THEN Bare ELSE c[i]]
<1>0. /\ Sorts(t, n, c, u) /\ Leads(t, c, u) /\ Once(c) /\ Linked(t, n, c) /\ Rooted(c)
      /\ 1 \in Nodes
  BY DEF Shape, Nodes
<1>1. Sorts(t2, n, c2, u)
  <2>1. Bare \in [TNames -> Nodes \cup {0}] BY DEF Bare
  <2>. QED BY <1>0, <2>1 DEF Sorts
<1>2. \A i \in F : ~Placed(i, c) /\ \A m \in TNames : c[i][m] # 0 => t[c[i][m]] = "dev"
  BY Unlinked
<1>3. ASSUME NEW i \in Nodes, NEW m \in TNames, c2[i][m] # 0
      PROVE  i \notin F /\ c2[i][m] = c[i][m] /\ c[i][m] \in Nodes /\ c[i][m] \notin F
  <2>1. i \notin F BY <1>3 DEF Bare
  <2>2. c2[i][m] = c[i][m] /\ c[i][m] \in Nodes BY <2>1, <1>3, <1>0 DEF Sorts
  <2>3. Placed(c[i][m], c) BY DEF Placed
  <2>. QED BY <2>1, <2>2, <2>3, <1>2
<1>4. Leads(t2, c2, u)
  <2>1. t2[1] = "dir"
    <3>1. 1 \notin F BY <1>2 DEF Placed
    <3>. QED BY <3>1, <1>0 DEF Leads
  <2>2. ASSUME NEW i \in Nodes, t2[i] # "dir" PROVE c2[i] = Bare BY <2>2, <1>0 DEF Leads
  <2>3. ASSUME NEW i \in Nodes, NEW m \in TNames, c2[i][m] # 0
        PROVE  /\ t2[c2[i][m]] # "free" /\ c2[i][m] # 1
               /\ t2[c2[i][m]] = "dir" => u[c2[i][m]] = i
    <3>1. t2[c[i][m]] = t[c[i][m]] /\ c[i][m] # 0 BY <1>3, <2>3
    <3>. QED BY <1>3, <2>3, <3>1, <1>0 DEF Leads
  <2>. QED BY <2>1, <2>2, <2>3 DEF Leads
<1>5. Once(c2)
  <2>1. SUFFICES ASSUME NEW i \in Nodes, NEW j \in Nodes,
                        NEW m \in TNames, NEW l \in TNames,
                        c2[i][m] # 0, c2[i][m] = c2[j][l]
                 PROVE  i = j /\ m = l
    BY DEF Once
  <2>2. c2[i][m] = c[i][m] /\ c2[j][l] = c[j][l] /\ c2[j][l] # 0 BY <2>1, <1>3
  <2>. QED BY <2>1, <2>2, <1>0 DEF Once
<1>6. ASSUME NEW i \in Nodes, Placed(i, c2) PROVE Placed(i, c)
  <2>1. CASE i = 1 BY <2>1 DEF Placed
  <2>2. CASE i # 1
    <3>1. PICK j \in Nodes, m \in TNames : c2[j][m] = i BY <2>2, <1>6 DEF Placed
    <3>2. c[j][m] = i BY <3>1, <1>3 DEF Nodes
    <3>. QED BY <3>2 DEF Placed
  <2>. QED BY <2>1, <2>2
<1>7. ASSUME NEW i \in Nodes, t2[i] = "dir" PROVE Placed(i, c) => Placed(i, c2)
  <2>1. SUFFICES ASSUME Placed(i, c), i # 1 PROVE Placed(i, c2) BY DEF Placed
  <2>2. PICK j \in Nodes, m \in TNames : c[j][m] = i BY <2>1 DEF Placed
  <2>3. t[i] = "dir" BY <1>7
  <2>4. j \notin F BY <2>2, <2>3, <1>2 DEF Nodes
  <2>. QED BY <2>2, <2>4 DEF Placed
<1>8. Linked(t2, n, c2)
  <2>1. ASSUME NEW i \in Nodes, t2[i] = "dir"
        PROVE  n[i] = (IF Placed(i, c2) THEN 1 ELSE 0) + Cardinality(Below(i, t2, c2))
    <3>1. i \notin F /\ t[i] = "dir" BY <2>1
    <3>2. Placed(i, c2) <=> Placed(i, c) BY <1>6, <1>7, <2>1
    <3>3. c2[i] = c[i] BY <3>1
    <3>4. \A m \in TNames : c[i][m] # 0 => t2[c[i][m]] = t[c[i][m]] BY <1>3, <3>3
    <3>5. Below(i, t2, c2) = Below(i, t, c) BY <3>3, <3>4 DEF Below
    <3>. QED BY <3>1, <3>2, <3>5, <1>0 DEF Linked
  <2>2. ASSUME NEW i \in Nodes, t2[i] = "dev", Placed(i, c2) PROVE n[i] = 1
    BY <2>2, <1>6, <1>0 DEF Linked
  <2>. QED BY <2>1, <2>2 DEF Linked
<1>9. Rooted(c2)
  <2>1. PICK d \in [Nodes -> Nat], b \in Nat :
          /\ \A i \in Nodes : d[i] <= b
          /\ \A i \in Nodes, m \in TNames : c[i][m] # 0 => d[i] < d[c[i][m]]
    BY <1>0 DEF Rooted
  <2>2. \A i \in Nodes, m \in TNames : c2[i][m] # 0 => d[i] < d[c2[i][m]]
    BY <2>1, <1>3
  <2>. QED BY <2>1, <2>2 DEF Rooted
<1>10. ~Removed => NoOrphans(t2, n, c2)
  <2>. SUFFICES ASSUME ~Removed, NEW i \in Nodes, t2[i] # "free"
                PROVE  Placed(i, c2) \/ (n[i] = 0 /\ c2[i] = Bare)
    BY DEF NoOrphans
  <2>1. NoOrphans(t, n, c) BY DEF Shape
  <2>2. i \notin F /\ t[i] # "free" /\ c2[i] = c[i] OBVIOUS
  <2>3. ASSUME Placed(i, c), i # 1 PROVE Placed(i, c2)
    <3>1. PICK j \in Nodes, m \in TNames : c[j][m] = i BY <2>3 DEF Placed
    <3>2. j \notin F
      <4>1. j \in F => c[j] = Bare BY <1>2, <2>1 DEF NoOrphans
      <4>. QED BY <4>1, <3>1 DEF Bare, Nodes
    <3>. QED BY <3>1, <3>2 DEF Placed
  <2>. QED BY <2>1, <2>2, <2>3 DEF NoOrphans, Placed
<1>. QED BY <1>1, <1>4, <1>5, <1>8, <1>9, <1>10 DEF Shape

(* A new inode gets a free number, and an entry in a directory.            *)
LEMMA NewShape ==
    ASSUME NODES \in Nat \ {0}, IsFiniteSet(TNames),
           NEW t, NEW n, NEW c, NEW u, Shape(t, n, c, u),
           NEW i \in Nodes, t[i] = "free", NEW j \in Nodes, t[j] = "dir",
           NEW m \in TNames, c[j][m] = 0, n[j] = 0 => Removed,
           NEW kind \in {"dir", "dev"}, NEW n2 \in [Nodes -> Nat],
           n2[i] = 1, n2[j] = (IF kind = "dir" THEN n[j] + 1 ELSE n[j]),
           \A k \in Nodes : k \notin {i, j} => n2[k] = n[k]
    PROVE  Shape([t EXCEPT ![i] = kind], n2, [c EXCEPT ![j][m] = i], [u EXCEPT ![i] = j])
<1>. DEFINE t2 == [t EXCEPT ![i] = kind]
            c2 == [c EXCEPT ![j][m] = i]
            u2 == [u EXCEPT ![i] = j]
<1>0. /\ Sorts(t, n, c, u) /\ Leads(t, c, u) /\ Once(c) /\ Linked(t, n, c) /\ Rooted(c)
      /\ i # j /\ i # 1 /\ i # 0 /\ c[i] = Bare
  BY DEF Shape, Leads, Nodes
<1>1. Sorts(t2, n2, c2, u2) BY <1>0 DEF Sorts
<1>2. \A k \in Nodes, l \in TNames : c[k][l] # i BY <1>0 DEF Leads
<1>3. /\ c2[j][m] = i
      /\ \A k \in Nodes, l \in TNames : <<k, l>> # <<j, m>> => c2[k][l] = c[k][l]
      /\ \A k \in Nodes : k # j => c2[k] = c[k]
  BY <1>0 DEF Sorts
<1>4. /\ t2[i] = kind /\ u2[i] = j
      /\ \A k \in Nodes : k # i => t2[k] = t[k] /\ u2[k] = u[k]
  BY <1>0 DEF Sorts
<1>5. \A k \in Nodes, l \in TNames : c[k][l] \in Nodes \cup {0} BY <1>0 DEF Sorts
<1>. HIDE DEF t2, c2, u2
<1>6. Leads(t2, c2, u2)
  <2>1. t2[1] = "dir" BY <1>0, <1>4 DEF Leads, Nodes
  <2>2. ASSUME NEW k \in Nodes, t2[k] # "dir" PROVE c2[k] = Bare
    <3>1. k # j BY <2>2, <1>4, <1>0
    <3>. QED BY <2>2, <3>1, <1>3, <1>4, <1>0 DEF Leads
  <2>3. ASSUME NEW k \in Nodes, NEW l \in TNames, c2[k][l] # 0
        PROVE  /\ t2[c2[k][l]] # "free" /\ c2[k][l] # 1
               /\ t2[c2[k][l]] = "dir" => u2[c2[k][l]] = k
    <3>1. CASE <<k, l>> = <<j, m>> BY <3>1, <1>3, <1>4, <1>0
    <3>2. CASE <<k, l>> # <<j, m>>
      <4>1. c2[k][l] = c[k][l] BY <3>2, <1>3
      <4>2. t2[c[k][l]] = t[c[k][l]] /\ u2[c[k][l]] = u[c[k][l]]
        BY <4>1, <2>3, <1>2, <1>4, <1>5
      <4>. QED BY <4>1, <4>2, <2>3, <1>0 DEF Leads
    <3>. QED BY <3>1, <3>2
  <2>. QED BY <2>1, <2>2, <2>3 DEF Leads
<1>7. Once(c2)
  <2>1. SUFFICES ASSUME NEW k \in Nodes, NEW h \in Nodes,
                        NEW l \in TNames, NEW g \in TNames,
                        c2[k][l] # 0, c2[k][l] = c2[h][g]
                 PROVE  k = h /\ l = g
    BY DEF Once
  <2>2. CASE <<k, l>> = <<j, m>> BY <2>1, <2>2, <1>2, <1>3
  <2>3. CASE <<h, g>> = <<j, m>> BY <2>1, <2>3, <1>2, <1>3
  <2>4. CASE <<k, l>> # <<j, m>> /\ <<h, g>> # <<j, m>>
    <3>1. c2[k][l] = c[k][l] /\ c2[h][g] = c[h][g] BY <2>4, <1>3
    <3>2. c[k][l] # 0 /\ c[k][l] = c[h][g] BY <2>1, <3>1
    <3>3. Once(c) BY <1>0
    <3>. QED BY ONLY <3>2, <3>3, k \in Nodes, h \in Nodes, l \in TNames, g \in TNames
          DEF Once
  <2>. QED BY <2>2, <2>3, <2>4
<1>8. Placed(i, c2) /\ ~Placed(i, c)
  <2>1. Placed(i, c2) BY <1>3 DEF Placed
  <2>2. ~Placed(i, c) BY <1>0, <1>2 DEF Placed
  <2>. QED BY <2>1, <2>2
<1>9. ASSUME NEW k \in Nodes, k # i PROVE Placed(k, c2) <=> Placed(k, c)
  <2>1. ASSUME NEW h \in Nodes, NEW l \in TNames, c2[h][l] = k PROVE Placed(k, c)
    <3>1. <<h, l>> # <<j, m>> BY <1>3, <2>1, <1>9
    <3>2. c[h][l] = k BY <1>3, <2>1, <3>1
    <3>. QED BY <3>2 DEF Placed
  <2>2. ASSUME NEW h \in Nodes, NEW l \in TNames, c[h][l] = k PROVE Placed(k, c2)
    <3>1. <<h, l>> # <<j, m>> BY <2>2 DEF Nodes
    <3>2. c2[h][l] = k BY <1>3, <2>2, <3>1
    <3>. QED BY <3>2 DEF Placed
  <2>. QED BY <2>1, <2>2 DEF Placed
<1>10. Linked(t2, n2, c2)
  <2>1. ASSUME NEW k \in Nodes, t2[k] = "dir"
        PROVE  n2[k] = (IF Placed(k, c2) THEN 1 ELSE 0) + Cardinality(Below(k, t2, c2))
    <3>1. CASE k = i
      <4>1. Below(k, t2, c2) = {} BY <3>1, <1>0, <1>3 DEF Below, Bare
      <4>. QED BY <3>1, <4>1, <1>8, FS_EmptySet
    <3>2. CASE k # i
      <4>1. /\ t[k] = "dir"
            /\ n[k] = (IF Placed(k, c) THEN 1 ELSE 0) + Cardinality(Below(k, t, c))
        BY <3>2, <2>1, <1>4, <1>0 DEF Linked
      <4>2. ASSUME NEW l \in TNames, <<k, l>> # <<j, m>>
            PROVE  l \in Below(k, t2, c2) <=> l \in Below(k, t, c)
        <5>1. c2[k][l] = c[k][l] BY <4>2, <1>3
        <5>2. c[k][l] # 0 => t2[c[k][l]] = t[c[k][l]] BY <1>2, <1>4, <1>5
        <5>. QED BY <5>1, <5>2 DEF Below
      <4>3. /\ Below(k, t, c) \in SUBSET TNames /\ Below(k, t2, c2) \in SUBSET TNames
            /\ Cardinality(Below(k, t, c)) \in Nat
        BY BelowFinite
      <4>4. CASE k # j
        <5>1. Below(k, t2, c2) = Below(k, t, c) BY <4>2, <4>3, <4>4
        <5>2. n2[k] = n[k] BY <3>2, <4>4
        <5>. QED BY <4>1, <5>1, <5>2, <1>9, <3>2
      <4>5. CASE k = j
        <5>1. m \notin Below(k, t, c) /\ (m \in Below(k, t2, c2) <=> kind = "dir")
          BY <4>5, <1>3, <1>4, <1>0 DEF Below
        <5>2. \A l \in TNames : l # m => (l \in Below(k, t, c) <=> l \in Below(k, t2, c2))
          BY <4>2
        <5>3. Cardinality(Below(k, t2, c2)) =
                Cardinality(Below(k, t, c)) + (IF kind = "dir" THEN 1 ELSE 0)
          BY <4>3, <5>1, <5>2, OneDiffers
        <5>4. Placed(k, c2) <=> Placed(k, c) BY <3>2, <1>9
        <5>. QED BY <4>1, <4>3, <4>5, <5>3, <5>4
      <4>. QED BY <4>4, <4>5
    <3>. QED BY <3>1, <3>2
  <2>2. ASSUME NEW k \in Nodes, t2[k] = "dev", Placed(k, c2) PROVE n2[k] = 1
    <3>1. CASE k = i BY <3>1
    <3>2. CASE k # i
      <4>1. t[k] = "dev" /\ k # j BY <2>2, <3>2, <1>4
      <4>. QED BY <4>1, <3>2, <2>2, <1>9, <1>0 DEF Linked
    <3>. QED BY <3>1, <3>2
  <2>. QED BY <2>1, <2>2 DEF Linked
<1>11. Rooted(c2)
  <2>1. PICK d \in [Nodes -> Nat], b \in Nat :
          /\ \A k \in Nodes : d[k] <= b
          /\ \A k \in Nodes, l \in TNames : c[k][l] # 0 => d[k] < d[c[k][l]]
    BY <1>0 DEF Rooted
  <2>. DEFINE e == [d EXCEPT ![i] = b + 1]
  <2>2. /\ e \in [Nodes -> Nat] /\ b + 1 \in Nat /\ e[i] = b + 1
        /\ \A k \in Nodes : k # i => e[k] = d[k]
    OBVIOUS
  <2>. HIDE DEF e
  <2>3. ASSUME NEW k \in Nodes PROVE e[k] <= b + 1
    <3>1. d[k] \in Nat /\ d[k] <= b BY <2>1
    <3>. QED BY <2>2, <3>1
  <2>4. ASSUME NEW k \in Nodes, NEW l \in TNames, c2[k][l] # 0 PROVE e[k] < e[c2[k][l]]
    <3>1. CASE <<k, l>> = <<j, m>>
      <4>1. d[j] \in Nat /\ d[j] <= b BY <2>1
      <4>. QED BY <3>1, <4>1, <1>0, <1>3, <2>2
    <3>2. CASE <<k, l>> # <<j, m>>
      <4>1. c2[k][l] = c[k][l] BY <3>2, <1>3
      <4>2. k # i BY <2>4, <4>1, <1>0 DEF Bare
      <4>3. c[k][l] \in Nodes /\ c[k][l] # i BY <4>1, <2>4, <1>2, <1>5
      <4>. QED BY <4>1, <4>2, <4>3, <2>1, <2>2, <2>4
    <3>. QED BY <3>1, <3>2
  <2>. QED BY <2>2, <2>3, <2>4 DEF Rooted
<1>12. ~Removed => NoOrphans(t2, n2, c2)
  <2>. SUFFICES ASSUME ~Removed, NEW k \in Nodes, t2[k] # "free"
                PROVE  Placed(k, c2) \/ (n2[k] = 0 /\ c2[k] = Bare)
    BY DEF NoOrphans
  <2>1. NoOrphans(t, n, c) BY DEF Shape
  <2>2. CASE k = i BY <2>2, <1>8
  <2>3. CASE k # i
    <3>1. Placed(k, c) \/ (n[k] = 0 /\ c[k] = Bare) BY <2>1, <2>3, <1>4 DEF NoOrphans
    <3>2. k = j => n[k] # 0 OBVIOUS
    <3>. QED BY <3>1, <3>2, <2>3, <1>3, <1>9
  <2>. QED BY <2>2, <2>3
<1>13. Shape(t2, n2, c2, u2)
  BY <1>1, <1>6, <1>7, <1>10, <1>11, <1>12 DEF Shape
<1>. QED BY <1>13 DEF t2, c2, u2

(* An entry goes, if it is not that of a directory with entries.           *)
LEMMA EntryOf ==
    ASSUME NODES \in Nat \ {0}, IsFiniteSet(TNames),
           NEW t, NEW n, NEW c, NEW u, Shape(t, n, c, u),
           NEW j \in Nodes, NEW m \in TNames, c[j][m] # 0
    PROVE  /\ c[j][m] \in Nodes /\ c[j][m] # j /\ c[j][m] # 1
           /\ t[c[j][m]] \in {"dir", "dev"} /\ n[c[j][m]] >= 1 /\ t[j] = "dir"
           /\ t[c[j][m]] = "dir" => n[j] >= 1
<1>. DEFINE i == c[j][m]
<1>1. i \in Nodes /\ t[i] \in {"dir", "dev"} /\ i # 1 BY DEF Shape, Sorts, Leads
<1>2. t[j] = "dir" BY DEF Shape, Leads, Bare
<1>3. i # j
  <2>1. PICK d \in [Nodes -> Nat], b \in Nat :
          /\ \A k \in Nodes : d[k] <= b
          /\ \A k \in Nodes, l \in TNames : c[k][l] # 0 => d[k] < d[c[k][l]]
    BY DEF Shape, Rooted
  <2>2. d[j] < d[i] /\ d[j] \in Nat BY <2>1
  <2>. QED BY <2>2
<1>4. n[i] \in Nat /\ n[j] \in Nat BY <1>1 DEF Shape, Sorts
<1>5. n[i] # 0
  <2>1. Placed(i, c) BY DEF Placed
  <2>. QED BY <2>1, <1>1, Unlinked
<1>6. t[i] = "dir" => n[j] # 0 BY <1>2, Unlinked
<1>. QED BY <1>1, <1>2, <1>3, <1>4, <1>5, <1>6

LEMMA LessShape ==
    ASSUME NODES \in Nat \ {0}, IsFiniteSet(TNames),
           NEW t, NEW n, NEW c, NEW u, Shape(t, n, c, u),
           NEW j \in Nodes, NEW m \in TNames, NEW i \in Nodes, c[j][m] = i,
           t[i] = "dir" => c[i] = Bare, NEW n2 \in [Nodes -> Nat],
           n2[i] = n[i] - 1, n2[j] = (IF t[i] = "dir" THEN n[j] - 1 ELSE n[j]),
           \A k \in Nodes : k \notin {i, j} => n2[k] = n[k]
    PROVE  Shape(t, n2, [c EXCEPT ![j][m] = 0], u)
<1>. DEFINE c2 == [c EXCEPT ![j][m] = 0]
<1>0. /\ Sorts(t, n, c, u) /\ Leads(t, c, u) /\ Once(c) /\ Linked(t, n, c) /\ Rooted(c)
      /\ i # j /\ i # 1 /\ i # 0 /\ c[i] = Bare /\ n[i] >= 1 /\ t[i] \in {"dir", "dev"}
      /\ t[j] = "dir"
  <2>1. i # 0 BY DEF Nodes
  <2>2. c[i] = Bare BY DEF Shape, Leads
  <2>. QED BY <2>1, <2>2, EntryOf DEF Shape
<1>1. Sorts(t, n2, c2, u) BY <1>0 DEF Sorts
<1>3. /\ c2[j][m] = 0
      /\ \A k \in Nodes, l \in TNames : <<k, l>> # <<j, m>> => c2[k][l] = c[k][l]
      /\ \A k \in Nodes : k # j => c2[k] = c[k]
  BY <1>0 DEF Sorts
<1>4. \A k \in Nodes, l \in TNames :
        c2[k][l] # 0 => <<k, l>> # <<j, m>> /\ c2[k][l] = c[k][l]
  BY <1>3
<1>5. \A k \in Nodes, l \in TNames : <<k, l>> # <<j, m>> => c[k][l] # i
  BY <1>0 DEF Once
<1>. HIDE DEF c2
<1>6. Leads(t, c2, u)
  <2>1. ASSUME NEW k \in Nodes, t[k] # "dir" PROVE c2[k] = Bare
    BY <2>1, <1>3, <1>0 DEF Leads
  <2>. QED BY <2>1, <1>0, <1>4 DEF Leads
<1>7. Once(c2)
  <2>1. SUFFICES ASSUME NEW k \in Nodes, NEW h \in Nodes,
                        NEW l \in TNames, NEW g \in TNames,
                        c2[k][l] # 0, c2[k][l] = c2[h][g]
                 PROVE  k = h /\ l = g
    BY DEF Once
  <2>2. c2[k][l] = c[k][l] /\ c2[h][g] = c[h][g] BY <2>1, <1>4
  <2>3. c[k][l] # 0 /\ c[k][l] = c[h][g] BY <2>1, <2>2
  <2>4. Once(c) BY <1>0
  <2>. QED BY ONLY <2>3, <2>4, k \in Nodes, h \in Nodes, l \in TNames, g \in TNames DEF Once
<1>8. ~Placed(i, c2)
  <2>1. ASSUME NEW k \in Nodes, NEW l \in TNames PROVE c2[k][l] # i
    BY <1>0, <1>4, <1>5
  <2>. QED BY <2>1, <1>0 DEF Placed
<1>9. ASSUME NEW k \in Nodes, k # i PROVE Placed(k, c2) <=> Placed(k, c)
  <2>1. ASSUME NEW h \in Nodes, NEW l \in TNames, c2[h][l] = k PROVE Placed(k, c)
    <3>1. c[h][l] = k BY <1>4, <2>1 DEF Nodes
    <3>. QED BY <3>1 DEF Placed
  <2>2. ASSUME NEW h \in Nodes, NEW l \in TNames, c[h][l] = k PROVE Placed(k, c2)
    <3>1. <<h, l>> # <<j, m>> BY <2>2, <1>9
    <3>2. c2[h][l] = k BY <1>3, <2>2, <3>1
    <3>. QED BY <3>2 DEF Placed
  <2>. QED BY <2>1, <2>2 DEF Placed
<1>10. Linked(t, n2, c2)
  <2>1. ASSUME NEW k \in Nodes, t[k] = "dir"
        PROVE  n2[k] = (IF Placed(k, c2) THEN 1 ELSE 0) + Cardinality(Below(k, t, c2))
    <3>1. n[k] = (IF Placed(k, c) THEN 1 ELSE 0) + Cardinality(Below(k, t, c))
      BY <2>1, <1>0 DEF Linked
    <3>2. /\ Below(k, t, c) \in SUBSET TNames /\ Below(k, t, c2) \in SUBSET TNames
          /\ Cardinality(Below(k, t, c)) \in Nat /\ Cardinality(Below(k, t, c2)) \in Nat
      BY BelowFinite
    <3>3. ASSUME NEW l \in TNames, <<k, l>> # <<j, m>>
          PROVE  l \in Below(k, t, c2) <=> l \in Below(k, t, c)
      BY <3>3, <1>3 DEF Below
    <3>4. CASE k = i
      <4>1. Below(k, t, c2) = {} BY <3>4, <1>0, <1>3 DEF Below, Bare
      <4>2. Below(k, t, c) = {} BY <3>4, <1>0 DEF Below, Bare
      <4>3. Placed(k, c) BY <3>4 DEF Placed
      <4>. QED BY <3>1, <3>4, <4>1, <4>2, <4>3, <1>8, FS_EmptySet
    <3>5. CASE k = j
      <4>1. m \notin Below(k, t, c2) /\ (m \in Below(k, t, c) <=> t[i] = "dir")
        BY <3>5, <1>3, <1>0 DEF Below
      <4>2. \A l \in TNames : l # m => (l \in Below(k, t, c) <=> l \in Below(k, t, c2))
        BY <3>3
      <4>3. Cardinality(Below(k, t, c2)) =
              Cardinality(Below(k, t, c)) - (IF t[i] = "dir" THEN 1 ELSE 0)
        BY <3>2, <4>1, <4>2, OneDiffers
      <4>4. Placed(k, c2) <=> Placed(k, c) BY <3>5, <1>0, <1>9
      <4>. QED BY <3>1, <3>2, <3>5, <4>3, <4>4
    <3>6. CASE k \notin {i, j}
      <4>1. Below(k, t, c2) = Below(k, t, c) BY <3>2, <3>3, <3>6
      <4>. QED BY <3>1, <3>6, <4>1, <1>9
    <3>. QED BY <3>4, <3>5, <3>6
  <2>2. ASSUME NEW k \in Nodes, t[k] = "dev", Placed(k, c2) PROVE n2[k] = 1
    <3>1. k # i /\ k # j BY <2>2, <1>8, <1>0
    <3>. QED BY <3>1, <2>2, <1>9, <1>0 DEF Linked
  <2>. QED BY <2>1, <2>2 DEF Linked
<1>11. Rooted(c2) BY <1>0, <1>4 DEF Rooted
<1>12. ~Removed => NoOrphans(t, n2, c2)
  <2>. SUFFICES ASSUME ~Removed, NEW k \in Nodes, t[k] # "free"
                PROVE  Placed(k, c2) \/ (n2[k] = 0 /\ c2[k] = Bare)
    BY DEF NoOrphans
  <2>1. Placed(k, c) \/ (n[k] = 0 /\ c[k] = Bare) BY DEF Shape, NoOrphans
  <2>2. CASE k = i
    <3>1. c2[k] = Bare BY <2>2, <1>0, <1>3
    <3>2. Placed(k, c) BY <2>2 DEF Placed
    <3>3. n[k] = 1
      <4>1. CASE t[k] = "dev" BY <3>2, <4>1, <1>0 DEF Linked
      <4>2. CASE t[k] = "dir"
        <5>1. Below(k, t, c) = {} BY <2>2, <1>0 DEF Below, Bare
        <5>2. Cardinality(Below(k, t, c)) = 0 BY <5>1, FS_EmptySet
        <5>3. n[k] = (IF Placed(k, c) THEN 1 ELSE 0) + Cardinality(Below(k, t, c))
          BY <4>2, <1>0 DEF Linked
        <5>. QED BY <3>2, <5>2, <5>3
      <4>. QED BY <4>1, <4>2, <2>2, <1>0
    <3>. QED BY <2>2, <3>1, <3>3
  <2>3. CASE k = j
    <3>1. c[k] # Bare BY <2>3, <1>0 DEF Bare
    <3>. QED BY <2>1, <2>3, <3>1, <1>9, <1>0
  <2>4. CASE k \notin {i, j} BY <2>1, <2>4, <1>3, <1>9
  <2>. QED BY <2>2, <2>3, <2>4
<1>13. Shape(t, n2, c2, u) BY <1>1, <1>6, <1>7, <1>10, <1>11, <1>12 DEF Shape
<1>. QED BY <1>13 DEF c2
-------------------------------------------------------------------------------
(* A step of one process.  What it gives back may be freed.                *)
Alone(p) ==
    \A q \in Procs \ {p} :
        /\ tcwd'[q] = tcwd[q] /\ tpc'[q] = tpc[q] /\ tpath'[q] = tpath[q]
        /\ tname'[q] = tname[q] /\ tdp'[q] = tdp[q] /\ tip'[q] = tip[q]
Frees(t, n, c) ==
    /\ Shape(t, n, c, tup') /\ Dirs!iput(n, c, t)
    /\ \A i \in Nodes : t[i] # "free" /\ n[i] = 0 => Dirs!Held(i)

LEMMA Freeing ==
    ASSUME Dirs!TreeConstants, NEW t, NEW n, NEW c, Frees(t, n, c)
    PROVE  /\ Shape(ttype', tnlink', tchild', tup') /\ Alive'
           /\ \A i \in Nodes : t[i] # "free" /\ Dirs!Kept(i) =>
                ttype'[i] = t[i] /\ tchild'[i] = c[i]
<1>. DEFINE F == {i \in Nodes : t[i] # "free" /\ n[i] = 0 /\ Dirs!Held(i) /\ ~Dirs!Kept(i)}
<1>1. NODES \in Nat \ {0} /\ IsFiniteSet(TNames)
  BY DEF Dirs!TreeConstants, Dirs!IsFiniteSet, IsFiniteSet
<1>2. Dirs!Inums = Nodes /\ Dirs!NoEntries = Bare
  BY DEF Dirs!Inums, Dirs!NoEntries, Nodes, Bare
<1>3. /\ ttype' = [i \in Nodes |-> IF i \in F THEN "free" ELSE t[i]]
      /\ tchild' = [i \in Nodes |-> IF i \in F THEN Bare ELSE c[i]]
      /\ tnlink' = n
  BY <1>2 DEF Frees, Dirs!iput
<1>4. F \in SUBSET Nodes /\ \A i \in F : t[i] # "free" /\ n[i] = 0 OBVIOUS
<1>5. Shape(t, n, c, tup') BY DEF Frees
<1>6. Shape(ttype', tnlink', tchild', tup')
  <2>. HIDE DEF F
  <2>. QED BY <1>1, <1>3, <1>4, <1>5, FreeShape
<1>7. ASSUME NEW i \in Nodes, ttype'[i] # "free" PROVE tnlink'[i] > 0 \/ Dirs!Kept(i)
  <2>1. i \notin F /\ t[i] # "free" BY <1>3, <1>7
  <2>2. n[i] \in Nat BY <1>5 DEF Shape, Sorts
  <2>3. n[i] = 0 => Dirs!Held(i) BY <2>1 DEF Frees
  <2>. QED BY <2>1, <2>2, <2>3, <1>3
<1>8. Alive' BY <1>7 DEF Alive, Dirs!Held, Dirs!Kept
<1>9. \A i \in Nodes : t[i] # "free" /\ Dirs!Kept(i) =>
        ttype'[i] = t[i] /\ tchild'[i] = c[i]
  BY <1>3
<1>. QED BY <1>6, <1>8, <1>9

LEMMA TreeStep ==
    ASSUME Dirs!TreeConstants, TreeInv, NEW p \in Procs, Walkers', Alone(p),
           NEW t, NEW n, NEW c, Frees(t, n, c),
           \A i \in Nodes : ttype[i] # "free" => t[i] = ttype[i],
           \A i \in Nodes : towner[i] \notin {p, "none"} =>
             c[i] = tchild[i] /\ towner'[i] = towner[i],
           \A i \in Nodes : towner'[i] # "none" =>
             \/ towner[i] # p /\ towner'[i] = towner[i]
             \/ towner'[i] = p /\ tpc'[p] = "unlink_ip" /\ tdp'[p] = i,
           StandsAt(t, tcwd'[p], tpc'[p], tpath'[p], tname'[p], tdp'[p], tip'[p]),
           UnlinksAt(p, c, towner', tpc'[p], tname'[p], tdp'[p], tip'[p])
    PROVE  TreeInv'
<1>1. /\ Shape(ttype', tnlink', tchild', tup') /\ Alive'
      /\ \A i \in Nodes : t[i] # "free" /\ Dirs!Kept(i) =>
           ttype'[i] = t[i] /\ tchild'[i] = c[i]
  BY Freeing
<1>2. \A q \in Procs : Dirs!Kept(tcwd'[q]) /\ Dirs!Kept(tdp'[q]) /\ Dirs!Kept(tip'[q])
  BY DEF Dirs!Kept
<1>3. \A q \in Procs : /\ tcwd'[q] \in Nodes /\ tdp'[q] \in Nodes \cup {0}
                        /\ tip'[q] \in Nodes \cup {0}
  BY DEF Walkers
<1>4. Stands(p)'
  <2>1. ttype'[tcwd'[p]] = "dir" BY <1>1, <1>2, <1>3 DEF StandsAt
  <2>2. tdp'[p] # 0 => ttype'[tdp'[p]] = "dir" BY <1>1, <1>2, <1>3 DEF StandsAt
  <2>3. Dotless => (tip'[p] # 0 => ttype'[tip'[p]] # "free")
    BY <1>1, <1>2, <1>3 DEF StandsAt
  <2>. QED BY <2>1, <2>2, <2>3 DEF Stands, StandsAt
<1>5. Unlinks(p)'
  <2>1. SUFFICES ASSUME tpc'[p] = "unlink_ip" PROVE Unlinks(p)' BY DEF Unlinks, UnlinksAt
  <2>2. tdp'[p] \in Nodes /\ t[tdp'[p]] = "dir" BY <2>1, <1>3 DEF StandsAt, UnlinksAt
  <2>3. tchild'[tdp'[p]] = c[tdp'[p]] BY <2>2, <1>1, <1>2
  <2>. QED BY <2>3 DEF Unlinks, UnlinksAt
<1>6. ASSUME NEW q \in Procs, q # p PROVE Stands(q)' /\ Unlinks(q)'
  <2>1. /\ tcwd'[q] = tcwd[q] /\ tpc'[q] = tpc[q] /\ tpath'[q] = tpath[q]
        /\ tname'[q] = tname[q] /\ tdp'[q] = tdp[q] /\ tip'[q] = tip[q]
    BY <1>6 DEF Alone
  <2>2. Stands(q) /\ Unlinks(q) BY DEF TreeInv
  <2>3. ASSUME NEW i \in {tcwd[q], tdp[q], tip[q]}, i # 0, ttype[i] # "free"
        PROVE  i \in Nodes /\ ttype'[i] = ttype[i] /\ tchild'[i] = c[i]
    <3>1. i \in Nodes /\ Dirs!Kept(i) BY <2>1, <2>3, <1>2, <1>3
    <3>. QED BY <3>1, <1>1, <2>3
  <2>4. tcwd[q] # 0 BY <2>1, <1>3 DEF Nodes
  <2>5. Stands(q)'
    <3>1. ttype'[tcwd[q]] = "dir" BY <2>2, <2>3, <2>4 DEF Stands, StandsAt
    <3>2. tdp[q] # 0 => ttype'[tdp[q]] = "dir" BY <2>2, <2>3 DEF Stands, StandsAt
    <3>3. Dotless => (tip[q] # 0 => ttype'[tip[q]] # "free")
      BY <2>2, <2>3 DEF Stands, StandsAt
    <3>. QED BY <2>1, <2>2, <3>1, <3>2, <3>3 DEF Stands, StandsAt
  <2>6. Unlinks(q)'
    <3>1. SUFFICES ASSUME tpc[q] = "unlink_ip" PROVE Unlinks(q)'
      BY <2>1 DEF Unlinks, UnlinksAt
    <3>2. tdp[q] # 0 /\ towner[tdp[q]] = q /\ ttype[tdp[q]] = "dir"
      BY <2>2, <3>1 DEF Unlinks, UnlinksAt, Stands, StandsAt
    <3>3. tdp[q] \in Nodes /\ tchild'[tdp[q]] = c[tdp[q]] BY <2>3, <3>2
    <3>4. q # "none" BY DEF Dirs!TreeConstants, Dirs!Nobody
    <3>5. c[tdp[q]] = tchild[tdp[q]] /\ towner'[tdp[q]] = q BY <1>6, <3>2, <3>3, <3>4
    <3>. QED BY <2>1, <2>2, <3>1, <3>3, <3>5 DEF Unlinks, UnlinksAt
  <2>. QED BY <2>5, <2>6
<1>7. DirsLocked'
  <2>1. SUFFICES ASSUME NEW i \in Nodes, towner'[i] # "none"
                 PROVE  tpc'[towner'[i]] = "unlink_ip" /\ tdp'[towner'[i]] = i
    BY DEF DirsLocked
  <2>2. CASE towner[i] # p /\ towner'[i] = towner[i]
    <3>1. towner[i] \in Procs \ {p} BY <2>1, <2>2 DEF TreeInv, Walkers
    <3>2. tpc[towner[i]] = "unlink_ip" /\ tdp[towner[i]] = i
      BY <2>1, <2>2 DEF TreeInv, DirsLocked
    <3>. QED BY <2>2, <3>1, <3>2 DEF Alone
  <2>3. CASE towner'[i] = p /\ tpc'[p] = "unlink_ip" /\ tdp'[p] = i BY <2>3
  <2>. QED BY <2>1, <2>2, <2>3
<1>. QED BY <1>1, <1>4, <1>5, <1>6, <1>7 DEF TreeInv

LEMMA TreeFacts ==
    ASSUME Dirs!TreeConstants
    PROVE  /\ NODES \in Nat \ {0} /\ IsFiniteSet(TNames) /\ "none" \notin Procs
           /\ TNames \cap {"/", ".", ".."} = {} /\ 1 \in Nodes /\ 0 \notin Nodes
           /\ Dirs!Inums = Nodes /\ Dirs!NoEntries = Bare
<1>1. Dirs!Inums = Nodes BY DEF Dirs!Inums, Nodes
<1>2. Dirs!NoEntries = Bare BY DEF Dirs!NoEntries, Bare
<1>3. IsFiniteSet(TNames) BY DEF Dirs!TreeConstants, Dirs!IsFiniteSet, IsFiniteSet
<1>. QED BY <1>1, <1>2, <1>3 DEF Dirs!TreeConstants, Dirs!Nobody, Nodes

LEMMA InodeTypes ==
    ASSUME TreeInv
    PROVE  /\ ttype \in [Nodes -> {"free", "dir", "dev"}] /\ tnlink \in [Nodes -> Nat]
           /\ tchild \in [Nodes -> [TNames -> Nodes \cup {0}]] /\ tup \in [Nodes -> Nodes]
BY DEF TreeInv, Shape, Sorts

LEMMA DropFrees ==
    ASSUME TreeInv, Dirs!drop
    PROVE  Frees(ttype, tnlink, tchild)
<1>1. tup' = tup /\ Dirs!iput(tnlink, tchild, ttype) BY DEF Dirs!drop
<1>2. Shape(ttype, tnlink, tchild, tup') BY <1>1 DEF TreeInv
<1>3. ASSUME NEW i \in Nodes, ttype[i] # "free", tnlink[i] = 0 PROVE Dirs!Held(i)
  BY <1>3 DEF TreeInv, Alive
<1>. QED BY <1>1, <1>2, <1>3 DEF Frees

LEMMA NoneFreed ==
    ASSUME Dirs!TreeConstants, TreeInv, UNCHANGED <<ttype, tnlink, tchild, tup>>,
           \A i \in Nodes : Dirs!Held(i) => Dirs!Kept(i)
    PROVE  Frees(ttype, tnlink, tchild)
<1>1. {i \in Nodes :
         ttype[i] # "free" /\ tnlink[i] = 0 /\ Dirs!Held(i) /\ ~Dirs!Kept(i)} = {}
  OBVIOUS
<1>2. /\ ttype = [i \in Nodes |-> ttype[i]] /\ tchild = [i \in Nodes |-> tchild[i]]
  BY InodeTypes
<1>3. Dirs!iput(tnlink, tchild, ttype) BY <1>1, <1>2, TreeFacts DEF Dirs!iput
<1>4. Dirs!drop BY <1>3 DEF Dirs!drop
<1>. QED BY <1>4, DropFrees

LEMMA Owned ==
    ASSUME TreeInv, NEW p \in Procs, tpc[p] # "unlink_ip", NEW i \in Nodes,
           towner[i] # "none"
    PROVE  towner[i] # p
BY DEF TreeInv, DirsLocked

LEMMA Returned ==
    ASSUME Dirs!TreeConstants, TreeInv, NEW p \in Procs, Dirs!Return(p),
           tcwd' \in [Procs -> Nodes], \A q \in Procs \ {p} : tcwd'[q] = tcwd[q]
    PROVE  /\ Walkers' /\ Alone(p)
           /\ tpc'[p] = "idle" /\ tpath'[p] = <<>> /\ tdp'[p] = 0 /\ tip'[p] = 0
           /\ \A i \in Nodes : towner[i] \notin {p, "none"} => towner'[i] = towner[i]
           /\ \A i \in Nodes : towner'[i] # "none" =>
                towner[i] # p /\ towner'[i] = towner[i]
<1>0. Walkers BY DEF TreeInv
<1>1. /\ tpc' = [tpc EXCEPT ![p] = "idle"] /\ tpath' = [tpath EXCEPT ![p] = <<>>]
      /\ tname' = [tname EXCEPT ![p] = "none"]
      /\ tdp' = [tdp EXCEPT ![p] = 0] /\ tip' = [tip EXCEPT ![p] = 0]
      /\ towner' = [i \in Nodes |-> IF towner[i] = p THEN "none" ELSE towner[i]]
  BY TreeFacts DEF Dirs!Return, Dirs!Goto, Dirs!Set, Dirs!Nobody
<1>2. Walkers'
  <2>1. <<>> \in Seq(Elements) BY EmptySeq
  <2>2. tpath' \in [Procs -> Seq(Elements)] BY <1>0, <1>1, <2>1 DEF Walkers
  <2>3. tpc' \in [Procs -> Calling \cup {"idle", "create_exists", "unlink_ip", "panic"}]
    BY <1>0, <1>1 DEF Walkers
  <2>4. towner' \in [Nodes -> Procs \cup {"none"}] BY <1>0, <1>1 DEF Walkers
  <2>. QED BY <1>0, <1>1, <2>2, <2>3, <2>4 DEF Walkers
<1>3. Alone(p) BY <1>0, <1>1 DEF Alone, Walkers
<1>4. tpc'[p] = "idle" /\ tpath'[p] = <<>> /\ tdp'[p] = 0 /\ tip'[p] = 0
  BY <1>0, <1>1 DEF Walkers
<1>5. \A i \in Nodes : towner'[i] = IF towner[i] = p THEN "none" ELSE towner[i] BY <1>1
<1>. QED BY <1>2, <1>3, <1>4, <1>5

(* A call that ends, with nothing but what is freed.                       *)
LEMMA EndStep ==
    ASSUME Dirs!TreeConstants, TreeInv, NEW p \in Procs, Dirs!Return(p),
           tcwd' \in [Procs -> Nodes], \A q \in Procs \ {p} : tcwd'[q] = tcwd[q],
           NEW t, NEW n, NEW c, Frees(t, n, c), t[tcwd'[p]] = "dir",
           \A i \in Nodes : ttype[i] # "free" => t[i] = ttype[i],
           \A i \in Nodes : towner[i] \notin {p, "none"} => c[i] = tchild[i]
    PROVE  TreeInv'
<1>1. /\ Walkers' /\ Alone(p)
      /\ tpc'[p] = "idle" /\ tpath'[p] = <<>> /\ tdp'[p] = 0 /\ tip'[p] = 0
      /\ \A i \in Nodes : towner[i] \notin {p, "none"} => towner'[i] = towner[i]
      /\ \A i \in Nodes : towner'[i] # "none" => towner[i] # p /\ towner'[i] = towner[i]
  BY Returned
<1>2. StandsAt(t, tcwd'[p], tpc'[p], tpath'[p], tname'[p], tdp'[p], tip'[p])
  BY <1>1 DEF StandsAt, Calling
<1>3. UnlinksAt(p, c, towner', tpc'[p], tname'[p], tdp'[p], tip'[p])
  BY <1>1 DEF UnlinksAt
<1>. QED BY <1>1, <1>2, <1>3, TreeStep

LEMMA FailStep ==
    ASSUME Dirs!TreeConstants, TreeInv, NEW p \in Procs, Dirs!Return(p), UNCHANGED tcwd,
           Dirs!drop
    PROVE  TreeInv'
<1>1. Frees(ttype, tnlink, tchild) BY DropFrees
<1>2. tcwd' \in [Procs -> Nodes] /\ \A q \in Procs : tcwd'[q] = tcwd[q]
  BY DEF TreeInv, Walkers
<1>3. ttype[tcwd'[p]] = "dir" BY <1>2 DEF TreeInv, Stands, StandsAt
<1>. QED BY <1>1, <1>2, <1>3, EndStep

LEMMA LookedUp ==
    ASSUME Dirs!TreeConstants, TreeInv, NEW d \in Nodes, ttype[d] = "dir",
           NEW m \in Elements
    PROVE  /\ Dirs!dirlookup(d, m) \in Nodes \cup {0}
           /\ Dotless /\ Dirs!dirlookup(d, m) # 0 => ttype[Dirs!dirlookup(d, m)] # "free"
           /\ m \in {".", ".."} => Dirs!dirlookup(d, m) # 0
           /\ m \notin {".", ".."} => m \in TNames /\ Dirs!dirlookup(d, m) = tchild[d][m]
<1>1. m \in TNames \cup {".", ".."} /\ (Dotless => m # "..") BY DEF Elements
<1>2. CASE m = "."
  <2>1. Dirs!dirlookup(d, m) = d BY <1>2 DEF Dirs!dirlookup
  <2>. QED BY <1>2, <2>1, TreeFacts
<1>3. CASE m = ".."
  <2>1. Dirs!dirlookup(d, m) = tup[d] BY <1>3 DEF Dirs!dirlookup
  <2>2. tup[d] \in Nodes BY InodeTypes
  <2>. QED BY <1>1, <1>3, <2>1, <2>2, TreeFacts
<1>4. CASE m \notin {".", ".."}
  <2>1. m \in TNames /\ Dirs!dirlookup(d, m) = tchild[d][m] BY <1>1, <1>4 DEF Dirs!dirlookup
  <2>2. tchild[d][m] \in Nodes \cup {0} BY <2>1, InodeTypes
  <2>3. tchild[d][m] # 0 => ttype[tchild[d][m]] # "free"
    BY <2>1 DEF TreeInv, Shape, Leads
  <2>. QED BY <1>4, <2>1, <2>2, <2>3
<1>. QED BY <1>2, <1>3, <1>4

LEMMA SeqOver ==
    ASSUME NEW S, NEW T, NEW s \in Seq(S), \A k \in 1 .. Len(s) : s[k] \in T
    PROVE  s \in Seq(T)
<1>1. Len(s) \in Nat /\ DOMAIN s = 1 .. Len(s) /\ s \in [1 .. Len(s) -> S] BY LenProperties
<1>2. s \in [1 .. Len(s) -> T] BY <1>1
<1>. QED BY <1>1, <1>2, SeqDef

(* The steps of a walk.                                                    *)
LEMMA CallStep ==
    ASSUME Dirs!TreeConstants, TreeInv, NEW p \in Procs,
           NEW what \in {"mkdir", "mknod", "chdir", "unlink"}, NEW to \in TPaths,
           Dirs!call(p, what, to)
    PROVE  TreeInv'
<1>0. Walkers /\ Stands(p) BY DEF TreeInv
<1>1. /\ tpc[p] = "idle" /\ tpc' = [tpc EXCEPT ![p] = what]
      /\ UNCHANGED <<ttype, tnlink, tchild, tup, towner, tcwd, tname, tdp>>
  BY DEF Dirs!call, Dirs!Goto, Dirs!inodes
<1>2. tdp[p] = 0 /\ tip[p] = 0 BY <1>0, <1>1 DEF Stands, StandsAt
<1>3. /\ to \in Seq(TNames \cup {"/", ".", ".."}) /\ to # <<>>
      /\ \A i \in 2 .. Len(to) : to[i] # "/"
      /\ (Dotless => \A i \in 1 .. Len(to) : to[i] # "..")
  BY DEF Dirs!TreeConstants, Dotless
<1>4. PICK x \in Seq(Elements), i \in Nodes :
        /\ tpath' = [tpath EXCEPT ![p] = x] /\ tip' = [tip EXCEPT ![p] = i]
        /\ ttype[i] = "dir"
  <2>1. CASE to[1] = "/"
    <3>1. tpath' = [tpath EXCEPT ![p] = Tail(to)] /\ tip' = [tip EXCEPT ![p] = 1]
      BY <2>1 DEF Dirs!call, Dirs!Set, Dirs!Root
    <3>2. /\ Len(to) \in Nat /\ Len(to) >= 1 /\ Len(Tail(to)) = Len(to) - 1
          /\ Tail(to) \in Seq(TNames \cup {"/", ".", ".."})
          /\ \A k \in 1 .. Len(Tail(to)) : Tail(to)[k] = to[k + 1]
      BY <1>3, HeadTailProperties, EmptySeq, LenProperties
    <3>3. ASSUME NEW k \in 1 .. Len(Tail(to)) PROVE Tail(to)[k] \in Elements
      <4>1. k + 1 \in 2 .. Len(to) BY <3>2
      <4>2. to[k + 1] # "/" /\ (Dotless => to[k + 1] # "..") BY <1>3, <3>2, <4>1
      <4>3. to[k + 1] \in TNames \cup {"/", ".", ".."} BY <1>3, <4>1, ElementOfSeq, <3>2
      <4>. QED BY <3>2, <4>2, <4>3 DEF Elements
    <3>4. Tail(to) \in Seq(Elements) BY <3>2, <3>3, SeqOver
    <3>5. 1 \in Nodes /\ ttype[1] = "dir" BY TreeFacts DEF TreeInv, Shape, Leads
    <3>. QED BY <3>1, <3>4, <3>5
  <2>2. CASE to[1] # "/"
    <3>1. tpath' = [tpath EXCEPT ![p] = to] /\ tip' = [tip EXCEPT ![p] = tcwd[p]]
      BY <2>2 DEF Dirs!call, Dirs!Set
    <3>2. ASSUME NEW k \in 1 .. Len(to) PROVE to[k] \in Elements
      <4>1. to[k] # "/"
        <5>1. k = 1 \/ k \in 2 .. Len(to) BY <1>3, LenProperties
        <5>. QED BY <5>1, <2>2, <1>3
      <4>2. to[k] \in TNames \cup {"/", ".", ".."} BY <1>3, ElementOfSeq
      <4>3. Dotless => to[k] # ".." BY DEF Dotless
      <4>. QED BY <4>1, <4>2, <4>3 DEF Elements
    <3>3. to \in Seq(Elements) BY <1>3, <3>2, SeqOver
    <3>4. tcwd[p] \in Nodes /\ ttype[tcwd[p]] = "dir"
      BY <1>0 DEF Walkers, Stands, StandsAt
    <3>. QED BY <3>1, <3>3, <3>4
  <2>. QED BY <2>1, <2>2
<1>5. Walkers'
  <2>1. what \in Calling BY DEF Calling
  <2>2. tpc' \in [Procs -> Calling \cup {"idle", "create_exists", "unlink_ip", "panic"}]
    BY <1>0, <1>1, <2>1 DEF Walkers
  <2>3. tpath' \in [Procs -> Seq(Elements)] /\ tip' \in [Procs -> Nodes \cup {0}]
    BY <1>0, <1>4 DEF Walkers
  <2>. QED BY <1>0, <1>1, <2>2, <2>3 DEF Walkers
<1>6. Alone(p) BY <1>0, <1>1, <1>4 DEF Alone, Walkers
<1>7. /\ tpc'[p] = what /\ tip'[p] = i /\ tdp'[p] = 0 /\ tcwd'[p] = tcwd[p]
      /\ \A q \in Procs : q # p => tip'[q] = tip[q]
  BY <1>0, <1>1, <1>2, <1>4 DEF Walkers
<1>8. \A k \in Nodes : Dirs!Held(k) => Dirs!Kept(k)
  BY <1>1, <1>2, <1>7, TreeFacts DEF Dirs!Held, Dirs!Kept
<1>9. Frees(ttype, tnlink, tchild) BY <1>1, <1>8, NoneFreed
<1>10. StandsAt(ttype, tcwd'[p], tpc'[p], tpath'[p], tname'[p], tdp'[p], tip'[p])
  BY <1>0, <1>4, <1>7, TreeFacts DEF Stands, StandsAt
<1>11. UnlinksAt(p, tchild, towner', tpc'[p], tname'[p], tdp'[p], tip'[p])
  BY <1>7 DEF UnlinksAt
<1>12. \A k \in Nodes : towner'[k] # "none" => towner[k] # p /\ towner'[k] = towner[k]
  BY <1>1, Owned
<1>. QED BY <1>1, <1>5, <1>6, <1>9, <1>10, <1>11, <1>12, TreeStep

LEMMA Walks ==
    ASSUME TreeInv, NEW p \in Procs, Dirs!Walking(p)
    PROVE  /\ tpc[p] \in Calling /\ tdp[p] = 0 /\ tip[p] \in Nodes
           /\ Head(tpath[p]) \in Elements /\ Tail(tpath[p]) \in Seq(Elements)
<1>0. Walkers /\ Stands(p) BY DEF TreeInv
<1>1. tpc[p] \in Calling /\ tpath[p] # <<>> BY DEF Dirs!Walking, Calling
<1>2. tdp[p] = 0 /\ tip[p] # 0 BY <1>0, <1>1 DEF Stands, StandsAt
<1>3. tip[p] \in Nodes BY <1>0, <1>2 DEF Walkers
<1>4. Head(tpath[p]) \in Elements /\ Tail(tpath[p]) \in Seq(Elements)
  BY <1>0, <1>1, HeadTailProperties DEF Walkers
<1>. QED BY <1>1, <1>2, <1>3, <1>4

LEMMA NamexStep ==
    ASSUME Dirs!TreeConstants, TreeInv, NEW p \in Procs, Dirs!namex(p)
    PROVE  TreeInv'
<1>. DEFINE i == tip[p]
            m == Head(tpath[p])
            next == Dirs!dirlookup(i, m)
<1>0. Walkers /\ Stands(p) BY DEF TreeInv
<1>1. /\ Dirs!Walking(p) /\ ttype[i] # "free" /\ tcwd' = tcwd /\ Dirs!drop
  BY DEF Dirs!namex, Dirs!Locks
<1>2. /\ tpc[p] \in Calling /\ tdp[p] = 0 /\ i \in Nodes
      /\ m \in Elements /\ Tail(tpath[p]) \in Seq(Elements)
  BY <1>1, Walks
<1>3. CASE ttype[i] # "dir" \/ (~Dirs!Parent(p) /\ next = 0)
  <2>1. Dirs!Return(p) BY <1>3 DEF Dirs!namex
  <2>. QED BY <1>1, <2>1, FailStep
<1>4. CASE ttype[i] = "dir" /\ Dirs!Parent(p)
  <2>1. /\ tdp' = [tdp EXCEPT ![p] = i] /\ tip' = [tip EXCEPT ![p] = 0]
        /\ tname' = [tname EXCEPT ![p] = m] /\ tpath' = [tpath EXCEPT ![p] = <<>>]
        /\ UNCHANGED <<tpc, towner>>
    BY <1>4 DEF Dirs!namex, Dirs!Set
  <2>2. Walkers'
    <3>1. <<>> \in Seq(Elements) BY EmptySeq
    <3>2. tpath' \in [Procs -> Seq(Elements)] BY <1>0, <2>1, <3>1 DEF Walkers
    <3>. QED BY <1>0, <1>1, <1>2, <2>1, <3>2 DEF Walkers
  <2>3. Alone(p) BY <1>0, <1>1, <2>1 DEF Alone, Walkers
  <2>4. /\ tdp'[p] = i /\ tip'[p] = 0 /\ tname'[p] = m /\ tpath'[p] = <<>>
        /\ tpc'[p] = tpc[p] /\ tcwd'[p] = tcwd[p]
    BY <1>0, <1>1, <2>1 DEF Walkers
  <2>5. tpc[p] \in {"mkdir", "mknod", "unlink"} BY <1>4 DEF Dirs!Parent, Dirs!WantsParent
  <2>6. StandsAt(ttype, tcwd'[p], tpc'[p], tpath'[p], tname'[p], tdp'[p], tip'[p])
    BY <1>0, <1>2, <1>4, <2>4, <2>5, TreeFacts DEF Stands, StandsAt
  <2>7. UnlinksAt(p, tchild, towner', tpc'[p], tname'[p], tdp'[p], tip'[p])
    BY <2>4, <2>5 DEF UnlinksAt
  <2>8. \A k \in Nodes : towner'[k] # "none" => towner[k] # p /\ towner'[k] = towner[k]
    BY <2>1, <2>5, Owned
  <2>9. Frees(ttype, tnlink, tchild) BY <1>1, DropFrees
  <2>. QED BY <2>1, <2>2, <2>3, <2>6, <2>7, <2>8, <2>9, TreeStep
<1>5. CASE ttype[i] = "dir" /\ ~Dirs!Parent(p) /\ next # 0
  <2>1. /\ tip' = [tip EXCEPT ![p] = next] /\ tpath' = [tpath EXCEPT ![p] = Tail(tpath[p])]
        /\ UNCHANGED <<tpc, towner, tname, tdp>>
    BY <1>5 DEF Dirs!namex, Dirs!Set
  <2>2. next \in Nodes /\ (Dotless => ttype[next] # "free") BY <1>2, <1>5, LookedUp
  <2>3. Walkers'
    <3>1. tip' \in [Procs -> Nodes \cup {0}] /\ tpath' \in [Procs -> Seq(Elements)]
      BY <1>0, <1>2, <2>1, <2>2 DEF Walkers
    <3>. QED BY <1>0, <1>1, <2>1, <3>1 DEF Walkers
  <2>4. Alone(p) BY <1>0, <1>1, <2>1 DEF Alone, Walkers
  <2>5. /\ tip'[p] = next /\ tdp'[p] = 0 /\ tname'[p] = tname[p]
        /\ tpc'[p] = tpc[p] /\ tcwd'[p] = tcwd[p]
    BY <1>0, <1>1, <1>2, <2>1 DEF Walkers
  <2>6. tpc[p] \notin {"idle", "unlink_ip", "panic"} BY <1>2 DEF Calling
  <2>7. StandsAt(ttype, tcwd'[p], tpc'[p], tpath'[p], tname'[p], tdp'[p], tip'[p])
    BY <1>0, <1>2, <2>2, <2>5, <2>6, TreeFacts DEF Stands, StandsAt
  <2>8. UnlinksAt(p, tchild, towner', tpc'[p], tname'[p], tdp'[p], tip'[p])
    BY <2>5, <2>6 DEF UnlinksAt
  <2>9. \A k \in Nodes : towner'[k] # "none" => towner[k] # p /\ towner'[k] = towner[k]
    BY <2>1, <2>6, Owned
  <2>10. Frees(ttype, tnlink, tchild) BY <1>1, DropFrees
  <2>. QED BY <2>1, <2>3, <2>4, <2>7, <2>8, <2>9, <2>10, TreeStep
<1>. QED BY <1>3, <1>4, <1>5

(* The steps that end a call, and where create() and unlink() wait.        *)
LEMMA RootStep ==
    ASSUME Dirs!TreeConstants, TreeInv, NEW p \in Procs,
           Dirs!namex_root(p) \/ Dirs!create_exists(p) \/ Dirs!create_fail(p)
             \/ Dirs!unlink_bad(p)
    PROVE  TreeInv'
<1>1. Dirs!Return(p) /\ UNCHANGED tcwd /\ Dirs!drop
  BY DEF Dirs!namex_root, Dirs!create_exists, Dirs!create_fail, Dirs!unlink_bad, Dirs!Fail
<1>. QED BY <1>1, FailStep

LEMMA ChdirStep ==
    ASSUME Dirs!TreeConstants, TreeInv, NEW p \in Procs, Dirs!chdir(p)
    PROVE  TreeInv'
<1>0. Walkers /\ Stands(p) BY DEF TreeInv
<1>1. /\ tpc[p] = "chdir" /\ Dirs!Return(p) /\ Dirs!drop
      /\ tcwd' = IF ttype[tip[p]] = "dir" THEN [tcwd EXCEPT ![p] = tip[p]] ELSE tcwd
  BY DEF Dirs!chdir, Dirs!Set
<1>2. tip[p] \in Nodes
  <2>1. tdp[p] = 0 /\ tip[p] # 0 BY <1>0, <1>1 DEF Stands, StandsAt, Calling
  <2>. QED BY <1>0, <2>1 DEF Walkers
<1>3. /\ tcwd' \in [Procs -> Nodes] /\ ttype[tcwd'[p]] = "dir"
      /\ \A q \in Procs \ {p} : tcwd'[q] = tcwd[q]
  <2>1. CASE ttype[tip[p]] = "dir" BY <2>1, <1>0, <1>1, <1>2 DEF Walkers
  <2>2. CASE ttype[tip[p]] # "dir"
    BY <2>2, <1>0, <1>1 DEF Walkers, Stands, StandsAt
  <2>. QED BY <2>1, <2>2
<1>4. Frees(ttype, tnlink, tchild) BY <1>1, DropFrees
<1>. QED BY <1>1, <1>3, <1>4, EndStep

LEMMA InDir ==
    ASSUME Dirs!TreeConstants, TreeInv, NEW p \in Procs, tdp[p] # 0
    PROVE  /\ tdp[p] \in Nodes /\ ttype[tdp[p]] = "dir" /\ tname[p] \in Elements
           /\ tpath[p] = <<>>
BY DEF TreeInv, Walkers, Stands, StandsAt

LEMMA CreateFoundStep ==
    ASSUME Dirs!TreeConstants, TreeInv, NEW p \in Procs, Dirs!create_found(p)
    PROVE  TreeInv'
<1>. DEFINE i == Dirs!dirlookup(tdp[p], tname[p])
<1>0. Walkers /\ Stands(p) BY DEF TreeInv
<1>1. /\ tpc[p] \in {"mkdir", "mknod"} /\ tdp[p] # 0 /\ i # 0 /\ Dirs!drop
      /\ tip' = [tip EXCEPT ![p] = i] /\ tdp' = [tdp EXCEPT ![p] = 0]
      /\ tpc' = [tpc EXCEPT ![p] = "create_exists"]
      /\ UNCHANGED <<towner, tcwd, tpath, tname>>
  BY DEF Dirs!create_found, Dirs!Creating, Dirs!Set, Dirs!Goto
<1>2. i \in Nodes /\ (Dotless => ttype[i] # "free") BY <1>1, InDir, LookedUp
<1>3. Walkers'
  <2>1. tip' \in [Procs -> Nodes \cup {0}] /\ tdp' \in [Procs -> Nodes \cup {0}]
    BY <1>0, <1>1, <1>2 DEF Walkers
  <2>2. tpc' \in [Procs -> Calling \cup {"idle", "create_exists", "unlink_ip", "panic"}]
    BY <1>0, <1>1 DEF Walkers
  <2>. QED BY <1>0, <1>1, <2>1, <2>2 DEF Walkers
<1>4. Alone(p) BY <1>0, <1>1 DEF Alone, Walkers
<1>5. /\ tip'[p] = i /\ tdp'[p] = 0 /\ tpc'[p] = "create_exists"
      /\ tcwd'[p] = tcwd[p] /\ tpath'[p] = <<>>
  BY <1>0, <1>1, InDir DEF Walkers
<1>6. StandsAt(ttype, tcwd'[p], tpc'[p], tpath'[p], tname'[p], tdp'[p], tip'[p])
  BY <1>0, <1>1, <1>2, <1>5 DEF Stands, StandsAt, Calling
<1>7. UnlinksAt(p, tchild, towner', tpc'[p], tname'[p], tdp'[p], tip'[p])
  BY <1>5 DEF UnlinksAt
<1>8. \A k \in Nodes : towner'[k] # "none" => towner[k] # p /\ towner'[k] = towner[k]
  BY <1>1, Owned
<1>9. Frees(ttype, tnlink, tchild) BY <1>1, DropFrees
<1>. QED BY <1>1, <1>3, <1>4, <1>6, <1>7, <1>8, <1>9, TreeStep

(* Nobody else has the directory locked that p changes.                    *)
LEMMA MakeStep ==
    ASSUME Dirs!TreeConstants, TreeInv, NEW p \in Procs, Dirs!create(p)
    PROVE  TreeInv'
<1>. DEFINE i == Dirs!Min(Dirs!FreeInums)
            j == tdp[p]
            m == tname[p]
            kind == IF tpc[p] = "mkdir" THEN "dir" ELSE "dev"
            t2 == [ttype EXCEPT ![i] = kind]
            n2 == Dirs!LinkParent(p, [tnlink EXCEPT ![i] = 1])
            c2 == [tchild EXCEPT ![j][m] = i]
<1>0. Walkers /\ Stands(p) BY DEF TreeInv
<1>1. /\ tpc[p] \in {"mkdir", "mknod"} /\ j # 0 /\ towner[j] = "none"
      /\ Dirs!dirlookup(j, m) = 0 /\ (tnlink[j] = 0 => Removed) /\ Dirs!FreeInums # {}
      /\ Dirs!Return(p) /\ UNCHANGED tcwd /\ Dirs!iput(n2, c2, t2)
      /\ tup' = [tup EXCEPT ![i] = j]
  BY DEF Dirs!create, Dirs!Creating, Dirs!Locks, Dirs!Unlocked, Dirs!Nobody
<1>2. j \in Nodes /\ ttype[j] = "dir" /\ m \in TNames /\ tchild[j][m] = 0
  BY <1>1, InDir, LookedUp
<1>3. i \in Nodes /\ ttype[i] = "free"
  <2>1. Dirs!FreeInums = {k \in Nodes : ttype[k] = "free"}
    BY TreeFacts DEF Dirs!FreeInums
  <2>2. IsFiniteSet(Nodes) BY TreeFacts, FS_Interval DEF Nodes
  <2>3. IsFiniteSet(Dirs!FreeInums) BY <2>1, <2>2, FS_Subset
  <2>4. Dirs!FreeInums \subseteq Int BY <2>1 DEF Nodes
  <2>5. Dirs!Min(Dirs!FreeInums) = Min(Dirs!FreeInums) BY DEF Dirs!Min, Min
  <2>6. i \in Dirs!FreeInums BY <1>1, <2>3, <2>4, <2>5, MinIsLeast
  <2>. QED BY <2>1, <2>6
<1>. HIDE DEF i
<1>4. i # j BY <1>2, <1>3
<1>5. kind \in {"dir", "dev"} /\ (kind = "dir" <=> tpc[p] = "mkdir") OBVIOUS
<1>6. /\ n2 \in [Nodes -> Nat] /\ n2[i] = 1
      /\ n2[j] = (IF kind = "dir" THEN tnlink[j] + 1 ELSE tnlink[j])
      /\ \A k \in Nodes : k \notin {i, j} => n2[k] = tnlink[k]
  <2>. DEFINE n1 == [tnlink EXCEPT ![i] = 1]
  <2>1. tnlink \in [Nodes -> Nat] BY InodeTypes
  <2>2. /\ n1 \in [Nodes -> Nat] /\ n1[i] = 1 /\ n1[j] = tnlink[j] /\ n1[j] \in Nat
        /\ \A k \in Nodes : k \notin {i, j} => n1[k] = tnlink[k]
    BY <1>2, <1>3, <1>4, <2>1
  <2>3. n2 = IF tpc[p] = "mkdir" THEN [n1 EXCEPT ![j] = n1[j] + 1] ELSE n1
    BY DEF Dirs!LinkParent
  <2>. HIDE DEF n1, n2
  <2>4. CASE tpc[p] = "mkdir"
    <3>1. n2 = [n1 EXCEPT ![j] = n1[j] + 1] BY <2>3, <2>4
    <3>2. n2 \in [Nodes -> Nat]
      <4>1. n1[j] + 1 \in Nat /\ n1 \in [Nodes -> Nat] BY <2>2
      <4>. QED BY ONLY <4>1, <3>1
    <3>3. n2[j] = n1[j] + 1 /\ \A k \in Nodes : k # j => n2[k] = n1[k] BY <1>2, <2>2, <3>1
    <3>. QED BY <1>3, <1>4, <1>5, <2>2, <2>4, <3>2, <3>3
  <2>5. CASE tpc[p] # "mkdir"
    <3>1. n2 = n1 BY <2>3, <2>5
    <3>. QED BY <1>5, <2>2, <2>5, <3>1
  <2>. QED BY <2>4, <2>5
<1>. HIDE DEF kind, n2
<1>7. Shape(t2, n2, c2, tup')
  <2>1. Shape(ttype, tnlink, tchild, tup) BY DEF TreeInv
  <2>2. NODES \in Nat \ {0} /\ IsFiniteSet(TNames) BY TreeFacts
  <2>3. /\ tup' = [tup EXCEPT ![i] = j] /\ (tnlink[j] = 0 => Removed)
        /\ kind \in {"dir", "dev"}
    BY <1>1, <1>5
  <2>. HIDE DEF j, m
  <2>4. Shape([ttype EXCEPT ![i] = kind], n2, [tchild EXCEPT ![j][m] = i], [tup EXCEPT ![i] = j])
    BY ONLY <1>2, <1>3, <1>6, <2>1, <2>2, <2>3, NewShape
  <2>. QED BY ONLY <2>3, <2>4
<1>8. ASSUME NEW k \in Nodes, t2[k] # "free", n2[k] = 0 PROVE Dirs!Held(k)
  <2>1. k # i BY <1>6, <1>8
  <2>2. k = j => Dirs!Held(k) BY DEF Dirs!Held
  <2>3. k # j => ttype[k] # "free" /\ tnlink[k] = 0 BY <1>6, <1>8, <2>1, InodeTypes
  <2>. QED BY <2>2, <2>3 DEF TreeInv, Alive
<1>9. Frees(t2, n2, c2) BY <1>1, <1>7, <1>8 DEF Frees
<1>10. \A k \in Nodes : ttype[k] # "free" => t2[k] = ttype[k] BY <1>3, InodeTypes
<1>11. \A k \in Nodes : towner[k] \notin {p, "none"} => c2[k] = tchild[k]
  BY <1>1, <1>2, InodeTypes
<1>12. tcwd' \in [Procs -> Nodes] /\ \A q \in Procs : tcwd'[q] = tcwd[q]
  BY <1>0, <1>1 DEF Walkers
<1>13. t2[tcwd'[p]] = "dir"
  <2>1. tcwd[p] \in Nodes /\ ttype[tcwd[p]] = "dir" BY <1>0 DEF Walkers, Stands, StandsAt
  <2>. QED BY <2>1, <1>10, <1>12
<1>. HIDE DEF t2, c2
<1>. QED BY <1>1, <1>9, <1>10, <1>11, <1>12, <1>13, EndStep

LEMMA UnlinkFoundStep ==
    ASSUME Dirs!TreeConstants, TreeInv, NEW p \in Procs, Dirs!unlink_found(p)
    PROVE  TreeInv'
<1>. DEFINE i == Dirs!dirlookup(tdp[p], tname[p])
            j == tdp[p]
<1>0. Walkers /\ Stands(p) BY DEF TreeInv
<1>1. /\ tpc[p] = "unlink" /\ j # 0 /\ towner[j] = "none" /\ i # 0
      /\ tname[p] \notin {".", ".."}
      /\ tip' = [tip EXCEPT ![p] = i] /\ towner' = [towner EXCEPT ![j] = p]
      /\ tpc' = [tpc EXCEPT ![p] = "unlink_ip"]
      /\ UNCHANGED <<ttype, tnlink, tchild, tup, tcwd, tpath, tname, tdp>>
  BY DEF Dirs!unlink_found, Dirs!Unlinking, Dirs!Locks, Dirs!Unlocked, Dirs!Nobody,
    Dirs!Dots, Dirs!Set, Dirs!Goto, Dirs!inodes
<1>2. /\ j \in Nodes /\ ttype[j] = "dir" /\ i \in Nodes /\ (Dotless => ttype[i] # "free")
      /\ tname[p] \in TNames /\ tchild[j][tname[p]] = i
  BY <1>1, InDir, LookedUp
<1>. HIDE DEF i
<1>3. Walkers'
  <2>1. /\ tip' \in [Procs -> Nodes \cup {0}]
        /\ towner' \in [Nodes -> Procs \cup {"none"}]
    BY <1>0, <1>1, <1>2 DEF Walkers
  <2>2. tpc' \in [Procs -> Calling \cup {"idle", "create_exists", "unlink_ip", "panic"}]
    BY <1>0, <1>1 DEF Walkers
  <2>. QED BY <1>0, <1>1, <2>1, <2>2 DEF Walkers
<1>4. Alone(p) BY <1>0, <1>1 DEF Alone, Walkers
<1>5. /\ tip'[p] = i /\ tdp'[p] = j /\ tpc'[p] = "unlink_ip" /\ tcwd'[p] = tcwd[p]
      /\ tpath'[p] = <<>> /\ tname'[p] = tname[p]
      /\ \A q \in Procs : q # p => tip'[q] = tip[q]
  BY <1>0, <1>1, InDir DEF Walkers
<1>6. /\ towner'[j] = p
      /\ \A k \in Nodes : k # j => towner'[k] = towner[k]
  BY <1>0, <1>1, <1>2 DEF Walkers
<1>7. tip[p] = 0 BY <1>0, <1>1 DEF Stands, StandsAt, Calling
<1>8. Frees(ttype, tnlink, tchild)
  <2>1. \A k \in Nodes : Dirs!Held(k) => Dirs!Kept(k)
    BY <1>1, <1>5, <1>7, TreeFacts DEF Dirs!Held, Dirs!Kept
  <2>. QED BY <1>1, <2>1, NoneFreed
<1>9. StandsAt(ttype, tcwd'[p], tpc'[p], tpath'[p], tname'[p], tdp'[p], tip'[p])
  BY <1>0, <1>2, <1>5, TreeFacts DEF Stands, StandsAt, Calling, Elements
<1>10. UnlinksAt(p, tchild, towner', tpc'[p], tname'[p], tdp'[p], tip'[p])
  BY <1>1, <1>2, <1>5, <1>6 DEF UnlinksAt
<1>11. \A k \in Nodes : towner[k] \notin {p, "none"} => towner'[k] = towner[k]
  BY <1>1, <1>6
<1>12. ASSUME NEW k \in Nodes, towner'[k] # "none"
       PROVE  \/ towner[k] # p /\ towner'[k] = towner[k]
              \/ towner'[k] = p /\ tpc'[p] = "unlink_ip" /\ tdp'[p] = k
  <2>1. CASE k = j BY <2>1, <1>5, <1>6
  <2>2. CASE k # j
    <3>1. towner'[k] = towner[k] BY <2>2, <1>6
    <3>. QED BY <3>1, <1>1, <1>12, Owned
  <2>. QED BY <2>1, <2>2
<1>. QED BY <1>3, <1>4, <1>8, <1>9, <1>10, <1>11, <1>12, TreeStep

(* Where unlink() has got to, there is an entry of an allocated inode that *)
(* has a link.                                                             *)
LEMMA AtEntry ==
    ASSUME Dirs!TreeConstants, TreeInv, NEW p \in Procs, tpc[p] = "unlink_ip"
    PROVE  /\ tdp[p] \in Nodes /\ towner[tdp[p]] = p /\ tname[p] \in TNames
           /\ tip[p] \in Nodes /\ tchild[tdp[p]][tname[p]] = tip[p] /\ tip[p] # tdp[p]
           /\ ttype[tip[p]] \in {"dir", "dev"} /\ tnlink[tip[p]] >= 1
           /\ ttype[tip[p]] = "dir" => tnlink[tdp[p]] >= 1
<1>1. Walkers /\ Stands(p) /\ Unlinks(p) BY DEF TreeInv
<1>2. /\ tdp[p] \in Nodes /\ towner[tdp[p]] = p /\ tname[p] \in TNames
      /\ tip[p] \in Nodes /\ tchild[tdp[p]][tname[p]] = tip[p] /\ tip[p] # 0
  BY <1>1 DEF Walkers, Stands, StandsAt, Unlinks, UnlinksAt
<1>3. Shape(ttype, tnlink, tchild, tup) BY DEF TreeInv
<1>4. NODES \in Nat \ {0} /\ IsFiniteSet(TNames) BY TreeFacts
<1>. QED BY <1>2, <1>3, <1>4, EntryOf

LEMMA UnlinkIpStep ==
    ASSUME Dirs!TreeConstants, TreeInv, NEW p \in Procs, Dirs!unlink_ip(p)
    PROVE  TreeInv'
<1>. DEFINE i == tip[p]
            j == tdp[p]
            m == tname[p]
            n1 == Dirs!UnlinkParent(p, tnlink)
            n2 == [n1 EXCEPT ![i] = @ - 1]
            c2 == [tchild EXCEPT ![j][m] = 0]
<1>0. Walkers /\ Stands(p) BY DEF TreeInv
<1>1. /\ j \in Nodes /\ towner[j] = p /\ m \in TNames
      /\ i \in Nodes /\ tchild[j][m] = i /\ i # j
      /\ ttype[i] \in {"dir", "dev"} /\ tnlink[i] >= 1
      /\ ttype[i] = "dir" => tnlink[j] >= 1
  BY AtEntry DEF Dirs!unlink_ip
<1>2. tnlink \in [Nodes -> Nat] BY InodeTypes
<1>3. /\ Dirs!Return(p) /\ UNCHANGED <<tcwd, tup>>
      /\ IF Dirs!Entered(i) THEN Dirs!iput(tnlink, tchild, ttype)
         ELSE Dirs!iput(n2, c2, ttype)
  <2>1. ~(tnlink[i] < 1)
    <3>1. tnlink[i] \in Nat BY <1>1, <1>2
    <3>. QED BY <1>1, <3>1
  <2>. QED BY <2>1 DEF Dirs!unlink_ip
<1>4. CASE Dirs!Entered(i)
  <2>1. Dirs!drop BY <1>3, <1>4 DEF Dirs!drop
  <2>. QED BY <1>3, <2>1, FailStep
<1>5. CASE ~Dirs!Entered(i)
  <2>1. ttype[i] = "dir" => tchild[i] = Bare
    BY <1>5, TreeFacts DEF Dirs!Entered, Dirs!isdirempty
  <2>2. /\ n2 \in [Nodes -> Nat] /\ n2[i] = tnlink[i] - 1
        /\ n2[j] = (IF ttype[i] = "dir" THEN tnlink[j] - 1 ELSE tnlink[j])
        /\ \A k \in Nodes : k \notin {i, j} => n2[k] = tnlink[k]
    <3>1. n1 = IF ttype[i] = "dir" THEN [tnlink EXCEPT ![j] = tnlink[j] - 1] ELSE tnlink
      BY DEF Dirs!UnlinkParent
    <3>. HIDE DEF n1
    <3>2. /\ n1 \in [Nodes -> Nat] /\ n1[i] = tnlink[i] /\ n1[i] - 1 \in Nat
          /\ n1[j] = (IF ttype[i] = "dir" THEN tnlink[j] - 1 ELSE tnlink[j])
          /\ \A k \in Nodes : k \notin {i, j} => n1[k] = tnlink[k]
      <4>1. tnlink[i] \in Nat /\ tnlink[j] \in Nat BY <1>1, <1>2
      <4>2. CASE ttype[i] = "dir"
        <5>1. n1 = [tnlink EXCEPT ![j] = tnlink[j] - 1] /\ tnlink[j] - 1 \in Nat
          BY <1>1, <3>1, <4>1, <4>2
        <5>2. n1 \in [Nodes -> Nat] BY ONLY <1>2, <5>1
        <5>. QED BY <1>1, <1>2, <4>1, <4>2, <5>1, <5>2
      <4>3. CASE ttype[i] # "dir" BY <1>1, <1>2, <3>1, <4>1, <4>3
      <4>. QED BY <4>2, <4>3
    <3>3. n2 = [n1 EXCEPT ![i] = n1[i] - 1] OBVIOUS
    <3>. HIDE DEF n2
    <3>4. n2 \in [Nodes -> Nat]
      <4>1. n1[i] - 1 \in Nat /\ n1 \in [Nodes -> Nat] BY <3>2
      <4>. QED BY ONLY <4>1, <3>3
    <3>. QED BY <1>1, <3>2, <3>3, <3>4
  <2>. HIDE DEF n2
  <2>3. Shape(ttype, n2, c2, tup')
    <3>1. Shape(ttype, tnlink, tchild, tup) BY DEF TreeInv
    <3>2. NODES \in Nat \ {0} /\ IsFiniteSet(TNames) BY TreeFacts
    <3>3. Shape(ttype, n2, c2, tup) BY <1>1, <2>1, <2>2, <3>1, <3>2, LessShape
    <3>. QED BY <1>3, <3>3
  <2>4. ASSUME NEW k \in Nodes, ttype[k] # "free", n2[k] = 0 PROVE Dirs!Held(k)
    <3>1. k \in {i, j} => Dirs!Held(k) BY DEF Dirs!Held
    <3>2. k \notin {i, j} => tnlink[k] = 0 BY <2>2, <2>4
    <3>. QED BY <2>4, <3>1, <3>2 DEF TreeInv, Alive
  <2>5. Frees(ttype, n2, c2) BY <1>3, <1>5, <2>3, <2>4 DEF Frees
  <2>6. \A k \in Nodes : towner[k] \notin {p, "none"} => c2[k] = tchild[k]
    BY <1>1, InodeTypes
  <2>7. tcwd' \in [Procs -> Nodes] /\ \A q \in Procs : tcwd'[q] = tcwd[q]
    BY <1>0, <1>3 DEF Walkers
  <2>8. ttype[tcwd'[p]] = "dir" BY <1>0, <2>7 DEF Stands, StandsAt
  <2>. HIDE DEF c2
  <2>. QED BY <1>3, <2>5, <2>6, <2>7, <2>8, EndStep
<1>. QED BY <1>4, <1>5

(* Where ilock() finds no inode, a path has gone up.                       *)
LEMMA PanicStep ==
    ASSUME Dirs!TreeConstants, TreeInv, NEW p \in Procs, Dirs!ilock_panic(p)
    PROVE  TreeInv'
<1>0. Walkers /\ Stands(p) BY DEF TreeInv
<1>1. /\ tpc' = [tpc EXCEPT ![p] = "panic"]
      /\ UNCHANGED <<ttype, tnlink, tchild, tup, towner, tcwd, tpath, tname, tdp, tip>>
  BY DEF Dirs!ilock_panic, Dirs!Panics, Dirs!Goto, Dirs!inodes
<1>2. tpc[p] # "unlink_ip" /\ tpc[p] # "idle" /\ ~Dotless
  <2>1. CASE /\ Dirs!Walking(p) \/ (tpc[p] = "chdir" /\ tpath[p] = <<>>)
             /\ ttype[tip[p]] = "free"
    <3>1. tpc[p] \in Calling BY <2>1 DEF Dirs!Walking, Calling
    <3>2. tpath[p] # <<>> \/ tpc[p] = "chdir" BY <2>1 DEF Dirs!Walking
    <3>3. tip[p] # 0 BY <1>0, <3>1, <3>2 DEF Stands, StandsAt
    <3>. QED BY <1>0, <2>1, <3>1, <3>3 DEF Stands, StandsAt, Calling
  <2>2. CASE tdp[p] # 0 /\ ttype[tdp[p]] = "free" BY <2>2, InDir
  <2>3. CASE tpc[p] = "unlink_ip" /\ ttype[tip[p]] = "free" BY <2>3, AtEntry
  <2>4. CASE tpc[p] = "create_exists" /\ ttype[tip[p]] = "free"
    BY <1>0, <2>4 DEF Stands, StandsAt
  <2>. QED BY <2>1, <2>2, <2>3, <2>4 DEF Dirs!ilock_panic, Dirs!NoType
<1>3. Walkers'
  <2>1. tpc' \in [Procs -> Calling \cup {"idle", "create_exists", "unlink_ip", "panic"}]
    BY <1>0, <1>1 DEF Walkers
  <2>. QED BY <1>0, <1>1, <2>1 DEF Walkers
<1>4. Alone(p) BY <1>0, <1>1 DEF Alone, Walkers
<1>5. tpc'[p] = "panic" BY <1>0, <1>1 DEF Walkers
<1>6. Frees(ttype, tnlink, tchild)
  <2>1. \A k \in Nodes : Dirs!Held(k) => Dirs!Kept(k) BY <1>1 DEF Dirs!Held, Dirs!Kept
  <2>. QED BY <1>1, <2>1, NoneFreed
<1>7. StandsAt(ttype, tcwd'[p], tpc'[p], tpath'[p], tname'[p], tdp'[p], tip'[p])
  BY <1>0, <1>1, <1>2, <1>5 DEF Stands, StandsAt, Calling
<1>8. UnlinksAt(p, tchild, towner', tpc'[p], tname'[p], tdp'[p], tip'[p])
  BY <1>5 DEF UnlinksAt
<1>9. \A k \in Nodes : towner'[k] # "none" => towner[k] # p /\ towner'[k] = towner[k]
  BY <1>1, <1>2, Owned
<1>. QED BY <1>1, <1>3, <1>4, <1>6, <1>7, <1>8, <1>9, TreeStep

LEMMA TreeInit == ASSUME Dirs!TreeConstants, Dirs!Init PROVE TreeInv
<1>1. /\ ttype = [i \in Nodes |-> IF i = 1 THEN "dir" ELSE "free"]
      /\ tnlink = [i \in Nodes |-> IF i = 1 THEN 1 ELSE 0]
      /\ tchild = [i \in Nodes |-> Bare] /\ tup = [i \in Nodes |-> 1]
      /\ towner = [i \in Nodes |-> "none"] /\ tcwd = [p \in Procs |-> 1]
      /\ tpc = [p \in Procs |-> "idle"] /\ tpath = [p \in Procs |-> <<>>]
      /\ tname = [p \in Procs |-> "none"]
      /\ tdp = [p \in Procs |-> 0] /\ tip = [p \in Procs |-> 0]
  BY TreeFacts DEF Dirs!Init, Dirs!Root, Dirs!Nobody
<1>2. \A i \in Nodes, m \in TNames : tchild[i][m] = 0 BY <1>1 DEF Bare
<1>3. Sorts(ttype, tnlink, tchild, tup)
  <2>1. Bare \in [TNames -> Nodes \cup {0}] BY DEF Bare
  <2>. QED BY <1>1, <2>1, TreeFacts DEF Sorts
<1>4. Leads(ttype, tchild, tup) BY <1>1, <1>2, TreeFacts DEF Leads
<1>5. Once(tchild) BY <1>2 DEF Once
<1>6. Linked(ttype, tnlink, tchild)
  <2>1. ASSUME NEW i \in Nodes, ttype[i] = "dir"
        PROVE  tnlink[i] = (IF Placed(i, tchild) THEN 1 ELSE 0)
                             + Cardinality(Below(i, ttype, tchild))
    <3>1. i = 1 /\ tnlink[i] = 1 /\ Placed(i, tchild) BY <1>1, <2>1 DEF Placed
    <3>2. Below(i, ttype, tchild) = {} BY <1>2 DEF Below
    <3>. QED BY <3>1, <3>2, FS_EmptySet
  <2>. QED BY <1>1, <2>1 DEF Linked
<1>7. Rooted(tchild)
  <2>. DEFINE d == [i \in Nodes |-> 0]
  <2>1. d \in [Nodes -> Nat] /\ 0 \in Nat /\ \A i \in Nodes : d[i] <= 0 OBVIOUS
  <2>2. \A i \in Nodes, m \in TNames : tchild[i][m] # 0 => d[i] < d[tchild[i][m]] BY <1>2
  <2>. HIDE DEF d
  <2>. QED BY <2>1, <2>2 DEF Rooted
<1>8. NoOrphans(ttype, tnlink, tchild) BY <1>1 DEF NoOrphans, Placed
<1>9. Walkers
  <2>1. <<>> \in Seq(Elements) BY EmptySeq
  <2>. QED BY <1>1, <2>1, TreeFacts DEF Walkers
<1>10. \A p \in Procs : Stands(p) /\ Unlinks(p)
  BY <1>1, TreeFacts DEF Stands, StandsAt, Unlinks, UnlinksAt, Calling
<1>11. DirsLocked BY <1>1 DEF DirsLocked
<1>12. Alive BY <1>1 DEF Alive
<1>. QED BY <1>3, <1>4, <1>5, <1>6, <1>7, <1>8, <1>9, <1>10, <1>11, <1>12 DEF TreeInv, Shape

LEMMA TreeStutter ==
    ASSUME TreeInv, UNCHANGED Dirs!vars
    PROVE  TreeInv'
<1>1. UNCHANGED <<ttype, tnlink, tchild, tup, towner, tcwd, tpc, tpath, tname, tdp, tip>>
  BY DEF Dirs!vars, Dirs!inodes, Dirs!locals
<1>2. Shape(ttype', tnlink', tchild', tup') BY <1>1 DEF TreeInv
<1>3. Walkers' BY <1>1 DEF TreeInv, Walkers
<1>4. (\A p \in Procs : Stands(p) /\ Unlinks(p))' BY <1>1 DEF TreeInv, Stands, Unlinks
<1>5. DirsLocked' /\ Alive' BY <1>1 DEF TreeInv, DirsLocked, Alive, Dirs!Held
<1>. QED BY <1>2, <1>3, <1>4, <1>5 DEF TreeInv

LEMMA TreeNext ==
    ASSUME Dirs!TreeConstants, TreeInv, [Dirs!Next]_(Dirs!vars)
    PROVE  TreeInv'
<1>1. CASE UNCHANGED Dirs!vars BY <1>1, TreeStutter
<1>2. CASE Dirs!Next
  <2>1. PICK p \in Procs :
          \/ Dirs!namex(p) \/ Dirs!namex_root(p) \/ Dirs!ilock_panic(p)
          \/ Dirs!creates(p) \/ Dirs!chdir(p) \/ Dirs!unlinks(p)
          \/ \E what \in {"mkdir", "mknod", "chdir", "unlink"}, to \in TPaths :
               Dirs!call(p, what, to)
    BY <1>2 DEF Dirs!Next
  <2>2. CASE Dirs!namex(p) BY <2>2, NamexStep
  <2>3. CASE Dirs!namex_root(p) BY <2>3, RootStep
  <2>4. CASE Dirs!ilock_panic(p) BY <2>4, PanicStep
  <2>5. CASE Dirs!creates(p)
    BY <2>5, CreateFoundStep, RootStep, MakeStep DEF Dirs!creates
  <2>6. CASE Dirs!chdir(p) BY <2>6, ChdirStep
  <2>7. CASE Dirs!unlinks(p)
    BY <2>7, RootStep, UnlinkFoundStep, UnlinkIpStep DEF Dirs!unlinks
  <2>8. CASE \E what \in {"mkdir", "mknod", "chdir", "unlink"}, to \in TPaths :
               Dirs!call(p, what, to)
    BY <2>8, CallStep
  <2>. QED BY <2>1, <2>2, <2>3, <2>4, <2>5, <2>6, <2>7, <2>8
<1>. QED BY <1>1, <1>2

(* Directories keep their shape and processes their hold on them, whatever *)
(* calls meet: entries lead away from the root to allocated inodes, each   *)
(* has one, and links count them.                                          *)
THEOREM TreeInvariant == Dirs!TreeConstants => (Dirs!Spec => []TreeInv)
<1>. SUFFICES ASSUME Dirs!TreeConstants PROVE Dirs!Spec => []TreeInv OBVIOUS
<1>1. Dirs!Init => TreeInv BY TreeInit
<1>2. TreeInv /\ [Dirs!Next]_(Dirs!vars) => TreeInv' BY TreeNext
<1>. QED BY <1>1, <1>2, PTL DEF Dirs!Spec
-------------------------------------------------------------------------------
(* A process that has a directory locked waits deeper down than there.     *)
LEMMA NoCircle == ASSUME Dirs!TreeConstants, TreeInv PROVE Dirs!NoCircularWait
<1>1. PICK d \in [Nodes -> Nat], b \in Nat :
        /\ \A k \in Nodes : d[k] <= b
        /\ \A k \in Nodes, l \in TNames : tchild[k][l] # 0 => d[k] < d[tchild[k][l]]
  BY DEF TreeInv, Shape, Rooted
<1>2. SUFFICES ASSUME NEW S \in SUBSET {p \in Procs : tpc[p] = "unlink_ip"}, S # {},
                      \A p \in S : towner[tip[p]] \in S
               PROVE  FALSE
  BY DEF Dirs!NoCircularWait
<1>. DEFINE D == {b - d[tip[p]] : p \in S}
<1>3. \A p \in S : /\ tip[p] \in Nodes /\ tdp[p] \in Nodes /\ tname[p] \in TNames
                   /\ tchild[tdp[p]][tname[p]] = tip[p]
  BY AtEntry
<1>4. \A p \in S : d[tip[p]] \in Nat /\ d[tip[p]] <= b BY <1>1, <1>3
<1>5. D \subseteq 0 .. b /\ D # {} BY <1>2, <1>4
<1>6. IsFiniteSet(0 .. b) /\ 0 .. b \subseteq Int BY FS_Interval
<1>7. \E y \in D : \A x \in D : y <= x
  <2>. HIDE DEF D
  <2>1. IsFiniteSet(D) /\ D \subseteq Int BY <1>5, <1>6, FS_Subset
  <2>. QED BY <1>5, <2>1, MinIsLeast
<1>8. PICK p \in S : \A q \in S : b - d[tip[p]] <= b - d[tip[q]] BY <1>7
<1>. HIDE DEF D
<1>9. PICK q \in S : q = towner[tip[p]] BY <1>2
<1>10. tdp[q] = tip[p]
  <2>1. q # "none" BY TreeFacts
  <2>. QED BY <1>3, <1>9, <2>1 DEF TreeInv, DirsLocked
<1>11. d[tip[p]] < d[tip[q]] BY <1>1, <1>3, <1>10, TreeFacts
<1>12. d[tip[p]] \in Nat /\ d[tip[q]] \in Nat BY <1>4
<1>. QED BY <1>8, <1>11, <1>12

(* What is reached from the root in so many steps.                         *)
Grow(R) == R \cup ({tchild[i][n] : i \in R, n \in TNames} \ {0})
Within(f, b) == f = [k \in 0 .. b |-> IF k = 0 THEN {1} ELSE Grow(f[k - 1])]

LEMMA WithinExists == ASSUME NODES \in Nat PROVE \E f : Within(f, NODES)
<1>. DEFINE B == {b \in 0 .. NODES : ~\E f : Within(f, b)}
<1>1. SUFFICES ASSUME B # {} PROVE FALSE OBVIOUS
<1>2. IsFiniteSet(0 .. NODES) /\ 0 .. NODES \subseteq Int /\ B \subseteq 0 .. NODES
  BY FS_Interval
<1>3. PICK b \in B : \A x \in B : b <= x
  <2>. HIDE DEF B
  <2>1. IsFiniteSet(B) /\ B \subseteq Int BY <1>2, FS_Subset
  <2>. QED BY <1>1, <2>1, MinIsLeast
<1>4. CASE b = 0
  <2>. DEFINE f == [k \in 0 .. 0 |-> {1}]
  <2>1. f = [k \in 0 .. 0 |-> IF k = 0 THEN {1} ELSE Grow(f[k - 1])] OBVIOUS
  <2>2. Within(f, b) BY <2>1, <1>4 DEF Within
  <2>. QED BY <2>2
<1>5. CASE b # 0
  <2>1. b \in 1 .. NODES /\ b - 1 \in 0 .. NODES /\ b - 1 \notin B
    <3>1. b \in 0 .. NODES OBVIOUS
    <3>2. ~(b <= b - 1) BY <3>1
    <3>. QED BY <1>3, <1>5, <3>1, <3>2
  <2>2. PICK g : Within(g, b - 1) BY <2>1
  <2>. DEFINE f == [k \in 0 .. b |-> IF k = b THEN Grow(g[b - 1]) ELSE g[k]]
  <2>3. \A k \in 0 .. b - 1 : g[k] = IF k = 0 THEN {1} ELSE Grow(g[k - 1])
    BY <2>2 DEF Within
  <2>4. ASSUME NEW k \in 0 .. b PROVE f[k] = IF k = 0 THEN {1} ELSE Grow(f[k - 1])
    <3>1. CASE k = b
      <4>1. b - 1 \in 0 .. b /\ b - 1 # b BY <2>1
      <4>2. f[b - 1] = g[b - 1] BY <4>1
      <4>. QED BY <1>5, <3>1, <4>2
    <3>2. CASE k # b
      <4>1. k \in 0 .. b - 1 BY <2>1, <3>2
      <4>2. f[k] = g[k] BY <3>2
      <4>3. CASE k = 0 BY <4>1, <4>2, <4>3, <2>3
      <4>4. CASE k # 0
        <5>1. k - 1 \in 0 .. b /\ k - 1 # b BY <2>1, <4>1, <4>4
        <5>2. f[k - 1] = g[k - 1] BY <5>1
        <5>. QED BY <4>1, <4>2, <4>4, <5>2, <2>3
      <4>. QED BY <4>3, <4>4
    <3>. QED BY <3>1, <3>2
  <2>5. DOMAIN f = 0 .. b /\ f = [k \in 0 .. b |-> f[k]] OBVIOUS
  <2>. HIDE DEF f
  <2>6. Within(f, b) BY <2>4, <2>5 DEF Within
  <2>. QED BY <2>6
<1>. QED BY <1>4, <1>5

LEMMA ReachableIs ==
    ASSUME Dirs!TreeConstants
    PROVE  \E f : Within(f, NODES) /\ Dirs!Reachable = f[NODES]
<1>. DEFINE W(f) == f = [k \in 0 .. NODES |->
              IF k = 0 THEN {Dirs!Root}
              ELSE f[k - 1] \cup ({tchild[i][n] : i \in f[k - 1], n \in TNames} \ {0})]
<1>1. \A f : Within(f, NODES) <=> W(f) BY DEF Within, Grow, Dirs!Root
<1>2. \E f : W(f) BY <1>1, WithinExists, TreeFacts
<1>3. W(CHOOSE f : W(f))
  <2>. HIDE DEF W
  <2>. QED BY <1>2
<1>4. Dirs!Reachable = (CHOOSE f : W(f))[NODES] BY DEF Dirs!Reachable
<1>. HIDE DEF W
<1>. QED BY <1>1, <1>3, <1>4

(* In as many steps as there are inodes everything is reached: each step   *)
(* finds another inode, or there is nothing more to find.                  *)
Spread(R, k) ==
    /\ R \subseteq Nodes /\ 1 \in R
    /\ \A i \in R : i # 1 => \E j \in R, m \in TNames : tchild[j][m] = i
    /\ Grow(R) = R \/ Cardinality(R) >= k + 1

LEMMA GrowStep ==
    ASSUME Dirs!TreeConstants, TreeInv, NEW R, NEW k \in Nat, Spread(R, k)
    PROVE  Spread(Grow(R), k + 1)
<1>1. R \subseteq Nodes /\ 1 \in R /\ R \subseteq Grow(R) BY DEF Spread, Grow
<1>2. Grow(R) \subseteq Nodes
  <2>1. \A i \in R, n \in TNames : tchild[i][n] \in Nodes \cup {0} BY <1>1, InodeTypes
  <2>. QED BY <1>1, <2>1 DEF Grow
<1>3. ASSUME NEW i \in Grow(R), i # 1
      PROVE  \E j \in Grow(R), m \in TNames : tchild[j][m] = i
  <2>1. \E j \in R, m \in TNames : tchild[j][m] = i BY <1>3 DEF Spread, Grow
  <2>. QED BY <1>1, <2>1
<1>4. CASE Grow(R) = R
  <2>1. Grow(Grow(R)) = Grow(R) BY <1>4
  <2>. QED BY <1>1, <1>2, <1>3, <2>1 DEF Spread
<1>5. CASE Grow(R) # R
  <2>1. Cardinality(R) >= k + 1 BY <1>5 DEF Spread
  <2>2. PICK x \in Grow(R) : x \notin R BY <1>1, <1>5
  <2>3. IsFiniteSet(Nodes) BY TreeFacts, FS_Interval DEF Nodes
  <2>4. IsFiniteSet(R) /\ IsFiniteSet(Grow(R)) BY <1>1, <1>2, <2>3, FS_Subset
  <2>5. IsFiniteSet(R \cup {x}) /\ Cardinality(R \cup {x}) = Cardinality(R) + 1
    BY <2>2, <2>4, FS_AddElement
  <2>6. R \cup {x} \subseteq Grow(R) BY <1>1, <2>2
  <2>7. Cardinality(R \cup {x}) <= Cardinality(Grow(R)) BY <2>4, <2>6, FS_Subset
  <2>8. Cardinality(R) \in Nat /\ Cardinality(Grow(R)) \in Nat BY <2>4, FS_CardinalityType
  <2>9. Cardinality(Grow(R)) >= (k + 1) + 1 BY <2>1, <2>5, <2>7, <2>8
  <2>. QED BY <1>1, <1>2, <1>3, <2>9 DEF Spread
<1>. QED BY <1>4, <1>5

LEMMA Reached ==
    ASSUME Dirs!TreeConstants, TreeInv
    PROVE  /\ Dirs!Reachable \subseteq Nodes /\ 1 \in Dirs!Reachable
           /\ \A i \in Dirs!Reachable : i # 1 =>
                \E j \in Dirs!Reachable, m \in TNames : tchild[j][m] = i
           /\ \A i \in Dirs!Reachable, m \in TNames :
                tchild[i][m] # 0 => tchild[i][m] \in Dirs!Reachable
<1>0. NODES \in Nat \ {0} BY TreeFacts
<1>1. PICK f : Within(f, NODES) /\ Dirs!Reachable = f[NODES] BY ReachableIs
<1>2. /\ f[0] = {1}
      /\ \A k \in 1 .. NODES : f[k] = Grow(f[k - 1])
  <2>1. \A k \in 0 .. NODES : f[k] = IF k = 0 THEN {1} ELSE Grow(f[k - 1])
    BY <1>1 DEF Within
  <2>2. \A k \in 1 .. NODES : k \in 0 .. NODES /\ k # 0 BY <1>0
  <2>. QED BY <1>0, <2>1, <2>2
<1>. DEFINE B == {k \in 0 .. NODES : ~Spread(f[k], k)}
<1>3. B = {}
  <2>1. SUFFICES ASSUME B # {} PROVE FALSE OBVIOUS
  <2>2. IsFiniteSet(0 .. NODES) /\ 0 .. NODES \subseteq Int /\ B \subseteq 0 .. NODES
    BY <1>0, FS_Interval
  <2>3. PICK b \in B : \A x \in B : b <= x
    <3>. HIDE DEF B
    <3>1. IsFiniteSet(B) /\ B \subseteq Int BY <2>2, FS_Subset
    <3>. QED BY <2>1, <3>1, MinIsLeast
  <2>4. CASE b = 0
    <3>1. Cardinality({1}) = 1 BY FS_Singleton
    <3>2. Spread({1}, 0) BY <3>1, TreeFacts DEF Spread
    <3>. QED BY <2>4, <3>2, <1>2
  <2>5. CASE b # 0
    <3>1. b \in 0 .. NODES OBVIOUS
    <3>2. b \in 1 .. NODES /\ b - 1 \in 0 .. NODES /\ b - 1 \in Nat /\ (b - 1) + 1 = b
      BY <1>0, <2>5, <3>1
    <3>3. b - 1 \notin B BY <2>3, <3>1, <3>2
    <3>4. Spread(f[b - 1], b - 1) BY <3>2, <3>3
    <3>5. Spread(Grow(f[b - 1]), (b - 1) + 1) BY <3>2, <3>4, GrowStep
    <3>6. Spread(f[b], b) BY <1>2, <3>2, <3>5
    <3>. QED BY <3>6
  <2>. QED BY <2>4, <2>5
<1>4. Spread(Dirs!Reachable, NODES) BY <1>0, <1>1, <1>3
<1>5. Grow(Dirs!Reachable) = Dirs!Reachable
  <2>1. IsFiniteSet(Nodes) /\ Cardinality(Nodes) = NODES
    BY <1>0, FS_Interval DEF Nodes
  <2>2. IsFiniteSet(Dirs!Reachable) /\ Cardinality(Dirs!Reachable) <= NODES
    BY <1>4, <2>1, FS_Subset DEF Spread
  <2>3. Cardinality(Dirs!Reachable) \in Nat BY <2>2, FS_CardinalityType
  <2>4. ~(Cardinality(Dirs!Reachable) >= NODES + 1) BY <1>0, <2>2, <2>3
  <2>. QED BY <1>4, <2>4 DEF Spread
<1>6. ASSUME NEW i \in Dirs!Reachable, NEW m \in TNames, tchild[i][m] # 0
      PROVE  tchild[i][m] \in Dirs!Reachable
  <2>1. tchild[i][m] \in Grow(Dirs!Reachable) BY <1>6 DEF Grow
  <2>. QED BY <1>5, <2>1
<1>. QED BY <1>4, <1>6 DEF Spread

(* What has a name has one in a directory that is reached.                 *)
LEMMA NamedReached ==
    ASSUME Dirs!TreeConstants, TreeInv, ~Removed, NEW i \in Nodes, Placed(i, tchild)
    PROVE  i \in Dirs!Reachable
<1>1. PICK d \in [Nodes -> Nat], b \in Nat :
        /\ \A k \in Nodes : d[k] <= b
        /\ \A k \in Nodes, l \in TNames : tchild[k][l] # 0 => d[k] < d[tchild[k][l]]
  BY DEF TreeInv, Shape, Rooted
<1>. DEFINE B == {k \in Nodes : Placed(k, tchild) /\ k \notin Dirs!Reachable}
            D == {d[k] : k \in B}
<1>2. SUFFICES ASSUME B # {} PROVE FALSE OBVIOUS
<1>3. IsFiniteSet(0 .. b) /\ 0 .. b \subseteq Int BY FS_Interval
<1>4. \A k \in Nodes : d[k] \in 0 .. b
  <2>1. \A k \in Nodes : d[k] \in Nat /\ d[k] <= b BY <1>1
  <2>. QED BY <2>1
<1>5. D \subseteq 0 .. b /\ D # {} BY <1>2, <1>4
<1>6. \E y \in D : \A x \in D : y <= x
  <2>. HIDE DEF D
  <2>1. IsFiniteSet(D) /\ D \subseteq Int BY <1>3, <1>5, FS_Subset
  <2>. QED BY <1>5, <2>1, MinIsLeast
<1>7. PICK k \in B : \A x \in B : d[k] <= d[x] BY <1>6
<1>. HIDE DEF D
<1>8. k # 1 BY Reached
<1>9. PICK j \in Nodes, m \in TNames : tchild[j][m] = k BY <1>7, <1>8 DEF Placed
<1>10. tchild[j][m] # 0 BY <1>7, <1>9, TreeFacts
<1>11. Placed(j, tchild)
  <2>1. ttype[j] = "dir" /\ tchild[j] # Bare
    BY <1>10 DEF TreeInv, Shape, Leads, Bare
  <2>. QED BY <2>1 DEF TreeInv, Shape, NoOrphans
<1>12. j \notin Dirs!Reachable BY <1>7, <1>9, <1>10, Reached
<1>13. d[k] <= d[j] BY <1>7, <1>11, <1>12
<1>14. d[j] < d[k] BY <1>1, <1>9, <1>10
<1>15. d[j] \in Nat /\ d[k] \in Nat BY <1>1
<1>. QED BY <1>13, <1>14, <1>15

LEMMA TreeShapeHolds == ASSUME Dirs!TreeConstants, TreeInv PROVE Dirs!TreeShape
<1>. DEFINE R == Dirs!Reachable
<1>0. /\ Sorts(ttype, tnlink, tchild, tup) /\ Leads(ttype, tchild, tup) /\ Once(tchild)
      /\ Linked(ttype, tnlink, tchild) /\ (~Removed => NoOrphans(ttype, tnlink, tchild))
  BY DEF TreeInv, Shape
<1>1. \A S : Dirs!Cardinality(S) = Cardinality(S) BY DEF Dirs!Cardinality, Cardinality
<1>2. \A i \in R : i \in Nodes BY Reached
<1>3. ASSUME NEW i \in R
      PROVE  /\ Placed(i, tchild) /\ ttype[i] # "free"
             /\ i # 1 => ttype[i] \in {"dir", "dev"}
  <2>1. CASE i = 1 BY <2>1, <1>0 DEF Placed, Leads
  <2>2. CASE i # 1
    <3>1. PICK j \in R, m \in TNames : tchild[j][m] = i BY <2>2, Reached
    <3>2. j \in Nodes /\ i \in Nodes /\ i # 0 BY <1>2, TreeFacts
    <3>3. ttype[i] # "free" BY <1>0, <3>1, <3>2 DEF Leads
    <3>. QED BY <1>0, <2>2, <3>1, <3>2, <3>3 DEF Placed, Sorts
  <2>. QED BY <2>1, <2>2
<1>4. ASSUME NEW i \in R PROVE tnlink[i] = 1 + Dirs!Cardinality(Dirs!Subdirs(i))
  <2>1. Dirs!Subdirs(i) = Below(i, ttype, tchild) BY DEF Dirs!Subdirs, Below
  <2>2. i \in Nodes /\ Placed(i, tchild) BY <1>2, <1>3
  <2>3. CASE ttype[i] = "dir" BY <1>0, <1>1, <2>1, <2>2, <2>3 DEF Linked
  <2>4. CASE ttype[i] # "dir"
    <3>1. ttype[i] = "dev" /\ tchild[i] = Bare
      BY <1>0, <1>3, <2>2, <2>4 DEF Leads
    <3>2. tnlink[i] = 1 BY <1>0, <2>2, <3>1 DEF Linked
    <3>3. Below(i, ttype, tchild) = {} BY <3>1 DEF Below, Bare
    <3>. QED BY <1>1, <2>1, <3>2, <3>3, FS_EmptySet
  <2>. QED BY <2>3, <2>4
<1>5. ASSUME NEW i \in R, i # 1 PROVE Dirs!Cardinality(Dirs!Entries(i)) = 1
  <2>1. PICK j \in R, m \in TNames : tchild[j][m] = i BY <1>5, Reached
  <2>2. ASSUME NEW k \in R, NEW l \in TNames, tchild[k][l] = i PROVE k = j /\ l = m
    <3>1. j \in Nodes /\ k \in Nodes /\ i # 0 BY <1>2, TreeFacts
    <3>. QED BY <1>0, <2>1, <2>2, <3>1 DEF Once
  <2>3. Dirs!Entries(i) = {<<j, m>>}
    <3>1. <<j, m>> \in Dirs!Entries(i) BY <2>1 DEF Dirs!Entries
    <3>2. ASSUME NEW x \in Dirs!Entries(i) PROVE x = <<j, m>>
      <4>1. PICK k \in R, l \in TNames : x = <<k, l>> /\ tchild[k][l] = i
        BY DEF Dirs!Entries
      <4>. QED BY <4>1, <2>2
    <3>. QED BY <3>1, <3>2
  <2>. QED BY <1>1, <2>3, FS_Singleton
<1>6. ASSUME NEW i \in R, NEW m \in Dirs!Subdirs(i) PROVE tup[tchild[i][m]] = i
  BY <1>0, <1>2 DEF Dirs!Subdirs, Leads
<1>7. ASSUME NEW i \in Dirs!Inums, ttype[i] # "free"
      PROVE  i \in R \/ Dirs!Held(i) \/ Removed
  <2>1. SUFFICES ASSUME ~Removed PROVE i \in R \/ Dirs!Held(i) OBVIOUS
  <2>2. i \in Nodes BY TreeFacts
  <2>3. CASE Placed(i, tchild) BY <2>1, <2>2, <2>3, NamedReached
  <2>4. CASE ~Placed(i, tchild)
    <3>1. tnlink[i] = 0 BY <1>0, <1>7, <2>1, <2>2, <2>4 DEF NoOrphans
    <3>2. ~(tnlink[i] > 0) BY <3>1
    <3>. QED BY <1>7, <2>2, <3>2 DEF TreeInv, Alive
  <2>. QED BY <2>3, <2>4
<1>8. \A p \in Procs : ttype[tcwd[p]] = "dir" BY DEF TreeInv, Stands, StandsAt
<1>. QED BY <1>3, <1>4, <1>5, <1>6, <1>7, <1>8 DEF Dirs!TreeShape, Dirs!Root

(* Directories are a tree: whatever is reached from the root has one name  *)
(* there, the ".." of a directory is where its name is, link counts are    *)
(* right, working directories stay directories, and if nothing is created  *)
(* in removed directories, no inode is lost (fs.c, sysfile.c).             *)
THEOREM DirectoriesAreATree == Dirs!TreeConstants => (Dirs!Spec => []Dirs!TreeShape)
<1>. SUFFICES ASSUME Dirs!TreeConstants PROVE Dirs!Spec => []Dirs!TreeShape OBVIOUS
<1>1. TreeInv => Dirs!TreeShape BY TreeShapeHolds
<1>. QED BY <1>1, TreeInvariant, PTL

(* unlink() has a directory's sleeplock when it waits for the inode of an  *)
(* entry; processes that do so never wait for each other in a circle, and  *)
(* neither do they on "." or "..", which unlink() refuses.                 *)
THEOREM UnlinkNeverDeadlocks == Dirs!TreeConstants => (Dirs!Spec => []Dirs!NoCircularWait)
<1>. SUFFICES ASSUME Dirs!TreeConstants PROVE Dirs!Spec => []Dirs!NoCircularWait OBVIOUS
<1>1. TreeInv => Dirs!NoCircularWait BY NoCircle
<1>. QED BY <1>1, TreeInvariant, PTL

(* Only a path that goes up can get to a free inode (the run tree_panic    *)
(* shows how): without "..", no walk, create() or unlink() panics.         *)
THEOREM PanicsOnlyGoingUp ==
    Dirs!TreeConstants /\ Dotless => (Dirs!Spec => []Dirs!NoPanic)
<1>. SUFFICES ASSUME Dirs!TreeConstants, Dotless PROVE Dirs!Spec => []Dirs!NoPanic OBVIOUS
<1>1. TreeInv => Dirs!NoPanic BY DEF TreeInv, Stands, StandsAt, Dirs!NoPanic
<1>. QED BY <1>1, TreeInvariant, PTL
===============================================================================
