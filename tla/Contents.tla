------------------------------- MODULE Contents -------------------------------
(***************************************************************************)
(* The blocks of files: the free bitmap, bmap(), itrunc(), readi() and     *)
(* writei() of kernel/fs.c, under fileread() and filewrite() of            *)
(* kernel/file.c, which cut a long write into several transactions.        *)
(*                                                                         *)
(* The disk is the image that its last transaction has left; Log makes it  *)
(* durable.  An inode's sleeplock is held from the first step of a call to *)
(* its last; the bitmap is shared, so that each balloc() and bfree() is a  *)
(* step.  A cell is a byte of data or a block number of an indirect block. *)
(* User memory ends at the boundary of a block: of a copy that fails half  *)
(* way through a block, which leaves its beginning in an unlogged buffer,  *)
(* nothing is kept.                                                        *)
(***************************************************************************)
EXTENDS Integers, Sequences, FiniteSets, FiniteSetsExt

CONSTANTS
    Procs,       \* who write; each writes its own name
    FileOf,      \* per open file, which processes share: its inode number
    Lengths,     \* of a read or write
    Truncates,   \* whether open() may get O_TRUNC
    Image,       \* the disk that mkfs made, and
    byte,        \* what its files are made of
    NBLOCKS, NDIRECT, NINDIRECT, BPB, MAXOPBLOCKS

BSIZE == NINDIRECT
MAXFILE == NDIRECT + NINDIRECT

Opened == DOMAIN FileOf
Blocks == 1 .. NBLOCKS
Nobody == "none"

(* What the image names at a place of a file: a block of data, or, behind  *)
(* the last one, the indirect block.  mkfs names each block that it uses   *)
(* at one place, and fills every block below the size of a file.           *)
Made == DOMAIN Image.dinode
MadeAt(i, n) ==
    LET addrs == Image.dinode[i].addrs IN
    IF n < NDIRECT THEN addrs[n]
    ELSE IF n = MAXFILE \/ addrs[NDIRECT] = 0 THEN addrs[NDIRECT]
    ELSE Image.block[addrs[NDIRECT]][n - NDIRECT]
ImageConstants ==
    /\ Image.used \subseteq Blocks
    /\ Image.block \in [Blocks -> [0 .. BSIZE - 1 -> {byte} \cup Procs \cup 0 .. NBLOCKS]]
    /\ Image.dinode \in [Made -> [size : 0 .. MAXFILE * BSIZE, addrs : [0 .. NDIRECT -> 0 .. NBLOCKS]]]
    /\ \A b \in Blocks : b \in Image.used <=> \E i \in Made, n \in 0 .. MAXFILE : MadeAt(i, n) = b
    /\ \A i, j \in Made, n, m \in 0 .. MAXFILE :
         /\ MadeAt(i, n) \in 0 .. NBLOCKS
         /\ MadeAt(i, n) = MadeAt(j, m) /\ MadeAt(i, n) # 0 => i = j /\ n = m
         /\ n < MAXFILE /\ n * BSIZE < Image.dinode[i].size => MadeAt(i, n) # 0

ContentsConstants ==
    /\ {NBLOCKS, NINDIRECT, BPB, MAXOPBLOCKS} \subseteq Nat \ {0} /\ NDIRECT \in Nat
    /\ Lengths \subseteq Nat \ {0} /\ MAXOPBLOCKS >= 6
    (* A truncation may free a whole file: its bitmap must be one block. *)
    /\ Truncates \in BOOLEAN /\ (Truncates => BPB > NBLOCKS)
    /\ Nobody \notin Procs \cup Opened /\ FileOf \in [Opened -> Made]
    /\ ImageConstants
    (* The root directory, which ends with zeros, is not among them. *)
    /\ \A o \in Opened : \A n \in 0 .. Image.dinode[FileOf[o]].size - 1 :
         Image.block[MadeAt(FileOf[o], n \div BSIZE)][n % BSIZE] = byte

VARIABLES
    used,       \* the bitmap
    block,      \* per block: its cells
    dinode,     \* per inode: size and addresses, on disk
    inode,      \* the same, in memory
    owner,      \* per inode: who has its sleeplock
    off,        \* per open file
    pc, fd,     \* per process: where its call is, and on which open file
    left,       \* the bytes that it still has to write, of which
    done,       \* this transaction wrote so many (or: blocks looked at by itrunc)
    logged      \* the blocks that this transaction logged

disk == <<used, block, dinode>>
locals == <<pc, fd, left, done, logged>>
vars == <<disk, inode, owner, off, locals>>

Inodes == DOMAIN dinode

Init ==
    /\ used = Image.used /\ block = Image.block /\ dinode = Image.dinode
    /\ inode = dinode /\ owner = [i \in DOMAIN dinode |-> Nobody]
    /\ off = [o \in Opened |-> 0]
    /\ pc = [p \in Procs |-> "idle"] /\ fd = [p \in Procs |-> Nobody]
    /\ left = [p \in Procs |-> 0] /\ done = [p \in Procs |-> 0]
    /\ logged = [p \in Procs |-> {}]

Goto(p, l) == pc' = [pc EXCEPT ![p] = l]
Ip(p) == FileOf[fd[p]]
ilock(p, i) == owner[i] = Nobody /\ owner' = [owner EXCEPT ![i] = p]
iunlock(p) == owner' = [owner EXCEPT ![Ip(p)] = Nobody]

log_write(p, S) == logged' = [logged EXCEPT ![p] = @ \cup S]
BBLOCK(b) == <<"bitmap", b \div BPB>>
IBLOCK(i) == <<"inode", i>>
DBLOCK(b) == <<"data", b>>

(* A transaction ends, and with l = "idle" its call. *)
end_op(p, l) ==
    /\ Goto(p, l) /\ iunlock(p)
    /\ fd' = [fd EXCEPT ![p] = IF l = "idle" THEN Nobody ELSE @]
    /\ done' = [done EXCEPT ![p] = 0] /\ logged' = [logged EXCEPT ![p] = {}]
-------------------------------------------------------------------------------
(* The address of a file's n-th block, as bmap() finds it. *)
Indirect(i) == inode[i].addrs[NDIRECT]
Addr(i, n) ==
    IF n < NDIRECT THEN inode[i].addrs[n]
    ELSE IF Indirect(i) = 0 THEN 0 ELSE block[Indirect(i)][n - NDIRECT]

(* The first free block; bzero() clears what it holds. *)
Free == Blocks \ used
balloc == Min(Free)
bzero(b) == [block EXCEPT ![b] = [c \in 0 .. BSIZE - 1 |-> 0]]

(* filewrite(): at most so many bytes to a transaction. *)
MaxWrite_NoSlop == ((MAXOPBLOCKS - 1 - 1) \div 2) * BSIZE
MaxWrite == ((MAXOPBLOCKS - 1 - 1 - 2) \div 2) * BSIZE
Todo(p) == Min({left[p], MaxWrite})
Here(p) == off[fd[p]] + done[p]
Bn(p) == Here(p) \div BSIZE

filewrite(p, o, n) ==
    /\ pc[p] = "idle" /\ Goto(p, "begin_op")
    /\ fd' = [fd EXCEPT ![p] = o] /\ left' = [left EXCEPT ![p] = n]
    /\ UNCHANGED <<disk, inode, owner, off, done, logged>>

(* begin_op() and ilock(); writei() may refuse at once: the offset lies    *)
(* behind the end, which another process has cut off, or too far on.       *)
Refused_Sparse(p) == off[fd[p]] + Todo(p) > MAXFILE * BSIZE
Refused(p) ==
    \/ off[fd[p]] > inode[Ip(p)].size
    \/ off[fd[p]] + Todo(p) > MAXFILE * BSIZE

writei(p) ==
    /\ pc[p] = "begin_op" /\ ilock(p, Ip(p)) /\ ~Refused(p)
    /\ Goto(p, "writei")
    /\ UNCHANGED <<disk, inode, off, fd, left, done, logged>>

writei_refused(p) ==
    /\ pc[p] = "begin_op" /\ owner[Ip(p)] = Nobody /\ Refused(p)
    /\ end_op(p, "idle") /\ left' = [left EXCEPT ![p] = 0]
    /\ UNCHANGED <<disk, inode, off>>

Writing(p) == pc[p] = "writei" /\ done[p] < Todo(p)

(* bmap() enters a new block in the inode, data or indirect, ...           *)
Place(p) == IF Bn(p) < NDIRECT THEN Bn(p) ELSE NDIRECT

bmap_addr(p) ==
    /\ Writing(p) /\ Free # {} /\ inode[Ip(p)].addrs[Place(p)] = 0
    /\ used' = used \cup {balloc} /\ block' = bzero(balloc)
    /\ inode' = [inode EXCEPT ![Ip(p)].addrs[Place(p)] = balloc]
    /\ log_write(p, {BBLOCK(balloc), DBLOCK(balloc)})
    /\ UNCHANGED <<dinode, owner, off, pc, fd, left, done>>

(* ... or a data block in the indirect block.                              *)
bmap_entry(p) ==
    /\ Writing(p) /\ Free # {} /\ Addr(Ip(p), Bn(p)) = 0
    /\ inode[Ip(p)].addrs[Place(p)] # 0
    /\ used' = used \cup {balloc}
    /\ block' = [bzero(balloc) EXCEPT ![Indirect(Ip(p))][Bn(p) - NDIRECT] = balloc]
    /\ log_write(p, {BBLOCK(balloc), DBLOCK(balloc), DBLOCK(Indirect(Ip(p)))})
    /\ UNCHANGED <<dinode, inode, owner, off, pc, fd, left, done>>

(* The bytes that go into one block. *)
writei_block(p) ==
    /\ Writing(p) /\ Addr(Ip(p), Bn(p)) # 0
    /\ LET addr == Addr(Ip(p), Bn(p))
           from == Here(p) % BSIZE
           m == Min({Todo(p) - done[p], BSIZE - from}) IN
       /\ block' = [block EXCEPT ![addr] =
            [c \in DOMAIN @ |-> IF c \in from .. from + m - 1 THEN p ELSE @[c]]]
       /\ done' = [done EXCEPT ![p] = @ + m]
       /\ log_write(p, {DBLOCK(addr)})
    /\ UNCHANGED <<used, dinode, inode, owner, off, pc, fd, left>>

(* No block is free, or the user's memory ends: the loop ends early. *)
writei_short(p) ==
    /\ Writing(p) /\ (Free = {} \/ Addr(Ip(p), Bn(p)) # 0)
    /\ Addr(Ip(p), Bn(p)) = 0 => Free = {}
    /\ Goto(p, "iupdate")
    /\ UNCHANGED <<disk, inode, owner, off, fd, left, done, logged>>

(* The inode is written even if its size is what it was, and the next      *)
(* transaction begins if this one wrote all that it was to.                *)
Grown(p) == [inode[Ip(p)] EXCEPT !.size = Max({@, Here(p)})]
iupdate_IfGrown(p) ==
    dinode' = IF Here(p) <= inode[Ip(p)].size THEN dinode
              ELSE [dinode EXCEPT ![Ip(p)] = Grown(p)]
iupdate(p) == dinode' = [dinode EXCEPT ![Ip(p)] = Grown(p)]

writei_done(p) ==
    /\ pc[p] = "iupdate" \/ (pc[p] = "writei" /\ done[p] = Todo(p))
    /\ inode' = [inode EXCEPT ![Ip(p)] = Grown(p)] /\ iupdate(p)
    /\ off' = [off EXCEPT ![fd[p]] = @ + done[p]]
    /\ IF done[p] = Todo(p) /\ left[p] > done[p]
       THEN left' = [left EXCEPT ![p] = @ - done[p]] /\ end_op(p, "begin_op")
       ELSE left' = [left EXCEPT ![p] = 0] /\ end_op(p, "idle")
    /\ UNCHANGED <<used, block>>
-------------------------------------------------------------------------------
(* fileread(): the bytes up to the end, or none if they cannot be stored.  *)
(* A block that is missing would be allocated, outside a transaction.      *)
Holes(i, S) == \E b \in S : Addr(i, b \div BSIZE) = 0

fileread(p, o, n) ==
    LET i == FileOf[o]
        r == Min({n, inode[i].size - off[o]}) IN
    /\ pc[p] = "idle" /\ owner[i] = Nobody /\ r > 0
    /\ IF Holes(i, off[o] .. off[o] + r - 1) THEN Goto(p, "panic") /\ UNCHANGED off
       ELSE off' = [off EXCEPT ![o] = @ + r] /\ UNCHANGED pc
    /\ UNCHANGED <<disk, inode, owner, fd, left, done, logged>>

(* sys_open(): a new open file, in place of one that was closed. *)
Closed(o) == \A p \in Procs : fd[p] # o

open(p, o) ==
    /\ pc[p] = "idle" /\ owner[FileOf[o]] = Nobody /\ Closed(o)
    /\ off' = [off EXCEPT ![o] = 0]
    /\ UNCHANGED <<disk, inode, owner, locals>>

(* With O_TRUNC it goes on with itrunc().                                  *)
open_trunc(p, o) ==
    /\ Truncates /\ pc[p] = "idle" /\ Closed(o) /\ ilock(p, FileOf[o])
    /\ off' = [off EXCEPT ![o] = 0]
    /\ fd' = [fd EXCEPT ![p] = o] /\ Goto(p, "itrunc")
    /\ UNCHANGED <<disk, inode, left, done, logged>>

(* bfree() *)
bfree(p, b, l) ==
    /\ Goto(p, IF b \in used THEN l ELSE "panic")
    /\ used' = used \ {b}
    /\ log_write(p, {BBLOCK(b)})

Unfreed(p) == {n \in done[p] .. MAXFILE - 1 : Addr(Ip(p), n) # 0}
Cleared == [size |-> 0, addrs |-> [n \in 0 .. NDIRECT |-> 0]]

(* The blocks of the file, in order, ... *)
itrunc_block(p) ==
    /\ pc[p] = "itrunc" /\ Unfreed(p) # {}
    /\ LET n == Min(Unfreed(p)) IN
       /\ bfree(p, Addr(Ip(p), n), "itrunc")
       /\ inode' = IF n < NDIRECT THEN [inode EXCEPT ![Ip(p)].addrs[n] = 0] ELSE inode
       /\ done' = [done EXCEPT ![p] = n + 1]
    /\ UNCHANGED <<block, dinode, owner, off, fd, left>>

(* ... the indirect block, ...                                             *)
itrunc_indirect(p) ==
    /\ pc[p] = "itrunc" /\ Unfreed(p) = {} /\ Indirect(Ip(p)) # 0
    /\ bfree(p, Indirect(Ip(p)), "itrunc")
    /\ inode' = [inode EXCEPT ![Ip(p)].addrs[NDIRECT] = 0]
    /\ done' = [done EXCEPT ![p] = MAXFILE]
    /\ UNCHANGED <<block, dinode, owner, off, fd, left>>

(* ... and the inode.                                                      *)
itrunc(p) ==
    /\ pc[p] = "itrunc" /\ Unfreed(p) = {} /\ Indirect(Ip(p)) = 0
    /\ inode' = [inode EXCEPT ![Ip(p)] = Cleared]
    /\ dinode' = [dinode EXCEPT ![Ip(p)] = Cleared]
    /\ end_op(p, "idle")
    /\ UNCHANGED <<used, block, off, left>>

writes(p) ==
    \/ writei(p) \/ writei_refused(p) \/ bmap_addr(p) \/ bmap_entry(p)
    \/ writei_block(p) \/ writei_short(p) \/ writei_done(p)
truncates(p) == itrunc_block(p) \/ itrunc_indirect(p) \/ itrunc(p)

Next ==
    \E p \in Procs :
        \/ writes(p) \/ truncates(p)
        \/ \E o \in Opened :
             \/ open(p, o) \/ open_trunc(p, o)
             \/ \E n \in Lengths : filewrite(p, o, n) \/ fileread(p, o, n)

Spec == Init /\ [][Next]_vars
-------------------------------------------------------------------------------
(* No panic: no free block is freed, and no read meets a hole. *)
NoPanic == \A p \in Procs : pc[p] # "panic"

(* A block is in use exactly while one place names it: an address of an    *)
(* inode, or an entry of an indirect block that itrunc() has not passed.   *)
(* A file has all blocks below its size; and while no call has the inode,  *)
(* the disk has what is in memory, so that a crash between transactions    *)
(* neither loses a block nor gives one to two files.                       *)
Passed(i, n) == \E p \in Procs : pc[p] = "itrunc" /\ Ip(p) = i /\ n < done[p]
At(i, n) ==
    IF n = MAXFILE THEN Indirect(i) ELSE IF Passed(i, n) THEN 0 ELSE Addr(i, n)
NamedAt(b) == Cardinality({x \in Inodes \X (0 .. MAXFILE) : At(x[1], x[2]) = b})

SpaceKept ==
    /\ \A b \in Blocks : NamedAt(b) = IF b \in used THEN 1 ELSE 0
    /\ \A i \in Inodes :
         owner[i] = Nobody =>
            /\ inode[i] = dinode[i]
            /\ inode[i].size > 0 => ~Holes(i, 0 .. inode[i].size - 1)

(* A transaction logs no more blocks than begin_op() reserved for it, the  *)
(* inode that it ends with included.                                       *)
OpFits ==
    \A p \in Procs : pc[p] \in {"writei", "iupdate", "itrunc"} =>
        Cardinality(logged[p] \cup {IBLOCK(Ip(p))}) <= MAXOPBLOCKS

(* Files are sequences of bytes.  What a call has written is in the file,  *)
(* and behind the offset, from when its block is written.                  *)
Writer(o) == {p \in Procs : fd[p] = o /\ pc[p] \in {"writei", "iupdate"}}
Offset(o) == off[o] + IF Writer(o) = {} THEN 0 ELSE done[CHOOSE p \in Writer(o) : TRUE]
Truncated(i) == \E p \in Procs : pc[p] = "itrunc" /\ Ip(p) = i
Size(i) ==
    IF Truncated(i) THEN 0
    ELSE Max({inode[i].size} \cup {Offset(o) : o \in {x \in Opened : FileOf[x] = i /\ Writer(x) # {}}})
Byte(i, n) ==
    IF Addr(i, n \div BSIZE) = 0 THEN 0 ELSE block[Addr(i, n \div BSIZE)][n % BSIZE]
Bytes(i) == [n \in 1 .. Size(i) |-> Byte(i, n - 1)]

now == [i \in {FileOf[o] : o \in Opened} |-> Bytes(i)]
offset == [o \in Opened |-> Offset(o)]

Store == INSTANCE ByteFiles WITH
    Vals <- Procs \cup {byte}, MaxLen <- MAXFILE * BSIZE
StoreStep == UNCHANGED <<now, offset>> \/ Store!BytesNext
StoreInit == Store!BytesInit
ImplementsByteFiles == StoreInit /\ [][StoreStep]_vars
===============================================================================
