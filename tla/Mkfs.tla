---------------------------------- MODULE Mkfs --------------------------------
(***************************************************************************)
(* mkfs/mkfs.c: the image of the disk that the kernel starts from.  Files  *)
(* are given by their lengths; the root directory by the length of its     *)
(* entries.  Blocks are numbered from the first behind the bitmap.         *)
(***************************************************************************)
EXTENDS Integers, Sequences, SequencesExt

CONSTANTS
    NBLOCKS, NDIRECT, NINDIRECT,
    ENTRY,          \* bytes of a directory entry
    Sizes,          \* of the files, in the order of the arguments
    byte            \* what the files are made of

MkfsConstants ==
    /\ {NBLOCKS, NINDIRECT, ENTRY} \subseteq Nat \ {0} /\ NDIRECT \in Nat
    /\ Sizes \in Seq(Nat)

BSIZE == NINDIRECT
Root == 1

Inums == 1 .. Len(Sizes) + 1
Empty == [freeblock |-> 1,
          block |-> [b \in 1 .. NBLOCKS |-> [c \in 0 .. BSIZE - 1 |-> 0]],
          dinode |-> [i \in Inums |->
              [size |-> 0, addrs |-> [n \in 0 .. NDIRECT |-> 0]]]]

(* The image in which a file has its block fbn... *)
Indirect(m, i) == m.dinode[i].addrs[NDIRECT]

WithAddr(m, i, n) ==
    IF m.dinode[i].addrs[n] # 0 THEN m
    ELSE [m EXCEPT !.dinode[i].addrs[n] = m.freeblock, !.freeblock = @ + 1]

WithBlock(m, i, fbn) ==
    IF fbn < NDIRECT THEN WithAddr(m, i, fbn)
    ELSE LET d == WithAddr(m, i, NDIRECT) IN
         IF d.block[Indirect(d, i)][fbn - NDIRECT] # 0 THEN d
         ELSE [d EXCEPT !.block[Indirect(d, i)][fbn - NDIRECT] = d.freeblock,
                        !.freeblock = @ + 1]

(* ... and the one with one more byte in it. *)
PutByte(m, i) ==
    LET off == m.dinode[i].size
        fbn == off \div BSIZE
        w == WithBlock(m, i, fbn)
        addr == IF fbn < NDIRECT THEN w.dinode[i].addrs[fbn]
                ELSE w.block[Indirect(w, i)][fbn - NDIRECT] IN
    [w EXCEPT !.block[addr][off % BSIZE] = byte, !.dinode[i].size = @ + 1]

iappend(m, i, n) == FoldLeft(LAMBDA w, k : PutByte(w, i), m, [k \in 1 .. n |-> k])

(* The entries "." and "..", then each file, after its entry.              *)
AddFile(m, i) == iappend(iappend(m, Root, ENTRY), i, Sizes[i - 1])
Filled ==
    FoldLeft(AddFile, iappend(Empty, Root, 2 * ENTRY), [k \in 1 .. Len(Sizes) |-> k + 1])

(* The root directory ends with the block that it has begun. *)
RootSize(off) == (off \div BSIZE + 1) * BSIZE

(* balloc(freeblock): the blocks before it are in use. *)
Image ==
    [used |-> 1 .. Filled.freeblock - 1,
     block |-> Filled.block,
     dinode |-> [Filled.dinode EXCEPT ![Root].size = RootSize(@)]]
===============================================================================
