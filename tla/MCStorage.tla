------------------------------- MODULE MCStorage ------------------------------
(***************************************************************************)
(* One TLC run for what lies between system calls and the disk: the buffer *)
(* cache (Bcache, the module extended), the blocks of files (Contents) on  *)
(* an image that mkfs made (Mkfs), files (Files), the ends of pipes        *)
(* (PipeEnds) and directories (Tree).  setup says which part a behaviour   *)
(* is about, and how much of it there is; the variables of the others keep *)
(* their first value.                                                      *)
(*   hits               two threads and two buffers, for two blocks        *)
(*   recycled, pinned   for three; nothing is logged, or one thread runs   *)
(*   links              two names, one descriptor each                     *)
(*   shares             one name, two descriptors each                     *)
(*   ends               two processes, two pipes' entries, one page        *)
(*   writes             two files that grow, each block with a bitmap      *)
(*   truncates          one file with two offsets, which is truncated      *)
(*   paths              two processes, the root and two more inodes        *)
(***************************************************************************)
EXTENDS Bcache, TLC

CONSTANTS t1, t2, b1, b2, x, y, mkfs

VARIABLES
    setup,
    dir, type, nlink, itable, iowner, dirowner, ftable, ofile, fpc, ip, name, \* Files
    ref, pipe, end, pused, opened, pofile, live, ppc, rf, wf, closing, last,   \* PipeEnds
    used, block, dinode, inode, cowner, off, cpc, fd, left, done, logged,     \* Contents
    ttype, tnlink, child, up, towner, cwd, tpc, path, element, tdp, tip       \* Tree

Links == INSTANCE Files WITH
    Procs <- {t1, t2}, Names <- {x, y}, NINODES <- 1, NINODE <- 1, NFILE <- 2,
    NOFILE <- 1, DirFull <- TRUE, pc <- fpc, owner <- iowner
Shares == INSTANCE Files WITH
    Procs <- {t1, t2}, Names <- {x}, NINODES <- 1, NINODE <- 1, NFILE <- 2,
    NOFILE <- 2, DirFull <- TRUE, pc <- fpc, owner <- iowner

Ends == INSTANCE PipeEnds WITH
    Procs <- {t1, t2}, init <- t1, NFILE <- 4, NOFILE <- 2, NPAGES <- 1,
    used <- pused, ofile <- pofile, pc <- ppc

(* An image has three files, of two bytes and of none, and leaves three    *)
(* blocks free, or two.                                                    *)
Made(blocks) == INSTANCE Mkfs WITH
    NBLOCKS <- blocks, NDIRECT <- 1, NINDIRECT <- 2, ENTRY <- 1,
    Sizes <- <<2, 0, 0>>, byte <- mkfs
Disk8 == Made(8)!Image
Disk7 == Made(7)!Image
Apart == x :> 2 @@ y :> 3
Shared == x :> 2 @@ y :> 2

Writes == INSTANCE Contents WITH
    Procs <- {t1, t2}, FileOf <- Apart, Lengths <- {3}, Truncates <- FALSE,
    Image <- Disk8, byte <- mkfs, NBLOCKS <- 8, NDIRECT <- 1, NINDIRECT <- 2,
    BPB <- 1, MAXOPBLOCKS <- 6, pc <- cpc, owner <- cowner
Truncates == INSTANCE Contents WITH
    Procs <- {t1, t2}, FileOf <- Shared, Lengths <- {3}, Truncates <- TRUE,
    Image <- Disk7, byte <- mkfs, NBLOCKS <- 7, NDIRECT <- 1, NINDIRECT <- 2,
    BPB <- 8, MAXOPBLOCKS <- 6, pc <- cpc, owner <- cowner

Paths == INSTANCE Tree WITH
    Procs <- {t1, t2}, Names <- {x, y},
    Paths <- {<<x>>, <<"/">>, <<x, y>>, <<x, "..">>}, NINODES <- 3, Removed <- FALSE,
    type <- ttype, nlink <- tnlink, owner <- towner, pc <- tpc, name <- element,
    dp <- tdp, ip <- tip

ASSUME StorageConstants ==
    /\ Links!FilesConstants /\ Shares!FilesConstants /\ Ends!PipeEndsConstants
    /\ Made(8)!MkfsConstants /\ Writes!ContentsConstants /\ Truncates!ContentsConstants
    /\ Paths!TreeConstants

bcache == vars
files == <<dir, type, nlink, itable, iowner, dirowner, ftable, ofile, fpc, ip, name>>
ends == <<ref, pipe, end, pused, opened, pofile, live, ppc, rf, wf, closing, last>>
contents == <<used, block, dinode, inode, cowner, off, cpc, fd, left, done, logged>>
tree == <<ttype, tnlink, child, up, towner, cwd, tpc, path, element, tdp, tip>>
all == <<setup, bcache, files, ends, contents, tree>>

PartsInit ==
    /\ setup \in {"hits", "recycled", "pinned", "links", "shares", "ends",
                 "writes", "truncates", "paths"}
    /\ Init
    /\ IF setup = "shares" THEN Shares!Init ELSE Links!Init
    /\ Ends!Init
    /\ IF setup = "truncates" THEN Truncates!Init ELSE Writes!Init
    /\ Paths!Init

PartsNext ==
    /\ UNCHANGED setup
    /\ \/ /\ UNCHANGED <<files, ends, contents, tree>>
          /\ \/ setup = "hits" /\ \E t \in Threads : Thread(t, {b1, b2})
             \/ setup = "recycled" /\ Next /\ UNCHANGED pinned
             \/ setup = "pinned" /\ Thread(t1, Nums)
       \/ /\ UNCHANGED <<bcache, ends, contents, tree>>
          /\ \/ setup = "links" /\ Links!Next
             \/ setup = "shares" /\ Shares!Next
       \/ /\ UNCHANGED <<bcache, files, ends, tree>>
          /\ \/ setup = "writes" /\ Writes!Next
             \/ setup = "truncates" /\ Truncates!Next
       \/ UNCHANGED <<bcache, files, contents, tree>> /\ setup = "ends" /\ Ends!Next
       \/ UNCHANGED <<bcache, files, ends, contents>> /\ setup = "paths" /\ Paths!Next

PartsSpec == PartsInit /\ [][PartsNext]_all
-------------------------------------------------------------------------------
(* ByteFiles, for the contents that change. *)
ImplementsByteFiles ==
    /\ IF setup = "truncates" THEN Truncates!StoreInit ELSE Writes!StoreInit
    /\ [][CASE setup = "writes" -> Writes!StoreStep
            [] setup = "truncates" -> Truncates!StoreStep
            [] OTHER -> UNCHANGED contents]_all

(* Files, and the ends of pipes: who names them, and how often; and no     *)
(* panic of theirs is reached.                                             *)
Counted ==
    /\ IF setup = "shares" THEN Shares!Counted ELSE Links!Counted
    /\ setup = "links" => Links!NoPanic
    /\ setup = "shares" => Shares!NoPanic
    /\ Ends!EndsCounted

(* Blocks: each is used once, and none is freed twice. *)
SpaceKept ==
    /\ setup = "writes" => Writes!SpaceKept
    /\ setup = "truncates" => Truncates!SpaceKept
    /\ Writes!NoPanic
OpFits == IF setup = "truncates" THEN Truncates!OpFits ELSE Writes!OpFits

(* Directories, and that no circle of processes waits for each other's     *)
(* inodes.                                                                 *)
TreeShape == setup = "paths" => Paths!TreeShape /\ Paths!NoPanic /\ Paths!NoCircularWait
===============================================================================
