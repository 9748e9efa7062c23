---------------------------------- MODULE Tree --------------------------------
(***************************************************************************)
(* Directories: namex(), dirlookup() and dirlink() of kernel/fs.c under    *)
(* mkdir, mknod, chdir and unlink of kernel/sysfile.c.                     *)
(*                                                                         *)
(* A step is what happens between two waits for an inode's sleeplock: an   *)
(* element of a path is one, and unlink() waits for the inode while it has *)
(* its directory.  The transaction around a call makes it durable (Log).   *)
(* References are counted where they are held; the last one frees an inode *)
(* without links in one step (what may come between is in Files).          *)
(***************************************************************************)
EXTENDS Integers, Sequences, FiniteSets, FiniteSetsExt

CONSTANTS
    Procs,
    Names,       \* of entries other than "." and ".."
    Paths,       \* sequences of elements; "/" begins an absolute one
    NINODES,
    Removed      \* whether to create in a directory that has been removed

Root == 1
Inums == 1 .. NINODES
Nobody == "none"

(* Only the first element may be "/": skipelem() skips the others.         *)
TreeConstants ==
    /\ NINODES \in Nat \ {0} /\ Removed \in BOOLEAN /\ Nobody \notin Procs
    /\ IsFiniteSet(Names) /\ Names \cap {"/", ".", ".."} = {}
    /\ Paths \subseteq Seq(Names \cup {"/", ".", ".."}) /\ <<>> \notin Paths
    /\ \A to \in Paths : \A i \in 2 .. Len(to) : to[i] # "/"

VARIABLES
    type,        \* per inode: "free", "dir" or "dev"
    nlink,
    child,       \* per inode: the inode of each name, or 0
    up,          \* per inode: that of ".."
    owner,       \* per inode: who has its sleeplock, if not for one step
    cwd,
    pc,          \* per process: its call
    path,        \* what is left of the path
    name,        \* the last element
    dp, ip       \* the inodes it holds references to, or 0

inodes == <<type, nlink, child, up>>
locals == <<pc, path, name, dp, ip>>
vars == <<inodes, owner, cwd, locals>>

NoEntries == [n \in Names |-> 0]

Init ==
    /\ type = [i \in Inums |-> IF i = Root THEN "dir" ELSE "free"]
    /\ nlink = [i \in Inums |-> IF i = Root THEN 1 ELSE 0]
    /\ child = [i \in Inums |-> NoEntries] /\ up = [i \in Inums |-> Root]
    /\ owner = [i \in Inums |-> Nobody]
    /\ cwd = [p \in Procs |-> Root]
    /\ pc = [p \in Procs |-> "idle"] /\ path = [p \in Procs |-> <<>>]
    /\ name = [p \in Procs |-> Nobody]
    /\ dp = [p \in Procs |-> 0] /\ ip = [p \in Procs |-> 0]

Goto(p, l) == pc' = [pc EXCEPT ![p] = l]
Set(f, p, x) == [f EXCEPT ![p] = x]

Unlocked(i) == owner[i] = Nobody
Panics(p) == Goto(p, "panic") /\ UNCHANGED <<inodes, owner, cwd, path, name, dp, ip>>

(* What the references of others and of p's working directory keep.        *)
Held(i) == \E p \in Procs : i \in {cwd[p], dp[p], ip[p]}
Kept(i) == \E p \in Procs : i \in {cwd'[p], dp'[p], ip'[p]}

(* iput(): the inodes whose last reference goes are freed if they have no  *)
(* links; n are the link counts then, c the entries.                       *)
iput(n, c, t) ==
    LET freed == {i \in Inums : t[i] # "free" /\ n[i] = 0 /\ Held(i) /\ ~Kept(i)} IN
    /\ type' = [i \in Inums |-> IF i \in freed THEN "free" ELSE t[i]]
    /\ child' = [i \in Inums |-> IF i \in freed THEN NoEntries ELSE c[i]]
    /\ nlink' = n

(* The call is over, and gives back what it holds. *)
Return(p) ==
    /\ Goto(p, "idle") /\ path' = Set(path, p, <<>>) /\ name' = Set(name, p, Nobody)
    /\ dp' = Set(dp, p, 0) /\ ip' = Set(ip, p, 0)
    /\ owner' = [i \in Inums |-> IF owner[i] = p THEN Nobody ELSE owner[i]]

drop == iput(nlink, child, type) /\ UNCHANGED up
Fail(p) == Return(p) /\ UNCHANGED cwd /\ drop
-------------------------------------------------------------------------------
(* dirlookup(), of "." and ".." too. *)
dirlookup(d, n) == CASE n = "." -> d [] n = ".." -> up[d] [] OTHER -> child[d][n]

(* namex() begins at the root or in the working directory, ...             *)
call(p, what, to) ==
    /\ pc[p] = "idle" /\ Goto(p, what)
    /\ IF to[1] = "/" THEN path' = Set(path, p, Tail(to)) /\ ip' = Set(ip, p, Root)
       ELSE path' = Set(path, p, to) /\ ip' = Set(ip, p, cwd[p])
    /\ UNCHANGED <<inodes, owner, cwd, name, dp>>

(* ... stops one level early in nameiparent(), ...                         *)
WantsParent(p) == pc[p] \in {"mkdir", "mknod", "unlink"}
Walking(p) == pc[p] \in {"mkdir", "mknod", "unlink", "chdir"} /\ path[p] # <<>>
Parent(p) == WantsParent(p) /\ Len(path[p]) = 1

(* ... and locks each directory on its way. *)
Locks(p, i) == Unlocked(i) /\ type[i] # "free"
NoType(p, i) == Unlocked(i) /\ type[i] = "free"

namex(p) ==
    /\ Walking(p) /\ Locks(p, ip[p])
    /\ LET next == dirlookup(ip[p], Head(path[p])) IN
       CASE type[ip[p]] # "dir" \/ (~Parent(p) /\ next = 0) ->
              Return(p)
         [] type[ip[p]] = "dir" /\ Parent(p) ->
              /\ dp' = Set(dp, p, ip[p]) /\ ip' = Set(ip, p, 0)
              /\ name' = Set(name, p, Head(path[p])) /\ path' = Set(path, p, <<>>)
              /\ UNCHANGED <<pc, owner>>
         [] OTHER ->
              /\ ip' = Set(ip, p, next) /\ path' = Set(path, p, Tail(path[p]))
              /\ UNCHANGED <<pc, owner, name, dp>>
    /\ UNCHANGED cwd /\ drop

(* nameiparent("/") finds no parent. *)
namex_root(p) ==
    /\ WantsParent(p) /\ path[p] = <<>> /\ dp[p] = 0
    /\ Fail(p)

(* ilock() finds no inode. *)
ilock_panic(p) ==
    /\ \/ Walking(p) /\ NoType(p, ip[p])
       \/ pc[p] = "chdir" /\ path[p] = <<>> /\ NoType(p, ip[p])
       \/ WantsParent(p) /\ dp[p] # 0 /\ NoType(p, dp[p])
       \/ pc[p] \in {"unlink_ip", "create_exists"} /\ NoType(p, ip[p])
    /\ Panics(p)
-------------------------------------------------------------------------------
(* create() of mkdir() and mknod(), with the directory locked. *)
Creating(p) == pc[p] \in {"mkdir", "mknod"} /\ dp[p] # 0 /\ Locks(p, dp[p])
FreeInums == {i \in Inums : type[i] = "free"}

(* The name exists: its inode is locked, seen to be no file and dropped.   *)
create_found(p) ==
    /\ Creating(p) /\ dirlookup(dp[p], name[p]) # 0
    /\ ip' = Set(ip, p, dirlookup(dp[p], name[p])) /\ dp' = Set(dp, p, 0)
    /\ Goto(p, "create_exists")
    /\ UNCHANGED <<owner, cwd, path, name>>
    /\ drop

create_exists(p) ==
    /\ pc[p] = "create_exists" /\ Locks(p, ip[p])
    /\ Fail(p)

(* A new inode, its entries, and its entry in the directory.               *)
LinkParent(p, n) == IF pc[p] = "mkdir" THEN [n EXCEPT ![dp[p]] = @ + 1] ELSE n

create(p) ==
    /\ Creating(p) /\ dirlookup(dp[p], name[p]) = 0 /\ FreeInums # {}
    /\ nlink[dp[p]] = 0 => Removed
    /\ LET i == Min(FreeInums)
           kind == IF pc[p] = "mkdir" THEN "dir" ELSE "dev" IN
       /\ Return(p) /\ UNCHANGED cwd
       /\ iput(LinkParent(p, [nlink EXCEPT ![i] = 1]),
               [child EXCEPT ![dp[p]][name[p]] = i], [type EXCEPT ![i] = kind])
       /\ up' = [up EXCEPT ![i] = dp[p]]

(* There is no inode, or no block for the entry: what was made is freed.   *)
create_fail(p) ==
    /\ Creating(p) /\ dirlookup(dp[p], name[p]) = 0
    /\ Fail(p)
-------------------------------------------------------------------------------
(* sys_chdir() *)
chdir(p) ==
    /\ pc[p] = "chdir" /\ path[p] = <<>> /\ Locks(p, ip[p])
    /\ cwd' = IF type[ip[p]] = "dir" THEN Set(cwd, p, ip[p]) ELSE cwd
    /\ Return(p)
    /\ drop

(* sys_unlink(): "Cannot unlink "." or "..".", with which it would wait    *)
(* for a lock that it has, or that a parent's unlink() has.                *)
Dots(n) == n \in {".", ".."}

Unlinking(p) == pc[p] = "unlink" /\ dp[p] # 0 /\ Locks(p, dp[p])

unlink_bad(p) ==
    /\ Unlinking(p)
    /\ Dots(name[p]) \/ dirlookup(dp[p], name[p]) = 0
    /\ Fail(p)

unlink_found(p) ==
    /\ Unlinking(p) /\ ~Dots(name[p]) /\ dirlookup(dp[p], name[p]) # 0
    /\ ip' = Set(ip, p, dirlookup(dp[p], name[p]))
    /\ owner' = Set(owner, dp[p], p) /\ Goto(p, "unlink_ip")
    /\ UNCHANGED <<inodes, cwd, path, name, dp>>

isdirempty(i) == child[i] = NoEntries
Entered(i) == type[i] = "dir" /\ ~isdirempty(i)

(* The inode is locked too.  Only an empty directory goes.                 *)
UnlinkParent_No(p, n) == n
UnlinkParent(p, n) ==
    IF type[ip[p]] = "dir" THEN [n EXCEPT ![dp[p]] = @ - 1] ELSE n

unlink_ip(p) ==
    /\ pc[p] = "unlink_ip" /\ Locks(p, ip[p])
    /\ IF nlink[ip[p]] < 1 THEN Panics(p)
       ELSE /\ Return(p) /\ UNCHANGED <<cwd, up>>
            /\ IF Entered(ip[p]) THEN iput(nlink, child, type)
               ELSE iput([UnlinkParent(p, nlink) EXCEPT ![ip[p]] = @ - 1],
                         [child EXCEPT ![dp[p]][name[p]] = 0], type)

creates(p) == create_found(p) \/ create_exists(p) \/ create(p) \/ create_fail(p)
unlinks(p) == unlink_bad(p) \/ unlink_found(p) \/ unlink_ip(p)

Next ==
    \E p \in Procs :
        \/ namex(p) \/ namex_root(p) \/ ilock_panic(p)
        \/ creates(p) \/ chdir(p) \/ unlinks(p)
        \/ \E what \in {"mkdir", "mknod", "chdir", "unlink"}, to \in Paths :
             call(p, what, to)

Spec == Init /\ [][Next]_vars
-------------------------------------------------------------------------------
(* No panic: "ilock: no type" and "unlink: nlink < 1". *)
NoPanic == \A p \in Procs : pc[p] # "panic"

(* From the root on, directories are a tree: each inode has one name, its  *)
(* ".." is the directory that has the name, its link count is that name    *)
(* and the ".." of its subdirectories.  Nothing else is allocated but what *)
(* a process still holds; a working directory stays one when it is removed.*)
Reachable ==
    LET within[k \in 0 .. NINODES] ==
          IF k = 0 THEN {Root}
          ELSE within[k - 1] \cup ({child[i][n] : i \in within[k - 1], n \in Names} \ {0})
    IN within[NINODES]
Entries(i) == {x \in Reachable \X Names : child[x[1]][x[2]] = i}
Subdirs(i) == {n \in Names : child[i][n] # 0 /\ type[child[i][n]] = "dir"}

TreeShape ==
    /\ \A i \in Reachable :
         /\ type[i] # "free" /\ nlink[i] = 1 + Cardinality(Subdirs(i))
         /\ i # Root => Cardinality(Entries(i)) = 1
         /\ type[i] = "dir" => \A n \in Subdirs(i) : up[child[i][n]] = i
    /\ \A i \in Inums : type[i] # "free" => i \in Reachable \/ Held(i) \/ Removed
    /\ \A p \in Procs : type[cwd[p]] = "dir"

(* Who waits for an inode while it has a directory can be the first to go  *)
(* on: no circle of processes waits for each other.                        *)
NoCircularWait ==
    \A S \in SUBSET {p \in Procs : pc[p] = "unlink_ip"} :
        S # {} => \E p \in S : owner[ip[p]] \notin S
===============================================================================
