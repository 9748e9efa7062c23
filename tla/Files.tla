--------------------------------- MODULE Files --------------------------------
(***************************************************************************)
(* Open files and inodes: the file table (kernel/file.c), the inode table  *)
(* and the inodes on disk (kernel/fs.c), and the system calls that open,   *)
(* share, close, link and unlink files (kernel/sysfile.c).                 *)
(*                                                                         *)
(* All files are in the root directory, whose inode is never recycled: of  *)
(* it only the lock and the entries are kept.  A step ends where a call    *)
(* waits for a sleeplock, or lets go of a lock that others take; the disk  *)
(* transfers in between are made under the lock of a buffer.  Contents of  *)
(* files are left out, and so is the log, which makes the calls durable    *)
(* but does not order them.                                                *)
(*                                                                         *)
(* Operators with a suffix (_IgnoresRef...) are faulty variants of the     *)
(* operator that follows; no specification uses them.                      *)
(***************************************************************************)
EXTENDS Integers, FiniteSets, FiniteSetsExt

CONSTANTS
    Procs, Names,
    NINODES,     \* inodes on disk
    NINODE,      \* entries of the inode table
    NFILE,       \* entries of the file table
    NOFILE,      \* descriptors of a process
    DirFull,     \* whether dirlink may find no block for the entry
    None

FilesConstants ==
    /\ {NINODES, NINODE, NFILE, NOFILE} \subseteq Nat \ {0}
    /\ DirFull \in BOOLEAN /\ IsFiniteSet(Procs) /\ IsFiniteSet(Names)
    /\ None \notin Procs \cup Names
    /\ None \notin (1 .. NINODES) \cup (1 .. NINODE) \cup (1 .. NFILE)

VARIABLES
    dir,        \* per name: the inode number, or None
    type,       \* per inode on disk: whether it is allocated
    nlink,      \* per inode on disk
    itable,     \* the inode table
    owner,      \* per entry of the inode table: who has its sleeplock
    dirowner,   \* who has the root directory's
    ftable,     \* the file table: reference count, and inode
    ofile,      \* per process: its descriptors
    pc, ip, name    \* per process: where its call is, and its locals

disk == <<dir, type, nlink>>
locals == <<pc, ip, name>>
vars == <<disk, itable, owner, dirowner, ftable, ofile, locals>>

Inums == 1 .. NINODES
Slots == 1 .. NINODE
FileIds == 1 .. NFILE
Fds == 1 .. NOFILE

NoInode == [inum |-> None, ref |-> 0, valid |-> FALSE, nlink |-> 0]
NoFile == [ref |-> 0, ip |-> None]

Init ==
    /\ dir = [n \in Names |-> None]
    /\ type = [i \in Inums |-> FALSE] /\ nlink = [i \in Inums |-> 0]
    /\ itable = [s \in Slots |-> NoInode] /\ owner = [s \in Slots |-> None]
    /\ dirowner = None
    /\ ftable = [f \in FileIds |-> NoFile]
    /\ ofile = [p \in Procs |-> [d \in Fds |-> None]]
    /\ pc = [p \in Procs |-> "idle"]
    /\ ip = [p \in Procs |-> None] /\ name = [p \in Procs |-> None]

Goto(p, l) == pc' = [pc EXCEPT ![p] = l]
Inum(p) == itable[ip[p]].inum

(* The call is over: its locals are gone. *)
Return(p) ==
    /\ Goto(p, "idle")
    /\ ip' = [ip EXCEPT ![p] = None] /\ name' = [name EXCEPT ![p] = None]
-------------------------------------------------------------------------------
(* iget(): the entry of an inode, or the first free one. *)
Slot(i) ==
    LET hits == {s \in Slots : itable[s].ref > 0 /\ itable[s].inum = i}
        empty == {s \in Slots : itable[s].ref = 0} IN
    IF hits # {} THEN Min(hits) ELSE IF empty # {} THEN Min(empty) ELSE None

iget(p, i, l) ==
    IF Slot(i) = None THEN Goto(p, "panic") /\ UNCHANGED <<itable, ip>>
    ELSE /\ ip' = [ip EXCEPT ![p] = Slot(i)]
         /\ itable' = [itable EXCEPT ![Slot(i)] =
              IF @.ref > 0 THEN [@ EXCEPT !.ref = itable[Slot(i)].ref + 1]
              ELSE [inum |-> i, ref |-> 1, valid |-> FALSE, nlink |-> @.nlink]]
         /\ Goto(p, l)

(* ilock(): the sleeplock, and the inode from disk. *)
ilock(p, l) ==
    /\ owner[ip[p]] = None
    /\ owner' = [owner EXCEPT ![ip[p]] = p]
    /\ itable' = [itable EXCEPT ![ip[p]] =
         IF @.valid THEN @ ELSE [@ EXCEPT !.valid = TRUE, !.nlink = nlink[Inum(p)]]]
    /\ Goto(p, IF itable[ip[p]].valid \/ type[Inum(p)] THEN l ELSE "panic")

iunlock(p) == owner' = [owner EXCEPT ![ip[p]] = None]

(* A new link count, and iupdate(). *)
SetNlink(p, n) ==
    /\ itable' = [itable EXCEPT ![ip[p]].nlink = n]
    /\ nlink' = [nlink EXCEPT ![Inum(p)] = n]

Nlink(p) == itable[ip[p]].nlink

(* iput() from its beginning to its first release of itable.lock.  The     *)
(* acquiresleep under that spinlock must not wait.                         *)
LastUse_IgnoresRef(p) == itable[ip[p]].valid /\ Nlink(p) = 0
LastUse(p) == itable[ip[p]].ref = 1 /\ itable[ip[p]].valid /\ Nlink(p) = 0

Drop(p) == itable' = [itable EXCEPT ![ip[p]].ref = @ - 1]

(* create() keeps the directory locked while it drops what it made. *)
LetDir(p) == dirowner' = IF dirowner = p THEN None ELSE dirowner

iput(p) ==
    /\ pc[p] = "put" /\ ~LastUse(p)
    /\ Drop(p) /\ LetDir(p) /\ Return(p)
    /\ UNCHANGED <<disk, owner, ftable, ofile>>

iput_last(p) ==
    /\ pc[p] = "put" /\ LastUse(p)
    /\ IF owner[ip[p]] = None
       THEN owner' = [owner EXCEPT ![ip[p]] = p] /\ Goto(p, "put_free")
       ELSE Goto(p, "panic") /\ UNCHANGED owner
    /\ UNCHANGED <<disk, itable, dirowner, ftable, ofile, ip, name>>

(* itrunc(), and type 0 on disk: from here on ialloc() may take it. *)
iput_free(p) ==
    /\ pc[p] = "put_free" /\ type' = [type EXCEPT ![Inum(p)] = FALSE]
    /\ Goto(p, "put_invalid")
    /\ UNCHANGED <<dir, nlink, itable, owner, dirowner, ftable, ofile, ip, name>>

iput_invalid(p) ==
    /\ pc[p] = "put_invalid" /\ iunlock(p)
    /\ itable' = [itable EXCEPT ![ip[p]].valid = FALSE]
    /\ Goto(p, "put_count")
    /\ UNCHANGED <<disk, dirowner, ftable, ofile, ip, name>>

iput_count(p) ==
    /\ pc[p] = "put_count"
    /\ Drop(p) /\ LetDir(p) /\ Return(p)
    /\ UNCHANGED <<disk, owner, ftable, ofile>>
-------------------------------------------------------------------------------
(* namei(): the directory is locked for the lookup. *)
namei(p, n, l) ==
    /\ pc[p] = "idle" /\ dirowner = None /\ dir[n] # None
    /\ iget(p, dir[n], l)
    /\ UNCHANGED <<disk, owner, dirowner, ftable, ofile>>

lock_dir(p, n, l) ==
    /\ dirowner = None /\ dirowner' = p
    /\ name' = [name EXCEPT ![p] = n]
    /\ Goto(p, l)

(* sys_open() of a file that exists. *)
open(p, n) == namei(p, n, "open_lock") /\ UNCHANGED name

open_lock(p) ==
    /\ pc[p] = "open_lock" /\ ilock(p, "open_file")
    /\ UNCHANGED <<disk, dirowner, ftable, ofile, ip, name>>

FreeFiles == {f \in FileIds : ftable[f].ref = 0}
FreeFds(p) == {d \in Fds : ofile[p][d] = None}

(* filealloc() and fdalloc(); if either fails the inode is given back (and *)
(* the file, which has no inode yet).                                      *)
open_file(p) ==
    /\ pc[p] = "open_file" /\ iunlock(p)
    /\ IF FreeFiles # {} /\ FreeFds(p) # {}
       THEN /\ ftable' = [ftable EXCEPT ![Min(FreeFiles)] = [ref |-> 1, ip |-> ip[p]]]
            /\ ofile' = [ofile EXCEPT ![p][Min(FreeFds(p))] = Min(FreeFiles)]
            /\ Return(p)
       ELSE Goto(p, "put") /\ UNCHANGED <<ftable, ofile, ip, name>>
    /\ UNCHANGED <<disk, itable, dirowner>>

(* create(): the name exists... *)
create(p, n) ==
    /\ pc[p] = "idle" /\ lock_dir(p, n, "create")
    /\ UNCHANGED <<disk, itable, owner, ftable, ofile, ip>>

create_found(p) ==
    /\ pc[p] = "create" /\ dir[name[p]] # None
    /\ iget(p, dir[name[p]], "open_lock")
    /\ LetDir(p)
    /\ UNCHANGED <<disk, owner, ftable, ofile, name>>

(* ... or it does not, and ialloc() takes the first free inode, ...        *)
FreeInums == {i \in Inums : ~type[i]}

create_ialloc(p) ==
    /\ pc[p] = "create" /\ dir[name[p]] = None /\ FreeInums # {}
    /\ type' = [type EXCEPT ![Min(FreeInums)] = TRUE]
    /\ nlink' = [nlink EXCEPT ![Min(FreeInums)] = 0]
    /\ iget(p, Min(FreeInums), "create_lock")
    /\ UNCHANGED <<dir, owner, dirowner, ftable, ofile, name>>

create_none(p) ==
    /\ pc[p] = "create" /\ dir[name[p]] = None /\ FreeInums = {}
    /\ LetDir(p) /\ Return(p)
    /\ UNCHANGED <<disk, itable, owner, ftable, ofile>>

(* ... which is locked, filled in and entered in the directory, or given   *)
(* back when there is no room for the entry.                               *)
create_lock(p) ==
    /\ pc[p] = "create_lock" /\ ilock(p, "create_link")
    /\ UNCHANGED <<disk, dirowner, ftable, ofile, ip, name>>

create_link(p) ==
    /\ pc[p] = "create_link"
    /\ SetNlink(p, 1)
    /\ dir' = [dir EXCEPT ![name[p]] = Inum(p)]
    /\ LetDir(p) /\ Goto(p, "open_file")
    /\ UNCHANGED <<type, owner, ftable, ofile, ip, name>>

create_fail(p) ==
    /\ pc[p] = "create_link" /\ DirFull
    /\ SetNlink(p, 0) /\ iunlock(p) /\ Goto(p, "put")
    /\ UNCHANGED <<dir, type, dirowner, ftable, ofile, ip, name>>
-------------------------------------------------------------------------------
(* sys_link(): the count first, then the entry. *)
link(p, old, new) ==
    /\ namei(p, old, "link_lock")
    /\ name' = [name EXCEPT ![p] = new]

link_lock(p) ==
    /\ pc[p] = "link_lock" /\ ilock(p, "link_inc")
    /\ UNCHANGED <<disk, dirowner, ftable, ofile, ip, name>>

link_inc(p) ==
    /\ pc[p] = "link_inc"
    /\ SetNlink(p, Nlink(p) + 1) /\ iunlock(p) /\ Goto(p, "link_dir")
    /\ UNCHANGED <<dir, type, dirowner, ftable, ofile, ip, name>>

(* dirlink() fails if the name exists. *)
link_dir(p) ==
    /\ pc[p] = "link_dir" /\ dirowner = None
    /\ \/ /\ dir[name[p]] = None
          /\ dir' = [dir EXCEPT ![name[p]] = Inum(p)] /\ Goto(p, "put")
       \/ /\ dir[name[p]] # None \/ DirFull
          /\ Goto(p, "link_bad") /\ UNCHANGED dir
    /\ UNCHANGED <<type, nlink, itable, owner, dirowner, ftable, ofile, ip, name>>

link_bad(p) ==
    /\ pc[p] = "link_bad" /\ ilock(p, "link_dec")
    /\ UNCHANGED <<disk, dirowner, ftable, ofile, ip, name>>

link_dec(p) ==
    /\ pc[p] = "link_dec"
    /\ SetNlink(p, Nlink(p) - 1) /\ iunlock(p) /\ Goto(p, "put")
    /\ UNCHANGED <<dir, type, dirowner, ftable, ofile, ip, name>>

(* sys_unlink(): the file is locked while the directory is. *)
unlink(p, n) ==
    /\ pc[p] = "idle" /\ lock_dir(p, n, "unlink")
    /\ UNCHANGED <<disk, itable, owner, ftable, ofile, ip>>

unlink_found(p) ==
    /\ pc[p] = "unlink" /\ dir[name[p]] # None
    /\ iget(p, dir[name[p]], "unlink_lock")
    /\ UNCHANGED <<disk, owner, dirowner, ftable, ofile, name>>

unlink_none(p) ==
    /\ pc[p] = "unlink" /\ dir[name[p]] = None
    /\ LetDir(p) /\ Return(p)
    /\ UNCHANGED <<disk, itable, owner, ftable, ofile>>

unlink_lock(p) ==
    /\ pc[p] = "unlink_lock" /\ ilock(p, "unlink_entry")
    /\ UNCHANGED <<disk, dirowner, ftable, ofile, ip, name>>

unlink_entry(p) ==
    /\ pc[p] = "unlink_entry"
    /\ IF Nlink(p) < 1 THEN Goto(p, "panic") /\ UNCHANGED <<dir, dirowner>>
       ELSE /\ dir' = [dir EXCEPT ![name[p]] = None]
            /\ LetDir(p) /\ Goto(p, "unlink_dec")
    /\ UNCHANGED <<type, nlink, itable, owner, ftable, ofile, ip, name>>

unlink_dec(p) ==
    /\ pc[p] = "unlink_dec"
    /\ SetNlink(p, Nlink(p) - 1) /\ iunlock(p) /\ Goto(p, "put")
    /\ UNCHANGED <<dir, type, dirowner, ftable, ofile, ip, name>>
-------------------------------------------------------------------------------
(* sys_dup() and fork(): more descriptors of a file. *)
dup(p, d) ==
    /\ pc[p] = "idle" /\ ofile[p][d] # None /\ FreeFds(p) # {}
    /\ ofile' = [ofile EXCEPT ![p][Min(FreeFds(p))] = ofile[p][d]]
    /\ ftable' = [ftable EXCEPT ![ofile[p][d]].ref = @ + 1]
    /\ UNCHANGED <<disk, itable, owner, dirowner, locals>>

(* The child is a process without files (a new one). *)
fork_NoDup(p, q) ==
    /\ pc[p] = "idle" /\ pc[q] = "idle" /\ FreeFds(q) = Fds /\ FreeFds(p) # Fds
    /\ ofile' = [ofile EXCEPT ![q] = ofile[p]]
    /\ UNCHANGED <<disk, itable, owner, dirowner, ftable, locals>>
fork(p, q) ==
    /\ pc[p] = "idle" /\ pc[q] = "idle" /\ FreeFds(q) = Fds /\ FreeFds(p) # Fds
    /\ ofile' = [ofile EXCEPT ![q] = ofile[p]]
    /\ ftable' = [f \in FileIds |->
         [ftable[f] EXCEPT !.ref = @ + Cardinality({d \in Fds : ofile[p][d] = f})]]
    /\ UNCHANGED <<disk, itable, owner, dirowner, locals>>

(* sys_close(), and exit() for each descriptor: fileclose(). *)
close(p, d) ==
    /\ pc[p] = "idle" /\ ofile[p][d] # None
    /\ LET f == ofile[p][d] IN
       /\ ofile' = [ofile EXCEPT ![p][d] = None]
       /\ IF ftable[f].ref > 1
          THEN /\ ftable' = [ftable EXCEPT ![f].ref = @ - 1]
               /\ UNCHANGED locals
          ELSE /\ ftable' = [ftable EXCEPT ![f] = NoFile]
               /\ ip' = [ip EXCEPT ![p] = ftable[f].ip]
               /\ Goto(p, "put") /\ UNCHANGED name
    /\ UNCHANGED <<disk, itable, owner, dirowner>>

put(p) == iput(p) \/ iput_last(p) \/ iput_free(p) \/ iput_invalid(p) \/ iput_count(p)
opening(p) ==
    \/ open_lock(p) \/ open_file(p) \/ create_found(p) \/ create_ialloc(p)
    \/ create_none(p) \/ create_lock(p) \/ create_link(p) \/ create_fail(p)
linking(p) == link_lock(p) \/ link_inc(p) \/ link_dir(p) \/ link_bad(p) \/ link_dec(p)
unlinking(p) == unlink_found(p) \/ unlink_none(p) \/ unlink_lock(p) \/ unlink_entry(p) \/ unlink_dec(p)

Next ==
    \E p \in Procs :
        \/ put(p) \/ opening(p) \/ linking(p) \/ unlinking(p)
        \/ \E n \in Names : open(p, n) \/ create(p, n) \/ unlink(p, n)
        \/ \E old, new \in Names : link(p, old, new)
        \/ \E d \in Fds : dup(p, d) \/ close(p, d)
        \/ \E q \in Procs \ {p} : fork(p, q)

Spec == Init /\ [][Next]_vars
-------------------------------------------------------------------------------
(* No panic of these calls is reached ("iget: no inodes" with a table big  *)
(* enough, "ilock: no type", "unlink: nlink < 1"), and iput() never waits  *)
(* under its spinlock.                                                     *)
NoPanic == \A p \in Procs : pc[p] # "panic"

(* Every reference is counted: a descriptor in its file, an open file and  *)
(* a call under way in the inode's entry.                                  *)
RefsCounted ==
    /\ \A f \in FileIds : ftable[f].ref =
         Cardinality({x \in Procs \X Fds : ofile[x[1]][x[2]] = f})
    /\ \A s \in Slots : itable[s].ref =
         Cardinality({f \in FileIds : ftable[f].ref > 0 /\ ftable[f].ip = s})
         + Cardinality({p \in Procs : ip[p] = s})

(* The link count of an inode is the number of its names, but for the      *)
(* calls that have changed one and not yet the other.                      *)
Ahead(i) == Cardinality({p \in Procs :
    pc[p] \in {"link_dir", "link_bad", "link_dec", "unlink_dec"} /\ Inum(p) = i})
Linked(i) == Cardinality({n \in Names : dir[n] = i})

LinksCounted == \A i \in Inums : type[i] => nlink[i] = Linked(i) + Ahead(i)

(* An inode stays allocated while it has a name or is used: a file that is *)
(* open survives its last name.                                            *)
Used(i) == \E s \in Slots : itable[s].ref > 0 /\ itable[s].inum = i
Freeing(i) == \E p \in Procs : pc[p] \in {"put_invalid", "put_count"} /\ Inum(p) = i

AllocatedWhileUsed ==
    \A i \in Inums :
        /\ Linked(i) > 0 => type[i]
        /\ Used(i) => type[i] \/ Freeing(i)

Counted == RefsCounted /\ LinksCounted /\ AllocatedWhileUsed

(* "If that was the last reference and the inode has no links to it, free  *)
(* the inode (and its content) on disk" (fs.c:333-334): an inode without   *)
(* name or reference is not allocated.                                     *)
FreedWithLastUse == \A i \in Inums : type[i] => Linked(i) > 0 \/ Used(i)
===============================================================================
