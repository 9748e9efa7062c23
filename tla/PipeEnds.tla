-------------------------------- MODULE PipeEnds ------------------------------
(***************************************************************************)
(* The ends of pipes: pipe() with its error paths (sys_pipe of             *)
(* kernel/sysfile.c, pipealloc of kernel/pipe.c), and how file entries,    *)
(* descriptors and the page of a pipe are shared by dup and fork, and are  *)
(* given back by close and exit, on several processes at once.             *)
(*                                                                         *)
(* A step is a section under ftable.lock or pi->lock, or what a process    *)
(* does to its own descriptors.  What passes through a pipe is in Pipe.    *)
(***************************************************************************)
EXTENDS Integers, Sequences, FiniteSets, FiniteSetsExt

CONSTANTS
    Procs, init,
    NFILE, NOFILE,   \* entries of the file table, descriptors of a process
    NPAGES           \* pages that kalloc has

PipeEndsConstants ==
    /\ init \in Procs /\ {NFILE, NOFILE} \subseteq Nat \ {0} /\ NPAGES \in Nat

VARIABLES
    ref,        \* per file entry,
    pipe, end,  \* of which page it is an end, and which; 0 and none if it is FD_NONE
    used,       \* the pages that pipes have
    opened,     \* per page: readopen and writeopen, as a set
    ofile,      \* per process: the entry of each descriptor, or 0
    live,
    pc,
    rf, wf,     \* per process: the locals of sys_pipe()
    closing,    \* the entries that it still has to close
    last        \* what fileclose() has kept of the entry that it cleared

table == <<ref, pipe, end>>
pages == <<used, opened>>
vars == <<table, pages, ofile, live, pc, rf, wf, closing, last>>

Files == 1 .. NFILE
Fds == 0 .. NOFILE - 1
Pages == 1 .. NPAGES
Closed == [fd \in Fds |-> 0]
Nothing == [pipe |-> 0, end |-> "none"]

Init ==
    /\ ref = [f \in Files |-> 0]
    /\ pipe = [f \in Files |-> 0] /\ end = [f \in Files |-> "none"]
    /\ used = {} /\ opened = [k \in Pages |-> {}]
    /\ ofile = [p \in Procs |-> Closed] /\ live = {init}
    /\ pc = [p \in Procs |-> "user"]
    /\ rf = [p \in Procs |-> 0] /\ wf = [p \in Procs |-> 0]
    /\ closing = [p \in Procs |-> <<>>] /\ last = [p \in Procs |-> Nothing]

At(p, l) == p \in live /\ pc[p] = l
Goto(p, l) == pc' = [pc EXCEPT ![p] = l]
Calls(p) == At(p, "user") /\ closing[p] = <<>> /\ last[p] = Nothing

FreeFiles == {f \in Files : ref[f] = 0}
FreeFds(p) == {fd \in Fds : ofile[p][fd] = 0}

filealloc(f) == ref' = [ref EXCEPT ![f] = 1] /\ UNCHANGED <<pipe, end>>

(* sys_pipe() fails: what it has of the two entries is closed.             *)
bad(p, fs) ==
    /\ closing' = [closing EXCEPT ![p] = fs]
    /\ rf' = [rf EXCEPT ![p] = 0] /\ wf' = [wf EXCEPT ![p] = 0]
    /\ Goto(p, "user")
-------------------------------------------------------------------------------
(* pipealloc(): an entry for the read end, one for the write end, a page.  *)
(* Without any entry there is nothing to give back.                        *)
pipealloc_read(p) ==
    /\ Calls(p) /\ FreeFiles # {}
    /\ filealloc(Min(FreeFiles))
    /\ rf' = [rf EXCEPT ![p] = Min(FreeFiles)] /\ Goto(p, "write_end")
    /\ UNCHANGED <<pages, ofile, live, wf, closing, last>>

pipealloc_write(p) ==
    /\ At(p, "write_end")
    /\ \/ /\ FreeFiles # {} /\ filealloc(Min(FreeFiles))
          /\ wf' = [wf EXCEPT ![p] = Min(FreeFiles)] /\ Goto(p, "page")
          /\ UNCHANGED <<rf, closing>>
       \/ FreeFiles = {} /\ bad(p, <<rf[p]>>) /\ UNCHANGED table
    /\ UNCHANGED <<pages, ofile, live, last>>

pipealloc_page(p) ==
    /\ At(p, "page")
    /\ \/ \E k \in Pages \ used :
            /\ used' = used \cup {k}
            /\ opened' = [opened EXCEPT ![k] = {"read", "write"}]
            /\ pipe' = [pipe EXCEPT ![rf[p]] = k, ![wf[p]] = k]
            /\ end' = [end EXCEPT ![rf[p]] = "read", ![wf[p]] = "write"]
            /\ Goto(p, "fds") /\ UNCHANGED <<ref, rf, wf, closing>>
       \/ /\ used = Pages /\ bad(p, <<rf[p], wf[p]>>)
          /\ UNCHANGED <<table, pages>>
    /\ UNCHANGED <<ofile, live, last>>

(* sys_pipe() with both ends: two descriptors, which the program may have  *)
(* no valid address to be told at.                                         *)
sys_pipe(p) ==
    /\ At(p, "fds") /\ Cardinality(FreeFds(p)) >= 2
    /\ LET fd0 == Min(FreeFds(p)) IN
       ofile' = [ofile EXCEPT ![p][fd0] = rf[p],
                              ![p][Min(FreeFds(p) \ {fd0})] = wf[p]]
    /\ bad(p, <<>>)
    /\ UNCHANGED <<table, pages, live, last>>

sys_pipe_bad(p) ==
    /\ At(p, "fds") /\ bad(p, <<rf[p], wf[p]>>)
    /\ UNCHANGED <<table, pages, ofile, live, last>>
-------------------------------------------------------------------------------
(* fileclose() under ftable.lock, and what it does with the last end.      *)
fileclose(p) ==
    /\ p \in live /\ closing[p] # <<>> /\ last[p] = Nothing
    /\ LET f == Head(closing[p]) IN
       IF ref[f] > 1
       THEN ref' = [ref EXCEPT ![f] = @ - 1] /\ UNCHANGED <<pipe, end, last>>
       ELSE /\ ref' = [ref EXCEPT ![f] = 0]
            /\ pipe' = [pipe EXCEPT ![f] = 0] /\ end' = [end EXCEPT ![f] = "none"]
            /\ last' = [last EXCEPT ![p] = [pipe |-> pipe[f], end |-> end[f]]]
    /\ closing' = [closing EXCEPT ![p] = Tail(@)]
    /\ UNCHANGED <<pages, ofile, live, pc, rf, wf>>

pipeclose(p) ==
    /\ p \in live /\ last[p] # Nothing
    /\ LET k == last[p].pipe
           open == opened[k] \ {last[p].end} IN
       /\ opened' = [opened EXCEPT ![k] = open]
       /\ used' = IF open = {} THEN used \ {k} ELSE used
    /\ last' = [last EXCEPT ![p] = Nothing]
    /\ UNCHANGED <<table, ofile, live, pc, rf, wf, closing>>

close(p, fd) ==
    /\ Calls(p) /\ ofile[p][fd] # 0
    /\ closing' = [closing EXCEPT ![p] = <<ofile[p][fd]>>]
    /\ ofile' = [ofile EXCEPT ![p][fd] = 0]
    /\ UNCHANGED <<table, pages, live, pc, rf, wf, last>>

dup(p, fd) ==
    /\ Calls(p) /\ ofile[p][fd] # 0 /\ FreeFds(p) # {}
    /\ ofile' = [ofile EXCEPT ![p][Min(FreeFds(p))] = ofile[p][fd]]
    /\ ref' = [ref EXCEPT ![ofile[p][fd]] = @ + 1]
    /\ UNCHANGED <<pipe, end, pages, live, pc, rf, wf, closing, last>>

(* The parent's descriptors keep each entry while fork() counts the child. *)
fork(p, q) ==
    /\ Calls(p) /\ q \notin live
    /\ live' = live \cup {q}
    /\ ofile' = [ofile EXCEPT ![q] = ofile[p]]
    /\ ref' = [f \in Files |-> ref[f] + Cardinality({fd \in Fds : ofile[p][fd] = f})]
    /\ UNCHANGED <<pipe, end, pages, pc, rf, wf, closing, last>>

(* exit() closes one descriptor after the other.                           *)
exit(p) ==
    /\ Calls(p) /\ p # init
    /\ Goto(p, "exit")
    /\ UNCHANGED <<table, pages, ofile, live, rf, wf, closing, last>>

exit_close(p) ==
    /\ At(p, "exit") /\ closing[p] = <<>> /\ last[p] = Nothing
    /\ LET open == Fds \ FreeFds(p) IN
       IF open = {}
       THEN live' = live \ {p} /\ Goto(p, "user") /\ UNCHANGED <<ofile, closing>>
       ELSE /\ closing' = [closing EXCEPT ![p] = <<ofile[p][Min(open)]>>]
            /\ ofile' = [ofile EXCEPT ![p][Min(open)] = 0]
            /\ UNCHANGED <<live, pc>>
    /\ UNCHANGED <<table, pages, rf, wf, last>>

Next ==
    \E p \in Procs :
        \/ pipealloc_read(p) \/ pipealloc_write(p) \/ pipealloc_page(p)
        \/ sys_pipe(p) \/ sys_pipe_bad(p) \/ fileclose(p) \/ pipeclose(p)
        \/ exit(p) \/ exit_close(p)
        \/ \E fd \in Fds : close(p, fd) \/ dup(p, fd)
        \/ \E q \in Procs : fork(p, q)

Spec == Init /\ [][Next]_vars
-------------------------------------------------------------------------------
(* A file entry counts the descriptors that name it, in all processes, and *)
(* the calls that hold it.                                                 *)
Holds(p, f) ==
    Cardinality({fd \in Fds : ofile[p][fd] = f})
    + Cardinality({i \in DOMAIN closing[p] : closing[p][i] = f})
    + Cardinality({f} \cap {rf[p], wf[p]})

(* A page belongs to a pipe as long as one of its ends is open, an end is  *)
(* open as long as a file entry or a call that is about to close it says   *)
(* so, and each end is that of one entry: readers see the end of the file  *)
(* when the last writer is gone and not before, and no page is lost, or    *)
(* given back twice, wherever pipe() fails.                                *)
HasEnd(k, e) ==
    Cardinality({f \in Files : ref[f] > 0 /\ pipe[f] = k /\ end[f] = e})
    + Cardinality({p \in Procs : last[p] = [pipe |-> k, end |-> e]})

EndsCounted ==
    /\ \A f \in Files :
         /\ ref[f] = MapThenSumSet(LAMBDA p : Holds(p, f), Procs)
         /\ ref[f] = 0 => pipe[f] = 0
    /\ \A k \in Pages :
         /\ k \in used <=> opened[k] # {}
         /\ \A e \in {"read", "write"} : HasEnd(k, e) = IF e \in opened[k] THEN 1 ELSE 0
===============================================================================
