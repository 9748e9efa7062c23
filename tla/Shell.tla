--------------------------------- MODULE Shell ---------------------------------
(***************************************************************************)
(* The processes that carry out a command line: user/init.c, user/sh.c     *)
(* (main, runcmd), and two programs they run, user/echo.c and user/cat.c.  *)
(*                                                                         *)
(* proc[s] is the process in slot s of the process table: what it does     *)
(* next (at), its parent, its last child, its command, its descriptors,    *)
(* those of its pipe or of cat's file (p), cat's buffer, and whether it    *)
(* belongs to the foreground.  A descriptor names an open file and, for a  *)
(* pipe, an end of it.  The unit of data is a word.  Of system calls there *)
(* is what they do for these programs; Proc, Files and Pipe have them in   *)
(* full.                                                                   *)
(***************************************************************************)
EXTENDS Integers, FiniteSets, FiniteSetsExt, Functions, SequencesExt

CONSTANTS
    NPROC,          \* slots of the process table
    NOFILE, NFILE,  \* descriptors of a process; open files of all, enough of both
    PIPESIZE,       \* words that a pipe holds
    Lines,          \* what the user may type: sequences of tokens
    Names,          \* names of files
    MaxBack,        \* bound: the user waits while more than these run in the background
    Parse(_)        \* the tree of a line (Parser's parsecmd)

VARIABLES proc, files, disk, shown, meant
vars == <<proc, files, disk, shown, meant>>

ShellConstants == NPROC \in Nat \ {0, 1} /\ NOFILE > 4 /\ NFILE > 0 /\ PIPESIZE > 0

Slots == 1 .. NPROC
Fds == 0 .. NOFILE - 1
Console == [file |-> 1, end |-> "both"]
Missing == <<"missing">>                                  \* what disk says of no file
NoFile == [kind |-> "none", name |-> "none", off |-> 0, data |-> <<>>]
NoProc == [at |-> "free", parent |-> 0, pid |-> 0, cmd |-> [type |-> "none"],
           fds |-> <<>>, p |-> <<>>, buf |-> <<>>, fg |-> FALSE]

(* init has opened the console three times over. *)
Init ==
    /\ proc = [s \in Slots |-> IF s # 1 THEN NoProc
                 ELSE [NoProc EXCEPT !.at = "init", !.fds = [fd \in 0 .. 2 |-> Console]]]
    /\ files = [k \in 1 .. NFILE |->
                  IF k = 1 THEN [NoFile EXCEPT !.kind = "console"] ELSE NoFile]
    /\ disk = [n \in Names |-> Missing]
    /\ shown = <<>>
    /\ meant = [out |-> <<>>, disk |-> disk]
-------------------------------------------------------------------------------
Used == UNION {{f.file : f \in Range(proc[s].fds)} : s \in Slots}
Held(k, end) == \E s \in Slots : [file |-> k, end |-> end] \in Range(proc[s].fds)
FreeFile == Min((1 .. NFILE) \ Used)
FreeFd(fds) == Min(Fds \ DOMAIN fds)
Close(fds, closed) == RestrictDomain(fds, LAMBDA fd : fd \notin closed)

(* A file that no descriptor names any more is closed for good. *)
FilesAre(now) ==
    LET used == Used' IN
    files' = [k \in 1 .. NFILE |-> IF k \in used THEN now[k] ELSE NoFile]

Becomes(s, new) == proc' = [proc EXCEPT ![s] = new] /\ FilesAre(files)

exit(s) ==
    /\ proc' = [t \in Slots |->
                  IF t = s THEN [NoProc EXCEPT !.at = "zombie", !.parent = proc[s].parent]
                  ELSE IF proc[t].parent = s THEN [proc[t] EXCEPT !.parent = 1]
                  ELSE proc[t]]
    /\ FilesAre(files)

(* fork1(): the caller goes on as parent, its copy as child; without a free *)
(* slot it panics, which is to exit.                                        *)
fork1(s, parent, child) ==
    LET free == {t \in Slots : proc[t].at = "free"} IN
    IF free = {} THEN exit(s)
    ELSE /\ proc' = [proc EXCEPT ![s] = [parent EXCEPT !.pid = Min(free)],
                                 ![Min(free)] = [child EXCEPT !.parent = s, !.pid = 0]]
         /\ FilesAre(files)

(* wait(): once a child is a zombie, or at once if there is no child; the  *)
(* caller goes on as then(pid), of which pid is that child, or -1.         *)
wait(s, then(_)) ==
    LET children == {t \in Slots : proc[t].parent = s}
        zombies == {t \in children : proc[t].at = "zombie"}
        pid == IF zombies = {} THEN -1 ELSE Min(zombies)
    IN /\ zombies # {} \/ children = {}
       /\ proc' = [t \in Slots |-> IF t = s THEN then(pid)
                                   ELSE IF t = pid THEN NoProc ELSE proc[t]]
       /\ UNCHANGED files

At(s, place) == proc[s].at = place
To(s, place) == [proc[s] EXCEPT !.at = place]
-------------------------------------------------------------------------------
(* init.c: start a shell, and another when it exits.  The pid of a shell  *)
(* is its slot here: no other process gets that before init has waited.    *)
init_fork(s) ==
    /\ At(s, "init")
    /\ fork1(s, To(s, "init_wait"), To(s, "prompt"))
    /\ UNCHANGED <<disk, shown, meant>>

init_wait(s) ==
    /\ At(s, "init_wait")
    /\ wait(s, LAMBDA pid :
                 IF pid = -1 THEN [NoProc EXCEPT !.at = "zombie"]
                 ELSE IF pid = proc[s].pid THEN To(s, "init") ELSE proc[s])
    /\ UNCHANGED <<disk, shown, meant>>

(* What a line comes to if its commands are run as the tree says, with in  *)
(* as the input; piped if the output goes to a pipe.                       *)
RECURSIVE Meaning(_, _, _, _)
Meaning(cmd, in, dsk, piped) ==
    LET Result(out, d) == [out |-> out, disk |-> d]
        Over(old, new) == new \o SubSeq(old, Len(new) + 1, Len(old))
        argv == cmd.argv
        There == {n \in 2 .. Len(argv) : \A k \in 2 .. n : dsk[argv[k]] # Missing}
        start == IF dsk[cmd.file] = Missing \/ cmd.op = ">" THEN <<>> ELSE dsk[cmd.file]
    IN
    CASE cmd.type = "EXEC" ->
           Result(IF argv = <<>> THEN <<>>
                  ELSE IF argv[1] = "echo" THEN Tail(argv)
                  ELSE IF argv = <<"cat">> THEN in
                  ELSE IF argv[1] = "cat"
                  THEN FlattenSeq([n \in 1 .. Cardinality(There) |-> dsk[argv[n + 1]]])
                  ELSE <<>>, dsk)
      [] cmd.type = "REDIR" /\ cmd.op = "<" ->
           IF dsk[cmd.file] = Missing THEN Result(<<>>, dsk)
           ELSE Meaning(cmd.cmd, dsk[cmd.file], dsk, piped)
      [] cmd.type = "REDIR" /\ cmd.op # "<" ->
           LET r == Meaning(cmd.cmd, in, [dsk EXCEPT ![cmd.file] = start], FALSE)
           IN Result(<<>>, [r.disk EXCEPT ![cmd.file] = Over(@, r.out)])
      [] cmd.type = "LIST" ->
           LET l == Meaning(cmd.left, in, dsk, piped)
               r == Meaning(cmd.right, in, l.disk, piped)
           IN Result(l.out \o r.out, r.disk)
      [] cmd.type = "PIPE" ->
           LET l == Meaning(cmd.left, in, dsk, TRUE)
           IN Meaning(cmd.right, l.out, l.disk, piped)
      [] cmd.type = "BACK" ->
           IF piped THEN Meaning(cmd.cmd, <<>>, dsk, TRUE) ELSE Result(<<>>, dsk)
      [] OTHER -> Result(<<>>, dsk)

(* main(): a line is typed, or the end of the input. *)
getcmd(s) ==
    /\ At(s, "prompt")
    /\ UNCHANGED disk
    /\ Cardinality({t \in Slots : proc[t].at # "free" /\ t \notin {1, s}}) <= MaxBack
    /\ \/ \E line \in Lines :
            /\ proc' = [proc EXCEPT ![s].at = "fork", ![s].cmd = Parse(line)]
            /\ shown' = <<>>
            /\ meant' = Meaning(Parse(line), <<>>, disk, FALSE)
            /\ UNCHANGED files
       \/ exit(s) /\ UNCHANGED <<shown, meant>>

main_fork(s) ==
    /\ At(s, "fork")
    /\ fork1(s, [To(s, "wait") EXCEPT !.cmd = NoProc.cmd],
                [To(s, "runcmd") EXCEPT !.fg = TRUE])
    /\ UNCHANGED <<disk, shown, meant>>

main_wait(s) ==
    /\ At(s, "wait")
    /\ wait(s, LAMBDA pid : To(s, "prompt"))
    /\ UNCHANGED <<disk, shown, meant>>
-------------------------------------------------------------------------------
(* runcmd(), by the type of the command, and what its two forks have left. *)
Runs(s, type) == At(s, "runcmd") /\ proc[s].cmd.type = type

(* A child of the shell carries out cmd; from then on it has no pipe.      *)
Runner(s, cmd) == [To(s, "runcmd") EXCEPT !.cmd = cmd, !.p = <<>>]

runcmd_EXEC(s) ==
    /\ Runs(s, "EXEC")
    /\ LET argv == proc[s].cmd.argv IN
       IF argv # <<>> /\ argv[1] \in {"echo", "cat"}
       THEN Becomes(s, [To(s, IF argv = <<"cat">> THEN "cat_read" ELSE argv[1])
                          EXCEPT !.cmd.argv = Tail(argv),
                                 !.p = IF argv = <<"cat">> THEN <<0>> ELSE <<>>])
       ELSE exit(s)                       \* nothing to execute, or exec() failed
    /\ UNCHANGED <<disk, shown, meant>>

(* A line that parsecmd() panicked on.                                     *)
runcmd_panic(s) ==
    /\ Runs(s, "panic") /\ exit(s)
    /\ UNCHANGED <<disk, shown, meant>>

(* open(file, mode) as sys_open does it: the lowest descriptor, an offset  *)
(* of 0, and for ">" an empty file.                                        *)
open(s, fds, file, mode, then) ==
    LET k == FreeFile
        new == IF mode = ">" \/ disk[file] = Missing THEN <<>> ELSE disk[file]
    IN IF mode = "<" /\ disk[file] = Missing
       THEN exit(s) /\ UNCHANGED disk
       ELSE /\ proc' = [proc EXCEPT ![s] = [then EXCEPT
                          !.fds = fds @@ (FreeFd(fds) :> [file |-> k, end |-> "both"]),
                          !.p = <<FreeFd(fds)>>]]
            /\ FilesAre([files EXCEPT ![k] = [NoFile EXCEPT !.kind = "file", !.name = file]])
            /\ disk' = IF mode = "<" THEN disk ELSE [disk EXCEPT ![file] = new]

runcmd_REDIR(s) ==
    /\ Runs(s, "REDIR")
    /\ LET cmd == proc[s].cmd
           fd == IF cmd.op = "<" THEN 0 ELSE 1
       IN open(s, Close(proc[s].fds, {fd}), cmd.file, cmd.op, Runner(s, cmd.cmd))
    /\ UNCHANGED <<shown, meant>>

runcmd_LIST(s) ==
    /\ Runs(s, "LIST")
    /\ fork1(s, To(s, "list_wait"), Runner(s, proc[s].cmd.left))
    /\ UNCHANGED <<disk, shown, meant>>

list_wait(s) ==
    /\ At(s, "list_wait")
    /\ wait(s, LAMBDA pid : Runner(s, proc[s].cmd.right))
    /\ UNCHANGED <<disk, shown, meant>>

runcmd_BACK(s) ==
    /\ Runs(s, "BACK")
    /\ fork1(s, To(s, "exit"), [Runner(s, proc[s].cmd.cmd) EXCEPT !.fg = FALSE])
    /\ UNCHANGED <<disk, shown, meant>>

runcmd_PIPE(s) ==
    /\ Runs(s, "PIPE")
    /\ LET k == FreeFile
           r == FreeFd(proc[s].fds)
           w == Min(Fds \ (DOMAIN proc[s].fds \cup {r}))
       IN /\ proc' = [proc EXCEPT ![s] = [To(s, "fork_left") EXCEPT
                        !.fds = @ @@ (r :> [file |-> k, end |-> "read"])
                                  @@ (w :> [file |-> k, end |-> "write"]),
                        !.p = <<r, w>>]]
          /\ FilesAre([files EXCEPT ![k] = [NoFile EXCEPT !.kind = "pipe"]])
    /\ UNCHANGED <<disk, shown, meant>>

fork_left(s) ==
    /\ At(s, "fork_left")
    /\ fork1(s, To(s, "fork_right"), To(s, "left"))
    /\ UNCHANGED <<disk, shown, meant>>

fork_right(s) ==
    /\ At(s, "fork_right")
    /\ fork1(s, To(s, "pipe_close"), To(s, "right"))
    /\ UNCHANGED <<disk, shown, meant>>

(* The child's end of the pipe becomes its descriptor fd, and it closes    *)
(* the two that it had of the pipe.                                        *)
Plumbed(s, fd, end) ==
    LET p == proc[s].p IN
    (fd :> proc[s].fds[p[end]]) @@ Close(proc[s].fds, {p[1], p[2]})

left(s) ==
    /\ At(s, "left")
    /\ Becomes(s, [Runner(s, proc[s].cmd.left) EXCEPT !.fds = Plumbed(s, 1, 2)])
    /\ UNCHANGED <<disk, shown, meant>>

right(s) ==
    /\ At(s, "right")
    /\ Becomes(s, [Runner(s, proc[s].cmd.right) EXCEPT !.fds = Plumbed(s, 0, 1)])
    /\ UNCHANGED <<disk, shown, meant>>

pipe_close_KeepsWrite(s) ==
    /\ At(s, "pipe_close")
    /\ LET p == proc[s].p IN
       Becomes(s, [To(s, "pipe_wait") EXCEPT !.p = <<>>, !.fds = Close(@, {p[1]})])
    /\ UNCHANGED <<disk, shown, meant>>
pipe_close(s) ==
    /\ At(s, "pipe_close")
    /\ LET p == proc[s].p IN
       Becomes(s, [To(s, "pipe_wait") EXCEPT !.p = <<>>,
                     !.fds = Close(@, {p[1], p[2]})])
    /\ UNCHANGED <<disk, shown, meant>>

pipe_wait_Once(s) ==
    /\ At(s, "pipe_wait") /\ wait(s, LAMBDA pid : To(s, "exit"))
    /\ UNCHANGED <<disk, shown, meant>>
pipe_wait(s) ==
    /\ \/ At(s, "pipe_wait") /\ wait(s, LAMBDA pid : To(s, "pipe_wait2"))
       \/ At(s, "pipe_wait2") /\ wait(s, LAMBDA pid : To(s, "exit"))
    /\ UNCHANGED <<disk, shown, meant>>

exits(s) ==
    /\ At(s, "exit") /\ exit(s)
    /\ UNCHANGED <<disk, shown, meant>>
-------------------------------------------------------------------------------
(* write() of one word to descriptor fd: then, or failed without a reader. *)
write(s, fd, word, then, failed) ==
    LET k == proc[s].fds[fd].file
        f == files[k]
        Puts(old) == [n \in 1 .. Max({f.off + 1, Len(old)}) |->
                        IF n = f.off + 1 THEN word ELSE old[n]]
    IN \/ /\ f.kind = "console"
          /\ shown' = IF proc[s].fg THEN Append(shown, word) ELSE shown
          /\ Becomes(s, then) /\ UNCHANGED disk
       \/ /\ f.kind = "file"
          /\ disk' = [disk EXCEPT ![f.name] = Puts(@)]
          /\ proc' = [proc EXCEPT ![s] = then]
          /\ FilesAre([files EXCEPT ![k].off = @ + 1]) /\ UNCHANGED shown
       \/ /\ f.kind = "pipe" /\ Held(k, "read") /\ Len(f.data) < PIPESIZE
          /\ proc' = [proc EXCEPT ![s] = then]
          /\ FilesAre([files EXCEPT ![k].data = Append(@, word)]) /\ UNCHANGED <<disk, shown>>
       \/ /\ f.kind = "pipe" /\ ~Held(k, "read")
          /\ Becomes(s, failed) /\ UNCHANGED <<disk, shown>>

(* echo.c, which does not look at what write() returns.                    *)
echo(s) ==
    /\ At(s, "echo")
    /\ LET argv == proc[s].cmd.argv
           next == [proc[s] EXCEPT !.cmd.argv = Tail(argv)]
       IN IF argv = <<>> THEN exit(s) /\ UNCHANGED <<disk, shown>>
          ELSE write(s, 1, Head(argv), next, next)
    /\ UNCHANGED meant

(* cat.c: its next argument, if there is one, or the end.                  *)
cat_open(s) ==
    /\ At(s, "cat")
    /\ LET argv == proc[s].cmd.argv IN
       IF argv = <<>> THEN exit(s) /\ UNCHANGED disk
       ELSE open(s, proc[s].fds, Head(argv), "<",
                 [To(s, "cat_read") EXCEPT !.cmd.argv = Tail(argv)])
    /\ UNCHANGED <<shown, meant>>

(* read() of all there is, once there is something or no writer is left.  *)
cat_read(s) ==
    /\ At(s, "cat_read")
    /\ LET fd == proc[s].p[1]
           k == proc[s].fds[fd].file
           f == files[k]
           data == IF f.kind = "pipe" THEN f.data
                   ELSE SubSeq(disk[f.name], f.off + 1, Len(disk[f.name]))
       IN /\ f.kind # "console"             \* nobody types ahead of the prompt
          /\ f.kind = "pipe" => data # <<>> \/ ~Held(k, "write")
          /\ IF data # <<>>
             THEN /\ proc' = [proc EXCEPT ![s] = [To(s, "cat_write") EXCEPT !.buf = data]]
                  /\ FilesAre([files EXCEPT ![k].data = <<>>,
                                 ![k].off = IF f.kind = "file" THEN @ + Len(data) ELSE @])
             ELSE Becomes(s, [To(s, "cat") EXCEPT !.p = <<>>,
                                !.fds = IF fd = 0 THEN @ ELSE Close(@, {fd})])
    /\ UNCHANGED <<disk, shown, meant>>

cat_write(s) ==
    /\ At(s, "cat_write")
    /\ LET buf == proc[s].buf IN
       write(s, 1, Head(buf),
             [To(s, IF Len(buf) = 1 THEN "cat_read" ELSE "cat_write") EXCEPT !.buf = Tail(buf)],
             [To(s, "exit") EXCEPT !.buf = <<>>])
    /\ UNCHANGED meant

Step(s) ==
    \/ init_fork(s) \/ init_wait(s) \/ main_fork(s) \/ main_wait(s)
    \/ runcmd_EXEC(s) \/ runcmd_panic(s) \/ runcmd_REDIR(s)
    \/ runcmd_LIST(s) \/ list_wait(s) \/ runcmd_BACK(s)
    \/ runcmd_PIPE(s) \/ fork_left(s) \/ fork_right(s) \/ left(s) \/ right(s)
    \/ pipe_close(s) \/ pipe_wait(s) \/ exits(s)
    \/ echo(s) \/ cat_open(s) \/ cat_read(s) \/ cat_write(s)

Next == \E s \in Slots : getcmd(s) \/ Step(s)
Spec == Init /\ [][Next]_vars

(* The machine does not stop while a process can go on; which one does, and *)
(* whether the user ever types, is left open.                              *)
Fairness == WF_vars(\E s \in Slots : Step(s))
FairSpec == Spec /\ Fairness
-------------------------------------------------------------------------------
(* When the shell asks for a line, nothing of the last one still runs in   *)
(* the foreground, and the console and the files hold what it meant: every *)
(* program had the input and output that the line says.                    *)
DoneAsSaid ==
    \A s \in Slots : At(s, "prompt") =>
        /\ \A t \in Slots : ~proc[t].fg
        /\ shown = meant.out /\ disk = meant.disk

(* The shell asks for a line again and again: no process of a command      *)
(* waits for ever, for a child or for the end of a pipe.                   *)
PromptReturns == []<>(\E s \in Slots : At(s, "prompt"))
===============================================================================
