------------------------------- MODULE MCDevices ------------------------------
(***************************************************************************)
(* One TLC run for what passes through a ring or a buffer between two that *)
(* sleep for each other: requests to the disk (Virtio, the module          *)
(* extended; its threads have their buffers' locks), pipes (Pipe), what is *)
(* printed (Uart) and what is typed (Console).  setup says which, and how  *)
(* much of it there is; the variables of the others keep their first value.*)
(*   disk_full    three threads, descriptors for one request               *)
(*   disk_two     two threads (t3 stays idle), two requests at a time      *)
(*   pipe         a reader, two writers                                    *)
(*   uart         two writers, and echo                                    *)
(*   keys         a line buffer of three keys, one reader                  *)
(*   readers      a line buffer of two keys, two readers                   *)
(***************************************************************************)
EXTENDS Virtio, TLC

CONSTANTS t1, t2, t3, r1, w1, w2, x, y

VARIABLES
    setup,
    nread, nwrite, pdata, readopen, writeopen, holds, ppc, todo, killed, got, \* Pipe
    tx_r, tx_w, tx_buf, lock, go, byte, asleep, echoing, thr, irq, sent,      \* Uart
    buf, r, w, e, cpc, n, place, dst, ckilled                                 \* Console

(* The four descriptors of disk_full are those of the module extended.     *)
DiskTwo == INSTANCE Virtio WITH NUM <- 7

(* Writes and reads beyond the pipe's size, and with an address that is    *)
(* not the process's.                                                      *)
Pipes == INSTANCE Pipe WITH
    Readers <- {r1}, Writers <- {w1, w2}, Bytes <- {x, y}, PIPESIZE <- 2, UINT <- 4,
    Writes <- {<<x, y, x>>}, Reads <- {<<x>>, <<x, x, None>>},
    Killable <- {r1, w1}, data <- pdata, pc <- ppc

Serial == INSTANCE Uart WITH
    Writers <- {w1, w2}, Bytes <- {x, y}, Echo <- t1, SIZE <- 2, UINT <- 4, FIFO <- 2,
    intr <- irq

(* More than there is to read, and a read to a bad address.                *)
Request(size, good) == [n |-> size, valid |-> good]
Editor == INSTANCE Console WITH
    Readers <- {r1}, Chars <- {x}, SIZE <- 3, UINT <- 6, Killable <- {r1},
    Reads <- {Request(1, 1), Request(4, 4), Request(2, 1)},
    pc <- cpc, valid <- place, killed <- ckilled
Contest == INSTANCE Console WITH
    Readers <- {r1, w1}, Chars <- {x}, SIZE <- 2, UINT <- 4, Killable <- {r1},
    Reads <- {Request(3, 3), Request(2, 1)},
    pc <- cpc, valid <- place, killed <- ckilled

ASSUME DeviceConstants ==
    /\ DiskTwo!VirtioConstants
    /\ Pipes!PipeConstants /\ Serial!UartConstants
    /\ Editor!ConsoleConstants /\ Contest!ConsoleConstants

virtio == vars
pipe == <<nread, nwrite, pdata, readopen, writeopen, holds, ppc, todo, killed, got>>
uart == <<tx_r, tx_w, tx_buf, lock, go, byte, asleep, echoing, thr, irq, sent>>
console == <<buf, r, w, e, cpc, n, place, dst, ckilled>>
all == <<setup, virtio, pipe, uart, console>>

PartsInit ==
    /\ setup \in {"disk_full", "disk_two", "pipe", "uart", "keys", "readers"}
    /\ IF setup = "disk_two" THEN DiskTwo!Init ELSE Init
    /\ Pipes!Init /\ Serial!Init
    /\ IF setup = "readers" THEN Contest!Init ELSE Editor!Init

PartsNext ==
    /\ UNCHANGED setup
    /\ \/ /\ UNCHANGED <<pipe, uart, console>>
          /\ \/ setup = "disk_full" /\ Next
             \/ setup = "disk_two" /\ DiskTwo!Next /\ pc'[t3] = "idle"
       \/ setup = "pipe" /\ Pipes!Next /\ UNCHANGED <<virtio, uart, console>>
       \/ setup = "uart" /\ Serial!Next /\ UNCHANGED <<virtio, pipe, console>>
       \/ /\ UNCHANGED <<virtio, pipe, uart>>
          /\ \/ setup = "keys" /\ Editor!Next
             \/ setup = "readers" /\ Contest!Next

PartsSpec == PartsInit /\ [][PartsNext]_all

(* What Pipe, Uart and Virtio assume, or less where that is enough: with   *)
(* four descriptors one request is under way, and t1 stands for the others.*)
PartsFairness ==
    /\ \A p \in {r1, w1, w2} : WF_pipe(setup = "pipe" /\ Pipes!go(p))
    /\ SF_virtio(setup = "disk_full" /\ (rw_submit(t1) \/ rw_finish(t1)))
    /\ WF_virtio(setup = "disk_full" /\ \E t \in {t2, t3} : rw_finish(t))
    /\ WF_virtio(setup = "disk_full" /\ (handler \/ device_step))
    /\ WF_uart(setup = "uart" /\ Serial!Kernel)
    /\ WF_uart(setup = "uart" /\ Serial!device_send)
    /\ <>[][~Serial!uartputc_sync]_uart
PartsFairSpec == PartsSpec /\ PartsFairness
-------------------------------------------------------------------------------
(* What goes through a pipe, to the line or from the keyboard to readers   *)
(* keeps its order, and nothing is lost; who sleeps for room to print or   *)
(* for a line has a reason to.                                             *)
BytesPass ==
    /\ Pipes!ImplementsFifo
    /\ Serial!ImplementsFifo /\ [](setup = "uart" => Serial!SleepsForReason)
    /\ [][IF setup = "readers" THEN Contest!KeepsLines ELSE Editor!KeepsLines]_all
    /\ [](setup = "keys" => Editor!SleepsForReason /\ Editor!OneLine)
    /\ [](setup = "readers" => Contest!SleepsForReason /\ Contest!OneLine)

(* Whoever waits in a pipe, for the disk or for room to print is woken in  *)
(* the end.                                                                *)
Waits(p) == ppc[p] \in {"nread", "nwrite"}
SleepersWoken ==
    /\ \A p \in {r1, w1, w2} : Waits(p) ~> ~Waits(p)
    /\ setup = "disk_full" /\ pc[t1] = "alloc" ~> pc[t1] = "done"
    /\ Serial!Woken
===============================================================================
