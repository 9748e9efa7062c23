--------------------------------- MODULE Uart ---------------------------------
(***************************************************************************)
(* The transmit half of kernel/uart.c: uartputc() by several writers,      *)
(* uartstart() under uart_tx_lock, from a writer or from the interrupt     *)
(* handler, and uartputc_sync(), which echoes and prints without the lock: *)
(* it may write THR between uartstart()'s look at LSR and its own write.   *)
(* The device (external) takes up to FIFO bytes, sends them in order and   *)
(* interrupts when it has none left.  The counters wrap at UINT, for 2^64. *)
(***************************************************************************)
EXTENDS Integers, Sequences, FiniteSets

CONSTANTS
    Writers, Bytes,     \* what user programs write
    Echo,               \* stands for what uartputc_sync() sends
    SIZE, UINT,
    FIFO,               \* 16
    None

UartConstants ==
    /\ SIZE \in Nat \ {0} /\ UINT \in Nat /\ UINT > SIZE /\ UINT % SIZE = 0
    /\ FIFO \in Nat \ {0} /\ Echo \notin Bytes
    /\ None \notin Bytes \cup Writers /\ "intr" \notin Writers

VARIABLES
    tx_r, tx_w, tx_buf,
    lock,       \* who holds uart_tx_lock while it is in uartstart()
    go,         \* whether that one has found the transmitter idle
    byte,       \* per writer: what its uartputc() has yet to store
    asleep,     \* writers asleep on uart_tx_r
    echoing,    \* whether uartputc_sync() has found the transmitter idle
    thr,        \* the bytes in the device
    intr,       \* an interrupt is pending
    sent        \* the user byte sent last (not in the code)

tx == <<tx_r, tx_w, tx_buf>>
vars == <<tx, lock, go, byte, asleep, echoing, thr, intr, sent>>

Full == tx_w = (tx_r + SIZE) % UINT
TxIdle == thr = <<>>
WriteTHR(c) == thr' = IF Len(thr) < FIFO THEN Append(thr, c) ELSE thr

Init ==
    /\ tx_r = 0 /\ tx_w = 0
    /\ tx_buf \in [0 .. SIZE - 1 -> {CHOOSE c \in Bytes : TRUE}]
    /\ lock = None /\ go = FALSE
    /\ byte = [p \in Writers |-> None]
    /\ asleep = {}
    /\ echoing = FALSE /\ thr = <<>> /\ intr = FALSE
    /\ sent = None

(* consolewrite() has the next byte of its caller.                         *)
consolewrite(p, c) ==
    /\ byte[p] = None /\ lock # p
    /\ byte' = [byte EXCEPT ![p] = c]
    /\ UNCHANGED <<tx, lock, go, asleep, echoing, thr, intr, sent>>

Putting(p) == byte[p] # None /\ p \notin asleep /\ lock = None

uartputc_full(p) ==
    /\ Putting(p) /\ Full
    /\ asleep' = asleep \cup {p}
    /\ UNCHANGED <<tx, lock, go, byte, echoing, thr, intr, sent>>

uartputc(p) ==
    /\ Putting(p) /\ ~Full
    /\ tx_buf' = [tx_buf EXCEPT ![tx_w % SIZE] = byte[p]]
    /\ tx_w' = (tx_w + 1) % UINT
    /\ byte' = [byte EXCEPT ![p] = None]
    /\ lock' = p
    /\ UNCHANGED <<tx_r, go, asleep, echoing, thr, intr, sent>>

(* The second half of uartintr().                                          *)
uartintr ==
    /\ intr /\ lock = None
    /\ intr' = FALSE
    /\ lock' = "intr"
    /\ UNCHANGED <<tx, go, byte, asleep, echoing, thr, sent>>

(* uartstart() looks, and returns when there is nothing to send or the     *)
(* transmitter is busy.                                                    *)
uartstart ==
    /\ lock # None /\ ~go
    /\ IF tx_w # tx_r /\ TxIdle THEN go' = TRUE /\ UNCHANGED lock
       ELSE lock' = None /\ UNCHANGED go
    /\ UNCHANGED <<tx, byte, asleep, echoing, thr, intr, sent>>

uartstart_send ==
    /\ go
    /\ tx_r' = (tx_r + 1) % UINT
    /\ asleep' = {}
    /\ WriteTHR(tx_buf[tx_r % SIZE])
    /\ go' = FALSE
    /\ UNCHANGED <<tx_w, tx_buf, lock, byte, echoing, intr, sent>>

uartputc_sync ==
    /\ IF echoing THEN WriteTHR(Echo) ELSE TxIdle /\ UNCHANGED thr
    /\ echoing' = ~echoing
    /\ UNCHANGED <<tx, lock, go, byte, asleep, intr, sent>>

device_send ==
    /\ thr # <<>>
    /\ thr' = Tail(thr)
    /\ intr' = (intr \/ Len(thr) = 1)
    /\ sent' = IF Head(thr) = Echo THEN sent ELSE Head(thr)
    /\ UNCHANGED <<tx, lock, go, byte, asleep, echoing>>

Kernel == uartintr \/ uartstart \/ uartstart_send
Next ==
    \/ Kernel \/ uartputc_sync \/ device_send
    \/ \E p \in Writers : uartputc_full(p) \/ uartputc(p) \/ \E c \in Bytes : consolewrite(p, c)

Spec == Init /\ [][Next]_vars

(* The holder of a spinlock goes on, the device sends what it has got and  *)
(* its interrupt is served.  Echo and printf fall silent in the end: they  *)
(* could have the transmitter each time that uartstart() looks.            *)
Fairness ==
    WF_vars(Kernel) /\ WF_vars(device_send) /\ <>[][~uartputc_sync]_vars
FairSpec == Spec /\ Fairness
-------------------------------------------------------------------------------
(* The bytes of the user programs leave in the order in which they were    *)
(* stored and none is lost, with the echo somewhere among them (OfUsers     *)
(* takes it out).                                                          *)
OfUsers(s) ==
    LET first[k \in 0 .. Len(s)] ==
          IF k = 0 THEN <<>>
          ELSE IF s[k] = Echo THEN first[k - 1] ELSE Append(first[k - 1], s[k])
    IN  first[Len(s)]
Queue == OfUsers(thr) \o
         [i \in 1 .. (tx_w - tx_r) % UINT |-> tx_buf[(tx_r + i - 1) % SIZE]]
Line == INSTANCE Fifo WITH
    Procs <- {"line"}, Size <- SIZE + FIFO, queue <- Queue, open <- TRUE,
    got <- [p \in {"line"} |-> IF sent = None THEN None
                               ELSE [bytes |-> <<sent>>, cut |-> FALSE]]
ImplementsFifo == Line!FifoSpec

(* A writer sleeps only while the buffer is full, *)
SleepsForReason == asleep # {} => Full

(* and not for ever.                                                       *)
Woken == \A p \in Writers : p \in asleep ~> p \notin asleep
===============================================================================
