--------------------------------- MODULE Chunks -------------------------------
(***************************************************************************)
(* The chunk protocol of networks/partB: client.c and server.c are the     *)
(* same loop, of which the client starts as the sender.  A message is cut  *)
(* into chunks, which are sent when their timer has run out (the first     *)
(* time too) and until they are acknowledged by an echo.  The receiver     *)
(* prints the message when the chunk with the last number arrives and then *)
(* asks its user for an answer.                                            *)
(*                                                                         *)
(* A round of the loop is two steps, the receipt of at most one datagram   *)
(* and the sending or the prompt.  The text of a chunk is the number of    *)
(* its message, modulo 3, and its sender.  Datagrams travel in order (the  *)
(* programs use the loopback interface); Lossy says whether a full socket  *)
(* buffer may drop some, Early whether a timer may run out while a chunk   *)
(* or its echo is still under way.                                         *)
(*                                                                         *)
(* Operators with a suffix (_OffByOne...) are faulty variants of the       *)
(* operator that follows; no specification uses them.                      *)
(***************************************************************************)
EXTENDS Integers, Sequences, FiniteSets, SequencesExt

CONSTANTS
    client, server,
    MaxChunks,    \* chunks of a message (bound of the model)
    Capacity,     \* datagrams under way to a node (bound of the model)
    Lossy, Early,
    None

Nodes == {client, server}
Chunks ==
    [from : Nodes, msg : 0 .. 2, seq : 0 .. MaxChunks - 1, total : 1 .. MaxChunks]

ChunksConstants ==
    /\ client # server /\ None \notin Chunks
    /\ MaxChunks \in Nat \ {0} /\ Capacity \in Nat \ {0}
    /\ Lossy \in BOOLEAN /\ Early \in BOOLEAN

VARIABLES
    sending,   \* sending_data
    list,      \* chunk_list, as the set of numbers not acknowledged yet
    sent,      \* those that have been sent at least once
    received,  \* received_chunks
    pc,        \* poll or send
    msg,       \* the message typed last: its number and its chunks
    printed,   \* the message printed last, chunk by chunk
    net        \* per node: the datagrams in its socket buffer

vars == <<sending, list, sent, received, pc, msg, printed, net>>
sender == <<list, sent, msg>>

Peer(n) == IF n = client THEN server ELSE client
Chunk(n, i) == [from |-> n, msg |-> msg[n].id, seq |-> i, total |-> msg[n].total]

Init ==
    /\ sending = [n \in Nodes |-> n = client]
    /\ list = [n \in Nodes |-> {}]
    /\ sent = [n \in Nodes |-> {}]
    /\ received = [n \in Nodes |-> <<>>]
    /\ pc = [n \in Nodes |-> "poll"]
    /\ msg = [n \in Nodes |-> [id |-> 0, total |-> 0]]
    /\ printed = [n \in Nodes |-> <<>>]
    /\ net = [n \in Nodes |-> <<>>]

(* sendto: the sequences of datagrams that may come through of s.          *)
Passing(s) == IF Lossy THEN AllSubSeqs(s) ELSE {s}
Room(n, s) == Len(net[n]) + Len(s) <= Capacity
Goto(n, l) == pc' = [pc EXCEPT ![n] = l]
-------------------------------------------------------------------------------
(* print_received_message: of each number the first chunk that came. *)
Find(s, i) ==
    LET hits == {k \in 1 .. Len(s) : s[k].seq = i} IN
    IF hits = {} THEN None ELSE s[Min(hits)]

Text(s) == [i \in 1 .. Head(s).total |-> Find(s, i - 1)]

receive_data_OffByOne(n) ==
    /\ pc[n] = "poll" /\ net[n] # <<>> /\ ~sending[n]
    /\ LET x == Head(net[n])
           s == Append(received[n], x) IN
       /\ Room(Peer(n), <<x>>)
       /\ \E t \in Passing(<<x>>) :
            net' = [net EXCEPT ![n] = Tail(@), ![Peer(n)] = @ \o t]
       /\ IF Head(s).total - 1 = x.seq + 1
          THEN /\ printed' = [printed EXCEPT ![n] = Text(s)]
               /\ received' = [received EXCEPT ![n] = <<>>]
               /\ sending' = [sending EXCEPT ![n] = TRUE]
          ELSE /\ received' = [received EXCEPT ![n] = s]
               /\ UNCHANGED <<printed, sending>>
    /\ Goto(n, "send")
    /\ UNCHANGED sender
receive_data(n) ==
    /\ pc[n] = "poll" /\ net[n] # <<>> /\ ~sending[n]
    /\ LET x == Head(net[n])
           s == Append(received[n], x) IN
       /\ Room(Peer(n), <<x>>)
       /\ \E t \in Passing(<<x>>) :
            net' = [net EXCEPT ![n] = Tail(@), ![Peer(n)] = @ \o t]
       /\ IF Head(s).total = x.seq + 1
          THEN /\ printed' = [printed EXCEPT ![n] = Text(s)]
               /\ received' = [received EXCEPT ![n] = <<>>]
               /\ sending' = [sending EXCEPT ![n] = TRUE]
          ELSE /\ received' = [received EXCEPT ![n] = s]
               /\ UNCHANGED <<printed, sending>>
    /\ Goto(n, "send")
    /\ UNCHANGED sender

(* While it sends, a node takes any datagram for an echo. *)
receive_ack(n) ==
    /\ pc[n] = "poll" /\ net[n] # <<>> /\ sending[n]
    /\ net' = [net EXCEPT ![n] = Tail(@)]
    /\ list' = [list EXCEPT ![n] = @ \ {Head(net[n]).seq}]
    /\ sending' = [sending EXCEPT ![n] = list'[n] # {}]
    /\ Goto(n, "send")
    /\ UNCHANGED <<sent, msg, received, printed>>

(* epoll_wait times out. *)
receive_none(n) ==
    /\ pc[n] = "poll" /\ net[n] = <<>>
    /\ Goto(n, "send")
    /\ UNCHANGED <<sending, sender, received, printed, net>>
-------------------------------------------------------------------------------
(* The chunks whose timer has run out are sent, in order. *)
UnderWay(n, i) ==
    \E m \in Nodes : \E k \in 1 .. Len(net[m]) : net[m][k] = Chunk(n, i)
(* The timer of a chunk starts when the chunk is cut, so that the first    *)
(* sendings follow the order of the chunks.                                *)
MayBeDue(n) == {i \in list[n] : i \notin sent[n] \/ Early \/ ~UnderWay(n, i)}
Nth(D, j) == CHOOSE i \in D : Cardinality({x \in D : x < i}) = j - 1
InOrder(n, D) == [j \in 1 .. Cardinality(D) |-> Chunk(n, Nth(D, j))]

send(n, D) ==
    /\ pc[n] = "send" /\ sending[n] /\ list[n] # {}
    /\ D \subseteq MayBeDue(n)
    /\ \A i \in D \ sent[n], j \in list[n] \ sent[n] : j < i => j \in D
    /\ sent' = [sent EXCEPT ![n] = @ \cup D]
    /\ Room(Peer(n), InOrder(n, D))
    /\ \E t \in Passing(InOrder(n, D)) : net' = [net EXCEPT ![Peer(n)] = @ \o t]
    /\ Goto(n, "poll")
    /\ UNCHANGED <<sending, list, msg, received, printed>>

(* The user is asked for a message, which may be empty. *)
prompt_RoundsDown(n, k) ==
    /\ pc[n] = "send" /\ sending[n] /\ list[n] = {}
    /\ msg' = [msg EXCEPT ![n] = [id |-> (@.id + 1) % 3, total |-> k]]
    /\ list' = [list EXCEPT ![n] = 0 .. k - 2]
    /\ sent' = [sent EXCEPT ![n] = {}]
    /\ Goto(n, "poll")
    /\ UNCHANGED <<sending, received, printed, net>>
prompt(n, k) ==
    /\ pc[n] = "send" /\ sending[n] /\ list[n] = {}
    /\ msg' = [msg EXCEPT ![n] = [id |-> (@.id + 1) % 3, total |-> k]]
    /\ list' = [list EXCEPT ![n] = 0 .. k - 1]
    /\ sent' = [sent EXCEPT ![n] = {}]
    /\ Goto(n, "poll")
    /\ UNCHANGED <<sending, received, printed, net>>

rest(n) ==
    /\ pc[n] = "send" /\ ~sending[n]
    /\ Goto(n, "poll")
    /\ UNCHANGED <<sending, sender, received, printed, net>>

receive(n) == receive_data(n) \/ receive_ack(n) \/ receive_none(n)

Next ==
    \E n \in Nodes :
        \/ receive(n) \/ rest(n)
        \/ \E D \in SUBSET list[n] : send(n, D)
        \/ \E k \in 0 .. MaxChunks : prompt(n, k)

Spec == Init /\ [][Next]_vars

(* Both programs go on, every timer runs out, and users type something.    *)
Fairness == \A n \in Nodes :
    /\ WF_vars(receive(n) \/ rest(n) \/ \E k \in 1 .. MaxChunks : prompt(n, k) \/ send(n, {}))
    /\ SF_vars(MayBeDue(n) # {} /\ send(n, MayBeDue(n)))
FairSpec == Spec /\ Fairness
-------------------------------------------------------------------------------
TypeOK ==
    /\ sending \in [Nodes -> BOOLEAN]
    /\ \A n \in Nodes :
         /\ list[n] \cup sent[n] \subseteq 0 .. msg[n].total - 1
         /\ received[n] \in Seq(Chunks) /\ net[n] \in Seq(Chunks)
         /\ Len(net[n]) <= Capacity
         /\ \A i \in 1 .. Len(printed[n]) : printed[n][i] \in Chunks \cup {None}
    /\ pc \in [Nodes -> {"poll", "send"}]

(* What is printed is a message that the other side typed, and the whole   *)
(* of it: the intent of server.c:198, "check if all chunks are received".  *)
PrintedWhole ==
    \A n \in Nodes : \A i \in 1 .. Len(printed[n]) :
        LET x == printed[n][i] IN
        /\ x # None
        /\ x.from = Peer(n) /\ x.seq = i - 1 /\ x.total = Len(printed[n])
        /\ x.msg = printed[n][1].msg

(* server.c:170 "All chunks sent and acknowledged." is only printed when   *)
(* the other side has printed the message.                                 *)
Arrived(n) ==
    /\ Len(printed[Peer(n)]) = msg[n].total
    /\ \A i \in 1 .. msg[n].total : printed[Peer(n)][i] = Chunk(n, i - 1)

AcksOnlyArrived == \A n \in Nodes : sending[n] /\ ~sending'[n] => Arrived(n)
AckedArrived == [][AcksOnlyArrived]_vars

(* Every message typed is printed by the other side in the end.            *)
Delivered ==
    \A n \in Nodes : list[n] # {} ~>
        \E i \in 1 .. Len(printed[Peer(n)]) : printed[Peer(n)][i] = Chunk(n, i - 1)
===============================================================================
