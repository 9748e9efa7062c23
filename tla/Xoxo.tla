--------------------------------- MODULE Xoxo ---------------------------------
(***************************************************************************)
(* The tic-tac-toe programs of networks/partA: a server and two clients    *)
(* over TCP (tcp/server.c, tcp/client.c) or UDP (udp/server.c,             *)
(* udp/client.c), which differ where Udp is tested.                        *)
(*                                                                         *)
(* A player is a client process.  The server only stops to receive; the    *)
(* messages it sends between two receives are one step, which the clients  *)
(* cannot tell apart: a client takes any number of the bytes waiting on a  *)
(* TCP connection (here, of whole messages: a send() of a few dozen bytes  *)
(* is not cut), and one datagram over UDP.  Messages that are displayed    *)
(* and nothing else are left out: the boards, the results, "Waiting for    *)
(* Player", "Invalid move".                                                *)
(*                                                                         *)
(* A typed line is a row and a column, None where it holds no number; 0    *)
(* stands for every number below 1, and 4 is the only one above 3.  row    *)
(* and col are numbered from 1 here, from 0 in the server.                 *)
(* Operators with a suffix (_Overwrites...) are faulty variants of the     *)
(* operator that follows; no specification uses them.                      *)
(***************************************************************************)
EXTENDS Integers, Sequences, FiniteSets, SequencesExt

CONSTANTS
    Udp,        \* the programs of udp/, otherwise those of tcp/
    Typed,      \* per player: lines its user types when asked for a move
    Mistypes,   \* whether they type something else than yes or no
    Lossy,      \* whether datagrams are lost or overtake one another
    None

ASSUME XoxoConstants ==
    /\ {Udp, Mistypes, Lossy} \subseteq BOOLEAN /\ Lossy => Udp
    /\ None \notin 0 .. 4

VARIABLES
    board, current_player,
    row, col,      \* game()'s locals, None before the first sscanf stores them
    at,            \* where the server is: hello, move, again1, again2 or done
    addr,          \* client1_sock and client2_sock, or the two addresses
    answer,        \* player1_response and player2_response
    client,        \* per player: recv, again, answered, move, stuck or closed
    toClient,      \* per player: messages on the way to it
    toServer       \* messages on the way to the server: <<sender, content>>

game == <<board, current_player, row, col>>
server == <<game, at, addr, answer>>
net == <<toClient, toServer>>
vars == <<server, client, net>>

Players == {1, 2}
Cells == (1 .. 3) \X (1 .. 3)
Free == " "
Lines == {{<<r, c>> : c \in 1 .. 3} : r \in 1 .. 3}
    \cup {{<<r, c>> : r \in 1 .. 3} : c \in 1 .. 3}
    \cup {{<<r, r>> : r \in 1 .. 3}, {<<r, 4 - r>> : r \in 1 .. 3}}

Line(b, m) == \E l \in Lines : \A c \in l : b[c] = m
decide_win(b) == IF Line(b, "X") THEN 1 ELSE IF Line(b, "O") THEN 2 ELSE 0
decide_draw(b) == \A c \in Cells : b[c] # Free

EmptyBoard == [c \in Cells |-> Free]

(* UDP clients say hello; TCP clients are accepted in the order they come. *)
Init ==
    /\ board = EmptyBoard /\ current_player = 1
    /\ row = None /\ col = None
    /\ at = "hello" /\ addr = <<None, None>> /\ answer = <<FALSE, FALSE>>
    /\ client = [p \in Players |-> "recv"]
    /\ toClient = [p \in Players |-> <<>>]
    /\ toServer = {<<p, <<"hello">>>> : p \in Players}
-------------------------------------------------------------------------------
(* Messages.  The server receives from the socket it names over TCP, and   *)
(* from whoever comes first over UDP, where recvfrom also stores the       *)
(* sender's address.                                                       *)
Send(to, ms) == [p \in Players |-> toClient[p] \o
    (IF to[1] = p THEN ms[1] ELSE <<>>) \o (IF to[2] = p THEN ms[2] ELSE <<>>)]
Both(m) == <<<<m>>, <<m>>>>
Prompt(k) == [j \in 1 .. 2 |-> IF j = k THEN <<"turn">> ELSE <<>>]

Receive(k, m) ==
    /\ m \in toServer /\ (Udp \/ m[1] = addr[k])
    /\ toServer' = toServer \ {m}
    /\ addr' = IF Udp THEN [addr EXCEPT ![k] = m[1]] ELSE addr

(* The beginning of game(): reset_board and the first prompt. *)
Start ==
    /\ board' = EmptyBoard /\ row' = None /\ col' = None
    /\ at' = "move"
    /\ toClient' = Send(addr', Prompt(current_player))
    /\ UNCHANGED current_player

(* main(): the two clients connect. *)
hello(m) ==
    /\ at = "hello" /\ m \in toServer
    /\ toServer' = toServer \ {m}
    /\ IF addr[1] = None
       THEN addr' = <<m[1], None>> /\ UNCHANGED <<game, at, toClient>>
       ELSE addr' = <<addr[1], m[1]>> /\ Start
    /\ UNCHANGED <<answer, client>>

(* sscanf and, over TCP, the decrements: a number the line does not give   *)
(* keeps its value, which may be any before the first time.                *)
Given(m, i) == IF Len(m[2]) < 2 THEN None ELSE m[2][i]
Parsed(typed, old) ==
    IF typed # None THEN {typed}
    ELSE IF old = None THEN 0 .. 4
    ELSE {IF old = 0 \/ Udp THEN old ELSE old - 1}

Accepted_Overwrites(r, c) == <<r, c>> \in Cells
Accepted(r, c) == <<r, c>> \in Cells /\ board[<<r, c>>] = Free

Over(b) == decide_win(b) # 0 \/ decide_draw(b)

Next_player(b) == IF Over(b) THEN current_player ELSE 3 - current_player

(* game(): the answer to "Your turn". *)
move(m) ==
    /\ at = "move" /\ Receive(current_player, m)
    /\ row' \in Parsed(Given(m, 1), row)
    /\ col' \in Parsed(Given(m, 2), col)
    /\ IF Accepted(row', col')
       THEN /\ board' = [board EXCEPT ![<<row', col'>>] =
                            IF current_player = 1 THEN "X" ELSE "O"]
            /\ current_player' = Next_player(board')
            /\ at' = IF Over(board') THEN "again1" ELSE "move"
            /\ toClient' = Send(addr', IF Over(board') THEN Both("again")
                                       ELSE Prompt(current_player'))
       ELSE /\ toClient' = Send(addr', Prompt(current_player))
            /\ UNCHANGED <<board, current_player, at>>
    /\ UNCHANGED <<answer, client>>

(* main(): the answers to "Do you want to play again?". *)
again1(m) ==
    /\ at = "again1" /\ Receive(1, m)
    /\ answer' = <<m[2] = <<"yes">>, FALSE>>
    /\ at' = "again2"
    /\ UNCHANGED <<game, client, toClient>>

again2(m) ==
    /\ at = "again2" /\ Receive(2, m)
    /\ answer' = [answer EXCEPT ![2] = m[2] = <<"yes">>]
    /\ IF answer'[1] /\ answer'[2] THEN Start
       ELSE /\ at' = "done"
            /\ toClient' = Send(addr', Both("over"))
            /\ UNCHANGED game
    /\ UNCHANGED client
-------------------------------------------------------------------------------
(* The clients.  recv takes a prefix of what has arrived over TCP, and one *)
(* datagram over UDP.                                                      *)
Buffers(p) ==
    IF Udp THEN {i .. i : i \in {j \in 1 .. Len(toClient[p]) : Lossy \/ j = 1}}
    ELSE {1 .. i : i \in 1 .. Len(toClient[p])}

Remaining(p, I) ==
    toClient' = [toClient EXCEPT ![p] = SubSeq(@, 1, Min(I) - 1) \o SubSeq(@, Max(I) + 1, Len(@))]

(* After an answer the same buffer is searched for "Game over", then for   *)
(* "Your turn".                                                            *)
Asked(p, buf) ==
    IF client[p] = "recv" /\ "again" \in buf THEN "again"
    ELSE IF client[p] = "answered" /\ "over" \in buf THEN "closed"
    ELSE IF "turn" \in buf THEN "move"
    ELSE "recv"

client_recv(p) ==
    /\ client[p] \in {"recv", "answered"}
    /\ \E I \in Buffers(p) :
         /\ client' = [client EXCEPT ![p] = Asked(p, {toClient[p][i] : i \in I})]
         /\ Remaining(p, I)
    /\ UNCHANGED <<server, toServer>>

(* A board or a result that "Do you want to play again?" has overtaken is  *)
(* taken for the reply to the answer.                                      *)
client_display(p) ==
    /\ Lossy /\ client[p] = "answered"
    /\ client' = [client EXCEPT ![p] = "recv"]
    /\ UNCHANGED <<server, net>>

(* The user types a line; the UDP client asks until both numbers are in    *)
(* range, and the TCP client sends the line as it is.                      *)
type_move(p, line) ==
    /\ client[p] = "move" /\ (Udp => line \in Cells)
    /\ client' = [client EXCEPT ![p] = "recv"]
    /\ toServer' = toServer \cup {<<p, line>>}
    /\ UNCHANGED <<server, toClient>>

type_answer(p, a) ==
    /\ client[p] = "again"
    /\ client' = [client EXCEPT ![p] = "answered"]
    /\ toServer' = toServer \cup {<<p, <<a>>>>}
    /\ UNCHANGED <<server, toClient>>

(* Anything else than yes or no: the TCP client asks again; the UDP client *)
(* does so for ever, because it cuts the newline that it then looks for.   *)
mistype(p) ==
    /\ Udp /\ Mistypes /\ client[p] = "again"
    /\ client' = [client EXCEPT ![p] = "stuck"]
    /\ UNCHANGED <<server, net>>
-------------------------------------------------------------------------------
lose ==
    /\ Lossy
    /\ \/ \E m \in toServer : toServer' = toServer \ {m} /\ UNCHANGED toClient
       \/ /\ \E p \in Players : \E i \in 1 .. Len(toClient[p]) :
                toClient' = [toClient EXCEPT ![p] = RemoveAt(@, i)]
          /\ UNCHANGED toServer
    /\ UNCHANGED <<server, client>>

Next ==
    \/ \E m \in toServer : hello(m) \/ move(m) \/ again1(m) \/ again2(m)
    \/ \E p \in Players : client_recv(p) \/ client_display(p) \/ mistype(p)
    \/ \E p \in Players : \E l \in Typed[p] : type_move(p, l)
    \/ \E p \in Players, a \in {"yes", "no"} : type_answer(p, a)
    \/ lose

Spec == Init /\ [][Next]_vars
-------------------------------------------------------------------------------
(* Whatever is typed and whatever is lost, the server plays a game of      *)
(* tic-tac-toe by the rules.                                               *)
Game == INSTANCE TicTacToe WITH turn <- current_player
LegalGame == Game!GameSpec

(* Server and clients never wait for one another: while the server waits   *)
(* for a player, that player (over UDP: some player) is asked something,   *)
(* or a message that asks him, or his own message, is on its way.          *)
Coming(p) ==
    \/ client[p] \in {"move", "again"}
    \/ \E m \in toServer : m[1] = p
    \/ /\ client[p] \in {"recv", "answered"}
       /\ \E i \in 1 .. Len(toClient[p]) : toClient[p][i] \in {"turn", "again"}

Awaited == IF at = "move" THEN current_player ELSE IF at = "again1" THEN 1 ELSE 2

NobodyStuck ==
    at \in {"hello", "done"} \/ IF Udp THEN \E p \in Players : Coming(p) ELSE Coming(addr[Awaited])
===============================================================================
