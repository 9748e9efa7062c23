------------------------------ MODULE XoxoProofs -------------------------------
(***************************************************************************)
(* The servers of tic-tac-toe play legal games, whatever users type and    *)
(* whatever the network does with their datagrams; where it delivers them, *)
(* server and clients never wait for one another.  A chat in chunks over a *)
(* network that keeps every datagram, each answered before its timer,      *)
(* gives each end the other's messages whole.                              *)
(***************************************************************************)
EXTENDS Xoxo, FiniteSetTheorems, SequenceTheorems, WellFoundedInduction, TLAPS

Boards == [Cells -> {"X", "O", Free}]

(* Before the first game and in a game it is somebody's turn and the board *)
(* is not decided; when the players are asked for another game, it is.     *)
GameInv ==
    /\ board \in Boards /\ current_player \in Players
    /\ at \in {"hello", "move", "again1", "again2", "done"}
    /\ at = "hello" => board = EmptyBoard
    /\ at = "move" => ~Over(board)
    /\ at \in {"again1", "again2"} => Over(board)

LEMMA EmptyIsOpen == EmptyBoard \in Boards /\ ~Over(EmptyBoard)
<1>1. EmptyBoard \in Boards BY DEF EmptyBoard, Boards
<1>2. <<1, 1>> \in Cells BY DEF Cells
<1>3. ~decide_draw(EmptyBoard)
  BY <1>2 DEF decide_draw, EmptyBoard
<1>4. ASSUME NEW m \in {"X", "O"}, NEW l \in Lines
      PROVE  \E c \in l : EmptyBoard[c] # m
  <2>1. \E c \in l : c \in Cells
    <3>1. ASSUME NEW r \in 1 .. 3, l = {<<r, c>> : c \in 1 .. 3}
          PROVE  <<r, 1>> \in l /\ <<r, 1>> \in Cells
      BY <3>1 DEF Cells
    <3>2. ASSUME NEW c \in 1 .. 3, l = {<<r, c>> : r \in 1 .. 3}
          PROVE  <<1, c>> \in l /\ <<1, c>> \in Cells
      BY <3>2 DEF Cells
    <3>3. CASE l = {<<r, r>> : r \in 1 .. 3}
      <4>1. <<2, 2>> \in l BY <3>3
      <4>. QED BY <4>1 DEF Cells
    <3>4. CASE l = {<<r, 4 - r>> : r \in 1 .. 3}
      <4>1. <<2, 2>> \in l BY <3>4
      <4>. QED BY <4>1 DEF Cells
    <3>. QED BY <3>1, <3>2, <3>3, <3>4 DEF Lines
  <2>. QED BY <2>1 DEF EmptyBoard, Free
<1>5. decide_win(EmptyBoard) = 0 BY <1>4 DEF decide_win, Line
<1>. QED BY <1>1, <1>3, <1>5 DEF Over

(* decide_win and decide_draw together are TicTacToe's end of a game.      *)
LEMMA SameEnd ==
    ASSUME NEW b
    PROVE  Game!Over(b) <=> Over(b)
BY DEF Game!Over, Game!Has, Over, decide_win,
       decide_draw, Line

LEMMA InitGame == Init => GameInv /\ Game!GameInit
BY EmptyIsOpen DEF Init, GameInv, Players, Game!GameInit,
         Game!Empty, EmptyBoard

(* A step of the server is a move, a new game or none of the game's; the   *)
(* clients and the network do not reach the board.                         *)
LEMMA StepGame ==
    GameInv /\ [Next]_vars =>
        GameInv' /\ [Game!GameNext]_<<board, current_player>>
<1>. SUFFICES ASSUME GameInv, [Next]_vars
              PROVE  GameInv' /\ [Game!GameNext]_<<board, current_player>>
  OBVIOUS
<1>1. ASSUME NEW m, hello(m) PROVE GameInv' /\ UNCHANGED <<board, current_player>>
  <2>1. CASE addr[1] = None BY <1>1, <2>1 DEF GameInv, hello, game
  <2>2. CASE addr[1] # None
    BY <1>1, <2>2, EmptyIsOpen DEF GameInv, hello, Start
  <2>. QED BY <2>1, <2>2
<1>2. ASSUME NEW m, move(m)
      PROVE  GameInv' /\ [Game!GameNext]_<<board, current_player>>
  <2>1. CASE Accepted(row', col')
    <3>. DEFINE c == <<row', col'>>
                b == [board EXCEPT ![c] = IF current_player = 1 THEN "X" ELSE "O"]
    <3>1. c \in Cells /\ board[c] = Free BY <2>1 DEF Accepted
    <3>2. /\ board' = b /\ current_player' = Next_player(b)
          /\ at' = IF Over(b) THEN "again1" ELSE "move"
          /\ at = "move"
      BY <1>2, <2>1 DEF move
    <3>3. b \in Boards BY <3>1 DEF GameInv, Boards
    <3>4. current_player' \in Players
      BY <3>2 DEF Next_player, GameInv, Players
    <3>5. GameInv' BY <3>2, <3>3, <3>4 DEF GameInv
    <3>6. Game!Move(c)
      BY <3>1, <3>2, SameEnd DEF Game!Move, Game!Mark, GameInv,
               Next_player
    <3>. QED BY <3>1, <3>5, <3>6 DEF Game!GameNext
  <2>2. CASE ~Accepted(row', col') BY <1>2, <2>2 DEF GameInv, move
  <2>. QED BY <2>1, <2>2
<1>3. ASSUME NEW m, again1(m) PROVE GameInv' /\ UNCHANGED <<board, current_player>>
  BY <1>3 DEF GameInv, again1, game
<1>4. ASSUME NEW m, again2(m)
      PROVE  GameInv' /\ [Game!GameNext]_<<board, current_player>>
  <2>1. CASE Start
    <3>1. GameInv' BY <2>1, EmptyIsOpen DEF GameInv, Start
    <3>2. Game!Restart
      BY <1>4, <2>1, SameEnd DEF Game!Restart, Game!Empty,
               EmptyBoard, GameInv, Start, again2
    <3>. QED BY <3>1, <3>2 DEF Game!GameNext
  <2>2. CASE ~Start BY <1>4, <2>2 DEF GameInv, again2, game
  <2>. QED BY <2>1, <2>2
<1>5. CASE UNCHANGED server BY <1>5 DEF GameInv, server, game
<1>. QED
  BY <1>1, <1>2, <1>3, <1>4, <1>5
  DEF Next, vars, client_recv, client_display, mistype,
      type_move, type_answer, lose

(* game() and main() of networks/partA's two servers play by the rules:    *)
(* the players move in turn, each to a free cell, until one has a line or  *)
(* the board is full, and only then does another game begin.               *)
THEOREM PlaysByTheRules == Spec => LegalGame
<1>. QED BY InitGame, StepGame, PTL DEF Spec, LegalGame, Game!GameSpec

-------------------------------------------------------------------------------
(* Nobody is stuck, where the network delivers: whose turn it is has been  *)
(* told so, and so has who is asked for another game.                      *)
Silent(p) == \A m \in toServer : m[1] # p
Spoken(p) == \E m \in toServer : m[1] = p /\ \A x \in toServer : x[1] = p => x = m
Idle(p) == toClient[p] = <<>> /\ Silent(p)

Greets(p) == client[p] = "recv" /\ toClient[p] = <<>> /\ Spoken(p)
Waits(p) == client[p] \in {"recv", "answered"} /\ Idle(p)

(* The question on its way, before the user, and the reply on its way.     *)
ToMove(p) ==
    \/ client[p] \in {"recv", "answered"} /\ toClient[p] = <<"turn">> /\ Silent(p)
    \/ client[p] = "move" /\ Idle(p)
    \/ client[p] = "recv" /\ toClient[p] = <<>> /\ Spoken(p)
ToAnswer(p) ==
    \/ client[p] = "recv" /\ toClient[p] = <<"again">> /\ Silent(p)
    \/ client[p] = "again" /\ Idle(p)
    \/ client[p] = "answered" /\ toClient[p] = <<>> /\ Spoken(p)

Other(p) == 3 - p
Seated == addr = <<1, 2>> \/ addr = <<2, 1>>

(* A client that has answered takes a second question for the reply; so    *)
(* none comes before it has been asked to move.                            *)
Greeting ==
    \/ addr = <<None, None>> /\ \A p \in Players : Greets(p)
    \/ \E p \in Players : addr = <<p, None>> /\ Waits(p) /\ client[p] = "recv" /\ Greets(Other(p))
Playing ==
    /\ Seated
    /\ LET p == addr[current_player] IN
       /\ ToMove(p) /\ Waits(Other(p))
       /\ client[Other(p)] = "answered" => board = EmptyBoard
Asking == Seated /\ \A p \in Players : ToAnswer(p)
AskingSecond ==
    \E p \in Players :
        /\ addr[1] = Other(p) /\ (Udp \/ addr[2] = p) /\ addr = <<addr[1], addr[2]>>
        /\ ToAnswer(p) /\ Waits(Other(p)) /\ client[Other(p)] = "answered"

Addressed ==
    /\ DOMAIN client = Players /\ DOMAIN toClient = Players
    /\ \A m \in toServer : m[1] \in Players
StuckInv ==
    /\ Addressed
    /\ at = "hello" => Greeting
    /\ at = "move" => Playing
    /\ at = "again1" => Asking
    /\ at = "again2" => AskingSecond

LEMMA Others ==
    /\ \A p \in Players : Other(p) \in Players /\ Other(p) # p /\ Other(Other(p)) = p
    /\ \A p, q \in Players : q = p \/ q = Other(p)
    /\ Players = 1 .. 2
BY DEF Players, Other

(* What a client takes of one message, and of none.                        *)
LEMMA TakesOne ==
    ASSUME ~Lossy, Addressed, NEW p \in Players, NEW x, toClient[p] = <<x>>, client_recv(p)
    PROVE  /\ client[p] \in {"recv", "answered"}
           /\ client' = [client EXCEPT ![p] = Asked(p, {x})]
           /\ toClient' = [toClient EXCEPT ![p] = <<>>]
           /\ UNCHANGED <<server, toServer>>
<1>1. Len(toClient[p]) = 1 /\ toClient[p][1] = x OBVIOUS
<1>2. PICK I \in Buffers(p) :
        /\ client' = [client EXCEPT ![p] = Asked(p, {toClient[p][i] : i \in I})]
        /\ Remaining(p, I)
  BY DEF client_recv
<1>3. I = {1}
  <2>1. CASE Udp
    <3>1. PICK i \in 1 .. 1 : I = i .. i BY <1>1, <2>1 DEF Buffers
    <3>. QED BY <3>1
  <2>2. CASE ~Udp
    <3>1. PICK i \in 1 .. 1 : I = 1 .. i BY <1>1, <2>2 DEF Buffers
    <3>. QED BY <3>1
  <2>. QED BY <2>1, <2>2
<1>4. {toClient[p][i] : i \in I} = {x} BY <1>1, <1>3
<1>5. Min(I) = 1 /\ Max(I) = 1 BY <1>3 DEF Min, Max
<1>6. SubSeq(toClient[p], 1, Min(I) - 1) = <<>> /\ SubSeq(toClient[p], Max(I) + 1, 1) = <<>>
  <2>1. SubSeq(toClient[p], 1, 0) = <<>> BY SubSeqEmpty
  <2>2. SubSeq(toClient[p], 2, 1) = <<>> BY SubSeqEmpty
  <2>. QED BY <2>1, <2>2, <1>5
<1>7. <<>> \o <<>> = <<>>
  <2>1. <<>> \in Seq(Players) BY EmptySeq
  <2>. QED BY <2>1, ConcatEmptySeq
<1>8. toClient' = [toClient EXCEPT ![p] = <<>>]
  BY <1>1, <1>2, <1>6, <1>7 DEF Remaining
<1>. QED BY <1>2, <1>4, <1>8 DEF client_recv

LEMMA TakesNone ==
    ASSUME NEW p \in Players, toClient[p] = <<>>
    PROVE  ~client_recv(p)
<1>1. Len(toClient[p]) = 0 BY EmptySeq
<1>2. \A i \in 1 .. 0 : FALSE OBVIOUS
<1>3. Buffers(p) = {} BY <1>1, <1>2 DEF Buffers
<1>. QED BY <1>3 DEF client_recv

(* A step of a client keeps where the dialogue is.                         *)
Keeps(p) ==
    /\ ToMove(p) => ToMove(p)'
    /\ ToAnswer(p) => ToAnswer(p)'
    /\ Greets(p) => Greets(p)'
    /\ Waits(p) => Waits(p)' /\ client'[p] = client[p]

LEMMA Unmoved ==
    ASSUME Addressed, NEW p \in Players, client'[p] = client[p], toClient'[p] = toClient[p],
           Silent(p)' <=> Silent(p), Spoken(p)' <=> Spoken(p)
    PROVE  Keeps(p)
BY DEF Keeps, ToMove, ToAnswer, Greets, Waits, Idle

LEMMA ClientRecv ==
    ASSUME ~Lossy, Addressed, NEW r \in Players, client_recv(r), NEW p \in Players
    PROVE  Keeps(p)
<1>1. UNCHANGED toServer /\ (Silent(p)' <=> Silent(p)) /\ (Spoken(p)' <=> Spoken(p))
  BY DEF client_recv, Silent, Spoken
<1>2. CASE p # r
  <2>1. client'[p] = client[p] /\ toClient'[p] = toClient[p]
    BY <1>2 DEF client_recv, Remaining, Addressed
  <2>. QED BY <2>1, <1>1, Unmoved
<1>3. CASE p = r
  <2>1. toClient[p] # <<>> BY <1>3, TakesNone
  <2>2. ~Greets(p) /\ ~Waits(p) BY <2>1 DEF Greets, Waits, Idle
  <2>3. ASSUME ToMove(p) PROVE ToMove(p)'
    <3>1. /\ client[p] \in {"recv", "answered"} /\ toClient[p] = <<"turn">> /\ Silent(p)
      BY <2>1, <2>3 DEF ToMove, Idle
    <3>2. client' = [client EXCEPT ![p] = Asked(p, {"turn"})]
          /\ toClient' = [toClient EXCEPT ![p] = <<>>]
      BY <3>1, <1>3, TakesOne
    <3>3. Asked(p, {"turn"}) = "move" BY <3>1 DEF Asked
    <3>4. client'[p] = "move" /\ toClient'[p] = <<>> BY <3>2, <3>3 DEF Addressed
    <3>. QED BY <3>1, <3>4, <1>1 DEF ToMove, Idle
  <2>4. ASSUME ToAnswer(p) PROVE ToAnswer(p)'
    <3>1. client[p] = "recv" /\ toClient[p] = <<"again">> /\ Silent(p)
      BY <2>1, <2>4 DEF ToAnswer, Idle
    <3>2. client' = [client EXCEPT ![p] = Asked(p, {"again"})]
          /\ toClient' = [toClient EXCEPT ![p] = <<>>]
      BY <3>1, <1>3, TakesOne
    <3>3. Asked(p, {"again"}) = "again" BY <3>1 DEF Asked
    <3>4. client'[p] = "again" /\ toClient'[p] = <<>> BY <3>2, <3>3 DEF Addressed
    <3>. QED BY <3>1, <3>4, <1>1 DEF ToAnswer, Idle
  <2>. QED BY <2>2, <2>3, <2>4 DEF Keeps
<1>. QED BY <1>2, <1>3

(* A reply of client r.                                                    *)
LEMMA Replies ==
    ASSUME Addressed, NEW r \in Players, NEW c, toServer' = toServer \cup {<<r, c>>},
           NEW p \in Players
    PROVE  /\ p # r => (Silent(p)' <=> Silent(p)) /\ (Spoken(p)' <=> Spoken(p))
           /\ Silent(r) => Spoken(r)'
<1>. DEFINE m == <<r, c>>
<1>1. m[1] = r OBVIOUS
<1>. HIDE DEF m
<1>2. toServer' = toServer \cup {m} BY DEF m
<1>3. p # r => (Silent(p)' <=> Silent(p)) BY <1>1, <1>2 DEF Silent
<1>4. p # r => (Spoken(p)' <=> Spoken(p)) BY <1>1, <1>2 DEF Spoken
<1>5. Silent(r) => Spoken(r)' BY <1>1, <1>2 DEF Silent, Spoken
<1>. QED BY <1>3, <1>4, <1>5

LEMMA TypeMove ==
    ASSUME Addressed, NEW r \in Players, NEW l, type_move(r, l), NEW p \in Players
    PROVE  Keeps(p)
<1>1. /\ client[r] = "move" /\ client' = [client EXCEPT ![r] = "recv"]
      /\ toServer' = toServer \cup {<<r, l>>} /\ toClient' = toClient
  BY DEF type_move
<1>2. CASE p # r
  <2>1. client'[p] = client[p] BY <1>1, <1>2 DEF Addressed
  <2>2. (Silent(p)' <=> Silent(p)) /\ (Spoken(p)' <=> Spoken(p)) BY <1>1, <1>2, Replies
  <2>. QED BY <2>1, <2>2, <1>1, Unmoved
<1>3. CASE p = r
  <2>1. client'[p] = "recv" BY <1>1, <1>3 DEF Addressed
  <2>2. Silent(p) => Spoken(p)' BY <1>1, <1>3, Replies
  <2>. QED BY <2>1, <2>2, <1>1, <1>3 DEF Keeps, ToMove, ToAnswer, Greets, Waits, Idle
<1>. QED BY <1>2, <1>3

LEMMA TypeAnswer ==
    ASSUME Addressed, NEW r \in Players, NEW a, type_answer(r, a), NEW p \in Players
    PROVE  Keeps(p)
<1>1. /\ client[r] = "again" /\ client' = [client EXCEPT ![r] = "answered"]
      /\ toServer' = toServer \cup {<<r, <<a>>>>} /\ toClient' = toClient
  BY DEF type_answer
<1>2. CASE p # r
  <2>1. client'[p] = client[p] BY <1>1, <1>2 DEF Addressed
  <2>2. (Silent(p)' <=> Silent(p)) /\ (Spoken(p)' <=> Spoken(p)) BY <1>1, <1>2, Replies
  <2>. QED BY <2>1, <2>2, <1>1, Unmoved
<1>3. CASE p = r
  <2>1. client'[p] = "answered" BY <1>1, <1>3 DEF Addressed
  <2>2. Silent(p) => Spoken(p)' BY <1>1, <1>3, Replies
  <2>. QED BY <2>1, <2>2, <1>1, <1>3 DEF Keeps, ToMove, ToAnswer, Greets, Waits, Idle
<1>. QED BY <1>2, <1>3

LEMMA ClientsKeep ==
    ASSUME StuckInv, GameInv, Addressed', UNCHANGED server, \A p \in Players : Keeps(p)
    PROVE  StuckInv'
<1>1. UNCHANGED <<board, current_player, at, addr>> BY DEF server, game
<1>2. ASSUME at = "hello" PROVE Greeting'
  BY <1>1, <1>2, Others DEF StuckInv, Greeting, Keeps
<1>3. ASSUME at = "move" PROVE Playing'
  <2>1. Playing BY <1>3 DEF StuckInv
  <2>2. PICK p \in Players : p = addr[current_player]
    BY <2>1 DEF Playing, Seated, GameInv, Players
  <2>3. /\ ToMove(p) /\ Waits(Other(p))
        /\ client[Other(p)] = "answered" => board = EmptyBoard
    BY <2>1, <2>2 DEF Playing
  <2>4. /\ ToMove(p)' /\ Waits(Other(p))' /\ client'[Other(p)] = client[Other(p)]
    BY <2>3, Others DEF Keeps
  <2>5. p = addr'[current_player'] BY <2>2, <1>1
  <2>6. Seated' BY <2>1, <1>1 DEF Playing, Seated
  <2>. QED BY <2>3, <2>4, <2>5, <2>6, <1>1 DEF Playing
<1>4. ASSUME at = "again1" PROVE Asking'
  BY <1>1, <1>4 DEF StuckInv, Asking, Keeps, Seated
<1>5. ASSUME at = "again2" PROVE AskingSecond'
  <2>1. PICK p \in Players :
          /\ addr[1] = Other(p) /\ (Udp \/ addr[2] = p) /\ addr = <<addr[1], addr[2]>>
          /\ ToAnswer(p) /\ Waits(Other(p)) /\ client[Other(p)] = "answered"
    BY <1>5 DEF StuckInv, AskingSecond
  <2>2. ToAnswer(p)' /\ Waits(Other(p))' /\ client'[Other(p)] = "answered"
    BY <2>1, Others DEF Keeps
  <2>. QED BY <2>1, <2>2, <1>1 DEF AskingSecond
<1>. QED BY <1>1, <1>2, <1>3, <1>4, <1>5 DEF StuckInv

(* What the server sends while nothing is under way to anybody.            *)
LEMMA Sent ==
    ASSUME NEW p \in Players, NEW S, NEW ms, ms[1] \in Seq(S), ms[2] \in Seq(S),
           NEW to, to = <<p, Other(p)>>,
           toClient[p] = <<>>, toClient[Other(p)] = <<>>,
           toClient' = Send(to, ms)
    PROVE  /\ DOMAIN toClient' = Players
           /\ toClient'[p] = ms[1] /\ toClient'[Other(p)] = ms[2]
<1>1. /\ Other(p) \in Players /\ Other(p) # p /\ to[1] = p /\ to[2] = Other(p) BY Others
<1>2. <<>> \in Seq(S) BY EmptySeq
<1>3. /\ <<>> \o ms[1] = ms[1] /\ ms[1] \o <<>> = ms[1]
      /\ <<>> \o ms[2] = ms[2] /\ <<>> \o <<>> = <<>>
  BY <1>2, ConcatEmptySeq
<1>4. toClient'[p] = (<<>> \o ms[1]) \o <<>> BY <1>1 DEF Send
<1>5. toClient'[Other(p)] = (<<>> \o <<>>) \o ms[2] BY <1>1 DEF Send
<1>6. DOMAIN toClient' = Players BY DEF Send
<1>. QED BY <1>3, <1>4, <1>5, <1>6

LEMMA SentOne ==
    ASSUME Seated', NEW k \in Players,
           \A p \in Players : toClient[p] = <<>>,
           toClient' = Send(addr', Prompt(k))
    PROVE  /\ DOMAIN toClient' = Players
           /\ toClient'[addr'[k]] = <<"turn">> /\ toClient'[Other(addr'[k])] = <<>>
<1>. DEFINE ms == Prompt(k)
<1>1. ms[1] = (IF k = 1 THEN <<"turn">> ELSE <<>>) /\ ms[2] = (IF k = 2 THEN <<"turn">> ELSE <<>>)
  BY DEF Prompt, Players
<1>2. <<"turn">> \in Seq({"turn"}) /\ <<>> \in Seq({"turn"}) BY EmptySeq
<1>3. ms[1] \in Seq({"turn"}) /\ ms[2] \in Seq({"turn"}) BY <1>1, <1>2
<1>. HIDE DEF ms
<1>4. toClient' = Send(addr', ms) BY DEF ms
<1>5. PICK p \in Players : addr' = <<p, Other(p)>> BY DEF Seated, Players, Other
<1>6. /\ DOMAIN toClient' = Players
      /\ toClient'[p] = ms[1] /\ toClient'[Other(p)] = ms[2]
  <2>1. toClient[p] = <<>> /\ toClient[Other(p)] = <<>> BY Others
  <2>. QED BY <2>1, <1>3, <1>4, <1>5, Sent
<1>7. CASE k = 1 BY <1>1, <1>5, <1>6, <1>7
<1>8. CASE k = 2
  <2>1. addr'[k] = Other(p) /\ Other(Other(p)) = p BY <1>5, <1>8, Others
  <2>. QED BY <2>1, <1>1, <1>6, <1>8
<1>. QED BY <1>7, <1>8 DEF Players

LEMMA SentBoth ==
    ASSUME Seated', \A p \in Players : toClient[p] = <<>>,
           NEW x, toClient' = Send(addr', Both(x))
    PROVE  DOMAIN toClient' = Players /\ \A p \in Players : toClient'[p] = <<x>>
<1>. DEFINE ms == Both(x)
<1>1. ms[1] = <<x>> /\ ms[2] = <<x>> BY DEF Both
<1>2. <<x>> \in Seq({x}) OBVIOUS
<1>. HIDE DEF ms
<1>3. toClient' = Send(addr', ms) BY DEF ms
<1>4. PICK p \in Players : addr' = <<p, Other(p)>> BY DEF Seated, Players, Other
<1>5. /\ DOMAIN toClient' = Players
      /\ toClient'[p] = ms[1] /\ toClient'[Other(p)] = ms[2]
  <2>1. toClient[p] = <<>> /\ toClient[Other(p)] = <<>> BY Others
  <2>. QED BY ZenonT(40), <2>1, <1>1, <1>2, <1>3, <1>4, Sent
<1>. QED BY <1>1, <1>5, Others

(* The server takes the only message of player p.                          *)
LEMMA Taken ==
    ASSUME Addressed, NEW p \in Players, NEW m \in toServer, m[1] = p,
           toServer' = toServer \ {m}, NEW q \in Players
    PROVE  /\ Spoken(p) => Silent(p)'
           /\ q # p => (Silent(q)' <=> Silent(q)) /\ (Spoken(q)' <=> Spoken(q))
           /\ \A x \in toServer' : x[1] \in Players
<1>1. Spoken(p) => Silent(p)' BY DEF Spoken, Silent
<1>2. q # p => (Silent(q)' <=> Silent(q)) BY DEF Silent
<1>3. q # p => (Spoken(q)' <=> Spoken(q)) BY DEF Spoken
<1>. QED BY <1>1, <1>2, <1>3 DEF Addressed

LEMMA OneMarkIsOpen ==
    ASSUME NEW d \in Cells, NEW k \in {"X", "O"}
    PROVE  ~Over([EmptyBoard EXCEPT ![d] = k])
<1>. DEFINE b == [EmptyBoard EXCEPT ![d] = k]
<1>1. \A c \in Cells : c # d => b[c] = Free BY DEF EmptyBoard
<1>2. ASSUME NEW l \in Lines PROVE \E c \in l : c \in Cells /\ c # d
  <2>0. d[1] \in 1 .. 3 /\ d[2] \in 1 .. 3 BY DEF Cells
  <2>1. ASSUME NEW r \in 1 .. 3, l = {<<r, c>> : c \in 1 .. 3}
        PROVE  \E c \in l : c \in Cells /\ c # d
    <3>1. <<r, 1>> \in l /\ <<r, 2>> \in l /\ <<r, 1>> \in Cells /\ <<r, 2>> \in Cells
      BY <2>1 DEF Cells
    <3>2. <<r, 1>> # <<r, 2>> OBVIOUS
    <3>. QED BY <3>1, <3>2
  <2>2. ASSUME NEW c \in 1 .. 3, l = {<<r, c>> : r \in 1 .. 3}
        PROVE  \E x \in l : x \in Cells /\ x # d
    <3>1. <<1, c>> \in l /\ <<2, c>> \in l /\ <<1, c>> \in Cells /\ <<2, c>> \in Cells
      BY <2>2 DEF Cells
    <3>2. <<1, c>> # <<2, c>> OBVIOUS
    <3>. QED BY <3>1, <3>2
  <2>3. CASE l = {<<r, r>> : r \in 1 .. 3}
    <3>1. <<1, 1>> \in l /\ <<2, 2>> \in l /\ <<1, 1>> \in Cells /\ <<2, 2>> \in Cells
      BY <2>3 DEF Cells
    <3>. QED BY <3>1
  <2>4. CASE l = {<<r, 4 - r>> : r \in 1 .. 3}
    <3>1. <<2, 2>> \in l /\ <<1, 3>> \in l BY <2>4
    <3>2. <<2, 2>> \in Cells /\ <<1, 3>> \in Cells BY DEF Cells
    <3>. QED BY <3>1, <3>2
  <2>. QED BY <2>1, <2>2, <2>3, <2>4 DEF Lines
<1>. HIDE DEF b
<1>3. Free \notin {"X", "O"} BY DEF Free
<1>4. decide_win(b) = 0
  <2>1. ASSUME NEW l \in Lines, NEW mk \in {"X", "O"} PROVE \E c \in l : b[c] # mk
    <3>1. PICK c \in l : c \in Cells /\ c # d BY <1>2
    <3>2. b[c] = Free BY <3>1, <1>1
    <3>. QED BY <3>2, <1>3
  <2>. QED BY <2>1 DEF decide_win, Line
<1>5. ~decide_draw(b)
  <2>1. <<1, 1>> \in Cells /\ <<2, 2>> \in Cells BY DEF Cells
  <2>2. <<1, 1>> # d \/ <<2, 2>> # d OBVIOUS
  <2>3. b[<<1, 1>>] = Free \/ b[<<2, 2>>] = Free BY <2>1, <2>2, <1>1
  <2>. QED BY <2>1, <2>3 DEF decide_draw
<1>. QED BY <1>4, <1>5 DEF Over, b

(* Both clients wait, and the server begins a game with them.              *)
LEMMA Begins ==
    ASSUME Addressed, Seated', Start, UNCHANGED client, current_player \in Players,
           \A p \in Players : client[p] \in {"recv", "answered"} /\ toClient[p] = <<>>,
           \A p \in Players : Silent(p)'
    PROVE  at' = "move" /\ Playing' /\ DOMAIN toClient' = Players
<1>1. /\ at' = "move" /\ board' = EmptyBoard /\ current_player' = current_player
      /\ toClient' = Send(addr', Prompt(current_player))
  BY DEF Start
<1>2. /\ DOMAIN toClient' = Players
      /\ toClient'[addr'[current_player]] = <<"turn">>
      /\ toClient'[Other(addr'[current_player])] = <<>>
  BY <1>1, SentOne
<1>3. PICK q \in Players : q = addr'[current_player]
  BY DEF Seated, Players
<1>4. ToMove(q)' BY <1>2, <1>3 DEF ToMove
<1>5. Waits(Other(q))' BY <1>2, <1>3, Others DEF Waits, Idle
<1>. QED BY <1>1, <1>2, <1>3, <1>4, <1>5 DEF Playing

LEMMA StuckHello ==
    ASSUME XoxoConstants, StuckInv, GameInv, NEW m \in toServer, hello(m)
    PROVE  StuckInv'
<1>1. /\ at = "hello" /\ Greeting /\ Addressed /\ UNCHANGED client
      /\ toServer' = toServer \ {m}
  BY DEF hello, StuckInv
<1>2. PICK p \in Players : p = m[1] BY <1>1 DEF Addressed
<1>3. /\ Spoken(p) => Silent(p)'
      /\ \A q \in Players \ {p} : (Silent(q)' <=> Silent(q)) /\ (Spoken(q)' <=> Spoken(q))
      /\ \A x \in toServer' : x[1] \in Players
  BY <1>1, <1>2, Taken
<1>4. None \notin Players BY DEF XoxoConstants, Players
<1>5. CASE addr[1] = None
  <2>1. /\ addr' = <<p, None>> /\ UNCHANGED <<at, toClient>>
    BY <1>2, <1>5 DEF hello
  <2>2. \A q \in Players : Greets(q) BY <1>1, <1>4, <1>5 DEF Greeting
  <2>3. Waits(p)' /\ client'[p] = "recv"
    BY <2>1, <2>2, <1>1, <1>3 DEF Greets, Waits, Idle
  <2>4. Greets(Other(p))' BY <2>1, <2>2, <1>1, <1>3, Others DEF Greets
  <2>5. Greeting' BY <2>1, <2>3, <2>4 DEF Greeting
  <2>6. Addressed' BY <2>1, <1>1, <1>3 DEF Addressed
  <2>. QED BY <2>1, <2>5, <2>6, <1>1 DEF StuckInv
<1>6. CASE addr[1] # None
  <2>1. PICK q \in Players :
          /\ addr = <<q, None>> /\ Waits(q) /\ client[q] = "recv" /\ Greets(Other(q))
    BY <1>1, <1>6 DEF Greeting
  <2>2. p = Other(q) BY <2>1, <1>2, Others DEF Waits, Idle, Silent
  <2>3. addr' = <<q, p>> /\ Start BY <2>1, <1>2, <1>6 DEF hello
  <2>4. Seated' BY <2>2, <2>3 DEF Seated, Players, Other
  <2>5. Silent(p)' /\ Silent(q)'
    BY <2>1, <2>2, <1>3, Others DEF Greets, Waits, Idle
  <2>6. \A r \in Players : Silent(r)' BY <2>2, <2>5, Others
  <2>7. \A r \in Players : client[r] \in {"recv", "answered"} /\ toClient[r] = <<>>
    BY <2>1, Others DEF Greets, Waits, Idle
  <2>8. at' = "move" /\ Playing' /\ DOMAIN toClient' = Players
    BY <2>3, <2>4, <2>6, <2>7, <1>1, Begins DEF GameInv
  <2>9. Addressed' BY <2>8, <1>1, <1>3 DEF Addressed
  <2>. QED BY <2>8, <2>9 DEF StuckInv
<1>. QED BY <1>5, <1>6

LEMMA StuckMove ==
    ASSUME StuckInv, GameInv, NEW m \in toServer, move(m)
    PROVE  StuckInv'
<1>1. /\ at = "move" /\ Playing /\ Addressed /\ UNCHANGED client
      /\ toServer' = toServer \ {m}
      /\ m[1] \in Players /\ (Udp \/ m[1] = addr[current_player])
      /\ addr' = IF Udp THEN [addr EXCEPT ![current_player] = m[1]] ELSE addr
  BY DEF move, Receive, StuckInv, Addressed
<1>2. PICK p \in Players : p = addr[current_player]
  BY <1>1 DEF Playing, Seated, GameInv, Players
<1>3. /\ Seated /\ ToMove(p) /\ Waits(Other(p))
      /\ client[Other(p)] = "answered" => board = EmptyBoard
  BY <1>1, <1>2 DEF Playing
<1>4. m[1] = p BY <1>1, <1>3, Others DEF Waits, Idle, Silent
<1>5. addr' = addr /\ Seated'
  <2>1. CASE Udp
    <3>1. addr' = [addr EXCEPT ![current_player] = p] BY <2>1, <1>1, <1>4
    <3>2. addr' = addr BY <3>1, <1>2, <1>3 DEF Seated, GameInv, Players
    <3>. QED BY <3>2, <1>3 DEF Seated
  <2>2. CASE ~Udp BY <2>2, <1>1, <1>3 DEF Seated
  <2>. QED BY <2>1, <2>2
<1>6. ~Silent(p) BY <1>4 DEF Silent
<1>7. client[p] = "recv" /\ toClient[p] = <<>> /\ Spoken(p)
  BY <1>3, <1>6 DEF ToMove, Idle
<1>8. /\ Silent(p)'
      /\ \A q \in Players \ {p} : (Silent(q)' <=> Silent(q)) /\ (Spoken(q)' <=> Spoken(q))
      /\ \A x \in toServer' : x[1] \in Players
  BY <1>1, <1>4, <1>7, Taken
<1>9. \A q \in Players : Silent(q)' /\ toClient[q] = <<>>
  BY <1>3, <1>7, <1>8, Others DEF Waits, Idle
<1>10. client[Other(p)] \in {"recv", "answered"} BY <1>3 DEF Waits
<1>11. ASSUME NEW k \in Players, toClient' = Send(addr', Prompt(k)), at' = "move",
              current_player' = k,
              \A q \in Players : q # addr[k] /\ client[q] = "answered" => board' = EmptyBoard
       PROVE  StuckInv'
  <2>1. /\ DOMAIN toClient' = Players
        /\ toClient'[addr'[k]] = <<"turn">> /\ toClient'[Other(addr'[k])] = <<>>
    BY <1>5, <1>9, <1>11, SentOne
  <2>2. PICK q \in Players : q = addr'[k] BY <1>5 DEF Seated, Players
  <2>3. client[q] \in {"recv", "answered"} /\ client[Other(q)] \in {"recv", "answered"}
    BY <1>7, <1>10, Others
  <2>4. ToMove(q)' BY <2>1, <2>2, <2>3, <1>1, <1>9 DEF ToMove
  <2>5. Waits(Other(q))' BY <2>1, <2>2, <2>3, <1>1, <1>9, Others DEF Waits, Idle
  <2>6. client'[Other(q)] = "answered" => board' = EmptyBoard
    BY <2>2, <1>1, <1>5, <1>11, Others
  <2>7. Playing' BY <2>2, <2>4, <2>5, <2>6, <1>5, <1>11 DEF Playing
  <2>8. Addressed' BY <2>1, <1>1, <1>8 DEF Addressed
  <2>. QED BY <2>7, <2>8, <1>11 DEF StuckInv
<1>12. CASE Accepted(row', col')
  <2>. DEFINE c == <<row', col'>>
              k == IF current_player = 1 THEN "X" ELSE "O"
  <2>1. /\ c \in Cells /\ board' = [board EXCEPT ![c] = k]
        /\ current_player' = Next_player(board')
        /\ at' = IF Over(board') THEN "again1" ELSE "move"
        /\ toClient' = Send(addr', IF Over(board') THEN Both("again")
                                   ELSE Prompt(current_player'))
    BY <1>12 DEF move, Accepted
  <2>2. CASE Over(board')
    <3>1. board # EmptyBoard
      <4>1. k \in {"X", "O"} OBVIOUS
      <4>. QED BY <2>1, <2>2, <4>1, OneMarkIsOpen
    <3>2. client[Other(p)] = "recv" BY <3>1, <1>3, <1>10
    <3>3. toClient' = Send(addr', Both("again")) /\ at' = "again1" BY <2>1, <2>2
    <3>4. DOMAIN toClient' = Players /\ \A q \in Players : toClient'[q] = <<"again">>
      BY <3>3, <1>5, <1>9, SentBoth
    <3>5. \A q \in Players : client[q] = "recv" BY <3>2, <1>7, Others
    <3>6. \A q \in Players : ToAnswer(q)' BY <3>4, <3>5, <1>1, <1>9 DEF ToAnswer
    <3>7. Addressed' BY <3>4, <1>1, <1>8 DEF Addressed
    <3>. QED BY <3>3, <3>6, <3>7, <1>5 DEF StuckInv, Asking
  <2>3. CASE ~Over(board')
    <3>1. /\ current_player' = 3 - current_player /\ at' = "move"
          /\ toClient' = Send(addr', Prompt(current_player'))
      BY <2>1, <2>3 DEF Next_player
    <3>2. current_player' \in Players /\ addr[current_player'] = Other(p)
      BY <3>1, <1>2, <1>3 DEF GameInv, Players, Seated, Other
    <3>3. \A q \in Players : q # addr[current_player'] => client[q] = "recv"
      BY <3>2, <1>7, Others
    <3>. QED BY <3>1, <3>2, <3>3, <1>11
  <2>. QED BY <2>2, <2>3
<1>13. CASE ~Accepted(row', col')
  <2>1. /\ toClient' = Send(addr', Prompt(current_player))
        /\ UNCHANGED <<board, current_player, at>>
    BY <1>13 DEF move
  <2>2. \A q \in Players : q # addr[current_player] /\ client[q] = "answered" => board' = EmptyBoard
    BY <2>1, <1>2, <1>3, Others
  <2>. QED BY <2>1, <2>2, <1>1, <1>11 DEF GameInv
<1>. QED BY <1>12, <1>13

LEMMA StuckAgain1 ==
    ASSUME StuckInv, NEW m \in toServer, again1(m)
    PROVE  StuckInv'
<1>1. /\ at = "again1" /\ at' = "again2" /\ Asking /\ Addressed
      /\ UNCHANGED <<client, toClient>> /\ toServer' = toServer \ {m}
      /\ Udp \/ m[1] = addr[1]
      /\ addr' = IF Udp THEN [addr EXCEPT ![1] = m[1]] ELSE addr
  BY DEF again1, Receive, StuckInv
<1>2. PICK q \in Players : q = m[1] BY <1>1 DEF Addressed
<1>3. Seated /\ ToAnswer(q) /\ ToAnswer(Other(q)) BY <1>1, Others DEF Asking
<1>4. ~Silent(q) BY <1>2 DEF Silent
<1>5. client[q] = "answered" /\ toClient[q] = <<>> /\ Spoken(q)
  BY <1>3, <1>4 DEF ToAnswer, Idle
<1>6. /\ Silent(q)'
      /\ \A r \in Players \ {q} : (Silent(r)' <=> Silent(r)) /\ (Spoken(r)' <=> Spoken(r))
      /\ \A x \in toServer' : x[1] \in Players
  BY <1>1, <1>2, <1>5, Taken
<1>. DEFINE p == Other(q)
<1>7. p \in Players /\ Other(p) = q /\ p # q BY Others
<1>8. addr'[1] = q /\ (Udp \/ addr'[2] = p) /\ addr' = <<addr'[1], addr'[2]>>
  <2>1. CASE Udp BY <2>1, <1>1, <1>2, <1>3 DEF Seated
  <2>2. CASE ~Udp
    <3>1. addr' = addr /\ addr[1] = q BY <2>2, <1>1, <1>2
    <3>. QED BY <3>1, <1>3 DEF Seated, Other
  <2>. QED BY <2>1, <2>2
<1>9. ToAnswer(p)' BY <1>1, <1>3, <1>6, <1>7 DEF ToAnswer, Idle
<1>10. Waits(q)' /\ client'[q] = "answered" BY <1>1, <1>5, <1>6 DEF Waits, Idle
<1>11. Addressed' BY <1>1, <1>6 DEF Addressed
<1>12. AskingSecond' BY <1>7, <1>8, <1>9, <1>10 DEF AskingSecond
<1>. QED BY <1>1, <1>11, <1>12 DEF StuckInv

LEMMA StuckAgain2 ==
    ASSUME StuckInv, GameInv, NEW m \in toServer, again2(m)
    PROVE  StuckInv'
<1>1. /\ at = "again2" /\ AskingSecond /\ Addressed
      /\ UNCHANGED client /\ toServer' = toServer \ {m}
      /\ addr' = IF Udp THEN [addr EXCEPT ![2] = m[1]] ELSE addr
  BY DEF again2, Receive, StuckInv
<1>2. PICK p \in Players :
        /\ addr[1] = Other(p) /\ (Udp \/ addr[2] = p) /\ addr = <<addr[1], addr[2]>>
        /\ ToAnswer(p) /\ Waits(Other(p)) /\ client[Other(p)] = "answered"
  BY <1>1 DEF AskingSecond
<1>3. m[1] = p BY <1>1, <1>2, Others DEF Addressed, Waits, Idle, Silent
<1>4. ~Silent(p) BY <1>3 DEF Silent
<1>5. client[p] = "answered" /\ toClient[p] = <<>> /\ Spoken(p)
  BY <1>2, <1>4 DEF ToAnswer, Idle
<1>6. /\ Silent(p)'
      /\ \A r \in Players \ {p} : (Silent(r)' <=> Silent(r)) /\ (Spoken(r)' <=> Spoken(r))
      /\ \A x \in toServer' : x[1] \in Players
  BY <1>1, <1>3, <1>5, Taken
<1>7. addr'[1] = Other(p) /\ addr'[2] = p /\ addr' = <<addr'[1], addr'[2]>>
  BY <1>1, <1>2, <1>3
<1>8. CASE Start
  <2>1. Seated'
    <3>1. addr' = <<Other(p), p>> BY <1>7
    <3>. QED BY <3>1 DEF Seated, Players, Other
  <2>2. \A r \in Players : Silent(r)' /\ toClient[r] = <<>> /\ client[r] = "answered"
    BY <1>2, <1>5, <1>6, Others DEF Waits, Idle
  <2>3. at' = "move" /\ Playing' /\ DOMAIN toClient' = Players
    BY <2>1, <2>2, <1>1, <1>8, Begins DEF GameInv
  <2>4. Addressed' BY <2>3, <1>1, <1>6 DEF Addressed
  <2>. QED BY <2>3, <2>4 DEF StuckInv
<1>9. CASE ~Start
  <2>1. at' = "done" /\ toClient' = Send(addr', Both("over")) BY <1>9 DEF again2
  <2>2. DOMAIN toClient' = Players BY <2>1 DEF Send
  <2>3. Addressed' BY <2>2, <1>1, <1>6 DEF Addressed
  <2>. QED BY <2>1, <2>3 DEF StuckInv
<1>. QED BY <1>8, <1>9

LEMMA InitStuck == Init => StuckInv
<1>. SUFFICES ASSUME Init PROVE StuckInv OBVIOUS
<1>1. Addressed BY DEF Init, Addressed
<1>2. ASSUME NEW p \in Players PROVE Greets(p)
  <2>1. client[p] = "recv" /\ toClient[p] = <<>> BY DEF Init
  <2>2. \A x \in toServer : x[1] = p => x = <<p, <<"hello">>>> BY DEF Init
  <2>3. <<p, <<"hello">>>> \in toServer BY DEF Init
  <2>. QED BY <2>1, <2>2, <2>3 DEF Greets, Spoken
<1>. QED BY <1>1, <1>2 DEF Init, StuckInv, Greeting

LEMMA StepStuck ==
    ASSUME XoxoConstants, ~Lossy, ~Mistypes, StuckInv, GameInv, [Next]_vars
    PROVE  StuckInv'
<1>1. ASSUME NEW p \in Players, client_recv(p) PROVE StuckInv'
  <2>1. Addressed' /\ UNCHANGED server
    BY <1>1 DEF client_recv, Remaining, StuckInv, Addressed
  <2>. QED BY <2>1, <1>1, ClientRecv, ClientsKeep DEF StuckInv
<1>2. ASSUME NEW p \in Players, NEW l, type_move(p, l) PROVE StuckInv'
  <2>1. Addressed' /\ UNCHANGED server
    BY <1>2 DEF type_move, StuckInv, Addressed
  <2>. QED BY <2>1, <1>2, TypeMove, ClientsKeep DEF StuckInv
<1>3. ASSUME NEW p \in Players, NEW a, type_answer(p, a) PROVE StuckInv'
  <2>1. Addressed' /\ UNCHANGED server
    BY <1>3 DEF type_answer, StuckInv, Addressed
  <2>. QED BY <2>1, <1>3, TypeAnswer, ClientsKeep DEF StuckInv
<1>4. CASE UNCHANGED vars
  <2>1. Addressed' /\ UNCHANGED server BY <1>4 DEF vars, net, StuckInv, Addressed
  <2>2. \A p \in Players : Keeps(p)
    BY <1>4 DEF vars, net, Keeps, ToMove, ToAnswer, Greets, Waits, Idle, Silent, Spoken
  <2>. QED BY <2>1, <2>2, ClientsKeep
<1>5. CASE Next
  <2>1. \/ \E m \in toServer : hello(m) \/ move(m) \/ again1(m) \/ again2(m)
        \/ \E p \in Players : client_recv(p)
        \/ \E p \in Players : \E l \in Typed[p] : type_move(p, l)
        \/ \E p \in Players, a \in {"yes", "no"} : type_answer(p, a)
    BY <1>5 DEF Next, client_display, mistype, lose
  <2>. QED BY <2>1, <1>1, <1>2, <1>3, StuckHello, StuckMove, StuckAgain1, StuckAgain2
<1>. QED BY <1>4, <1>5

(* Where the dialogue is in such a place, somebody has something to do.    *)
LEMMA StuckNot == StuckInv /\ GameInv => NobodyStuck
<1>. SUFFICES ASSUME StuckInv, GameInv, at \notin {"hello", "done"}
              PROVE  IF Udp THEN \E p \in Players : Coming(p) ELSE Coming(addr[Awaited])
  BY DEF NobodyStuck
<1>1. ASSUME NEW p \in Players, ToMove(p) \/ ToAnswer(p) PROVE Coming(p)
  <2>1. ASSUME NEW x \in {"turn", "again"}, toClient[p] = <<x>>,
               client[p] \in {"recv", "answered"}
        PROVE  Coming(p)
    <3>1. Len(toClient[p]) = 1 /\ toClient[p][1] \in {"turn", "again"} BY <2>1
    <3>. QED BY <2>1, <3>1 DEF Coming
  <2>2. Spoken(p) => Coming(p) BY DEF Spoken, Coming
  <2>3. client[p] \in {"move", "again"} => Coming(p) BY DEF Coming
  <2>. QED BY <1>1, <2>1, <2>2, <2>3 DEF ToMove, ToAnswer
<1>2. CASE at = "move"
  <2>1. ToMove(addr[current_player]) /\ addr[current_player] \in Players
    BY <1>2 DEF StuckInv, Playing, Seated, GameInv, Players
  <2>. QED BY <2>1, <1>1, <1>2 DEF Awaited
<1>3. CASE at = "again1"
  <2>1. ToAnswer(addr[1]) /\ addr[1] \in Players
    BY <1>3 DEF StuckInv, Asking, Seated, Players
  <2>. QED BY <2>1, <1>1, <1>3 DEF Awaited
<1>4. CASE at = "again2"
  <2>1. \E p \in Players : ToAnswer(p) /\ (Udp \/ addr[2] = p)
    BY <1>4 DEF StuckInv, AskingSecond
  <2>. QED BY <2>1, <1>1, <1>4 DEF Awaited
<1>. QED BY <1>2, <1>3, <1>4 DEF GameInv

(* Where every message arrives in order and whoever is asked for another   *)
(* game says yes or no, the server never waits for a client that waits for *)
(* the server, in any number of games and whatever moves are typed: the    *)
(* clients of networks/partA take a whole buffer for one message, and none *)
(* ever holds two that matter.                                             *)
THEOREM NobodyStuckIfDelivered ==
    ASSUME ~Lossy, ~Mistypes
    PROVE  Spec => []NobodyStuck
<1>1. GameInv /\ StuckInv /\ [Next]_vars => GameInv' /\ StuckInv'
  BY StepGame, StepStuck, XoxoConstants
<1>2. GameInv /\ StuckInv => NobodyStuck BY StuckNot
<1>3. Init => GameInv /\ StuckInv BY InitGame, InitStuck
<1>. QED BY <1>1, <1>2, <1>3, PTL DEF Spec

-------------------------------------------------------------------------------
(* The chat of networks/partB, each datagram delivered once and in order,  *)
(* and no chunk sent again while its echo is on its way.                   *)
CONSTANTS alice, bob, MaxChunks, Capacity
VARIABLES sending, list, sent, received, pc, msg, printed, datagrams

Chat == INSTANCE Chunks WITH
    client <- alice, server <- bob, Lossy <- FALSE, Early <- FALSE, net <- datagrams

ChatVars == <<sending, list, sent, received, pc, msg, printed, datagrams>>

Nodes == Chat!Nodes
Messages == [id : 0 .. 2, total : 0 .. MaxChunks]

(* Chunks i to j - 1 of a message of a node.                               *)
Piece(n, g, i) == [from |-> n, msg |-> g.id, seq |-> i, total |-> g.total]
Cut(n, g, i, j) == [k \in 1 .. j - i |-> Piece(n, g, i + k - 1)]
Part(n, i, j) == Cut(n, msg[n], i, j)
IsCut(s, n, g, i, j) ==
    /\ s \in Seq(Chat!Chunks) /\ Len(s) = j - i
    /\ \A k \in 1 .. j - i : s[k] = Piece(n, g, i + k - 1)

(* n has sent the chunks below k, of which those below a are acknowledged. *)
Out(n, a, k) ==
    /\ a < msg[n].total /\ a <= k /\ k <= msg[n].total
    /\ list[n] = a .. msg[n].total - 1 /\ sent[n] = 0 .. k - 1

(* n sends and m receives: nothing yet, or the chunks below b, the echoes  *)
(* of which, from a, are on their way back.                                *)
Flows(n, m, a, b, k) ==
    /\ Out(n, a, k) /\ a <= b /\ b <= k /\ b < msg[n].total
    /\ received[m] = Part(n, 0, b)
    /\ datagrams[n] = Part(n, a, b) /\ datagrams[m] = Part(n, b, k)
Quiet(n, m) ==
    /\ list[n] = {} /\ received[m] = <<>>
    /\ datagrams[n] = <<>> /\ datagrams[m] = <<>>
Speaks(n, m) ==
    /\ sending[n] /\ ~sending[m] /\ list[m] = {} /\ received[n] = <<>>
    /\ \/ Quiet(n, m)
       \/ \E a, b, k \in 0 .. MaxChunks : Flows(n, m, a, b, k)

(* m has printed n's message and answers, perhaps before n has got the     *)
(* last echoes: these come first.                                          *)
Echoes(n, m, a) ==
    \/ list[m] = {} /\ datagrams[n] = Part(n, a, msg[n].total)
    \/ \E k \in 0 .. MaxChunks :
         /\ Out(m, 0, k)
         /\ datagrams[n] = Part(n, a, msg[n].total) \o Part(m, 0, k)
Answers(n, m) ==
    /\ sending[n] /\ sending[m] /\ received[n] = <<>> /\ received[m] = <<>>
    /\ datagrams[m] = <<>> /\ printed[m] = Part(n, 0, msg[n].total)
    /\ \E a \in 0 .. MaxChunks : Out(n, a, msg[n].total) /\ Echoes(n, m, a)

ChatTypes ==
    /\ sending \in [Nodes -> BOOLEAN] /\ msg \in [Nodes -> Messages]
    /\ DOMAIN list = Nodes /\ DOMAIN sent = Nodes /\ DOMAIN received = Nodes
    /\ DOMAIN printed = Nodes /\ DOMAIN datagrams = Nodes
Talk == \E n \in Nodes : Speaks(n, Chat!Peer(n)) \/ Answers(n, Chat!Peer(n))
ChatInv == ChatTypes /\ Talk /\ Chat!PrintedWhole

LEMMA MinIsLeast ==
    ASSUME NEW S, IsFiniteSet(S), S \subseteq Int, S # {}
    PROVE  Min(S) \in S /\ \A y \in S : Min(S) <= y
<1>. DEFINE Below(x) == {y \in S : y < x}
            T == {Below(x) : x \in S}
            R == StrictSubsetOrdering(S)
<1>1. IsWellFoundedOn(R, SUBSET S)
  BY FS_StrictSubsetOrderingWellFounded, FS_FiniteSubsetsOfFinite
<1>2. T \subseteq SUBSET S /\ T # {} OBVIOUS
<1>3. \E x \in T : \A y \in T : ~ (<<y, x>> \in R)
  <2>. HIDE DEF R, T
  <2>. QED BY <1>1, <1>2, WFMin
<1>4. PICK x \in S : \A y \in S : <<Below(y), Below(x)>> \notin R BY <1>3
<1>5. ASSUME NEW y \in S, y < x PROVE FALSE
  <2>1. ASSUME NEW z \in Below(y) PROVE z \in Below(x)
    <3>1. z \in Int /\ y \in Int /\ x \in Int OBVIOUS
    <3>2. z < y OBVIOUS
    <3>. QED BY <3>1, <3>2, <1>5
  <2>2. y \in Below(x) /\ y \notin Below(y) BY <1>5
  <2>3. <<Below(y), Below(x)>> \in R BY <2>1, <2>2 DEF StrictSubsetOrdering
  <2>. QED BY <1>4, <2>3
<1>6. \A y \in S : x =< y BY <1>5
<1>. QED BY <1>6 DEF Min

(* What sequences of chunks look like that follow one another.             *)
LEMMA CutIs ==
    ASSUME Chat!ChunksConstants, NEW n \in Nodes, NEW g \in Messages,
           NEW i \in Nat, NEW j \in Nat, i <= j, j <= g.total
    PROVE  /\ IsCut(Cut(n, g, i, j), n, g, i, j)
           /\ i = j <=> Cut(n, g, i, j) = <<>>
<1>1. g.id \in 0 .. 2 /\ g.total \in 0 .. MaxChunks /\ MaxChunks \in Nat
  BY DEF Messages, Chat!ChunksConstants
<1>2. ASSUME NEW k \in 1 .. j - i PROVE Piece(n, g, i + k - 1) \in Chat!Chunks
  <2>1. i + k - 1 \in 0 .. MaxChunks - 1 BY <1>1
  <2>2. g.total \in 1 .. MaxChunks BY <1>1
  <2>. QED BY <1>1, <2>1, <2>2 DEF Piece, Chat!Chunks, Nodes
<1>. DEFINE c == Cut(n, g, i, j)
<1>3. j - i \in Nat OBVIOUS
<1>4. c \in [1 .. j - i -> Chat!Chunks] BY <1>2 DEF Cut
<1>5. c \in Seq(Chat!Chunks)
  <2>. HIDE DEF c
  <2>. QED BY <1>3, <1>4
<1>6. Len(c) = j - i
  <2>. HIDE DEF c
  <2>. QED BY <1>3, <1>4
<1>7. \A k \in 1 .. j - i : c[k] = Piece(n, g, i + k - 1) BY DEF Cut
<1>8. i = j <=> c = <<>>
  <2>. HIDE DEF c
  <2>1. Len(c) = 0 <=> i = j BY <1>6
  <2>. QED BY <2>1, <1>5, EmptySeq
<1>. HIDE DEF c
<1>9. IsCut(c, n, g, i, j) BY <1>5, <1>6, <1>7 DEF IsCut
<1>. QED BY <1>8, <1>9 DEF c

LEMMA CutTail ==
    ASSUME Chat!ChunksConstants, NEW n \in Nodes, NEW g \in Messages,
           NEW i \in Nat, NEW j \in Nat, i < j, j <= g.total
    PROVE  /\ Head(Cut(n, g, i, j)) = Piece(n, g, i)
           /\ Tail(Cut(n, g, i, j)) = Cut(n, g, i + 1, j)
<1>. DEFINE c == Cut(n, g, i, j)
            t == Cut(n, g, i + 1, j)
<1>0. i + 1 \in Nat /\ i + 1 <= j /\ i <= j OBVIOUS
<1>a. IsCut(c, n, g, i, j) /\ c # <<>> BY <1>0, CutIs
<1>b. IsCut(t, n, g, i + 1, j) BY <1>0, CutIs
<1>. HIDE DEF c, t
<1>1. /\ c \in Seq(Chat!Chunks) /\ Len(c) = j - i /\ c # <<>>
      /\ \A k \in 1 .. j - i : c[k] = Piece(n, g, i + k - 1)
  BY <1>a DEF IsCut
<1>2. /\ t \in Seq(Chat!Chunks) /\ Len(t) = j - (i + 1)
      /\ \A k \in 1 .. j - (i + 1) : t[k] = Piece(n, g, i + 1 + k - 1)
  BY <1>b DEF IsCut
<1>3. Head(c) = Piece(n, g, i)
  <2>1. Head(c) = c[1] BY <1>1
  <2>2. 1 \in 1 .. j - i /\ i + 1 - 1 = i BY <1>0
  <2>. QED BY <2>1, <2>2, <1>1
<1>4. Tail(c) = t
  <2>1. /\ Tail(c) \in Seq(Chat!Chunks) /\ Len(Tail(c)) = j - i - 1
        /\ \A k \in 1 .. Len(Tail(c)) : Tail(c)[k] = c[k + 1]
    BY <1>1, HeadTailProperties
  <2>2. Len(Tail(c)) = Len(t) BY <2>1, <1>2
  <2>3. ASSUME NEW k \in 1 .. Len(Tail(c)) PROVE Tail(c)[k] = t[k]
    <3>1. k + 1 \in 1 .. j - i /\ k \in 1 .. j - (i + 1) BY <2>1
    <3>2. i + (k + 1) - 1 = i + 1 + k - 1 OBVIOUS
    <3>3. c[k + 1] = Piece(n, g, i + (k + 1) - 1) BY <1>1, <3>1
    <3>. QED BY <2>1, <3>1, <3>2, <3>3, <1>2
  <2>. QED BY <2>1, <2>2, <2>3, <1>2, SeqEqual
<1>. QED BY <1>3, <1>4 DEF c, t

LEMMA CutJoin ==
    ASSUME Chat!ChunksConstants, NEW n \in Nodes, NEW g \in Messages,
           NEW i \in Nat, NEW j \in Nat, NEW h \in Nat, i <= j, j <= h, h <= g.total
    PROVE  Cut(n, g, i, j) \o Cut(n, g, j, h) = Cut(n, g, i, h)
<1>. DEFINE c == Cut(n, g, i, j)
            d == Cut(n, g, j, h)
            e == Cut(n, g, i, h)
<1>0. g.total \in Nat BY DEF Messages
<1>a. IsCut(c, n, g, i, j)
  <2>1. j <= g.total BY <1>0
  <2>. QED BY <2>1, CutIs
<1>b. IsCut(d, n, g, j, h) BY CutIs
<1>c. IsCut(e, n, g, i, h)
  <2>1. i <= h OBVIOUS
  <2>. QED BY <2>1, CutIs
<1>. HIDE DEF c, d, e
<1>1. /\ c \in Seq(Chat!Chunks) /\ Len(c) = j - i
      /\ \A k \in 1 .. j - i : c[k] = Piece(n, g, i + k - 1)
  BY <1>a DEF IsCut
<1>2. /\ d \in Seq(Chat!Chunks) /\ Len(d) = h - j
      /\ \A k \in 1 .. h - j : d[k] = Piece(n, g, j + k - 1)
  BY <1>b DEF IsCut
<1>3. /\ e \in Seq(Chat!Chunks) /\ Len(e) = h - i
      /\ \A k \in 1 .. h - i : e[k] = Piece(n, g, i + k - 1)
  BY <1>c DEF IsCut
<1>d. /\ c \o d \in Seq(Chat!Chunks) /\ Len(c \o d) = Len(c) + Len(d)
      /\ \A k \in 1 .. Len(c) + Len(d) :
           (c \o d)[k] = IF k <= Len(c) THEN c[k] ELSE d[k - Len(c)]
  BY <1>1, <1>2, ConcatProperties
<1>e. Len(c) + Len(d) = h - i BY <1>1, <1>2
<1>4. /\ c \o d \in Seq(Chat!Chunks) /\ Len(c \o d) = h - i
      /\ \A k \in 1 .. Len(c) + Len(d) :
           (c \o d)[k] = IF k <= Len(c) THEN c[k] ELSE d[k - Len(c)]
  BY <1>d, <1>e
<1>5. ASSUME NEW k \in 1 .. h - i PROVE (c \o d)[k] = e[k]
  <2>0. k \in 1 .. Len(c) + Len(d) BY <1>1, <1>2
  <2>1. CASE k <= Len(c)
    <3>1. k \in 1 .. j - i BY <2>1, <1>1
    <3>. QED BY <2>0, <2>1, <3>1, <1>1, <1>3, <1>4
  <2>2. CASE ~(k <= Len(c))
    <3>1. k - Len(c) \in 1 .. h - j /\ j + (k - Len(c)) - 1 = i + k - 1 BY <2>2, <1>1
    <3>2. d[k - Len(c)] = Piece(n, g, j + (k - Len(c)) - 1) BY <1>2, <3>1
    <3>. QED BY <2>0, <2>2, <3>1, <3>2, <1>3, <1>4
  <2>. QED BY <2>1, <2>2
<1>6. \A k \in 1 .. Len(c \o d) : (c \o d)[k] = e[k] BY <1>4, <1>5
<1>7. c \o d = e BY <1>3, <1>4, <1>6, SeqEqual
<1>. QED BY <1>7 DEF c, d, e

LEMMA CutOne ==
    ASSUME Chat!ChunksConstants, NEW n \in Nodes, NEW g \in Messages,
           NEW i \in Nat, i < g.total
    PROVE  <<Piece(n, g, i)>> = Cut(n, g, i, i + 1)
<1>1. i + 1 - i = 1 OBVIOUS
<1>2. Cut(n, g, i, i + 1) = [k \in 1 .. 1 |-> Piece(n, g, i + k - 1)] BY <1>1 DEF Cut
<1>3. \A k \in 1 .. 1 : i + k - 1 = i OBVIOUS
<1>4. Cut(n, g, i, i + 1) = [k \in 1 .. 1 |-> Piece(n, g, i)] BY <1>2, <1>3
<1>. QED BY <1>4

LEMMA CutMore ==
    ASSUME Chat!ChunksConstants, NEW n \in Nodes, NEW g \in Messages,
           NEW i \in Nat, NEW j \in Nat, i <= j, j < g.total
    PROVE  /\ Cut(n, g, i, j) \o <<Piece(n, g, j)>> = Cut(n, g, i, j + 1)
           /\ Append(Cut(n, g, i, j), Piece(n, g, j)) = Cut(n, g, i, j + 1)
<1>0. g.total \in Nat BY DEF Messages
<1>a. j + 1 \in Nat /\ j <= j + 1 /\ j + 1 <= g.total /\ j <= g.total BY <1>0
<1>1. Cut(n, g, i, j) \o <<Piece(n, g, j)>> = Cut(n, g, i, j + 1)
  <2>1. Cut(n, g, i, j) \o Cut(n, g, j, j + 1) = Cut(n, g, i, j + 1) BY <1>a, CutJoin
  <2>2. <<Piece(n, g, j)>> = Cut(n, g, j, j + 1) BY CutOne
  <2>. QED BY <2>1, <2>2
<1>2. Cut(n, g, i, j) \in Seq(Chat!Chunks) BY <1>a, CutIs DEF IsCut
<1>b. IsCut(Cut(n, g, j, j + 1), n, g, j, j + 1) BY <1>a, CutIs
<1>3. /\ Cut(n, g, j, j + 1) \in Seq(Chat!Chunks)
      /\ Len(Cut(n, g, j, j + 1)) = j + 1 - j
      /\ \A k \in 1 .. j + 1 - j : Cut(n, g, j, j + 1)[k] = Piece(n, g, j + k - 1)
  BY <1>b DEF IsCut
<1>4. Piece(n, g, j) \in Chat!Chunks
  <2>1. 1 \in 1 .. j + 1 - j /\ j + 1 - 1 = j OBVIOUS
  <2>2. Cut(n, g, j, j + 1)[1] = Piece(n, g, j) BY <1>3, <2>1
  <2>3. 1 \in 1 .. Len(Cut(n, g, j, j + 1)) BY <1>3, <2>1
  <2>. QED BY <1>3, <2>2, <2>3, ElementOfSeq
<1>5. Append(Cut(n, g, i, j), Piece(n, g, j)) = Cut(n, g, i, j) \o <<Piece(n, g, j)>>
  BY <1>2, <1>4, AppendIsConcat
<1>. QED BY <1>1, <1>5

LEMMA TailOfConcat ==
    ASSUME NEW S, NEW s \in Seq(S), NEW t \in Seq(S), s # <<>>
    PROVE  s \o t # <<>> /\ Head(s \o t) = Head(s) /\ Tail(s \o t) = Tail(s) \o t
<1>1. Len(s) \in Nat \ {0} BY EmptySeq
<1>2. /\ s \o t \in Seq(S) /\ Len(s \o t) = Len(s) + Len(t)
      /\ \A i \in 1 .. Len(s) + Len(t) : (s \o t)[i] =
             IF i <= Len(s) THEN s[i] ELSE t[i - Len(s)]
  BY ConcatProperties
<1>3. Len(t) \in Nat BY LenProperties
<1>4. s \o t # <<>> BY <1>1, <1>2, <1>3, EmptySeq
<1>5. /\ Tail(s) \in Seq(S) /\ Len(Tail(s)) = Len(s) - 1
      /\ \A i \in 1 .. Len(Tail(s)) : Tail(s)[i] = s[i + 1]
  BY HeadTailProperties
<1>6. /\ Tail(s \o t) \in Seq(S) /\ Len(Tail(s \o t)) = Len(s \o t) - 1
      /\ \A i \in 1 .. Len(Tail(s \o t)) : Tail(s \o t)[i] = (s \o t)[i + 1]
  BY <1>2, <1>4, HeadTailProperties
<1>7. /\ Tail(s) \o t \in Seq(S) /\ Len(Tail(s) \o t) = Len(Tail(s)) + Len(t)
      /\ \A i \in 1 .. Len(Tail(s)) + Len(t) : (Tail(s) \o t)[i] =
             IF i <= Len(Tail(s)) THEN Tail(s)[i] ELSE t[i - Len(Tail(s))]
  BY <1>5, ConcatProperties
<1>8. ASSUME NEW i \in 1 .. Len(Tail(s \o t)) PROVE Tail(s \o t)[i] = (Tail(s) \o t)[i]
  <2>1. i \in 1 .. Len(Tail(s)) + Len(t) /\ i + 1 \in 1 .. Len(s) + Len(t)
    BY <1>1, <1>2, <1>3, <1>5, <1>6
  <2>2. CASE i <= Len(Tail(s))
    <3>1. i \in 1 .. Len(Tail(s)) /\ i + 1 <= Len(s) BY <2>2, <1>1, <1>5
    <3>. QED BY <2>1, <2>2, <3>1, <1>2, <1>5, <1>6, <1>7
  <2>3. CASE ~(i <= Len(Tail(s)))
    <3>1. ~(i + 1 <= Len(s)) /\ i + 1 - Len(s) = i - Len(Tail(s)) BY <2>3, <1>1, <1>5
    <3>. QED BY <2>1, <2>3, <3>1, <1>2, <1>6, <1>7
  <2>. QED BY <2>2, <2>3
<1>9. Tail(s \o t) = Tail(s) \o t
  <2>1. Len(Tail(s \o t)) = Len(Tail(s) \o t) BY <1>1, <1>2, <1>3, <1>5, <1>6, <1>7
  <2>. QED BY <2>1, <1>6, <1>7, <1>8, SeqEqual
<1>10. Head(s \o t) = Head(s)
  <2>1. 1 \in 1 .. Len(s) + Len(t) /\ 1 <= Len(s) BY <1>1, <1>3
  <2>. QED BY <2>1, <1>2
<1>. QED BY <1>4, <1>9, <1>10

LEMMA SameSizes ==
    ASSUME NEW S
    PROVE  Chat!Cardinality(S) = Cardinality(S) /\ Chat!Min(S) = Min(S)
BY DEF Chat!Cardinality, Cardinality, Chat!Min, Min

(* Chunks are sent in order, and printed as they are.                      *)
LEMMA InOrderIs ==
    ASSUME Chat!ChunksConstants, ChatTypes, NEW n \in Nodes,
           NEW k \in Nat, NEW h \in Nat, k <= h
    PROVE  Chat!InOrder(n, k .. h - 1) = Part(n, k, h)
<1>. DEFINE D == k .. h - 1
<1>1. Chat!Cardinality(D) = h - k
  <2>1. k \in Int /\ h - 1 \in Int OBVIOUS
  <2>2. Cardinality(k .. h - 1) = IF k > h - 1 THEN 0 ELSE h - 1 - k + 1
    BY <2>1, FS_Interval
  <2>3. Chat!Cardinality(D) = Cardinality(D) BY SameSizes
  <2>. QED BY <2>2, <2>3
<1>2. ASSUME NEW i \in D PROVE Chat!Cardinality({x \in D : x < i}) = i - k
  <2>1. {x \in D : x < i} = k .. i - 1 OBVIOUS
  <2>2. k \in Int /\ i - 1 \in Int OBVIOUS
  <2>3. Cardinality(k .. i - 1) = IF k > i - 1 THEN 0 ELSE i - 1 - k + 1
    BY <2>2, FS_Interval
  <2>4. k <= i /\ i \in Int OBVIOUS
  <2>5. i - 1 - k + 1 = i - k /\ (k > i - 1 <=> i = k) BY <2>4
  <2>6. i = k => i - k = 0 BY <2>4
  <2>7. Chat!Cardinality({x \in D : x < i}) = Cardinality({x \in D : x < i}) BY SameSizes
  <2>. HIDE DEF D
  <2>. QED BY <2>1, <2>3, <2>5, <2>6, <2>7
<1>3. ASSUME NEW j \in 1 .. h - k PROVE Chat!Nth(D, j) = k + j - 1
  <2>1. k + j - 1 \in D OBVIOUS
  <2>2. Chat!Cardinality({x \in D : x < k + j - 1}) = j - 1
    <3>1. Chat!Cardinality({x \in D : x < k + j - 1}) = k + j - 1 - k BY <1>2, <2>1
    <3>. QED BY <3>1
  <2>4. Chat!Nth(D, j) = CHOOSE i \in D : Chat!Cardinality({x \in D : x < i}) = j - 1
    BY DEF Chat!Nth
  <2>3. \A i \in D : Chat!Cardinality({x \in D : x < i}) = j - 1 => i = k + j - 1
    <3>1. ASSUME NEW i \in D, Chat!Cardinality({x \in D : x < i}) = j - 1 PROVE i = k + j - 1
      <4>1. i - k = j - 1 BY <1>2, <3>1
      <4>2. i \in Int OBVIOUS
      <4>. QED BY <4>1, <4>2
    <3>. QED BY <3>1
  <2>. DEFINE P(i) == Chat!Cardinality({x \in D : x < i}) = j - 1
  <2>5. P(k + j - 1) /\ \A i \in D : P(i) => i = k + j - 1 BY <2>2, <2>3
  <2>6. Chat!Nth(D, j) = CHOOSE i \in D : P(i) BY <2>4
  <2>. HIDE DEF D, P
  <2>. QED BY <2>1, <2>5, <2>6
<1>4. ASSUME NEW j \in 1 .. h - k
      PROVE  Chat!Chunk(n, Chat!Nth(D, j)) = Piece(n, msg[n], k + j - 1)
  BY <1>3 DEF Chat!Chunk, Piece
<1>. HIDE DEF D
<1>5. Chat!InOrder(n, D) = [j \in 1 .. h - k |-> Chat!Chunk(n, Chat!Nth(D, j))]
  BY <1>1 DEF Chat!InOrder
<1>6. Chat!InOrder(n, D) = [j \in 1 .. h - k |-> Piece(n, msg[n], k + j - 1)]
  BY <1>4, <1>5
<1>. QED BY <1>6 DEF Part, Cut, D

LEMMA TextIs ==
    ASSUME Chat!ChunksConstants, NEW n \in Nodes, NEW g \in Messages, g.total > 0
    PROVE  Chat!Text(Cut(n, g, 0, g.total)) = Cut(n, g, 0, g.total)
<1>. DEFINE T == g.total
            s == Cut(n, g, 0, T)
<1>0. T \in Nat BY DEF Messages
<1>1. /\ s \in Seq(Chat!Chunks) /\ Len(s) = T
      /\ \A k \in 1 .. T : s[k] = Piece(n, g, k - 1)
  <2>0. IsCut(s, n, g, 0, T) BY <1>0, CutIs
  <2>. HIDE DEF s
  <2>1. /\ s \in Seq(Chat!Chunks) /\ Len(s) = T - 0
        /\ \A k \in 1 .. T - 0 : s[k] = Piece(n, g, 0 + k - 1)
    BY <2>0 DEF IsCut
  <2>2. T - 0 = T /\ \A k \in 1 .. T : 0 + k - 1 = k - 1 BY <1>0
  <2>. QED BY <2>1, <2>2
<1>2. Head(s).total = T
  <2>1. Head(s) = Piece(n, g, 0) BY <1>0, CutTail
  <2>. QED BY <2>1 DEF Piece
<1>3. ASSUME NEW i \in 1 .. T PROVE Chat!Find(s, i - 1) = s[i]
  <2>. DEFINE hits == {k \in 1 .. Len(s) : s[k].seq = i - 1}
  <2>1. hits = {i}
    <3>1. ASSUME NEW k \in 1 .. T PROVE s[k].seq = k - 1
      <4>1. s[k] = Piece(n, g, k - 1) BY <1>1
      <4>. QED BY <4>1 DEF Piece
    <3>2. \A k \in 1 .. T : k - 1 = i - 1 <=> k = i OBVIOUS
    <3>. QED BY <1>1, <3>1, <3>2
  <2>2. Chat!Min(hits) = i
    <3>1. IsFiniteSet(hits) /\ hits \subseteq Int /\ hits # {}
      <4>1. IsFiniteSet({i}) BY FS_Singleton
      <4>2. IsFiniteSet(hits) BY <2>1, <4>1
      <4>. HIDE DEF hits
      <4>. QED BY <2>1, <4>2
    <3>. HIDE DEF hits
    <3>2. Min(hits) \in hits BY <3>1, MinIsLeast
    <3>3. Chat!Min(hits) = Min(hits) BY SameSizes
    <3>. QED BY <2>1, <3>2, <3>3
  <2>3. Chat!Find(s, i - 1) = IF hits = {} THEN None ELSE s[Chat!Min(hits)]
    BY DEF Chat!Find
  <2>. HIDE DEF hits, s
  <2>. QED BY <2>1, <2>2, <2>3
<1>. HIDE DEF s
<1>4. Chat!Text(s) = [i \in 1 .. T |-> Chat!Find(s, i - 1)] BY <1>2 DEF Chat!Text
<1>5. Chat!Text(s) = [i \in 1 .. T |-> s[i]] BY <1>3, <1>4
<1>6. s = [i \in 1 .. T |-> s[i]] BY <1>1
<1>7. Chat!Text(s) = s BY <1>5, <1>6
<1>. QED BY <1>7 DEF s

LEMMA Sides ==
    ASSUME Chat!ChunksConstants, NEW n \in Nodes
    PROVE  /\ Chat!Peer(n) \in Nodes /\ Chat!Peer(n) # n
           /\ Chat!Peer(Chat!Peer(n)) = n /\ Nodes = {n, Chat!Peer(n)}
BY DEF Chat!ChunksConstants, Nodes, Chat!Nodes, Chat!Peer

LEMMA PartIs ==
    ASSUME Chat!ChunksConstants, ChatTypes, NEW n \in Nodes,
           NEW i \in Nat, NEW j \in Nat, i <= j, j <= msg[n].total
    PROVE  /\ Part(n, i, j) \in Seq(Chat!Chunks) /\ Len(Part(n, i, j)) = j - i
           /\ i = j <=> Part(n, i, j) = <<>>
<1>1. msg[n] \in Messages BY DEF ChatTypes
<1>2. IsCut(Part(n, i, j), n, msg[n], i, j) /\ (i = j <=> Part(n, i, j) = <<>>)
  BY <1>1, CutIs DEF Part
<1>. QED BY <1>2 DEF IsCut

LEMMA PartTail ==
    ASSUME Chat!ChunksConstants, ChatTypes, NEW n \in Nodes,
           NEW i \in Nat, NEW j \in Nat, i < j, j <= msg[n].total
    PROVE  /\ Head(Part(n, i, j)) = Piece(n, msg[n], i)
           /\ Tail(Part(n, i, j)) = Part(n, i + 1, j)
<1>1. msg[n] \in Messages BY DEF ChatTypes
<1>. QED BY <1>1, CutTail DEF Part

LEMMA PartJoin ==
    ASSUME Chat!ChunksConstants, ChatTypes, NEW n \in Nodes,
           NEW i \in Nat, NEW j \in Nat, NEW h \in Nat, i <= j, j <= h, h <= msg[n].total
    PROVE  Part(n, i, j) \o Part(n, j, h) = Part(n, i, h)
<1>1. msg[n] \in Messages BY DEF ChatTypes
<1>. QED BY <1>1, CutJoin DEF Part

LEMMA PartMore ==
    ASSUME Chat!ChunksConstants, ChatTypes, NEW n \in Nodes,
           NEW i \in Nat, NEW j \in Nat, i <= j, j < msg[n].total
    PROVE  /\ Part(n, i, j) \o <<Piece(n, msg[n], j)>> = Part(n, i, j + 1)
           /\ Append(Part(n, i, j), Piece(n, msg[n], j)) = Part(n, i, j + 1)
<1>1. msg[n] \in Messages BY DEF ChatTypes
<1>. QED BY <1>1, CutMore DEF Part

(* What has been sent and is not acknowledged is under way: a chunk or its *)
(* echo is in one of the two buffers, so that it is not sent again.        *)
Carries(s, x) == \E k \in 1 .. Len(s) : s[k] = x
StillUnderWay(n, a, k) == \A i \in a .. k - 1 : Chat!UnderWay(n, i)
FirstFirst(n, D) == \A i \in D \ sent[n], j \in list[n] \ sent[n] : j < i => j \in D

LEMMA InPart ==
    ASSUME Chat!ChunksConstants, ChatTypes, NEW n \in Nodes,
           NEW i \in Nat, NEW j \in Nat, i <= j, j <= msg[n].total, NEW q \in i .. j - 1
    PROVE  Carries(Part(n, i, j), Chat!Chunk(n, q))
<1>1. msg[n] \in Messages BY DEF ChatTypes
<1>2. IsCut(Part(n, i, j), n, msg[n], i, j) BY <1>1, CutIs DEF Part
<1>. DEFINE k == q - i + 1
            s == Part(n, i, j)
<1>. HIDE DEF s
<1>3. Len(s) = j - i /\ \A h \in 1 .. j - i : s[h] = Piece(n, msg[n], i + h - 1)
  BY <1>2 DEF IsCut, s
<1>4. k \in 1 .. j - i /\ i + k - 1 = q OBVIOUS
<1>5. s[k] = Piece(n, msg[n], q) BY <1>3, <1>4
<1>6. Chat!Chunk(n, q) = Piece(n, msg[n], q) BY DEF Chat!Chunk, Piece
<1>. HIDE DEF k
<1>7. k \in 1 .. Len(s) BY <1>3, <1>4
<1>8. Carries(s, Chat!Chunk(n, q)) BY <1>5, <1>6, <1>7 DEF Carries
<1>. QED BY <1>8 DEF s

LEMMA DueIs ==
    ASSUME Chat!ChunksConstants, ChatTypes, NEW n \in Nodes,
           NEW a \in Nat, NEW k \in Nat, Out(n, a, k),
           StillUnderWay(n, a, k), NEW D, D \subseteq Chat!MayBeDue(n), FirstFirst(n, D)
    PROVE  \E h \in k .. msg[n].total : D = k .. h - 1
<1>. DEFINE T == msg[n].total
            U == {x \in k .. T : x \notin D}
            h == Min(U)
<1>0. T \in Nat BY DEF ChatTypes, Messages
<1>1. list[n] = a .. T - 1 /\ sent[n] = 0 .. k - 1 /\ a <= k /\ k <= T
  BY DEF Out
<1>2. D \subseteq list[n] BY DEF Chat!MayBeDue
<1>3. D \subseteq k .. T - 1
  <2>1. ASSUME NEW i \in D, i \in 0 .. k - 1 PROVE FALSE
    <3>1. i \in a .. k - 1 BY <2>1, <1>1, <1>2
    <3>. QED BY <2>1, <3>1, <1>1 DEF Chat!MayBeDue, StillUnderWay
  <2>2. ASSUME NEW i \in D PROVE i \in k .. T - 1
    <3>1. i \in a .. T - 1 BY <1>1, <1>2
    <3>2. i \notin 0 .. k - 1 BY <2>1
    <3>. QED BY <3>1, <3>2
  <2>. QED BY <2>2
<1>4. h \in U /\ \A x \in U : h <= x
  <2>1. T \in U BY <1>0, <1>1, <1>3
  <2>2. U \subseteq Int OBVIOUS
  <2>3. IsFiniteSet(U)
    <3>1. IsFiniteSet(k .. T)
      <4>1. k \in Int /\ T \in Int BY <1>0
      <4>. QED BY <4>1, FS_Interval
    <3>2. U \subseteq k .. T OBVIOUS
    <3>. QED BY <3>1, <3>2, FS_Subset
  <2>. HIDE DEF U
  <2>. QED BY <2>1, <2>2, <2>3, MinIsLeast
<1>. HIDE DEF h
<1>5. h \in k .. T /\ h \notin D BY <1>4
<1>6. ASSUME NEW j \in D PROVE j \in k .. h - 1
  <2>1. j \in k .. T - 1 BY <1>3
  <2>2. CASE j > h
    <3>0. h \in a .. T - 1 /\ h \notin 0 .. k - 1 BY <2>1, <2>2, <1>0, <1>1, <1>5
    <3>1. h \in list[n] \ sent[n] BY <3>0, <1>1
    <3>2. j \in D \ sent[n] BY <2>1, <1>1
    <3>3. h < j BY <2>1, <2>2, <1>5
    <3>. QED BY <3>1, <3>2, <3>3, <1>5 DEF FirstFirst
  <2>3. j # h BY <1>5
  <2>. QED BY <2>1, <2>2, <2>3, <1>5
<1>7. ASSUME NEW j \in k .. h - 1 PROVE j \in D
  <2>1. j \in k .. T /\ ~(h <= j) BY <1>0, <1>5
  <2>. QED BY <2>1, <1>4
<1>8. D = k .. h - 1 BY <1>6, <1>7
<1>. QED BY <1>5, <1>8

LEMMA HearData ==
    ASSUME Chat!ChunksConstants, ChatTypes, NEW n \in Nodes, Speaks(n, Chat!Peer(n)),
           NEW q \in Nodes, Chat!receive_data(q)
    PROVE  /\ Speaks(n, Chat!Peer(n))' \/ Answers(n, Chat!Peer(n))'
           /\ Chat!PrintedWhole => Chat!PrintedWhole'
<1>. DEFINE m == Chat!Peer(n)
            g == msg[n]
            T == g.total
<1>0. m \in Nodes /\ m # n /\ Chat!Peer(m) = n /\ Nodes = {n, m} BY Sides
<1>. HIDE DEF m
<1>1. /\ sending[n] /\ ~sending[m] /\ list[m] = {} /\ received[n] = <<>>
      /\ \/ Quiet(n, m)
         \/ \E a, b, k \in 0 .. MaxChunks : Flows(n, m, a, b, k)
  BY DEF Speaks, m
<1>2. q = m /\ datagrams[m] # <<>> BY <1>0, <1>1 DEF Chat!receive_data
<1>3. PICK a \in 0 .. MaxChunks, b \in 0 .. MaxChunks, k \in 0 .. MaxChunks :
        Flows(n, m, a, b, k)
  BY <1>1, <1>2 DEF Quiet
<1>4. /\ Out(n, a, k) /\ a <= b /\ b <= k /\ b < T
      /\ received[m] = Part(n, 0, b)
      /\ datagrams[n] = Part(n, a, b) /\ datagrams[m] = Part(n, b, k)
  BY <1>3 DEF Flows
<1>5. a < T /\ a <= k /\ k <= T /\ list[n] = a .. T - 1 /\ sent[n] = 0 .. k - 1
  BY <1>4 DEF Out
<1>6. g \in Messages /\ T \in Nat /\ a \in Nat /\ b \in Nat /\ k \in Nat /\ MaxChunks \in Nat
  BY DEF ChatTypes, Messages, Chat!ChunksConstants
<1>7. b < k /\ b <= T
  <2>1. b = k <=> Part(n, b, k) = <<>> BY <1>4, <1>5, <1>6, PartIs
  <2>. QED BY <2>1, <1>2, <1>4, <1>5, <1>6
<1>. DEFINE x == Head(datagrams[m])
            s == Append(received[m], x)
<1>8. x = Piece(n, g, b) /\ Tail(datagrams[m]) = Part(n, b + 1, k)
  BY <1>4, <1>5, <1>6, <1>7, PartTail
<1>9. s = Part(n, 0, b + 1) /\ datagrams[n] \o <<x>> = Part(n, a, b + 1)
  <2>1. 0 \in Nat /\ 0 <= b BY <1>6
  <2>2. Append(Part(n, 0, b), Piece(n, g, b)) = Part(n, 0, b + 1) BY <2>1, <1>4, <1>6, PartMore
  <2>3. Part(n, a, b) \o <<Piece(n, g, b)>> = Part(n, a, b + 1) BY <1>4, <1>6, PartMore
  <2>. QED BY <2>2, <2>3, <1>4, <1>8
<1>10. Head(s).total = T /\ x.seq = b
  <2>1. b + 1 \in Nat /\ 0 < b + 1 /\ b + 1 <= T /\ 0 \in Nat BY <1>4, <1>6
  <2>2. Head(Part(n, 0, b + 1)) = Piece(n, g, 0) BY <2>1, PartTail
  <2>. HIDE DEF s, x
  <2>3. Head(s) = Piece(n, g, 0) BY <2>2, <1>9
  <2>. QED BY <2>3, <1>8 DEF Piece
<1>11. /\ datagrams' = [datagrams EXCEPT ![m] = Tail(@), ![n] = @ \o <<x>>]
       /\ UNCHANGED <<list, sent, msg>>
       /\ T = b + 1 => /\ printed' = [printed EXCEPT ![m] = Chat!Text(s)]
                       /\ received' = [received EXCEPT ![m] = <<>>]
                       /\ sending' = [sending EXCEPT ![m] = TRUE]
       /\ T # b + 1 => /\ received' = [received EXCEPT ![m] = s]
                       /\ UNCHANGED <<printed, sending>>
  <2>. HIDE DEF s
  <2>1. Chat!Peer(q) = n BY <1>0, <1>2
  <2>2. s = Append(received[q], Head(datagrams[q])) BY <1>2 DEF s
  <2>. QED
    BY <2>1, <2>2, <1>2, <1>10 DEF Chat!receive_data, Chat!Passing, Chat!sender
<1>. HIDE DEF x, s
<1>12. /\ datagrams'[m] = Part(n, b + 1, k) /\ datagrams'[n] = Part(n, a, b + 1)
  BY <1>0, <1>8, <1>9, <1>11 DEF ChatTypes
<1>13. \A i, j : Part(n, i, j)' = Part(n, i, j) BY <1>11 DEF Part
<1>14. Out(n, a, k)' BY <1>4, <1>11 DEF Out
<1>15. CASE T = b + 1
  <2>1. k = T BY <1>5, <1>6, <1>7, <1>15
  <2>2. /\ printed'[m] = Part(n, 0, T) /\ printed'[n] = printed[n]
        /\ received'[m] = <<>> /\ received'[n] = <<>>
        /\ sending'[m] /\ sending'[n]
    <3>1. Chat!Text(Cut(n, g, 0, T)) = Cut(n, g, 0, T) BY <1>4, <1>6, TextIs
    <3>2. Chat!Text(s) = Part(n, 0, T) BY <3>1, <1>9, <1>15 DEF Part
    <3>. QED BY <3>2, <1>0, <1>1, <1>11, <1>15 DEF ChatTypes
  <2>3. datagrams'[m] = <<>>
    <3>1. b + 1 = k BY <2>1, <1>15
    <3>2. b + 1 \in Nat /\ b + 1 <= T BY <1>6, <1>15
    <3>3. Part(n, b + 1, b + 1) = <<>> BY <3>2, PartIs
    <3>. QED BY <3>1, <3>3, <1>12
  <2>4. Answers(n, m)'
    <3>1. list'[m] = {} /\ msg'[n].total = T BY <1>1, <1>11
    <3>2. datagrams'[n] = Part(n, a, T) BY <1>12, <1>15
    <3>3. Echoes(n, m, a)' BY <3>1, <3>2, <1>13 DEF Echoes
    <3>4. Out(n, a, msg[n].total)' BY <3>1, <2>1, <1>14
    <3>. QED BY <3>1, <3>3, <3>4, <2>2, <2>3, <1>13 DEF Answers
  <2>5. ASSUME Chat!PrintedWhole PROVE Chat!PrintedWhole'
    <3>1. IsCut(Part(n, 0, T), n, g, 0, T) BY <1>6, CutIs DEF Part
    <3>2. /\ Len(printed'[m]) = T
          /\ \A i \in 1 .. T : printed'[m][i] = Piece(n, g, i - 1)
      <4>1. T - 0 = T /\ \A i \in 1 .. T : 0 + i - 1 = i - 1 BY <1>6
      <4>. QED BY <3>1, <4>1, <2>2 DEF IsCut
    <3>3. ASSUME NEW i \in 1 .. T
          PROVE  LET y == printed'[m][i] IN
                 /\ y # None
                 /\ y.from = Chat!Peer(m) /\ y.seq = i - 1 /\ y.total = Len(printed'[m])
                 /\ y.msg = printed'[m][1].msg
      <4>1. printed'[m][i] = Piece(n, g, i - 1) /\ printed'[m][1] = Piece(n, g, 0)
        <5>1. 1 \in 1 .. T /\ 1 - 1 = 0 BY <1>6
        <5>. QED BY <5>1, <3>2
      <4>2. Piece(n, g, i - 1) \in Chat!Chunks
        <5>1. Part(n, 0, T) \in Seq(Chat!Chunks) BY <3>1 DEF IsCut
        <5>2. i \in 1 .. Len(Part(n, 0, T)) BY <2>2, <3>2
        <5>3. Part(n, 0, T)[i] \in Chat!Chunks BY <5>1, <5>2, ElementOfSeq
        <5>. QED BY <5>3, <4>1, <2>2
      <4>3. None \notin Chat!Chunks BY DEF Chat!ChunksConstants
      <4>. QED BY <4>1, <4>2, <4>3, <3>2, <1>0 DEF Piece
    <3>4. ASSUME NEW i \in 1 .. Len(printed'[n])
          PROVE  LET y == printed'[n][i] IN
                 /\ y # None
                 /\ y.from = Chat!Peer(n) /\ y.seq = i - 1 /\ y.total = Len(printed'[n])
                 /\ y.msg = printed'[n][1].msg
      BY <2>2, <2>5 DEF Chat!PrintedWhole, Nodes
    <3>. QED BY <3>2, <3>3, <3>4, <1>0 DEF Chat!PrintedWhole, Nodes
  <2>. QED BY <2>4, <2>5 DEF m
<1>16. CASE T # b + 1
  <2>1. b + 1 \in 0 .. MaxChunks /\ b + 1 < T /\ a <= b + 1 /\ b + 1 <= k
    BY <1>4, <1>5, <1>6, <1>7, <1>16
  <2>2. received'[m] = Part(n, 0, b + 1) /\ received'[n] = <<>>
    BY <1>0, <1>1, <1>9, <1>11, <1>16 DEF ChatTypes
  <2>3. Flows(n, m, a, b + 1, k)'
    BY <2>1, <2>2, <1>11, <1>12, <1>13, <1>14 DEF Flows
  <2>4. Speaks(n, m)' BY <2>1, <2>2, <2>3, <1>1, <1>11, <1>16 DEF Speaks
  <2>5. Chat!PrintedWhole => Chat!PrintedWhole'
    BY <1>11, <1>16 DEF Chat!PrintedWhole
  <2>. QED BY <2>4, <2>5 DEF m
<1>. QED BY <1>15, <1>16

(* A removal from an interval at its beginning.                            *)
LEMMA WithoutFirst ==
    ASSUME NEW a \in Nat, NEW h \in Nat, a < h
    PROVE  (a .. h - 1) \ {a} = (a + 1) .. h - 1 /\ (a + 1 < h <=> (a + 1) .. h - 1 # {})
<1>1. (a .. h - 1) \ {a} = (a + 1) .. h - 1 OBVIOUS
<1>2. ASSUME a + 1 < h PROVE (a + 1) .. h - 1 # {}
  <2>1. a + 1 \in (a + 1) .. h - 1 BY <1>2
  <2>. QED BY <2>1
<1>3. ASSUME ~(a + 1 < h) PROVE (a + 1) .. h - 1 = {} BY <1>3
<1>. QED BY <1>1, <1>2, <1>3

LEMMA HearEcho ==
    ASSUME Chat!ChunksConstants, ChatTypes, NEW n \in Nodes, Speaks(n, Chat!Peer(n)),
           NEW q \in Nodes, Chat!receive_ack(q)
    PROVE  Speaks(n, Chat!Peer(n))' /\ Chat!AcksOnlyArrived
<1>. DEFINE m == Chat!Peer(n)
            g == msg[n]
            T == g.total
<1>0. m \in Nodes /\ m # n /\ Chat!Peer(m) = n /\ Nodes = {n, m} BY Sides
<1>. HIDE DEF m
<1>1. /\ sending[n] /\ ~sending[m] /\ list[m] = {} /\ received[n] = <<>>
      /\ \/ Quiet(n, m)
         \/ \E a, b, k \in 0 .. MaxChunks : Flows(n, m, a, b, k)
  BY DEF Speaks, m
<1>2. q = n /\ datagrams[n] # <<>> BY <1>0, <1>1 DEF Chat!receive_ack
<1>3. PICK a \in 0 .. MaxChunks, b \in 0 .. MaxChunks, k \in 0 .. MaxChunks :
        Flows(n, m, a, b, k)
  BY <1>1, <1>2 DEF Quiet
<1>4. /\ Out(n, a, k) /\ a <= b /\ b <= k /\ b < T
      /\ received[m] = Part(n, 0, b)
      /\ datagrams[n] = Part(n, a, b) /\ datagrams[m] = Part(n, b, k)
  BY <1>3 DEF Flows
<1>5. a < T /\ a <= k /\ k <= T /\ list[n] = a .. T - 1 /\ sent[n] = 0 .. k - 1
  BY <1>4 DEF Out
<1>6. g \in Messages /\ T \in Nat /\ a \in Nat /\ b \in Nat /\ k \in Nat /\ MaxChunks \in Nat
  BY DEF ChatTypes, Messages, Chat!ChunksConstants
<1>7. a < b /\ b <= T
  <2>1. b <= T BY <1>4, <1>6
  <2>2. a = b <=> Part(n, a, b) = <<>> BY <2>1, <1>4, <1>6, PartIs
  <2>. QED BY <2>1, <2>2, <1>2, <1>4, <1>6
<1>8. Head(datagrams[n]) = Piece(n, g, a) /\ Tail(datagrams[n]) = Part(n, a + 1, b)
  BY <1>4, <1>6, <1>7, PartTail
<1>9. Head(datagrams[n]).seq = a BY <1>8 DEF Piece
<1>10. /\ datagrams' = [datagrams EXCEPT ![n] = Tail(@)]
       /\ list' = [list EXCEPT ![n] = @ \ {a}]
       /\ sending' = [sending EXCEPT ![n] = list'[n] # {}]
       /\ UNCHANGED <<sent, msg, received, printed>>
  BY <1>2, <1>9 DEF Chat!receive_ack
<1>11. a + 1 < T /\ a + 1 <= b /\ a + 1 \in 0 .. MaxChunks /\ a + 1 <= k
  BY <1>4, <1>5, <1>6, <1>7
<1>12. list'[n] = (a + 1) .. T - 1 /\ list'[m] = {} /\ list'[n] # {}
  <2>1. list'[n] = (a .. T - 1) \ {a} BY <1>5, <1>10 DEF ChatTypes
  <2>2. list'[m] = {} BY <1>0, <1>1, <1>10 DEF ChatTypes
  <2>. QED BY <2>1, <2>2, <1>5, <1>6, <1>11, WithoutFirst
<1>13. sending'[n] /\ sending'[m] = sending[m] BY <1>0, <1>10, <1>12 DEF ChatTypes
<1>14. \A i, j : Part(n, i, j)' = Part(n, i, j) BY <1>10 DEF Part
<1>15. Out(n, a + 1, k)' BY <1>5, <1>10, <1>11, <1>12 DEF Out
<1>16. datagrams'[n] = Part(n, a + 1, b) /\ datagrams'[m] = Part(n, b, k)
  BY <1>0, <1>4, <1>8, <1>10 DEF ChatTypes
<1>17. Flows(n, m, a + 1, b, k)'
  BY <1>4, <1>10, <1>11, <1>14, <1>15, <1>16 DEF Flows
<1>18. Speaks(n, m)'
  BY <1>1, <1>10, <1>11, <1>12, <1>13, <1>17 DEF Speaks
<1>19. Chat!AcksOnlyArrived BY <1>0, <1>1, <1>13 DEF Chat!AcksOnlyArrived, Nodes
<1>. QED BY <1>18, <1>19 DEF m

(* Sending of the side that has the word.                                  *)
LEMMA Sends ==
    ASSUME Chat!ChunksConstants, ChatTypes, NEW n \in Nodes,
           NEW a \in Nat, NEW k \in Nat, Out(n, a, k),
           StillUnderWay(n, a, k), NEW D \in SUBSET list[n], Chat!send(n, D)
    PROVE  \E h \in k .. msg[n].total :
             /\ datagrams' = [datagrams EXCEPT ![Chat!Peer(n)] = @ \o Part(n, k, h)]
             /\ sent'[n] = 0 .. h - 1
             /\ \A i \in Nodes \ {n} : sent'[i] = sent[i]
             /\ UNCHANGED <<sending, list, msg, received, printed>>
<1>1. PICK h \in k .. msg[n].total : D = k .. h - 1
  <2>1. D \subseteq Chat!MayBeDue(n) /\ FirstFirst(n, D) BY DEF Chat!send, FirstFirst
  <2>. QED BY <2>1, DueIs
<1>2. msg[n].total \in Nat /\ h \in Nat /\ k <= h
  BY DEF ChatTypes, Messages
<1>3. Chat!InOrder(n, D) = Part(n, k, h) BY <1>1, <1>2, InOrderIs
<1>4. datagrams' = [datagrams EXCEPT ![Chat!Peer(n)] = @ \o Part(n, k, h)]
  BY <1>3 DEF Chat!send, Chat!Passing
<1>5. sent' = [sent EXCEPT ![n] = @ \cup D] BY DEF Chat!send
<1>6. sent'[n] = 0 .. h - 1
  <2>1. sent'[n] = (0 .. k - 1) \cup (k .. h - 1) BY <1>1, <1>5 DEF ChatTypes, Out
  <2>2. (0 .. k - 1) \cup (k .. h - 1) = 0 .. h - 1 BY <1>2
  <2>. QED BY <2>1, <2>2
<1>7. UNCHANGED <<sending, list, msg, received, printed>> BY DEF Chat!send
<1>8. \A i \in Nodes \ {n} : sent'[i] = sent[i] BY <1>5 DEF ChatTypes
<1>. QED BY <1>4, <1>6, <1>7, <1>8

LEMMA SendFirst ==
    ASSUME Chat!ChunksConstants, ChatTypes, NEW n \in Nodes, Speaks(n, Chat!Peer(n)),
           NEW q \in Nodes, NEW D \in SUBSET list[q], Chat!send(q, D)
    PROVE  Speaks(n, Chat!Peer(n))'
<1>. DEFINE m == Chat!Peer(n)
            g == msg[n]
            T == g.total
<1>0. m \in Nodes /\ m # n /\ Chat!Peer(m) = n /\ Nodes = {n, m} BY Sides
<1>. HIDE DEF m
<1>1. /\ sending[n] /\ ~sending[m] /\ list[m] = {} /\ received[n] = <<>>
      /\ \/ Quiet(n, m)
         \/ \E a, b, k \in 0 .. MaxChunks : Flows(n, m, a, b, k)
  BY DEF Speaks, m
<1>2. q = n /\ list[n] # {} BY <1>0, <1>1 DEF Chat!send
<1>3. PICK a \in 0 .. MaxChunks, b \in 0 .. MaxChunks, k \in 0 .. MaxChunks :
        Flows(n, m, a, b, k)
  BY <1>1, <1>2 DEF Quiet
<1>4. /\ Out(n, a, k) /\ a <= b /\ b <= k /\ b < T
      /\ received[m] = Part(n, 0, b)
      /\ datagrams[n] = Part(n, a, b) /\ datagrams[m] = Part(n, b, k)
  BY <1>3 DEF Flows
<1>5. a < T /\ a <= k /\ k <= T /\ list[n] = a .. T - 1 /\ sent[n] = 0 .. k - 1
  BY <1>4 DEF Out
<1>6. g \in Messages /\ T \in 0 .. MaxChunks /\ a \in Nat /\ b \in Nat /\ k \in Nat /\ MaxChunks \in Nat
  BY DEF ChatTypes, Messages, Chat!ChunksConstants
<1>7. ASSUME NEW i \in a .. k - 1 PROVE Chat!UnderWay(n, i)
  <2>1. CASE i < b
    <3>1. i \in a .. b - 1 /\ b <= T BY <2>1, <1>4, <1>6
    <3>2. Carries(datagrams[n], Chat!Chunk(n, i)) BY <3>1, <1>4, <1>6, InPart
    <3>. QED BY <3>2 DEF Chat!UnderWay, Nodes, Carries
  <2>2. CASE ~(i < b)
    <3>1. i \in b .. k - 1 BY <2>2, <1>6
    <3>2. Carries(datagrams[m], Chat!Chunk(n, i)) BY <3>1, <1>4, <1>5, <1>6, InPart
    <3>. QED BY <3>2, <1>0 DEF Chat!UnderWay, Nodes, Carries
  <2>. QED BY <2>1, <2>2
<1>8. PICK h \in k .. T :
        /\ datagrams' = [datagrams EXCEPT ![m] = @ \o Part(n, k, h)]
        /\ sent'[n] = 0 .. h - 1
        /\ UNCHANGED <<sending, list, msg, received, printed>>
  <2>1. D \in SUBSET list[n] /\ Chat!send(n, D) BY <1>2
  <2>2. StillUnderWay(n, a, k) BY <1>7 DEF StillUnderWay
  <2>. QED BY <2>1, <2>2, <1>4, <1>6, Sends DEF m
<1>9. h \in 0 .. MaxChunks /\ h \in Nat /\ b <= h /\ h <= T /\ a <= h /\ k <= h BY <1>4, <1>5, <1>6
<1>10. \A i, j : Part(n, i, j)' = Part(n, i, j) BY <1>8 DEF Part
<1>11. datagrams'[n] = Part(n, a, b) /\ datagrams'[m] = Part(n, b, h)
  <2>1. Part(n, b, k) \o Part(n, k, h) = Part(n, b, h) BY ZenonT(40), <1>4, <1>6, <1>9, PartJoin
  <2>. QED BY <2>1, <1>0, <1>4, <1>8 DEF ChatTypes
<1>12. Out(n, a, h)' BY <1>5, <1>8, <1>9 DEF Out
<1>13. Flows(n, m, a, b, h)' BY <1>4, <1>8, <1>9, <1>10, <1>11, <1>12 DEF Flows
<1>14. Speaks(n, m)' BY <1>1, <1>8, <1>9, <1>13 DEF Speaks
<1>. QED BY <1>14 DEF m

(* A message is typed by a node whose last one is done with; it may be     *)
(* empty, and then the node is asked again.                                *)
LEMMA Prompted ==
    ASSUME Chat!ChunksConstants, ChatTypes, NEW n \in Nodes,
           NEW j \in 0 .. MaxChunks, Chat!prompt(n, j)
    PROVE  /\ list[n] = {} /\ sending[n]
           /\ list'[n] = {} \/ Out(n, 0, 0)'
           /\ msg' \in [Nodes -> Messages] /\ \A i \in Nodes \ {n} : msg'[i] = msg[i]
           /\ \A i \in Nodes \ {n} : list'[i] = list[i] /\ sent'[i] = sent[i]
           /\ UNCHANGED <<sending, received, printed, datagrams>>
<1>1. /\ list[n] = {} /\ sending[n]
      /\ msg' = [msg EXCEPT ![n] = [id |-> (@.id + 1) % 3, total |-> j]]
      /\ list' = [list EXCEPT ![n] = 0 .. j - 1]
      /\ sent' = [sent EXCEPT ![n] = {}]
      /\ UNCHANGED <<sending, received, printed, datagrams>>
  BY DEF Chat!prompt
<1>2. [id |-> (msg[n].id + 1) % 3, total |-> j] \in Messages
  <2>1. msg[n].id \in 0 .. 2 BY DEF ChatTypes, Messages
  <2>2. (msg[n].id + 1) % 3 \in 0 .. 2 BY <2>1
  <2>. QED BY <2>2 DEF Messages
<1>3. msg' \in [Nodes -> Messages] /\ msg'[n].total = j BY <1>1, <1>2 DEF ChatTypes
<1>4. list'[n] = 0 .. j - 1 /\ sent'[n] = {} BY <1>1 DEF ChatTypes
<1>5. CASE j = 0
  <2>1. 0 .. j - 1 = {} BY <1>5
  <2>. QED BY <2>1, <1>1, <1>3, <1>4 DEF ChatTypes
<1>6. CASE j # 0
  <2>1. 0 < j /\ 0 .. 0 - 1 = {} /\ 0 <= 0 /\ 0 <= j BY <1>6
  <2>2. Out(n, 0, 0)' BY <2>1, <1>3, <1>4 DEF Out
  <2>. QED BY <2>2, <1>1, <1>3 DEF ChatTypes
<1>. QED BY <1>5, <1>6

LEMMA Empty ==
    ASSUME NEW n, NEW g, NEW i \in Int
    PROVE  Cut(n, g, i, i) = <<>>
<1>1. 1 .. i - i = {} OBVIOUS
<1>. QED BY <1>1 DEF Cut

LEMMA TypeFirst ==
    ASSUME Chat!ChunksConstants, ChatTypes, NEW n \in Nodes, Speaks(n, Chat!Peer(n)),
           NEW q \in Nodes, NEW j \in 0 .. MaxChunks, Chat!prompt(q, j)
    PROVE  Speaks(n, Chat!Peer(n))'
<1>. DEFINE m == Chat!Peer(n)
<1>0. m \in Nodes /\ m # n /\ Chat!Peer(m) = n /\ Nodes = {n, m} BY Sides
<1>. HIDE DEF m
<1>1. /\ sending[n] /\ ~sending[m] /\ list[m] = {} /\ received[n] = <<>>
      /\ \/ Quiet(n, m)
         \/ \E a, b, k \in 0 .. MaxChunks : Flows(n, m, a, b, k)
  BY DEF Speaks, m
<1>2. q = n /\ list[n] = {} BY <1>0, <1>1, Prompted
<1>3. /\ list'[n] = {} \/ Out(n, 0, 0)'
      /\ msg' \in [Nodes -> Messages]
      /\ \A i \in Nodes \ {n} : list'[i] = list[i]
      /\ UNCHANGED <<sending, received, printed, datagrams>>
  BY <1>2, Prompted
<1>4. Quiet(n, m)
  <2>1. ASSUME NEW a \in 0 .. MaxChunks, NEW b \in 0 .. MaxChunks, NEW k \in 0 .. MaxChunks,
               Flows(n, m, a, b, k)
        PROVE  FALSE
    <3>1. a < msg[n].total /\ list[n] = a .. msg[n].total - 1 BY <2>1 DEF Flows, Out
    <3>2. msg[n].total \in Nat BY DEF ChatTypes, Messages
    <3>3. a \in list[n] BY <3>1, <3>2
    <3>. QED BY <3>3, <1>2
  <2>. QED BY <2>1, <1>1
<1>5. received[m] = <<>> /\ datagrams[n] = <<>> /\ datagrams[m] = <<>>
  BY <1>4 DEF Quiet
<1>6. list'[m] = {} BY <1>0, <1>1, <1>3
<1>7. CASE list'[n] = {}
  <2>1. Quiet(n, m)' BY <1>3, <1>5, <1>7 DEF Quiet
  <2>. QED BY <2>1, <1>1, <1>3, <1>6 DEF Speaks, m
<1>8. CASE Out(n, 0, 0)'
  <2>1. Part(n, 0, 0)' = <<>> BY Empty DEF Part
  <2>2. 0 < msg'[n].total BY <1>8 DEF Out
  <2>3. Flows(n, m, 0, 0, 0)' BY <2>1, <2>2, <1>3, <1>5, <1>8 DEF Flows
  <2>4. 0 \in 0 .. MaxChunks BY DEF Chat!ChunksConstants
  <2>5. Speaks(n, m)' BY <2>3, <2>4, <1>1, <1>3, <1>6 DEF Speaks
  <2>. QED BY <2>5 DEF m
<1>. QED BY <1>3, <1>7, <1>8

(* The same once the answer has begun.                                     *)
LEMMA HearLate ==
    ASSUME Chat!ChunksConstants, ChatTypes, NEW n \in Nodes, Answers(n, Chat!Peer(n)),
           NEW q \in Nodes, Chat!receive_ack(q)
    PROVE  /\ Answers(n, Chat!Peer(n))' \/ Speaks(Chat!Peer(n), n)'
           /\ Chat!AcksOnlyArrived
<1>. DEFINE m == Chat!Peer(n)
            g == msg[n]
            T == g.total
<1>0. m \in Nodes /\ m # n /\ Chat!Peer(m) = n /\ Nodes = {n, m} BY Sides
<1>. HIDE DEF m
<1>1. /\ sending[n] /\ sending[m] /\ received[n] = <<>> /\ received[m] = <<>>
      /\ datagrams[m] = <<>> /\ printed[m] = Part(n, 0, T)
      /\ \E a \in 0 .. MaxChunks : Out(n, a, T) /\ Echoes(n, m, a)
  BY DEF Answers, m
<1>2. q = n BY <1>0, <1>1 DEF Chat!receive_ack
<1>3. PICK a \in 0 .. MaxChunks : Out(n, a, T) /\ Echoes(n, m, a) BY <1>1
<1>4. a < T /\ list[n] = a .. T - 1 /\ sent[n] = 0 .. T - 1 BY <1>3 DEF Out
<1>5. /\ g \in Messages /\ T \in Nat /\ a \in Nat /\ a <= T /\ T <= T /\ a + 1 \in Nat
      /\ a + 1 \in 0 .. MaxChunks /\ a + 1 <= T
  BY <1>4 DEF ChatTypes, Messages, Chat!ChunksConstants
<1>. DEFINE Answer == {s \in Seq(Chat!Chunks) :
                \/ list[m] = {} /\ s = <<>>
                \/ \E k \in 0 .. MaxChunks : Out(m, 0, k) /\ s = Part(m, 0, k)}
<1>6. PICK s \in Answer : datagrams[n] = Part(n, a, T) \o s
  <2>1. Part(n, a, T) \in Seq(Chat!Chunks) BY <1>5, PartIs
  <2>2. CASE list[m] = {} /\ datagrams[n] = Part(n, a, T)
    <3>1. <<>> \in Seq(Chat!Chunks) /\ Part(n, a, T) \o <<>> = Part(n, a, T)
      BY <2>1, EmptySeq, ConcatEmptySeq
    <3>. QED BY <2>2, <3>1
  <2>3. ASSUME NEW k \in 0 .. MaxChunks, Out(m, 0, k),
               datagrams[n] = Part(n, a, T) \o Part(m, 0, k)
        PROVE  \E s \in Answer : datagrams[n] = Part(n, a, T) \o s
    <3>1. k <= msg[m].total /\ 0 <= k BY <2>3 DEF Out
    <3>2. Part(m, 0, k) \in Seq(Chat!Chunks) BY <3>1, <1>0, PartIs
    <3>. QED BY <2>3, <3>2
  <2>. QED BY <2>2, <2>3, <1>3 DEF Echoes
<1>. HIDE DEF Answer
<1>7. s \in Seq(Chat!Chunks) BY DEF Answer
<1>8. /\ datagrams[n] # <<>> /\ Head(datagrams[n]) = Piece(n, g, a)
      /\ Tail(datagrams[n]) = Part(n, a + 1, T) \o s
  <2>1. /\ Part(n, a, T) \in Seq(Chat!Chunks) /\ Part(n, a, T) # <<>>
    <3>1. a = T <=> Part(n, a, T) = <<>> BY <1>5, PartIs
    <3>2. Part(n, a, T) \in Seq(Chat!Chunks) BY <1>5, PartIs
    <3>3. a # T BY <1>4, <1>5
    <3>. QED BY <3>1, <3>2, <3>3
  <2>2. Head(Part(n, a, T)) = Piece(n, g, a) /\ Tail(Part(n, a, T)) = Part(n, a + 1, T)
    BY <1>4, <1>5, PartTail
  <2>. QED BY ZenonT(40), <2>1, <2>2, <1>6, <1>7, TailOfConcat
<1>9. Head(datagrams[n]).seq = a BY <1>8 DEF Piece
<1>10. /\ datagrams' = [datagrams EXCEPT ![n] = Tail(@)]
       /\ list' = [list EXCEPT ![n] = @ \ {a}]
       /\ sending' = [sending EXCEPT ![n] = list'[n] # {}]
       /\ UNCHANGED <<sent, msg, received, printed>>
  BY <1>2, <1>9 DEF Chat!receive_ack
<1>11. /\ list'[n] = (a + 1) .. T - 1 /\ list'[m] = list[m]
       /\ sending'[n] <=> a + 1 < T
       /\ sending'[m]
       /\ datagrams'[n] = Part(n, a + 1, T) \o s /\ datagrams'[m] = <<>>
  <2>1. list'[n] = (a .. T - 1) \ {a} BY <1>4, <1>10 DEF ChatTypes
  <2>2. list'[n] = (a + 1) .. T - 1 /\ (a + 1 < T <=> list'[n] # {})
    BY <2>1, <1>4, <1>5, WithoutFirst
  <2>3. list'[m] = list[m] /\ sending'[m] /\ (sending'[n] <=> list'[n] # {})
    BY <1>0, <1>1, <1>10 DEF ChatTypes
  <2>4. datagrams'[n] = Part(n, a + 1, T) \o s /\ datagrams'[m] = <<>>
    BY <1>0, <1>1, <1>8, <1>10 DEF ChatTypes
  <2>. QED BY <2>2, <2>3, <2>4
<1>12. \A r, i, j : Part(r, i, j)' = Part(r, i, j) BY <1>10 DEF Part
<1>13. \A i, j : Out(m, i, j)' <=> Out(m, i, j) BY <1>10, <1>11 DEF Out
<1>14. CASE a + 1 < T
  <2>1. Out(n, a + 1, msg[n].total)' BY <1>4, <1>5, <1>10, <1>11, <1>14 DEF Out
  <2>2. Part(n, a + 1, T) \in Seq(Chat!Chunks) BY <1>5, PartIs
  <2>3. Echoes(n, m, a + 1)'
    <3>1. CASE list[m] = {} /\ s = <<>>
      <4>1. datagrams'[n] = Part(n, a + 1, T) BY <3>1, <2>2, <1>11, ConcatEmptySeq
      <4>. QED BY <4>1, <3>1, <1>10, <1>11, <1>12 DEF Echoes
    <3>2. ASSUME NEW k \in 0 .. MaxChunks, Out(m, 0, k), s = Part(m, 0, k)
          PROVE  Echoes(n, m, a + 1)'
      <4>1. Out(m, 0, k)' BY <3>2, <1>13
      <4>2. (datagrams[n] = Part(n, a + 1, msg[n].total) \o Part(m, 0, k))'
        BY <3>2, <1>10, <1>11, <1>12
      <4>. QED BY <4>1, <4>2 DEF Echoes
    <3>. QED BY <3>1, <3>2 DEF Answer
  <2>4. Answers(n, m)'
    BY <2>1, <2>3, <1>1, <1>5, <1>10, <1>11, <1>12, <1>14 DEF Answers
  <2>5. Chat!AcksOnlyArrived
    BY <1>0, <1>11, <1>14 DEF Chat!AcksOnlyArrived, Nodes
  <2>. QED BY <2>4, <2>5 DEF m
<1>15. CASE ~(a + 1 < T)
  <2>1. a + 1 = T BY <1>5, <1>15
  <2>2. Part(n, a + 1, T) = <<>> BY <2>1, <1>5, PartIs
  <2>3. datagrams'[n] = s BY <2>2, <1>7, <1>11, ConcatEmptySeq
  <2>4. list'[n] = {}
    <3>1. (a + 1) .. T - 1 = {} BY <2>1, <1>5
    <3>. QED BY <3>1, <1>11
  <2>5. Speaks(m, n)'
    <3>1. CASE list[m] = {} /\ s = <<>>
      <4>1. Quiet(m, n)' BY <3>1, <2>3, <1>1, <1>10, <1>11 DEF Quiet
      <4>. QED BY <4>1, <2>4, <1>1, <1>10, <1>11, <1>15 DEF Speaks
    <3>2. ASSUME NEW k \in 0 .. MaxChunks, Out(m, 0, k), s = Part(m, 0, k)
          PROVE  Speaks(m, n)'
      <4>1. Out(m, 0, k)' BY <3>2, <1>13
      <4>2. Part(m, 0, 0) = <<>> BY Empty DEF Part
      <4>3. 0 < msg'[m].total /\ 0 <= k BY <3>2, <1>10 DEF Out
      <4>4. Flows(m, n, 0, 0, k)'
        BY <4>1, <4>2, <4>3, <3>2, <2>3, <1>1, <1>10, <1>11, <1>12 DEF Flows
      <4>5. 0 \in 0 .. MaxChunks BY DEF Chat!ChunksConstants
      <4>. QED BY <4>4, <4>5, <2>4, <1>1, <1>10, <1>11, <1>15 DEF Speaks
    <3>. QED BY <3>1, <3>2 DEF Answer
  <2>6. Chat!Arrived(n)
    <3>1. IsCut(Part(n, 0, T), n, g, 0, T) BY <1>5, CutIs DEF Part
    <3>2. Len(printed[m]) = T /\ \A i \in 1 .. T : printed[m][i] = Piece(n, g, i - 1)
      <4>1. T - 0 = T /\ \A i \in 1 .. T : 0 + i - 1 = i - 1 BY <1>5
      <4>. QED BY <3>1, <4>1, <1>1 DEF IsCut
    <3>. QED BY <3>2 DEF Chat!Arrived, Chat!Chunk, Piece, m
  <2>7. Chat!AcksOnlyArrived
    BY <2>6, <1>0, <1>11 DEF Chat!AcksOnlyArrived, Nodes
  <2>. QED BY <2>5, <2>7 DEF m
<1>. QED BY <1>14, <1>15

LEMMA SendLate ==
    ASSUME Chat!ChunksConstants, ChatTypes, NEW n \in Nodes, Answers(n, Chat!Peer(n)),
           NEW q \in Nodes, NEW D \in SUBSET list[q], Chat!send(q, D)
    PROVE  Answers(n, Chat!Peer(n))'
<1>. DEFINE m == Chat!Peer(n)
            T == msg[n].total
<1>0. m \in Nodes /\ m # n /\ Chat!Peer(m) = n /\ Nodes = {n, m} BY Sides
<1>. HIDE DEF m
<1>1. /\ sending[n] /\ sending[m] /\ received[n] = <<>> /\ received[m] = <<>>
      /\ datagrams[m] = <<>> /\ printed[m] = Part(n, 0, T)
      /\ \E a \in 0 .. MaxChunks : Out(n, a, T) /\ Echoes(n, m, a)
  BY DEF Answers, m
<1>3. PICK a \in 0 .. MaxChunks : Out(n, a, T) /\ Echoes(n, m, a) BY <1>1
<1>4. a < T /\ list[n] = a .. T - 1 /\ sent[n] = 0 .. T - 1 BY <1>3 DEF Out
<1>5. /\ T \in Nat /\ a \in Nat /\ a <= T /\ T <= T
      /\ msg[m] \in Messages /\ msg[m].total \in 0 .. MaxChunks /\ MaxChunks \in Nat
  BY <1>0, <1>4 DEF ChatTypes, Messages, Chat!ChunksConstants
<1>6. Part(n, a, T) \in Seq(Chat!Chunks) BY <1>5, PartIs
<1>7. CASE q = n
  <2>1. ASSUME NEW i \in a .. T - 1 PROVE Chat!UnderWay(n, i)
    <3>1. Carries(Part(n, a, T), Chat!Chunk(n, i)) BY <1>5, InPart
    <3>2. Carries(datagrams[n], Chat!Chunk(n, i))
      <4>1. CASE datagrams[n] = Part(n, a, T) BY <3>1, <4>1
      <4>2. ASSUME NEW k \in 0 .. MaxChunks, Out(m, 0, k),
                   datagrams[n] = Part(n, a, T) \o Part(m, 0, k)
            PROVE  Carries(datagrams[n], Chat!Chunk(n, i))
        <5>. DEFINE s == Part(n, a, T)
                    t == Part(m, 0, k)
        <5>1. k <= msg[m].total /\ 0 <= k BY <4>2 DEF Out
        <5>2. t \in Seq(Chat!Chunks) /\ s \in Seq(Chat!Chunks) BY <5>1, <1>0, <1>6, PartIs
        <5>. HIDE DEF s, t
        <5>3. PICK h \in 1 .. Len(s) : s[h] = Chat!Chunk(n, i) BY <3>1 DEF Carries, s
        <5>4. Len(s) \in Nat /\ Len(t) \in Nat BY <5>2, LenProperties
        <5>5. /\ Len(s \o t) = Len(s) + Len(t)
              /\ \A j \in 1 .. Len(s) + Len(t) : (s \o t)[j] =
                     IF j <= Len(s) THEN s[j] ELSE t[j - Len(s)]
          BY <5>2, ConcatProperties
        <5>6. h \in 1 .. Len(s) + Len(t) /\ h <= Len(s) BY <5>4
        <5>7. h \in 1 .. Len(s \o t) /\ (s \o t)[h] = Chat!Chunk(n, i) BY <5>3, <5>5, <5>6
        <5>. QED BY <5>7, <4>2 DEF Carries, s, t
      <4>. QED BY <4>1, <4>2, <1>3 DEF Echoes
    <3>. QED BY <3>2 DEF Chat!UnderWay, Nodes, Carries
  <2>2. StillUnderWay(n, a, T) BY <2>1 DEF StillUnderWay
  <2>3. D \in SUBSET list[n] /\ Chat!send(n, D) BY <1>7
  <2>4. PICK h \in T .. msg[n].total :
          /\ datagrams' = [datagrams EXCEPT ![m] = @ \o Part(n, T, h)]
          /\ sent'[n] = 0 .. h - 1
          /\ \A i \in Nodes \ {n} : sent'[i] = sent[i]
          /\ UNCHANGED <<sending, list, msg, received, printed>>
    BY <2>2, <2>3, <1>3, <1>5, Sends DEF m
  <2>5. h = T BY <1>5
  <2>6. Part(n, T, h) = <<>> BY <2>5, <1>5, PartIs
  <2>7. datagrams'[n] = datagrams[n] /\ datagrams'[m] = <<>>
    BY <2>4, <2>6, <1>0, <1>1 DEF ChatTypes
  <2>8. \A r, i, j : Part(r, i, j)' = Part(r, i, j) BY <2>4 DEF Part
  <2>9. sent'[n] = sent[n] /\ sent'[m] = sent[m] BY <2>4, <2>5, <1>0, <1>4
  <2>10. /\ Out(n, a, msg[n].total)'
         /\ \A k : Out(m, 0, k)' <=> Out(m, 0, k)
    BY <2>4, <2>9, <1>3 DEF Out
  <2>11. Echoes(n, m, a)' BY <2>4, <2>7, <2>8, <2>10, <1>3 DEF Echoes
  <2>12. Answers(n, m)' BY <2>4, <2>7, <2>8, <2>10, <2>11, <1>1 DEF Answers
  <2>. QED BY <2>12 DEF m
<1>8. CASE q = m
  <2>1. list[m] # {} BY <1>8 DEF Chat!send
  <2>2. PICK k \in 0 .. MaxChunks :
          Out(m, 0, k) /\ datagrams[n] = Part(n, a, T) \o Part(m, 0, k)
    BY <2>1, <1>3 DEF Echoes
  <2>3. k <= msg[m].total /\ 0 <= k /\ k \in Nat /\ 0 \in Nat BY <2>2, <1>5 DEF Out
  <2>4. StillUnderWay(m, 0, k)
    <3>1. ASSUME NEW i \in 0 .. k - 1 PROVE Chat!UnderWay(m, i)
      <4>. DEFINE s == Part(n, a, T)
                  t == Part(m, 0, k)
      <4>1. Carries(t, Chat!Chunk(m, i)) BY <2>3, <1>0, InPart
      <4>2. t \in Seq(Chat!Chunks) /\ s \in Seq(Chat!Chunks) BY <2>3, <1>0, <1>6, PartIs
      <4>3. datagrams[n] = s \o t BY <2>2
      <4>. HIDE DEF s, t
      <4>4. PICK h \in 1 .. Len(t) : t[h] = Chat!Chunk(m, i) BY <4>1 DEF Carries
      <4>5. Len(s) \in Nat /\ Len(t) \in Nat BY <4>2, LenProperties
      <4>6. /\ Len(s \o t) = Len(s) + Len(t)
            /\ \A j \in 1 .. Len(s) + Len(t) : (s \o t)[j] =
                   IF j <= Len(s) THEN s[j] ELSE t[j - Len(s)]
        BY <4>2, ConcatProperties
      <4>7. /\ Len(s) + h \in 1 .. Len(s) + Len(t) /\ ~(Len(s) + h <= Len(s))
            /\ Len(s) + h - Len(s) = h
        BY <4>5
      <4>8. (s \o t)[Len(s) + h] = Chat!Chunk(m, i) BY <4>4, <4>6, <4>7
      <4>9. Carries(datagrams[n], Chat!Chunk(m, i)) BY <4>3, <4>6, <4>7, <4>8 DEF Carries
      <4>. QED BY <4>9 DEF Chat!UnderWay, Nodes, Carries
    <3>. QED BY <3>1 DEF StillUnderWay
  <2>5. D \in SUBSET list[m] /\ Chat!send(m, D) BY <1>8
  <2>6. PICK h \in k .. msg[m].total :
          /\ datagrams' = [datagrams EXCEPT ![Chat!Peer(m)] = @ \o Part(m, k, h)]
          /\ sent'[m] = 0 .. h - 1
          /\ \A i \in Nodes \ {m} : sent'[i] = sent[i]
          /\ UNCHANGED <<sending, list, msg, received, printed>>
    BY <2>2, <2>3, <2>4, <2>5, <1>0, Sends
  <2>7. h \in 0 .. MaxChunks /\ h \in Nat /\ k <= h /\ h <= msg[m].total BY <2>3, <1>5
  <2>8. datagrams'[n] = Part(n, a, T) \o Part(m, 0, h) /\ datagrams'[m] = <<>>
    <3>1. Part(m, 0, k) \o Part(m, k, h) = Part(m, 0, h) BY <2>3, <2>7, <1>0, PartJoin
    <3>2. Part(m, 0, k) \in Seq(Chat!Chunks) BY <2>3, <1>0, PartIs
    <3>3. Part(m, k, h) \in Seq(Chat!Chunks) BY <2>3, <2>7, <1>0, PartIs
    <3>4. (Part(n, a, T) \o Part(m, 0, k)) \o Part(m, k, h)
            = Part(n, a, T) \o (Part(m, 0, k) \o Part(m, k, h))
      BY SMTT(30), <3>2, <3>3, <1>6, ConcatAssociative
    <3>5. datagrams'[n] = datagrams[n] \o Part(m, k, h) /\ datagrams'[m] = <<>>
      BY <2>6, <1>0, <1>1 DEF ChatTypes
    <3>. QED BY <3>1, <3>4, <3>5, <2>2
  <2>9. \A r, i, j : Part(r, i, j)' = Part(r, i, j) BY <2>6 DEF Part
  <2>10. Out(n, a, msg[n].total)' BY <2>6, <1>0, <1>3 DEF Out
  <2>11. Out(m, 0, h)' BY <2>2, <2>6, <2>7 DEF Out
  <2>12. Echoes(n, m, a)' BY <2>6, <2>7, <2>8, <2>9, <2>11 DEF Echoes
  <2>13. Answers(n, m)' BY <2>6, <2>8, <2>9, <2>10, <2>12, <1>1 DEF Answers
  <2>. QED BY <2>13 DEF m
<1>. QED BY <1>0, <1>7, <1>8

LEMMA TypeLate ==
    ASSUME Chat!ChunksConstants, ChatTypes, NEW n \in Nodes, Answers(n, Chat!Peer(n)),
           NEW q \in Nodes, NEW j \in 0 .. MaxChunks, Chat!prompt(q, j)
    PROVE  Answers(n, Chat!Peer(n))'
<1>. DEFINE m == Chat!Peer(n)
            T == msg[n].total
<1>0. m \in Nodes /\ m # n /\ Chat!Peer(m) = n /\ Nodes = {n, m} BY Sides
<1>. HIDE DEF m
<1>1. /\ sending[n] /\ sending[m] /\ received[n] = <<>> /\ received[m] = <<>>
      /\ datagrams[m] = <<>> /\ printed[m] = Part(n, 0, T)
      /\ \E a \in 0 .. MaxChunks : Out(n, a, T) /\ Echoes(n, m, a)
  BY DEF Answers, m
<1>2. PICK a \in 0 .. MaxChunks : Out(n, a, T) /\ Echoes(n, m, a) BY <1>1
<1>3. a \in list[n] /\ T \in Nat /\ a <= T
  <2>1. a < T /\ list[n] = a .. T - 1 BY <1>2 DEF Out
  <2>2. T \in Nat BY DEF ChatTypes, Messages
  <2>. QED BY <2>1, <2>2
<1>4. q = m /\ list[m] = {} BY <1>0, <1>3, Prompted
<1>5. /\ list'[m] = {} \/ Out(m, 0, 0)'
      /\ msg' \in [Nodes -> Messages] /\ msg'[n] = msg[n]
      /\ list'[n] = list[n] /\ sent'[n] = sent[n]
      /\ UNCHANGED <<sending, received, printed, datagrams>>
  BY <1>0, <1>4, Prompted
<1>6. datagrams[n] = Part(n, a, T)
  <2>1. ASSUME NEW k, Out(m, 0, k) PROVE FALSE
    <3>1. 0 < msg[m].total /\ list[m] = 0 .. msg[m].total - 1 BY <2>1 DEF Out
    <3>2. msg[m].total \in Nat BY <1>0 DEF ChatTypes, Messages
    <3>3. 0 \in list[m] BY <3>1, <3>2
    <3>. QED BY <3>3, <1>4
  <2>. QED BY <2>1, <1>2 DEF Echoes
<1>7. \A i, h : Part(n, i, h)' = Part(n, i, h) BY <1>5 DEF Part
<1>8. Out(n, a, msg[n].total)' BY <1>2, <1>5 DEF Out
<1>9. Echoes(n, m, a)'
  <2>1. CASE list'[m] = {} BY <2>1, <1>5, <1>6, <1>7 DEF Echoes
  <2>2. CASE Out(m, 0, 0)'
    <3>1. Part(m, 0, 0)' = <<>> BY Empty DEF Part
    <3>2. Part(n, a, T) \in Seq(Chat!Chunks)
      <4>1. a \in Nat /\ T <= T BY <1>3
      <4>. QED BY <4>1, <1>3, PartIs
    <3>3. Part(n, a, T) \o <<>> = Part(n, a, T) BY <3>2, ConcatEmptySeq
    <3>4. (datagrams[n] = Part(n, a, msg[n].total) \o Part(m, 0, 0))'
      BY <3>1, <3>3, <1>5, <1>6, <1>7
    <3>5. 0 \in 0 .. MaxChunks BY DEF Chat!ChunksConstants
    <3>. QED BY <3>4, <3>5, <2>2 DEF Echoes
  <2>. QED BY <2>1, <2>2, <1>5
<1>10. Answers(n, m)' BY <1>1, <1>5, <1>7, <1>8, <1>9 DEF Answers
<1>. QED BY <1>10 DEF m

LEMMA InitChat == Chat!ChunksConstants /\ Chat!Init => ChatInv
<1>. SUFFICES ASSUME Chat!ChunksConstants, Chat!Init PROVE ChatInv OBVIOUS
<1>1. alice \in Nodes /\ bob \in Nodes /\ alice # bob /\ Chat!Peer(alice) = bob
  BY DEF Nodes, Chat!Nodes, Chat!ChunksConstants, Chat!Peer
<1>2. ChatTypes
  <2>1. [id |-> 0, total |-> 0] \in Messages BY DEF Messages, Chat!ChunksConstants
  <2>. QED BY <2>1 DEF Chat!Init, ChatTypes, Nodes
<1>3. Speaks(alice, bob) BY <1>1 DEF Chat!Init, Speaks, Quiet, Nodes
<1>4. Chat!PrintedWhole
  <2>1. \A n \in Nodes : Len(printed[n]) = 0 /\ 1 .. Len(printed[n]) = {}
    BY DEF Chat!Init, Nodes
  <2>. QED BY <2>1 DEF Chat!PrintedWhole, Nodes
<1>. QED BY <1>1, <1>2, <1>3, <1>4 DEF ChatInv, Talk

LEMMA StepChat ==
    Chat!ChunksConstants /\ ChatInv /\ [Chat!Next]_ChatVars =>
        ChatInv' /\ Chat!AcksOnlyArrived
<1>. SUFFICES ASSUME Chat!ChunksConstants, ChatInv, [Chat!Next]_ChatVars
              PROVE  ChatInv' /\ Chat!AcksOnlyArrived
  OBVIOUS
<1>0. ChatTypes /\ Talk /\ Chat!PrintedWhole BY DEF ChatInv
<1>. DEFINE Quietly == UNCHANGED <<sending, list, sent, received, msg, printed, datagrams>>
            Kept == UNCHANGED <<sending, printed>>
<1>1. PICK n \in Nodes : Speaks(n, Chat!Peer(n)) \/ Answers(n, Chat!Peer(n))
  BY <1>0 DEF Talk
<1>2. Chat!Peer(n) \in Nodes /\ Chat!Peer(Chat!Peer(n)) = n BY Sides
<1>3. Kept => Chat!PrintedWhole' /\ Chat!AcksOnlyArrived
  BY <1>0 DEF Chat!PrintedWhole, Chat!AcksOnlyArrived
<1>4. Speaks(n, Chat!Peer(n))' \/ Answers(n, Chat!Peer(n))' => Talk' BY DEF Talk
<1>5. Speaks(Chat!Peer(n), n)' => Talk' BY <1>2 DEF Talk
<1>6. CASE Quietly
  <2>1. ChatTypes' BY <1>0, <1>6 DEF ChatTypes
  <2>2. Speaks(n, Chat!Peer(n))' <=> Speaks(n, Chat!Peer(n))
    BY <1>6 DEF Speaks, Quiet, Flows, Out, Part
  <2>3. Answers(n, Chat!Peer(n))' <=> Answers(n, Chat!Peer(n))
    BY <1>6 DEF Answers, Echoes, Out, Part
  <2>. QED BY <2>1, <2>2, <2>3, <1>1, <1>3, <1>4, <1>6 DEF ChatInv
<1>7. ASSUME NEW q \in Nodes, Chat!receive_data(q)
      PROVE  ChatInv' /\ Chat!AcksOnlyArrived
  <2>1. ChatTypes' BY <1>0, <1>7 DEF ChatTypes, Chat!receive_data, Chat!sender, Chat!Passing
  <2>2. ~sending[q] BY <1>7 DEF Chat!receive_data
  <2>3. Speaks(n, Chat!Peer(n))
    <3>1. Answers(n, Chat!Peer(n)) => sending[q] BY Sides DEF Answers
    <3>. QED BY <3>1, <2>2, <1>1
  <2>4. Chat!AcksOnlyArrived
    <3>1. \A i \in Nodes : sending[i] => sending'[i]
      BY <1>0, <1>7 DEF Chat!receive_data, ChatTypes
    <3>. QED BY <3>1 DEF Chat!AcksOnlyArrived, Nodes
  <2>. QED BY <2>1, <2>3, <2>4, <1>0, <1>4, <1>7, HearData DEF ChatInv
<1>8. ASSUME NEW q \in Nodes, Chat!receive_ack(q)
      PROVE  ChatInv' /\ Chat!AcksOnlyArrived
  <2>1. ChatTypes' BY <1>0, <1>8 DEF ChatTypes, Chat!receive_ack
  <2>2. Chat!PrintedWhole' BY <1>0, <1>8 DEF Chat!receive_ack, Chat!PrintedWhole
  <2>3. Talk' /\ Chat!AcksOnlyArrived
    BY <1>0, <1>1, <1>4, <1>5, <1>8, HearEcho, HearLate
  <2>. QED BY <2>1, <2>2, <2>3 DEF ChatInv
<1>9. ASSUME NEW q \in Nodes, NEW D \in SUBSET list[q], Chat!send(q, D)
      PROVE  ChatInv' /\ Chat!AcksOnlyArrived
  <2>1. ChatTypes' BY <1>0, <1>9 DEF ChatTypes, Chat!send
  <2>2. Kept BY <1>9 DEF Chat!send
  <2>3. Talk' BY <1>0, <1>1, <1>4, <1>9, SendFirst, SendLate
  <2>. QED BY <2>1, <2>2, <2>3, <1>3 DEF ChatInv
<1>10. ASSUME NEW q \in Nodes, NEW j \in 0 .. MaxChunks, Chat!prompt(q, j)
       PROVE  ChatInv' /\ Chat!AcksOnlyArrived
  <2>1. ChatTypes'
    <3>1. msg' \in [Nodes -> Messages] BY <1>0, <1>10, Prompted
    <3>. QED BY <3>1, <1>0, <1>10 DEF ChatTypes, Chat!prompt
  <2>2. Kept BY <1>10 DEF Chat!prompt
  <2>3. Talk' BY <1>0, <1>1, <1>4, <1>10, TypeFirst, TypeLate
  <2>. QED BY <2>1, <2>2, <2>3, <1>3 DEF ChatInv
<1>11. ASSUME NEW q \in Nodes, Chat!receive_none(q) \/ Chat!rest(q) PROVE Quietly
  BY <1>11 DEF Chat!receive_none, Chat!rest, Chat!sender
<1>12. CASE UNCHANGED ChatVars BY <1>6, <1>12 DEF ChatVars
<1>13. CASE Chat!Next
  <2>1. \E q \in Nodes :
          \/ Chat!receive_data(q) \/ Chat!receive_ack(q)
          \/ Chat!receive_none(q) \/ Chat!rest(q)
          \/ \E D \in SUBSET list[q] : Chat!send(q, D)
          \/ \E j \in 0 .. MaxChunks : Chat!prompt(q, j)
    BY <1>13 DEF Chat!Next, Chat!receive, Nodes
  <2>. QED BY <2>1, <1>6, <1>7, <1>8, <1>9, <1>10, <1>11
<1>. QED BY <1>12, <1>13

(* The chunk protocol of networks/partB, where datagrams come in order and *)
(* no timer runs out too early: what is printed is a whole message of the  *)
(* other side, and "All chunks sent and acknowledged" is only printed when *)
(* it has been printed there.  Messages may have any number of chunks.     *)
THEOREM EndsOfChatAgree ==
    ASSUME Chat!ChunksConstants
    PROVE  Chat!Spec => []Chat!PrintedWhole /\ Chat!AckedArrived
<1>1. ChatInv => Chat!PrintedWhole BY DEF ChatInv
<1>. QED
  BY <1>1, InitChat, StepChat, PTL DEF Chat!Spec, Chat!AckedArrived, ChatVars, Chat!vars
==============================================================================
