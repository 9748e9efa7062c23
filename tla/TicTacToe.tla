------------------------------ MODULE TicTacToe -------------------------------
(***************************************************************************)
(* What the tic-tac-toe servers promise, whatever the clients send and     *)
(* whatever becomes of the messages: players 1 and 2 set X and O in turn,  *)
(* each on a free cell, until one has a line or the board is full; another *)
(* game starts from the empty board.                                       *)
(***************************************************************************)
EXTENDS Integers

CONSTANTS Cells, Lines, Free

VARIABLES board, turn

Mark(p) == IF p = 1 THEN "X" ELSE "O"
Has(b, m) == \E l \in Lines : \A c \in l : b[c] = m
Over(b) == Has(b, "X") \/ Has(b, "O") \/ \A c \in Cells : b[c] # Free

Empty == [c \in Cells |-> Free]

GameInit == board = Empty /\ turn = 1

(* The turn passes to the other player unless the move ended the game. *)
Move(c) ==
    /\ ~Over(board) /\ board[c] = Free
    /\ board' = [board EXCEPT ![c] = Mark(turn)]
    /\ turn' = IF Over(board') THEN turn ELSE 3 - turn

Restart == Over(board) /\ board' = Empty /\ UNCHANGED turn

GameNext == Restart \/ \E c \in Cells : Move(c)

GameSpec == GameInit /\ [][GameNext]_<<board, turn>>
===============================================================================
