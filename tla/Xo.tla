--------------------------------- MODULE Xo ---------------------------------
(* The xo transaction family (examples/xo_go: handler.go, xo_state.go,      *)
(* xo_payload.go): games of tic-tac-toe by name, stored at the address the  *)
(* name hashes to together with the other games of that address.            *)
EXTENDS Context, FiniteSets, Sequences

CONSTANTS
    GameNames,      \* the names a payload may carry
    BarredNames,    \* those with a '|', which separates stored games
    WideNames,      \* those too long for the frame displayTake draws
    GameAddresses,
    GameAddressOf,  \* makeAddress; names may collide
    Players,        \* public keys of signers
    Spaces          \* by name: the spaces payloads of the instance ask for

Nobody == "nobody"  \* the empty string of a player not yet known

\* A public key is never empty.
ASSUME XoAssumption ==
    /\ BarredNames \subseteq GameNames /\ WideNames \subseteq GameNames
    /\ GameAddressOf \in [GameNames -> GameAddresses]
    /\ \A n \in GameNames : Spaces[n] \subseteq Int
    /\ Nobody \notin Players

VARIABLE games      \* by address: the games stored there, by name

Ended == {"P1-WIN", "P2-WIN", "TIE"}

NewGame == [board   |-> [i \in 1..9 |-> "-"],
            state   |-> "P1-NEXT",
            player1 |-> Nobody,
            player2 |-> Nobody]

Wins == {{1, 2, 3}, {4, 5, 6}, {7, 8, 9}, {1, 4, 7}, {2, 5, 8}, {3, 6, 9},
         {1, 5, 9}, {3, 5, 7}}

isWin(board, letter) == \E win \in Wins : \A i \in win : board[i] = letter

\* A slip: a full board is a tie before it is a win.
SlipJudged(game) ==
    IF \A i \in 1..9 : game.board[i] # "-" THEN [game EXCEPT !.state = "TIE"]
    ELSE IF isWin(game.board, "X") THEN [game EXCEPT !.state = "P1-WIN"]
    ELSE IF isWin(game.board, "O") THEN [game EXCEPT !.state = "P2-WIN"]
    ELSE game

\* What take does to the state once the board has changed.
Judged(game) ==
    IF isWin(game.board, "X") THEN [game EXCEPT !.state = "P1-WIN"]
    ELSE IF isWin(game.board, "O") THEN [game EXCEPT !.state = "P2-WIN"]
    ELSE IF \A i \in 1..9 : game.board[i] # "-" THEN [game EXCEPT !.state = "TIE"]
    ELSE game

\* A player who takes becomes the first, or the second, if there is none yet.
Seated(game, player) ==
    IF game.player1 = Nobody THEN [game EXCEPT !.player1 = player]
    ELSE IF game.player2 = Nobody THEN [game EXCEPT !.player2 = player]
    ELSE game

HasTurn(game, player) ==
    \/ game.state = "P1-NEXT" /\ player = game.player1
    \/ game.state = "P2-NEXT" /\ player = game.player2

Marked(game, space) ==
    IF game.state = "P1-NEXT"
    THEN [game EXCEPT !.board[space] = "X", !.state = "P2-NEXT"]
    ELSE [game EXCEPT !.board[space] = "O", !.state = "P1-NEXT"]

Taken(game, player, space) == Judged(Marked(Seated(game, player), space))

\* deserialize: the data splits at '|' and each game into five parts, which a
\* name with a '|' would upset.
Malformed(stored) == DOMAIN stored \cap BarredNames # {}

At(name) == games[GameAddressOf[name]]

\* FromBytes: of the payloads considered only the name can be wrong.
FromBytes(name) == Require(name \notin BarredNames)

\* FromBytes and the first loadGames, which fills the address cache for the
\* rest of Apply.
LoadErrors(name, reply) ==
    << FromBytes(name),
       StateError(reply),
       IF Malformed(At(name)) THEN "InternalError" ELSE NoError >>

\* validateCreate, validateDelete
CreateErrors(name) == << Require(name \notin DOMAIN At(name)) >>
DeleteErrors(name) == << Require(name \in DOMAIN At(name)) >>

\* displayTake: center() fills the frame around the name by strings.Repeat,
\* which panics when the name is wider than the frame.
displayTake(name) == IF name \in WideNames THEN "panic" ELSE NoError

\* validateTake and the checks of take itself.  Board[Space-1] is not guarded.
TakeErrors(name, player, space) ==
    IF name \in DOMAIN At(name)
    THEN LET game == At(name)[name]
         IN  << Require(game.state \notin Ended),
                IF space \notin 1..9 THEN "panic" ELSE NoError,
                Require(space \in 1..9 => game.board[space] = "-"),
                Require(HasTurn(Seated(game, player), player)),
                displayTake(name) >>
    ELSE << Require(FALSE) >>

\* A slip: the error of the write is dropped.
SlipXoError(name, errors, calls) ==
    FirstError(LoadErrors(name, calls.load) \o errors)

\* The error of Apply for an action with these checks.
XoError(name, errors, calls) ==
    FirstError(LoadErrors(name, calls.load) \o errors \o << StateError(calls.write) >>)

\* SetGame: the other games of the address are stored with it.
SetGame(name, game) ==
    [n \in DOMAIN At(name) \cup {name} |-> IF n = name THEN game ELSE At(name)[n]]

\* A slip: the address is deleted with all its games.
SlipDeleteGame(name) == [n \in {} |-> NewGame]

\* DeleteGame: the other games of the address are stored again; when there are
\* none the address is deleted.
DeleteGame(name) == [n \in DOMAIN At(name) \ {name} |-> At(name)[n]]

\* Apply returned err, with these games for the address of the name.
ApplyXo(name, err, left) ==
    /\ Accepted(err)
    /\ games' = [games EXCEPT ![GameAddressOf[name]] = left]

Create(name, calls) ==
    ApplyXo(name, XoError(name, CreateErrors(name), calls), SetGame(name, NewGame))

Delete(name, calls) ==
    ApplyXo(name, XoError(name, DeleteErrors(name), calls), DeleteGame(name))

Take(name, player, space, calls) ==
    ApplyXo(name, XoError(name, TakeErrors(name, player, space), calls),
            SetGame(name, Taken(At(name)[name], player, space)))

XoInit == games = [a \in GameAddresses |-> [n \in {} |-> NewGame]]

\* A payload that is nil or malformed, a space that is no number and an action
\* other than the three are refused before any call.
XoNext ==
    \E name \in GameNames, calls \in Calls :
       \/ Create(name, calls)
       \/ Delete(name, calls)
       \/ \E player \in Players, space \in Spaces[name] :
             Take(name, player, space, calls)

XoSpec == XoInit /\ [][XoNext]_games
-----------------------------------------------------------------------------
(* Properties.                                                             *)

Count(board, letter) == Cardinality({i \in 1..9 : board[i] = letter})

\* A game's state tells what its board shows: whose turn it is by the number
\* of marks, who has won by the only winning line, a tie by a full board; and
\* a player is known once the mark of that player is on the board.
Consistent(game) ==
    LET x == Count(game.board, "X")
        o == Count(game.board, "O")
        xWins == isWin(game.board, "X")
        oWins == isWin(game.board, "O")
    IN  /\ game.state = "P1-NEXT" => x = o /\ ~xWins /\ ~oWins /\ x < 5
        /\ game.state = "P2-NEXT" => x = o + 1 /\ ~xWins /\ ~oWins /\ x < 5
        /\ game.state = "P1-WIN" => x = o + 1 /\ xWins /\ ~oWins
        /\ game.state = "P2-WIN" => x = o /\ ~xWins /\ oWins
        /\ game.state = "TIE" => x = 5 /\ o = 4 /\ ~xWins /\ ~oWins
        /\ game.player1 = Nobody <=> x = 0
        /\ game.player2 = Nobody <=> o = 0

\* The games of an address are games of that address, can be read back, and
\* every one of them is consistent.
GamesConsistent ==
    \A a \in GameAddresses : \A n \in DOMAIN games[a] :
       /\ GameAddressOf[n] = a
       /\ n \notin BarredNames
       /\ Consistent(games[a][n])

\* As for intkey: a lost exchange may delay the verdict on a transaction but
\* never change it.
XoLossesRetried ==
    \A name \in GameNames, calls \in LostCalls :
       \A errors \in {CreateErrors(name), DeleteErrors(name)} \cup
                     {TakeErrors(name, q, i) : q \in Players, i \in Spaces[name]} :
          ResponseStatus(XoError(name, errors, calls)) \in
             {ResponseStatus(XoError(name, errors, NoFailure)), "INTERNAL_ERROR"}
             \ {"OK"}

Moves(old, new) == {i \in 1..9 : old.board[i] # new.board[i]}

\* What a step may do to the games of an address.
Legal(a) ==
    LET kept    == DOMAIN games[a] \cap DOMAIN games'[a]
        changed == {n \in kept : games'[a][n] # games[a][n]}
        came    == DOMAIN games'[a] \ kept
        went    == DOMAIN games[a] \ kept
    IN  /\ Cardinality(changed \cup came \cup went) <= 1
        /\ \A n \in changed :
              /\ games[a][n].state \notin Ended
              /\ Cardinality(Moves(games[a][n], games'[a][n])) = 1
              /\ \A i \in Moves(games[a][n], games'[a][n]) :
                    games[a][n].board[i] = "-"
        /\ \A n \in came : games'[a][n] = NewGame

\* A mark is never moved or replaced, an ended game never changes, and a step
\* adds at most one mark to one game: the games that share an address with the
\* one a transaction names are stored again as they were.
MovesLegal == [][\A a \in GameAddresses : Legal(a)]_games
=============================================================================
