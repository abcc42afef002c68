------------------------------ MODULE CardGame ------------------------------
(***************************************************************************)
(* stopy4/sop1l4e2/src/sop-mss.c: main deals a hand to each player thread  *)
(* it creates (one for every SIGINT) and starts them together; turn by     *)
(* turn each player puts a card before its neighbour, all meet at a        *)
(* barrier, and each takes the card before it, until somebody's hand is of *)
(* one suit.                                                               *)
(*                                                                         *)
(* A critical section of one access is one step.  A SIGINT that comes      *)
(* during a game stays blocked until main waits for the next player, so    *)
(* that creating a player is a step main may take whenever it waits.       *)
(***************************************************************************)
EXTENDS Naturals, FiniteSets

CONSTANTS N,         \* number of players
          HandSize,
          Suits,     \* number of suits; a card is a number (52 and 4 in the code)
          Deals,     \* the deals shuffle may make: hand by player
          MaxGames   \* bound: games main plays (for ever, in the code)

Player == 0..(N - 1)
Place == 1..HandSize

ASSUME CardAssumption ==
    /\ N \in Nat \ {0} /\ HandSize \in Nat \ {0} /\ Suits \in Nat \ {0}
    /\ Deals \subseteq [Player -> [Place -> Nat]]
    /\ Deals # {}
    /\ MaxGames \in Nat

VARIABLES
    main,          \* where main is
    created,       \* players of this game so far
    deal,          \* the deck, as this game deals it
    game,
    ready,
    winner,        \* the id of the winner; 0 also says that there is none yet
    pc,            \* where each player is
    hand,
    to_give,       \* place of the card each player has put before its neighbour
    card_to_take   \* the card before each player

mainVars == <<main, created, deal, game>>
gameVars == <<mainVars, ready, winner, pc, hand, to_give, card_to_take>>

Cards(h) == {h[i] : i \in Place}

\* All cards of the hand are of the suit of the first.
OneSuit(h) == \A i \in Place : h[i] % Suits = h[1] % Suits

Neighbour(p) == (p + 1) % N

GameInit ==
    /\ main = "create" /\ created = 0 /\ game = 1
    /\ deal \in Deals
    /\ ready = FALSE
    /\ winner = 0
    /\ pc = [p \in Player |-> "none"]
    /\ hand = deal     \* not looked at before CreatePlayer writes it
    /\ to_give = [p \in Player |-> 1]
    /\ card_to_take = [p \in Player |-> 0]

-----------------------------------------------------------------------------
(* run_player                                                              *)

PlayerGoto(p, l) == pc' = [pc EXCEPT ![p] = l]

\* Mutant: ready is not looked at before the wait.
AwaitStart_NoTest(p) ==
    /\ pc[p] = "start"
    /\ PlayerGoto(p, "waiting")
    /\ UNCHANGED <<mainVars, ready, winner, hand, to_give, card_to_take>>

\* The loop around pthread_cond_wait, under mtx_start.
AwaitStart(p) ==
    /\ pc[p] = "start"
    /\ PlayerGoto(p, IF ready THEN "turn" ELSE "waiting")
    /\ UNCHANGED <<mainVars, ready, winner, hand, to_give, card_to_take>>

LookAtHand(p) ==
    /\ pc[p] = "turn"
    /\ PlayerGoto(p, IF OneSuit(hand[p]) THEN "win" ELSE "give")
    /\ UNCHANGED <<mainVars, ready, winner, hand, to_give, card_to_take>>

\* Mutant: the winner is recorded with players numbered from 1.
Win_FromOne(p) ==
    /\ pc[p] = "win"
    /\ winner' = p + 1
    /\ PlayerGoto(p, "give")
    /\ UNCHANGED <<mainVars, ready, hand, to_give, card_to_take>>

Win(p) ==
    /\ pc[p] = "win"
    /\ winner' = p
    /\ PlayerGoto(p, "give")
    /\ UNCHANGED <<mainVars, ready, hand, to_give, card_to_take>>

Give(p) ==
    /\ pc[p] = "give"
    /\ \E i \in Place :
          /\ to_give' = [to_give EXCEPT ![p] = i]
          /\ card_to_take' = [card_to_take EXCEPT ![Neighbour(p)] = hand[p][i]]
    /\ PlayerGoto(p, "barrier")
    /\ UNCHANGED <<mainVars, ready, winner, hand>>

\* Mutant: the barrier lets the players through one by one.
Barrier_Open ==
    \E p \in Player :
       /\ pc[p] = "barrier"
       /\ PlayerGoto(p, "check")
       /\ UNCHANGED <<mainVars, ready, winner, hand, to_give, card_to_take>>

\* pthread_barrier_wait returns in all N players.
Barrier ==
    /\ \A p \in Player : pc[p] = "barrier"
    /\ pc' = [p \in Player |-> "check"]
    /\ UNCHANGED <<mainVars, ready, winner, hand, to_give, card_to_take>>

\* Mutant: a player that has won stays in the game.
CheckWinner_Stays(p) ==
    /\ pc[p] = "check"
    /\ PlayerGoto(p, IF winner # 0 /\ winner # p THEN "exited" ELSE "take")
    /\ UNCHANGED <<mainVars, ready, winner, hand, to_give, card_to_take>>

CheckWinner(p) ==
    /\ pc[p] = "check"
    /\ PlayerGoto(p, IF winner # 0 THEN "exited" ELSE "take")
    /\ UNCHANGED <<mainVars, ready, winner, hand, to_give, card_to_take>>

Take(p) ==
    /\ pc[p] = "take"
    /\ hand' = [hand EXCEPT ![p][to_give[p]] = card_to_take[p]]
    /\ PlayerGoto(p, "turn")
    /\ UNCHANGED <<mainVars, ready, winner, to_give, card_to_take>>

PlayerStep(p) ==
    AwaitStart(p) \/ LookAtHand(p) \/ Win(p) \/ Give(p) \/ CheckWinner(p) \/ Take(p)

-----------------------------------------------------------------------------
(* main                                                                    *)

CreatePlayer ==
    /\ main = "create" /\ created < N
    /\ created' = created + 1
    /\ pc' = [pc EXCEPT ![created] = "start"]
    /\ hand' = [hand EXCEPT ![created] = deal[created]]
    /\ UNCHANGED <<main, deal, game, ready, winner, to_give, card_to_take>>

\* ready = 1 and pthread_cond_broadcast, under mtx_start.
StartGame ==
    /\ main = "create" /\ created = N
    /\ main' = "join"
    /\ ready' = TRUE
    /\ pc' = [p \in Player |-> IF pc[p] = "waiting" THEN "start" ELSE pc[p]]
    /\ UNCHANGED <<created, deal, game, winner, hand, to_give, card_to_take>>

\* All players have been joined: shuffle, and the next game.
NextGame ==
    /\ main = "join" /\ game < MaxGames
    /\ \A p \in Player : pc[p] = "exited"
    /\ main' = "create" /\ created' = 0 /\ game' = game + 1
    /\ deal' \in Deals
    /\ ready' = FALSE /\ winner' = 0
    /\ pc' = [p \in Player |-> "none"]
    /\ UNCHANGED <<hand, to_give, card_to_take>>

GameNext ==
    \/ \E p \in Player : PlayerStep(p)
    \/ Barrier \/ CreatePlayer \/ StartGame \/ NextGame

GameSpec == GameInit /\ [][GameNext]_gameVars

\* Every thread that can go on does; nothing makes the user send a SIGINT.
GameFairness ==
    /\ \A p \in Player : WF_gameVars(PlayerStep(p))
    /\ WF_gameVars(Barrier) /\ WF_gameVars(StartGame) /\ WF_gameVars(NextGame)

-----------------------------------------------------------------------------
GameTypeOK ==
    /\ main \in {"create", "join"} /\ created \in 0..N /\ deal \in Deals
    /\ game \in Nat /\ ready \in BOOLEAN
    /\ winner \in Player
    /\ pc \in [Player -> {"none", "start", "waiting", "turn", "win", "give", "barrier",
                          "check", "take", "exited"}]
    /\ hand \in [Player -> [Place -> Nat]]
    /\ to_give \in [Player -> Place]
    /\ card_to_take \in [Player -> Nat]

\* Whoever is on record as the winner holds a hand of one suit, until the end:
\* other winners of the turn may overwrite the record, but nobody's hand changes
\* between being found complete and being shown.
WinnerHasHand == winner # 0 => OneSuit(hand[winner])

\* The players hold cards that were dealt in this game.  card_to_take is never
\* cleared, and holds what the last game, or calloc, left there: only the barrier
\* keeps a player from taking such a card.
DealtCards ==
    \A p \in Player :
        pc[p] # "none" => \A c \in Cards(hand[p]) : \E q \in Player : c \in Cards(deal[q])

\* "what if there's a thread that isn't yet waiting on this condvar?": it finds
\* ready set and goes on all the same.
EverybodyStarts ==
    \A p \in Player : main = "join" /\ pc[p] \in {"start", "waiting"} ~> pc[p] = "turn"

\* "pass a random card to your neighbor": the turns only move cards around, so that
\* when all are about to put a card, no card is in two places.
NoCardTwice ==
    (\A p \in Player : pc[p] = "give") =>
        \A p, q \in Player : \A i, k \in Place :
            hand[p][i] = hand[q][k] => p = q /\ i = k
=============================================================================
