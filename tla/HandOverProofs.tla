---------------------------- MODULE HandOverProofs ----------------------------
(***************************************************************************)
(* Proofs about the programs in which threads hand something on: the card  *)
(* game, the counting of letters, the porters of salt and the video        *)
(* player.  They hold for any number of players, cards, suits, threads,    *)
(* texts, fields, sacks and frames, and rings of any size.                 *)
(***************************************************************************)
EXTENDS MCHandOvers, FiniteSetTheorems, TLAPS

-----------------------------------------------------------------------------
(* sop-mss.c: winners and cards                                           *)

(* While main waits for players the game has not begun.                    *)
Starting ==
    main = "create" => /\ winner = 0 /\ ready = FALSE
                       /\ \A p \in Player : pc[p] \in {"none", "start", "waiting"}

(* Who is about to be recorded, or is recorded, has a hand of one suit and *)
(* does not take a card any more.                                          *)
Winning ==
    /\ \A p \in Player : pc[p] = "win" => OneSuit(hand[p])
    /\ winner # 0 => /\ OneSuit(hand[winner])
                     /\ pc[winner] \in {"give", "barrier", "check", "exited"}

Dealt(c) == \E q \in Player : c \in Cards(deal[q])

(* Before the barrier a player answers for the card of its neighbour,      *)
(* behind it for the one before itself.                                    *)
HandsDealt ==
    \A p \in Player :
        /\ pc[p] # "none" => \A i \in Place : Dealt(hand[p][i])
        /\ pc[p] = "barrier" => Dealt(card_to_take[Neighbour(p)])
        /\ pc[p] \in {"check", "take"} => Dealt(card_to_take[p])

GameIInv == GameTypeOK /\ Starting /\ Winning /\ HandsDealt

-----------------------------------------------------------------------------
(* Everybody has a neighbour and is one.                                   *)
LEMMA NeighbourType == \A p \in Player : Neighbour(p) \in Player
BY CardAssumption DEF Neighbour, Player

LEMMA Predecessor == \A p \in Player : \E q \in Player : Neighbour(q) = p
<1> SUFFICES ASSUME NEW p \in Player PROVE \E q \in Player : Neighbour(q) = p
  OBVIOUS
<1>1. CASE p = 0
  <2>1. N - 1 \in Player /\ ((N - 1) + 1) % N = 0
    BY CardAssumption DEF Player
  <2> QED
    BY <1>1, <2>1 DEF Neighbour
<1>2. CASE p # 0
  <2>1. N \in Nat \ {0}
    BY CardAssumption
  <2>2. p \in Nat /\ p <= N - 1 /\ p - 1 \in Player
    BY <1>2, <2>1 DEF Player
  <2>3. p % N = p /\ (p - 1) + 1 = p
    BY <2>1, <2>2
  <2> QED
    BY <2>2, <2>3 DEF Neighbour
<1> QED
  BY <1>1, <1>2

LEMMA GameConstants ==
  /\ 0 \in Player /\ 1 \in Place /\ N \in Nat
  /\ \A d \in Deals : d \in [Player -> [Place -> Nat]]
<1>1. 0 \in Player /\ 1 \in Place /\ N \in Nat
  BY CardAssumption DEF Player, Place
<1>2. Deals \subseteq [Player -> [Place -> Nat]]
  BY CardAssumption
<1> QED
  BY <1>1, <1>2

LEMMA GameInitHolds == GameInit => GameIInv
<1> SUFFICES ASSUME GameInit PROVE GameIInv
  OBVIOUS
<1>1. GameTypeOK
  <2>1. created \in 0..N /\ hand \in [Player -> [Place -> Nat]] /\ winner \in Player
    BY GameConstants DEF GameInit
  <2>2. to_give \in [Player -> Place] /\ card_to_take \in [Player -> Nat]
    BY GameConstants DEF GameInit
  <2> QED
    BY <2>1, <2>2 DEF GameInit, GameTypeOK
<1>2. Starting /\ Winning /\ HandsDealt
  BY DEF GameInit, Starting, Winning, HandsDealt
<1> QED
  BY <1>1, <1>2 DEF GameIInv

-----------------------------------------------------------------------------
LEMMA GameTypeStep == GameIInv /\ [GameNext]_gameVars => GameTypeOK'
<1> SUFFICES ASSUME GameIInv, [GameNext]_gameVars PROVE GameTypeOK'
  OBVIOUS
<1> USE DEF GameIInv, GameTypeOK
<1>0. 0 \in Player /\ N \in Nat /\ deal \in [Player -> [Place -> Nat]]
  BY GameConstants
<1>1. ASSUME NEW p \in Player, AwaitStart(p) \/ LookAtHand(p) \/ Win(p) \/ CheckWinner(p)
      PROVE  GameTypeOK'
  BY <1>1 DEF AwaitStart, LookAtHand, Win, CheckWinner, PlayerGoto, mainVars
<1>2. ASSUME NEW p \in Player, Give(p) PROVE GameTypeOK'
  <2>1. PICK i \in Place : /\ to_give' = [to_give EXCEPT ![p] = i]
                           /\ card_to_take' = [card_to_take EXCEPT ![Neighbour(p)] = hand[p][i]]
    BY <1>2 DEF Give
  <2>2. hand[p][i] \in Nat
    OBVIOUS
  <2> QED
    BY <1>2, <2>1, <2>2 DEF Give, PlayerGoto, mainVars
<1>3. ASSUME NEW p \in Player, Take(p) PROVE GameTypeOK'
  <2>1. hand' \in [Player -> [Place -> Nat]]
    BY <1>3 DEF Take
  <2> QED
    BY <1>3, <2>1 DEF Take, PlayerGoto, mainVars
<1>4. CASE CreatePlayer
  <2>1. created \in Player /\ created + 1 \in 0..N
    BY <1>4, <1>0 DEF CreatePlayer, Player
  <2>2. hand' = [hand EXCEPT ![created] = deal[created]]
    BY <1>4 DEF CreatePlayer
  <2>3. hand' \in [Player -> [Place -> Nat]]
    BY <1>0, <2>1, <2>2
  <2>4. pc' = [pc EXCEPT ![created] = "start"]
    BY <1>4 DEF CreatePlayer
  <2>5. /\ created' \in 0..N /\ game' = game /\ main' = main /\ deal' = deal
        /\ ready' = ready /\ winner' = winner
        /\ to_give' = to_give /\ card_to_take' = card_to_take
    BY <1>4, <2>1 DEF CreatePlayer
  <2> QED
    BY <2>1, <2>3, <2>4, <2>5
<1>5. CASE Barrier \/ StartGame
  BY <1>5 DEF Barrier, StartGame, mainVars
<1>6. CASE NextGame
  <2>1. created' \in 0..N /\ game' \in Nat /\ winner' \in Player
    BY <1>0, <1>6 DEF NextGame
  <2>2. pc' = [p \in Player |-> "none"]
    BY <1>6 DEF NextGame
  <2> QED
    BY <1>6, <2>1, <2>2 DEF NextGame
<1>7. CASE UNCHANGED gameVars
  BY <1>7 DEF gameVars, mainVars
<1> QED
  BY <1>1, <1>2, <1>3, <1>4, <1>5, <1>6, <1>7 DEF GameNext, PlayerStep

LEMMA StartingStep == GameIInv /\ [GameNext]_gameVars => Starting'
<1> SUFFICES ASSUME GameIInv, [GameNext]_gameVars PROVE Starting'
  OBVIOUS
<1> USE DEF GameIInv, GameTypeOK, Starting
<1>1. ASSUME NEW p \in Player, PlayerStep(p) PROVE Starting'
  BY <1>1 DEF PlayerStep, AwaitStart, LookAtHand, Win, Give, CheckWinner, Take, PlayerGoto, mainVars
<1>2. CASE Barrier
  BY <1>2, GameConstants DEF Barrier, mainVars
<1>3. CASE CreatePlayer \/ StartGame \/ NextGame
  BY <1>3 DEF CreatePlayer, StartGame, NextGame
<1>4. CASE UNCHANGED gameVars
  BY <1>4 DEF gameVars, mainVars
<1> QED
  BY <1>1, <1>2, <1>3, <1>4 DEF GameNext

LEMMA WinningStep == GameIInv /\ [GameNext]_gameVars => Winning'
<1> SUFFICES ASSUME GameIInv, [GameNext]_gameVars PROVE Winning'
  OBVIOUS
<1> USE DEF GameIInv, GameTypeOK, Winning
<1>1. ASSUME NEW p \in Player, AwaitStart(p) \/ LookAtHand(p) \/ Win(p) \/ Give(p) \/ CheckWinner(p)
      PROVE  Winning'
  <2>1. hand' = hand /\ \A q \in Player \ {p} : pc'[q] = pc[q]
    BY <1>1 DEF AwaitStart, LookAtHand, Win, Give, CheckWinner, PlayerGoto
  <2>2. CASE AwaitStart(p) \/ LookAtHand(p)
    BY <2>1, <2>2 DEF AwaitStart, LookAtHand, PlayerGoto
  <2>3. CASE Win(p)
    BY <2>1, <2>3 DEF Win, PlayerGoto
  <2>4. CASE Give(p) \/ CheckWinner(p)
    BY <2>1, <2>4 DEF Give, CheckWinner, PlayerGoto
  <2> QED
    BY <1>1, <2>2, <2>3, <2>4
<1>2. ASSUME NEW p \in Player, Take(p) PROVE Winning'
  <2>1. \A q \in Player : pc[q] # "take" => hand'[q] = hand[q] /\ pc'[q] = pc[q]
    BY <1>2 DEF Take, PlayerGoto
  <2> QED
    BY <1>2, <2>1 DEF Take, PlayerGoto
<1>3. CASE Barrier
  BY <1>3 DEF Barrier
<1>4. CASE CreatePlayer \/ StartGame \/ NextGame
  BY <1>4 DEF CreatePlayer, StartGame, NextGame, Starting
<1>5. CASE UNCHANGED gameVars
  BY <1>5 DEF gameVars
<1> QED
  BY <1>1, <1>2, <1>3, <1>4, <1>5 DEF GameNext, PlayerStep

LEMMA HandsDealtStep == GameIInv /\ [GameNext]_gameVars => HandsDealt'
<1> SUFFICES ASSUME GameIInv, [GameNext]_gameVars PROVE HandsDealt'
  OBVIOUS
<1> USE DEF GameIInv, GameTypeOK, HandsDealt
<1>1. ASSUME NEW p \in Player, AwaitStart(p) \/ LookAtHand(p) \/ Win(p) \/ CheckWinner(p)
      PROVE  HandsDealt'
  <2>1. /\ \A c : Dealt(c)' <=> Dealt(c)
        /\ hand' = hand /\ card_to_take' = card_to_take
    BY <1>1 DEF AwaitStart, LookAtHand, Win, CheckWinner, Dealt, mainVars
  <2>2. /\ pc[p] # "none" /\ pc'[p] # "barrier"
        /\ pc'[p] \in {"check", "take"} => pc[p] = "check"
        /\ \A q \in Player \ {p} : pc'[q] = pc[q]
    BY <1>1 DEF AwaitStart, LookAtHand, Win, CheckWinner, PlayerGoto
  <2> QED
    BY <2>1, <2>2
<1>2. ASSUME NEW p \in Player, Give(p) PROVE HandsDealt'
  <2>1. PICK i \in Place : card_to_take' = [card_to_take EXCEPT ![Neighbour(p)] = hand[p][i]]
    BY <1>2 DEF Give
  <2>2. /\ \A c : Dealt(c)' <=> Dealt(c)
        /\ pc[p] = "give" /\ pc' = [pc EXCEPT ![p] = "barrier"] /\ hand' = hand
    BY <1>2 DEF Give, PlayerGoto, Dealt, mainVars
  <2>3. card_to_take'[Neighbour(p)] = hand[p][i] /\ Dealt(hand[p][i])
    BY <2>1, <2>2, NeighbourType
  <2>4. \A q \in Player : q # Neighbour(p) => card_to_take'[q] = card_to_take[q]
    BY <2>1
  <2> QED
    BY <2>2, <2>3, <2>4, NeighbourType
<1>3. ASSUME NEW p \in Player, Take(p) PROVE HandsDealt'
  <2>1. /\ \A c : Dealt(c)' <=> Dealt(c)
        /\ pc[p] = "take" /\ pc' = [pc EXCEPT ![p] = "turn"] /\ card_to_take' = card_to_take
        /\ hand' = [hand EXCEPT ![p][to_give[p]] = card_to_take[p]]
    BY <1>3 DEF Take, PlayerGoto, Dealt, mainVars
  <2>2. \A i \in Place : Dealt(hand'[p][i])
    BY <2>1
  <2>3. \A q \in Player \ {p} : hand'[q] = hand[q]
    BY <2>1
  <2> QED
    BY <2>1, <2>2, <2>3
<1>4. CASE Barrier
  <2>1. \A p \in Player : Dealt(card_to_take[p])
    BY <1>4, Predecessor DEF Barrier
  <2> QED
    BY <1>4, <2>1 DEF Barrier, Dealt, mainVars
<1>5. CASE CreatePlayer
  <2>1. created \in Player
    BY <1>5, CardAssumption DEF CreatePlayer, Player
  <2>2. /\ \A c : Dealt(c)' <=> Dealt(c)
        /\ pc' = [pc EXCEPT ![created] = "start"] /\ card_to_take' = card_to_take
        /\ hand' = [hand EXCEPT ![created] = deal[created]]
    BY <1>5 DEF CreatePlayer, Dealt
  <2>3. \A i \in Place : Dealt(hand'[created][i])
    BY <2>1, <2>2 DEF Dealt, Cards
  <2> QED
    BY <2>1, <2>2, <2>3
<1>6. CASE StartGame
  BY <1>6 DEF StartGame, Dealt
<1>7. CASE NextGame
  BY <1>7 DEF NextGame
<1>8. CASE UNCHANGED gameVars
  BY <1>8 DEF gameVars, mainVars, Dealt
<1> QED
  BY <1>1, <1>2, <1>3, <1>4, <1>5, <1>6, <1>7, <1>8 DEF GameNext, PlayerStep

LEMMA GameInvariance == GameSpec => []GameIInv
<1>1. GameIInv /\ [GameNext]_gameVars => GameIInv'
  BY GameTypeStep, StartingStep, WinningStep, HandsDealtStep DEF GameIInv
<1> QED
  BY <1>1, GameInitHolds, PTL DEF GameSpec

-----------------------------------------------------------------------------
(* The variables keep their types.                                         *)
THEOREM GameTypeCorrect == GameSpec => []GameTypeOK
<1>1. GameIInv => GameTypeOK
  BY DEF GameIInv
<1> QED
  BY <1>1, GameInvariance, PTL

(* Whoever is on record as the winner holds a hand of one suit, although   *)
(* players that win in the same turn overwrite each other's record.        *)
THEOREM WinnerHasHandHolds == GameSpec => []WinnerHasHand
<1>1. GameIInv => WinnerHasHand
  BY DEF GameIInv, Winning, WinnerHasHand
<1> QED
  BY <1>1, GameInvariance, PTL

(* The players hold cards of this game: the barrier alone keeps them from  *)
(* taking what the last game left.                                         *)
THEOREM DealtCardsHolds == GameSpec => []DealtCards
<1>1. GameIInv => DealtCards
  BY DEF GameIInv, HandsDealt, DealtCards, Dealt, Cards
<1> QED
  BY <1>1, GameInvariance, PTL

-----------------------------------------------------------------------------
(* sop-salis.c: sacks, and victory                                        *)

SacksTyped ==
    /\ noSacks \in [Field -> Int] /\ noSalted \in [Field -> Int]
    /\ laborer \in [Field -> {"test", "lock", "check", "waiting", "woken", "load", "store",
                              "salt", "end"}]
    /\ laborerSaw \in [Field -> Int]
    /\ porter \in [Porter -> {"test", "sem_wait", "sem_post", "choose", "load", "store", "end"}]
    /\ target \in [Porter -> Field] /\ porterSaw \in [Porter -> Int]
    /\ doWork \in BOOLEAN
    /\ scipio \in {"destroy", "destroy_cond", "join_laborer", "conclude", "join_porters", "exited"}
    /\ cleaning \in Field /\ victory \in BOOLEAN

(* Nothing below relies on who holds a mutex: what a laborer has found     *)
(* stays, as others only add; an old number of sacks that a porter adds to *)
(* was not negative either.  The one sack too few is the laborer's last.   *)
LaborersSafe ==
    \A f \in Field :
        /\ noSacks[f] >= -1
        /\ laborer[f] \notin {"salt", "test", "end"} => noSacks[f] >= 0
        /\ laborer[f] = "store" => laborerSaw[f] >= 0
        /\ doWork => /\ noSacks[f] >= 0
                     /\ laborer[f] = "load" => noSacks[f] > 0
                     /\ laborer[f] = "store" => laborerSaw[f] > 0

PortersSafe ==
    \A p \in Porter :
        porter[p] = "store" => porterSaw[p] >= -1 /\ (doWork => porterSaw[p] >= 0)

(* Laborers end with their fill as long as there is work, and main has     *)
(* joined all when it declares victory.                                    *)
EndsSalted == \A f \in Field : laborer[f] = "end" /\ doWork => noSalted[f] >= SaltGoal

Joined ==
    \A f \in Field : f < cleaning \/ scipio \in {"conclude", "join_porters", "exited"}
                        => laborer[f] = "end"

VictoryTrue == victory => \A f \in Field : noSalted[f] >= SaltGoal

SalisIInv == SacksTyped /\ LaborersSafe /\ PortersSafe /\ EndsSalted /\ Joined /\ VictoryTrue

-----------------------------------------------------------------------------
LEMMA SalisConstants == SacksCarried \in Nat \ {0} /\ SaltGoal \in Nat \ {0} /\ 1 \in Field
                   /\ NoFields \in Nat
BY SalisAssumption DEF Field

LEMMA SalisInitHolds == SalisInit => SalisIInv
<1> SUFFICES ASSUME SalisInit PROVE SalisIInv
  OBVIOUS
<1>1. SacksTyped
  <2>1. /\ noSacks \in [Field -> Int] /\ noSalted \in [Field -> Int]
        /\ laborerSaw \in [Field -> Int] /\ porterSaw \in [Porter -> Int]
    BY DEF SalisInit
  <2>2. target \in [Porter -> Field] /\ cleaning \in Field
    BY SalisConstants, Zenon DEF SalisInit
  <2>3. doWork \in BOOLEAN /\ victory \in BOOLEAN
    BY Zenon DEF SalisInit
  <2> QED
    BY <2>1, <2>2, <2>3 DEF SalisInit, SacksTyped
<1>2. LaborersSafe
  <2>1. \A f \in Field : noSacks[f] = 0 /\ laborer[f] = "test"
    BY DEF SalisInit
  <2> QED
    BY <2>1 DEF LaborersSafe
<1>3. PortersSafe /\ EndsSalted /\ VictoryTrue
  BY DEF SalisInit, PortersSafe, EndsSalted, VictoryTrue
<1>4. Joined
  BY DEF SalisInit, Joined, Field
<1> QED
  BY <1>1, <1>2, <1>3, <1>4 DEF SalisIInv

(* A porter only brings sacks.                                             *)
LEMMA PorterIInv ==
  ASSUME SalisIInv, NEW p \in Porter, PorterStep(p)
  PROVE  SalisIInv'
<1> USE DEF SalisIInv, SacksTyped
<1>1. /\ laborer' = laborer /\ laborerSaw' = laborerSaw /\ noSalted' = noSalted
      /\ doWork' = doWork /\ scipio' = scipio /\ cleaning' = cleaning /\ victory' = victory
  BY DEF PorterStep, PorterTests, SemWait, SemPost, ChooseField, LoadSacks, StoreSacks,
         fieldVars, laborerVars, scipioVars, signalVars
<1>2. EndsSalted' /\ Joined' /\ VictoryTrue'
  BY <1>1 DEF EndsSalted, Joined, VictoryTrue
<1>3. CASE PorterTests(p) \/ SemWait(p) \/ SemPost(p) \/ ChooseField(p)
  <2>1. /\ noSacks' = noSacks /\ porterSaw' = porterSaw
        /\ \E l \in {"sem_wait", "sem_post", "choose", "load", "end"} :
              porter' = [porter EXCEPT ![p] = l]
        /\ target' \in [Porter -> Field]
    BY <1>3 DEF PorterTests, SemWait, SemPost, ChooseField, PorterGoto, fieldVars, Needy
  <2> QED
    BY <1>1, <1>2, <2>1 DEF LaborersSafe, PortersSafe
<1>4. CASE LoadSacks(p)
  <2>1. /\ noSacks' = noSacks /\ target' = target
        /\ porter' = [porter EXCEPT ![p] = "store"]
        /\ porterSaw' = [porterSaw EXCEPT ![p] = noSacks[target[p]]]
    BY <1>4 DEF LoadSacks, PorterGoto, fieldVars
  <2>2. /\ target[p] \in Field /\ noSacks[target[p]] \in Int /\ noSacks[target[p]] >= -1
        /\ doWork => noSacks[target[p]] >= 0
    BY DEF LaborersSafe
  <2> QED
    BY <1>1, <1>2, <2>1, <2>2 DEF LaborersSafe, PortersSafe
<1>5. CASE StoreSacks(p)
  <2>1. /\ noSacks' = [noSacks EXCEPT ![target[p]] = porterSaw[p] + SacksCarried]
        /\ porter[p] = "store" /\ porter' = [porter EXCEPT ![p] = "test"]
        /\ porterSaw' = porterSaw /\ target' = target
    BY <1>5 DEF StoreSacks, PorterGoto
  <2>2. /\ target[p] \in Field /\ porterSaw[p] + SacksCarried \in Int
        /\ porterSaw[p] + SacksCarried >= 0
        /\ doWork => porterSaw[p] + SacksCarried > 0
    BY <2>1, SalisConstants DEF PortersSafe
  <2> QED
    BY <1>1, <1>2, <2>1, <2>2 DEF LaborersSafe, PortersSafe
<1> QED
  BY <1>3, <1>4, <1>5 DEF PorterStep

(* A laborer takes one sack after it has seen one, or is told to stop.     *)
LEMMA LaborerIInv ==
  ASSUME SalisIInv, NEW f \in Field, LaborerStep(f)
  PROVE  SalisIInv'
<1> USE DEF SalisIInv, SacksTyped
<1>1. /\ porter' = porter /\ target' = target /\ porterSaw' = porterSaw
      /\ doWork' = doWork /\ scipio' = scipio /\ cleaning' = cleaning /\ victory' = victory
  BY DEF LaborerStep, LaborerTests, LaborerLocks, CheckSacks, WakeLaborer, WokenLaborer,
         LaborerLoads, LaborerStores, SaltField, porterVars, scipioVars, signalVars
<1>2. PortersSafe'
  BY <1>1 DEF PortersSafe
<1>3. laborer[f] # "end" /\ \A g \in Field \ {f} : laborer'[g] = laborer[g]
  BY DEF LaborerStep, LaborerTests, LaborerLocks, CheckSacks, WakeLaborer, WokenLaborer,
         LaborerLoads, LaborerStores, SaltField, LaborerGoto
<1>4. Joined'
  BY <1>1, <1>3 DEF Joined
<1>5. CASE \/ LaborerTests(f) \/ LaborerLocks(f) \/ CheckSacks(f) \/ WakeLaborer(f)
           \/ WokenLaborer(f)
  <2>1. noSacks' = noSacks /\ noSalted' = noSalted /\ laborerSaw' = laborerSaw
    BY <1>5 DEF LaborerTests, LaborerLocks, CheckSacks, WakeLaborer, WokenLaborer, fieldVars
  <2>2. PICK l \in {"lock", "end", "check", "load", "waiting", "woken"} :
           /\ laborer' = [laborer EXCEPT ![f] = l]
           /\ l = "end" => ~doWork
           /\ l \notin {"end"} => noSacks[f] >= 0
           /\ l = "load" /\ doWork => noSacks[f] > 0
    BY <1>5 DEF LaborerTests, LaborerLocks, CheckSacks, WakeLaborer, WokenLaborer, LaborerGoto,
                LaborersSafe
  <2> QED
    BY <1>1, <1>2, <1>4, <2>1, <2>2 DEF LaborersSafe, EndsSalted, VictoryTrue
<1>6. CASE LaborerLoads(f)
  <2>1. /\ noSacks' = noSacks /\ noSalted' = noSalted /\ laborer[f] = "load"
        /\ laborerSaw' = [laborerSaw EXCEPT ![f] = noSacks[f]]
        /\ laborer' = [laborer EXCEPT ![f] = "store"]
    BY <1>6 DEF LaborerLoads, LaborerGoto, fieldVars
  <2> QED
    BY <1>1, <1>2, <1>4, <2>1 DEF LaborersSafe, EndsSalted, VictoryTrue
<1>7. CASE LaborerStores(f)
  <2>1. /\ noSacks' = [noSacks EXCEPT ![f] = laborerSaw[f] - 1] /\ noSalted' = noSalted
        /\ laborerSaw' = laborerSaw
        /\ laborer[f] = "store" /\ laborer' = [laborer EXCEPT ![f] = "salt"]
    BY <1>7 DEF LaborerStores, LaborerGoto
  <2> QED
    BY <1>1, <1>2, <1>4, <2>1 DEF LaborersSafe, EndsSalted, VictoryTrue
<1>8. CASE SaltField(f)
  <2>1. /\ noSacks' = noSacks /\ laborerSaw' = laborerSaw
        /\ noSalted' = [noSalted EXCEPT ![f] = @ + 1]
        /\ \E l \in {"test", "end"} :
              /\ laborer' = [laborer EXCEPT ![f] = l]
              /\ l = "end" => noSalted[f] + 1 >= SaltGoal
    BY <1>8 DEF SaltField, LaborerGoto
  <2> QED
    BY <1>1, <1>2, <1>4, <2>1, SalisConstants DEF LaborersSafe, EndsSalted, VictoryTrue
<1> QED
  BY <1>5, <1>6, <1>7, <1>8 DEF LaborerStep

(* main looks at doWork when all laborers have ended.                      *)
LEMMA ScipioIInv ==
  ASSUME SalisIInv, ScipioStep
  PROVE  SalisIInv'
<1> USE DEF SalisIInv, SacksTyped
<1>1. /\ noSacks' = noSacks /\ noSalted' = noSalted
      /\ laborer' = laborer /\ laborerSaw' = laborerSaw
      /\ porter' = porter /\ target' = target /\ porterSaw' = porterSaw /\ doWork' = doWork
  BY DEF ScipioStep, DestroyMutex, DestroyCond, JoinLaborer, Conclude, JoinPorters,
         fieldVars, laborerVars, porterVars, signalVars
<1>2. LaborersSafe' /\ PortersSafe' /\ EndsSalted'
  BY <1>1 DEF LaborersSafe, PortersSafe, EndsSalted
<1>3. CASE DestroyMutex \/ DestroyCond \/ JoinPorters
  BY <1>1, <1>2, <1>3 DEF DestroyMutex, DestroyCond, JoinPorters, Joined, VictoryTrue
<1>4. CASE JoinLaborer
  <2>1. victory' = victory /\ laborer[cleaning] = "end" /\ scipio = "join_laborer"
    BY <1>4 DEF JoinLaborer
  <2>2. CASE cleaning < NoFields
    <3>1. cleaning' = cleaning + 1 /\ cleaning' \in Field /\ scipio' = "destroy"
      BY <1>4, <2>2, SalisConstants DEF JoinLaborer, Field
    <3>2. \A f \in Field : f < cleaning + 1 => f < cleaning \/ f = cleaning
      BY DEF Field
    <3> QED
      BY <1>1, <1>2, <2>1, <3>1, <3>2 DEF Joined, VictoryTrue
  <2>3. CASE ~(cleaning < NoFields)
    <3>1. \A f \in Field : f < cleaning \/ f = cleaning
      BY <2>3, SalisConstants DEF Field
    <3>2. cleaning' = cleaning /\ scipio' = "conclude"
      BY <1>4, <2>3 DEF JoinLaborer
    <3> QED
      BY <1>1, <1>2, <2>1, <3>1, <3>2 DEF Joined, VictoryTrue
  <2> QED
    BY <2>2, <2>3
<1>5. CASE Conclude
  <2>1. scipio = "conclude" /\ scipio' = "join_porters" /\ victory' = doWork /\ cleaning' = cleaning
    BY <1>5 DEF Conclude
  <2>2. \A f \in Field : laborer[f] = "end"
    BY <2>1 DEF Joined
  <2> QED
    BY <1>1, <1>2, <2>1, <2>2 DEF Joined, VictoryTrue, EndsSalted
<1> QED
  BY <1>3, <1>4, <1>5 DEF ScipioStep

LEMMA SalisNextHolds == SalisIInv /\ [SalisNext]_salisVars => SalisIInv'
<1> SUFFICES ASSUME SalisIInv, [SalisNext]_salisVars PROVE SalisIInv'
  OBVIOUS
<1>1. CASE TakeSigint
  BY <1>1 DEF TakeSigint, SalisIInv, SacksTyped, LaborersSafe, PortersSafe, EndsSalted, Joined,
              VictoryTrue, fieldVars, laborerVars, porterVars, scipioVars
<1>2. CASE InterruptSalis \/ UNCHANGED salisVars
  BY <1>2 DEF InterruptSalis, SalisIInv, SacksTyped, LaborersSafe, PortersSafe, EndsSalted, Joined,
              VictoryTrue, salisVars, fieldVars, laborerVars, porterVars, scipioVars, signalVars
<1> QED
  BY <1>1, <1>2, PorterIInv, LaborerIInv, ScipioIInv DEF SalisNext

-----------------------------------------------------------------------------
(* No laborer takes a sack that is not there while there is work, and one  *)
(* at most afterwards; and who declares victory has all fields salted.     *)
THEOREM SaltedFieldsHolds == SalisSpec => []SaltedFields
<1>1. SalisIInv => SaltedFields
  BY DEF SalisIInv, LaborersSafe, VictoryTrue, SaltedFields
<1> QED
  BY <1>1, SalisInitHolds, SalisNextHolds, PTL DEF SalisSpec

(* The semaphore and who holds one of its permits.                         *)
Carriers == {p \in Porter : porter[p] = "sem_post"}

SalisFull ==
    /\ SalisTypeOK
    /\ permits + Cardinality(Carriers) = Permits
    /\ \A f \in Field : laborer[f] # "end" => noSalted[f] < SaltGoal

LEMMA CarriersFinite ==
  ASSUME NEW S \in SUBSET Porter
  PROVE  /\ IsFiniteSet(S) /\ Cardinality(S) \in Nat
         /\ \A p \in Porter \ S : Cardinality(S \cup {p}) = Cardinality(S) + 1
         /\ \A p \in S : Cardinality(S \ {p}) = Cardinality(S) - 1 /\ Cardinality(S) > 0
<1>1. IsFiniteSet(S) /\ Cardinality(S) \in Nat
  BY SalisAssumption, FS_Subset, FS_CardinalityType
<1>2. \A p \in Porter \ S : Cardinality(S \cup {p}) = Cardinality(S) + 1
  BY <1>1, FS_AddElement
<1>3. \A p \in S : Cardinality(S \ {p}) = Cardinality(S) - 1
  BY <1>1, FS_RemoveElement
<1>4. \A p \in S : Cardinality(S \ {p}) \in Nat
  BY SalisAssumption, FS_Subset, FS_CardinalityType
<1>5. ASSUME NEW p \in S PROVE Cardinality(S \ {p}) = Cardinality(S) - 1 /\ Cardinality(S) > 0
  <2>1. Cardinality(S \ {p}) = Cardinality(S) - 1 /\ Cardinality(S \ {p}) \in Nat
    BY <1>3, <1>4
  <2> QED
    BY <1>1, <2>1
<1> QED
  BY <1>1, <1>2, <1>5

LEMMA SalisFullInit == SalisInit => SalisFull
<1> SUFFICES ASSUME SalisInit PROVE SalisFull
  OBVIOUS
<1>1. /\ SaltGoal \in Nat \ {0} /\ Permits \in Nat \ {0} /\ 1 \in Field
      /\ 0 \in 0..SaltGoal /\ Permits \in 0..Permits
  BY SalisAssumption DEF Field
<1>2. Carriers = {} /\ Cardinality({}) = 0
  BY FS_EmptySet DEF SalisInit, Carriers
<1>3. SalisTypeOK
  <2>1. /\ noSacks \in [Field -> Int] /\ noSalted \in [Field -> 0..SaltGoal]
        /\ laborerSaw \in [Field -> Int] /\ porterSaw \in [Porter -> Int]
    BY <1>1 DEF SalisInit
  <2>2. /\ mxNoSacks \in [Field -> Porter \cup {"laborer", Nobody}] /\ destroyed \subseteq Field
        /\ target \in [Porter -> Field] /\ cleaning \in Field /\ permits \in 0..Permits
    BY <1>1 DEF SalisInit
  <2>3. doWork \in BOOLEAN /\ victory \in BOOLEAN /\ sigint \in BOOLEAN
    BY DEF SalisInit
  <2> QED
    BY <2>1, <2>2, <2>3 DEF SalisInit, SalisTypeOK
<1>4. \A f \in Field : noSalted[f] < SaltGoal
  BY <1>1 DEF SalisInit
<1> QED
  BY <1>1, <1>2, <1>3, <1>4 DEF SalisInit, SalisFull

LEMMA MutexTypes ==
  ASSUME SalisTypeOK, NEW f \in Field, NEW who \in Porter \cup {"laborer"},
         Lock(f, who) \/ Unlock(f) \/ UNCHANGED mxNoSacks
  PROVE  mxNoSacks' \in [Field -> Porter \cup {"laborer", Nobody}]
BY DEF SalisTypeOK, Lock, Unlock

LEMMA PorterFull ==
  ASSUME SalisFull, NEW p \in Porter, PorterStep(p)
  PROVE  SalisFull'
<1>1. /\ SalisTypeOK /\ permits + Cardinality(Carriers) = Permits
      /\ \A f \in Field : laborer[f] # "end" => noSalted[f] < SaltGoal
  BY DEF SalisFull
<1>2. /\ SacksCarried \in Nat /\ Permits \in Nat /\ permits \in Nat /\ permits <= Permits
      /\ Cardinality(Carriers) \in Nat /\ Carriers \in SUBSET Porter
  <2>1. SacksCarried \in Nat /\ Permits \in Nat
    BY SalisAssumption
  <2> QED
    BY <1>1, <2>1, CarriersFinite DEF SalisTypeOK, Carriers
<1>3. UNCHANGED <<noSalted, laborer, laborerSaw, destroyed, doWork, sigint, signalThread, scipio, cleaning, victory>>
  BY DEF PorterStep, PorterTests, SemWait, SemPost, ChooseField, LoadSacks, StoreSacks,
         fieldVars, laborerVars, scipioVars, signalVars
<1>4. /\ noSacks' \in [Field -> Int] /\ porterSaw' \in [Porter -> Int]
      /\ target' \in [Porter -> Field]
      /\ mxNoSacks' \in [Field -> Porter \cup {"laborer", Nobody}]
  <2>1. CASE PorterTests(p) \/ SemWait(p) \/ SemPost(p)
    BY <1>1, <2>1 DEF PorterTests, SemWait, SemPost, fieldVars, SalisTypeOK
  <2>2. CASE ChooseField(p)
    <3>1. PICK f \in Field : Lock(f, p) /\ target' = [target EXCEPT ![p] = f]
      BY <2>2 DEF ChooseField, Needy
    <3>2. UNCHANGED <<noSacks, porterSaw>>
      BY <2>2 DEF ChooseField
    <3> QED
      BY <1>1, <3>1, <3>2, MutexTypes DEF SalisTypeOK
  <2>3. CASE LoadSacks(p)
    BY <1>1, <2>3 DEF LoadSacks, fieldVars, SalisTypeOK
  <2>4. CASE StoreSacks(p)
    <3>1. /\ noSacks' = [noSacks EXCEPT ![target[p]] = porterSaw[p] + SacksCarried]
          /\ Unlock(target[p]) /\ UNCHANGED <<target, porterSaw>>
      BY <2>4 DEF StoreSacks
    <3>2. target[p] \in Field /\ porterSaw[p] + SacksCarried \in Int
      BY <1>1, <1>2 DEF SalisTypeOK
    <3> QED
      BY <1>1, <3>1, <3>2, MutexTypes DEF SalisTypeOK
  <2> QED
    BY <2>1, <2>2, <2>3, <2>4 DEF PorterStep
<1>5. PICK l \in {"test", "sem_wait", "sem_post", "choose", "load", "store", "end"} :
        /\ porter' = [porter EXCEPT ![p] = l]
        /\ \/ porter[p] = "sem_wait" /\ l = "sem_post" /\ permits > 0 /\ permits' = permits - 1
           \/ porter[p] = "sem_post" /\ l # "sem_post" /\ permits' = permits + 1
           \/ porter[p] # "sem_post" /\ l # "sem_post" /\ permits' = permits
  BY DEF PorterStep, PorterTests, SemWait, SemPost, ChooseField, LoadSacks, StoreSacks, PorterGoto
<1>6. porter'[p] = l /\ \A q \in Porter : q # p => porter'[q] = porter[q]
  BY <1>1, <1>5 DEF SalisTypeOK
<1>7. permits' \in 0..Permits /\ permits' + Cardinality(Carriers') = Permits
  <2>1. CASE porter[p] = "sem_wait" /\ l = "sem_post" /\ permits > 0 /\ permits' = permits - 1
    <3>1. Carriers' = Carriers \cup {p} /\ p \in Porter \ Carriers
      BY <1>6, <2>1 DEF Carriers
    <3>2. Cardinality(Carriers') = Cardinality(Carriers) + 1
      BY <1>2, <3>1, CarriersFinite
    <3> QED
      BY <1>1, <1>2, <2>1, <3>2
  <2>2. CASE porter[p] = "sem_post" /\ l # "sem_post" /\ permits' = permits + 1
    <3>1. Carriers' = Carriers \ {p} /\ p \in Carriers
      BY <1>6, <2>2 DEF Carriers
    <3>2. Cardinality(Carriers') = Cardinality(Carriers) - 1 /\ Cardinality(Carriers) > 0
      BY <1>2, <3>1, CarriersFinite
    <3> QED
      BY <1>1, <1>2, <2>2, <3>2
  <2>3. CASE porter[p] # "sem_post" /\ l # "sem_post" /\ permits' = permits
    <3>1. Carriers' = Carriers
      BY <1>6, <2>3 DEF Carriers
    <3> QED
      BY <1>1, <1>2, <2>3, <3>1
  <2> QED
    BY <1>5, <2>1, <2>2, <2>3
<1>8. SalisTypeOK'
  BY <1>1, <1>3, <1>4, <1>5, <1>7 DEF SalisTypeOK
<1> QED
  BY <1>1, <1>3, <1>7, <1>8 DEF SalisFull

LEMMA LaborerFull ==
  ASSUME SalisFull, NEW f \in Field, LaborerStep(f)
  PROVE  SalisFull'
<1>1. /\ SalisTypeOK /\ permits + Cardinality(Carriers) = Permits
      /\ \A g \in Field : laborer[g] # "end" => noSalted[g] < SaltGoal
  BY DEF SalisFull
<1>2. UNCHANGED <<porter, target, porterSaw, permits, destroyed, doWork, sigint, signalThread,
                  scipio, cleaning, victory>>
  BY DEF LaborerStep, LaborerTests, LaborerLocks, CheckSacks, WakeLaborer, WokenLaborer,
         LaborerLoads, LaborerStores, SaltField, porterVars, scipioVars, signalVars
<1>3. Carriers' = Carriers
  BY <1>2 DEF Carriers
<1>4. mxNoSacks' \in [Field -> Porter \cup {"laborer", Nobody}]
  <2>1. Lock(f, "laborer") \/ Unlock(f) \/ UNCHANGED mxNoSacks
    BY DEF LaborerStep, LaborerTests, LaborerLocks, CheckSacks, WakeLaborer, WokenLaborer,
           LaborerLoads, LaborerStores, SaltField, fieldVars
  <2> QED
    BY <1>1, <2>1, MutexTypes
<1>5. noSacks' \in [Field -> Int] /\ laborerSaw' \in [Field -> Int]
  <2>1. CASE LaborerLoads(f)
    BY <1>1, <2>1 DEF LaborerLoads, fieldVars, SalisTypeOK
  <2>2. CASE LaborerStores(f)
    <3>1. laborerSaw[f] - 1 \in Int
      BY <1>1 DEF SalisTypeOK
    <3> QED
      BY <1>1, <2>2, <3>1 DEF LaborerStores, SalisTypeOK
  <2>3. CASE ~LaborerLoads(f) /\ ~LaborerStores(f)
    <3>1. UNCHANGED <<noSacks, laborerSaw>>
      BY <2>3 DEF LaborerStep, LaborerTests, LaborerLocks, CheckSacks, WakeLaborer, WokenLaborer,
         SaltField, fieldVars
    <3> QED
      BY <1>1, <3>1 DEF SalisTypeOK
  <2> QED
    BY <2>1, <2>2, <2>3
<1>6. CASE SaltField(f)
  <2>1. PICK l \in {"test", "end"} :
          /\ laborer' = [laborer EXCEPT ![f] = l]
          /\ l = "test" => ~(noSalted[f] + 1 >= SaltGoal)
    BY <1>6 DEF SaltField, LaborerGoto
  <2>2. /\ laborer[f] = "salt" /\ noSalted' = [noSalted EXCEPT ![f] = @ + 1]
    BY <1>6 DEF SaltField
  <2>3. SaltGoal \in Nat /\ noSalted[f] \in Nat /\ noSalted[f] < SaltGoal
    <3>1. SaltGoal \in Nat
      BY SalisAssumption
    <3> QED
      BY <1>1, <2>2, <3>1 DEF SalisTypeOK
  <2>4. noSalted[f] + 1 \in 0..SaltGoal
    BY <2>3
  <2>5. /\ laborer'[f] = l /\ noSalted'[f] = noSalted[f] + 1
        /\ \A g \in Field : g # f => laborer'[g] = laborer[g] /\ noSalted'[g] = noSalted[g]
    BY <1>1, <2>1, <2>2 DEF SalisTypeOK
  <2>6. \A g \in Field : laborer'[g] # "end" => noSalted'[g] < SaltGoal
    BY <1>1, <2>1, <2>3, <2>5
  <2>7. /\ laborer' \in [Field -> {"test", "lock", "check", "waiting", "woken", "load", "store", "salt", "end"}]
        /\ noSalted' \in [Field -> 0..SaltGoal]
    BY <1>1, <2>1, <2>2, <2>4 DEF SalisTypeOK
  <2>8. SalisTypeOK'
    BY <1>1, <1>2, <1>4, <1>5, <2>7 DEF SalisTypeOK
  <2> QED
    BY <1>1, <1>2, <1>3, <2>6, <2>8 DEF SalisFull
<1>7. CASE ~SaltField(f)
  <2>1. UNCHANGED noSalted
    BY <1>7 DEF LaborerStep, LaborerTests, LaborerLocks, CheckSacks, WakeLaborer, WokenLaborer,
       LaborerLoads, LaborerStores, fieldVars
  <2>2. PICK l \in {"test", "lock", "check", "waiting", "woken", "load", "store", "salt", "end"} :
          laborer' = [laborer EXCEPT ![f] = l]
    BY <1>7 DEF LaborerStep, LaborerTests, LaborerLocks, CheckSacks, WakeLaborer, WokenLaborer,
       LaborerLoads, LaborerStores, LaborerGoto
  <2>3. laborer[f] # "end"
    BY <1>7 DEF LaborerStep, LaborerTests, LaborerLocks, CheckSacks, WakeLaborer, WokenLaborer,
       LaborerLoads, LaborerStores
  <2>4. \A g \in Field : laborer'[g] # "end" => noSalted'[g] < SaltGoal
    BY <1>1, <2>1, <2>2, <2>3 DEF SalisTypeOK
  <2>5. laborer' \in [Field -> {"test", "lock", "check", "waiting", "woken", "load", "store", "salt", "end"}]
    BY <1>1, <2>2 DEF SalisTypeOK
  <2>6. SalisTypeOK'
    BY <1>1, <1>2, <1>4, <1>5, <2>1, <2>5 DEF SalisTypeOK
  <2> QED
    BY <1>1, <1>2, <1>3, <2>4, <2>6 DEF SalisFull
<1> QED
  BY <1>6, <1>7

LEMMA SalisFullNext == SalisFull /\ [SalisNext]_salisVars => SalisFull'
<1> SUFFICES ASSUME SalisFull, [SalisNext]_salisVars PROVE SalisFull'
  OBVIOUS
<1>1. /\ SalisTypeOK /\ permits + Cardinality(Carriers) = Permits
      /\ \A f \in Field : laborer[f] # "end" => noSalted[f] < SaltGoal
  BY DEF SalisFull
<1>2. CASE ScipioStep \/ TakeSigint \/ InterruptSalis \/ UNCHANGED salisVars
  <2>1. UNCHANGED <<noSacks, noSalted, mxNoSacks, laborer, laborerSaw, porter, target, porterSaw, permits>>
    BY <1>2 DEF ScipioStep, DestroyMutex, DestroyCond, JoinLaborer, Conclude, JoinPorters,
       TakeSigint, InterruptSalis, salisVars, fieldVars, laborerVars, porterVars
  <2>2. Carriers' = Carriers
    BY <2>1 DEF Carriers
  <2>3. destroyed' \subseteq Field /\ cleaning' \in Field
    <3>1. CASE JoinLaborer
      <4>1. NoFields \in Nat
        BY SalisAssumption
      <4>2. cleaning \in 1..NoFields /\ destroyed' = destroyed
            /\ \/ cleaning < NoFields /\ cleaning' = cleaning + 1
               \/ cleaning' = cleaning
        BY <1>1, <3>1 DEF JoinLaborer, SalisTypeOK, Field
      <4>3. cleaning' \in 1..NoFields
        BY <4>1, <4>2
      <4> QED
        BY <1>1, <4>2, <4>3 DEF SalisTypeOK, Field
    <3>2. CASE ~JoinLaborer
      BY <1>1, <1>2, <3>2 DEF ScipioStep, DestroyMutex, DestroyCond, Conclude, JoinPorters,
         TakeSigint, InterruptSalis, salisVars, scipioVars, SalisTypeOK
    <3> QED
      BY <3>1, <3>2
  <2>4. /\ doWork' \in BOOLEAN /\ sigint' \in BOOLEAN /\ victory' \in BOOLEAN
        /\ signalThread' \in {"sigwait", "end"}
        /\ scipio' \in {"destroy", "destroy_cond", "join_laborer", "conclude", "join_porters", "exited"}
    <3>1. CASE Conclude
      BY <1>1, <3>1 DEF Conclude, SalisTypeOK
    <3>2. CASE DestroyMutex \/ DestroyCond \/ JoinLaborer \/ JoinPorters
      BY <1>1, <3>2 DEF DestroyMutex, DestroyCond, JoinLaborer, JoinPorters, signalVars, SalisTypeOK
    <3>3. CASE TakeSigint \/ InterruptSalis \/ UNCHANGED salisVars
      BY <1>1, <3>3 DEF TakeSigint, InterruptSalis, salisVars, signalVars, scipioVars, SalisTypeOK
    <3> QED
      BY <1>2, <3>1, <3>2, <3>3 DEF ScipioStep
  <2>5. SalisTypeOK'
    BY <1>1, <2>1, <2>3, <2>4 DEF SalisTypeOK
  <2> QED
    BY <1>1, <2>1, <2>2, <2>5 DEF SalisFull
<1> QED
  BY <1>2, PorterFull, LaborerFull DEF SalisNext

(* Nobody salts a field more often than it needs, and the semaphore counts *)
(* the porters on their way.                                               *)
THEOREM SalisTypeCorrect == SalisSpec => []SalisTypeOK
<1>1. SalisFull => SalisTypeOK
  BY DEF SalisFull
<1> QED
  BY <1>1, SalisFullInit, SalisFullNext, PTL DEF SalisSpec

-----------------------------------------------------------------------------
(* prelab.c: letters counted                                              *)

(* The places of the ring that hold paths: it never wraps while it holds   *)
(* any, as everything is pushed before the first pop.                      *)
Used == cb.tail..(cb.tail + cb.len - 1)
InRing(p) == \E i \in Used : cb.buf[i] = p

Reading == {"read", "test_quit", "count"}
Reads(w, p) == workerPc[w] \in Reading /\ path[w] = p

RingStraight ==
    /\ cb.tail + cb.len <= CIRC_BUF_SIZE
    /\ \A i \in Used : cb.buf[i] \in walked
    /\ \A i, j \in Used : cb.buf[i] = cb.buf[j] => i = j
    /\ prelabMain = "walk" =>
          cb.tail = 0 /\ cb.head = IF cb.len = CIRC_BUF_SIZE THEN 0 ELSE cb.len

(* Each text that has been taken has one reader at most.                   *)
ReadersApart ==
    /\ \A w \in TextWorker : workerPc[w] \in Reading =>
          /\ path[w] \in walked /\ ~InRing(path[w])
          /\ offset[w] <= Len(Content[path[w]])
          /\ workerPc[w] # "read" => offset[w] >= 1
    /\ \A v, w \in TextWorker :
          workerPc[v] \in Reading /\ workerPc[w] \in Reading /\ path[v] = path[w] => v = w

PrelabPhases ==
    /\ prelabMain = "walk" => \A w \in TextWorker : workerPc[w] = "none"
    /\ \A w \in TextWorker : workerPc[w] # "none" => walked = texts
    /\ ~quit => \A w \in TextWorker : workerPc[w] = "end" => cb.len = 0

(* Where the letter l is in the first c[p] letters of each text p.         *)
Upto(c, l) ==
    UNION {{<<p, i>> : i \in {k \in 1..c[p] : Content[p][k] = l}} : p \in texts}

(* c[p] letters of each text p have been counted.                          *)
Counted(c) ==
    /\ \A p \in texts : c[p] <= Len(Content[p])
    /\ \A p \in texts : p \notin walked \/ InRing(p) => c[p] = 0
    /\ \A w \in TextWorker : workerPc[w] \in Reading =>
          c[path[w]] = IF workerPc[w] = "read" THEN offset[w] ELSE offset[w] - 1
    /\ ~quit => \A p \in walked :
          InRing(p) \/ (\E w \in TextWorker : Reads(w, p)) \/ c[p] = Len(Content[p])
    /\ \A l \in Letter : freq[l] = Cardinality(Upto(c, l))

PrelabIInv ==
    /\ PrelabTypeOK /\ RingStraight /\ ReadersApart /\ PrelabPhases
    /\ \E c \in [Text -> Nat] : Counted(c)

-----------------------------------------------------------------------------
LEMMA ContentType ==
  ASSUME NEW p \in Text
  PROVE  /\ Len(Content[p]) \in Nat
         /\ DOMAIN Content[p] = 1..Len(Content[p])
         /\ \A k \in 1..Len(Content[p]) : Content[p][k] \in Letter
<1>1. Content[p] \in Seq(Letter)
  BY PrelabAssumption
<1> QED
  BY <1>1

\* A worker that reads has a text of the directory, that is not in the ring.
LEMMA ReadingWorker ==
  ASSUME PrelabTypeOK, ReadersApart, NEW w \in TextWorker, workerPc[w] \in Reading
  PROVE  /\ path[w] \in walked /\ path[w] \in Text /\ path[w] \in texts
         /\ ~InRing(path[w])
         /\ offset[w] \in Nat /\ offset[w] <= Len(Content[path[w]])
  BY DEF PrelabTypeOK, ReadersApart

\* What circ_buf_pop takes out is the place at the tail, and nothing else.
LEMMA PrelabPop ==
  ASSUME PrelabTypeOK, RingStraight, PrelabPhases, NEW w \in TextWorker, circ_buf_pop(w)
  PROVE  /\ RingStraight'
         /\ cb.buf[cb.tail] \in walked
         /\ InRing(cb.buf[cb.tail])
         /\ \A q : InRing(q)' <=> InRing(q) /\ q # cb.buf[cb.tail]
<1> DEFINE t == cb.tail  n == cb.len
<1>1. /\ CIRC_BUF_SIZE \in Nat \ {0} /\ t \in Nat /\ n \in Nat /\ n > 0
      /\ t + n <= CIRC_BUF_SIZE /\ t < CIRC_BUF_SIZE
  BY PrelabAssumption DEF PrelabTypeOK, RingStraight, circ_buf_pop, Slot
<1>2. /\ cb' = [cb EXCEPT !.len = n - 1, !.tail = (t + 1) % CIRC_BUF_SIZE]
      /\ UNCHANGED <<texts, walked, prelabMain>> /\ workerPc[w] = "pop"
  BY DEF circ_buf_pop
<1>3. cb'.buf = cb.buf /\ cb'.len = n - 1 /\ cb'.tail = (t + 1) % CIRC_BUF_SIZE
      /\ cb'.head = cb.head
  BY <1>2 DEF PrelabTypeOK
<1>4. (t + 1 < CIRC_BUF_SIZE /\ cb'.tail = t + 1)
      \/ (t + 1 = CIRC_BUF_SIZE /\ cb'.tail = 0 /\ n = 1)
  BY <1>1, <1>3
<1>5. Used' = cb'.tail..(cb'.tail + cb'.len - 1)
  BY DEF Used
<1>6. \A i : i \in Used' <=> i \in Used /\ i # t
  <2>1. CASE t + 1 < CIRC_BUF_SIZE /\ cb'.tail = t + 1
    <3>1. Used' = (t + 1)..(t + 1 + (n - 1) - 1)
      BY <1>3, <1>5, <2>1
    <3>2. Used = t..(t + n - 1)
      BY DEF Used
    <3> QED
      BY <1>1, <3>1, <3>2
  <2>2. CASE cb'.tail = 0 /\ n = 1
    <3>1. Used' = 0..(0 + 0 - 1)
      BY <1>1, <1>3, <1>5, <2>2
    <3>2. Used = t..(t + 1 - 1)
      BY <2>2 DEF Used
    <3> QED
      BY <1>1, <3>1, <3>2
  <2> QED
    BY <1>4, <2>1, <2>2
<1>7. t \in Used
  BY <1>1 DEF Used
<1>8. cb'.tail + cb'.len <= CIRC_BUF_SIZE
  BY <1>1, <1>3, <1>4
<1> HIDE DEF t, n
<1>9. \A q : InRing(q)' <=> \E i \in Used' : cb.buf[i] = q
  BY <1>3 DEF InRing
<1>10. \A i \in Used : cb.buf[i] = cb.buf[t] => i = t
  BY <1>7 DEF RingStraight
<1>11. \A q : InRing(q)' <=> InRing(q) /\ q # cb.buf[t]
  BY <1>6, <1>7, <1>9, <1>10 DEF InRing
<1>12. cb.buf[t] \in walked /\ InRing(cb.buf[t])
  BY <1>7 DEF RingStraight, InRing
<1>13. RingStraight'
  <2>1. \A i \in Used' : cb'.buf[i] \in walked'
    BY <1>2, <1>3, <1>6 DEF RingStraight
  <2>2. \A i, j \in Used' : cb'.buf[i] = cb'.buf[j] => i = j
    BY <1>3, <1>6 DEF RingStraight
  <2>3. prelabMain' # "walk"
    BY <1>2 DEF PrelabPhases
  <2> QED
    BY <1>8, <2>1, <2>2, <2>3 DEF RingStraight
<1> QED
  BY <1>11, <1>12, <1>13 DEF t

-----------------------------------------------------------------------------
\* walk_dir puts a new path behind the others.
LEMMA PrelabWalk ==
  ASSUME PrelabTypeOK, RingStraight, NEW p \in texts \ walked, circ_buf_push(p),
         prelabMain = "walk", walked' = walked \cup {p}, UNCHANGED <<texts, prelabMain>>
  PROVE  /\ RingStraight'
         /\ \A q : InRing(q)' <=> InRing(q) \/ q = p
<1> DEFINE n == cb.len
<1>1. /\ CIRC_BUF_SIZE \in Nat \ {0} /\ n \in Nat /\ n < CIRC_BUF_SIZE
      /\ cb.tail = 0 /\ cb.head = n /\ n \in Slot
  BY PrelabAssumption DEF PrelabTypeOK, RingStraight, circ_buf_push, Slot
<1>2. cb' = [cb EXCEPT !.buf[n] = p, !.len = n + 1, !.head = (n + 1) % CIRC_BUF_SIZE]
  BY <1>1 DEF circ_buf_push
<1>3. /\ cb'.len = n + 1 /\ cb'.tail = 0 /\ cb'.head = (n + 1) % CIRC_BUF_SIZE
      /\ cb'.buf = [cb.buf EXCEPT ![n] = p]
  BY <1>1, <1>2 DEF PrelabTypeOK
<1>4. cb'.buf[n] = p /\ \A i \in Slot : i # n => cb'.buf[i] = cb.buf[i]
  BY <1>1, <1>3 DEF PrelabTypeOK
<1>5. Used = 0..(0 + n - 1)
  BY <1>1 DEF Used
<1>6. Used' = 0..(0 + (n + 1) - 1)
  BY <1>3 DEF Used
<1>7. \A i : i \in Used' <=> i \in Used \/ i = n
  BY <1>1, <1>5, <1>6
<1>8. n \notin Used /\ \A i \in Used : i \in Slot
  BY <1>1, <1>5 DEF Slot
<1>9. cb'.head = IF n + 1 = CIRC_BUF_SIZE THEN 0 ELSE n + 1
  BY <1>1, <1>3
<1>10. cb'.tail + cb'.len <= CIRC_BUF_SIZE
  BY <1>1, <1>3
<1>11. cb'.head = IF cb'.len = CIRC_BUF_SIZE THEN 0 ELSE cb'.len
  BY <1>3, <1>9
<1> HIDE DEF n
<1>12. \A i \in Used' : cb'.buf[i] \in walked'
  BY <1>4, <1>7, <1>8 DEF RingStraight
<1>13. \A i, j \in Used' : cb'.buf[i] = cb'.buf[j] => i = j
  BY <1>4, <1>7, <1>8 DEF RingStraight
<1>14. RingStraight'
  BY <1>3, <1>10, <1>11, <1>12, <1>13 DEF RingStraight
<1>15. \A q : InRing(q)' <=> InRing(q) \/ q = p
  BY <1>4, <1>7, <1>8 DEF InRing
<1> QED
  BY <1>14, <1>15

-----------------------------------------------------------------------------
LEMMA PrelabTypeNext == PrelabIInv /\ [PrelabNext]_prelabVars => PrelabTypeOK'
<1> SUFFICES ASSUME PrelabIInv, [PrelabNext]_prelabVars PROVE PrelabTypeOK'
  OBVIOUS
<1>1. PrelabTypeOK /\ RingStraight /\ ReadersApart
  BY DEF PrelabIInv
<1>2. CIRC_BUF_SIZE \in Nat \ {0}
  BY PrelabAssumption
<1>3. CASE walk_dir
  <2>1. PICK p \in texts \ walked : circ_buf_push(p) /\ walked' = walked \cup {p}
    BY <1>3 DEF walk_dir
  <2> DEFINE h == (cb.head + 1) % CIRC_BUF_SIZE
  <2>2. h \in Slot /\ cb.len + 1 \in 0..CIRC_BUF_SIZE /\ p \in Text
    BY <1>1, <1>2, <2>1 DEF PrelabTypeOK, circ_buf_push, Slot
  <2>3. cb' = [cb EXCEPT !.buf[cb.head] = p, !.len = cb.len + 1, !.head = h]
    BY <2>1 DEF circ_buf_push
  <2> HIDE DEF h
  <2> QED
    BY <1>1, <1>3, <2>1, <2>2, <2>3 DEF walk_dir, PrelabTypeOK, readerVars
<1>4. ASSUME NEW w \in TextWorker, TextWorkerStep(w) PROVE PrelabTypeOK'
  <2>1. CASE TestLen(w) \/ TestWorkerQuit(w)
    BY <1>1, <2>1 DEF TestLen, TestWorkerQuit, WorkerGoto, PrelabTypeOK, ringVars
  <2>2. CASE circ_buf_pop(w)
    <3> DEFINE t == (cb.tail + 1) % CIRC_BUF_SIZE
    <3>1. /\ t \in Slot /\ cb.len - 1 \in 0..CIRC_BUF_SIZE
          /\ cb.buf[cb.tail] \in Text \cup {NoPath}
      BY <1>1, <1>2, <2>2 DEF PrelabTypeOK, circ_buf_pop, Slot
    <3>2. cb' = [cb EXCEPT !.len = cb.len - 1, !.tail = t]
      BY <2>2 DEF circ_buf_pop
    <3> HIDE DEF t
    <3>3. cb' \in [buf : [Slot -> Text \cup {NoPath}], head : Slot, tail : Slot,
                   len : 0..CIRC_BUF_SIZE]
      BY <1>1, <3>1, <3>2 DEF PrelabTypeOK
    <3>4. /\ path' = [path EXCEPT ![w] = cb.buf[cb.tail]]
          /\ offset' = [offset EXCEPT ![w] = 0]
          /\ workerPc' = [workerPc EXCEPT ![w] = "read"]
          /\ UNCHANGED <<texts, walked, freq, quit, pending, sigThread, prelabMain>>
      BY <2>2 DEF circ_buf_pop
    <3> QED
      BY <1>1, <3>1, <3>3, <3>4 DEF PrelabTypeOK
  <2>3. CASE ReadByte(w)
    <3>1. /\ \/ /\ offset' = [offset EXCEPT ![w] = offset[w] + 1]
                /\ workerPc' = [workerPc EXCEPT ![w] = "test_quit"]
             \/ workerPc' = [workerPc EXCEPT ![w] = "test"] /\ UNCHANGED offset
          /\ UNCHANGED <<ringVars, path, freq, quit, pending, sigThread, prelabMain>>
      BY <2>3 DEF ReadByte, WorkerGoto
    <3>2. offset[w] + 1 \in Nat
      BY <1>1 DEF PrelabTypeOK
    <3> QED
      BY <1>1, <3>1, <3>2 DEF PrelabTypeOK, ringVars
  <2>4. CASE CountLetter(w)
    <3>1. Content[path[w]][offset[w]] \in Letter
      BY <1>1, <2>4, ReadingWorker, ContentType DEF CountLetter, ReadersApart, Reading
    <3> QED
      BY <1>1, <2>4, <3>1 DEF CountLetter, WorkerGoto, PrelabTypeOK, ringVars
  <2> QED
    BY <1>4, <2>1, <2>2, <2>3, <2>4 DEF TextWorkerStep
<1>5. CASE StartWorkers
  BY <1>1, <1>5 DEF StartWorkers, PrelabTypeOK, ringVars
<1>6. CASE PollQuit \/ JoinWorkers \/ TakeSignal \/ InterruptPrelab
  BY <1>1, <1>6 DEF PollQuit, JoinWorkers, TakeSignal, InterruptPrelab, PrelabTypeOK,
     ringVars, readerVars
<1>7. CASE UNCHANGED prelabVars
  BY <1>1, <1>7 DEF PrelabTypeOK, prelabVars, ringVars, readerVars
<1> QED
  BY <1>3, <1>4, <1>5, <1>6, <1>7 DEF PrelabNext, PrelabMainStep

-----------------------------------------------------------------------------
LEMMA RingNext == PrelabIInv /\ [PrelabNext]_prelabVars => RingStraight'
<1> SUFFICES ASSUME PrelabIInv, [PrelabNext]_prelabVars PROVE RingStraight'
  OBVIOUS
<1>1. PrelabTypeOK /\ RingStraight /\ PrelabPhases
  BY DEF PrelabIInv
<1>2. ASSUME UNCHANGED <<cb, walked>>, prelabMain' = "walk" => prelabMain = "walk"
      PROVE  RingStraight'
  <2>1. Used' = Used
    BY <1>2 DEF Used
  <2> QED
    BY <1>1, <1>2, <2>1 DEF RingStraight
<1>3. CASE walk_dir
  BY <1>1, <1>3, PrelabWalk DEF walk_dir
<1>4. ASSUME NEW w \in TextWorker, TextWorkerStep(w) PROVE RingStraight'
  <2>1. CASE circ_buf_pop(w)
    BY <1>1, <2>1, PrelabPop
  <2>2. CASE TestLen(w) \/ ReadByte(w) \/ TestWorkerQuit(w) \/ CountLetter(w)
    BY <1>2, <2>2 DEF TestLen, ReadByte, TestWorkerQuit, CountLetter, ringVars
  <2> QED
    BY <1>4, <2>1, <2>2 DEF TextWorkerStep
<1>5. CASE StartWorkers \/ PollQuit \/ JoinWorkers \/ TakeSignal \/ InterruptPrelab
  BY <1>2, <1>5 DEF StartWorkers, PollQuit, JoinWorkers, TakeSignal, InterruptPrelab, ringVars
<1>6. CASE UNCHANGED prelabVars
  BY <1>2, <1>6 DEF prelabVars, ringVars
<1> QED
  BY <1>3, <1>4, <1>5, <1>6 DEF PrelabNext, PrelabMainStep

\* A step that starts no reading and keeps the rest keeps the readers apart.
LEMMA ReadersStay ==
  ASSUME ReadersApart, UNCHANGED <<walked, cb>>,
         \A w \in TextWorker : workerPc'[w] \in Reading =>
            /\ workerPc[w] \in Reading /\ path'[w] = path[w] /\ offset'[w] = offset[w]
            /\ workerPc'[w] # "read" => workerPc[w] # "read"
  PROVE  ReadersApart'
<1>1. \A q : InRing(q)' <=> InRing(q)
  BY DEF InRing, Used
<1> QED
  BY <1>1 DEF ReadersApart

LEMMA ReadersNext == PrelabIInv /\ [PrelabNext]_prelabVars => ReadersApart'
<1> SUFFICES ASSUME PrelabIInv, [PrelabNext]_prelabVars PROVE ReadersApart'
  OBVIOUS
<1>1. PrelabTypeOK /\ RingStraight /\ ReadersApart /\ PrelabPhases
  BY DEF PrelabIInv
<1>2. CASE walk_dir \/ StartWorkers
  <2>1. \A w \in TextWorker : workerPc'[w] \notin Reading
    BY <1>1, <1>2 DEF walk_dir, StartWorkers, readerVars, PrelabPhases, Reading
  <2> QED
    BY <2>1 DEF ReadersApart
<1>3. ASSUME NEW w \in TextWorker, TextWorkerStep(w) PROVE ReadersApart'
  <2>1. CASE TestLen(w) \/ TestWorkerQuit(w) \/ CountLetter(w)
    <3>1. PICK l \in {"pop", "end", "count", "read"} :
            /\ workerPc' = [workerPc EXCEPT ![w] = l]
            /\ l = "count" => workerPc[w] = "test_quit"
            /\ l = "read" => workerPc[w] = "count"
      BY <2>1 DEF TestLen, TestWorkerQuit, CountLetter, WorkerGoto
    <3>2. UNCHANGED <<walked, cb, path, offset>>
      BY <2>1 DEF TestLen, TestWorkerQuit, CountLetter, ringVars
    <3>3. workerPc'[w] = l /\ \A v \in TextWorker : v # w => workerPc'[v] = workerPc[v]
      BY <1>1, <3>1 DEF PrelabTypeOK
    <3>4. ASSUME NEW v \in TextWorker, workerPc'[v] \in Reading
          PROVE  /\ workerPc[v] \in Reading
                 /\ workerPc'[v] # "read" => workerPc[v] # "read"
      BY <3>1, <3>3, <3>4 DEF Reading
    <3> QED
      BY <1>1, <3>2, <3>4, ReadersStay
  <2>2. CASE circ_buf_pop(w)
    <3> DEFINE p == cb.buf[cb.tail]
    <3>1. p \in walked /\ InRing(p) /\ \A q : InRing(q)' <=> InRing(q) /\ q # p
      BY <1>1, <2>2, PrelabPop
    <3>2. /\ workerPc'[w] = "read" /\ path'[w] = p /\ offset'[w] = 0
          /\ \A v \in TextWorker : v # w =>
                /\ workerPc'[v] = workerPc[v] /\ path'[v] = path[v] /\ offset'[v] = offset[v]
          /\ UNCHANGED walked
      BY <1>1, <2>2 DEF circ_buf_pop, PrelabTypeOK
    <3>3. Len(Content[p]) \in Nat
      BY <1>1, <3>1, ContentType DEF PrelabTypeOK
    <3> HIDE DEF p
    <3>4. 0 <= Len(Content[p])
      BY <3>3
    <3>5. \A v \in TextWorker : v # w /\ workerPc[v] \in Reading => path[v] # p
      BY <1>1, <3>1 DEF ReadersApart
    <3> QED
      BY <1>1, <3>1, <3>2, <3>4, <3>5 DEF ReadersApart
  <2>3. CASE ReadByte(w)
    <3>1. CASE workerPc'[w] = "test"
      <4>1. /\ UNCHANGED <<walked, cb, path>>
            /\ \A v \in TextWorker : v # w =>
                  workerPc'[v] = workerPc[v] /\ offset'[v] = offset[v]
        BY <1>1, <2>3 DEF ReadByte, WorkerGoto, ringVars, PrelabTypeOK
      <4> QED
        BY <1>1, <3>1, <4>1, ReadersStay DEF Reading
    <3>2. CASE workerPc'[w] # "test"
      <4>1. /\ workerPc[w] = "read" /\ workerPc'[w] = "test_quit"
            /\ offset[w] < Len(Content[path[w]]) /\ offset'[w] = offset[w] + 1
            /\ UNCHANGED <<walked, cb, path>>
            /\ \A v \in TextWorker : v # w =>
                  workerPc'[v] = workerPc[v] /\ offset'[v] = offset[v]
        BY <1>1, <2>3, <3>2 DEF ReadByte, WorkerGoto, ringVars, PrelabTypeOK
      <4>2. workerPc[w] \in Reading
        BY <4>1 DEF Reading
      <4>3. path[w] \in Text /\ offset[w] \in Nat /\ Len(Content[path[w]]) \in Nat
        BY <1>1, <4>2, ReadingWorker, ContentType
      <4>4. offset'[w] <= Len(Content[path[w]]) /\ offset'[w] >= 1
        BY <4>1, <4>3
      <4>5. \A q : InRing(q)' <=> InRing(q)
        BY <4>1 DEF InRing, Used
      <4>6. \A v \in TextWorker : workerPc'[v] \in Reading => workerPc[v] \in Reading
        BY <4>1, <4>2
      <4> QED
        BY <1>1, <4>1, <4>2, <4>4, <4>5, <4>6 DEF ReadersApart
    <3> QED
      BY <3>1, <3>2
  <2> QED
    BY <1>3, <2>1, <2>2, <2>3 DEF TextWorkerStep
<1>4. CASE PollQuit \/ JoinWorkers \/ TakeSignal \/ InterruptPrelab \/ UNCHANGED prelabVars
  <2>1. UNCHANGED <<ringVars, readerVars>>
    BY <1>4 DEF PollQuit, JoinWorkers, TakeSignal, InterruptPrelab, prelabVars
  <2> QED
    BY <1>1, <2>1, ReadersStay DEF ringVars, readerVars
<1> QED
  BY <1>2, <1>3, <1>4 DEF PrelabNext, PrelabMainStep

LEMMA PhasesNext == PrelabIInv /\ [PrelabNext]_prelabVars => PrelabPhases'
<1> SUFFICES ASSUME PrelabIInv, [PrelabNext]_prelabVars PROVE PrelabPhases'
  OBVIOUS
<1>1. PrelabTypeOK /\ RingStraight /\ PrelabPhases
  BY DEF PrelabIInv
<1>2. CASE walk_dir \/ StartWorkers
  BY <1>1, <1>2 DEF walk_dir, StartWorkers, readerVars, ringVars, PrelabPhases
<1>3. ASSUME NEW w \in TextWorker, TextWorkerStep(w) PROVE PrelabPhases'
  <2>1. /\ workerPc[w] # "none" /\ UNCHANGED <<texts, walked, quit, prelabMain>>
        /\ \A v \in TextWorker : v # w => workerPc'[v] = workerPc[v]
    BY <1>1, <1>3 DEF TextWorkerStep, TestLen, circ_buf_pop, ReadByte, TestWorkerQuit, CountLetter,
       WorkerGoto, ringVars, PrelabTypeOK
  <2>2. CASE circ_buf_pop(w)
    <3>1. \A v \in TextWorker : workerPc[v] # "end" \/ quit
      BY <1>1, <2>2 DEF circ_buf_pop, PrelabPhases, PrelabTypeOK
    <3>2. workerPc'[w] = "read"
      BY <1>1, <2>2 DEF circ_buf_pop, PrelabTypeOK
    <3> QED
      BY <1>1, <2>1, <3>1, <3>2 DEF PrelabPhases
  <2>3. CASE TestLen(w) \/ ReadByte(w) \/ TestWorkerQuit(w) \/ CountLetter(w)
    <3>1. UNCHANGED cb
      BY <2>3 DEF TestLen, ReadByte, TestWorkerQuit, CountLetter, ringVars
    <3>2. workerPc'[w] = "end" => cb.len = 0 \/ quit
      BY <1>1, <2>3 DEF TestLen, ReadByte, TestWorkerQuit, CountLetter, WorkerGoto, PrelabTypeOK
    <3> QED
      BY <1>1, <2>1, <3>1, <3>2 DEF PrelabPhases
  <2> QED
    BY <1>3, <2>2, <2>3 DEF TextWorkerStep
<1>4. CASE PollQuit \/ JoinWorkers \/ TakeSignal \/ InterruptPrelab \/ UNCHANGED prelabVars
  <2>1. /\ UNCHANGED <<ringVars, readerVars>>
        /\ quit => quit'
        /\ prelabMain' = "walk" => prelabMain = "walk"
    BY <1>4 DEF PollQuit, JoinWorkers, TakeSignal, InterruptPrelab, prelabVars
  <2> QED
    BY <1>1, <2>1 DEF PrelabPhases, ringVars, readerVars
<1> QED
  BY <1>2, <1>3, <1>4 DEF PrelabNext, PrelabMainStep

-----------------------------------------------------------------------------
LEMMA UptoIs ==
  \A c, l, x : x \in Upto(c, l) <=>
     \E q \in texts : \E i \in 1..c[q] : Content[q][i] = l /\ x = <<q, i>>
BY DEF Upto

\* All places of a letter.
All(l) == UNION {{<<p, i>> : i \in {k \in DOMAIN Content[p] : Content[p][k] = l}} : p \in texts}

LEMMA AllIs ==
  \A l, x : x \in All(l) <=>
     \E q \in texts : \E i \in DOMAIN Content[q] : Content[q][i] = l /\ x = <<q, i>>
BY DEF All

LEMMA AllFinite ==
  ASSUME PrelabTypeOK, NEW l
  PROVE  IsFiniteSet(All(l))
<1> DEFINE K(p) == {k \in DOMAIN Content[p] : Content[p][k] = l}
           S(p) == {<<p, i>> : i \in K(p)}
           T == {S(p) : p \in texts}
           f == [p \in texts |-> S(p)]
<1>1. IsFiniteSet(texts)
  BY FS_Subset, PrelabAssumption DEF PrelabTypeOK
<1>2. f \in Surjection(texts, T)
  BY DEF Surjection
<1>3. IsFiniteSet(T)
  BY <1>1, <1>2, FS_Surjection, Zenon
<1>4. ASSUME NEW p \in texts PROVE IsFiniteSet(S(p))
  <2> DEFINE g == [i \in K(p) |-> <<p, i>>]
  <2>1. Len(Content[p]) \in Nat /\ DOMAIN Content[p] = 1..Len(Content[p])
    BY ContentType DEF PrelabTypeOK
  <2>2. IsFiniteSet(1..Len(Content[p]))
    <3>1. 1 \in Int /\ Len(Content[p]) \in Int
      BY <2>1
    <3> QED
      BY <3>1, FS_Interval, Zenon
  <2>3. K(p) \in SUBSET (1..Len(Content[p]))
    BY <2>1
  <2>4. IsFiniteSet(K(p))
    BY <2>2, <2>3, FS_Subset, Zenon
  <2>5. g \in Surjection(K(p), S(p))
    BY DEF Surjection
  <2> HIDE DEF K, S, g
  <2> QED
    BY <2>4, <2>5, FS_Surjection, Zenon
<1>5. \A R \in T : IsFiniteSet(R)
  <2> HIDE DEF S
  <2> QED
    BY <1>4
<1>6. IsFiniteSet(UNION T)
  BY <1>3, <1>5, FS_UNION
<1> QED
  BY <1>6 DEF All

LEMMA UptoFinite ==
  ASSUME PrelabTypeOK, NEW c \in [Text -> Nat], \A p \in texts : c[p] <= Len(Content[p]), NEW l
  PROVE  /\ IsFiniteSet(Upto(c, l)) /\ Cardinality(Upto(c, l)) \in Nat
         /\ Upto(c, l) \in SUBSET All(l)
<1>1. ASSUME NEW q \in texts, NEW i \in 1..c[q] PROVE i \in DOMAIN Content[q]
  <2>1. q \in Text
    BY DEF PrelabTypeOK
  <2>2. c[q] \in Nat /\ c[q] <= Len(Content[q]) /\ Len(Content[q]) \in Nat
        /\ DOMAIN Content[q] = 1..Len(Content[q])
    BY <2>1, ContentType
  <2> QED
    BY <2>2
<1>2. Upto(c, l) \in SUBSET All(l)
  BY <1>1, UptoIs, AllIs
<1> QED
  BY <1>2, AllFinite, FS_Subset, FS_CardinalityType

\* One more letter of the text p.
LEMMA OneLetterMore ==
  ASSUME PrelabTypeOK, NEW c \in [Text -> Nat], NEW d \in [Text -> Nat],
         \A q \in texts : c[q] <= Len(Content[q]),
         NEW p \in texts, NEW k \in Nat, c[p] = k - 1,
         d[p] = k, \A q \in texts : q # p => d[q] = c[q],
         NEW l
  PROVE  /\ l = Content[p][k] => Cardinality(Upto(d, l)) = Cardinality(Upto(c, l)) + 1
         /\ l # Content[p][k] => Cardinality(Upto(d, l)) = Cardinality(Upto(c, l))
<1>1. p \in Text /\ c[p] \in Nat /\ k \in Nat \ {0}
  BY DEF PrelabTypeOK
<1>2. d[p] = k /\ \A q \in texts : q # p => d[q] = c[q]
  OBVIOUS
<1>3. \A i : i \in 1..k <=> i \in 1..c[p] \/ i = k
  BY <1>1
<1>4. k \notin 1..c[p]
  BY <1>1
<1>5. ASSUME NEW x
      PROVE  x \in Upto(d, l) <=> x \in Upto(c, l) \/ (l = Content[p][k] /\ x = <<p, k>>)
  <2>1. ASSUME x \in Upto(d, l)
        PROVE  x \in Upto(c, l) \/ (l = Content[p][k] /\ x = <<p, k>>)
    <3>0. PICK q \in texts : \E i \in 1..d[q] : Content[q][i] = l /\ x = <<q, i>>
      BY <2>1 DEF Upto
    <3>1. PICK i \in 1..d[q] : Content[q][i] = l /\ x = <<q, i>>
      BY <3>0
    <3>2. CASE q = p /\ i = k
      BY <3>1, <3>2
    <3>3. CASE ~(q = p /\ i = k)
      <4>1. i \in 1..c[q]
        <5>1. CASE q = p
          <6>1. i \in 1..k /\ i # k
            BY <1>2, <3>1, <3>3, <5>1
          <6> QED
            BY <1>3, <5>1, <6>1
        <5>2. CASE q # p
          BY <1>2, <3>1, <5>2
        <5> QED
          BY <5>1, <5>2
      <4> QED
        BY <3>1, <4>1, UptoIs, Zenon
    <3> QED
      BY <3>2, <3>3
  <2>2. ASSUME x \in Upto(c, l) PROVE x \in Upto(d, l)
    <3>0. PICK q \in texts : \E i \in 1..c[q] : Content[q][i] = l /\ x = <<q, i>>
      BY <2>2, UptoIs
    <3>1. PICK i \in 1..c[q] : Content[q][i] = l /\ x = <<q, i>>
      BY <3>0
    <3>2. i \in 1..d[q]
      BY <1>2, <1>3, <3>1
    <3> QED
      BY <3>1, <3>2, UptoIs, Zenon
  <2>3. ASSUME l = Content[p][k], x = <<p, k>> PROVE x \in Upto(d, l)
    <3>1. k \in 1..d[p]
      BY <1>2, <1>3
    <3> QED
      BY <2>3, <3>1, UptoIs, Zenon
  <2> QED
    BY <2>1, <2>2, <2>3
<1>6. <<p, k>> \notin Upto(c, l)
  BY <1>4, UptoIs
<1>7. IsFiniteSet(Upto(c, l)) /\ Cardinality(Upto(c, l)) \in Nat
  BY UptoFinite
<1>8. CASE l = Content[p][k]
  <2>1. Upto(d, l) = Upto(c, l) \cup {<<p, k>>}
    BY <1>5, <1>8
  <2>2. Cardinality(Upto(d, l)) = Cardinality(Upto(c, l)) + 1
    BY <1>6, <1>7, <2>1, FS_AddElement
  <2> QED
    BY <1>8, <2>2
<1>9. CASE l # Content[p][k]
  <2>1. Upto(d, l) = Upto(c, l)
    BY <1>5, <1>9
  <2> QED
    BY <1>7, <1>9, <2>1
<1> QED
  BY <1>8, <1>9

-----------------------------------------------------------------------------
Behind(w) == IF workerPc[w] = "read" THEN offset[w] ELSE offset[w] - 1

\* A step that counts nothing, and lets go of no text that is not counted.
LEMMA CountedStays ==
  ASSUME NEW c \in [Text -> Nat], Counted(c), UNCHANGED <<texts, walked, freq>>,
         \A q : InRing(q)' <=> InRing(q),
         quit => quit',
         \A v \in TextWorker : workerPc'[v] \in Reading =>
            workerPc[v] \in Reading /\ path'[v] = path[v] /\ Behind(v)' = Behind(v),
         ~quit' => \A v \in TextWorker : workerPc[v] \in Reading =>
            \/ workerPc'[v] \in Reading /\ path'[v] = path[v]
            \/ c[path[v]] = Len(Content[path[v]])
  PROVE  Counted(c)'
<1>1. \A l : Upto(c, l)' = Upto(c, l)
  BY DEF Upto
<1>2. \A l \in Letter : freq'[l] = Cardinality(Upto(c, l)')
  BY <1>1 DEF Counted
<1>3. \A v \in TextWorker : workerPc'[v] \in Reading => c[path'[v]] = Behind(v)'
  BY DEF Counted, Behind
<1>4. ~quit' => \A q \in walked :
          InRing(q)' \/ (\E v \in TextWorker : Reads(v, q)') \/ c[q] = Len(Content[q])
  BY DEF Counted, Reads
<1>5. (\A q \in texts : c[q] <= Len(Content[q]))
      /\ \A q \in texts : q \notin walked \/ InRing(q)' => c[q] = 0
  BY DEF Counted
<1> QED
  BY <1>2, <1>3, <1>4, <1>5 DEF Counted, Behind

LEMMA CountedNext ==
  ASSUME PrelabIInv, [PrelabNext]_prelabVars
  PROVE  \E d \in [Text -> Nat] : Counted(d)'
<1>1. PrelabTypeOK /\ RingStraight /\ ReadersApart /\ PrelabPhases
  BY DEF PrelabIInv
<1>2. PICK c \in [Text -> Nat] : Counted(c)
  BY DEF PrelabIInv
<1>3. CASE walk_dir
  <2>1. PICK p \in texts \ walked : circ_buf_push(p) /\ walked' = walked \cup {p}
    BY <1>3 DEF walk_dir
  <2>2. /\ prelabMain = "walk" /\ UNCHANGED <<texts, workerPc, path, offset, freq, quit, prelabMain>>
        /\ \A w \in TextWorker : workerPc[w] = "none"
    BY <1>1, <1>3 DEF walk_dir, readerVars, PrelabPhases
  <2>3. \A q : InRing(q)' <=> InRing(q) \/ q = p
    BY <1>1, <2>1, <2>2, PrelabWalk
  <2>4. c[p] = 0
    BY <1>2, <2>1 DEF Counted
  <2>5. \A l : Upto(c, l)' = Upto(c, l)
    BY <2>2 DEF Upto
  <2>6. \A v \in TextWorker : workerPc[v] \notin Reading
    BY <2>2 DEF Reading
  <2>7. \A l \in Letter : freq'[l] = Cardinality(Upto(c, l)')
    BY <1>2, <2>2, <2>5 DEF Counted
  <2>8. ~quit' => \A q \in walked' : InRing(q)' \/ c[q] = Len(Content[q])
    BY <1>2, <2>1, <2>2, <2>3, <2>6 DEF Counted, Reads
  <2>9. \A q \in texts : q \notin walked' \/ InRing(q)' => c[q] = 0
    BY <1>2, <2>1, <2>3, <2>4 DEF Counted
  <2> QED
    BY <1>2, <2>2, <2>6, <2>7, <2>8, <2>9 DEF Counted
<1>4. ASSUME NEW w \in TextWorker, TextWorkerStep(w) PROVE \E d \in [Text -> Nat] : Counted(d)'
  <2>1. CASE circ_buf_pop(w)
    <3> DEFINE p == cb.buf[cb.tail]
    <3>1. p \in walked /\ InRing(p) /\ \A q : InRing(q)' <=> InRing(q) /\ q # p
      BY <1>1, <2>1, PrelabPop
    <3>2. /\ workerPc[w] = "pop" /\ workerPc'[w] = "read" /\ path'[w] = p /\ offset'[w] = 0
          /\ \A v \in TextWorker : v # w =>
                /\ workerPc'[v] = workerPc[v] /\ path'[v] = path[v] /\ offset'[v] = offset[v]
          /\ UNCHANGED <<texts, walked, freq, quit>>
      BY <1>1, <2>1 DEF circ_buf_pop, PrelabTypeOK
    <3>3. p \in texts
      BY <1>1, <3>1 DEF PrelabTypeOK
    <3> HIDE DEF p
    <3>4. c[p] = 0
      BY <1>2, <3>1, <3>3 DEF Counted
    <3>5. \A l \in Letter : freq'[l] = Cardinality(Upto(c, l)')
      <4>1. \A l : Upto(c, l)' = Upto(c, l)
        BY <3>2 DEF Upto
      <4> QED
        BY <1>2, <3>2, <4>1 DEF Counted
    <3>6. workerPc[w] \notin Reading /\ workerPc'[w] \in Reading
      BY <3>2 DEF Reading
    <3>7. \A v \in TextWorker : workerPc'[v] \in Reading => c[path'[v]] = Behind(v)'
      BY <1>2, <3>2, <3>4 DEF Counted, Behind
    <3>8. ASSUME ~quit', NEW q \in walked
          PROVE  InRing(q)' \/ (\E v \in TextWorker : Reads(v, q)') \/ c[q] = Len(Content[q])
      <4>1. CASE q = p
        BY <3>2, <3>6, <4>1 DEF Reads
      <4>2. CASE q # p
        BY <1>2, <3>1, <3>2, <3>6, <3>8, <4>2 DEF Counted, Reads
      <4> QED
        BY <4>1, <4>2
    <3>9. (\A q \in texts : c[q] <= Len(Content[q]))
          /\ \A q \in texts : q \notin walked \/ InRing(q)' => c[q] = 0
      BY <1>2, <3>1 DEF Counted
    <3> QED
      BY <3>2, <3>5, <3>7, <3>8, <3>9 DEF Counted, Behind
  <2>2. CASE TestLen(w) \/ TestWorkerQuit(w)
    <3>1. PICK l \in {"pop", "end", "count"} :
            /\ workerPc' = [workerPc EXCEPT ![w] = l]
            /\ l = "count" => workerPc[w] = "test_quit"
            /\ l # "count" => workerPc[w] = "test" \/ quit
      BY <2>2 DEF TestLen, TestWorkerQuit, WorkerGoto
    <3>2. UNCHANGED <<texts, walked, cb, path, offset, freq, quit>>
      BY <2>2 DEF TestLen, TestWorkerQuit, ringVars
    <3>3. workerPc'[w] = l /\ \A v \in TextWorker : v # w => workerPc'[v] = workerPc[v]
      BY <1>1, <3>1 DEF PrelabTypeOK
    <3>4. \A q : InRing(q)' <=> InRing(q)
      BY <3>2 DEF InRing, Used
    <3>5. ASSUME NEW v \in TextWorker, workerPc'[v] \in Reading
          PROVE  workerPc[v] \in Reading /\ path'[v] = path[v] /\ Behind(v)' = Behind(v)
      BY <3>1, <3>2, <3>3, <3>5 DEF Reading, Behind
    <3>6. ASSUME ~quit', NEW v \in TextWorker, workerPc[v] \in Reading
          PROVE  workerPc'[v] \in Reading /\ path'[v] = path[v]
      BY <3>1, <3>2, <3>3, <3>6 DEF Reading
    <3> QED
      BY <1>2, <3>2, <3>4, <3>5, <3>6, CountedStays
  <2>3. CASE ReadByte(w)
    <3>1. /\ workerPc[w] = "read" /\ UNCHANGED <<texts, walked, cb, path, freq, quit>>
      BY <2>3 DEF ReadByte, ringVars
    <3>2. \A q : InRing(q)' <=> InRing(q)
      BY <3>1 DEF InRing, Used
    <3>3. /\ offset[w] \in Nat /\ Len(Content[path[w]]) \in Nat
          /\ offset[w] <= Len(Content[path[w]]) /\ c[path[w]] = offset[w]
      BY <1>1, <1>2, <3>1, ReadingWorker, ContentType DEF Reading, Counted
    <3>4. CASE offset[w] < Len(Content[path[w]])
      <4>1. workerPc'[w] = "test_quit" /\ offset'[w] = offset[w] + 1
            /\ \A v \in TextWorker : v # w => workerPc'[v] = workerPc[v] /\ offset'[v] = offset[v]
        BY <1>1, <2>3, <3>4 DEF ReadByte, WorkerGoto, PrelabTypeOK
      <4>2. Behind(w)' = Behind(w)
        BY <3>1, <3>3, <4>1 DEF Behind
      <4>3. ASSUME NEW v \in TextWorker, workerPc'[v] \in Reading
            PROVE  workerPc[v] \in Reading /\ path'[v] = path[v] /\ Behind(v)' = Behind(v)
        <5>1. CASE v = w
          BY <3>1, <4>2, <5>1 DEF Reading
        <5>2. CASE v # w
          BY <3>1, <4>1, <4>3, <5>2 DEF Behind
        <5> QED
          BY <5>1, <5>2
      <4>4. ASSUME NEW v \in TextWorker, workerPc[v] \in Reading
            PROVE  workerPc'[v] \in Reading /\ path'[v] = path[v]
        BY <3>1, <4>1, <4>4 DEF Reading
      <4> QED
        BY <1>2, <3>1, <3>2, <4>3, <4>4, CountedStays
    <3>5. CASE ~(offset[w] < Len(Content[path[w]]))
      <4>1. workerPc'[w] = "test" /\ UNCHANGED offset
            /\ \A v \in TextWorker : v # w => workerPc'[v] = workerPc[v]
        BY <1>1, <2>3, <3>5 DEF ReadByte, WorkerGoto, PrelabTypeOK
      <4>2. c[path[w]] = Len(Content[path[w]])
        BY <3>3, <3>5
      <4>3. ASSUME NEW v \in TextWorker, workerPc'[v] \in Reading
            PROVE  workerPc[v] \in Reading /\ path'[v] = path[v] /\ Behind(v)' = Behind(v)
        BY <3>1, <4>1, <4>3 DEF Reading, Behind
      <4>4. ASSUME NEW v \in TextWorker, workerPc[v] \in Reading
            PROVE  \/ workerPc'[v] \in Reading /\ path'[v] = path[v]
                   \/ c[path[v]] = Len(Content[path[v]])
        BY <3>1, <4>1, <4>2, <4>4 DEF Reading
      <4> QED
        BY <1>2, <3>1, <3>2, <4>3, <4>4, CountedStays
    <3> QED
      BY <3>4, <3>5
  <2>4. CASE CountLetter(w)
    <3> DEFINE p == path[w]  k == offset[w]
    <3>1. /\ workerPc[w] = "count" /\ workerPc'[w] = "read"
          /\ \A v \in TextWorker : v # w => workerPc'[v] = workerPc[v]
          /\ freq' = [freq EXCEPT ![Content[p][k]] = @ + 1]
          /\ UNCHANGED <<texts, walked, cb, path, offset, quit>>
      BY <1>1, <2>4 DEF CountLetter, WorkerGoto, PrelabTypeOK, ringVars
    <3>2. /\ p \in texts /\ p \in walked /\ p \in Text /\ ~InRing(p)
          /\ k \in Nat /\ k <= Len(Content[p]) /\ c[p] = k - 1
          /\ workerPc[w] \in Reading
      BY <1>1, <1>2, <3>1, ReadingWorker DEF Reading, Counted
    <3>3. PICK d \in [Text -> Nat] : d = [c EXCEPT ![p] = k]
      BY <3>2
    <3>4. d[p] = k /\ \A q \in Text : q # p => d[q] = c[q]
      BY <3>2, <3>3
    <3> HIDE DEF p, k
    <3>5. \A q : InRing(q)' <=> InRing(q)
      BY <3>1 DEF InRing, Used
    <3>6. \A q \in texts : q \in Text
      BY <1>1 DEF PrelabTypeOK
    <3>7. \A q \in texts : d[q] <= Len(Content[q])
      BY <1>2, <3>2, <3>4, <3>6 DEF Counted
    <3>8. \A q \in texts : q \notin walked \/ InRing(q)' => d[q] = 0
      BY <1>2, <3>2, <3>4, <3>5, <3>6 DEF Counted
    <3>9. ASSUME NEW v \in TextWorker, workerPc'[v] \in Reading
          PROVE  d[path'[v]] = Behind(v)'
      <4>1. CASE v = w
        BY <3>1, <3>4, <4>1 DEF Behind, p, k
      <4>2. CASE v # w
        <5>1. path[v] # p /\ path[v] \in Text /\ workerPc[v] \in Reading
          BY <1>1, <3>1, <3>2, <3>9, <4>2, ReadingWorker DEF ReadersApart, p
        <5>2. c[path[v]] = Behind(v)
          BY <1>2, <5>1 DEF Counted, Behind
        <5> QED
          BY <3>1, <3>4, <4>2, <5>1, <5>2 DEF Behind
      <4> QED
        BY <4>1, <4>2
    <3>10. ASSUME ~quit', NEW q \in walked
           PROVE  InRing(q)' \/ (\E v \in TextWorker : Reads(v, q)') \/ d[q] = Len(Content[q])
      <4>1. CASE q = p
        BY <3>1, <4>1 DEF Reads, Reading, p
      <4>2. CASE q # p
        <5>1. InRing(q) \/ (\E v \in TextWorker : Reads(v, q)) \/ c[q] = Len(Content[q])
          BY <1>2, <3>1, <3>10 DEF Counted
        <5>2. ASSUME NEW v \in TextWorker, Reads(v, q) PROVE Reads(v, q)'
          BY <3>1, <4>2, <5>2 DEF Reads, p
        <5>3. d[q] = c[q]
          BY <1>1, <3>4, <4>2 DEF PrelabTypeOK
        <5> QED
          BY <3>5, <5>1, <5>2, <5>3
      <4> QED
        BY <4>1, <4>2
    <3>11. ASSUME NEW l \in Letter PROVE freq'[l] = Cardinality(Upto(d, l)')
      <4>1. Upto(d, l)' = Upto(d, l)
        BY <3>1 DEF Upto
      <4>2. \A q \in texts : c[q] <= Len(Content[q])
        BY <1>2 DEF Counted
      <4>3. /\ l = Content[p][k] => Cardinality(Upto(d, l)) = Cardinality(Upto(c, l)) + 1
            /\ l # Content[p][k] => Cardinality(Upto(d, l)) = Cardinality(Upto(c, l))
        <5>1. c[p] = k - 1 /\ d[p] = k /\ \A q \in texts : q # p => d[q] = c[q]
          BY <1>1, <3>2, <3>4, <3>6 DEF PrelabTypeOK
        <5>2. c \in [Text -> Nat] /\ d \in [Text -> Nat] /\ p \in texts /\ k \in Nat
          BY <3>2, <3>4, <3>6
        <5> QED
          BY <1>1, <4>2, <5>1, <5>2, OneLetterMore
      <4>4. freq[l] = Cardinality(Upto(c, l)) /\ freq[l] \in Nat
        BY <1>1, <1>2 DEF Counted, PrelabTypeOK
      <4>5. freq'[l] = IF l = Content[p][k] THEN freq[l] + 1 ELSE freq[l]
        BY <1>1, <3>1 DEF PrelabTypeOK
      <4> QED
        BY <4>1, <4>3, <4>4, <4>5
    <3> QED
      BY <3>1, <3>7, <3>8, <3>9, <3>10, <3>11 DEF Counted, Behind
  <2> QED
    BY <1>4, <2>1, <2>2, <2>3, <2>4 DEF TextWorkerStep
<1>5. CASE StartWorkers \/ PollQuit \/ JoinWorkers \/ TakeSignal \/ InterruptPrelab
           \/ UNCHANGED prelabVars
  <2>1. UNCHANGED <<texts, walked, cb, path, offset, freq>> /\ (quit => quit')
    BY <1>5 DEF StartWorkers, PollQuit, JoinWorkers, TakeSignal, InterruptPrelab, prelabVars,
       ringVars, readerVars
  <2>2. UNCHANGED workerPc \/ \A v \in TextWorker : workerPc[v] = "none" /\ workerPc'[v] = "test"
    <3>1. CASE StartWorkers
      BY <1>1, <3>1 DEF StartWorkers, PrelabPhases
    <3>2. CASE ~StartWorkers
      BY <1>5, <3>2 DEF PollQuit, JoinWorkers, TakeSignal, InterruptPrelab, prelabVars, readerVars
    <3> QED
      BY <3>1, <3>2
  <2>3. \A q : InRing(q)' <=> InRing(q)
    BY <2>1 DEF InRing, Used
  <2>4. \A v \in TextWorker : workerPc'[v] \in Reading =>
           workerPc[v] \in Reading /\ path'[v] = path[v] /\ Behind(v)' = Behind(v)
    BY <2>1, <2>2 DEF Reading, Behind
  <2>5. \A v \in TextWorker : workerPc[v] \in Reading =>
           workerPc'[v] \in Reading /\ path'[v] = path[v]
    BY <2>1, <2>2 DEF Reading
  <2> QED
    BY <1>2, <2>1, <2>3, <2>4, <2>5, CountedStays
<1> QED
  BY <1>3, <1>4, <1>5 DEF PrelabNext, PrelabMainStep

-----------------------------------------------------------------------------
LEMMA PrelabInitHolds == PrelabInit => PrelabIInv
<1> SUFFICES ASSUME PrelabInit PROVE PrelabIInv
  OBVIOUS
<1>1. CIRC_BUF_SIZE \in Nat \ {0} /\ 0 \in Slot /\ 0 \in 0..CIRC_BUF_SIZE
  BY PrelabAssumption DEF Slot
<1>2. cb.tail = 0 /\ cb.head = 0 /\ cb.len = 0
  BY DEF PrelabInit, circ_buf_create
<1>3. PrelabTypeOK
  BY <1>1 DEF PrelabInit, circ_buf_create, PrelabTypeOK
<1>4. Used = {}
  BY <1>2 DEF Used
<1>5. RingStraight
  BY <1>1, <1>2, <1>4 DEF RingStraight
<1>6. \A w \in TextWorker : workerPc[w] = "none"
  BY DEF PrelabInit
<1>7. ReadersApart
  BY <1>6 DEF ReadersApart, Reading
<1>8. PrelabPhases
  BY <1>6 DEF PrelabPhases
<1>9. \E c \in [Text -> Nat] : Counted(c)
  <2>1. PICK c \in [Text -> Nat] : c = [p \in Text |-> 0]
    OBVIOUS
  <2>2. \A p \in texts : c[p] = 0 /\ 0 <= Len(Content[p])
    BY <1>3, <2>1, ContentType DEF PrelabTypeOK
  <2>3. \A l : Upto(c, l) = {}
    <3>1. \A p \in texts : 1..c[p] = {}
      BY <2>2
    <3> QED
      BY <3>1 DEF Upto
  <2>4. \A l : Cardinality(Upto(c, l)) = 0
    BY <2>3, FS_EmptySet, Zenon
  <2>5. \A l \in Letter : freq[l] = 0
    BY DEF PrelabInit
  <2>6. walked = {}
    BY DEF PrelabInit
  <2> QED
    BY <1>6, <2>2, <2>4, <2>5, <2>6 DEF Counted, Reading
<1> QED
  BY <1>3, <1>5, <1>7, <1>8, <1>9 DEF PrelabIInv

\* PrelabIInv holds in every reachable state.
THEOREM PrelabInvariance == PrelabSpec => []PrelabIInv
<1>1. PrelabIInv /\ [PrelabNext]_prelabVars => PrelabIInv'
  <2> SUFFICES ASSUME PrelabIInv, [PrelabNext]_prelabVars PROVE PrelabIInv'
    OBVIOUS
  <2>1. PrelabTypeOK' /\ RingStraight' /\ ReadersApart' /\ PrelabPhases'
    BY PrelabTypeNext, RingNext, ReadersNext, PhasesNext
  <2>2. \E d \in [Text -> Nat] : Counted(d)'
    BY CountedNext
  <2> QED
    BY <2>1, <2>2 DEF PrelabIInv
<1> QED
  BY <1>1, PrelabInitHolds, PTL DEF PrelabSpec

\* The counts are never more than the texts hold, and, when all threads have
\* ended without SIGINT, they are exactly that.
LEMMA ExactFromCounted == PrelabIInv => LettersExact
<1> SUFFICES ASSUME PrelabIInv PROVE LettersExact
  OBVIOUS
<1>1. PrelabTypeOK /\ RingStraight /\ ReadersApart /\ PrelabPhases
  BY DEF PrelabIInv
<1>2. PICK c \in [Text -> Nat] : Counted(c)
  BY DEF PrelabIInv
<1>3. \A q \in texts : c[q] <= Len(Content[q])
  BY <1>2 DEF Counted
<1>4. \A l : Occurrences(l) = Cardinality(All(l))
  BY DEF Occurrences, All
<1>5. ASSUME NEW l \in Letter PROVE freq[l] <= Occurrences(l)
  <2>1. Upto(c, l) \in SUBSET All(l) /\ IsFiniteSet(All(l))
    BY <1>1, <1>3, UptoFinite, AllFinite
  <2>2. Cardinality(Upto(c, l)) <= Cardinality(All(l))
    BY <2>1, FS_Subset
  <2> QED
    BY <1>2, <1>4, <2>2 DEF Counted
<1>6. ASSUME \A w \in TextWorker : workerPc[w] = "end", ~quit, NEW l \in Letter
      PROVE  freq[l] = Occurrences(l)
  <2>1. cb.len = 0 /\ walked = texts
    BY <1>1, <1>6, PrelabAssumption DEF PrelabPhases
  <2>2. \A q : ~InRing(q)
    BY <1>1, <2>1 DEF InRing, Used, PrelabTypeOK, Slot
  <2>3. \A w \in TextWorker, q \in texts : ~Reads(w, q)
    BY <1>6 DEF Reads, Reading
  <2>4. \A q \in texts : c[q] = Len(Content[q])
    BY <1>2, <1>6, <2>1, <2>2, <2>3 DEF Counted
  <2>5. \A q \in texts : DOMAIN Content[q] = 1..c[q]
    BY <1>1, <2>4, ContentType DEF PrelabTypeOK
  <2>6. \A x : x \in Upto(c, l) <=> x \in All(l)
    <3>1. ASSUME NEW x
          PROVE  x \in Upto(c, l) <=> x \in All(l)
      <4>1. x \in Upto(c, l) <=> \E q \in texts : \E i \in 1..c[q] : Content[q][i] = l /\ x = <<q, i>>
        BY DEF Upto
      <4>2. x \in All(l) <=> \E q \in texts : \E i \in DOMAIN Content[q] : Content[q][i] = l /\ x = <<q, i>>
        BY DEF All
      <4> QED
        BY <2>5, <4>1, <4>2
    <3> QED
      BY <3>1
  <2>7. Upto(c, l) = All(l)
    BY <2>6
  <2> QED
    BY <1>2, <1>4, <2>7 DEF Counted
<1> QED
  BY <1>5, <1>6 DEF LettersExact

(* The ring of paths is used within its bounds, and a thread knows a text  *)
(* while it reads one.                                                     *)
THEOREM PrelabTypeCorrect == PrelabSpec => []PrelabTypeOK
<1>1. PrelabIInv => PrelabTypeOK
  BY DEF PrelabIInv
<1> QED
  BY <1>1, PrelabInvariance, PTL

(* freq never exceeds what the texts hold, although threads count side by  *)
(* side; and once all threads have ended without being told to, each text  *)
(* has been counted once, from its first to its last letter, for any       *)
(* texts, any number of threads and a ring of any size.                    *)
THEOREM LettersExactHolds == PrelabSpec => []LettersExact
  BY ExactFromCounted, PrelabInvariance, PTL

-----------------------------------------------------------------------------
(* The video player: frames in order                                      *)

Dec == "dec_to_trans"
Disp == "trans_to_disp"

(* The place k places after t, without a remainder.                        *)
FramePlace(t, k) == IF t + k < BUFFER_SIZE THEN t + k ELSE t + k - BUFFER_SIZE

HeadsRight == \A r \in Ring : head[r] = FramePlace(tail[r], count[r])

Shows == threadPc["display"] = "show"
Transforms == threadPc["transformer"] \in {"transform", "poll_push", "push"}
Decoded == threadPc["decoder"] \in {"poll_push", "push"}

One(b) == IF b THEN 1 ELSE 0

(* The next frame for the display, and the one after all that are on their *)
(* way to it.                                                              *)
NextShown == shown + One(Shows)
Passed == NextShown + count[Disp] + One(Transforms)

(* The frames are in line: one is displayed, others wait in the second     *)
(* ring, one is transformed, others wait in the first ring, from first on, *)
(* and one is decoded.  Who has ended may have left a gap.                 *)
Lined(first) ==
    /\ Shows => frame["display"] = [idx |-> shown, transformed |-> TRUE]
    /\ \A k \in 0..(count[Disp] - 1) :
          data[Disp][FramePlace(tail[Disp], k)] = [idx |-> NextShown + k, transformed |-> TRUE]
    /\ Transforms =>
          frame["transformer"] = [idx |-> NextShown + count[Disp],
                                  transformed |-> threadPc["transformer"] # "transform"]
    /\ Passed <= first
    /\ threadPc["transformer"] # "end" => first = Passed
    /\ \A k \in 0..(count[Dec] - 1) :
          data[Dec][FramePlace(tail[Dec], k)] = [idx |-> first + k, transformed |-> FALSE]
    /\ Decoded => frame["decoder"] = [idx |-> first + count[Dec], transformed |-> FALSE]
    /\ first + count[Dec] + One(Decoded) <= frame_idx
    /\ threadPc["decoder"] # "end" => frame_idx = first + count[Dec] + One(Decoded)

(* What is in line is not freed, what is not decoded either.               *)
Unfreed(first) ==
    /\ \A i \in 0..MaxFrames : freed[i] <= 1
    /\ \A i \in shown..(Passed - 1) : freed[i] = 0
    /\ \A i \in first..(first + count[Dec] + One(Decoded) - 1) : freed[i] = 0
    /\ \A i \in frame_idx..MaxFrames : freed[i] = 0

(* The threads are where they may be.                                      *)
ThreadsPlaced ==
    /\ threadPc["decoder"] \in {"loop", "decode", "poll_push", "push", "end"}
    /\ threadPc["transformer"] \in {"loop", "poll_pop", "pop", "transform", "poll_push", "push",
                                    "end"}
    /\ threadPc["display"] \in {"loop", "poll_pop", "pop", "show", "end"}
    /\ threadPc["decoder"] = "decode" => frame_idx < MaxFrames

VideoIInv ==
    /\ VideoTypeOK /\ ThreadsPlaced /\ HeadsRight
    /\ \E first \in 0..MaxFrames : Lined(first) /\ Unfreed(first)

-----------------------------------------------------------------------------
(* Places in a ring.                                                       *)
LEMMA PlaceMod ==
  ASSUME NEW t \in Index, NEW k \in 0..BUFFER_SIZE
  PROVE  (t + k) % BUFFER_SIZE = FramePlace(t, k) /\ FramePlace(t, k) \in Index
<1>1. CASE t + k < BUFFER_SIZE
  BY <1>1, VideoAssumption DEF Index, FramePlace
<1>2. CASE t + k >= BUFFER_SIZE
  <2>1. t + k = BUFFER_SIZE * 1 + (t + k - BUFFER_SIZE) /\ t + k - BUFFER_SIZE \in 0..(BUFFER_SIZE - 1)
    BY <1>2, VideoAssumption DEF Index
  <2> QED
    BY <1>2, <2>1, VideoAssumption DEF Index, FramePlace
<1> QED
  BY <1>1, <1>2, VideoAssumption DEF Index

(* The place after n others is none of them, and the next one is after it. *)
LEMMA PlacePush ==
  ASSUME NEW t \in Index, NEW n \in 0..(BUFFER_SIZE - 1)
  PROVE  /\ FramePlace(t, n) \in Index
         /\ \A k \in 0..(n - 1) : FramePlace(t, k) # FramePlace(t, n)
         /\ (FramePlace(t, n) + 1) % BUFFER_SIZE = FramePlace(t, n + 1)
<1>1. FramePlace(t, n) \in Index
  BY PlaceMod, VideoAssumption
<1>2. \A k \in 0..(n - 1) : FramePlace(t, k) # FramePlace(t, n)
  BY VideoAssumption DEF FramePlace, Index
<1>3. (FramePlace(t, n) + 1) % BUFFER_SIZE = FramePlace(FramePlace(t, n), 1)
  BY <1>1, PlaceMod, VideoAssumption
<1>4. FramePlace(FramePlace(t, n), 1) = FramePlace(t, n + 1)
  BY VideoAssumption DEF FramePlace, Index
<1> QED
  BY <1>1, <1>2, <1>3, <1>4

(* Without the first place, the others are one less far.                   *)
LEMMA PlacePop ==
  ASSUME NEW t \in Index, NEW n \in 1..BUFFER_SIZE
  PROVE  /\ (t + 1) % BUFFER_SIZE = FramePlace(t, 1) /\ FramePlace(t, 1) \in Index
         /\ FramePlace(t, 0) = t
         /\ \A k \in 0..(n - 1) : FramePlace(FramePlace(t, 1), k) = FramePlace(t, k + 1)
<1>1. (t + 1) % BUFFER_SIZE = FramePlace(t, 1) /\ FramePlace(t, 1) \in Index
  BY PlaceMod, VideoAssumption
<1>2. \A k \in 0..(n - 1) : FramePlace(FramePlace(t, 1), k) = FramePlace(t, k + 1)
  BY VideoAssumption DEF FramePlace, Index
<1> QED
  BY <1>1, <1>2, VideoAssumption DEF FramePlace, Index

LEMMA Rings ==
  /\ Dec \in Ring /\ Disp \in Ring /\ Dec # Disp /\ Ring = {Dec, Disp}
  /\ Source["transformer"] = Dec /\ Source["display"] = Disp
  /\ Target["decoder"] = Dec /\ Target["transformer"] = Disp
BY DEF Dec, Disp, Ring, Source, Target

LEMMA VideoInitHolds == VideoInit => VideoIInv
<1> SUFFICES ASSUME VideoInit PROVE VideoIInv
  OBVIOUS
<1>1. NoFrame \in Frame /\ 0 \in Index
  BY VideoAssumption DEF NoFrame, Frame, Index
<1>2. VideoTypeOK
  BY <1>1, VideoAssumption DEF VideoInit, VideoTypeOK
<1>3. ThreadsPlaced
  BY DEF VideoInit, ThreadsPlaced, Thread
<1>4. HeadsRight
  BY VideoAssumption DEF VideoInit, HeadsRight, FramePlace
<1>5. ~Shows /\ ~Transforms /\ ~Decoded /\ shown = 0 /\ frame_idx = 0
  BY DEF VideoInit, Thread, Shows, Transforms, Decoded
<1>6. count[Dec] = 0 /\ count[Disp] = 0
  BY Rings DEF VideoInit
<1>7. Lined(0) /\ Unfreed(0)
  BY <1>5, <1>6, VideoAssumption DEF Lined, Unfreed, Passed, NextShown, One, VideoInit
<1> QED
  BY <1>2, <1>3, <1>4, <1>7, VideoAssumption DEF VideoIInv
-----------------------------------------------------------------------------
(* Steps that move no frame: the threads may be elsewhere, but hold what   *)
(* they held, and nobody that has ended goes on.                           *)
LEMMA VideoStays ==
  ASSUME VideoIInv, VideoTypeOK', ThreadsPlaced',
         UNCHANGED <<rings, frame, frame_idx, shown, freed>>,
         Shows' = Shows, Transforms' = Transforms, Decoded' = Decoded,
         threadPc["transformer"] = "end" => threadPc'["transformer"] = "end",
         threadPc["decoder"] = "end" => threadPc'["decoder"] = "end",
         threadPc["transformer"] = "transform" <=> threadPc'["transformer"] = "transform"
  PROVE  VideoIInv'
<1>1. PICK first \in 0..MaxFrames : Lined(first) /\ Unfreed(first)
  BY DEF VideoIInv
<1>2. NextShown' = NextShown /\ Passed' = Passed
  BY DEF NextShown, Passed, rings
<1>3. Lined(first)' /\ Unfreed(first)'
  BY <1>1, <1>2 DEF Lined, Unfreed, rings
<1>4. HeadsRight'
  BY DEF VideoIInv, HeadsRight, rings
<1> QED
  BY <1>3, <1>4 DEF VideoIInv

LEMMA LoopRunningVideo ==
  ASSUME VideoIInv, NEW t \in Thread, LoopRunning(t)
  PROVE  VideoIInv'
<1> USE DEF VideoIInv
<1>1. /\ threadPc[t] = "loop"
      /\ \E l \in {"end", "decode", "poll_pop"} :
            /\ threadPc' = [threadPc EXCEPT ![t] = l]
            /\ l = "decode" => t = "decoder" /\ frame_idx < MaxFrames
            /\ l = "poll_pop" => t # "decoder"
      /\ UNCHANGED <<is_running, rings, frame, frame_idx, shown, freed, player>>
  BY DEF LoopRunning, ThreadGoto
<1>2. VideoTypeOK'
  BY <1>1 DEF VideoTypeOK, rings
<1>3. ThreadsPlaced'
  BY <1>1 DEF ThreadsPlaced, VideoTypeOK, Thread
<1>4. /\ Shows' = Shows /\ Transforms' = Transforms /\ Decoded' = Decoded
      /\ threadPc["transformer"] = "end" => threadPc'["transformer"] = "end"
      /\ threadPc["decoder"] = "end" => threadPc'["decoder"] = "end"
      /\ threadPc["transformer"] = "transform" <=> threadPc'["transformer"] = "transform"
  BY <1>1 DEF Shows, Transforms, Decoded, VideoTypeOK, Thread
<1> QED
  BY <1>1, <1>2, <1>3, <1>4, VideoStays

LEMMA PollPopVideo ==
  ASSUME VideoIInv, NEW t \in Thread, t # "decoder", PollPop(t)
  PROVE  VideoIInv'
<1> USE DEF VideoIInv
<1>1. /\ threadPc[t] = "poll_pop"
      /\ \E l \in {"end", "pop"} : threadPc' = [threadPc EXCEPT ![t] = l]
      /\ UNCHANGED <<is_running, rings, frame, frame_idx, shown, freed, player>>
  BY DEF PollPop, ThreadGoto
<1>2. VideoTypeOK'
  BY <1>1 DEF VideoTypeOK, rings
<1>3. ThreadsPlaced'
  BY <1>1 DEF ThreadsPlaced, VideoTypeOK, Thread
<1>4. /\ Shows' = Shows /\ Transforms' = Transforms /\ Decoded' = Decoded
      /\ threadPc["transformer"] = "end" => threadPc'["transformer"] = "end"
      /\ threadPc["decoder"] = "end" => threadPc'["decoder"] = "end"
      /\ threadPc["transformer"] = "transform" <=> threadPc'["transformer"] = "transform"
  BY <1>1 DEF Shows, Transforms, Decoded, VideoTypeOK, Thread
<1> QED
  BY <1>1, <1>2, <1>3, <1>4, VideoStays

LEMMA DecodeVideo ==
  ASSUME VideoIInv, decode_frame
  PROVE  VideoIInv'
<1> USE DEF VideoIInv
<1>1. PICK first \in 0..MaxFrames : Lined(first) /\ Unfreed(first)
  OBVIOUS
<1>2. /\ threadPc["decoder"] = "decode" /\ threadPc' = [threadPc EXCEPT !["decoder"] = "poll_push"]
      /\ frame' = [frame EXCEPT !["decoder"] = [idx |-> frame_idx, transformed |-> FALSE]]
      /\ frame_idx' = frame_idx + 1 /\ frame_idx < MaxFrames
      /\ data' = data /\ head' = head /\ tail' = tail /\ count' = count
      /\ is_running' = is_running /\ shown' = shown /\ freed' = freed /\ player' = player
  BY DEF decode_frame, ThreadGoto, ThreadsPlaced, rings
<1>3. [idx |-> frame_idx, transformed |-> FALSE] \in Frame /\ "decoder" \in Thread
  BY <1>2, VideoAssumption DEF Frame, VideoTypeOK, Thread
<1>4. VideoTypeOK'
  BY <1>2, <1>3, VideoAssumption DEF VideoTypeOK
<1>5. ThreadsPlaced' /\ HeadsRight'
  BY <1>2, <1>3 DEF ThreadsPlaced, VideoTypeOK, HeadsRight, Thread
<1>6. /\ Shows' = Shows /\ Transforms' = Transforms /\ ~Decoded /\ Decoded'
      /\ threadPc'["transformer"] = threadPc["transformer"]
      /\ threadPc'["decoder"] = "poll_push"
      /\ frame'["display"] = frame["display"] /\ frame'["transformer"] = frame["transformer"]
      /\ frame'["decoder"] = [idx |-> frame_idx, transformed |-> FALSE]
  BY <1>2 DEF Shows, Transforms, Decoded, VideoTypeOK, Thread
<1>7. NextShown' = NextShown /\ Passed' = Passed
  BY <1>2, <1>6 DEF NextShown, Passed
<1>8. first \in Nat /\ count[Dec] \in Nat /\ frame_idx = first + count[Dec]
  BY <1>1, <1>2, <1>6, Rings, VideoAssumption DEF Lined, One, VideoTypeOK
<1>9. Lined(first)'
  BY <1>1, <1>2, <1>6, <1>7, <1>8 DEF Lined, One
<1>10. Unfreed(first)'
  <2>1. /\ Unfreed(first) /\ freed' = freed /\ shown' = shown /\ count'[Dec] = count[Dec]
        /\ frame_idx' = frame_idx + 1 /\ frame_idx \in Nat
    BY <1>1, <1>2 DEF VideoTypeOK
  <2>2. \A i \in first..(first + count'[Dec] + One(Decoded') - 1) : freed[i] = 0
    <3> SUFFICES ASSUME NEW i \in first..(first + count'[Dec] + One(Decoded') - 1)
                 PROVE  freed[i] = 0
      OBVIOUS
    <3>1. i \in first..(first + count[Dec] + One(Decoded) - 1) \/ i = frame_idx
      BY <1>6, <1>8, <2>1 DEF One
    <3>2. frame_idx \in frame_idx..MaxFrames
      BY <2>1, VideoAssumption DEF VideoTypeOK
    <3> QED
      BY <2>1, <3>1, <3>2 DEF Unfreed
  <2>3. \A i \in frame_idx'..MaxFrames : freed[i] = 0
    BY <2>1, VideoAssumption DEF Unfreed
  <2> QED
    BY <1>7, <2>1, <2>2, <2>3 DEF Unfreed
<1> QED
  BY <1>4, <1>5, <1>9, <1>10

LEMMA TransformVideo ==
  ASSUME VideoIInv, transform_frame
  PROVE  VideoIInv'
<1> USE DEF VideoIInv
<1>1. PICK first \in 0..MaxFrames : Lined(first) /\ Unfreed(first)
  OBVIOUS
<1>2. /\ threadPc["transformer"] = "transform"
      /\ threadPc' = [threadPc EXCEPT !["transformer"] = "poll_push"]
      /\ frame' = [frame EXCEPT !["transformer"].transformed = TRUE]
      /\ frame_idx' = frame_idx
      /\ data' = data /\ head' = head /\ tail' = tail /\ count' = count
      /\ is_running' = is_running /\ shown' = shown /\ freed' = freed /\ player' = player
  BY DEF transform_frame, ThreadGoto, rings
<1>3. /\ frame["transformer"] \in Frame /\ "transformer" \in Thread
      /\ frame'["transformer"] = [idx |-> frame["transformer"].idx, transformed |-> TRUE]
  BY <1>2 DEF Frame, VideoTypeOK, Thread
<1>4. VideoTypeOK'
  <2>1. frame'["transformer"] \in Frame
    BY <1>3 DEF Frame
  <2> QED
    BY <1>2, <1>3, <2>1 DEF VideoTypeOK
<1>5. ThreadsPlaced' /\ HeadsRight'
  BY <1>2, <1>3 DEF ThreadsPlaced, VideoTypeOK, HeadsRight, Thread
<1>6. /\ Shows' = Shows /\ Transforms /\ Transforms' /\ Decoded' = Decoded
      /\ threadPc'["transformer"] = "poll_push"
      /\ threadPc'["decoder"] = threadPc["decoder"]
      /\ frame'["display"] = frame["display"] /\ frame'["decoder"] = frame["decoder"]
  BY <1>2 DEF Shows, Transforms, Decoded, VideoTypeOK, Thread
<1>7. NextShown' = NextShown /\ Passed' = Passed
  BY <1>2, <1>6 DEF NextShown, Passed
<1>8. frame["transformer"].idx = NextShown + count[Disp]
  BY <1>1, <1>6 DEF Lined
<1>9. Lined(first)'
  BY <1>1, <1>2, <1>3, <1>6, <1>7, <1>8 DEF Lined
<1>10. Unfreed(first)'
  BY <1>1, <1>2, <1>6, <1>7 DEF Unfreed
<1> QED
  BY <1>4, <1>5, <1>9, <1>10

(* Freeing one frame.                                                      *)
LEMMA FreeOne ==
  ASSUME freed \in [0..MaxFrames -> Nat], NEW i \in 0..MaxFrames, freed[i] = 0,
         freed' = [freed EXCEPT ![i] = @ + 1]
  PROVE  /\ freed' \in [0..MaxFrames -> Nat] /\ freed'[i] = 1
         /\ \A j \in 0..MaxFrames : j # i => freed'[j] = freed[j]
<1>1. freed[i] + 1 = 1 /\ freed[i] + 1 \in Nat
  OBVIOUS
<1> QED
  BY <1>1

(* Who finds SIGINT in the poll of a push ends and frees its frame, which  *)
(* leaves a gap in the line.                                               *)
LEMMA PollPushVideo ==
  ASSUME VideoIInv, NEW t \in Thread, t # "display", PollPush(t)
  PROVE  VideoIInv'
<1> USE DEF VideoIInv
<1>1. threadPc[t] = "poll_push" /\ UNCHANGED <<is_running, rings, frame, frame_idx, shown, player>>
  BY DEF PollPush
<1>2. CASE is_running
  <2>1. threadPc' = [threadPc EXCEPT ![t] = "push"] /\ freed' = freed
    BY <1>2 DEF PollPush, ThreadGoto
  <2>2. VideoTypeOK' /\ ThreadsPlaced'
    BY <1>1, <2>1 DEF VideoTypeOK, ThreadsPlaced, Thread, rings
  <2>3. /\ Shows' = Shows /\ Transforms' = Transforms /\ Decoded' = Decoded
        /\ threadPc["transformer"] = "end" => threadPc'["transformer"] = "end"
        /\ threadPc["decoder"] = "end" => threadPc'["decoder"] = "end"
        /\ threadPc["transformer"] = "transform" <=> threadPc'["transformer"] = "transform"
    BY <1>1, <2>1 DEF Shows, Transforms, Decoded, VideoTypeOK, Thread
  <2> QED
    BY <1>1, <2>1, <2>2, <2>3, VideoStays
<1>3. CASE ~is_running
  <2>1. PICK first \in 0..MaxFrames : Lined(first) /\ Unfreed(first)
    OBVIOUS
  <2>2. /\ threadPc' = [threadPc EXCEPT ![t] = "end"]
        /\ freed' = [freed EXCEPT ![frame[t].idx] = @ + 1]
        /\ frame' = frame /\ frame_idx' = frame_idx /\ shown' = shown
        /\ data' = data /\ head' = head /\ tail' = tail /\ count' = count
        /\ is_running' = is_running /\ player' = player
    BY <1>1, <1>3 DEF PollPush, ThreadGoto, Free, rings
  <2>3. frame[t].idx \in 0..MaxFrames
    BY DEF VideoTypeOK, Frame
  <2>4. VideoTypeOK' /\ ThreadsPlaced' /\ HeadsRight'
    BY <1>1, <2>2, <2>3 DEF VideoTypeOK, ThreadsPlaced, HeadsRight, Thread
  <2>5. /\ first \in Nat /\ count[Dec] \in Nat /\ count[Disp] \in Nat /\ shown \in Nat
        /\ frame_idx \in 0..MaxFrames /\ MaxFrames \in Nat
    BY <2>1, Rings, VideoAssumption DEF VideoTypeOK
  <2>6. CASE t = "decoder"
    <3>1. /\ Shows' = Shows /\ Transforms' = Transforms /\ Decoded /\ ~Decoded'
          /\ threadPc'["transformer"] = threadPc["transformer"]
          /\ threadPc["decoder"] # "end" /\ threadPc'["decoder"] = "end"
      BY <1>1, <2>2, <2>6 DEF Shows, Transforms, Decoded, VideoTypeOK, Thread
    <3>2. NextShown' = NextShown /\ Passed' = Passed
      BY <2>2, <3>1 DEF NextShown, Passed
    <3>3. NextShown \in Nat /\ Passed \in Nat /\ Passed <= first
      BY <2>1, <2>5 DEF NextShown, Passed, Lined, One
    <3>4. frame["decoder"].idx = first + count[Dec] /\ frame_idx = first + count[Dec] + 1
      BY <2>1, <3>1 DEF Lined, One
    <3>5. Lined(first)'
      BY <2>1, <2>2, <2>5, <3>1, <3>2, <3>4 DEF Lined, One
    <3>6. Unfreed(first)'
      <4>1. One(Decoded) = 1 /\ One(Decoded') = 0 /\ shown' = shown /\ frame_idx' = frame_idx
        BY <2>2, <3>1 DEF One
      <4>2. freed[frame[t].idx] = 0
        BY <2>1, <2>3, <2>5, <2>6, <3>4, <4>1 DEF Unfreed
      <4>3. /\ freed'[frame[t].idx] = 1
            /\ \A j \in 0..MaxFrames : j # frame[t].idx => freed'[j] = freed[j]
        BY <2>2, <2>3, <4>2, FreeOne DEF VideoTypeOK
      <4> QED
        BY <2>1, <2>2, <2>3, <2>5, <2>6, <3>2, <3>3, <3>4, <4>1, <4>3 DEF Unfreed
    <3> QED
      BY <2>4, <3>5, <3>6
  <2>7. CASE t = "transformer"
    <3>1. /\ Shows' = Shows /\ Transforms /\ ~Transforms' /\ Decoded' = Decoded
          /\ threadPc["transformer"] = "poll_push" /\ threadPc'["transformer"] = "end"
          /\ threadPc'["decoder"] = threadPc["decoder"]
      BY <1>1, <2>2, <2>7 DEF Shows, Transforms, Decoded, VideoTypeOK, Thread
    <3>2. NextShown' = NextShown /\ Passed = NextShown + count[Disp] + 1
          /\ Passed' = NextShown + count[Disp]
      BY <2>2, <2>5, <3>1 DEF NextShown, Passed, One
    <3>3. NextShown \in Nat /\ Passed = first
      BY <2>1, <2>5, <3>1 DEF NextShown, Lined, One
    <3>4. frame["transformer"].idx = NextShown + count[Disp]
      BY <2>1, <3>1 DEF Lined
    <3>5. Lined(first)'
      BY <2>1, <2>2, <2>5, <3>1, <3>2, <3>3 DEF Lined
    <3>6. Unfreed(first)'
      <4>1. Decoded' = Decoded /\ first + count[Dec] + One(Decoded) <= frame_idx
            /\ One(Decoded) \in {0, 1}
        BY <2>1, <3>1 DEF Lined, One
      <4>2. shown <= NextShown
        BY <2>5 DEF NextShown, One
      <4>3. freed[frame[t].idx] = 0 /\ frame[t].idx = first - 1
        BY <2>1, <2>5, <2>7, <3>2, <3>3, <3>4, <4>2 DEF Unfreed
      <4> QED
        <5>1. /\ freed'[frame[t].idx] = 1
              /\ \A j \in 0..MaxFrames : j # frame[t].idx => freed'[j] = freed[j]
          BY <2>2, <2>3, <4>3, FreeOne DEF VideoTypeOK
        <5> QED
          BY <2>1, <2>2, <2>3, <2>5, <3>2, <3>3, <4>1, <4>3, <5>1 DEF Unfreed
    <3> QED
      BY <2>4, <3>5, <3>6
  <2> QED
    BY <2>6, <2>7 DEF Thread
<1> QED
  BY <1>2, <1>3

LEMMA DisplayVideo ==
  ASSUME VideoIInv, display_frame
  PROVE  VideoIInv'
<1> USE DEF VideoIInv
<1>1. PICK first \in 0..MaxFrames : Lined(first) /\ Unfreed(first)
  OBVIOUS
<1>2. /\ threadPc["display"] = "show"
      /\ threadPc' = [threadPc EXCEPT !["display"] = "loop"]
      /\ shown' = shown + 1 /\ freed' = [freed EXCEPT ![frame["display"].idx] = @ + 1]
      /\ frame' = frame /\ frame_idx' = frame_idx
      /\ data' = data /\ head' = head /\ tail' = tail /\ count' = count
      /\ is_running' = is_running /\ player' = player
  BY DEF display_frame, ThreadGoto, Free, rings
<1>3. /\ Shows /\ ~Shows' /\ Transforms' = Transforms /\ Decoded' = Decoded
      /\ threadPc'["transformer"] = threadPc["transformer"]
      /\ threadPc'["decoder"] = threadPc["decoder"]
  BY <1>2 DEF Shows, Transforms, Decoded, VideoTypeOK, Thread
<1>4. /\ first \in Nat /\ count[Dec] \in Nat /\ count[Disp] \in Nat /\ shown \in Nat
      /\ frame_idx \in 0..MaxFrames /\ MaxFrames \in Nat
  BY <1>1, Rings, VideoAssumption DEF VideoTypeOK
<1>5. NextShown = shown + 1 /\ NextShown' = NextShown /\ Passed' = Passed
      /\ Passed >= shown + 1 /\ Passed \in Nat
  BY <1>2, <1>3, <1>4 DEF NextShown, Passed, One
<1>6. /\ frame["display"].idx = shown /\ freed[shown] = 0 /\ shown < frame_idx
      /\ Passed <= first /\ One(Decoded) \in {0, 1} /\ first + count[Dec] + One(Decoded) <= frame_idx
  BY <1>1, <1>3, <1>4, <1>5 DEF Lined, Unfreed, One
<1>7. VideoTypeOK'
  <2>1. shown + 1 \in 0..MaxFrames
    BY <1>4, <1>6
  <2>2. freed' \in [0..MaxFrames -> Nat]
    BY <1>2, <1>4, <1>6, FreeOne DEF VideoTypeOK
  <2> QED
    BY <1>2, <2>1, <2>2 DEF VideoTypeOK
<1>8. ThreadsPlaced' /\ HeadsRight'
  BY <1>2 DEF ThreadsPlaced, HeadsRight, VideoTypeOK, Thread
<1>9. Lined(first)'
  BY <1>1, <1>2, <1>3, <1>5 DEF Lined
<1>10. Unfreed(first)'
  <2>1. freed'[shown] = 1 /\ \A j \in 0..MaxFrames : j # shown => freed'[j] = freed[j]
    BY <1>2, <1>4, <1>6, FreeOne DEF VideoTypeOK
  <2> QED
    BY <1>1, <1>2, <1>3, <1>4, <1>5, <1>6, <2>1 DEF Unfreed
<1> QED
  BY <1>7, <1>8, <1>9, <1>10
-----------------------------------------------------------------------------
(* Pushing into ring r what thread t holds.                                *)
LEMMA PushRing ==
  ASSUME VideoTypeOK, HeadsRight, NEW t \in Thread, NEW r \in Ring,
         count[r] < BUFFER_SIZE,
         data' = [data EXCEPT ![r][head[r]] = frame[t]],
         head' = [head EXCEPT ![r] = (@ + 1) % BUFFER_SIZE],
         count' = [count EXCEPT ![r] = @ + 1],
         tail' = tail
  PROVE  /\ data' \in [Ring -> [Index -> Frame]] /\ head' \in [Ring -> Index]
         /\ count' \in [Ring -> 0..BUFFER_SIZE] /\ HeadsRight'
         /\ count'[r] = count[r] + 1 /\ data'[r][FramePlace(tail[r], count[r])] = frame[t]
         /\ \A k \in 0..(count[r] - 1) :
               data'[r][FramePlace(tail[r], k)] = data[r][FramePlace(tail[r], k)]
         /\ \A q \in Ring : q # r => data'[q] = data[q] /\ count'[q] = count[q]
<1>1. /\ tail[r] \in Index /\ count[r] \in 0..(BUFFER_SIZE - 1) /\ frame[t] \in Frame
      /\ head[r] = FramePlace(tail[r], count[r]) /\ head[r] \in Index
  BY VideoAssumption DEF VideoTypeOK, HeadsRight
<1>2. /\ \A k \in 0..(count[r] - 1) : FramePlace(tail[r], k) # head[r]
      /\ (head[r] + 1) % BUFFER_SIZE = FramePlace(tail[r], count[r] + 1)
  BY <1>1, PlacePush
<1>3. FramePlace(tail[r], count[r] + 1) \in Index /\ count[r] + 1 \in 0..BUFFER_SIZE
  BY <1>1, PlaceMod, VideoAssumption
<1>4. head' = [head EXCEPT ![r] = FramePlace(tail[r], count[r] + 1)]
  BY <1>2
<1>5. head' \in [Ring -> Index] /\ count' \in [Ring -> 0..BUFFER_SIZE] /\ HeadsRight'
  BY <1>3, <1>4 DEF VideoTypeOK, HeadsRight
<1>6. data' \in [Ring -> [Index -> Frame]]
  BY <1>1 DEF VideoTypeOK
<1>7. /\ count'[r] = count[r] + 1
      /\ \A q \in Ring : q # r => data'[q] = data[q] /\ count'[q] = count[q]
  BY DEF VideoTypeOK
<1>8. data'[r][head[r]] = frame[t] /\ \A i \in Index : i # head[r] => data'[r][i] = data[r][i]
  BY <1>1 DEF VideoTypeOK
<1>9. \A k \in 0..(count[r] - 1) : FramePlace(tail[r], k) \in Index
  BY <1>1, PlaceMod, VideoAssumption
<1> QED
  BY <1>1, <1>2, <1>5, <1>6, <1>7, <1>8, <1>9

(* Popping from ring r.                                                    *)
LEMMA PopRing ==
  ASSUME VideoTypeOK, HeadsRight, NEW r \in Ring,
         count[r] > 0,
         tail' = [tail EXCEPT ![r] = (@ + 1) % BUFFER_SIZE],
         count' = [count EXCEPT ![r] = @ - 1],
         data' = data, head' = head
  PROVE  /\ tail' \in [Ring -> Index] /\ count' \in [Ring -> 0..BUFFER_SIZE] /\ HeadsRight'
         /\ count'[r] = count[r] - 1
         /\ data[r][tail[r]] = data[r][FramePlace(tail[r], 0)]
         /\ \A k \in 0..(count[r] - 2) : FramePlace(tail'[r], k) = FramePlace(tail[r], k + 1)
         /\ \A q \in Ring : q # r => tail'[q] = tail[q] /\ count'[q] = count[q]
<1>1. tail[r] \in Index /\ count[r] \in 1..BUFFER_SIZE /\ count[r] - 1 \in 0..BUFFER_SIZE
  BY VideoAssumption DEF VideoTypeOK
<1>2. /\ (tail[r] + 1) % BUFFER_SIZE = FramePlace(tail[r], 1) /\ FramePlace(tail[r], 1) \in Index
      /\ FramePlace(tail[r], 0) = tail[r]
      /\ \A k \in 0..(count[r] - 1) : FramePlace(FramePlace(tail[r], 1), k) = FramePlace(tail[r], k + 1)
  BY <1>1, PlacePop
<1>3. tail' = [tail EXCEPT ![r] = FramePlace(tail[r], 1)]
  BY <1>2
<1>4. /\ tail' \in [Ring -> Index] /\ count' \in [Ring -> 0..BUFFER_SIZE]
      /\ tail'[r] = FramePlace(tail[r], 1) /\ count'[r] = count[r] - 1
      /\ \A q \in Ring : q # r => tail'[q] = tail[q] /\ count'[q] = count[q]
  BY <1>1, <1>2, <1>3 DEF VideoTypeOK
<1>5. FramePlace(tail'[r], count'[r]) = FramePlace(tail[r], count[r])
  BY <1>1, <1>2, <1>4
<1>6. HeadsRight'
  BY <1>4, <1>5 DEF HeadsRight
<1> QED
  BY <1>1, <1>2, <1>4, <1>6

(* A frame leaves the decoder: the line stays as it is.                    *)
LEMMA DecoderPushes ==
  ASSUME VideoIInv, cb_push("decoder")
  PROVE  VideoIInv'
<1> USE DEF VideoIInv
<1>1. threadPc["decoder"] = "push" /\ Target["decoder"] = Dec
      /\ UNCHANGED <<is_running, tail, frame, frame_idx, shown, freed, player>>
  BY Rings DEF cb_push
<1>2. CASE count[Dec] >= BUFFER_SIZE
  <2>1. threadPc' = [threadPc EXCEPT !["decoder"] = "poll_push"] /\ UNCHANGED <<data, head, count>>
    BY <1>1, <1>2, Rings, VideoAssumption DEF cb_push, ThreadGoto, VideoTypeOK
  <2>2. VideoTypeOK' /\ ThreadsPlaced'
    BY <1>1, <2>1 DEF VideoTypeOK, ThreadsPlaced, Thread
  <2>3. /\ Shows' = Shows /\ Transforms' = Transforms /\ Decoded' = Decoded
        /\ threadPc["transformer"] = "end" => threadPc'["transformer"] = "end"
        /\ threadPc["decoder"] = "end" => threadPc'["decoder"] = "end"
        /\ threadPc["transformer"] = "transform" <=> threadPc'["transformer"] = "transform"
    BY <1>1, <2>1 DEF Shows, Transforms, Decoded, VideoTypeOK, Thread
  <2> QED
    BY <1>1, <2>1, <2>2, <2>3, VideoStays DEF rings
<1>3. CASE count[Dec] < BUFFER_SIZE
  <2>1. PICK first \in 0..MaxFrames : Lined(first) /\ Unfreed(first)
    OBVIOUS
  <2>2. /\ threadPc' = [threadPc EXCEPT !["decoder"] = "loop"]
        /\ data' = [data EXCEPT ![Dec][head[Dec]] = frame["decoder"]]
        /\ head' = [head EXCEPT ![Dec] = (@ + 1) % BUFFER_SIZE]
        /\ count' = [count EXCEPT ![Dec] = @ + 1]
        /\ tail' = tail /\ frame' = frame /\ frame_idx' = frame_idx /\ shown' = shown
        /\ freed' = freed /\ is_running' = is_running /\ player' = player
    BY <1>1, <1>3, Rings, VideoAssumption DEF cb_push, ThreadGoto, VideoTypeOK
  <2>3. /\ data' \in [Ring -> [Index -> Frame]] /\ head' \in [Ring -> Index]
        /\ count' \in [Ring -> 0..BUFFER_SIZE] /\ HeadsRight'
        /\ count'[Dec] = count[Dec] + 1
        /\ data'[Dec][FramePlace(tail[Dec], count[Dec])] = frame["decoder"]
        /\ \A k \in 0..(count[Dec] - 1) :
              data'[Dec][FramePlace(tail[Dec], k)] = data[Dec][FramePlace(tail[Dec], k)]
        /\ data'[Disp] = data[Disp] /\ count'[Disp] = count[Disp]
    <3>1. "decoder" \in Thread
      BY DEF Thread
    <3> HIDE DEF VideoIInv
    <3>2. VideoTypeOK /\ HeadsRight
      BY DEF VideoIInv
    <3> QED
      BY <1>3, <2>2, <3>1, <3>2, PushRing, Rings
  <2>4. VideoTypeOK' /\ ThreadsPlaced'
    BY <1>1, <2>2, <2>3 DEF VideoTypeOK, ThreadsPlaced, Thread
  <2>5. /\ Shows' = Shows /\ Transforms' = Transforms /\ Decoded /\ ~Decoded'
        /\ threadPc'["transformer"] = threadPc["transformer"]
        /\ threadPc["decoder"] # "end" /\ threadPc'["decoder"] # "end"
    BY <1>1, <2>2 DEF Shows, Transforms, Decoded, VideoTypeOK, Thread
  <2>6. NextShown' = NextShown /\ Passed' = Passed
    BY <2>2, <2>3, <2>5 DEF NextShown, Passed
  <2>7. first \in Nat /\ count[Dec] \in Nat /\ frame_idx \in Nat
        /\ One(Decoded) = 1 /\ One(Decoded') = 0
    BY <2>1, <2>5, Rings, VideoAssumption DEF VideoTypeOK, One
  <2>8. /\ frame["decoder"] = [idx |-> first + count[Dec], transformed |-> FALSE]
        /\ frame_idx = first + count[Dec] + 1
        /\ \A k \in 0..(count[Dec] - 1) :
              data[Dec][FramePlace(tail[Dec], k)] = [idx |-> first + k, transformed |-> FALSE]
    BY <2>1, <2>5, <2>7 DEF Lined
  <2>9. Lined(first)'
    <3>0. count'[Dec] = count[Dec] + 1 /\ count[Dec] \in Nat
      BY <2>3, <2>7
    <3>1. \A k \in 0..(count'[Dec] - 1) :
             data'[Dec][FramePlace(tail'[Dec], k)] = [idx |-> first + k, transformed |-> FALSE]
      <4> SUFFICES ASSUME NEW k \in 0..(count'[Dec] - 1)
                   PROVE  data'[Dec][FramePlace(tail[Dec], k)] = [idx |-> first + k, transformed |-> FALSE]
        BY <2>2
      <4>1. CASE k = count[Dec]
        BY <2>3, <2>8, <4>1
      <4>2. CASE k # count[Dec]
        <5>1. k \in 0..(count[Dec] - 1)
          BY <3>0, <4>2
        <5> QED
          BY <2>3, <2>8, <5>1
      <4> QED
        BY <4>1, <4>2
    <3>2. frame_idx' = first + count'[Dec] + One(Decoded')
      BY <2>2, <2>3, <2>7, <2>8
    <3>3. first + count'[Dec] + One(Decoded') <= frame_idx'
      BY <2>2, <2>3, <2>7, <2>8
    <3> QED
      BY <2>1, <2>2, <2>3, <2>5, <2>6, <3>1, <3>2, <3>3 DEF Lined
  <2>10. Unfreed(first)'
    <3>1. first + count'[Dec] + One(Decoded') - 1 = first + count[Dec] + One(Decoded) - 1
      BY <2>3, <2>7
    <3> QED
      BY <2>1, <2>2, <2>6, <3>1 DEF Unfreed
  <2> QED
    BY <2>3, <2>4, <2>9, <2>10
<1>4. count[Dec] \in 0..BUFFER_SIZE
  BY Rings DEF VideoTypeOK
<1> QED
  BY <1>2, <1>3, <1>4, VideoAssumption

(* A frame leaves the transformer: likewise.                               *)
LEMMA TransformerPushes ==
  ASSUME VideoIInv, cb_push("transformer")
  PROVE  VideoIInv'
<1> USE DEF VideoIInv
<1>1. threadPc["transformer"] = "push" /\ Target["transformer"] = Disp
      /\ UNCHANGED <<is_running, tail, frame, frame_idx, shown, freed, player>>
  BY Rings DEF cb_push
<1>2. CASE count[Disp] >= BUFFER_SIZE
  <2>1. threadPc' = [threadPc EXCEPT !["transformer"] = "poll_push"]
        /\ UNCHANGED <<data, head, count>>
    BY <1>1, <1>2, Rings, VideoAssumption DEF cb_push, ThreadGoto, VideoTypeOK
  <2>2. VideoTypeOK' /\ ThreadsPlaced'
    BY <1>1, <2>1 DEF VideoTypeOK, ThreadsPlaced, Thread
  <2>3. /\ Shows' = Shows /\ Transforms' = Transforms /\ Decoded' = Decoded
        /\ threadPc["transformer"] = "end" => threadPc'["transformer"] = "end"
        /\ threadPc["decoder"] = "end" => threadPc'["decoder"] = "end"
        /\ threadPc["transformer"] = "transform" <=> threadPc'["transformer"] = "transform"
    BY <1>1, <2>1 DEF Shows, Transforms, Decoded, VideoTypeOK, Thread
  <2> QED
    BY <1>1, <2>1, <2>2, <2>3, VideoStays DEF rings
<1>3. CASE count[Disp] < BUFFER_SIZE
  <2>1. PICK first \in 0..MaxFrames : Lined(first) /\ Unfreed(first)
    OBVIOUS
  <2>2. /\ threadPc' = [threadPc EXCEPT !["transformer"] = "loop"]
        /\ data' = [data EXCEPT ![Disp][head[Disp]] = frame["transformer"]]
        /\ head' = [head EXCEPT ![Disp] = (@ + 1) % BUFFER_SIZE]
        /\ count' = [count EXCEPT ![Disp] = @ + 1]
        /\ tail' = tail /\ frame' = frame /\ frame_idx' = frame_idx /\ shown' = shown
        /\ freed' = freed /\ is_running' = is_running /\ player' = player
    BY <1>1, <1>3, Rings, VideoAssumption DEF cb_push, ThreadGoto, VideoTypeOK
  <2>3. /\ data' \in [Ring -> [Index -> Frame]] /\ head' \in [Ring -> Index]
        /\ count' \in [Ring -> 0..BUFFER_SIZE] /\ HeadsRight'
        /\ count'[Disp] = count[Disp] + 1
        /\ data'[Disp][FramePlace(tail[Disp], count[Disp])] = frame["transformer"]
        /\ \A k \in 0..(count[Disp] - 1) :
              data'[Disp][FramePlace(tail[Disp], k)] = data[Disp][FramePlace(tail[Disp], k)]
        /\ data'[Dec] = data[Dec] /\ count'[Dec] = count[Dec]
    <3>1. "transformer" \in Thread
      BY DEF Thread
    <3> HIDE DEF VideoIInv
    <3>2. VideoTypeOK /\ HeadsRight
      BY DEF VideoIInv
    <3> QED
      BY <1>3, <2>2, <3>1, <3>2, PushRing, Rings
  <2>4. VideoTypeOK' /\ ThreadsPlaced'
    BY <1>1, <2>2, <2>3 DEF VideoTypeOK, ThreadsPlaced, Thread
  <2>5. /\ Shows' = Shows /\ Transforms /\ ~Transforms' /\ Decoded' = Decoded
        /\ threadPc["transformer"] = "push" /\ threadPc'["transformer"] # "end"
        /\ threadPc'["decoder"] = threadPc["decoder"]
    BY <1>1, <2>2 DEF Shows, Transforms, Decoded, VideoTypeOK, Thread
  <2>6. first \in Nat /\ count[Disp] \in Nat /\ shown \in Nat /\ NextShown \in Nat
    BY <2>1, Rings, VideoAssumption DEF VideoTypeOK, NextShown, One
  <2>7. NextShown' = NextShown /\ Passed' = Passed
    <3>1. One(Transforms) = 1 /\ One(Transforms') = 0 /\ One(Shows') = One(Shows)
      BY <2>5 DEF One
    <3>2. NextShown' = NextShown
      BY <2>2, <3>1 DEF NextShown
    <3> QED
      BY <2>3, <2>6, <3>1, <3>2 DEF Passed
  <2>8. /\ One(Transforms) = 1 /\ One(Transforms') = 0
        /\ frame["transformer"] = [idx |-> NextShown + count[Disp], transformed |-> TRUE]
        /\ \A k \in 0..(count[Disp] - 1) :
              data[Disp][FramePlace(tail[Disp], k)] = [idx |-> NextShown + k, transformed |-> TRUE]
    BY <2>1, <2>5 DEF Lined, One
  <2>9. Lined(first)'
    <3>0. count'[Disp] = count[Disp] + 1 /\ count[Disp] \in Nat
      BY <2>3, <2>6
    <3>1. \A k \in 0..(count'[Disp] - 1) :
             data'[Disp][FramePlace(tail'[Disp], k)] = [idx |-> NextShown + k, transformed |-> TRUE]
      <4> SUFFICES ASSUME NEW k \in 0..(count'[Disp] - 1)
                   PROVE  data'[Disp][FramePlace(tail[Disp], k)]
                            = [idx |-> NextShown + k, transformed |-> TRUE]
        BY <2>2
      <4>1. CASE k = count[Disp]
        BY <2>3, <2>8, <4>1
      <4>2. CASE k # count[Disp]
        <5>1. k \in 0..(count[Disp] - 1)
          BY <3>0, <4>2
        <5> QED
          BY <2>3, <2>8, <5>1
      <4> QED
        BY <4>1, <4>2
    <3>2. /\ Shows' => frame'["display"] = [idx |-> shown', transformed |-> TRUE]
          /\ Passed' <= first /\ first = Passed'
      BY <2>1, <2>2, <2>5, <2>7 DEF Lined
    <3>3. /\ \A k \in 0..(count'[Dec] - 1) :
                data'[Dec][FramePlace(tail'[Dec], k)] = [idx |-> first + k, transformed |-> FALSE]
          /\ Decoded' => frame'["decoder"] = [idx |-> first + count'[Dec], transformed |-> FALSE]
      <4>1. \A k \in 0..(count'[Dec] - 1) :
                data'[Dec][FramePlace(tail'[Dec], k)] = [idx |-> first + k, transformed |-> FALSE]
        BY <2>1, <2>2, <2>3, <2>5 DEF Lined
      <4>2. Decoded' => frame'["decoder"] = [idx |-> first + count'[Dec], transformed |-> FALSE]
        BY <2>1, <2>2, <2>3, <2>5 DEF Lined
      <4> QED
        BY <4>1, <4>2
    <3>4. /\ first + count'[Dec] + One(Decoded') <= frame_idx'
          /\ threadPc'["decoder"] # "end" => frame_idx' = first + count'[Dec] + One(Decoded')
      BY <2>1, <2>2, <2>3, <2>5 DEF Lined
    <3> QED
      BY <2>5, <2>7, <3>1, <3>2, <3>3, <3>4 DEF Lined
  <2>10. Unfreed(first)'
    BY <2>1, <2>2, <2>3, <2>5, <2>7 DEF Unfreed
  <2> QED
    BY <2>3, <2>4, <2>9, <2>10
<1>4. count[Disp] \in 0..BUFFER_SIZE
  BY Rings DEF VideoTypeOK
<1> QED
  BY <1>2, <1>3, <1>4, VideoAssumption

(* The first frame of the line of the first ring comes to the transformer.  *)
LEMMA TransformerPops ==
  ASSUME VideoIInv, cb_pop("transformer")
  PROVE  VideoIInv'
<1> USE DEF VideoIInv
<1>1. threadPc["transformer"] = "pop" /\ Source["transformer"] = Dec
      /\ UNCHANGED <<is_running, data, head, frame_idx, shown, freed, player>>
  BY Rings DEF cb_pop
<1>2. CASE count[Dec] = 0
  <2>1. threadPc' = [threadPc EXCEPT !["transformer"] = "poll_pop"] /\ UNCHANGED <<frame, tail, count>>
    BY <1>1, <1>2, VideoAssumption DEF cb_pop, ThreadGoto
  <2>2. VideoTypeOK' /\ ThreadsPlaced'
    BY <1>1, <2>1 DEF VideoTypeOK, ThreadsPlaced, Thread
  <2>3. /\ Shows' = Shows /\ Transforms' = Transforms /\ Decoded' = Decoded
        /\ threadPc["transformer"] = "end" => threadPc'["transformer"] = "end"
        /\ threadPc["decoder"] = "end" => threadPc'["decoder"] = "end"
        /\ threadPc["transformer"] = "transform" <=> threadPc'["transformer"] = "transform"
    BY <1>1, <2>1 DEF Shows, Transforms, Decoded, VideoTypeOK, Thread
  <2> QED
    BY <1>1, <2>1, <2>2, <2>3, VideoStays DEF rings
<1>3. CASE count[Dec] > 0
  <2>1. PICK first \in 0..MaxFrames : Lined(first) /\ Unfreed(first)
    OBVIOUS
  <2>2. /\ threadPc' = [threadPc EXCEPT !["transformer"] = "transform"]
        /\ frame' = [frame EXCEPT !["transformer"] = data[Dec][tail[Dec]]]
        /\ tail' = [tail EXCEPT ![Dec] = (@ + 1) % BUFFER_SIZE]
        /\ count' = [count EXCEPT ![Dec] = @ - 1]
        /\ data' = data /\ head' = head /\ frame_idx' = frame_idx /\ shown' = shown
        /\ freed' = freed /\ is_running' = is_running /\ player' = player
    BY <1>1, <1>3, Rings, VideoAssumption DEF cb_pop, ThreadGoto
  <2>3. /\ tail' \in [Ring -> Index] /\ count' \in [Ring -> 0..BUFFER_SIZE] /\ HeadsRight'
        /\ count'[Dec] = count[Dec] - 1
        /\ data[Dec][tail[Dec]] = data[Dec][FramePlace(tail[Dec], 0)]
        /\ \A k \in 0..(count[Dec] - 2) : FramePlace(tail'[Dec], k) = FramePlace(tail[Dec], k + 1)
        /\ tail'[Disp] = tail[Disp] /\ count'[Disp] = count[Disp]
    <3> HIDE DEF VideoIInv
    <3>1. VideoTypeOK /\ HeadsRight
      BY DEF VideoIInv
    <3> QED
      BY <1>3, <2>2, <3>1, PopRing, Rings
  <2>4. VideoTypeOK' /\ ThreadsPlaced'
    <3>1. "transformer" \in Thread /\ data[Dec][tail[Dec]] \in Frame
      BY Rings DEF VideoTypeOK, Thread
    <3> QED
      BY <1>1, <2>2, <2>3, <3>1 DEF VideoTypeOK, ThreadsPlaced, Thread
  <2>5. /\ Shows' = Shows /\ ~Transforms /\ Transforms' /\ Decoded' = Decoded
        /\ threadPc["transformer"] # "end" /\ threadPc'["transformer"] = "transform"
        /\ threadPc'["decoder"] = threadPc["decoder"]
        /\ frame'["display"] = frame["display"] /\ frame'["decoder"] = frame["decoder"]
        /\ frame'["transformer"] = data[Dec][FramePlace(tail[Dec], 0)]
    BY <1>1, <2>2, <2>3 DEF Shows, Transforms, Decoded, VideoTypeOK, Thread
  <2>6. /\ first \in Nat /\ count[Dec] \in Nat \ {0} /\ count[Disp] \in Nat /\ shown \in Nat
        /\ NextShown \in Nat /\ One(Decoded) \in {0, 1} /\ frame_idx \in 0..MaxFrames
        /\ MaxFrames \in Nat
    BY <1>3, <2>1, Rings, VideoAssumption DEF VideoTypeOK, NextShown, One
  <2>7. /\ first = NextShown + count[Disp] /\ Passed = first
        /\ NextShown' = NextShown /\ Passed' = first + 1
    <3>1. One(Transforms) = 0 /\ One(Transforms') = 1 /\ One(Shows') = One(Shows)
      BY <2>5 DEF One
    <3>2. NextShown' = NextShown
      BY <2>2, <3>1 DEF NextShown
    <3>3. first = Passed
      BY <2>1, <2>5 DEF Lined
    <3> QED
      BY <2>3, <2>6, <3>1, <3>2, <3>3 DEF Passed
  <2>8. /\ first + count[Dec] + One(Decoded) <= frame_idx
        /\ threadPc["decoder"] # "end" => frame_idx = first + count[Dec] + One(Decoded)
        /\ \A k \in 0..(count[Dec] - 1) :
              data[Dec][FramePlace(tail[Dec], k)] = [idx |-> first + k, transformed |-> FALSE]
        /\ Decoded => frame["decoder"] = [idx |-> first + count[Dec], transformed |-> FALSE]
    BY <2>1 DEF Lined
  <2>9. first + 1 \in 0..MaxFrames
    BY <2>6, <2>8
  <2>10. frame'["transformer"] = [idx |-> first, transformed |-> FALSE]
    <3>1. 0 \in 0..(count[Dec] - 1) /\ first + 0 = first
      BY <2>6
    <3> QED
      BY <2>5, <2>8, <3>1
  <2>11. Lined(first + 1)'
    <3>1. /\ Shows' => frame'["display"] = [idx |-> shown', transformed |-> TRUE]
          /\ \A k \in 0..(count'[Disp] - 1) :
                data'[Disp][FramePlace(tail'[Disp], k)] = [idx |-> NextShown' + k, transformed |-> TRUE]
      BY <2>1, <2>2, <2>3, <2>5, <2>7 DEF Lined
    <3>2. frame'["transformer"] = [idx |-> NextShown' + count'[Disp],
                                   transformed |-> threadPc'["transformer"] # "transform"]
      BY <2>3, <2>5, <2>7, <2>10
    <3>3. \A k \in 0..(count'[Dec] - 1) :
             data'[Dec][FramePlace(tail'[Dec], k)] = [idx |-> (first + 1) + k, transformed |-> FALSE]
      <4> SUFFICES ASSUME NEW k \in 0..(count'[Dec] - 1)
                   PROVE  data[Dec][FramePlace(tail'[Dec], k)]
                            = [idx |-> (first + 1) + k, transformed |-> FALSE]
        BY <2>2
      <4>1. count'[Dec] = count[Dec] - 1
        BY <2>3
      <4>2. k \in 0..(count[Dec] - 2) /\ k + 1 \in 0..(count[Dec] - 1)
            /\ (first + 1) + k = first + (k + 1)
        BY <2>6, <4>1
      <4> QED
        BY <2>3, <2>8, <4>2
    <3>4. /\ Decoded' => frame'["decoder"]
                           = [idx |-> (first + 1) + count'[Dec], transformed |-> FALSE]
          /\ (first + 1) + count'[Dec] + One(Decoded') <= frame_idx'
          /\ threadPc'["decoder"] # "end"
               => frame_idx' = (first + 1) + count'[Dec] + One(Decoded')
      <4>1. (first + 1) + count'[Dec] = first + count[Dec] /\ One(Decoded') = One(Decoded)
        BY <2>3, <2>5, <2>6
      <4> QED
        BY <2>2, <2>5, <2>8, <4>1
    <3>5. Passed' <= first + 1 /\ first + 1 = Passed'
      BY <2>6, <2>7
    <3> QED
      BY <3>1, <3>2, <3>3, <3>4, <3>5 DEF Lined
  <2>12. Unfreed(first + 1)'
    <3>1. freed[first] = 0
      <4>1. first \in first..(first + count[Dec] + One(Decoded) - 1)
        BY <2>6
      <4> QED
        BY <2>1, <4>1 DEF Unfreed
    <3>2. \A i \in shown'..(Passed' - 1) : freed'[i] = 0
      BY <2>1, <2>2, <2>6, <2>7, <3>1 DEF Unfreed
    <3>3. (first + 1) + count'[Dec] + One(Decoded') - 1 = first + count[Dec] + One(Decoded) - 1
      BY <2>3, <2>5, <2>6
    <3>4. \A i \in (first + 1)..((first + 1) + count'[Dec] + One(Decoded') - 1) : freed'[i] = 0
      <4>1. \A i \in first..(first + count[Dec] + One(Decoded) - 1) : freed[i] = 0
        BY <2>1 DEF Unfreed
      <4>2. \A i \in (first + 1)..(first + count[Dec] + One(Decoded) - 1) : freed[i] = 0
        BY <2>6, <4>1
      <4> QED
        BY <2>2, <3>3, <4>2
    <3> QED
      BY <2>1, <2>2, <3>2, <3>4 DEF Unfreed
  <2> QED
    BY <2>3, <2>4, <2>9, <2>11, <2>12
<1>4. count[Dec] \in 0..BUFFER_SIZE
  BY Rings DEF VideoTypeOK
<1> QED
  BY <1>2, <1>3, <1>4, VideoAssumption

(* The next frame comes to the display.                                     *)
LEMMA DisplayPops ==
  ASSUME VideoIInv, cb_pop("display")
  PROVE  VideoIInv'
<1> USE DEF VideoIInv
<1>1. threadPc["display"] = "pop" /\ Source["display"] = Disp
      /\ UNCHANGED <<is_running, data, head, frame_idx, shown, freed, player>>
  BY Rings DEF cb_pop
<1>2. CASE count[Disp] = 0
  <2>1. threadPc' = [threadPc EXCEPT !["display"] = "poll_pop"] /\ UNCHANGED <<frame, tail, count>>
    BY <1>1, <1>2, VideoAssumption DEF cb_pop, ThreadGoto
  <2>2. VideoTypeOK' /\ ThreadsPlaced'
    BY <1>1, <2>1 DEF VideoTypeOK, ThreadsPlaced, Thread
  <2>3. /\ Shows' = Shows /\ Transforms' = Transforms /\ Decoded' = Decoded
        /\ threadPc["transformer"] = "end" => threadPc'["transformer"] = "end"
        /\ threadPc["decoder"] = "end" => threadPc'["decoder"] = "end"
        /\ threadPc["transformer"] = "transform" <=> threadPc'["transformer"] = "transform"
    BY <1>1, <2>1 DEF Shows, Transforms, Decoded, VideoTypeOK, Thread
  <2> QED
    BY <1>1, <2>1, <2>2, <2>3, VideoStays DEF rings
<1>3. CASE count[Disp] > 0
  <2>1. PICK first \in 0..MaxFrames : Lined(first) /\ Unfreed(first)
    OBVIOUS
  <2>2. /\ threadPc' = [threadPc EXCEPT !["display"] = "show"]
        /\ frame' = [frame EXCEPT !["display"] = data[Disp][tail[Disp]]]
        /\ tail' = [tail EXCEPT ![Disp] = (@ + 1) % BUFFER_SIZE]
        /\ count' = [count EXCEPT ![Disp] = @ - 1]
        /\ data' = data /\ head' = head /\ frame_idx' = frame_idx /\ shown' = shown
        /\ freed' = freed /\ is_running' = is_running /\ player' = player
    BY <1>1, <1>3, Rings, VideoAssumption DEF cb_pop, ThreadGoto
  <2>3. /\ tail' \in [Ring -> Index] /\ count' \in [Ring -> 0..BUFFER_SIZE] /\ HeadsRight'
        /\ count'[Disp] = count[Disp] - 1
        /\ data[Disp][tail[Disp]] = data[Disp][FramePlace(tail[Disp], 0)]
        /\ \A k \in 0..(count[Disp] - 2) : FramePlace(tail'[Disp], k) = FramePlace(tail[Disp], k + 1)
        /\ tail'[Dec] = tail[Dec] /\ count'[Dec] = count[Dec]
    <3> HIDE DEF VideoIInv
    <3>1. VideoTypeOK /\ HeadsRight
      BY DEF VideoIInv
    <3> QED
      BY <1>3, <2>2, <3>1, PopRing, Rings
  <2>4. VideoTypeOK' /\ ThreadsPlaced'
    <3>1. "display" \in Thread /\ data[Disp][tail[Disp]] \in Frame
      BY Rings DEF VideoTypeOK, Thread
    <3> QED
      BY <1>1, <2>2, <2>3, <3>1 DEF VideoTypeOK, ThreadsPlaced, Thread
  <2>5. /\ ~Shows /\ Shows' /\ Transforms' = Transforms /\ Decoded' = Decoded
        /\ threadPc'["transformer"] = threadPc["transformer"]
        /\ threadPc'["decoder"] = threadPc["decoder"]
        /\ frame'["transformer"] = frame["transformer"] /\ frame'["decoder"] = frame["decoder"]
        /\ frame'["display"] = data[Disp][FramePlace(tail[Disp], 0)]
    BY <1>1, <2>2, <2>3 DEF Shows, Transforms, Decoded, VideoTypeOK, Thread
  <2>6. first \in Nat /\ count[Disp] \in Nat \ {0} /\ shown \in Nat /\ One(Transforms) \in {0, 1}
    BY <1>3, <2>1, Rings, VideoAssumption DEF VideoTypeOK, One
  <2>7. /\ NextShown = shown /\ NextShown' = shown + 1 /\ Passed' = Passed
        /\ NextShown' + count'[Disp] = NextShown + count[Disp]
    <3>1. One(Shows) = 0 /\ One(Shows') = 1 /\ One(Transforms') = One(Transforms)
      BY <2>5 DEF One
    <3>2. NextShown = shown /\ NextShown' = shown + 1
      BY <2>2, <2>6, <3>1 DEF NextShown
    <3> QED
      BY <2>3, <2>6, <3>1, <3>2 DEF Passed
  <2>8. /\ \A k \in 0..(count[Disp] - 1) :
              data[Disp][FramePlace(tail[Disp], k)] = [idx |-> shown + k, transformed |-> TRUE]
        /\ Transforms => frame["transformer"] = [idx |-> NextShown + count[Disp],
                                  transformed |-> threadPc["transformer"] # "transform"]
    BY <2>1, <2>7 DEF Lined
  <2>9. frame'["display"] = [idx |-> shown, transformed |-> TRUE]
    <3>1. 0 \in 0..(count[Disp] - 1) /\ shown + 0 = shown
      BY <2>6
    <3> QED
      BY <2>5, <2>8, <3>1
  <2>10. Lined(first)'
    <3>1. \A k \in 0..(count'[Disp] - 1) :
             data'[Disp][FramePlace(tail'[Disp], k)] = [idx |-> NextShown' + k, transformed |-> TRUE]
      <4> SUFFICES ASSUME NEW k \in 0..(count'[Disp] - 1)
                   PROVE  data[Disp][FramePlace(tail'[Disp], k)]
                            = [idx |-> (shown + 1) + k, transformed |-> TRUE]
        BY <2>2, <2>7
      <4>1. count'[Disp] = count[Disp] - 1
        BY <2>3
      <4>2. k \in 0..(count[Disp] - 2) /\ k + 1 \in 0..(count[Disp] - 1)
            /\ (shown + 1) + k = shown + (k + 1)
        BY <2>6, <4>1
      <4> QED
        BY <2>3, <2>8, <4>2
    <3>2. Transforms' => frame'["transformer"] = [idx |-> NextShown' + count'[Disp],
                                  transformed |-> threadPc'["transformer"] # "transform"]
      BY <2>5, <2>7, <2>8
    <3>3. /\ Passed' <= first
          /\ threadPc'["transformer"] # "end" => first = Passed'
      BY <2>1, <2>5, <2>7 DEF Lined
    <3>4. /\ \A k \in 0..(count'[Dec] - 1) :
                data'[Dec][FramePlace(tail'[Dec], k)] = [idx |-> first + k, transformed |-> FALSE]
          /\ Decoded' => frame'["decoder"] = [idx |-> first + count'[Dec], transformed |-> FALSE]
      BY <2>1, <2>2, <2>3, <2>5 DEF Lined
    <3>5. /\ first + count'[Dec] + One(Decoded') <= frame_idx'
          /\ threadPc'["decoder"] # "end" => frame_idx' = first + count'[Dec] + One(Decoded')
      BY <2>1, <2>2, <2>3, <2>5 DEF Lined
    <3>6. frame'["display"] = [idx |-> shown', transformed |-> TRUE]
      BY <2>2, <2>9
    <3> QED
      BY <3>1, <3>2, <3>3, <3>4, <3>5, <3>6 DEF Lined
  <2>11. Unfreed(first)'
    BY <2>1, <2>2, <2>3, <2>5, <2>7 DEF Unfreed
  <2> QED
    BY <2>3, <2>4, <2>10, <2>11
<1>4. count[Disp] \in 0..BUFFER_SIZE
  BY Rings DEF VideoTypeOK
<1> QED
  BY <1>2, <1>3, <1>4, VideoAssumption
-----------------------------------------------------------------------------
(* SIGINT comes, or main has seen all threads end: no thread moves.        *)
LEMMA MainVideo ==
  ASSUME VideoIInv, StopPlaying \/ JoinVideo
  PROVE  VideoIInv'
<1>1. /\ UNCHANGED <<rings, threadPc, frame, frame_idx, shown, freed>>
      /\ is_running' \in {is_running, FALSE} /\ player' \in {"join", "exited"}
  BY DEF StopPlaying, JoinVideo
<1>2. VideoTypeOK'
  BY <1>1 DEF VideoIInv, VideoTypeOK, rings
<1>3. ThreadsPlaced'
  BY <1>1 DEF VideoIInv, ThreadsPlaced, rings
<1>4. Shows' = Shows /\ Transforms' = Transforms /\ Decoded' = Decoded
  BY <1>1 DEF Shows, Transforms, Decoded
<1> QED
  BY <1>1, <1>2, <1>3, <1>4, VideoStays

LEMMA VideoNextHolds == VideoIInv /\ [VideoNext]_videoVars => VideoIInv'
<1> SUFFICES ASSUME VideoIInv, [VideoNext]_videoVars PROVE VideoIInv'
  OBVIOUS
<1>1. CASE UNCHANGED videoVars
  <2>1. VideoTypeOK' /\ ThreadsPlaced'
    BY <1>1 DEF videoVars, rings, VideoIInv, VideoTypeOK, ThreadsPlaced
  <2>2. /\ UNCHANGED <<rings, threadPc, frame, frame_idx, shown, freed>>
        /\ Shows' = Shows /\ Transforms' = Transforms /\ Decoded' = Decoded
    BY <1>1 DEF videoVars, Shows, Transforms, Decoded
  <2> QED
    BY <2>1, <2>2, VideoStays
<1>2. ASSUME NEW t \in Thread, ThreadStep(t) PROVE VideoIInv'
  <2>1. CASE LoopRunning(t)
    BY <2>1, LoopRunningVideo
  <2>2. CASE t # "display" /\ PollPush(t)
    BY <2>2, PollPushVideo
  <2>3. CASE t # "display" /\ cb_push(t)
    <3>1. t = "decoder" \/ t = "transformer"
      BY <2>3 DEF Thread
    <3> QED
      BY <2>3, <3>1, DecoderPushes, TransformerPushes
  <2>4. CASE t # "decoder" /\ PollPop(t)
    BY <2>4, PollPopVideo
  <2>5. CASE t # "decoder" /\ cb_pop(t)
    <3>1. t = "display" \/ t = "transformer"
      BY <2>5 DEF Thread
    <3> QED
      BY <2>5, <3>1, DisplayPops, TransformerPops
  <2>6. CASE decode_frame
    BY <2>6, DecodeVideo
  <2>7. CASE transform_frame
    BY <2>7, TransformVideo
  <2>8. CASE display_frame
    BY <2>8, DisplayVideo
  <2> QED
    BY <1>2, <2>1, <2>2, <2>3, <2>4, <2>5, <2>6, <2>7, <2>8 DEF ThreadStep
<1>3. CASE StopPlaying \/ JoinVideo
  BY <1>3, MainVideo
<1> QED
  BY <1>1, <1>2, <1>3 DEF VideoNext

(* The frames that are freed, and those that rings and threads hold, are    *)
(* never the same.                                                         *)
LEMMA VideoIInvShows == VideoIInv => ShownInOrder
<1> SUFFICES ASSUME VideoIInv PROVE ShownInOrder
  OBVIOUS
<1>1. PICK first \in 0..MaxFrames : Lined(first) /\ Unfreed(first)
  BY DEF VideoIInv
<1>2. /\ first \in Nat /\ count[Dec] \in 0..BUFFER_SIZE /\ count[Disp] \in 0..BUFFER_SIZE
      /\ shown \in Nat /\ One(Shows) \in {0, 1} /\ One(Transforms) \in {0, 1}
      /\ One(Decoded) \in {0, 1}
  BY <1>1, Rings, VideoAssumption DEF VideoIInv, VideoTypeOK, One
<1>3. NextShown \in Nat /\ NextShown >= shown /\ Passed \in Nat
  BY <1>2, VideoAssumption DEF NextShown, Passed
<1>4. /\ Shows => NextShown = shown + 1
      /\ Transforms => Passed = NextShown + count[Disp] + 1
      /\ Decoded => first + count[Dec] + One(Decoded) = first + count[Dec] + 1
  BY <1>2, <1>3 DEF NextShown, Passed, One
<1>5. Shows => frame["display"] = [idx |-> shown, transformed |-> TRUE] /\ freed[shown] = 0
  <2>1. Shows => shown \in shown..(Passed - 1)
    <3>1. Shows => Passed >= shown + 1
      BY <1>2, <1>4 DEF Passed
    <3> QED
      BY <1>2, <1>3, <3>1
  <2> QED
    BY <1>1, <2>1 DEF Lined, Unfreed
<1>6. Transforms => freed[frame["transformer"].idx] = 0
  <2>1. Transforms => NextShown + count[Disp] \in shown..(Passed - 1)
    BY <1>2, <1>3, <1>4
  <2> QED
    BY <1>1, <2>1 DEF Lined, Unfreed
<1>7. Decoded => freed[frame["decoder"].idx] = 0
  <2> DEFINE last == first + count[Dec] + One(Decoded) - 1
  <2>1. \A i \in first..last : freed[i] = 0
    BY <1>1 DEF Unfreed
  <2>2. count[Dec] \in Nat /\ (Decoded => last = first + count[Dec])
    BY <1>2, <1>4, VideoAssumption
  <2>3. Decoded => frame["decoder"].idx = first + count[Dec]
    BY <1>1 DEF Lined
  <2> HIDE DEF last
  <2> QED
    BY <1>2, <2>1, <2>2, <2>3
<1>8. \A i \in Held(Disp) : freed[i] = 0
  <2> SUFFICES ASSUME NEW k \in 0..(count[Disp] - 1)
               PROVE  freed[data[Disp][(tail[Disp] + k) % BUFFER_SIZE].idx] = 0
    BY DEF Held
  <2>1. tail[Disp] \in Index /\ k \in 0..BUFFER_SIZE
    BY <1>2, Rings, VideoAssumption DEF VideoIInv, VideoTypeOK
  <2>2. (tail[Disp] + k) % BUFFER_SIZE = FramePlace(tail[Disp], k)
    BY <2>1, PlaceMod
  <2>3. data[Disp][FramePlace(tail[Disp], k)] = [idx |-> NextShown + k, transformed |-> TRUE]
    BY <1>1 DEF Lined
  <2>4. NextShown + k \in shown..(Passed - 1)
    BY <1>2, <1>3, VideoAssumption DEF Passed
  <2> QED
    BY <1>1, <2>2, <2>3, <2>4 DEF Unfreed
<1>9. \A i \in Held(Dec) : freed[i] = 0
  <2> SUFFICES ASSUME NEW k \in 0..(count[Dec] - 1)
               PROVE  freed[data[Dec][(tail[Dec] + k) % BUFFER_SIZE].idx] = 0
    BY DEF Held
  <2>1. tail[Dec] \in Index /\ k \in 0..BUFFER_SIZE
    BY <1>2, Rings, VideoAssumption DEF VideoIInv, VideoTypeOK
  <2>2. (tail[Dec] + k) % BUFFER_SIZE = FramePlace(tail[Dec], k)
    BY <2>1, PlaceMod
  <2>3. data[Dec][FramePlace(tail[Dec], k)] = [idx |-> first + k, transformed |-> FALSE]
    BY <1>1 DEF Lined
  <2>4. first + k \in first..(first + count[Dec] + One(Decoded) - 1)
    BY <1>2, VideoAssumption
  <2> QED
    BY <1>1, <2>2, <2>3, <2>4 DEF Unfreed
<1>10. \A t \in Thread : threadPc[t] \in {"poll_push", "push", "transform", "show"} =>
                           freed[frame[t].idx] = 0
  BY <1>5, <1>6, <1>7 DEF Shows, Transforms, Decoded, Thread, VideoIInv, ThreadsPlaced
<1>11. \A i \in 0..MaxFrames : freed[i] <= 1
  BY <1>1 DEF Unfreed
<1> QED
  BY <1>5, <1>8, <1>9, <1>10, <1>11, Rings DEF ShownInOrder, Shows

(* sop-vp2.c: the rings, the threads and the frames keep the values their  *)
(* declarations give them, for every length of the rings; no counter goes  *)
(* over BUFFER_SIZE or below zero.                                         *)
THEOREM VideoTypeCorrect == VideoSpec => []VideoTypeOK
<1>1. VideoIInv => VideoTypeOK
  BY DEF VideoIInv
<1> QED
  BY VideoInitHolds, VideoNextHolds, <1>1, PTL DEF VideoSpec

(* sop-vp2.c: the frame displayed is always the next one, transformed, and *)
(* no frame is freed twice or while a ring or a thread still holds it, for *)
(* every length of the rings and any number of frames.                     *)
THEOREM ShownInOrderHolds == VideoSpec => []ShownInOrder
BY VideoInitHolds, VideoNextHolds, VideoIInvShows, PTL DEF VideoSpec

-----------------------------------------------------------------------------
(* The programs that are checked together: each runs as it does alone, or  *)
(* stays as it was.                                                        *)

LEMMA HandOversRun ==
  /\ Init => GameInit /\ PrelabInit /\ SalisInit /\ VideoInit
  /\ [Next]_vars => /\ [GameNext]_gameVars /\ [PrelabNext]_prelabVars
                    /\ [SalisNext]_salisVars /\ [VideoNext]_videoVars
<1>1. Init => GameInit /\ PrelabInit /\ SalisInit /\ VideoInit
  BY DEF Init
<1>2. ASSUME [Next]_vars
      PROVE  /\ [GameNext]_gameVars /\ [PrelabNext]_prelabVars
             /\ [SalisNext]_salisVars /\ [VideoNext]_videoVars
  BY <1>2 DEF Next, PlayCards, CountLetters, SaltFields, PlayVideo, vars
<1> QED
  BY <1>1, <1>2

(* Whichever program runs, indices stay inside the rings, which never hold *)
(* more than they have room for.                                           *)
THEOREM HandOversTypeCorrect == Spec => []TypeOK
<1>1. Spec => []GameTypeOK
  BY HandOversRun, GameTypeCorrect, PTL DEF Spec, GameSpec
<1>2. Spec => []PrelabTypeOK
  BY HandOversRun, PrelabTypeCorrect, PTL DEF Spec, PrelabSpec
<1>3. Spec => []SalisTypeOK
  BY HandOversRun, SalisTypeCorrect, PTL DEF Spec, SalisSpec
<1>4. Spec => []VideoTypeOK
  BY HandOversRun, VideoTypeCorrect, PTL DEF Spec, VideoSpec
<1> QED
  BY <1>1, <1>2, <1>3, <1>4, PTL DEF TypeOK
=============================================================================
