------------------------------ MODULE BallBins ------------------------------
(***************************************************************************)
(* stopy3/prog18/prog18.c: detached threads throw balls into bins; main    *)
(* looks once a second whether all have been thrown and then reads the     *)
(* bins, without their mutexes.                                            *)
(***************************************************************************)
EXTENDS Naturals, FiniteSets

CONSTANTS BallsCount,
          BIN_COUNT,
          Thrower       \* the threads

Bin == 0..(BIN_COUNT - 1)

ASSUME BallAssumption ==
    /\ BallsCount \in Nat \ {0} /\ BIN_COUNT \in Nat \ {0}
    /\ IsFiniteSet(Thrower)

VARIABLES
    ballsWaiting, ballsThrown, bins,
    thrower,        \* where each thread is in throwing_func
    ballsMain,      \* where main is
    nextBin,        \* i in main's loop over the bins
    realBallsCount

throwVars == <<ballsWaiting, ballsThrown, bins, thrower>>
ballVars == <<throwVars, ballsMain, nextBin, realBallsCount>>

BallsInit ==
    /\ ballsWaiting = BallsCount /\ ballsThrown = 0
    /\ bins = [b \in Bin |-> 0]
    /\ thrower = [t \in Thrower |-> "take"]
    /\ ballsMain = "watch"
    /\ nextBin = 0 /\ realBallsCount = 0

-----------------------------------------------------------------------------
(* throwing_func: each critical section is a step                          *)

ThrowerGoto(t, l) == thrower' = [thrower EXCEPT ![t] = l]

TakeBall(t) ==
    /\ thrower[t] = "take"
    /\ \/ /\ ballsWaiting > 0
          /\ ballsWaiting' = ballsWaiting - 1
          /\ ThrowerGoto(t, "throw")
       \/ /\ ballsWaiting = 0
          /\ ThrowerGoto(t, "end")
          /\ UNCHANGED ballsWaiting
    /\ UNCHANGED <<ballsThrown, bins, ballsMain, nextBin, realBallsCount>>

\* Mutant: the ball is counted before it is in its bin.
ThrowBall_CountedFirst(t) ==
    /\ \/ thrower[t] = "throw" /\ ballsThrown' = ballsThrown + 1 /\ UNCHANGED bins
          /\ ThrowerGoto(t, "land")
       \/ /\ thrower[t] = "land"
          /\ \E b \in Bin : bins' = [bins EXCEPT ![b] = @ + 1]
          /\ ThrowerGoto(t, "take") /\ UNCHANGED ballsThrown
    /\ UNCHANGED <<ballsWaiting, ballsMain, nextBin, realBallsCount>>

\* throwBall may return any bin.
ThrowBall(t) ==
    /\ thrower[t] = "throw"
    /\ \E b \in Bin : bins' = [bins EXCEPT ![b] = @ + 1]
    /\ ThrowerGoto(t, "count")
    /\ UNCHANGED <<ballsWaiting, ballsThrown, ballsMain, nextBin, realBallsCount>>

CountBall(t) ==
    /\ thrower[t] = "count"
    /\ ballsThrown' = ballsThrown + 1
    /\ ThrowerGoto(t, "take")
    /\ UNCHANGED <<ballsWaiting, bins, ballsMain, nextBin, realBallsCount>>

ThrowerStep(t) == TakeBall(t) \/ ThrowBall(t) \/ CountBall(t)

-----------------------------------------------------------------------------
(* main                                                                    *)

WatchBalls ==
    /\ ballsMain = "watch"
    /\ ballsThrown >= BallsCount
    /\ ballsMain' = "sum"
    /\ UNCHANGED <<throwVars, nextBin, realBallsCount>>

\* The bins are read one by one, then printed.
SumBin ==
    /\ ballsMain = "sum"
    /\ realBallsCount' = realBallsCount + bins[nextBin]
    /\ IF nextBin < BIN_COUNT - 1
       THEN nextBin' = nextBin + 1 /\ UNCHANGED ballsMain
       ELSE ballsMain' = "printed" /\ UNCHANGED nextBin
    /\ UNCHANGED throwVars

BallsNext ==
    \/ \E t \in Thrower : ThrowerStep(t)
    \/ WatchBalls \/ SumBin

BallsSpec == BallsInit /\ [][BallsNext]_ballVars

-----------------------------------------------------------------------------
BallsTypeOK ==
    /\ ballsWaiting \in 0..BallsCount /\ ballsThrown \in 0..BallsCount
    /\ bins \in [Bin -> 0..BallsCount]
    /\ thrower \in [Thrower -> {"take", "throw", "count", "end"}]
    /\ ballsMain \in {"watch", "sum", "printed"}
    /\ nextBin \in Bin /\ realBallsCount \in 0..BallsCount

\* The bins main adds up without a mutex no longer change: what it prints as the
\* total is the number of balls asked for, although threads may still be running.
TotalIsBallsCount == ballsMain = "printed" => realBallsCount = BallsCount
=============================================================================
