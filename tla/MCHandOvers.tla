----------------------------- MODULE MCHandOvers -----------------------------
(***************************************************************************)
(* The programs in which threads hand something on: cards, paths, sacks of *)
(* salt and frames.  They share nothing with each other: a behaviour runs  *)
(* one of them, program; the variables of the others stay as they were.    *)
(***************************************************************************)
EXTENDS MCCardGame, Prelab, Salis, VideoPipeline

VARIABLE program

MCContent == [p \in Text |-> CASE p = "t1" -> <<"a", "b">>
                               [] p = "t2" -> <<"a">>
                               [] OTHER -> <<>>]

\* A program that does not run has one initial state.
Init ==
    /\ GameInit /\ PrelabInit /\ SalisInit /\ VideoInit
    /\ program \in {"cards", "prelab", "salis", "video"}
    /\ program # "cards" => deal = FirstDeal
    /\ program # "prelab" => texts = {}

PlayCards ==
    /\ program = "cards" /\ GameNext
    /\ UNCHANGED <<prelabVars, salisVars, videoVars, program>>

CountLetters ==
    /\ program = "prelab" /\ PrelabNext
    /\ UNCHANGED <<gameVars, salisVars, videoVars, program>>

SaltFields ==
    /\ program = "salis" /\ SalisNext
    /\ UNCHANGED <<gameVars, prelabVars, videoVars, program>>

PlayVideo ==
    /\ program = "video" /\ VideoNext
    /\ UNCHANGED <<gameVars, prelabVars, salisVars, program>>

Next == PlayCards \/ CountLetters \/ SaltFields \/ PlayVideo

vars == <<gameVars, prelabVars, salisVars, videoVars, program>>

Fairness ==
    \/ program = "cards" /\ GameFairness
    \/ program = "prelab" /\ PrelabFairness
    \/ program = "salis" /\ SalisFairness
    \/ program = "video" /\ VideoFairness

Spec == Init /\ [][Next]_vars /\ Fairness

\* Each variable holds a value its declaration allows; in particular indices stay
\* inside the rings, which never hold more than they have room for.
TypeOK == GameTypeOK /\ PrelabTypeOK /\ SalisTypeOK /\ VideoTypeOK

\* Whichever program runs goes on: players do not miss the start, texts are counted
\* and frames shown, and after SIGINT the programs end; but in Prelab a thread may be
\* stuck.  These are EverybodyStarts, PrelabGoesOn, SalisEnds and VideoGoesOn, the last
\* three put together in two formulas, as TLC needs time for each.
HandOversGoOn ==
    /\ program = "cards" => EverybodyStarts
    /\ <>(CASE program = "prelab" -> LettersCounted
            [] program = "video" -> AllShown
            [] OTHER -> TRUE)
    /\ (CASE program = "prelab" -> quit
           [] program = "salis" -> ~doWork
           [] program = "video" -> ~is_running
           [] OTHER -> FALSE)
       ~>
       (CASE program = "prelab" -> PrelabOver
          [] program = "salis" -> scipio = "exited"
          [] OTHER -> player = "exited")
=============================================================================
