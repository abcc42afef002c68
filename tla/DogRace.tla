------------------------------- MODULE DogRace -------------------------------
(***************************************************************************)
(* stopy3/zad3/etap4.c: dogs (threads) run along a track of cells, at most *)
(* one dog to a cell; the first three to arrive get the places of the      *)
(* podium; main waits until all have finished.  SIGINT stops the dogs.     *)
(*                                                                         *)
(* Each cell has a mutex.  A dog that moves holds the mutex of the cell it *)
(* goes to while it takes that of the cell it leaves; every other critical *)
(* section holds one mutex and is a step.  main's printing of the track    *)
(* changes nothing and is left out.                                        *)
(***************************************************************************)
EXTENDS Integers, FiniteSets

CONSTANTS Dog,         \* numbers of the dogs
          TrackLength, \* n
          MaxJump      \* longest jump (5 in the code)

Cell == 0..(TrackLength - 1)
Finish == TrackLength - 1
PodiumPlace == 1..3      \* firstPlace, secondPlace, thirdPlace
NoDog == -1

ASSUME DogAssumption ==
    /\ IsFiniteSet(Dog) /\ Dog \subseteq Nat
    /\ TrackLength \in Nat /\ TrackLength > 1
    /\ MaxJump \in Nat \ {0}

VARIABLES
    dogPc,         \* where each dog is in DogRun
    pos,
    nextPos,
    track,
    podium,        \* firstPlace, secondPlace and thirdPlace
    place,         \* the place a dog found free
    dogsFinished,
    quitFlag,
    race,          \* where main is
    printed        \* the podium main printed

runVars == <<dogPc, pos, nextPos, track>>
podiumVars == <<podium, place, dogsFinished>>
raceVars == <<runVars, podiumVars, quitFlag, race, printed>>

DogInit ==
    /\ dogPc = [d \in Dog |-> "test"]
    /\ pos = [d \in Dog |-> 0]
    /\ nextPos = [d \in Dog |-> 0]
    /\ track = [c \in Cell |-> 0]
    /\ podium = [k \in PodiumPlace |-> NoDog]
    /\ place = [d \in Dog |-> 1]
    /\ dogsFinished = 0
    /\ quitFlag = FALSE
    /\ race = "watch"
    /\ printed = {}

-----------------------------------------------------------------------------
(* DogRun                                                                  *)

DogGoto(d, l) == dogPc' = [dogPc EXCEPT ![d] = l]

\* Dogs hold a mutex between steps only while they move.
CellFree(c) == \A d \in Dog : dogPc[d] \in {"leave", "land"} => nextPos[d] # c

TestDogQuit(d) ==
    /\ dogPc[d] = "test"
    /\ DogGoto(d, IF quitFlag THEN "quit" ELSE "jump")
    /\ UNCHANGED <<pos, nextPos, track, podiumVars, quitFlag, race, printed>>

MinOf(a, b) == IF a < b THEN a ELSE b

\* Mutant: the cell is not looked at.
Jump_OntoOther(d) ==
    /\ dogPc[d] = "jump"
    /\ \E distance \in 1..MaxJump :
          LET next == MinOf(pos[d] + distance, Finish) IN
          /\ CellFree(next)
          /\ nextPos' = [nextPos EXCEPT ![d] = next]
          /\ DogGoto(d, "leave")
    /\ UNCHANGED <<pos, track, podiumVars, quitFlag, race, printed>>

\* The next cell's mutex is taken; if a dog is there, waf, and once more.
Jump(d) ==
    /\ dogPc[d] = "jump"
    /\ \E distance \in 1..MaxJump :
          LET next == MinOf(pos[d] + distance, Finish) IN
          /\ CellFree(next)
          /\ nextPos' = [nextPos EXCEPT ![d] = next]
          /\ DogGoto(d, IF track[next] # 0 THEN "test" ELSE "leave")
    /\ UNCHANGED <<pos, track, podiumVars, quitFlag, race, printed>>

LeaveCell(d) ==
    /\ dogPc[d] = "leave"
    /\ CellFree(pos[d])
    /\ track' = [track EXCEPT ![pos[d]] = @ - 1]
    /\ DogGoto(d, "land")
    /\ UNCHANGED <<pos, nextPos, podiumVars, quitFlag, race, printed>>

Land(d) ==
    /\ dogPc[d] = "land"
    /\ track' = [track EXCEPT ![nextPos[d]] = @ + 1]
    /\ pos' = [pos EXCEPT ![d] = nextPos[d]]
    /\ DogGoto(d, IF nextPos[d] >= Finish THEN "arrived" ELSE "test")
    /\ UNCHANGED <<nextPos, podiumVars, quitFlag, race, printed>>

\* Mutant: the dog stays on the last cell.
LeaveTrack_Stays(d) ==
    /\ dogPc[d] = "arrived"
    /\ CellFree(pos[d])
    /\ DogGoto(d, "look")
    /\ UNCHANGED <<pos, track, nextPos, podiumVars, quitFlag, race, printed>>

LeaveTrack(d) ==
    /\ dogPc[d] = "arrived"
    /\ CellFree(pos[d])
    /\ track' = [track EXCEPT ![pos[d]] = @ - 1]
    /\ DogGoto(d, "look")
    /\ UNCHANGED <<pos, nextPos, podiumVars, quitFlag, race, printed>>

FirstFreePlace(k) == podium[k] = NoDog /\ \A j \in PodiumPlace : j < k => podium[j] # NoDog

\* The places are read one after the other without the mutex.  None is ever
\* freed, so that it comes to looking at all when the last one is read.
LookAtPodium(d) ==
    /\ dogPc[d] = "look"
    /\ \/ \E k \in PodiumPlace :
             /\ FirstFreePlace(k)
             /\ place' = [place EXCEPT ![d] = k]
             /\ DogGoto(d, "take")
       \/ /\ \A k \in PodiumPlace : podium[k] # NoDog
          /\ DogGoto(d, "count")
          /\ UNCHANGED place
    /\ UNCHANGED <<pos, nextPos, track, podium, dogsFinished, quitFlag, race, printed>>

\* Mutant: if instead of else if.
TakePlace_NoElse(d) ==
    /\ dogPc[d] = "take"
    /\ podium' = [k \in PodiumPlace |-> IF k >= place[d] /\ (k = place[d] \/ podium[k] = NoDog)
                                        THEN d ELSE podium[k]]
    /\ DogGoto(d, "count")
    /\ UNCHANGED <<pos, nextPos, track, place, dogsFinished, quitFlag, race, printed>>

\* Mutant: the dog is counted before it takes its place.
TakePlace_CountedFirst(d) ==
    /\ \/ dogPc[d] = "take" /\ dogsFinished' = dogsFinished + 1 /\ DogGoto(d, "late")
          /\ UNCHANGED podium
       \/ dogPc[d] = "late" /\ podium' = [podium EXCEPT ![place[d]] = d] /\ DogGoto(d, "done")
          /\ UNCHANGED dogsFinished
    /\ UNCHANGED <<pos, nextPos, track, place, quitFlag, race, printed>>

TakePlace(d) ==
    /\ dogPc[d] = "take"
    /\ podium' = [podium EXCEPT ![place[d]] = d]
    /\ DogGoto(d, "count")
    /\ UNCHANGED <<pos, nextPos, track, place, dogsFinished, quitFlag, race, printed>>

CountDog(d) ==
    /\ dogPc[d] = "count"
    /\ dogsFinished' = dogsFinished + 1
    /\ DogGoto(d, "done")
    /\ UNCHANGED <<pos, nextPos, track, podium, place, quitFlag, race, printed>>

DogStep(d) ==
    \/ TestDogQuit(d) \/ Jump(d) \/ LeaveCell(d) \/ Land(d)
    \/ LeaveTrack(d) \/ LookAtPodium(d) \/ TakePlace(d) \/ CountDog(d)

-----------------------------------------------------------------------------
(* main, and the thread that waits for SIGINT                              *)

\* The loop around the printing of the track ends; then the podium.
EndRace ==
    /\ race = "watch"
    /\ dogsFinished >= Cardinality(Dog)
    /\ race' = "join"
    /\ printed' = IF quitFlag THEN {} ELSE {podium}
    /\ UNCHANGED <<runVars, podiumVars, quitFlag>>

JoinDogs ==
    /\ race = "join"
    /\ \A d \in Dog : dogPc[d] \in {"done", "quit"}
    /\ race' = "over"
    /\ UNCHANGED <<runVars, podiumVars, quitFlag, printed>>

QuitRace ==
    /\ ~quitFlag /\ race # "over"
    /\ quitFlag' = TRUE
    /\ UNCHANGED <<runVars, podiumVars, race, printed>>

DogNext == (\E d \in Dog : DogStep(d)) \/ EndRace \/ JoinDogs \/ QuitRace

RaceSpec == DogInit /\ [][DogNext]_raceVars

\* Every thread goes on; nobody has to send SIGINT.
RaceFairness ==
    /\ \A d \in Dog : WF_raceVars(DogStep(d))
    /\ WF_raceVars(EndRace) /\ WF_raceVars(JoinDogs)

-----------------------------------------------------------------------------
DogPlace == {"test", "jump", "leave", "land", "arrived", "look", "take", "count", "done",
             "quit"}

RaceTypeOK ==
    /\ dogPc \in [Dog -> DogPlace]
    /\ pos \in [Dog -> Cell] /\ nextPos \in [Dog -> Cell]
    /\ track \in [Cell -> Int]
    /\ podium \in [PodiumPlace -> Dog \cup {NoDog}]
    /\ place \in [Dog -> PodiumPlace]
    /\ dogsFinished \in 0..Cardinality(Dog)
    /\ quitFlag \in BOOLEAN
    /\ race \in {"watch", "join", "over"}
    /\ printed \subseteq [PodiumPlace -> Dog \cup {NoDog}]

\* d stands on the cell c.  (Nobody is put on cell 0: the dogs start there
\* without being counted, and its number goes below zero as they leave.)
Stands(d, c) ==
    pos[d] = c /\ dogPc[d] \in {"test", "jump", "leave", "arrived", "quit"}

\* Beyond the start no two dogs stand on one cell, and the track shows exactly
\* the dogs that stand there, though a move is two updates of two cells.
OneDogPerCell ==
    \A c \in Cell \ {0} :
        /\ track[c] \in {0, 1}
        /\ track[c] = 1 <=> \E d \in Dog : Stands(d, c)
        /\ \A d, e \in Dog : Stands(d, c) /\ Stands(e, c) => d = e

\* Dogs that saw the same place free overwrite each other, so that the podium may
\* miss a dog; but no dog is on it twice, no place is left out, and only dogs
\* that have reached the last cell are on it.
PodiumFair ==
    /\ \A j, k \in PodiumPlace : podium[j] = podium[k] /\ podium[j] # NoDog => j = k
    /\ \A j, k \in PodiumPlace : j < k /\ podium[j] = NoDog => podium[k] = NoDog
    /\ \A k \in PodiumPlace, d \in Dog : podium[k] = d => pos[d] = Finish

\* What main prints as the final podium is final.
PodiumIsFinal == \A p \in printed : p = podium

\* All dogs leave the track, and unless SIGINT stopped some of them main ends:
\* dogs do not block each other for ever, on the track or on the mutexes.
RaceOver ==
    /\ \A d \in Dog : dogPc[d] \in {"done", "quit"}
    /\ race = "over" \/ quitFlag

RaceEnds == <>RaceOver
=============================================================================
