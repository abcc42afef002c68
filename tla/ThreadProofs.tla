----------------------------- MODULE ThreadProofs -----------------------------
(***************************************************************************)
(* Proofs about the programs of threads and mutexes of stopy3: races of    *)
(* any number of dogs on a track of any length, with jumps of any length;  *)
(* any number of counting threads, and any numbers M; any number of        *)
(* students; any number of balls, bins and throwing threads; an array of   *)
(* any size.                                                               *)
(***************************************************************************)
EXTENDS DogRace, SharedCounter, StudentYears, BallBins, ArrayRemover,
        FiniteSetTheorems, TLAPS

-----------------------------------------------------------------------------
(* zad3: the dog race                                                     *)

Arrived == {"arrived", "look", "take", "count", "done"}
Moving(d) == dogPc[d] \in {"leave", "land"}
DogsDone == {d \in Dog : dogPc[d] = "done"}

(* A dog that moves goes forward to a cell that stays empty until it lands,*)
(* because it holds that cell's mutex and nobody else does.                *)
OnTrack ==
    \A d \in Dog :
        /\ dogPc[d] \in Arrived => pos[d] = Finish
        /\ dogPc[d] \in {"test", "jump", "quit"} => pos[d] < Finish
        /\ Moving(d) => pos[d] < nextPos[d] /\ track[nextPos[d]] = 0
        /\ \A e \in Dog : Moving(d) /\ Moving(e) /\ nextPos[d] = nextPos[e] => d = e

(* A place is given to a dog past its choice, in order.                    *)
PlacesGiven ==
    /\ \A k \in PodiumPlace, d \in Dog : podium[k] = d => dogPc[d] \in {"count", "done"}
    /\ \A d \in Dog : dogPc[d] = "take" => \A j \in PodiumPlace : j < place[d] => podium[j] # NoDog

(* dogsFinished counts the dogs that are done.                             *)
DogsCounted == dogsFinished = Cardinality(DogsDone)

(* main prints when nobody is left to change the podium.                   *)
PrintedLast == printed # {} => DogsDone = Dog

RaceIInv ==
    RaceTypeOK /\ OnTrack /\ OneDogPerCell /\ PlacesGiven /\ PodiumFair /\ DogsCounted
    /\ PrintedLast /\ PodiumIsFinal

-----------------------------------------------------------------------------
LEMMA RaceInitHolds == DogInit => RaceIInv
<1> SUFFICES ASSUME DogInit PROVE RaceIInv
  OBVIOUS
<1> USE DogAssumption
<1>1. 0 \in Cell /\ 0 < Finish /\ \A c \in Cell : c = 0 \/ c > 0
  BY DEF Cell, Finish
<1>2. DogsDone = {} /\ Cardinality({}) = 0 /\ Cardinality(Dog) \in Nat
  BY FS_EmptySet, FS_CardinalityType DEF DogInit, DogsDone
<1>3. RaceTypeOK
  <2>1. 1 \in PodiumPlace /\ NoDog \in Dog \cup {NoDog} /\ dogsFinished \in 0..Cardinality(Dog)
    BY <1>2 DEF DogInit, PodiumPlace
  <2>2. dogPc \in [Dog -> DogPlace] /\ pos \in [Dog -> Cell] /\ nextPos \in [Dog -> Cell]
        /\ track \in [Cell -> Int]
    BY <1>1 DEF DogInit, DogPlace
  <2>3. podium \in [PodiumPlace -> Dog \cup {NoDog}] /\ place \in [Dog -> PodiumPlace]
    BY <2>1 DEF DogInit
  <2> QED
    BY <2>1, <2>2, <2>3 DEF DogInit, RaceTypeOK
<1>4. OnTrack
  BY <1>1 DEF DogInit, OnTrack, Arrived, Moving
<1>5. OneDogPerCell
  BY <1>1 DEF DogInit, OneDogPerCell, Stands
<1>6. PlacesGiven
  BY DEF DogInit, PlacesGiven, NoDog, PodiumPlace
<1>7. PodiumFair
  BY DEF DogInit, PodiumFair, NoDog, PodiumPlace
<1> QED
  BY <1>2, <1>3, <1>4, <1>5, <1>6, <1>7 DEF DogInit, RaceIInv, DogsCounted, PrintedLast, PodiumIsFinal

(* The count: one dog at a time becomes done, and is done for good.        *)
LEMMA DogsCountedStep ==
  ASSUME RaceIInv, [DogNext]_raceVars
  PROVE  DogsCounted' /\ dogsFinished' \in 0..Cardinality(Dog)
<1> USE DogAssumption
<1> DEFINE D == DogsDone
<1>1. IsFiniteSet(D) /\ Cardinality(D) \in Nat /\ dogsFinished = Cardinality(D)
  BY FS_Subset, FS_CardinalityType DEF DogsDone, RaceIInv, DogsCounted
<1>2. CASE UNCHANGED <<dogsFinished, DogsDone>>
  BY <1>2 DEF RaceIInv, DogsCounted, RaceTypeOK
<1>3. ASSUME NEW d \in Dog, CountDog(d)
      PROVE  DogsCounted' /\ dogsFinished' \in 0..Cardinality(Dog)
  <2>1. DogsDone' = D \cup {d} /\ d \notin D
    BY <1>3 DEF CountDog, DogGoto, DogsDone, RaceIInv, RaceTypeOK
  <2>2. Cardinality(DogsDone') = Cardinality(D) + 1
    BY <1>1, <2>1, FS_AddElement
  <2>3. dogsFinished' = Cardinality(DogsDone')
    BY <1>1, <1>3, <2>2 DEF CountDog
  <2>4. DogsDone' \subseteq Dog
    BY DEF DogsDone
  <2>5. Cardinality(DogsDone') \in Nat /\ Cardinality(Dog) \in Nat
        /\ Cardinality(DogsDone') <= Cardinality(Dog)
    BY <2>4, FS_Subset, FS_CardinalityType
  <2> QED
    BY <2>3, <2>5 DEF DogsCounted
<1>4. ASSUME NEW d \in Dog,
             \/ TestDogQuit(d) \/ Jump(d) \/ LeaveCell(d) \/ Land(d)
             \/ LeaveTrack(d) \/ LookAtPodium(d) \/ TakePlace(d)
      PROVE  UNCHANGED <<dogsFinished, DogsDone>>
  <2>1. dogPc \in [Dog -> DogPlace] /\ dogPc[d] # "done"
    BY <1>4 DEF TestDogQuit, Jump, LeaveCell, Land, LeaveTrack, LookAtPodium, TakePlace,
                RaceIInv, RaceTypeOK
  <2>2. dogsFinished' = dogsFinished /\ \E l \in DogPlace : l # "done" /\ DogGoto(d, l)
    BY <1>4 DEF TestDogQuit, Jump, LeaveCell, Land, LeaveTrack, LookAtPodium, TakePlace,
                podiumVars, DogPlace
  <2> QED
    BY <2>1, <2>2 DEF DogGoto, DogsDone
<1>5. CASE EndRace \/ JoinDogs \/ QuitRace \/ UNCHANGED raceVars
  <2>1. UNCHANGED <<dogsFinished, dogPc>>
    BY <1>5 DEF EndRace, JoinDogs, QuitRace, raceVars, runVars, podiumVars
  <2> QED
    BY <1>2, <2>1 DEF DogsDone
<1> QED
  BY <1>2, <1>3, <1>4, <1>5 DEF DogNext, DogStep

LEMMA CellFacts ==
  /\ Cell \subseteq Nat /\ Finish \in Cell /\ 0 \in Cell /\ Finish > 0
  /\ \A c \in Cell : c <= Finish /\ (c >= Finish => c = Finish)
  /\ \A c \in Cell, n \in 1..MaxJump :
        LET next == MinOf(c + n, Finish) IN next \in Cell /\ (c < Finish => c < next)
BY DogAssumption DEF Cell, Finish, MinOf

(* The types but for the count, of which DogsCountedStep speaks.              *)
RaceKept ==
    /\ dogPc \in [Dog -> DogPlace]
    /\ pos \in [Dog -> Cell] /\ nextPos \in [Dog -> Cell]
    /\ track \in [Cell -> Int]
    /\ podium \in [PodiumPlace -> Dog \cup {NoDog}]
    /\ place \in [Dog -> PodiumPlace]
    /\ quitFlag \in BOOLEAN
    /\ race \in {"watch", "join", "over"}
    /\ printed \subseteq [PodiumPlace -> Dog \cup {NoDog}]

LEMMA RaceTypeStep ==
  ASSUME RaceIInv, [DogNext]_raceVars
  PROVE  RaceTypeOK'
<1>1. dogsFinished' \in 0..Cardinality(Dog)
  BY DogsCountedStep
<1>2. RaceKept
  BY DEF RaceIInv, RaceTypeOK, RaceKept
<1>3. ASSUME NEW d \in Dog, DogStep(d) PROVE RaceKept'
  <2>0. \A l \in DogPlace : DogGoto(d, l) => dogPc' \in [Dog -> DogPlace]
    BY <1>2 DEF DogGoto, RaceKept
  <2>1. CASE TestDogQuit(d)
    <3>1. dogPc' \in [Dog -> DogPlace]
      BY <2>0, <2>1 DEF TestDogQuit, DogPlace
    <3> QED
      BY <1>2, <2>1, <3>1 DEF TestDogQuit, podiumVars, RaceKept
  <2>2. CASE Jump(d)
    <3>1. dogPc' \in [Dog -> DogPlace]
      BY <2>0, <2>2 DEF Jump, DogPlace
    <3>2. PICK n \in 1..MaxJump : nextPos' = [nextPos EXCEPT ![d] = MinOf(pos[d] + n, Finish)]
      BY <2>2 DEF Jump
    <3>3. nextPos' \in [Dog -> Cell]
      BY <1>2, <3>2, CellFacts DEF RaceKept
    <3> QED
      BY <1>2, <2>2, <3>1, <3>3 DEF Jump, podiumVars, RaceKept
  <2>3. CASE LeaveCell(d)
    <3>1. dogPc' \in [Dog -> DogPlace]
      BY <2>0, <2>3 DEF LeaveCell, DogPlace
    <3>2. track' \in [Cell -> Int]
      BY <1>2, <2>3 DEF LeaveCell, RaceKept
    <3> QED
      BY <1>2, <2>3, <3>1, <3>2 DEF LeaveCell, podiumVars, RaceKept
  <2>4. CASE Land(d)
    <3>1. dogPc' \in [Dog -> DogPlace]
      BY <2>0, <2>4 DEF Land, DogPlace
    <3>2. track' \in [Cell -> Int] /\ pos' \in [Dog -> Cell]
      BY <1>2, <2>4 DEF Land, RaceKept
    <3> QED
      BY <1>2, <2>4, <3>1, <3>2 DEF Land, podiumVars, RaceKept
  <2>5. CASE LeaveTrack(d)
    <3>1. dogPc' \in [Dog -> DogPlace]
      BY <2>0, <2>5 DEF LeaveTrack, DogPlace
    <3>2. track' \in [Cell -> Int]
      BY <1>2, <2>5 DEF LeaveTrack, RaceKept
    <3> QED
      BY <1>2, <2>5, <3>1, <3>2 DEF LeaveTrack, podiumVars, RaceKept
  <2>6. CASE LookAtPodium(d)
    <3>1. dogPc' \in [Dog -> DogPlace]
      BY <2>0, <2>6 DEF LookAtPodium, DogPlace
    <3>2. place' \in [Dog -> PodiumPlace]
      BY <1>2, <2>6 DEF LookAtPodium, RaceKept
    <3> QED
      BY <1>2, <2>6, <3>1, <3>2 DEF LookAtPodium, RaceKept
  <2>7. CASE TakePlace(d)
    <3>1. dogPc' \in [Dog -> DogPlace]
      BY <2>0, <2>7 DEF TakePlace, DogPlace
    <3>2. podium' \in [PodiumPlace -> Dog \cup {NoDog}]
      BY <1>2, <2>7 DEF TakePlace, RaceKept
    <3> QED
      BY <1>2, <2>7, <3>1, <3>2 DEF TakePlace, RaceKept
  <2>8. CASE CountDog(d)
    <3>1. dogPc' \in [Dog -> DogPlace]
      BY <2>0, <2>8 DEF CountDog, DogPlace
    <3> QED
      BY <1>2, <2>8, <3>1 DEF CountDog, RaceKept
  <2> QED
    BY <1>3, <2>1, <2>2, <2>3, <2>4, <2>5, <2>6, <2>7, <2>8 DEF DogStep
<1>4. ASSUME EndRace \/ JoinDogs \/ QuitRace \/ UNCHANGED raceVars PROVE RaceKept'
  BY <1>2, <1>4 DEF EndRace, JoinDogs, QuitRace, raceVars, runVars, podiumVars, RaceKept
<1>5. RaceKept'
  BY <1>3, <1>4 DEF DogNext
<1> QED
  BY <1>1, <1>5 DEF RaceTypeOK, RaceKept

(* What is given on the podium, and to whom.                               *)
LEMMA PodiumStep ==
  ASSUME RaceIInv, [DogNext]_raceVars
  PROVE  PlacesGiven' /\ PodiumFair'
<1> USE DEF RaceIInv
<1>1. ASSUME UNCHANGED <<podium, place>>, \A d \in Dog : pos[d] = Finish => pos'[d] = Finish,
             \A d \in Dog : dogPc[d] \in {"count", "done"} => dogPc'[d] \in {"count", "done"},
             \A d \in Dog : dogPc'[d] = "take" => dogPc[d] = "take"
      PROVE  PlacesGiven' /\ PodiumFair'
  BY <1>1 DEF PlacesGiven, PodiumFair
<1>2. ASSUME NEW d \in Dog,
             \/ TestDogQuit(d) \/ Jump(d) \/ LeaveCell(d) \/ LeaveTrack(d) \/ CountDog(d)
      PROVE  PlacesGiven' /\ PodiumFair'
  BY <1>1, <1>2 DEF TestDogQuit, Jump, LeaveCell, LeaveTrack, CountDog, DogGoto,
                    podiumVars, RaceTypeOK
<1>3. ASSUME NEW d \in Dog, Land(d) PROVE PlacesGiven' /\ PodiumFair'
  <2>1. pos[d] \in Cell /\ nextPos[d] \in Cell /\ pos[d] < nextPos[d]
    BY <1>3 DEF Land, OnTrack, Moving, RaceTypeOK
  <2>2. pos[d] # Finish
    BY <2>1, DogAssumption DEF Cell, Finish
  <2> QED
    BY <1>1, <1>3, <2>2 DEF Land, DogGoto, podiumVars, RaceTypeOK
<1>4. ASSUME NEW d \in Dog, LookAtPodium(d) PROVE PlacesGiven' /\ PodiumFair'
  <2>1. UNCHANGED <<podium, pos>> /\ dogPc \in [Dog -> DogPlace] /\ place \in [Dog -> PodiumPlace]
    BY <1>4 DEF LookAtPodium, RaceTypeOK
  <2>2. CASE dogPc' = [dogPc EXCEPT ![d] = "count"] /\ UNCHANGED place
    BY <1>1, <2>1, <2>2
  <2>3. ASSUME NEW k \in PodiumPlace, FirstFreePlace(k), place' = [place EXCEPT ![d] = k],
               dogPc' = [dogPc EXCEPT ![d] = "take"]
        PROVE  PlacesGiven' /\ PodiumFair'
    <3>1. dogPc[d] = "look"
      BY <1>4 DEF LookAtPodium
    <3>2. PlacesGiven'
      BY <2>1, <2>3, <3>1 DEF PlacesGiven, FirstFreePlace
    <3> QED
      BY <2>1, <3>2 DEF PodiumFair
  <2> QED
    BY <1>4, <2>2, <2>3 DEF LookAtPodium, DogGoto
<1>5. ASSUME NEW d \in Dog, TakePlace(d) PROVE PlacesGiven' /\ PodiumFair'
  <2>1. /\ dogPc[d] = "take" /\ dogPc' = [dogPc EXCEPT ![d] = "count"]
        /\ podium' = [podium EXCEPT ![place[d]] = d] /\ UNCHANGED <<pos, place>>
        /\ place[d] \in PodiumPlace /\ d # NoDog
    BY <1>5, DogAssumption DEF TakePlace, DogGoto, RaceTypeOK, NoDog
  <2>2. dogPc \in [Dog -> DogPlace] /\ podium \in [PodiumPlace -> Dog \cup {NoDog}]
    BY DEF RaceTypeOK
  <2>3. \A k \in PodiumPlace : podium[k] # d /\ podium'[k] = IF k = place[d] THEN d ELSE podium[k]
    BY <2>1, <2>2 DEF PlacesGiven
  <2>4. PlacesGiven'
    BY <2>1, <2>2, <2>3 DEF PlacesGiven
  <2>5. pos[d] = Finish
    BY <2>1 DEF OnTrack, Arrived
  <2>6. \A j, k \in PodiumPlace : podium'[j] = podium'[k] /\ podium'[j] # NoDog => j = k
    BY <2>3 DEF PodiumFair
  <2>7. \A j, k \in PodiumPlace : j < k /\ podium'[j] = NoDog => podium'[k] = NoDog
    BY <2>1, <2>3 DEF PodiumFair, PlacesGiven
  <2>8. \A k \in PodiumPlace, e \in Dog : podium'[k] = e => pos'[e] = Finish
    BY <2>1, <2>3, <2>5 DEF PodiumFair
  <2> QED
    BY <2>4, <2>6, <2>7, <2>8 DEF PodiumFair
<1>6. CASE EndRace \/ JoinDogs \/ QuitRace \/ UNCHANGED raceVars
  BY <1>1, <1>6 DEF EndRace, JoinDogs, QuitRace, raceVars, runVars, podiumVars
<1> QED
  BY <1>2, <1>3, <1>4, <1>5, <1>6 DEF DogNext, DogStep

(* main prints when all dogs are done, and a dog that is done does nothing. *)
LEMMA PrintedStep ==
  ASSUME RaceIInv, [DogNext]_raceVars
  PROVE  PrintedLast' /\ PodiumIsFinal'
<1> USE DEF RaceIInv
<1>1. CASE EndRace
  <2>1. IsFiniteSet(Dog) /\ DogsDone \subseteq Dog /\ Cardinality(Dog) \in Nat
        /\ Cardinality(DogsDone) \in Nat
    BY DogAssumption, FS_Subset, FS_CardinalityType DEF DogsDone
  <2>2. Cardinality(DogsDone) >= Cardinality(Dog)
    BY <1>1 DEF EndRace, DogsCounted
  <2>3. DogsDone = Dog
    BY <2>1, <2>2, FS_Subset
  <2>4. printed' \subseteq {podium} /\ UNCHANGED <<podium, dogPc>>
    BY <1>1 DEF EndRace, podiumVars, runVars
  <2>5. DogsDone' = Dog
    BY <2>3, <2>4 DEF DogsDone
  <2> QED
    BY <2>4, <2>5 DEF PrintedLast, PodiumIsFinal
<1>2. CASE JoinDogs \/ QuitRace \/ UNCHANGED raceVars
  BY <1>2 DEF JoinDogs, QuitRace, raceVars, runVars, podiumVars, PrintedLast, PodiumIsFinal,
              DogsDone
<1>3. ASSUME NEW d \in Dog, DogStep(d) PROVE PrintedLast' /\ PodiumIsFinal'
  <2>1. dogPc[d] # "done" /\ printed' = printed
    BY <1>3 DEF DogStep, TestDogQuit, Jump, LeaveCell, Land, LeaveTrack, LookAtPodium,
                TakePlace, CountDog
  <2>2. printed = {}
    BY <2>1 DEF PrintedLast, DogsDone
  <2> QED
    BY <2>1, <2>2 DEF PrintedLast, PodiumIsFinal
<1> QED
  BY <1>1, <1>2, <1>3 DEF DogNext

(* The heart: a dog leaves one cell and enters another in two steps of two *)
(* mutexes; c stands for any cell beyond the start.                        *)
LEMMA TrackStep ==
  ASSUME RaceIInv, [DogNext]_raceVars
  PROVE  OnTrack' /\ OneDogPerCell'
<1>1. /\ RaceTypeOK /\ OnTrack /\ OneDogPerCell
      /\ dogPc \in [Dog -> DogPlace] /\ pos \in [Dog -> Cell] /\ nextPos \in [Dog -> Cell]
      /\ track \in [Cell -> Int]
  BY DEF RaceIInv, RaceTypeOK
<1>2. Cell \subseteq Nat /\ Finish \in Cell /\ Finish > 0 /\ \A c \in Cell : c <= Finish
  BY CellFacts
(* Steps that only change the place of a dog in the program.               *)
<1>3. ASSUME UNCHANGED <<pos, nextPos, track>>, NEW d \in Dog, NEW l \in DogPlace, DogGoto(d, l),
             \/ {dogPc[d], l} \subseteq {"test", "jump", "quit"}
             \/ {dogPc[d], l} \subseteq {"look", "take", "count", "done"}
      PROVE  OnTrack' /\ OneDogPerCell'
  <2>1. dogPc' = [dogPc EXCEPT ![d] = l]
    BY <1>3 DEF DogGoto
  <2>2. \A e \in Dog : Moving(e)' <=> Moving(e)
    BY <1>1, <1>3, <2>1 DEF Moving
  <2>3. \A e \in Dog, c \in Cell : Stands(e, c)' <=> Stands(e, c)
    BY <1>1, <1>3, <2>1 DEF Stands
  <2>4. OnTrack'
    BY <1>1, <1>3, <2>1, <2>2 DEF OnTrack, Arrived
  <2> QED
    BY <1>1, <1>3, <2>3, <2>4 DEF OneDogPerCell
<1>4. ASSUME NEW d \in Dog,
             TestDogQuit(d) \/ LookAtPodium(d) \/ TakePlace(d) \/ CountDog(d)
      PROVE  OnTrack' /\ OneDogPerCell'
  <2>1. CASE TestDogQuit(d)
    BY <1>3, <2>1 DEF TestDogQuit, DogPlace
  <2>2. CASE LookAtPodium(d)
    BY <1>3, <2>2 DEF LookAtPodium, DogPlace
  <2>3. CASE TakePlace(d)
    BY <1>3, <2>3 DEF TakePlace, DogPlace
  <2>4. CASE CountDog(d)
    BY <1>3, <2>4 DEF CountDog, DogPlace
  <2> QED
    BY <1>4, <2>1, <2>2, <2>3, <2>4
<1>5. ASSUME NEW d \in Dog, Jump(d) PROVE OnTrack' /\ OneDogPerCell'
  <2>1. PICK n \in 1..MaxJump :
           LET next == MinOf(pos[d] + n, Finish) IN
           /\ CellFree(next) /\ nextPos' = [nextPos EXCEPT ![d] = next]
           /\ DogGoto(d, IF track[next] # 0 THEN "test" ELSE "leave")
    BY <1>5 DEF Jump
  <2> DEFINE next == MinOf(pos[d] + n, Finish)
  <2>2. next \in Cell /\ pos[d] < Finish /\ pos[d] < next
    BY <1>1, <1>5, CellFacts DEF Jump, OnTrack
  <2>3. dogPc[d] = "jump" /\ UNCHANGED <<pos, track>>
    BY <1>5 DEF Jump
  <2>4. \A e \in Dog : Moving(e) => nextPos[e] # next
    BY <2>1 DEF CellFree, Moving
  <2>5. nextPos' = [nextPos EXCEPT ![d] = next]
        /\ dogPc' = [dogPc EXCEPT ![d] = IF track[next] # 0 THEN "test" ELSE "leave"]
    BY <2>1 DEF DogGoto
  <2> HIDE DEF next
  <2>6. \A e \in Dog : e # d => (Moving(e)' <=> Moving(e)) /\ nextPos'[e] = nextPos[e]
                                /\ dogPc'[e] = dogPc[e]
    BY <1>1, <2>5 DEF Moving
  <2>7. /\ nextPos'[d] = next /\ dogPc'[d] \in {"test", "leave"}
        /\ Moving(d)' => track[next] = 0
    BY <1>1, <2>5 DEF Moving
  <2>8. OnTrack'
    BY <1>1, <2>2, <2>3, <2>4, <2>6, <2>7 DEF OnTrack, Arrived
  <2>9. \A e \in Dog, c \in Cell : Stands(e, c)' <=> Stands(e, c)
    BY <1>1, <2>3, <2>6, <2>7 DEF Stands
  <2> QED
    BY <1>1, <2>3, <2>8, <2>9 DEF OneDogPerCell
<1>6. ASSUME NEW d \in Dog, LeaveCell(d) PROVE OnTrack' /\ OneDogPerCell'
  <2>1. /\ dogPc[d] = "leave" /\ CellFree(pos[d]) /\ UNCHANGED <<pos, nextPos>>
        /\ track' = [track EXCEPT ![pos[d]] = @ - 1] /\ dogPc' = [dogPc EXCEPT ![d] = "land"]
    BY <1>6 DEF LeaveCell, DogGoto
  <2>2. \A e \in Dog : (Moving(e)' <=> Moving(e)) /\ (Moving(e) => nextPos[e] # pos[d])
    BY <1>1, <2>1 DEF Moving, CellFree
  <2>3. \A c \in Cell : track'[c] = IF c = pos[d] THEN track[c] - 1 ELSE track[c]
    BY <1>1, <2>1
  <2>4. OnTrack'
    BY <1>1, <2>1, <2>2, <2>3 DEF OnTrack, Arrived
  <2>5. \A e \in Dog, c \in Cell : Stands(e, c)' <=> Stands(e, c) /\ e # d
    BY <1>1, <2>1 DEF Stands
  <2>6. Stands(d, pos[d])
    BY <2>1 DEF Stands
  <2>7. ASSUME NEW c \in Cell \ {0}
        PROVE  /\ track'[c] \in {0, 1}
               /\ track'[c] = 1 <=> \E e \in Dog : Stands(e, c)'
               /\ \A e, f \in Dog : Stands(e, c)' /\ Stands(f, c)' => e = f
    <3>1. CASE c = pos[d]
      <4>1. track[c] = 1 /\ \A e \in Dog : Stands(e, c) => e = d
        BY <1>1, <2>6, <3>1 DEF OneDogPerCell
      <4> QED
        BY <2>3, <2>5, <3>1, <4>1
    <3>2. CASE c # pos[d]
      <4>1. \A e \in Dog : Stands(e, c)' <=> Stands(e, c)
        BY <2>5, <3>2 DEF Stands
      <4> QED
        BY <1>1, <2>3, <3>2, <4>1 DEF OneDogPerCell
    <3> QED
      BY <3>1, <3>2
  <2> QED
    BY <2>4, <2>7 DEF OneDogPerCell
<1>7. ASSUME NEW d \in Dog, Land(d) PROVE OnTrack' /\ OneDogPerCell'
  <2> DEFINE next == nextPos[d]
             l == IF next >= Finish THEN "arrived" ELSE "test"
  <2>1. /\ dogPc[d] = "land" /\ UNCHANGED nextPos
        /\ track' = [track EXCEPT ![next] = @ + 1] /\ pos' = [pos EXCEPT ![d] = next]
        /\ dogPc' = [dogPc EXCEPT ![d] = l]
    BY <1>7 DEF Land, DogGoto
  <2>2. next \in Cell /\ track[next] = 0 /\ pos[d] < next /\ next > 0
        /\ \A e \in Dog : Moving(e) /\ nextPos[e] = next => e = d
    <3>1. Moving(d) /\ next \in Cell /\ pos[d] \in Cell
      BY <1>1, <2>1 DEF Moving
    <3>2. pos[d] < next /\ track[next] = 0
          /\ \A e \in Dog : Moving(d) /\ Moving(e) /\ next = nextPos[e] => d = e
      BY <1>1, <3>1 DEF OnTrack
    <3>3. next \in Nat /\ pos[d] \in Nat
      BY <1>2, <3>1
    <3> HIDE DEF next
    <3> QED
      BY <3>1, <3>2, <3>3
  <2>3. \A e \in Dog : e # d => /\ dogPc'[e] = dogPc[e] /\ pos'[e] = pos[e]
                                /\ (Moving(e)' <=> Moving(e))
                                /\ \A c \in Cell : Stands(e, c)' <=> Stands(e, c)
    BY <1>1, <2>1 DEF Moving, Stands
  <2>4. pos'[d] = next /\ dogPc'[d] = l /\ ~Moving(d)'
    BY <1>1, <2>1 DEF Moving
  <2>5. \A c \in Cell : track'[c] = IF c = next THEN 1 ELSE track[c]
    BY <1>1, <2>1, <2>2
  <2>6. next >= Finish => next = Finish
    BY <2>2, CellFacts
  <2>7. OnTrack'
    <3>1. (dogPc'[d] \in Arrived => pos'[d] = Finish)
          /\ (dogPc'[d] \in {"test", "jump", "quit"} => pos'[d] < Finish)
      <4>1. CASE next >= Finish
        BY <2>4, <2>6, <4>1 DEF Arrived
      <4>2. CASE ~(next >= Finish)
        <5>1. next \in Nat /\ Finish \in Nat
          BY <1>2, <2>2
        <5> HIDE DEF next
        <5>2. next < Finish
          BY <4>2, <5>1
        <5> QED
          BY <2>4, <4>2, <5>2 DEF Arrived
      <4> QED
        BY <4>1, <4>2
    <3> HIDE DEF l
    <3> QED
      BY <1>1, <2>1, <2>2, <2>3, <2>4, <2>5, <3>1 DEF OnTrack, Arrived
  <2>8. \A c \in Cell : Stands(d, c)' <=> c = next
    BY <2>2, <2>4 DEF Stands
  <2>9. \A c \in Cell : ~Stands(d, c)
    BY <2>1 DEF Stands
  <2> HIDE DEF l, next
  <2>10. ASSUME NEW c \in Cell \ {0}
         PROVE  /\ track'[c] \in {0, 1}
                /\ track'[c] = 1 <=> \E e \in Dog : Stands(e, c)'
                /\ \A e, f \in Dog : Stands(e, c)' /\ Stands(f, c)' => e = f
    <3>1. CASE c = next
      <4>1. \A e \in Dog : ~Stands(e, c)
        BY <1>1, <2>2, <3>1 DEF OneDogPerCell
      <4> QED
        BY <2>3, <2>5, <2>8, <3>1, <4>1
    <3>2. CASE c # next
      <4>1. \A e \in Dog : Stands(e, c)' <=> Stands(e, c)
        BY <2>3, <2>8, <2>9, <3>2
      <4> QED
        BY <1>1, <2>5, <3>2, <4>1 DEF OneDogPerCell
    <3> QED
      BY <3>1, <3>2
  <2> QED
    BY <2>7, <2>10 DEF OneDogPerCell
<1>8. ASSUME NEW d \in Dog, LeaveTrack(d) PROVE OnTrack' /\ OneDogPerCell'
  <2>1. /\ dogPc[d] = "arrived" /\ CellFree(pos[d]) /\ UNCHANGED <<pos, nextPos>>
        /\ track' = [track EXCEPT ![pos[d]] = @ - 1] /\ dogPc' = [dogPc EXCEPT ![d] = "look"]
    BY <1>8 DEF LeaveTrack, DogGoto
  <2>2. \A e \in Dog : (Moving(e)' <=> Moving(e)) /\ (Moving(e) => nextPos[e] # pos[d])
    BY <1>1, <2>1 DEF Moving, CellFree
  <2>3. \A c \in Cell : track'[c] = IF c = pos[d] THEN track[c] - 1 ELSE track[c]
    BY <1>1, <2>1
  <2>4. OnTrack'
    BY <1>1, <2>1, <2>2, <2>3 DEF OnTrack, Arrived
  <2>5. \A e \in Dog, c \in Cell : Stands(e, c)' <=> Stands(e, c) /\ e # d
    BY <1>1, <2>1 DEF Stands
  <2>6. Stands(d, pos[d])
    BY <2>1 DEF Stands
  <2>7. ASSUME NEW c \in Cell \ {0}
        PROVE  /\ track'[c] \in {0, 1}
               /\ track'[c] = 1 <=> \E e \in Dog : Stands(e, c)'
               /\ \A e, f \in Dog : Stands(e, c)' /\ Stands(f, c)' => e = f
    <3>1. CASE c = pos[d]
      <4>1. track[c] = 1 /\ \A e \in Dog : Stands(e, c) => e = d
        BY <1>1, <2>6, <3>1 DEF OneDogPerCell
      <4> QED
        BY <2>3, <2>5, <3>1, <4>1
    <3>2. CASE c # pos[d]
      <4>1. \A e \in Dog : Stands(e, c)' <=> Stands(e, c)
        BY <2>5, <3>2 DEF Stands
      <4> QED
        BY <1>1, <2>3, <3>2, <4>1 DEF OneDogPerCell
    <3> QED
      BY <3>1, <3>2
  <2> QED
    BY <2>4, <2>7 DEF OneDogPerCell
<1>9. CASE EndRace \/ JoinDogs \/ QuitRace \/ UNCHANGED raceVars
  <2>1. UNCHANGED <<dogPc, pos, nextPos, track>>
    BY <1>9 DEF EndRace, JoinDogs, QuitRace, raceVars, runVars
  <2> QED
    BY <1>1, <2>1 DEF OnTrack, OneDogPerCell, Stands, Moving
<1> QED
  BY <1>4, <1>5, <1>6, <1>7, <1>8, <1>9 DEF DogNext, DogStep

-----------------------------------------------------------------------------
\* The inductive invariant of the race, of which the others are conjuncts.
THEOREM RaceInvariance == RaceSpec => []RaceIInv
<1>1. RaceIInv /\ [DogNext]_raceVars => RaceIInv'
  BY DogsCountedStep, RaceTypeStep, TrackStep, PodiumStep, PrintedStep DEF RaceIInv
<1> QED
  BY RaceInitHolds, <1>1, PTL DEF RaceSpec

\* Variables keep their types, and the count of arrivals never exceeds the dogs.
THEOREM RaceTypeCorrect == RaceSpec => []RaceTypeOK
<1>1. RaceIInv => RaceTypeOK
  BY DEF RaceIInv
<1> QED
  BY RaceInvariance, <1>1, PTL

\* No two dogs ever stand on one cell beyond the start, and the track shows
\* exactly the dogs that stand (DogRun, under mutexes of single cells).
THEOREM OneDogPerCellHolds == RaceSpec => []OneDogPerCell
<1>1. RaceIInv => OneDogPerCell
  BY DEF RaceIInv
<1> QED
  BY RaceInvariance, <1>1, PTL

\* The podium is filled in order, with different dogs that have arrived, though
\* the places are looked at outside the mutex.
THEOREM PodiumFairHolds == RaceSpec => []PodiumFair
<1>1. RaceIInv => PodiumFair
  BY DEF RaceIInv
<1> QED
  BY RaceInvariance, <1>1, PTL

\* The podium main prints does not change any more.
THEOREM PodiumIsFinalHolds == RaceSpec => []PodiumIsFinal
<1>1. RaceIInv => PodiumIsFinal
  BY DEF RaceIInv
<1> QED
  BY RaceInvariance, <1>1, PTL

-----------------------------------------------------------------------------
(* zad1/etap5: counting with threads                                      *)

(* t has done with the L of now: it has counted it, or it knows it already.*)
HasCounted(t) == last_L[t] = L \/ (counterPc[t] = "keep" /\ current_L[t] = L)
HaveCounted == {t \in Counter : HasCounted(t)}

AtWork(t) == counterPc[t] \in {"divide", "say", "count"}

(* licznik is what main takes it for.                                      *)
Counts == licznik = Cardinality(HaveCounted)

(* How far a thread is: it lags behind L by one value at most.             *)
Follows ==
    \A t \in Counter :
        /\ counterPc[t] \in {"test", "read", "end"} => last_L[t] \in {L - 1, L}
        /\ AtWork(t) => current_L[t] = L /\ last_L[t] = L - 1
        /\ counterPc[t] = "keep" => /\ current_L[t] \in {L - 1, L}
                                    /\ last_L[t] \in {current_L[t] - 1, current_L[t]}

(* What a thread has to have said before it keeps a value.                 *)
SaidSoFar ==
    \A t \in Counter :
        /\ \A v \in Nat \ {0} : v <= last_L[t] /\ v % M[t] = 0 => <<t, v>> \in said
        /\ counterPc[t] = "say" => L % M[t] = 0
        /\ counterPc[t] = "count" /\ L % M[t] = 0 => <<t, L>> \in said
        /\ counterPc[t] = "keep" /\ current_L[t] > last_L[t] /\ current_L[t] % M[t] = 0
              => <<t, current_L[t]>> \in said

SaysTrue == \A x \in said : x[2] % M[x[1]] = 0

CounterIInv == CounterTypeOK /\ L # 0 /\ Counts /\ Follows /\ SaidSoFar /\ SaysTrue

-----------------------------------------------------------------------------
LEMMA CounterInitHolds == CounterInit => CounterIInv
<1> SUFFICES ASSUME CounterInit PROVE CounterIInv
  OBVIOUS
<1>1. HaveCounted = {} /\ Cardinality({}) = 0 /\ Cardinality(Counter) \in Nat
  BY CounterAssumption, FS_EmptySet, FS_CardinalityType
     DEF CounterInit, HaveCounted, HasCounted
<1>2. CounterTypeOK
  <2>1. licznik \in 0..Cardinality(Counter) /\ L \in Nat /\ said \in SUBSET (Counter \X Nat)
    BY <1>1 DEF CounterInit
  <2>2. /\ counterPc \in [Counter -> CounterPlace]
        /\ current_L \in [Counter -> Nat] /\ last_L \in [Counter -> Nat]
    BY DEF CounterInit, CounterPlace
  <2> QED
    BY <2>1, <2>2 DEF CounterInit, CounterTypeOK
<1> QED
  BY <1>1, <1>2 DEF CounterInit, CounterIInv, Counts, Follows, SaidSoFar, SaysTrue, AtWork

(* A step of a thread changes what that thread is at, and L stays.         *)
LEMMA ThreadTypes ==
  ASSUME CounterIInv, NEW t \in Counter, CounterStep(t)
  PROVE  /\ counterPc' \in [Counter -> CounterPlace]
         /\ current_L' \in [Counter -> Nat] /\ last_L' \in [Counter -> Nat]
         /\ said' \in SUBSET (Counter \X Nat)
         /\ UNCHANGED <<L, counting, stop>>
         /\ \A u \in Counter : u # t => /\ counterPc'[u] = counterPc[u]
                                        /\ current_L'[u] = current_L[u]
                                        /\ last_L'[u] = last_L[u]
<1>1. /\ counterPc \in [Counter -> CounterPlace] /\ L \in Nat
      /\ current_L \in [Counter -> Nat] /\ last_L \in [Counter -> Nat]
      /\ said \in SUBSET (Counter \X Nat)
  BY DEF CounterIInv, CounterTypeOK
<1>2. \A l \in CounterPlace : CounterGoto(t, l) =>
         /\ counterPc' \in [Counter -> CounterPlace]
         /\ \A u \in Counter : u # t => counterPc'[u] = counterPc[u]
  BY <1>1 DEF CounterGoto
<1>3. CASE TestStop(t)
  BY <1>1, <1>2, <1>3 DEF TestStop, CounterPlace
<1>4. CASE ReadL(t)
  BY <1>1, <1>2, <1>4 DEF ReadL, CounterPlace
<1>5. CASE Divide(t)
  BY <1>1, <1>2, <1>5 DEF Divide, CounterPlace
<1>6. CASE Say(t)
  BY <1>1, <1>2, <1>6 DEF Say, CounterPlace
<1>7. CASE CountValue(t)
  BY <1>1, <1>2, <1>7 DEF CountValue, CounterPlace
<1>8. CASE KeepL(t)
  BY <1>1, <1>2, <1>8 DEF KeepL, CounterPlace
<1> QED
  BY <1>3, <1>4, <1>5, <1>6, <1>7, <1>8 DEF CounterStep

LEMMA ThreadFollows ==
  ASSUME CounterIInv, NEW t \in Counter, CounterStep(t)
  PROVE  /\ Follows'
         /\ IF CountValue(t) THEN HasCounted(t)' /\ ~HasCounted(t)
                             ELSE HasCounted(t)' <=> HasCounted(t)
<1>1. /\ counterPc \in [Counter -> CounterPlace] /\ L \in Nat /\ L # 0
      /\ current_L \in [Counter -> Nat] /\ last_L \in [Counter -> Nat] /\ Follows
  BY DEF CounterIInv, CounterTypeOK
<1>2. /\ UNCHANGED L
      /\ \A u \in Counter : u # t => /\ counterPc'[u] = counterPc[u]
                                     /\ current_L'[u] = current_L[u]
                                     /\ last_L'[u] = last_L[u]
  BY ThreadTypes
<1> DEFINE P == /\ counterPc[t] \in {"test", "read", "end"} => last_L[t] \in {L - 1, L}
                /\ AtWork(t) => current_L[t] = L /\ last_L[t] = L - 1
                /\ counterPc[t] = "keep" => /\ current_L[t] \in {L - 1, L}
                                            /\ last_L[t] \in {current_L[t] - 1, current_L[t]}
           H == IF CountValue(t) THEN HasCounted(t)' /\ ~HasCounted(t)
                                 ELSE HasCounted(t)' <=> HasCounted(t)
<1>3. P
  BY <1>1 DEF Follows
<1>4. P' /\ H
  <2>1. CASE TestStop(t)
    BY <1>1, <1>3, <2>1 DEF TestStop, CounterGoto, AtWork, HasCounted, CountValue
  <2>2. CASE ReadL(t)
    <3>1. counterPc[t] = "read" /\ current_L'[t] = L /\ UNCHANGED <<L, last_L>>
          /\ counterPc'[t] = IF L > last_L[t] THEN "divide" ELSE "keep"
      BY <1>1, <2>2 DEF ReadL, CounterGoto
    <3>2. last_L[t] \in {L - 1, L} /\ last_L[t] \in Nat /\ (L > last_L[t] <=> last_L[t] = L - 1)
      BY <1>1, <1>3, <3>1
    <3> QED
      BY <1>1, <3>1, <3>2 DEF AtWork, HasCounted, CountValue
  <2>3. CASE Divide(t) \/ Say(t)
    <3>1. AtWork(t) /\ AtWork(t)' /\ UNCHANGED <<L, last_L, current_L>> /\ ~CountValue(t)
      BY <1>1, <2>3 DEF Divide, Say, CounterGoto, AtWork, CountValue
    <3> QED
      BY <1>3, <3>1 DEF AtWork, HasCounted
  <2>4. CASE CountValue(t)
    <3>1. counterPc[t] = "count" /\ counterPc'[t] = "keep" /\ UNCHANGED <<L, last_L, current_L>>
      BY <1>1, <2>4 DEF CountValue, CounterGoto
    <3> QED
      BY <1>1, <1>3, <2>4, <3>1 DEF AtWork, HasCounted
  <2>5. CASE KeepL(t)
    <3>1. counterPc[t] = "keep" /\ counterPc'[t] = "test" /\ last_L'[t] = current_L[t]
          /\ UNCHANGED <<L, current_L>>
      BY <1>1, <2>5 DEF KeepL, CounterGoto
    <3>2. current_L[t] \in {L - 1, L} /\ last_L[t] \in {current_L[t] - 1, current_L[t]}
          /\ last_L[t] \in Nat /\ current_L[t] \in Nat
      BY <1>1, <1>3, <3>1
    <3>3. HasCounted(t) <=> current_L[t] = L
      BY <1>1, <3>1, <3>2 DEF HasCounted
    <3>4. HasCounted(t)' <=> current_L[t] = L
      BY <1>1, <3>1 DEF HasCounted
    <3> QED
      BY <3>1, <3>2, <3>3, <3>4 DEF AtWork, CountValue
  <2> QED
    BY <2>1, <2>2, <2>3, <2>4, <2>5 DEF CounterStep
<1> QED
  BY <1>1, <1>2, <1>4 DEF Follows, AtWork

LEMMA ThreadCounts ==
  ASSUME CounterIInv, NEW t \in Counter, CounterStep(t)
  PROVE  Counts'
<1>1. IsFiniteSet(HaveCounted) /\ Cardinality(HaveCounted) \in Nat
      /\ licznik = Cardinality(HaveCounted)
  BY CounterAssumption, FS_Subset, FS_CardinalityType DEF HaveCounted, CounterIInv, Counts
<1>2. \A u \in Counter : u # t => (HasCounted(u)' <=> HasCounted(u))
  BY ThreadTypes DEF HasCounted
<1>3. CASE CountValue(t)
  <2>1. HasCounted(t)' /\ ~HasCounted(t)
    BY <1>3, ThreadFollows
  <2>2. HaveCounted' = HaveCounted \cup {t} /\ t \notin HaveCounted
    BY <1>2, <2>1 DEF HaveCounted
  <2>3. Cardinality(HaveCounted') = Cardinality(HaveCounted) + 1
    BY <1>1, <2>2, FS_AddElement
  <2> QED
    BY <1>1, <1>3, <2>3 DEF Counts, CountValue
<1>4. CASE ~CountValue(t)
  <2>1. HasCounted(t)' <=> HasCounted(t)
    BY <1>4, ThreadFollows
  <2>2. HaveCounted' = HaveCounted
    BY <1>2, <2>1 DEF HaveCounted
  <2>3. licznik' = licznik
    BY <1>4 DEF CounterStep, TestStop, ReadL, Divide, Say, KeepL
  <2> QED
    BY <1>1, <2>2, <2>3 DEF Counts
<1> QED
  BY <1>3, <1>4

(* What t says is true, and t says it before it keeps the value.           *)
LEMMA ThreadSays ==
  ASSUME CounterIInv, NEW t \in Counter, CounterStep(t)
  PROVE  SaidSoFar' /\ SaysTrue'
<1>1. /\ counterPc \in [Counter -> CounterPlace] /\ L \in Nat
      /\ current_L \in [Counter -> Nat] /\ last_L \in [Counter -> Nat] /\ Follows
      /\ SaidSoFar /\ SaysTrue
  BY DEF CounterIInv, CounterTypeOK
<1>2. /\ UNCHANGED L
      /\ \A u \in Counter : u # t => /\ counterPc'[u] = counterPc[u]
                                     /\ current_L'[u] = current_L[u]
                                     /\ last_L'[u] = last_L[u]
  BY ThreadTypes
<1>3. said \subseteq said'
  BY DEF CounterStep, TestStop, ReadL, Divide, Say, CountValue, KeepL
<1> DEFINE Q(u) ==
      /\ \A v \in Nat \ {0} : v <= last_L[u] /\ v % M[u] = 0 => <<u, v>> \in said
      /\ counterPc[u] = "say" => L % M[u] = 0
      /\ counterPc[u] = "count" /\ L % M[u] = 0 => <<u, L>> \in said
      /\ counterPc[u] = "keep" /\ current_L[u] > last_L[u] /\ current_L[u] % M[u] = 0
            => <<u, current_L[u]>> \in said
<1>4. \A u \in Counter : Q(u)
  BY <1>1 DEF SaidSoFar
<1>5. \A u \in Counter : u # t => Q(u)'
  BY <1>2, <1>3, <1>4
<1>6. Q(t)' /\ SaysTrue'
  <2>1. CASE TestStop(t)
    BY <1>1, <1>4, <2>1 DEF TestStop, CounterGoto, SaysTrue
  <2>2. CASE ReadL(t)
    <3>1. counterPc'[t] \in {"divide", "keep"} /\ (counterPc'[t] = "keep" => ~(L > last_L[t]))
          /\ current_L'[t] = L /\ UNCHANGED <<last_L, said>>
      BY <1>1, <2>2 DEF ReadL, CounterGoto
    <3> QED
      BY <1>1, <1>4, <3>1 DEF SaysTrue
  <2>3. CASE Divide(t)
    <3>1. counterPc'[t] = (IF L % M[t] = 0 THEN "say" ELSE "count")
          /\ UNCHANGED <<L, last_L, current_L, said>>
      BY <1>1, <2>3 DEF Divide, CounterGoto
    <3> QED
      BY <1>1, <1>4, <3>1 DEF SaysTrue
  <2>4. CASE Say(t)
    <3>1. counterPc[t] = "say" /\ counterPc'[t] = "count" /\ said' = said \cup {<<t, L>>}
          /\ UNCHANGED <<L, last_L, current_L>>
      BY <1>1, <2>4 DEF Say, CounterGoto
    <3>2. L % M[t] = 0
      BY <1>4, <3>1
    <3>3. SaysTrue'
      BY <1>1, <3>1, <3>2 DEF SaysTrue
    <3> QED
      BY <1>4, <3>1, <3>3
  <2>5. CASE CountValue(t)
    <3>1. counterPc[t] = "count" /\ counterPc'[t] = "keep"
          /\ UNCHANGED <<L, last_L, current_L, said>>
      BY <1>1, <2>5 DEF CountValue, CounterGoto
    <3>2. current_L[t] = L
      BY <1>1, <3>1 DEF Follows, AtWork
    <3> QED
      BY <1>1, <1>4, <3>1, <3>2 DEF SaysTrue
  <2>6. CASE KeepL(t)
    <3>1. counterPc[t] = "keep" /\ counterPc'[t] = "test" /\ last_L'[t] = current_L[t]
          /\ UNCHANGED <<L, current_L, said>>
      BY <1>1, <2>6 DEF KeepL, CounterGoto
    <3>2. current_L[t] \in Nat /\ last_L[t] \in Nat
          /\ last_L[t] \in {current_L[t] - 1, current_L[t]}
      BY <1>1, <3>1 DEF Follows
    <3>3. \A v \in Nat \ {0} : v <= current_L[t] =>
             v <= last_L[t] \/ (v = current_L[t] /\ current_L[t] > last_L[t])
      BY <3>2
    <3>4. \A v \in Nat \ {0} : v <= current_L[t] /\ v % M[t] = 0 => <<t, v>> \in said
      BY <1>4, <3>1, <3>3
    <3> QED
      BY <1>1, <3>1, <3>4 DEF SaysTrue
  <2> QED
    BY <2>1, <2>2, <2>3, <2>4, <2>5, <2>6 DEF CounterStep
<1> QED
  BY <1>5, <1>6 DEF SaidSoFar

(* When main goes on, everybody has counted L, and nobody is at work on it.*)
LEMMA TickStep ==
  ASSUME CounterIInv, Tick
  PROVE  L' \in Nat /\ L' # 0 /\ Counts' /\ Follows' /\ SaidSoFar' /\ SaysTrue'
<1>1. /\ counterPc \in [Counter -> CounterPlace] /\ L \in Nat /\ L # 0
      /\ current_L \in [Counter -> Nat] /\ last_L \in [Counter -> Nat] /\ Follows
      /\ SaidSoFar /\ SaysTrue /\ Counts
      /\ UNCHANGED <<counterPc, current_L, last_L, said>>
  BY DEF CounterIInv, CounterTypeOK, Tick
<1>2. CASE UNCHANGED <<L, licznik>>
  BY <1>1, <1>2 DEF Counts, HaveCounted, HasCounted, Follows, AtWork, SaidSoFar, SaysTrue
<1>3. CASE licznik >= Cardinality(Counter) /\ licznik' = 0 /\ L' = L + 1
  <2>1. HaveCounted \subseteq Counter /\ Cardinality(HaveCounted) \in Nat
        /\ Cardinality(Counter) \in Nat /\ IsFiniteSet(Counter)
    BY CounterAssumption, FS_Subset, FS_CardinalityType DEF HaveCounted
  <2>2. HaveCounted = Counter
    BY <1>1, <1>3, <2>1, FS_Subset DEF Counts
  <2>3. \A t \in Counter : /\ HasCounted(t) /\ ~AtWork(t)
                           /\ counterPc[t] # "keep" => last_L[t] = L
                           /\ counterPc[t] = "keep" => current_L[t] = L
                           /\ last_L[t] <= L
    <3> SUFFICES ASSUME NEW t \in Counter
                 PROVE  /\ HasCounted(t) /\ ~AtWork(t)
                        /\ counterPc[t] # "keep" => last_L[t] = L
                        /\ counterPc[t] = "keep" => current_L[t] = L
                        /\ last_L[t] <= L
      OBVIOUS
    <3>1. HasCounted(t)
      BY <2>2 DEF HaveCounted
    <3>2. last_L[t] \in Nat /\ current_L[t] \in Nat
      BY <1>1
    <3> QED
      BY <1>1, <3>1, <3>2 DEF HasCounted, AtWork, Follows
  <2>4. Follows'
    BY <1>1, <1>3, <2>3 DEF Follows, AtWork, CounterPlace
  <2>5. \A t \in Counter : ~HasCounted(t)'
    BY <1>1, <1>3, <2>3 DEF HasCounted
  <2>6. HaveCounted' = {} /\ Cardinality({}) = 0
    BY <2>5, FS_EmptySet DEF HaveCounted
  <2>7. SaidSoFar' /\ SaysTrue'
    BY <1>1, <2>3 DEF SaidSoFar, SaysTrue, AtWork
  <2> QED
    BY <1>1, <1>3, <2>4, <2>6, <2>7 DEF Counts
<1> QED
  BY <1>2, <1>3 DEF Tick

LEMMA CounterNextHolds == CounterIInv /\ [CounterNext]_counterVars => CounterIInv'
<1> SUFFICES ASSUME CounterIInv, [CounterNext]_counterVars PROVE CounterIInv'
  OBVIOUS
<1>1. ASSUME NEW t \in Counter, CounterStep(t)
      PROVE  L' \in Nat /\ L' # 0 /\ Counts' /\ Follows' /\ SaidSoFar' /\ SaysTrue'
  BY <1>1, ThreadTypes, ThreadFollows, ThreadCounts, ThreadSays DEF CounterIInv, CounterTypeOK
<1>2. ASSUME \/ TestMainStop \/ JoinCounters \/ StopCounting \/ UNCHANGED counterVars
      PROVE  L' \in Nat /\ L' # 0 /\ Counts' /\ Follows' /\ SaidSoFar' /\ SaysTrue'
  <2>1. UNCHANGED <<L, licznik, counterPc, current_L, last_L, said>>
    BY <1>2 DEF TestMainStop, JoinCounters, StopCounting, counterVars
  <2> QED
    BY <2>1 DEF CounterIInv, CounterTypeOK, Counts, HaveCounted, HasCounted, Follows, AtWork, SaidSoFar,
                SaysTrue
<1>3. L' \in Nat /\ L' # 0 /\ Counts' /\ Follows' /\ SaidSoFar' /\ SaysTrue'
  BY <1>1, <1>2, TickStep DEF CounterNext
<1>4. licznik' \in 0..Cardinality(Counter)
  <2>1. HaveCounted' \subseteq Counter
    BY DEF HaveCounted
  <2>2. Cardinality(HaveCounted') \in Nat /\ Cardinality(Counter) \in Nat
        /\ Cardinality(HaveCounted') <= Cardinality(Counter)
    BY <2>1, CounterAssumption, FS_Subset, FS_CardinalityType
  <2> QED
    BY <1>3, <2>2 DEF Counts
<1>5. /\ counterPc' \in [Counter -> CounterPlace]
      /\ current_L' \in [Counter -> Nat] /\ last_L' \in [Counter -> Nat]
      /\ said' \in SUBSET (Counter \X Nat)
      /\ counting' \in {"test", "tick", "join", "over"} /\ stop' \in BOOLEAN
  <2>1. CASE \E t \in Counter : CounterStep(t)
    BY <2>1, ThreadTypes DEF CounterIInv, CounterTypeOK
  <2>2. CASE TestMainStop \/ Tick \/ JoinCounters \/ StopCounting \/ UNCHANGED counterVars
    BY <2>2 DEF CounterIInv, CounterTypeOK, TestMainStop, Tick, JoinCounters, StopCounting, counterVars
  <2> QED
    BY <2>1, <2>2 DEF CounterNext
<1> QED
  BY <1>3, <1>4, <1>5 DEF CounterIInv, CounterTypeOK

-----------------------------------------------------------------------------
\* The inductive invariant of the counter, from which the others follow.
THEOREM CounterInvariance == CounterSpec => []CounterIInv
BY CounterInitHolds, CounterNextHolds, PTL DEF CounterSpec

\* Variables keep their types, and licznik never exceeds the number of threads.
THEOREM CounterTypeCorrect == CounterSpec => []CounterTypeOK
<1>1. CounterIInv => CounterTypeOK
  BY DEF CounterIInv
<1> QED
  BY CounterInvariance, <1>1, PTL

\* No thread misses a value of L or is at work on an old one, though L is read
\* without a mutex: main's use of licznik protects it.
THEOREM NoValueMissedHolds == CounterSpec => []NoValueMissed
<1>1. ASSUME CounterIInv PROVE NoValueMissed
  <2> SUFFICES ASSUME NEW t \in Counter
               PROVE  /\ \/ last_L[t] \in {L - 1, L}
                         \/ counterPc[t] = "keep" /\ current_L[t] = L - 1
                      /\ AtWork(t) => current_L[t] = L
    BY DEF NoValueMissed, AtWork
  <2>1. counterPc[t] \in CounterPlace /\ L \in Nat /\ current_L[t] \in Nat /\ last_L[t] \in Nat
    BY <1>1 DEF CounterIInv, CounterTypeOK
  <2> QED
    BY <1>1, <2>1 DEF CounterIInv, Follows, AtWork, CounterPlace
<1> QED
  BY CounterInvariance, <1>1, PTL

\* What the threads print is true of every value printed, and complete up to the
\* last value each has kept.
THEOREM SaysWhatDividesHolds == CounterSpec => []SaysWhatDivides
<1>1. ASSUME CounterIInv PROVE SaysWhatDivides
  <2>1. \A v \in 1..L : v \in Nat \ {0}
    BY <1>1 DEF CounterIInv, CounterTypeOK
  <2>2. \A t \in Counter : \A v \in 1..L :
           v <= last_L[t] /\ v % M[t] = 0 => <<t, v>> \in said
    BY <1>1, <2>1 DEF CounterIInv, SaidSoFar
  <2> QED
    BY <1>1, <2>2 DEF CounterIInv, SaysTrue, SaysWhatDivides
<1> QED
  BY CounterInvariance, <1>1, PTL

-----------------------------------------------------------------------------
(* prog20: the years of students                                          *)

(* A student that studies is in one of the years, an engineer is past them.*)
YearsPlausible ==
    \A s \in Student : /\ studentPc[s] \in {"study", "pop"} => year[s] # 3
                       /\ studentPc[s] = "engineer" => year[s] = 3

YearsIInv == YearsTypeOK /\ YearsPlausible /\ YearCountersExact

-----------------------------------------------------------------------------
(* Sets of students are finite, and counting one in or out is plain.       *)
LEMMA CountIn ==
  ASSUME NEW S \in SUBSET Student, NEW s \in Student \ S
  PROVE  Cardinality(S \cup {s}) = Cardinality(S) + 1
BY StudentAssumption, FS_Subset, FS_AddElement

LEMMA CountOut ==
  ASSUME NEW S \in SUBSET Student, NEW s \in S
  PROVE  Cardinality(S \ {s}) = Cardinality(S) - 1
BY StudentAssumption, FS_Subset, FS_RemoveElement

LEMMA YearsInitHolds == YearsInit => YearsIInv
<1> SUFFICES ASSUME YearsInit PROVE YearsIInv
  OBVIOUS
<1>1. Cardinality(Student) \in Nat /\ Cardinality({}) = 0 /\ Student \ {} = Student
  BY StudentAssumption, FS_CardinalityType, FS_EmptySet
<1>2. \A y \in Year : InYear(y) = {}
  BY DEF YearsInit, InYear, Year
<1>3. YearsTypeOK
  BY <1>1 DEF YearsInit, YearsTypeOK, Year
<1>4. YearCountersExact
  BY <1>1, <1>2 DEF YearsInit, YearCountersExact
<1>5. YearsPlausible
  BY DEF YearsInit, YearsPlausible
<1> QED
  BY <1>3, <1>4, <1>5 DEF YearsIInv

-----------------------------------------------------------------------------
(* The students in each year after a step of one of them.                  *)
LEMMA EnterYearSets ==
  ASSUME YearsIInv, NEW s \in Student, EnterYear(s)
  PROVE  /\ s \notin InYear(year[s])
         /\ \A y \in Year : y = year[s] => InYear(y)' = InYear(y) \cup {s}
         /\ \A y \in Year : y # year[s] => InYear(y)' = InYear(y)
<1>1. /\ studentPc[s] = "enter" /\ year[s] \in Year /\ year' = year
      /\ studentPc' = [studentPc EXCEPT ![s] = IF year[s] = 3 THEN "engineer" ELSE "study"]
      /\ studentPc \in [Student -> {"enter", "study", "pop", "engineer", "out"}]
  BY DEF YearsIInv, YearsTypeOK, EnterYear, StudentGoto
<1> QED
  BY <1>1 DEF InYear, Year

LEMMA LeaveYearSets ==
  ASSUME YearsIInv, NEW s \in Student, Leave(s) \/ NextYear(s)
  PROVE  /\ s \in InYear(year[s])
         /\ \A y \in Year : y = year[s] => InYear(y)' = InYear(y) \ {s}
         /\ \A y \in Year : y # year[s] => InYear(y)' = InYear(y)
<1>1. /\ studentPc[s] \in {"study", "pop"} /\ year[s] \in Year /\ year[s] # 3
      /\ \A t \in Student \ {s} : studentPc'[t] = studentPc[t] /\ year'[t] = year[t]
      /\ studentPc'[s] \in {"enter", "out"}
  BY DEF YearsIInv, YearsTypeOK, YearsPlausible, Leave, NextYear, StudentGoto
<1> QED
  BY <1>1 DEF InYear, Year

(* A step of a student keeps the invariant.                                *)
LEMMA StudentIInv ==
  ASSUME YearsIInv, NEW s \in Student, StudentStep(s)
  PROVE  YearsIInv'
<1> USE DEF YearsIInv
<1>0. /\ year[s] \in Year /\ \A y \in Year : InYear(y) \in SUBSET Student
      /\ values \in [Year -> Int] /\ year \in [Student -> Year]
  BY DEF YearsTypeOK, InYear
<1>1. removed' = removed /\ present' = present /\ dean' = dean
  BY DEF StudentStep, EnterYear, FinishYear, Leave, NextYear
<1>2. CASE EnterYear(s)
  <2>1. YearsTypeOK' /\ YearsPlausible'
    BY <1>2, <1>0 DEF YearsTypeOK, YearsPlausible, EnterYear, StudentGoto, increment_counter, Year
  <2>2. \A y \in Year : values'[y] = Cardinality(InYear(y)')
    <3>1. /\ s \notin InYear(year[s])
          /\ \A y \in Year : y = year[s] => InYear(y)' = InYear(y) \cup {s}
          /\ \A y \in Year : y # year[s] => InYear(y)' = InYear(y)
      BY <1>2, EnterYearSets
    <3>2. Cardinality(InYear(year[s]) \cup {s}) = Cardinality(InYear(year[s])) + 1
      BY <1>0, <3>1, CountIn
    <3>3. values' = [values EXCEPT ![year[s]] = @ + 1]
      BY <1>2 DEF EnterYear, increment_counter
    <3>4. \A y \in Year : values[y] = Cardinality(InYear(y))
      BY DEF YearCountersExact
    <3> QED
      BY <1>0, <3>1, <3>2, <3>3, <3>4
  <2> QED
    BY <2>1, <2>2, <1>1 DEF YearCountersExact
<1>3. CASE FinishYear(s)
  <2>1. YearsTypeOK' /\ YearsPlausible' /\ values' = values
    BY <1>3, <1>0 DEF YearsTypeOK, YearsPlausible, FinishYear, StudentGoto
  <2>2. \A y \in Year : InYear(y)' = InYear(y)
    BY <1>3, <1>0 DEF FinishYear, InYear, StudentGoto, YearsTypeOK
  <2> QED
    BY <2>1, <2>2, <1>1 DEF YearCountersExact
<1>4. CASE Leave(s) \/ NextYear(s)
  <2>1. YearsTypeOK' /\ YearsPlausible'
    <3>1. year[s] # 3
      BY <1>4, <1>0 DEF YearsPlausible, Leave, NextYear
    <3>2. year' \in [Student -> Year]
      BY <1>4, <1>0, <3>1 DEF Leave, NextYear, Year
    <3> QED
      BY <1>4, <1>0, <3>1, <3>2 DEF YearsTypeOK, YearsPlausible, Leave, NextYear, StudentGoto,
                                    decrement_counter
  <2>2. \A y \in Year : values'[y] = Cardinality(InYear(y)')
    <3>1. /\ s \in InYear(year[s])
          /\ \A y \in Year : y = year[s] => InYear(y)' = InYear(y) \ {s}
          /\ \A y \in Year : y # year[s] => InYear(y)' = InYear(y)
      BY <1>4, LeaveYearSets
    <3>2. Cardinality(InYear(year[s]) \ {s}) = Cardinality(InYear(year[s])) - 1
      BY <1>0, <3>1, CountOut
    <3>3. values' = [values EXCEPT ![year[s]] = @ - 1]
      BY <1>4 DEF Leave, NextYear, decrement_counter
    <3>4. \A y \in Year : values[y] = Cardinality(InYear(y))
      BY DEF YearCountersExact
    <3> QED
      BY <1>0, <3>1, <3>2, <3>3, <3>4
  <2> QED
    BY <2>1, <2>2, <1>1 DEF YearCountersExact
<1> QED
  BY <1>2, <1>3, <1>4 DEF StudentStep

(* So does a step of main.                                                 *)
LEMMA MainIInv ==
  ASSUME YearsIInv, kick_student \/ EndKicking \/ JoinStudents
  PROVE  YearsIInv'
<1> USE DEF YearsIInv
<1>1. /\ values' = values /\ studentPc' = studentPc /\ year' = year
      /\ YearsPlausible' /\ \A y \in Year : InYear(y)' = InYear(y)
  BY DEF kick_student, EndKicking, JoinStudents, studentVars, YearsPlausible, InYear
<1>2. YearsTypeOK' /\ present' = Cardinality(Student \ removed')
  <2>1. CASE kick_student
    <3>1. PICK s \in Student \ removed : removed' = removed \cup {s}
      BY <2>1 DEF kick_student
    <3>2. Student \ removed' = (Student \ removed) \ {s}
      BY <3>1
    <3>3. Cardinality(Student \ removed') = Cardinality(Student \ removed) - 1
      BY <3>2, CountOut
    <3> QED
      BY <2>1, <3>1, <3>3 DEF kick_student, studentVars, YearsTypeOK, YearCountersExact
  <2>2. CASE EndKicking \/ JoinStudents
    BY <2>2 DEF EndKicking, JoinStudents, studentVars, YearsTypeOK, YearCountersExact
  <2> QED
    BY <2>1, <2>2
<1> QED
  BY <1>1, <1>2 DEF YearCountersExact

LEMMA YearsNextHolds == YearsIInv /\ [YearsNext]_yearsVars => YearsIInv'
<1> SUFFICES ASSUME YearsIInv, [YearsNext]_yearsVars PROVE YearsIInv'
  OBVIOUS
<1>1. CASE YearsNext
  BY <1>1, StudentIInv, MainIInv DEF YearsNext
<1>2. CASE UNCHANGED yearsVars
  <2>1. \A y \in Year : InYear(y)' = InYear(y)
    BY <1>2 DEF yearsVars, studentVars, InYear
  <2> QED
    BY <1>2, <2>1 DEF yearsVars, studentVars, YearsIInv, YearsTypeOK, YearsPlausible, YearCountersExact
<1> QED
  BY <1>1, <1>2

(* Each counter is the number of students in that year, wherever in its    *)
(* life a student is cancelled, and present is the number of those that    *)
(* may still be kicked out.                                                *)
THEOREM YearCountersExactHolds == YearsSpec => []YearCountersExact
<1>1. YearsIInv => YearCountersExact
  BY DEF YearsIInv
<1> QED
  BY <1>1, YearsInitHolds, YearsNextHolds, PTL DEF YearsSpec

(* The variables keep their types.                                         *)
THEOREM YearsTypeCorrect == YearsSpec => []YearsTypeOK
<1>1. YearsIInv => YearsTypeOK
  BY DEF YearsIInv
<1> QED
  BY <1>1, YearsInitHolds, YearsNextHolds, PTL DEF YearsSpec

-----------------------------------------------------------------------------
(* prog19: the array                                                       *)

ArrayIInv ==
    /\ ArrayTypeOK /\ PrintedAtOnce
    /\ arrayCount = Cardinality(items)
    /\ mxArrayHeld <=> printer = "print"

LEMMA ArrayInitHolds == ArrayInit => ArrayIInv
<1> SUFFICES ASSUME ArrayInit PROVE ArrayIInv
  OBVIOUS
<1>1. ArraySize \in Nat /\ 1 \in 1..(ArraySize + 1) /\ ArraySize \in 0..ArraySize
  BY ArrayAssumption
<1>2. Cardinality(1..ArraySize) = ArraySize
  <2>1. 1 \in Int /\ ArraySize \in Int /\ 1 <= ArraySize
    BY ArrayAssumption
  <2>2. Cardinality(1..ArraySize) = IF 1 > ArraySize THEN 0 ELSE ArraySize - 1 + 1
    BY <2>1, FS_Interval
  <2> QED
    BY <2>1, <2>2
<1> QED
  BY <1>1, <1>2 DEF ArrayInit, ArrayIInv, ArrayTypeOK, PrintedAtOnce, Index

LEMMA ArrayNextHolds == ArrayIInv /\ [ArrayNext]_arrayVars => ArrayIInv'
<1> SUFFICES ASSUME ArrayIInv, [ArrayNext]_arrayVars PROVE ArrayIInv'
  OBVIOUS
<1>1. /\ ArrayTypeOK /\ PrintedAtOnce /\ arrayCount = Cardinality(items)
      /\ mxArrayHeld <=> printer = "print"
  BY DEF ArrayIInv
<1>2. ArraySize \in Nat
  BY ArrayAssumption
<1>3. IsFiniteSet(items)
  <2>1. IsFiniteSet(1..ArraySize)
    <3>1. 1 \in Int /\ ArraySize \in Int
      BY <1>2
    <3> QED
      BY <3>1, FS_Interval
  <2> QED
    BY <1>1, <2>1, FS_Subset DEF ArrayTypeOK, Index
<1>4. CASE TestQuitFlag
  <2>1. /\ UNCHANGED <<items, arrayCount, removerQuit, remover, keys>>
        /\ \/ printer' = "join" /\ UNCHANGED <<mxArrayHeld, nextItem, printedItems>>
           \/ printer' = "print" /\ mxArrayHeld' = TRUE /\ nextItem' = 1 /\ printedItems' = {}
        /\ printer = "test"
    BY <1>4 DEF TestQuitFlag
  <2>2. 1 \in 1..(ArraySize + 1) /\ 1..(1 - 1) = {}
    BY <1>2
  <2>3. ArrayTypeOK'
    BY <1>1, <2>1, <2>2 DEF ArrayTypeOK
  <2>4. PrintedAtOnce'
    BY <2>1, <2>2 DEF PrintedAtOnce
  <2>5. mxArrayHeld' <=> printer' = "print"
    BY <1>1, <2>1
  <2> QED
    BY <1>1, <2>1, <2>3, <2>4, <2>5 DEF ArrayIInv
<1>5. CASE PrintItem
  <2>1. /\ nextItem' = nextItem + 1 /\ printedItems' = printedItems \cup ({nextItem} \cap items)
        /\ nextItem <= ArraySize /\ printer = "print"
        /\ UNCHANGED <<items, arrayCount, mxArrayHeld, printer, removerQuit, remover, keys>>
    BY <1>5 DEF PrintItem
  <2>2. nextItem \in Nat \ {0} /\ nextItem' \in 1..(ArraySize + 1) /\ nextItem' - 1 = nextItem
    BY <1>1, <1>2, <2>1 DEF ArrayTypeOK
  <2>3. 1..nextItem = 1..(nextItem - 1) \cup {nextItem}
    BY <2>2
  <2>4. PrintedAtOnce'
    BY <1>1, <2>1, <2>2, <2>3 DEF PrintedAtOnce
  <2> QED
    BY <1>1, <2>1, <2>2, <2>4 DEF ArrayIInv, ArrayTypeOK
<1>6. CASE PrintDone \/ WakeUp \/ JoinRemover \/ PressKey \/ UNCHANGED arrayVars
  <2>1. UNCHANGED <<items, arrayCount, nextItem, printedItems, removerQuit, remover>>
    BY <1>6 DEF PrintDone, WakeUp, JoinRemover, PressKey, arrayVars
  <2>2. /\ \/ printer' \in {"sleep", "test", "exited"} /\ ~mxArrayHeld'
           \/ printer' = printer /\ mxArrayHeld' = mxArrayHeld
        /\ mxArrayHeld' \in BOOLEAN
    <3>1. CASE PrintDone
      BY <3>1 DEF PrintDone
    <3>2. CASE WakeUp \/ JoinRemover
      BY <1>1, <3>2 DEF WakeUp, JoinRemover, ArrayTypeOK
    <3>3. CASE PressKey \/ UNCHANGED arrayVars
      BY <1>1, <3>3 DEF PressKey, arrayVars, ArrayTypeOK
    <3> QED
      BY <1>6, <3>1, <3>2, <3>3
  <2>6. mxArrayHeld' <=> printer' = "print"
    BY <1>1, <2>2
  <2>3. keys' \subseteq {"SIGINT", "SIGQUIT"}
    BY <1>1, <1>6 DEF PrintDone, WakeUp, JoinRemover, PressKey, arrayVars, ArrayTypeOK
  <2>4. ArrayTypeOK'
    BY <1>1, <2>1, <2>2, <2>3 DEF ArrayTypeOK
  <2>5. PrintedAtOnce'
    BY <1>1, <2>1, <2>2 DEF PrintedAtOnce
  <2> QED
    BY <1>1, <2>1, <2>4, <2>5, <2>6 DEF ArrayIInv
<1>7. CASE Sigwait
  BY <1>1, <1>7 DEF Sigwait, ArrayIInv, ArrayTypeOK, PrintedAtOnce
\* removeItem takes an item away, and main is not printing.
<1>8. CASE removeItem
  <2>1. printer # "print" /\ remover' = "sigwait"
        /\ UNCHANGED <<mxArrayHeld, printer, nextItem, printedItems, removerQuit, keys>>
    BY <1>1, <1>8 DEF removeItem
  <2>2. CASE arrayCount > 0
    <3>1. PICK i \in items : items' = items \ {i} /\ arrayCount' = arrayCount - 1
      BY <1>8, <2>2 DEF removeItem
    <3>2. Cardinality(items \ {i}) = Cardinality(items) - 1
      BY <1>3, FS_RemoveElement
    <3>3. arrayCount' \in 0..ArraySize
      BY <1>1, <1>2, <2>2, <3>1 DEF ArrayTypeOK
    <3> QED
      BY <1>1, <2>1, <3>1, <3>2, <3>3 DEF ArrayIInv, ArrayTypeOK, PrintedAtOnce
  <2>3. CASE ~(arrayCount > 0)
    BY <1>1, <1>8, <2>1, <2>3 DEF removeItem, ArrayIInv, ArrayTypeOK, PrintedAtOnce
  <2> QED
    BY <2>2, <2>3
<1> QED
  BY <1>4, <1>5, <1>6, <1>7, <1>8 DEF ArrayNext, PrinterStep, RemoverStep

\* prog19.c: arrayCount is the number of items left, and what the printer has
\* printed so far is the beginning of one and the same array.
THEOREM ArrayInvariance == ArraySpec => []ArrayIInv
  BY ArrayInitHolds, ArrayNextHolds, PTL DEF ArraySpec

-----------------------------------------------------------------------------
(* prog18: balls and bins                                                  *)

(* Balls in the hands of threads, and in bins but not yet counted.         *)
InHand == {t \in Thrower : thrower[t] = "throw"}
Uncounted == {t \in Thrower : thrower[t] = "count"}
Landed == ballsThrown + Cardinality(Uncounted)

(* The balls that landed are numbered; at says in which bin each is.       *)
BallsIn(at, B) == {i \in DOMAIN at : at[i] \in B}
BinsOf(at) == \A b \in Bin : bins[b] = Cardinality(BallsIn(at, {b}))
SumOf(at) ==
    realBallsCount = Cardinality(BallsIn(at, IF ballsMain = "printed" THEN Bin ELSE 0..(nextBin - 1)))

BallsLand == \E at \in [1..Landed -> Bin] : BinsOf(at) /\ SumOf(at)

BallsIInv ==
    /\ BallsTypeOK /\ BallsLand
    /\ ballsWaiting + Cardinality(InHand) + Landed = BallsCount
    /\ ballsMain = "watch" => nextBin = 0
    /\ ballsMain # "watch" => ballsThrown = BallsCount

LEMMA Throwers ==
  ASSUME NEW S \in SUBSET Thrower
  PROVE  /\ IsFiniteSet(S) /\ Cardinality(S) \in Nat
         /\ \A t \in Thrower \ S : Cardinality(S \cup {t}) = Cardinality(S) + 1
         /\ \A t \in S : Cardinality(S \ {t}) = Cardinality(S) - 1 /\ Cardinality(S) > 0
<1>1. IsFiniteSet(S) /\ Cardinality(S) \in Nat
  BY BallAssumption, FS_Subset, FS_CardinalityType
<1>2. \A t \in Thrower \ S : Cardinality(S \cup {t}) = Cardinality(S) + 1
  BY <1>1, FS_AddElement
<1>3. \A t \in S : Cardinality(S \ {t}) = Cardinality(S) - 1
  BY <1>1, FS_RemoveElement
<1>4. \A t \in S : Cardinality(S \ {t}) \in Nat
  BY BallAssumption, FS_Subset, FS_CardinalityType
<1> QED
  BY <1>1, <1>2, <1>3, <1>4

LEMMA BallNumbers ==
  BallsIInv => /\ ballsWaiting \in Nat /\ ballsThrown \in Nat /\ Cardinality(InHand) \in Nat
               /\ Cardinality(Uncounted) \in Nat /\ Landed \in Nat /\ Landed <= BallsCount
               /\ BallsCount \in Nat \ {0} /\ BIN_COUNT \in Nat \ {0}
<1> SUFFICES ASSUME BallsIInv
             PROVE  /\ ballsWaiting \in Nat /\ ballsThrown \in Nat /\ Cardinality(InHand) \in Nat
                    /\ Cardinality(Uncounted) \in Nat /\ Landed \in Nat /\ Landed <= BallsCount
                    /\ BallsCount \in Nat \ {0} /\ BIN_COUNT \in Nat \ {0}
  OBVIOUS
<1>1. BallsCount \in Nat \ {0} /\ BIN_COUNT \in Nat \ {0}
  BY BallAssumption
<1>2. ballsWaiting \in 0..BallsCount /\ ballsThrown \in 0..BallsCount
  BY DEF BallsIInv, BallsTypeOK
<1>3. Cardinality(InHand) \in Nat /\ Cardinality(Uncounted) \in Nat
  BY Throwers DEF InHand, Uncounted
<1>4. ballsWaiting + Cardinality(InHand) + Landed = BallsCount
  BY DEF BallsIInv
<1>5. Landed \in Nat
  BY <1>1, <1>2, <1>3 DEF Landed
<1> QED
  BY <1>1, <1>2, <1>3, <1>4, <1>5

(* A set of balls that landed is finite, and no larger than all of them.   *)
LEMMA BallSets ==
  ASSUME NEW n \in Nat, NEW at \in [1..n -> Bin], NEW B
  PROVE  /\ IsFiniteSet(BallsIn(at, B)) /\ Cardinality(BallsIn(at, B)) \in 0..n
         /\ Cardinality(BallsIn(at, Bin)) = n
<1>1. IsFiniteSet(1..n) /\ Cardinality(1..n) = n
  <2>1. 1 \in Int /\ n \in Int
    OBVIOUS
  <2>2. IsFiniteSet(1..n) /\ Cardinality(1..n) = IF 1 > n THEN 0 ELSE n - 1 + 1
    BY <2>1, FS_Interval
  <2> QED
    BY <2>2
<1>2. BallsIn(at, B) \subseteq 1..n
  BY DEF BallsIn
<1>3. IsFiniteSet(BallsIn(at, B)) /\ Cardinality(BallsIn(at, B)) <= Cardinality(1..n)
  BY <1>1, <1>2, FS_Subset
<1>4. Cardinality(BallsIn(at, B)) \in Nat
  BY <1>3, FS_CardinalityType
<1>5. BallsIn(at, Bin) = 1..n
  BY DEF BallsIn
<1> QED
  BY <1>1, <1>3, <1>4, <1>5

LEMMA BallsInitHolds == BallsInit => BallsIInv
<1> SUFFICES ASSUME BallsInit PROVE BallsIInv
  OBVIOUS
<1>1. BallsCount \in Nat \ {0} /\ BIN_COUNT \in Nat \ {0}
  BY BallAssumption
<1>2. Cardinality({}) = 0
  BY FS_EmptySet
<1>3. InHand = {} /\ Uncounted = {}
  BY DEF BallsInit, InHand, Uncounted
<1>4. Landed = 0 /\ Cardinality(InHand) = 0
  BY <1>2, <1>3 DEF Landed, BallsInit
<1>5. BallsTypeOK
  <2>1. 0 \in Bin /\ 0 \in 0..BallsCount /\ BallsCount \in 0..BallsCount
    BY <1>1 DEF Bin
  <2> QED
    BY <2>1 DEF BallsInit, BallsTypeOK
<1>6. BallsLand
  <2> DEFINE at == [i \in 1..Landed |-> 0]
  <2>1. at \in [1..Landed -> Bin]
    BY <1>1 DEF Bin
  <2>2. \A B : BallsIn(at, B) = {}
    BY <1>4 DEF BallsIn
  <2>3. BinsOf(at) /\ SumOf(at)
    BY <1>2, <2>2 DEF BallsInit, BinsOf, SumOf
  <2> QED
    BY <2>1, <2>3 DEF BallsLand
<1> QED
  BY <1>1, <1>4, <1>5, <1>6 DEF BallsInit, BallsIInv

\* A thread takes a ball, or counts one.
LEMMA BallTaken ==
  ASSUME BallsIInv, NEW t \in Thrower, TakeBall(t)
  PROVE  BallsIInv'
<1>1. /\ BallsTypeOK /\ BallsLand /\ ballsWaiting + Cardinality(InHand) + Landed = BallsCount
      /\ ballsMain = "watch" => nextBin = 0
      /\ ballsMain # "watch" => ballsThrown = BallsCount
  BY DEF BallsIInv
<1>2. thrower[t] = "take" /\ UNCHANGED <<ballsThrown, bins, ballsMain, nextBin, realBallsCount>>
  BY DEF TakeBall
<1>3. PICK l \in {"throw", "end"} :
        /\ thrower' = [thrower EXCEPT ![t] = l]
        /\ l = "throw" => ballsWaiting > 0 /\ ballsWaiting' = ballsWaiting - 1
        /\ l = "end" => ballsWaiting' = ballsWaiting
  BY DEF TakeBall, ThrowerGoto
<1>4. thrower'[t] = l /\ \A v \in Thrower : v # t => thrower'[v] = thrower[v]
  BY <1>1, <1>3 DEF BallsTypeOK
<1>5. Uncounted' = Uncounted
  BY <1>2, <1>4 DEF Uncounted
<1>6. Landed' = Landed
  BY <1>2, <1>5 DEF Landed
<1>7. BallsLand'
  BY <1>1, <1>2, <1>6 DEF BallsLand, BinsOf, SumOf
<1>8. ballsWaiting' \in 0..BallsCount
  BY <1>1, <1>3, BallAssumption DEF BallsTypeOK
<1>9. BallsTypeOK'
  BY <1>1, <1>2, <1>3, <1>8 DEF BallsTypeOK
<1>10. ballsWaiting' + Cardinality(InHand') + Landed' = BallsCount
  <2>1. CASE l = "end"
    <3>1. InHand' = InHand
      BY <1>2, <1>4, <2>1 DEF InHand
    <3> QED
      BY <1>1, <1>3, <1>6, <2>1, <3>1
  <2>2. CASE l = "throw"
    <3>1. InHand' = InHand \cup {t} /\ t \in Thrower \ InHand /\ InHand \in SUBSET Thrower
      BY <1>2, <1>4, <2>2 DEF InHand
    <3>2. Cardinality(InHand') = Cardinality(InHand) + 1
      BY <3>1, Throwers
    <3> QED
      BY <1>1, <1>3, <1>6, <2>2, <3>2, BallNumbers
  <2> QED
    BY <2>1, <2>2
<1> QED
  BY <1>1, <1>2, <1>7, <1>9, <1>10 DEF BallsIInv

LEMMA BallCounted ==
  ASSUME BallsIInv, NEW t \in Thrower, CountBall(t)
  PROVE  BallsIInv'
<1>1. /\ BallsTypeOK /\ BallsLand /\ ballsWaiting + Cardinality(InHand) + Landed = BallsCount
      /\ ballsMain = "watch" => nextBin = 0
      /\ ballsMain # "watch" => ballsThrown = BallsCount
  BY DEF BallsIInv
<1>2. /\ thrower[t] = "count" /\ thrower' = [thrower EXCEPT ![t] = "take"]
      /\ ballsThrown' = ballsThrown + 1
      /\ UNCHANGED <<ballsWaiting, bins, ballsMain, nextBin, realBallsCount>>
  BY DEF CountBall, ThrowerGoto
<1>3. thrower'[t] = "take" /\ \A v \in Thrower : v # t => thrower'[v] = thrower[v]
  BY <1>1, <1>2 DEF BallsTypeOK
<1>4. InHand' = InHand
  BY <1>2, <1>3 DEF InHand
<1>5. Uncounted' = Uncounted \ {t} /\ t \in Uncounted /\ Uncounted \in SUBSET Thrower
  BY <1>2, <1>3 DEF Uncounted
<1>6. Cardinality(Uncounted') = Cardinality(Uncounted) - 1 /\ Cardinality(Uncounted) > 0
  BY <1>5, Throwers
<1>7. Landed' = Landed
  BY <1>2, <1>6, BallNumbers DEF Landed
<1>8. BallsLand'
  BY <1>1, <1>2, <1>7 DEF BallsLand, BinsOf, SumOf
<1>9. ballsThrown' \in 0..BallsCount /\ ballsThrown < BallsCount
  BY <1>2, <1>6, BallNumbers DEF Landed
<1>10. BallsTypeOK'
  BY <1>1, <1>2, <1>9 DEF BallsTypeOK
<1>11. ballsMain = "watch"
  BY <1>1, <1>9, BallNumbers
<1>12. ballsWaiting' + Cardinality(InHand') + Landed' = BallsCount
  BY <1>1, <1>2, <1>4, <1>7
<1> QED
  BY <1>1, <1>2, <1>8, <1>10, <1>11, <1>12 DEF BallsIInv

\* A ball lands: it is the next one, in some bin, while main does not sum.
LEMMA BallLands ==
  ASSUME BallsIInv, NEW t \in Thrower, ThrowBall(t)
  PROVE  BallsIInv'
<1>1. /\ BallsTypeOK /\ BallsLand /\ ballsWaiting + Cardinality(InHand) + Landed = BallsCount
      /\ ballsMain = "watch" => nextBin = 0
      /\ ballsMain # "watch" => ballsThrown = BallsCount
  BY DEF BallsIInv
<1>2. PICK b \in Bin : bins' = [bins EXCEPT ![b] = @ + 1]
  BY DEF ThrowBall
<1>3. /\ thrower[t] = "throw" /\ thrower' = [thrower EXCEPT ![t] = "count"]
      /\ UNCHANGED <<ballsWaiting, ballsThrown, ballsMain, nextBin, realBallsCount>>
  BY DEF ThrowBall, ThrowerGoto
<1>4. thrower'[t] = "count" /\ \A v \in Thrower : v # t => thrower'[v] = thrower[v]
  BY <1>1, <1>3 DEF BallsTypeOK
<1>5. /\ InHand' = InHand \ {t} /\ t \in InHand /\ InHand \in SUBSET Thrower
      /\ Uncounted' = Uncounted \cup {t} /\ t \in Thrower \ Uncounted /\ Uncounted \in SUBSET Thrower
  BY <1>3, <1>4 DEF InHand, Uncounted
<1>6. /\ Cardinality(InHand') = Cardinality(InHand) - 1 /\ Cardinality(InHand) > 0
      /\ Cardinality(Uncounted') = Cardinality(Uncounted) + 1
  BY <1>5, Throwers
<1>7. PICK n \in Nat : n = Landed /\ Landed' = n + 1 /\ n < BallsCount
  BY <1>1, <1>3, <1>6, BallNumbers DEF Landed
<1>8. ballsWaiting' + Cardinality(InHand') + Landed' = BallsCount
  BY <1>1, <1>3, <1>6, <1>7, BallNumbers
<1>9. ballsMain = "watch" /\ nextBin = 0
  BY <1>1, <1>6, BallNumbers DEF Landed
<1>10. PICK at \in [1..n -> Bin] : BinsOf(at) /\ SumOf(at)
  BY <1>1, <1>7 DEF BallsLand
<1>11. PICK on \in [1..(n + 1) -> Bin] : on[n + 1] = b /\ \A i \in 1..n : on[i] = at[i]
  <2> DEFINE f == [i \in 1..(n + 1) |-> IF i = n + 1 THEN b ELSE at[i]]
  <2>1. f \in [1..(n + 1) -> Bin] /\ f[n + 1] = b /\ \A i \in 1..n : f[i] = at[i]
    BY <1>7
  <2> QED
    BY <2>1
<1>12. DOMAIN on = 1..(n + 1) /\ DOMAIN at = 1..n /\ n + 1 \notin 1..n
       /\ 1..(n + 1) = (1..n) \cup {n + 1}
  BY <1>7
<1>13. BallsIn(on, {b}) = BallsIn(at, {b}) \cup {n + 1} /\ n + 1 \notin BallsIn(at, {b})
  BY <1>11, <1>12 DEF BallsIn
<1>14. Cardinality(BallsIn(on, {b})) = Cardinality(BallsIn(at, {b})) + 1
  <2> DEFINE S == BallsIn(at, {b})
  <2>1. IsFiniteSet(S) /\ n + 1 \notin S
    BY <1>13, BallSets
  <2> HIDE DEF S
  <2>2. Cardinality(S \cup {n + 1}) = Cardinality(S) + 1
    BY <2>1, FS_AddElement
  <2> QED
    BY <1>13, <2>2 DEF S
<1>15. \A c \in Bin \ {b} : BallsIn(on, {c}) = BallsIn(at, {c})
  BY <1>11, <1>12 DEF BallsIn
<1>16. /\ bins'[b] = bins[b] + 1
       /\ \A c \in Bin \ {b} : bins'[c] = bins[c]
  BY <1>1, <1>2 DEF BallsTypeOK
<1>17. BinsOf(on)'
  BY <1>10, <1>14, <1>15, <1>16 DEF BinsOf
<1>18. SumOf(on)'
  <2>1. 0..(nextBin - 1) = {}
    BY <1>9
  <2>2. BallsIn(on, 0..(nextBin - 1)) = {} /\ BallsIn(at, 0..(nextBin - 1)) = {}
    BY <2>1 DEF BallsIn
  <2> QED
    BY <1>3, <1>9, <1>10, <2>2 DEF SumOf
<1>19. BallsLand'
  BY <1>7, <1>11, <1>17, <1>18 DEF BallsLand
<1>20. BallsTypeOK'
  <2>1. bins'[b] \in 0..(n + 1)
    <3>1. n + 1 \in Nat
      OBVIOUS
    <3>2. Cardinality(BallsIn(on, {b})) \in 0..(n + 1)
      BY <3>1, BallSets
    <3> QED
      BY <1>17, <3>2 DEF BinsOf
  <2>2. bins'[b] \in 0..BallsCount
    BY <1>7, <2>1, BallNumbers
  <2>3. bins' \in [Bin -> 0..BallsCount]
    BY <1>1, <1>2, <1>16, <2>2 DEF BallsTypeOK
  <2> QED
    BY <1>1, <1>3, <2>3 DEF BallsTypeOK
<1> QED
  BY <1>1, <1>3, <1>8, <1>9, <1>19, <1>20 DEF BallsIInv

\* main adds a bin, of which no ball is missing any more.
LEMMA BinSummed == BallsIInv /\ SumBin => BallsIInv'
<1> SUFFICES ASSUME BallsIInv, SumBin PROVE BallsIInv'
  OBVIOUS
<1> DEFINE n == Landed  k == nextBin
<1>1. /\ BallsTypeOK /\ BallsLand /\ ballsWaiting + Cardinality(InHand) + Landed = BallsCount
      /\ ballsMain # "watch" => ballsThrown = BallsCount
  BY DEF BallsIInv
<1>2. /\ ballsMain = "sum" /\ realBallsCount' = realBallsCount + bins[k]
      /\ UNCHANGED <<ballsWaiting, ballsThrown, bins, thrower>>
      /\ \/ k < BIN_COUNT - 1 /\ nextBin' = k + 1 /\ ballsMain' = "sum"
         \/ ~(k < BIN_COUNT - 1) /\ ballsMain' = "printed" /\ nextBin' = k
  BY DEF SumBin, throwVars
<1>3. k \in Nat /\ k \in Bin /\ BIN_COUNT \in Nat \ {0} /\ n \in Nat /\ n <= BallsCount
      /\ k <= BIN_COUNT - 1
  BY <1>1, BallNumbers DEF BallsTypeOK, Bin
<1>4. InHand' = InHand /\ Landed' = n
  BY <1>2 DEF InHand, Landed, Uncounted
<1>5. PICK at \in [1..n -> Bin] : BinsOf(at) /\ SumOf(at)
  BY <1>1 DEF BallsLand
<1> HIDE DEF n
<1>6. 0..((k + 1) - 1) = 0..(k - 1) \cup {k} /\ k \notin 0..(k - 1)
  BY <1>3
<1>7. BallsIn(at, 0..((k + 1) - 1)) = BallsIn(at, 0..(k - 1)) \cup BallsIn(at, {k})
  BY <1>6 DEF BallsIn
<1>8. BallsIn(at, 0..(k - 1)) \cap BallsIn(at, {k}) = {}
  BY <1>6 DEF BallsIn
<1>9. Cardinality(BallsIn(at, 0..((k + 1) - 1))) =
        Cardinality(BallsIn(at, 0..(k - 1))) + Cardinality(BallsIn(at, {k})) - Cardinality({})
  <2> DEFINE S == BallsIn(at, 0..(k - 1))  T == BallsIn(at, {k})
  <2>1. IsFiniteSet(S) /\ IsFiniteSet(T) /\ S \cap T = {}
    BY <1>3, <1>8, BallSets
  <2> HIDE DEF S, T
  <2>2. Cardinality(S \cup T) = Cardinality(S) + Cardinality(T) - Cardinality(S \cap T)
    BY <2>1, FS_Union
  <2> QED
    BY <1>7, <2>1, <2>2 DEF S, T
<1>10. realBallsCount' = Cardinality(BallsIn(at, 0..((k + 1) - 1)))
  <2>1. realBallsCount = Cardinality(BallsIn(at, 0..(k - 1))) /\ bins[k] = Cardinality(BallsIn(at, {k}))
    BY <1>2, <1>3, <1>5 DEF SumOf, BinsOf
  <2>2. Cardinality({}) = 0
    BY FS_EmptySet
  <2>3. Cardinality(BallsIn(at, 0..(k - 1))) \in Nat /\ Cardinality(BallsIn(at, {k})) \in Nat
    BY <1>3, BallSets
  <2> QED
    BY <1>2, <1>9, <2>1, <2>2, <2>3
<1>11. BinsOf(at)'
  BY <1>2, <1>5 DEF BinsOf
<1>12. SumOf(at)'
  <2>1. CASE k < BIN_COUNT - 1
    BY <1>2, <1>10, <2>1 DEF SumOf
  <2>2. CASE ~(k < BIN_COUNT - 1)
    <3>1. 0..((k + 1) - 1) = Bin
      BY <1>3, <2>2 DEF Bin
    <3> QED
      BY <1>2, <1>10, <2>2, <3>1 DEF SumOf
  <2> QED
    BY <2>1, <2>2
<1>13. BallsLand'
  BY <1>4, <1>11, <1>12 DEF BallsLand
<1>14. realBallsCount' \in 0..BallsCount
  <2>1. realBallsCount' \in 0..n
    BY <1>3, <1>10, BallSets
  <2> QED
    BY <1>3, <2>1, BallNumbers
<1>15. nextBin' \in Bin
  BY <1>2, <1>3 DEF Bin
<1>16. BallsTypeOK'
  BY <1>1, <1>2, <1>14, <1>15 DEF BallsTypeOK
<1>17. ballsWaiting' + Cardinality(InHand') + Landed' = BallsCount
  BY <1>1, <1>2, <1>4 DEF n
<1> QED
  BY <1>1, <1>2, <1>13, <1>16, <1>17 DEF BallsIInv

LEMMA BallsNextHolds == BallsIInv /\ [BallsNext]_ballVars => BallsIInv'
<1> SUFFICES ASSUME BallsIInv, [BallsNext]_ballVars PROVE BallsIInv'
  OBVIOUS
<1>1. /\ BallsTypeOK /\ BallsLand /\ ballsWaiting + Cardinality(InHand) + Landed = BallsCount
      /\ ballsMain = "watch" => nextBin = 0
      /\ ballsMain # "watch" => ballsThrown = BallsCount
  BY DEF BallsIInv
<1>2. CASE WatchBalls \/ UNCHANGED ballVars
  <2>1. /\ UNCHANGED <<ballsWaiting, ballsThrown, bins, thrower, nextBin, realBallsCount>>
        /\ \/ ballsMain = "watch" /\ ballsMain' = "sum" /\ ballsThrown >= BallsCount
           \/ ballsMain' = ballsMain
    BY <1>2 DEF WatchBalls, ballVars, throwVars
  <2>2. InHand' = InHand /\ Landed' = Landed
    BY <2>1 DEF InHand, Landed, Uncounted
  <2>3. \A at : BinsOf(at)' <=> BinsOf(at)
    BY <2>1 DEF BinsOf
  <2>4. \A at : SumOf(at)' <=> SumOf(at)
    BY <2>1 DEF SumOf
  <2>5. BallsLand'
    BY <1>1, <2>2, <2>3, <2>4 DEF BallsLand
  <2>6. BallsTypeOK'
    BY <1>1, <2>1 DEF BallsTypeOK
  <2>7. ballsMain' # "watch" => ballsThrown' = BallsCount
    BY <1>1, <2>1, BallNumbers DEF BallsTypeOK
  <2> QED
    BY <1>1, <2>1, <2>2, <2>5, <2>6, <2>7 DEF BallsIInv
<1> QED
  BY <1>2, BallTaken, BallLands, BallCounted, BinSummed DEF BallsNext, ThrowerStep

\* prog18.c: every ball that has landed lies in one bin, no ball is thrown
\* twice, and what main sums up once all have landed are all the balls.
THEOREM BallsInvariance == BallsSpec => []BallsIInv
  BY BallsInitHolds, BallsNextHolds, PTL DEF BallsSpec

\* Every ball has landed when main has summed.
LEMMA LandedIsTotal == BallsIInv => TotalIsBallsCount
<1> SUFFICES ASSUME BallsIInv, ballsMain = "printed" PROVE realBallsCount = BallsCount
  BY DEF TotalIsBallsCount
<1>1. PICK at \in [1..Landed -> Bin] : SumOf(at)
  BY DEF BallsIInv, BallsLand
<1>2. realBallsCount = Landed
  BY <1>1, BallNumbers, BallSets DEF SumOf
<1>3. ballsThrown = BallsCount
  BY DEF BallsIInv
<1> QED
  BY <1>2, <1>3, BallNumbers DEF Landed
=============================================================================
