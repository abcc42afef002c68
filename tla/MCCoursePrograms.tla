--------------------------- MODULE MCCoursePrograms ---------------------------
(***************************************************************************)
(* Programs of stopy2 (processes and signals) and stopy3 (threads and      *)
(* mutexes).  They share nothing with each other: a behaviour runs one of  *)
(* them, program; the variables of the others stay as they were.           *)
(***************************************************************************)
EXTENDS DogRace, SharedCounter, StudentYears, BallBins, ArrayRemover,
        CopyInParts, Kindergarten, AlarmBlocks, SignalTally, SignalBlocks, WorkInTurns,
        Office

VARIABLE program

MCDogs == {1, 2, 3}
MCCounters == 1..3
MCM == [t \in MCCounters |-> t]
MCSubordinates == [c \in Clerk |-> CASE c = "highest" -> <<"middle">>
                                     [] c = "middle" -> <<"lowest">>
                                     [] OTHER -> <<>>]

\* A program that does not run has one initial state.
Init ==
    /\ DogInit /\ CounterInit /\ YearsInit /\ BallsInit /\ ArrayInit
    /\ CopyInit /\ KindergartenInit /\ AlarmInit /\ TallyInit /\ BlocksInit
    /\ TurnsInit /\ OfficeInit
    /\ program \in {"dogs", "counter", "years", "balls", "array",
                    "copy", "kindergarten", "alarm", "tally", "blocks", "turns",
                    "office"}
    /\ program # "copy" => file_size = 0

threadVars == <<raceVars, counterVars, yearsVars, ballVars, arrayVars>>
processVars == <<copyVars, kindergartenVars, alarmVars, tallyVars, blocksVars, turnVars, officeVars>>
vars == <<threadVars, processVars, program>>

RunThreads ==
    \/ /\ program = "dogs" /\ DogNext
       /\ UNCHANGED <<counterVars, yearsVars, ballVars, arrayVars>>
    \/ /\ program = "counter" /\ CounterNext
       /\ UNCHANGED <<raceVars, yearsVars, ballVars, arrayVars>>
    \/ /\ program = "years" /\ YearsNext
       /\ UNCHANGED <<raceVars, counterVars, ballVars, arrayVars>>
    \/ /\ program = "balls" /\ BallsNext
       /\ UNCHANGED <<raceVars, counterVars, yearsVars, arrayVars>>
    \/ /\ program = "array" /\ ArrayNext
       /\ UNCHANGED <<raceVars, counterVars, yearsVars, ballVars>>

RunProcesses ==
    \/ /\ program = "copy" /\ CopyNext
       /\ UNCHANGED <<kindergartenVars, alarmVars, tallyVars, blocksVars, turnVars, officeVars>>
    \/ /\ program = "kindergarten" /\ KindergartenNext
       /\ UNCHANGED <<copyVars, alarmVars, tallyVars, blocksVars, turnVars, officeVars>>
    \/ /\ program = "alarm" /\ AlarmNext
       /\ UNCHANGED <<copyVars, kindergartenVars, tallyVars, blocksVars, turnVars, officeVars>>
    \/ /\ program = "tally" /\ TallyNext
       /\ UNCHANGED <<copyVars, kindergartenVars, alarmVars, blocksVars, turnVars, officeVars>>
    \/ /\ program = "blocks" /\ BlocksNext
       /\ UNCHANGED <<copyVars, kindergartenVars, alarmVars, tallyVars, turnVars, officeVars>>
    \/ /\ program = "turns" /\ TurnsNext
       /\ UNCHANGED <<copyVars, kindergartenVars, alarmVars, tallyVars, blocksVars, officeVars>>
    \/ /\ program = "office" /\ OfficeNext
       /\ UNCHANGED <<copyVars, kindergartenVars, alarmVars, tallyVars, blocksVars, turnVars>>

Next ==
    \/ RunThreads /\ UNCHANGED <<processVars, program>>
    \/ RunProcesses /\ UNCHANGED <<threadVars, program>>

\* What is assumed of the program that runs.
Fairness ==
    \/ program = "dogs" /\ RaceFairness
    \/ program = "counter" /\ CounterFairness
    \/ program \in {"years", "balls"}
    \/ program = "array" /\ ArrayFairness
    \/ program = "copy" /\ CopyFairness
    \/ program = "kindergarten" /\ KindergartenFairness
    \/ program = "alarm" /\ AlarmFairness
    \/ program = "tally" /\ TallyFairness
    \/ program = "blocks" /\ BlocksFairness
    \/ program = "turns" /\ TurnsFairness
    \/ program = "office" /\ OfficeFairness

Spec == Init /\ [][Next]_vars /\ Fairness

-----------------------------------------------------------------------------
\* Each variable holds a value its declaration allows: in particular no dog and
\* no thread is counted twice (dogsFinished, licznik).
TypeOK ==
    /\ RaceTypeOK /\ CounterTypeOK /\ YearsTypeOK /\ BallsTypeOK /\ ArrayTypeOK
    /\ CopyTypeOK /\ KindergartenTypeOK /\ AlarmTypeOK /\ TallyTypeOK /\ BlocksTypeOK
    /\ TurnsTypeOK /\ OfficeTypeOK

\* What main prints of data that threads change is exact: the total of the bins it
\* reads without their mutexes, and an array as it was at one moment.
PrintsWhatIsThere == TotalIsBallsCount /\ PrintedAtOnce

\* Signals merge on their way but never multiply, and every effect has its cause: an
\* illness a cough, a departure a parent or SIGTERM, a block its SIGUSR1, a report its
\* SIGUSR2; a block cut short by signals is copied whole; and the child whose turn it
\* is hears of it; and a document finds the superior it is passed on to.
SignalsHaveCauses ==
    IllnessHasCause /\ BlocksAsked /\ TallyExact /\ BlocksComplete
    /\ TurnNotLost /\ SuperiorsStay

\* Whichever program runs goes on: RaceEnds, CountsOrEnds, ArrayEnds, CopyEnds, DayEnds,
\* AlarmsHeard, TallyReported, BlocksEnd, TurnsEnd and OfficeCloses, put together in two
\* formulas, as TLC needs time for each.  Dogs leave the track, and main ends unless SIGINT
\* came; main counts on until SIGINT; SIGQUIT ends the array; no child misses the start
\* of the copying; the day in the kindergarten ends unless a child misses SIGTERM; the
\* writers end unless one misses its alarm; a SIGUSR2 is reported; the parent that
\* copies blocks ends, and its child, unless it may signal others; the processes that work
\* in turns end, once SIGINT was passed on, unless one stays for ever, and those of the office.
ProgramsGoOn ==
    /\ <>(CASE program = "dogs" -> RaceOver
            [] program = "counter" -> CountedAll
            [] program = "copy" -> CopyOver
            [] program = "kindergarten" -> DayOver
            [] program = "alarm" -> AlarmsOver
            [] program = "blocks" -> BlocksOver
            [] OTHER -> TRUE)
    /\ (CASE program = "counter" -> stop
           [] program = "array" -> "SIGQUIT" \in keys
           [] program = "tally" -> "SIGUSR2" \in tallyPending
           [] program = "turns" -> relay = "wait"
           [] program = "office" -> DayIsEnding
           [] OTHER -> FALSE)
       ~>
       (CASE program = "counter" -> counting = "over"
          [] program = "array" -> ArrayOver
          [] program = "turns" -> TurnsOver
          [] program = "office" -> DayEnded
          [] OTHER -> AllReported)
=============================================================================
