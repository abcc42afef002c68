----------------------------- MODULE WorkInTurns -----------------------------
(***************************************************************************)
(* stopy2/zadanie3/zadanie3.c: of n children one works (counts) at a time. *)
(* SIGUSR1 of the user makes the parent stop the child whose turn it is,   *)
(* with SIGUSR2, and start the next, with SIGUSR1; SIGINT ends all.        *)
(*                                                                         *)
(* A child has SIGUSR1 and SIGUSR2 blocked but in sigsuspend and while it  *)
(* sleeps.  Of two handlers that have to run Linux puts the frame of the   *)
(* lower signal below: the handler of SIGUSR1 comes last.  The model       *)
(* starts when the children have been forked, with the handlers of none    *)
(* installed; how far a child counts is left out.                          *)
(***************************************************************************)
EXTENDS Naturals

CONSTANTS NRunners,   \* n
          MaxTurns    \* bound: SIGUSR1s the user sends

Runner == 0..(NRunners - 1)

ASSUME TurnsAssumption == NRunners \in Nat \ {0} /\ MaxTurns \in Nat

VARIABLES
    runner,         \* where each child is
    order,          \* work and pause_work of each child: both are 0 at first
    runnerEnd,      \* children whose end2 is set
    usrPending,     \* SIGUSR1 and SIGUSR2 that wait for each child
    runnerInt,      \* children for which SIGINT is pending
    relay,          \* where the parent is
    turn,           \* i in main
    work2, relayEnd,
    relayPending,   \* signals that wait for the parent
    turnsAsked      \* SIGUSR1s of the user

runnerVars == <<runner, order, runnerEnd>>
relayVars == <<relay, turn, work2, relayEnd, turnsAsked>>
turnVars == <<runnerVars, usrPending, runnerInt, relayVars, relayPending>>

TurnsInit ==
    /\ runner = [r \in Runner |-> "SIGUSR1"]
    /\ order = [r \in Runner |-> "none"]
    /\ runnerEnd = {} /\ runnerInt = {}
    /\ usrPending = [r \in Runner |-> {}]
    /\ relay = "handlers" /\ turn = 0
    /\ work2 = FALSE /\ relayEnd = FALSE
    /\ relayPending = {} /\ turnsAsked = 0

Runs(r) == runner[r] \notin {"exited", "killed"}

-----------------------------------------------------------------------------
(* child_work                                                              *)

RunnerGoto(r, l) == runner' = [runner EXCEPT ![r] = l]

\* With the last handler both signals are blocked; nothing happens in between.
InstallRunnerHandler(r) ==
    /\ \/ runner[r] = "SIGUSR1" /\ RunnerGoto(r, "SIGUSR2")
       \/ runner[r] = "SIGUSR2" /\ RunnerGoto(r, "SIGINT")
       \/ runner[r] = "SIGINT" /\ RunnerGoto(r, "test_work")
    /\ UNCHANGED <<order, runnerEnd, usrPending, runnerInt, relayVars, relayPending>>

\* while (!work), which end2 does not leave.
TestWork(r) ==
    /\ runner[r] = "test_work"
    /\ RunnerGoto(r, IF order[r] = "work" THEN "test_end" ELSE "await_work")
    /\ UNCHANGED <<order, runnerEnd, usrPending, runnerInt, relayVars, relayPending>>

TestEnd(r) ==
    /\ runner[r] = "test_end"
    /\ RunnerGoto(r, IF r \in runnerEnd THEN "save" ELSE "test_pause")
    /\ UNCHANGED <<order, runnerEnd, usrPending, runnerInt, relayVars, relayPending>>

TestPause(r) ==
    /\ runner[r] = "test_pause"
    /\ RunnerGoto(r, IF order[r] = "pause" THEN "await" ELSE "sleep")
    /\ UNCHANGED <<order, runnerEnd, usrPending, runnerInt, relayVars, relayPending>>

\* nanosleep has ended; the child counts and blocks the signals again.
CountOn(r) ==
    /\ runner[r] = "sleep"
    /\ RunnerGoto(r, "test_end")
    /\ UNCHANGED <<order, runnerEnd, usrPending, runnerInt, relayVars, relayPending>>

\* Nothing is left of the process that ends: neither its variables nor its signals.
RunnerEnds(r, how) ==
    /\ RunnerGoto(r, how)
    /\ order' = [order EXCEPT ![r] = "none"] /\ runnerEnd' = runnerEnd \ {r}
    /\ usrPending' = [usrPending EXCEPT ![r] = {}] /\ runnerInt' = runnerInt \ {r}
    /\ UNCHANGED <<relayVars, relayPending>>

SaveCount(r) == runner[r] = "save" /\ RunnerEnds(r, "exited")

\* sigsuspend returns after the handlers.
Awakened(r) ==
    CASE runner[r] = "await_work" -> "test_work"
      [] runner[r] = "await" -> "test_end"
      [] OTHER -> runner[r]

\* Mutant: the handler of SIGUSR1 does not set pause_work back, so that a child once
\* stopped stays so.
TakeUsr_StaysPaused(r) ==
    /\ usrPending[r] # {}
    /\ runner[r] \in {"SIGINT", "await_work", "sleep", "await"}
    /\ usrPending' = [usrPending EXCEPT ![r] = {}]
    /\ order' = [order EXCEPT ![r] =
                    IF @ # "pause" /\ "SIGUSR1" \in usrPending[r] THEN "work" ELSE "pause"]
    /\ RunnerGoto(r, Awakened(r))
    /\ UNCHANGED <<runnerEnd, runnerInt, relayVars, relayPending>>

\* usr1_handler and usr2_handler, for all that is pending.
TakeUsr(r) ==
    /\ usrPending[r] # {}
    /\ runner[r] \in {"SIGINT", "await_work", "sleep", "await"}
    /\ usrPending' = [usrPending EXCEPT ![r] = {}]
    /\ order' = [order EXCEPT ![r] = IF "SIGUSR1" \in usrPending[r] THEN "work" ELSE "pause"]
    /\ RunnerGoto(r, Awakened(r))
    /\ UNCHANGED <<runnerEnd, runnerInt, relayVars, relayPending>>

\* int2_handler.
TakeInt2(r) ==
    /\ r \in runnerInt
    /\ runner[r] \notin {"SIGUSR1", "SIGUSR2", "SIGINT", "exited", "killed"}
    /\ runnerInt' = runnerInt \ {r}
    /\ runnerEnd' = runnerEnd \cup {r}
    /\ RunnerGoto(r, Awakened(r))
    /\ UNCHANGED <<order, usrPending, relayVars, relayPending>>

\* A signal that comes before its handler ends the child.
KilledEarly(r) ==
    /\ \/ runner[r] = "SIGUSR1" /\ (usrPending[r] # {} \/ r \in runnerInt)
       \/ runner[r] = "SIGUSR2" /\ ("SIGUSR2" \in usrPending[r] \/ r \in runnerInt)
       \/ runner[r] = "SIGINT" /\ r \in runnerInt
    /\ RunnerEnds(r, "killed")

RunnerStep(r) ==
    \/ InstallRunnerHandler(r) \/ TestWork(r) \/ TestEnd(r) \/ TestPause(r)
    \/ CountOn(r) \/ SaveCount(r)

RunnerSignal(r) == TakeUsr(r) \/ TakeInt2(r) \/ KilledEarly(r)

-----------------------------------------------------------------------------
(* main                                                                    *)

RelayGoto(l) == relay' = l

\* kill of a child that may have ended.
SendUsrTo(r, s) == usrPending' = [usrPending EXCEPT ![r] = IF Runs(r) THEN @ \cup {s} ELSE @]

\* The handlers are installed, SIGUSR1 is blocked, and the first child starts.
StartFirst ==
    /\ relay = "handlers"
    /\ SendUsrTo(0, "SIGUSR1")
    /\ RelayGoto("test_end")
    /\ UNCHANGED <<runnerVars, runnerInt, turn, work2, relayEnd, turnsAsked, relayPending>>

TestRelayEnd ==
    /\ relay = "test_end"
    /\ RelayGoto(IF relayEnd THEN "end_all" ELSE "test_work2")
    /\ UNCHANGED <<runnerVars, usrPending, runnerInt, turn, work2, relayEnd, turnsAsked, relayPending>>

\* while (!work2), which end does not leave.
TestWork2 ==
    /\ relay = "test_work2"
    /\ RelayGoto(IF work2 THEN "pause" ELSE "sigsuspend")
    /\ work2' = FALSE
    /\ UNCHANGED <<runnerVars, usrPending, runnerInt, turn, relayEnd, turnsAsked, relayPending>>

PauseRunner ==
    /\ relay = "pause"
    /\ SendUsrTo(turn, "SIGUSR2")
    /\ turn' = (turn + 1) % NRunners
    /\ RelayGoto("start")
    /\ UNCHANGED <<runnerVars, runnerInt, work2, relayEnd, turnsAsked, relayPending>>

StartRunner ==
    /\ relay = "start"
    /\ SendUsrTo(turn, "SIGUSR1")
    /\ RelayGoto("test_end")
    /\ UNCHANGED <<runnerVars, runnerInt, turn, work2, relayEnd, turnsAsked, relayPending>>

\* The parent ignores SIGINT from now on.
EndAll ==
    /\ relay = "end_all"
    /\ runnerInt' = runnerInt \cup {r \in Runner : Runs(r)}
    /\ relayPending' = relayPending \ {"SIGINT"}
    /\ RelayGoto("wait")
    /\ UNCHANGED <<runnerVars, usrPending, turn, work2, relayEnd, turnsAsked>>

RelayExits ==
    /\ relay = "wait"
    /\ \A r \in Runner : ~Runs(r)
    /\ RelayGoto("exited")
    /\ UNCHANGED <<runnerVars, usrPending, runnerInt, turn, work2, relayEnd, turnsAsked, relayPending>>

RelayStep ==
    \/ StartFirst \/ TestRelayEnd \/ TestWork2
    \/ PauseRunner \/ StartRunner \/ EndAll \/ RelayExits

\* usr1_handler2 in sigsuspend, int_handler anywhere.
RelaySignal ==
    /\ \/ /\ "SIGUSR1" \in relayPending /\ relay = "sigsuspend"
          /\ relayPending' = relayPending \ {"SIGUSR1"}
          /\ work2' = TRUE
          /\ UNCHANGED relayEnd
       \/ /\ "SIGINT" \in relayPending
          /\ relayPending' = relayPending \ {"SIGINT"}
          /\ relayEnd' = TRUE
          /\ UNCHANGED work2
    /\ RelayGoto(IF relay = "sigsuspend" THEN "test_work2" ELSE relay)
    /\ UNCHANGED <<runnerVars, usrPending, runnerInt, turn, turnsAsked>>

\* The user, once the parent has its handlers: SIGUSR1 to the parent, SIGINT of the
\* terminal to all.
AskForTurn ==
    /\ relay \notin {"handlers", "wait", "exited"}
    /\ turnsAsked < MaxTurns /\ "SIGUSR1" \notin relayPending
    /\ turnsAsked' = turnsAsked + 1
    /\ relayPending' = relayPending \cup {"SIGUSR1"}
    /\ UNCHANGED <<runnerVars, usrPending, runnerInt, relay, turn, work2, relayEnd>>

InterruptRunners ==
    /\ relay \notin {"handlers", "wait", "exited"}
    /\ ~relayEnd /\ "SIGINT" \notin relayPending
    /\ relayPending' = relayPending \cup {"SIGINT"}
    /\ runnerInt' = runnerInt \cup {r \in Runner : Runs(r)}
    /\ UNCHANGED <<runnerVars, usrPending, relayVars>>

TurnsNext ==
    \/ \E r \in Runner : RunnerStep(r) \/ RunnerSignal(r)
    \/ RelayStep \/ RelaySignal \/ AskForTurn \/ InterruptRunners

TurnsSpec == TurnsInit /\ [][TurnsNext]_turnVars

\* Every process goes on and gets its signals.
TurnsFairness ==
    /\ \A r \in Runner : WF_turnVars(RunnerStep(r)) /\ WF_turnVars(RunnerSignal(r))
    /\ WF_turnVars(RelayStep) /\ WF_turnVars(RelaySignal)

-----------------------------------------------------------------------------
TurnsTypeOK ==
    /\ runner \in [Runner -> {"SIGUSR1", "SIGUSR2", "SIGINT", "test_work",
                              "await_work", "test_end", "test_pause", "sleep", "await",
                              "save", "exited", "killed"}]
    /\ order \in [Runner -> {"none", "work", "pause"}]
    /\ runnerEnd \subseteq Runner /\ runnerInt \subseteq Runner
    /\ usrPending \in [Runner -> SUBSET {"SIGUSR1", "SIGUSR2"}]
    /\ relay \in {"handlers", "test_end", "test_work2", "sigsuspend", "pause", "start",
                  "end_all", "wait", "exited"}
    /\ turn \in Runner
    /\ work2 \in BOOLEAN /\ relayEnd \in BOOLEAN
    /\ relayPending \subseteq {"SIGUSR1", "SIGINT"}
    /\ turnsAsked \in 0..MaxTurns

\* The turn is never lost: however SIGUSR2 of an earlier round and SIGUSR1 of this one
\* meet at a child that was not listening, the child whose turn it is works, or will
\* when it listens, if it is alive.
TurnNotLost ==
    relay \notin {"handlers", "start"} =>
        \/ ~Runs(turn)
        \/ order[turn] = "work" \/ "SIGUSR1" \in usrPending[turn]

\* Nothing will wake the child any more: it has never had its turn, or it was paused
\* and SIGINT came between its test of end2 and sigsuspend.
StaysForEver(r) ==
    /\ runner[r] \in {"await_work", "await"}
    /\ usrPending[r] = {} /\ r \notin runnerInt

\* When the parent has passed SIGINT on and waits, the program ends, unless a child
\* stays for ever.
TurnsOver == relay = "exited" \/ \E r \in Runner : StaysForEver(r)

TurnsEnd == relay = "wait" ~> TurnsOver
=============================================================================
