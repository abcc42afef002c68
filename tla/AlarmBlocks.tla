----------------------------- MODULE AlarmBlocks -----------------------------
(***************************************************************************)
(* stopy2/zadanie1/zadanie1.c: children count SIGUSR1 until an alarm rings *)
(* and then write as many blocks as they have counted; the parent sends    *)
(* SIGUSR1 a hundred times and waits for the children.                     *)
(*                                                                         *)
(* No signal is blocked; each is delivered some time after it was sent and *)
(* merges with one of its kind that is pending.  Children start with their *)
(* parent's handler of SIGUSR1.  Failing calls are left out.               *)
(***************************************************************************)
EXTENDS Naturals

CONSTANTS Writer,        \* the children
          Rounds         \* SIGUSR1s the parent sends

ASSUME WriterAssumption == Writer # {} /\ Rounds \in Nat

VARIABLES
    forkedWriters,  \* children forked so far
    round,          \* i in parent_work
    source,         \* where the parent is
    writer,         \* where each child is in child_work
    rings,          \* each child's alarm: "off", "set", "rung"
    got_alarm,
    sigCount,       \* sig_count of each child
    written,        \* blocks each child has written
    usr1Waits       \* children for which SIGUSR1 is pending

writerVars == <<writer, rings, got_alarm, sigCount, written>>
alarmVars == <<forkedWriters, round, source, writerVars, usr1Waits>>

AlarmInit ==
    /\ forkedWriters = {} /\ round = 0 /\ source = "fork"
    /\ writer = [w \in Writer |-> "none"]
    /\ rings = [w \in Writer |-> "off"]
    /\ got_alarm = {}
    /\ sigCount = [w \in Writer |-> 0] /\ written = [w \in Writer |-> 0]
    /\ usr1Waits = {}

AliveWriters == {w \in Writer : writer[w] \notin {"none", "exited"}}

-----------------------------------------------------------------------------
(* child_work                                                              *)

WriterGoto(w, l) == writer' = [writer EXCEPT ![w] = l]

\* The handler of SIGALRM is installed long before.
SetAlarm(w) ==
    /\ writer[w] = "start"
    /\ rings' = [rings EXCEPT ![w] = "set"]
    /\ WriterGoto(w, "test")
    /\ UNCHANGED <<forkedWriters, round, source, got_alarm, sigCount, written, usr1Waits>>

TestAlarm(w) ==
    /\ writer[w] = "test"
    /\ WriterGoto(w, IF w \in got_alarm THEN "write" ELSE "suspend")
    /\ UNCHANGED <<forkedWriters, round, source, rings, got_alarm, sigCount, written, usr1Waits>>

\* What came since the test of got_alarm is not looked at again.
SuspendWriter(w) ==
    /\ writer[w] = "suspend"
    /\ WriterGoto(w, "sigsuspend")
    /\ UNCHANGED <<forkedWriters, round, source, rings, got_alarm, sigCount, written, usr1Waits>>

\* Mutant: one block more.
WriteBlock_OneMore(w) ==
    /\ writer[w] = "write"
    /\ IF written[w] <= sigCount[w]
       THEN written' = [written EXCEPT ![w] = @ + 1] /\ UNCHANGED <<writer, usr1Waits>>
       ELSE WriterGoto(w, "exited") /\ usr1Waits' = usr1Waits \ {w} /\ UNCHANGED written
    /\ UNCHANGED <<forkedWriters, round, source, rings, got_alarm, sigCount>>

\* sig_count is looked at before each block, while signals still come.
WriteBlock(w) ==
    /\ writer[w] = "write"
    /\ IF written[w] < sigCount[w]
       THEN written' = [written EXCEPT ![w] = @ + 1] /\ UNCHANGED <<writer, usr1Waits>>
       ELSE WriterGoto(w, "exited") /\ usr1Waits' = usr1Waits \ {w} /\ UNCHANGED written
    /\ UNCHANGED <<forkedWriters, round, source, rings, got_alarm, sigCount>>

\* sigsuspend returns after any handler.
Awake(w) == WriterGoto(w, IF writer[w] = "sigsuspend" THEN "test" ELSE writer[w])

child_sigalrm_handler(w) ==
    /\ rings[w] = "set" /\ writer[w] # "exited"
    /\ rings' = [rings EXCEPT ![w] = "rung"]
    /\ got_alarm' = got_alarm \cup {w}
    /\ Awake(w)
    /\ UNCHANGED <<forkedWriters, round, source, sigCount, written, usr1Waits>>

child_sigusr1_handler(w) ==
    /\ w \in usr1Waits
    /\ usr1Waits' = usr1Waits \ {w}
    /\ sigCount' = [sigCount EXCEPT ![w] = @ + 1]
    /\ Awake(w)
    /\ UNCHANGED <<forkedWriters, round, source, rings, got_alarm, written>>

WriterStep(w) == SetAlarm(w) \/ TestAlarm(w) \/ SuspendWriter(w) \/ WriteBlock(w)

WriterSignal(w) == child_sigalrm_handler(w) \/ child_sigusr1_handler(w)

-----------------------------------------------------------------------------
(* main                                                                    *)

ForkWriter ==
    /\ source = "fork"
    /\ \E w \in Writer \ forkedWriters :
          /\ forkedWriters' = forkedWriters \cup {w}
          /\ WriterGoto(w, "start")
    /\ source' = IF forkedWriters' = Writer THEN "send" ELSE "fork"
    /\ UNCHANGED <<round, rings, got_alarm, sigCount, written, usr1Waits>>

\* kill(0, SIGUSR1); the parent itself ignores it by then.
SendRound ==
    /\ source = "send" /\ round < Rounds
    /\ round' = round + 1
    /\ usr1Waits' = usr1Waits \cup AliveWriters
    /\ UNCHANGED <<forkedWriters, source, writerVars>>

SentAll ==
    /\ source = "send" /\ round = Rounds
    /\ source' = "wait"
    /\ UNCHANGED <<forkedWriters, round, writerVars, usr1Waits>>

SourceExits ==
    /\ source = "wait"
    /\ AliveWriters = {}
    /\ source' = "exited"
    /\ UNCHANGED <<forkedWriters, round, writerVars, usr1Waits>>

SourceStep == ForkWriter \/ SendRound \/ SentAll \/ SourceExits

AlarmNext == SourceStep \/ \E w \in Writer : WriterStep(w) \/ WriterSignal(w)

AlarmSpec == AlarmInit /\ [][AlarmNext]_alarmVars

\* All processes go on, signals arrive and alarms ring.
AlarmFairness ==
    /\ WF_alarmVars(SourceStep)
    /\ \A w \in Writer : WF_alarmVars(WriterStep(w)) /\ WF_alarmVars(WriterSignal(w))

-----------------------------------------------------------------------------
AlarmTypeOK ==
    /\ forkedWriters \subseteq Writer /\ round \in 0..Rounds
    /\ source \in {"fork", "send", "wait", "exited"}
    /\ writer \in [Writer -> {"none", "start", "test", "suspend", "sigsuspend", "write", "exited"}]
    /\ rings \in [Writer -> {"off", "set", "rung"}]
    /\ got_alarm \subseteq Writer
    /\ sigCount \in [Writer -> 0..Rounds] /\ written \in [Writer -> 0..Rounds]
    /\ usr1Waits \subseteq Writer

\* No child writes a block nobody asked for, nor one before its alarm; signals may
\* merge on their way, but are not counted twice.
BlocksAsked ==
    \A w \in Writer :
        /\ written[w] <= sigCount[w]
        /\ sigCount[w] + (IF w \in usr1Waits THEN 1 ELSE 0) <= round
        /\ written[w] > 0 => w \in got_alarm

\* The alarm has rung between the test of got_alarm and sigsuspend, and nothing will
\* wake the child any more.
MissedAlarm(w) ==
    /\ writer[w] = "sigsuspend" /\ w \in got_alarm
    /\ w \notin usr1Waits /\ source = "wait"

\* All children end, and then the parent, unless one misses its alarm and no signal
\* follows; while signals follow the alarm is only late.
AlarmsOver == source = "exited" \/ \E w \in Writer : MissedAlarm(w)

AlarmsHeard == <>AlarmsOver
=============================================================================
