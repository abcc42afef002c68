----------------------------- MODULE SignalTally -----------------------------
(***************************************************************************)
(* stopy2/prog15/prog15.c: a child sends its parent n times SIGUSR1, then  *)
(* SIGUSR2, and so on for ever; the parent, which takes signals only in    *)
(* sigsuspend, reports each SIGUSR2.  SIGUSR1 has no effect but to wake    *)
(* it.  The child is killed by hand, if at all.                            *)
(***************************************************************************)
EXTENDS Naturals

CONSTANTS SignalsPerRound,   \* n
          MaxRounds          \* bound: SIGUSR2s sent

ASSUME TallyAssumption == SignalsPerRound \in Nat \ {0} /\ MaxRounds \in Nat

VARIABLES
    usr1Sent,        \* i in child_work
    usr2Sent,        \* count in child_work
    tallyPending,    \* signals pending for the parent
    tally,           \* where the parent is in parent_work
    usr2_count,
    reported         \* count in parent_work

tallyVars == <<usr1Sent, usr2Sent, tallyPending, tally, usr2_count, reported>>

TallyInit ==
    /\ usr1Sent = 0 /\ usr2Sent = 0
    /\ tallyPending = {}
    /\ tally = "test"
    /\ usr2_count = 0 /\ reported = 0

\* child_work: one signal after each sleep.
SendUsr ==
    /\ usr2Sent < MaxRounds
    /\ IF usr1Sent < SignalsPerRound
       THEN /\ usr1Sent' = usr1Sent + 1
            /\ tallyPending' = tallyPending \cup {"SIGUSR1"}
            /\ UNCHANGED usr2Sent
       ELSE /\ usr1Sent' = 0 /\ usr2Sent' = usr2Sent + 1
            /\ tallyPending' = tallyPending \cup {"SIGUSR2"}
    /\ UNCHANGED <<tally, usr2_count, reported>>

\* parent_work, with both signals blocked.
TestCount ==
    /\ tally = "test"
    /\ tally' = IF usr2_count = reported THEN "sigsuspend" ELSE "report"
    /\ UNCHANGED <<usr1Sent, usr2Sent, tallyPending, usr2_count, reported>>

\* Mutant: the signals are not blocked between the test and sigsuspend.
Sigsuspend_NotBlocked ==
    /\ tallyPending # {}
    /\ tally' = IF tally = "sigsuspend" THEN "test" ELSE tally
    /\ usr2_count' = IF "SIGUSR2" \in tallyPending THEN usr2_count + 1 ELSE usr2_count
    /\ tallyPending' = {}
    /\ UNCHANGED <<usr1Sent, usr2Sent, reported>>

\* sigsuspend(&oldmask) takes whatever is pending and returns.
Sigsuspend ==
    /\ tally = "sigsuspend"
    /\ tallyPending # {}
    /\ usr2_count' = IF "SIGUSR2" \in tallyPending THEN usr2_count + 1 ELSE usr2_count
    /\ tallyPending' = {}
    /\ tally' = "test"
    /\ UNCHANGED <<usr1Sent, usr2Sent, reported>>

Report ==
    /\ tally = "report"
    /\ reported' = reported + 1
    /\ tally' = "test"
    /\ UNCHANGED <<usr1Sent, usr2Sent, tallyPending, usr2_count>>

TallyStep == TestCount \/ Sigsuspend \/ Report

TallyNext == SendUsr \/ TallyStep

TallySpec == TallyInit /\ [][TallyNext]_tallyVars

\* The parent goes on; nothing makes the child do so.
TallyFairness == WF_tallyVars(TallyStep)

-----------------------------------------------------------------------------
TallyTypeOK ==
    /\ usr1Sent \in 0..SignalsPerRound /\ usr2Sent \in 0..MaxRounds
    /\ tallyPending \subseteq {"SIGUSR1", "SIGUSR2"}
    /\ tally \in {"test", "sigsuspend", "report"}
    /\ usr2_count \in Nat /\ reported \in Nat

\* SIGUSR2s may merge, but none is counted or reported twice; and the parent is never
\* more than one behind what it has counted.
TallyExact ==
    /\ usr2_count + (IF "SIGUSR2" \in tallyPending THEN 1 ELSE 0) <= usr2Sent
    /\ reported <= usr2_count /\ usr2_count <= reported + 1

AllReported == tallyPending = {} /\ usr2_count = reported

\* A SIGUSR2 that has arrived is reported, also if no other signal follows.
TallyReported == "SIGUSR2" \in tallyPending ~> AllReported
=============================================================================
