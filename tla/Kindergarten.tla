---------------------------- MODULE Kindergarten ----------------------------
(***************************************************************************)
(* stopy2/zadanie2/zadanie2.c: children (processes) play until the parent  *)
(* process sends SIGTERM to all.  The first is ill; a child that is ill    *)
(* coughs, SIGUSR1 to all, which may make others ill, and is picked up by  *)
(* its parents k seconds later, SIGALRM.                                   *)
(*                                                                         *)
(* SIGTERM and SIGUSR1 are ignored until a child has its handlers: what is *)
(* sent before is lost.  No signal is blocked; each is delivered some time *)
(* after it was sent, and merges with one of its kind that is pending.     *)
(* How often a child coughed is told apart only from never.                *)
(***************************************************************************)
EXTENDS Naturals

CONSTANT KidCount     \* n

ASSUME KidAssumption == KidCount \in Nat \ {0}

Kid == 0..(KidCount - 1)

VARIABLES
    kid,             \* where each child is in child_work
    sick,
    alarmSet,        \* children whose alarm is running
    parents_came,
    told,            \* children with last_signal = SIGTERM
    got_usr1,
    coughed,         \* children that have coughed (cough_count > 0)
    coughPending,    \* children for which SIGUSR1 is pending
    termPending,     \* children for which SIGTERM is pending
    carer            \* where the parent process is

kidVars == <<kid, sick, alarmSet, parents_came, told, got_usr1, coughed>>
kindergartenVars == <<kidVars, coughPending, termPending, carer>>

KindergartenInit ==
    /\ kid = [c \in Kid |-> "SIGTERM"]
    /\ sick = {0}
    /\ alarmSet = {0}
    /\ parents_came = {} /\ told = {} /\ got_usr1 = {} /\ coughed = {}
    /\ coughPending = {} /\ termPending = {}
    /\ carer = "play"

Gone(c) == kid[c] \in {"exited", "killed"}

\* Children that have installed the handler of the signal: the handlers are
\* installed in this order, and then the child plays.
Handles(s) ==
    {c \in Kid : ~Gone(c) /\
                 kid[c] \notin (CASE s = "SIGTERM" -> {"SIGTERM"}
                                  [] s = "SIGALRM" -> {"SIGTERM", "SIGALRM"}
                                  [] s = "SIGUSR1" -> {"SIGTERM", "SIGALRM", "SIGUSR1"})}

-----------------------------------------------------------------------------
(* child_work                                                              *)

KidGoto(c, l) == kid' = [kid EXCEPT ![c] = l]

InstallHandler(c) ==
    /\ \/ kid[c] = "SIGTERM" /\ KidGoto(c, "SIGALRM")
       \/ kid[c] = "SIGALRM" /\ KidGoto(c, "SIGUSR1")
       \/ kid[c] = "SIGUSR1" /\ KidGoto(c, "test")
    /\ UNCHANGED <<sick, alarmSet, parents_came, told, got_usr1, coughed,
                   coughPending, termPending, carer>>

TestSignals(c) ==
    /\ kid[c] = "test"
    /\ KidGoto(c, IF c \in told \/ c \in parents_came THEN "leave" ELSE "play")
    /\ UNCHANGED <<sick, alarmSet, parents_came, told, got_usr1, coughed,
                   coughPending, termPending, carer>>

\* Mutant: the alarm is set, and the parents come, for a healthy child too.
Play_AlarmAlways(c) ==
    /\ kid[c] = "play"
    /\ got_usr1' = got_usr1 \ {c}
    /\ \E ill \in BOOLEAN :
          sick' = IF c \in got_usr1 /\ ill THEN sick \cup {c} ELSE sick
    /\ alarmSet' = IF c \in got_usr1 /\ c \notin sick THEN alarmSet \cup {c} ELSE alarmSet
    /\ KidGoto(c, IF c \in sick' THEN "sleep" ELSE "test")
    /\ UNCHANGED <<parents_came, told, coughed, coughPending, termPending, carer>>

\* A cough may make a healthy child ill.
Play(c) ==
    /\ kid[c] = "play"
    /\ got_usr1' = got_usr1 \ {c}
    /\ \/ /\ c \in got_usr1 /\ c \notin sick
          /\ sick' = sick \cup {c}
          /\ alarmSet' = alarmSet \cup {c}
       \/ UNCHANGED <<sick, alarmSet>>
    /\ KidGoto(c, IF c \in sick' THEN "sleep" ELSE "test")
    /\ UNCHANGED <<parents_came, told, coughed, coughPending, termPending, carer>>

\* The child that has slept coughs, kill(0, SIGUSR1), unless it has been told to go;
\* whether its parents have come it does not ask before the next round.
Cough(c) ==
    /\ kid[c] = "sleep"
    /\ IF c \in told
       THEN KidGoto(c, "leave") /\ UNCHANGED <<coughed, coughPending>>
       ELSE /\ coughed' = coughed \cup {c}
            /\ coughPending' = coughPending \cup Handles("SIGUSR1")
            /\ KidGoto(c, "test")
    /\ UNCHANGED <<sick, alarmSet, parents_came, told, got_usr1, termPending, carer>>

LeaveKindergarten(c) ==
    /\ kid[c] = "leave"
    /\ KidGoto(c, "exited")
    /\ coughPending' = coughPending \ {c} /\ termPending' = termPending \ {c}
    /\ UNCHANGED <<sick, alarmSet, parents_came, told, got_usr1, coughed, carer>>

KidStep(c) ==
    InstallHandler(c) \/ TestSignals(c) \/ Play(c) \/ Cough(c) \/ LeaveKindergarten(c)

-----------------------------------------------------------------------------
(* Signals                                                                 *)

TakeCough(c) ==
    /\ c \in coughPending
    /\ coughPending' = coughPending \ {c}
    /\ got_usr1' = got_usr1 \cup {c}
    /\ UNCHANGED <<kid, sick, alarmSet, parents_came, told, coughed, termPending, carer>>

TakeTerm(c) ==
    /\ c \in termPending
    /\ termPending' = termPending \ {c}
    /\ told' = told \cup {c}
    /\ UNCHANGED <<kid, sick, alarmSet, parents_came, got_usr1, coughed, coughPending, carer>>

\* Without a handler SIGALRM kills.
Alarm(c) ==
    /\ c \in alarmSet /\ ~Gone(c)
    /\ alarmSet' = alarmSet \ {c}
    /\ IF c \in Handles("SIGALRM")
       THEN parents_came' = parents_came \cup {c} /\ UNCHANGED <<kid, termPending>>
       ELSE KidGoto(c, "killed") /\ termPending' = termPending \ {c} /\ UNCHANGED parents_came
    /\ UNCHANGED <<sick, told, got_usr1, coughed, coughPending, carer>>

\* The alarm of the parent process, and its kill(0, SIGTERM).
EndOfDay ==
    /\ carer = "play"
    /\ termPending' = Handles("SIGTERM")
    /\ carer' = "wait"
    /\ UNCHANGED <<kidVars, coughPending>>

CarerExits ==
    /\ carer = "wait"
    /\ \A c \in Kid : Gone(c)
    /\ carer' = "exited"
    /\ UNCHANGED <<kidVars, coughPending, termPending>>

KindergartenNext ==
    \/ \E c \in Kid : KidStep(c) \/ TakeCough(c) \/ TakeTerm(c) \/ Alarm(c)
    \/ EndOfDay \/ CarerExits

KindergartenSpec == KindergartenInit /\ [][KindergartenNext]_kindergartenVars

\* Every process goes on, signals arrive and alarms run out.
KindergartenFairness ==
    /\ \A c \in Kid : /\ WF_kindergartenVars(KidStep(c))
                      /\ WF_kindergartenVars(TakeTerm(c) \/ Alarm(c))
    /\ WF_kindergartenVars(EndOfDay \/ CarerExits)

-----------------------------------------------------------------------------
KindergartenTypeOK ==
    /\ kid \in [Kid -> {"SIGTERM", "SIGALRM", "SIGUSR1", "test", "play", "sleep", "leave",
                        "exited", "killed"}]
    /\ sick \subseteq Kid /\ alarmSet \subseteq sick
    /\ parents_came \subseteq Kid /\ told \subseteq Kid
    /\ got_usr1 \subseteq Kid /\ coughed \subseteq Kid
    /\ coughPending \subseteq Kid /\ termPending \subseteq Kid
    /\ carer \in {"play", "wait", "exited"}

\* Signals say no more than what happened: a child other than the first is ill only
\* if another one has coughed, only ill children are picked up by their parents, and
\* nobody leaves who is neither picked up nor told to go.
IllnessHasCause ==
    \A c \in Kid :
        /\ c \in sick /\ c # 0 => \E d \in coughed : d # c
        /\ c \in parents_came \cup coughed => c \in sick
        /\ kid[c] \in {"leave", "exited"} => c \in parents_came \cup told

\* A child that was sent SIGTERM before it had a handler, and knows nothing of it.
MissedTerm(c) == carer = "wait" /\ ~Gone(c) /\ c \notin termPending \cup told

\* The day ends, unless a child misses SIGTERM.
DayOver == carer = "exited" \/ \E c \in Kid : MissedTerm(c)

DayEnds == <>DayOver
=============================================================================
