-------------------------------- MODULE Office --------------------------------
(***************************************************************************)
(* stopy2/zadanie4/warsztaty.c: an office is a tree of processes.  At      *)
(* SIGUSR1 the highest clerk forks its subordinates, these theirs, and so  *)
(* on.  SIGUSR2 brings a clerk a document, which it may pass on to its     *)
(* superior; SIGINT ends the day: a clerk passes it on to its subordinates *)
(* and leaves after them.                                                  *)
(*                                                                         *)
(* All three signals are blocked but in sigsuspend, and merge while they   *)
(* are pending.  A clerk that is forked inherits the flags, which SIGINT   *)
(* and SIGUSR2 may have set before the day began.  Failing calls are left  *)
(* out.                                                                    *)
(***************************************************************************)
EXTENDS Naturals, SequencesExt

CONSTANTS Clerk,
          Highest,          \* the name in argv
          Subordinates,     \* those named in the file of each clerk
          MaxDocuments      \* bound: SIGUSR2s the user sends

\* Everyone but the highest has one superior, and nobody more subordinates than pids has
\* places.
ASSUME OfficeAssumption ==
    /\ IsFiniteSet(Clerk) /\ Highest \in Clerk /\ MaxDocuments \in Nat
    /\ Subordinates \in [Clerk -> Seq(Clerk)]
    /\ \A c \in Clerk : Len(Subordinates[c]) <= 2
    /\ \A c \in Clerk : Cardinality({p \in Clerk \X (1..2) :
                              p[2] <= Len(Subordinates[p[1]]) /\ Subordinates[p[1]][p[2]] = c})
                      = IF c = Highest THEN 0 ELSE 1

VARIABLES
    clerk,          \* where each clerk is
    nth,            \* subordinates it has forked; told to go; seen leave
    int_count, gotDocument, \* clerks that have int_count and usr2_count set
    clerkPending,   \* signals that wait for each clerk
    documents,      \* SIGUSR2s of the user
    closed          \* the user has pressed Ctrl-C

officeVars == <<clerk, nth, int_count, gotDocument, clerkPending, documents, closed>>

OfficeInit ==
    /\ clerk = [c \in Clerk |-> IF c = Highest THEN "await" ELSE "none"]
    /\ nth = [c \in Clerk |-> 0]
    /\ int_count = {} /\ gotDocument = {}
    /\ clerkPending = [c \in Clerk |-> {}]
    /\ documents = 0 /\ closed = FALSE

Superior(c) == CHOOSE s \in Clerk : Contains(Subordinates[s], c)

Present(c) == clerk[c] \notin {"none", "gone"}

ClerkGoto(c, l) == clerk' = [clerk EXCEPT ![c] = l]

\* kill of a process that may have ended.
PostTo(d, s, pending) == [pending EXCEPT ![d] = IF Present(d) THEN @ \cup {s} ELSE @]

\* sigsuspend lets all handlers run whose signals are pending.
RunHandlers(c) ==
    /\ clerkPending[c] # {}
    /\ int_count' = int_count \cup (IF "SIGINT" \in clerkPending[c] THEN {c} ELSE {})
    /\ gotDocument' = gotDocument \cup (IF "SIGUSR2" \in clerkPending[c] THEN {c} ELSE {})
    /\ clerkPending' = [clerkPending EXCEPT ![c] = {}]
    /\ UNCHANGED <<nth, documents, closed>>

\* The loop in main, which only SIGUSR1 ends.
AwaitUsr1 ==
    /\ clerk[Highest] = "await"
    /\ RunHandlers(Highest)
    /\ ClerkGoto(Highest, IF "SIGUSR1" \in clerkPending[Highest] THEN "inspect" ELSE "await")

-----------------------------------------------------------------------------
(* etap2                                                                   *)

\* pids[i], or whatever the stack holds where it was never set: a number that is no
\* process, or by chance one of the office.
Pid(c, i) == IF i <= Len(Subordinates[c]) THEN {{Subordinates[c][i]}}
             ELSE {{}} \cup {{d} : d \in Clerk}

ForkSubordinate(c) ==
    /\ clerk[c] = "inspect" /\ nth[c] < Len(Subordinates[c])
    /\ LET d == Subordinates[c][nth[c] + 1]
       IN  /\ ClerkGoto(d, "inspect")
           /\ int_count' = int_count \cup (IF c \in int_count THEN {d} ELSE {})
           /\ gotDocument' = gotDocument \cup (IF c \in gotDocument THEN {d} ELSE {})
    /\ nth' = [nth EXCEPT ![c] = @ + 1]
    /\ UNCHANGED <<clerkPending, documents, closed>>

InspectedAll(c) ==
    /\ clerk[c] = "inspect" /\ nth[c] = Len(Subordinates[c])
    /\ ClerkGoto(c, "sigsuspend")
    /\ nth' = [nth EXCEPT ![c] = 0]
    /\ UNCHANGED <<int_count, gotDocument, clerkPending, documents, closed>>

SigsuspendReturns(c) ==
    /\ clerk[c] = "sigsuspend"
    /\ RunHandlers(c)
    /\ ClerkGoto(c, "look")

\* SIGINT comes first, and a document is passed on or not.
LookAtSignals(c) ==
    /\ clerk[c] = "look"
    /\ IF c \in int_count
       THEN ClerkGoto(c, "end") /\ UNCHANGED <<gotDocument, clerkPending>>
       ELSE /\ ClerkGoto(c, "sigsuspend")
            /\ gotDocument' = gotDocument \ {c}
            /\ \/ UNCHANGED clerkPending
               \/ /\ c \in gotDocument /\ c # Highest
                  /\ clerkPending' = PostTo(Superior(c), "SIGUSR2", clerkPending)
    /\ UNCHANGED <<nth, int_count, documents, closed>>

\* kill(pids[0], SIGINT) and kill(pids[1], SIGINT), then break.
EndDayOf(c) ==
    /\ clerk[c] = "end"
    /\ \E pid \in Pid(c, nth[c] + 1) :
          clerkPending' = [d \in Clerk |-> IF d \in pid /\ Present(d)
                                           THEN clerkPending[d] \cup {"SIGINT"}
                                           ELSE clerkPending[d]]
    /\ nth' = [nth EXCEPT ![c] = 1 - @]
    /\ ClerkGoto(c, IF nth[c] = 0 THEN "end" ELSE "wait")
    /\ UNCHANGED <<int_count, gotDocument, documents, closed>>

\* Mutant: waits for nobody.
WaitFor_Nobody(c) ==
    /\ clerk[c] = "wait" /\ nth[c] < Len(Subordinates[c])
    /\ nth' = [nth EXCEPT ![c] = @ + 1]
    /\ UNCHANGED <<clerk, int_count, gotDocument, clerkPending, documents, closed>>

\* waitpid(pids[i]): with the signals blocked nothing interrupts it.
WaitFor(c) ==
    /\ clerk[c] = "wait" /\ nth[c] < Len(Subordinates[c])
    /\ clerk[Subordinates[c][nth[c] + 1]] = "gone"
    /\ nth' = [nth EXCEPT ![c] = @ + 1]
    /\ UNCHANGED <<clerk, int_count, gotDocument, clerkPending, documents, closed>>

\* Nothing is left of the process.
LeaveOffice(c) ==
    /\ clerk[c] = "wait" /\ nth[c] = Len(Subordinates[c])
    /\ ClerkGoto(c, "gone")
    /\ nth' = [nth EXCEPT ![c] = 0]
    /\ int_count' = int_count \ {c} /\ gotDocument' = gotDocument \ {c}
    /\ clerkPending' = [clerkPending EXCEPT ![c] = {}]
    /\ UNCHANGED <<documents, closed>>

ClerkStep(c) ==
    \/ ForkSubordinate(c) \/ InspectedAll(c) \/ SigsuspendReturns(c) \/ LookAtSignals(c)
    \/ EndDayOf(c) \/ WaitFor(c) \/ LeaveOffice(c)

-----------------------------------------------------------------------------
(* The user                                                                *)

OpenOffice ==
    /\ clerk[Highest] = "await" /\ "SIGUSR1" \notin clerkPending[Highest]
    /\ clerkPending' = PostTo(Highest, "SIGUSR1", clerkPending)
    /\ UNCHANGED <<clerk, nth, int_count, gotDocument, documents, closed>>

BringDocument(c) ==
    /\ Present(c) /\ documents < MaxDocuments
    /\ documents' = documents + 1
    /\ clerkPending' = PostTo(c, "SIGUSR2", clerkPending)
    /\ UNCHANGED <<clerk, nth, int_count, gotDocument, closed>>

\* Ctrl-C reaches all there are.
CloseOffice ==
    /\ ~closed /\ Present(Highest)
    /\ closed' = TRUE
    /\ clerkPending' = [c \in Clerk |-> IF Present(c) THEN clerkPending[c] \cup {"SIGINT"}
                                        ELSE clerkPending[c]]
    /\ UNCHANGED <<clerk, nth, int_count, gotDocument, documents>>

OfficeNext ==
    \/ AwaitUsr1 \/ \E c \in Clerk : ClerkStep(c) \/ BringDocument(c)
    \/ OpenOffice \/ CloseOffice

OfficeSpec == OfficeInit /\ [][OfficeNext]_officeVars

\* Every process goes on.
OfficeFairness ==
    /\ WF_officeVars(AwaitUsr1)
    /\ \A c \in Clerk : WF_officeVars(ClerkStep(c))

-----------------------------------------------------------------------------
OfficeTypeOK ==
    /\ clerk \in [Clerk -> {"none", "await", "inspect", "sigsuspend", "look", "end", "wait",
                            "gone"}]
    /\ nth \in [Clerk -> 0..2]
    /\ int_count \subseteq Clerk /\ gotDocument \subseteq Clerk
    /\ clerkPending \in [Clerk -> SUBSET {"SIGUSR1", "SIGUSR2", "SIGINT"}]
    /\ documents \in 0..MaxDocuments /\ closed \in BOOLEAN

\* A clerk may be sure of its superior: getppid is the one who forked it, who leaves
\* after it.  And nobody ends the day before SIGINT.
SuperiorsStay ==
    \A c \in Clerk :
        /\ c # Highest /\ Present(c) => Present(Superior(c))
        /\ clerk[c] \in {"end", "wait", "gone"} => closed

\* SIGINT ends the day for all, those not forked yet included, unless it comes before
\* the day has begun: then it waits for another signal.
DayEnded == \A c \in Clerk : ~Present(c)

DayIsEnding == "SIGINT" \in clerkPending[Highest] /\ clerk[Highest] # "await"

OfficeCloses == DayIsEnding ~> DayEnded
=============================================================================
