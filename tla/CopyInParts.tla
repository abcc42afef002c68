----------------------------- MODULE CopyInParts -----------------------------
(***************************************************************************)
(* stopy2/zadanie4/sop-l2.c: the parent gives each of n children its part  *)
(* of a file and then sends SIGUSR1 to all; each child waits for it in     *)
(* sigsuspend and writes its part, byte by byte, into a file of its own.   *)
(* SIGINT makes the children stop early.                                   *)
(*                                                                         *)
(* Signals of one kind merge while they are pending.  A signal that is not *)
(* blocked is delivered some time after it was sent; SIGUSR1 is blocked in *)
(* a child except in sigsuspend.  The model starts when main has installed *)
(* its first handlers; the letters and failing calls are left out.         *)
(***************************************************************************)
EXTENDS Integers, FiniteSets

CONSTANTS NChildren,     \* n
          MaxFileSize,   \* file sizes up to this one are looked at
          MaxInterrupts  \* bound: SIGINTs the user sends

Child == 0..(NChildren - 1)

ASSUME CopyAssumption ==
    NChildren \in Nat \ {0} /\ MaxFileSize \in Nat /\ MaxInterrupts \in Nat

VARIABLES
    file_size,
    filePos,        \* where the parent is in the file
    forked,         \* i: children forked so far
    parent,         \* where the parent is in main
    intHandler,     \* what SIGINT does to the parent
    parentFlag,     \* got_sigint of the parent, which children inherit
    from, partSize, \* the part of each child: offset and buf_size
    child,          \* where each child is
    got_sigint,
    copied,         \* i in child_work: bytes written by each child
    usr1Pending,    \* children for which SIGUSR1 is pending
    intPending,     \* processes for which SIGINT is pending
    interrupts      \* SIGINTs sent by the user

parentVars == <<file_size, filePos, forked, parent, intHandler, parentFlag>>
childVars == <<from, partSize, child, got_sigint, copied>>
copyVars == <<parentVars, childVars, usr1Pending, intPending, interrupts>>

Parent == -1     \* its place in intPending

CopyInit ==
    /\ file_size \in 0..MaxFileSize
    /\ filePos = 0 /\ forked = 0
    /\ parent = "fork"
    /\ intHandler = "child_sigint_handler" /\ parentFlag = FALSE
    /\ from = [c \in Child |-> 0] /\ partSize = [c \in Child |-> 0]
    /\ child = [c \in Child |-> "none"]
    /\ got_sigint = [c \in Child |-> FALSE]
    /\ copied = [c \in Child |-> 0]
    /\ usr1Pending = {} /\ intPending = {} /\ interrupts = 0

Living == {c \in Child : child[c] \notin {"none", "exited"}}

-----------------------------------------------------------------------------
(* child_work                                                              *)

ChildGoto(c, l) == child' = [child EXCEPT ![c] = l]

\* With SIGUSR1 blocked since before the fork it cannot come too early.
Suspend(c) ==
    /\ child[c] = "start"
    /\ ChildGoto(c, "sigsuspend")
    /\ UNCHANGED <<parentVars, from, partSize, got_sigint, copied,
                   usr1Pending, intPending, interrupts>>

\* Mutant: SIGUSR1 is not blocked; what comes before sigsuspend is gone.
TakeUsr1_NotBlocked(c) ==
    /\ c \in usr1Pending
    /\ child[c] \in {"start", "sigsuspend"}
    /\ usr1Pending' = usr1Pending \ {c}
    /\ ChildGoto(c, IF child[c] = "sigsuspend" THEN "test" ELSE child[c])
    /\ UNCHANGED <<parentVars, from, partSize, got_sigint, copied, intPending, interrupts>>

\* sigsuspend returns, and the child opens its file.
TakeUsr1(c) ==
    /\ c \in usr1Pending
    /\ child[c] = "sigsuspend"
    /\ usr1Pending' = usr1Pending \ {c}
    /\ ChildGoto(c, "test")
    /\ UNCHANGED <<parentVars, from, partSize, got_sigint, copied, intPending, interrupts>>

\* child_sigint_handler; it ends sigsuspend too.
ChildTakesInt(c) ==
    /\ c \in intPending
    /\ intPending' = intPending \ {c}
    /\ got_sigint' = [got_sigint EXCEPT ![c] = TRUE]
    /\ ChildGoto(c, IF child[c] = "sigsuspend" THEN "test" ELSE child[c])
    /\ UNCHANGED <<parentVars, from, partSize, copied, usr1Pending, interrupts>>

\* The head of the loop; the child that has done closes its file and exits.
TestCopied(c) ==
    /\ child[c] = "test"
    /\ IF copied[c] < partSize[c] /\ ~got_sigint[c]
       THEN ChildGoto(c, "write") /\ UNCHANGED <<usr1Pending, intPending>>
       ELSE /\ ChildGoto(c, "exited")
            /\ usr1Pending' = usr1Pending \ {c} /\ intPending' = intPending \ {c}
    /\ UNCHANGED <<parentVars, from, partSize, got_sigint, copied, interrupts>>

WriteByte(c) ==
    /\ child[c] = "write"
    /\ copied' = [copied EXCEPT ![c] = @ + 1]
    /\ ChildGoto(c, "test")
    /\ UNCHANGED <<parentVars, from, partSize, got_sigint, usr1Pending, intPending, interrupts>>

ChildCopies(c) ==
    Suspend(c) \/ TakeUsr1(c) \/ ChildTakesInt(c) \/ TestCopied(c) \/ WriteByte(c)

-----------------------------------------------------------------------------
(* main                                                                    *)

\* Mutant: the remainder of the division is forgotten.
buf_size_Floor == file_size \div NChildren

buf_size == file_size \div NChildren + 1

\* bulk_read takes what is left of the file, and no more than buf_size.
ForkChild ==
    /\ parent = "fork" /\ forked < NChildren
    /\ LET left == file_size - filePos
           size == IF left < buf_size THEN left ELSE buf_size
       IN /\ from' = [from EXCEPT ![forked] = filePos]
          /\ partSize' = [partSize EXCEPT ![forked] = size]
          /\ filePos' = filePos + size
    /\ forked' = forked + 1
    /\ ChildGoto(forked, "start")
    /\ got_sigint' = [got_sigint EXCEPT ![forked] = parentFlag]
    /\ UNCHANGED <<file_size, parent, intHandler, parentFlag, copied,
                   usr1Pending, intPending, interrupts>>

\* SIGUSR1 is unblocked and ignored, and SIGINT has another handler from now on.
ChangeHandlers ==
    /\ parent = "fork" /\ forked = NChildren
    /\ parent' = "kill"
    /\ intHandler' = "parent_sigint_handler"
    /\ UNCHANGED <<file_size, filePos, forked, parentFlag, childVars,
                   usr1Pending, intPending, interrupts>>

\* kill(0, SIGUSR1), which the parent ignores.
StartChildren ==
    /\ parent = "kill"
    /\ usr1Pending' = usr1Pending \cup Living
    /\ parent' = "wait"
    /\ UNCHANGED <<file_size, filePos, forked, intHandler, parentFlag, childVars,
                   intPending, interrupts>>

ParentExits ==
    /\ parent = "wait"
    /\ \A c \in Child : child[c] = "exited"
    /\ parent' = "exited"
    /\ UNCHANGED <<file_size, filePos, forked, intHandler, parentFlag, childVars,
                   usr1Pending, intPending, interrupts>>

ParentStep == ForkChild \/ ChangeHandlers \/ StartChildren \/ ParentExits

\* The first handler sets the flag, the second sends SIGINT on to the children and
\* leaves the default action, which is the end of the parent.
ParentTakesInt ==
    /\ Parent \in intPending
    /\ parent \in {"fork", "kill", "wait"}
    /\ \/ /\ intHandler = "child_sigint_handler"
          /\ parentFlag' = TRUE
          /\ intPending' = intPending \ {Parent}
          /\ UNCHANGED <<parent, intHandler>>
       \/ /\ intHandler = "parent_sigint_handler"
          /\ intHandler' = "SIG_DFL"
          /\ intPending' = (intPending \ {Parent}) \cup Living
          /\ UNCHANGED <<parent, parentFlag>>
       \/ /\ intHandler = "SIG_DFL"
          /\ parent' = "killed"
          /\ intPending' = intPending \ {Parent}
          /\ UNCHANGED <<intHandler, parentFlag>>
    /\ UNCHANGED <<file_size, filePos, forked, childVars, usr1Pending, interrupts>>

\* The terminal sends SIGINT to all processes.
InterruptCopy ==
    /\ interrupts < MaxInterrupts
    /\ interrupts' = interrupts + 1
    /\ intPending' = intPending \cup Living \cup
                     (IF parent \in {"exited", "killed"} THEN {} ELSE {Parent})
    /\ UNCHANGED <<parentVars, childVars, usr1Pending>>

CopyNext ==
    \/ \E c \in Child : ChildCopies(c)
    \/ ParentStep \/ ParentTakesInt \/ InterruptCopy

CopySpec == CopyInit /\ [][CopyNext]_copyVars

\* Every process goes on, and gets its signals.
CopyFairness ==
    /\ \A c \in Child : WF_copyVars(ChildCopies(c))
    /\ WF_copyVars(ParentStep) /\ WF_copyVars(ParentTakesInt)

-----------------------------------------------------------------------------
CopyTypeOK ==
    /\ file_size \in 0..MaxFileSize /\ filePos \in 0..file_size
    /\ forked \in 0..NChildren
    /\ parent \in {"fork", "kill", "wait", "exited", "killed"}
    /\ intHandler \in {"child_sigint_handler", "parent_sigint_handler", "SIG_DFL"}
    /\ parentFlag \in BOOLEAN
    /\ from \in [Child -> Nat] /\ partSize \in [Child -> Nat]
    /\ child \in [Child -> {"none", "start", "sigsuspend", "test", "write", "exited"}]
    /\ got_sigint \in [Child -> BOOLEAN]
    /\ copied \in [Child -> Nat]
    /\ usr1Pending \subseteq Child /\ intPending \subseteq Child \cup {Parent}
    /\ interrupts \in 0..MaxInterrupts

\* The child has written the byte at this position of the file.
Wrote(c, i) == from[c] <= i /\ i < from[c] + copied[c]

\* No byte of the file is copied twice, whatever SIGINT cuts short; without SIGINT
\* every byte is copied when the parent exits, also if n does not divide the size
\* of the file or is larger.
EveryByteOnce ==
    /\ \A i \in 0..(file_size - 1) : \A c, d \in Child : Wrote(c, i) /\ Wrote(d, i) => c = d
    /\ parent = "exited" /\ interrupts = 0 =>
          \A i \in 0..(file_size - 1) : \E c \in Child : Wrote(c, i)

\* No child misses the start: all processes end, unless a second SIGINT ends the
\* parent, perhaps before it has sent SIGUSR1.
CopyOver == parent \in {"exited", "killed"}

CopyEnds == <>CopyOver
=============================================================================
