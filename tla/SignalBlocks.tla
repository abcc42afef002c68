---------------------------- MODULE SignalBlocks ----------------------------
(***************************************************************************)
(* stopy2/prog16a/prog16a.c: the parent copies b blocks from a device to a *)
(* file while its child sends it SIGUSR1 all the time, so that read and    *)
(* write are cut short.  At the end kill(0, SIGUSR1) should end the child, *)
(* which has reset SIGUSR1 to the default, if it has got so far by then.   *)
(*                                                                         *)
(* A block is a number of units; failing calls are left out.  SIGUSR1 is   *)
(* delivered some time after it was sent and merges with a pending one.    *)
(***************************************************************************)
EXTENDS Naturals

CONSTANTS Blocks,        \* b
          BlockSize,     \* s
          MaxSent        \* bound: signals sent before the parent waits

ASSUME BlocksAssumption ==
    Blocks \in Nat \ {0} /\ BlockSize \in Nat \ {0} /\ MaxSent \in Nat

VARIABLES
    copier,         \* where the parent is
    block,          \* i in parent_work
    len,            \* len in bulk_read or bulk_write
    count,          \* what bulk_read has returned
    fileSize,
    sender,         \* where the child is ("stray": it signals a process of others)
    sig_count,
    sent,           \* signals the child has sent
    usr1For         \* processes for which SIGUSR1 is pending

blocksVars == <<copier, block, len, count, fileSize, sender, sig_count, sent, usr1For>>

BlocksInit ==
    /\ copier = "bulk_read"
    /\ block = 0 /\ len = 0 /\ count = 0 /\ fileSize = 0
    /\ sender = "start"
    /\ sig_count = 0 /\ sent = 0 /\ usr1For = {}

-----------------------------------------------------------------------------
(* parent_work                                                             *)

\* Mutant: what the first read returns is taken for the block.
bulk_read_Once ==
    /\ copier = "bulk_read"
    /\ \E c \in 1..BlockSize : count' = c
    /\ copier' = "bulk_write"
    /\ UNCHANGED <<block, len, fileSize, sender, sig_count, sent, usr1For>>

\* One read; the device always has something to give, and a signal cuts it short.
bulk_read ==
    /\ copier = "bulk_read"
    /\ \E c \in 1..(BlockSize - len) :
          IF len + c = BlockSize
          THEN count' = len + c /\ len' = 0 /\ copier' = "bulk_write"
          ELSE len' = len + c /\ UNCHANGED <<count, copier>>
    /\ UNCHANGED <<block, fileSize, sender, sig_count, sent, usr1For>>

\* One write.
bulk_write ==
    /\ copier = "bulk_write"
    /\ \E c \in 1..(count - len) :
          /\ fileSize' = fileSize + c
          /\ IF len + c = count
             THEN len' = 0 /\ copier' = "report"
             ELSE len' = len + c /\ UNCHANGED copier
    /\ UNCHANGED <<block, count, sender, sig_count, sent, usr1For>>

ReportBlock ==
    /\ copier = "report"
    /\ block' = block + 1
    /\ copier' = IF block' < Blocks THEN "bulk_read" ELSE "kill"
    /\ UNCHANGED <<len, count, fileSize, sender, sig_count, sent, usr1For>>

\* kill(0, SIGUSR1): the parent takes its own signal before kill returns.
KillGroup ==
    /\ copier = "kill"
    /\ usr1For' = (usr1For \ {"parent"}) \cup {"child"}
    /\ sig_count' = sig_count + 1
    /\ copier' = "before wait"
    /\ UNCHANGED <<block, len, count, fileSize, sender, sent>>

CallWait ==
    /\ copier = "before wait"
    /\ copier' = "wait"
    /\ UNCHANGED <<block, len, count, fileSize, sender, sig_count, sent, usr1For>>

\* wait has nobody to wait for any more.
WaitReturns ==
    /\ copier = "wait"
    /\ sender = "dead"
    /\ copier' = "exited"
    /\ UNCHANGED <<block, len, count, fileSize, sender, sig_count, sent, usr1For>>

CopierStep ==
    bulk_read \/ bulk_write \/ ReportBlock \/ KillGroup \/ CallWait \/ WaitReturns

\* sig_handler; wait, interrupted, returns -1, which ends the loop around it.
TakeUsr1ByParent ==
    /\ "parent" \in usr1For /\ copier # "exited"
    /\ usr1For' = usr1For \ {"parent"}
    /\ sig_count' = sig_count + 1
    /\ copier' = IF copier = "wait" THEN "exited" ELSE copier
    /\ UNCHANGED <<block, len, count, fileSize, sender, sent>>

-----------------------------------------------------------------------------
(* child_work                                                              *)

\* Before this the child has the handler of its parent.
ResetHandler ==
    /\ sender = "start"
    /\ sender' = "send"
    /\ UNCHANGED <<copier, block, len, count, fileSize, sig_count, sent, usr1For>>

SendUsr1 ==
    /\ sender = "send"
    /\ copier # "exited"
    /\ \/ sent < MaxSent
       \/ copier = "wait" /\ "parent" \notin usr1For
    /\ sent' = sent + 1
    /\ usr1For' = usr1For \cup {"parent"}
    /\ UNCHANGED <<copier, block, len, count, fileSize, sender, sig_count>>

\* getppid of an orphan is a process that is not of this program: init or a subreaper.
\* The child may not send to it, and ERR ends the child; or it may (as root, or to a
\* subreaper of the same user), and does so from now on.
SendAsOrphan ==
    /\ sender = "send"
    /\ copier = "exited"
    /\ \/ sender' = "dead" /\ usr1For' = {}
       \/ sender' = "stray" /\ usr1For' = usr1For \ {"parent"}
    /\ UNCHANGED <<copier, block, len, count, fileSize, sig_count, sent>>

TakeUsr1ByChild ==
    /\ "child" \in usr1For
    /\ usr1For' = usr1For \ {"child"}
    /\ sender' = IF sender = "start" THEN "start" ELSE "dead"
    /\ UNCHANGED <<copier, block, len, count, fileSize, sig_count, sent>>

SenderStep == ResetHandler \/ SendUsr1 \/ SendAsOrphan

BlocksNext == CopierStep \/ TakeUsr1ByParent \/ SenderStep \/ TakeUsr1ByChild

BlocksSpec == BlocksInit /\ [][BlocksNext]_blocksVars

\* Both processes go on, and get their signals.
BlocksFairness ==
    /\ WF_blocksVars(CopierStep) /\ WF_blocksVars(TakeUsr1ByParent)
    /\ WF_blocksVars(SenderStep) /\ WF_blocksVars(TakeUsr1ByChild)

-----------------------------------------------------------------------------
BlocksTypeOK ==
    /\ copier \in {"bulk_read", "bulk_write", "report", "kill", "before wait", "wait", "exited"}
    /\ block \in 0..Blocks
    /\ len \in 0..(BlockSize - 1) /\ count \in 0..BlockSize
    /\ fileSize \in 0..(Blocks * BlockSize)
    /\ sender \in {"start", "send", "stray", "dead"}
    /\ sent \in 0..(MaxSent + 1) /\ sig_count \in 0..(sent + 1)
    /\ usr1For \subseteq {"parent", "child"}

\* Every block is copied whole, however often signals cut read and write short.
BlocksComplete == fileSize = block * BlockSize + (IF copier = "report" THEN BlockSize
                                                  ELSE IF copier = "bulk_write" THEN len ELSE 0)

\* The parent ends, and so does the child, unless it may signal who adopts it.  A child
\* that gets the last SIGUSR1 too early, while it still has its parent's handler, ends
\* its parent's wait by the next signal it sends, and is an orphan from then on.
BlocksOver == copier = "exited" /\ sender \in {"dead", "stray"}

BlocksEnd == <>BlocksOver
=============================================================================
