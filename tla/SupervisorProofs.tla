--------------------------- MODULE SupervisorProofs ---------------------------
(***************************************************************************)
(* Proofs about Supervisor, for any set of directories, of process         *)
(* identifiers, and any length of the table.                               *)
(***************************************************************************)
EXTENDS Supervisor, TLAPS

-----------------------------------------------------------------------------
(* The inductive invariant.                                                *)

\* The table's copy of the paths is what the child was started with.
TableMatches == \A i \in Slot : pids[i] # NoPid => pid_jobs[i] = job[pids[i]]

\* A free identifier carries nothing over to the process that reuses it.
FreeIsClean ==
    \A p \in Pid :
        /\ child[p] = "free" => job[p] = NoJob /\ p \notin termed
        /\ child[p] # "free" => job[p] \in Job

\* A child that is in no slot and was not complained about was forgotten by an
\* "end" that a signal interrupted, and the program is on its way out.
Forgotten(p) == child[p] # "free" /\ ~Listed(p) /\ p \notin unlisted

AfterForgetting == {"loop", "end", "endScan", "endCall", "endWait",
                    "finish", "exited"}

ForgottenOnlyAtEnd ==
    \A p \in Pid :
        Forgotten(p) => ~main_keep_running /\ pc \in AfterForgetting /\ p \in termed

UnlistedApart == \A p \in unlisted : child[p] # "free" /\ ~Listed(p)

JobsDistinct ==
    \A p, q \in Pid \ unlisted :
        child[p] # "free" /\ child[q] # "free" /\ job[p] = job[q] => p = q

CmdFresh == pc \in {"fork", "restore"} => ~Duplicate(cmd)

CmdIsJob ==
    pc \in {"add", "fork", "end", "endScan", "endCall", "endWait", "restore"}
    => cmd \in Job

WaitsForSignalled ==
    pc \in {"endCall", "endWait"} => pids[slot] # NoPid /\ pids[slot] \in termed

ExitTermed ==
    pc = "exited" => \A i \in Slot : pids[i] # NoPid => pids[i] \in termed

IInv ==
    /\ TypeOK
    /\ NoStrayKill
    /\ TableMatches
    /\ FreeIsClean
    /\ ForgottenOnlyAtEnd
    /\ UnlistedApart
    /\ JobsDistinct
    /\ CmdFresh
    /\ CmdIsJob
    /\ WaitsForSignalled
    /\ ExitTermed

-----------------------------------------------------------------------------
(* Initially.                                                              *)

LEMMA InitIInv == Init => IInv
<1> SUFFICES ASSUME Init PROVE IInv
  OBVIOUS
<1> USE ConstAssumption
<1>1. TypeOK
  BY DEF Init, TypeOK, MainPc, ChildPc, Slot
<1>2. NoStrayKill /\ TableMatches /\ FreeIsClean
  BY DEF Init, NoStrayKill, TableMatches, FreeIsClean
<1>3. ForgottenOnlyAtEnd /\ UnlistedApart /\ JobsDistinct
  BY DEF Init, ForgottenOnlyAtEnd, Forgotten, UnlistedApart, JobsDistinct
<1>4. CmdFresh /\ CmdIsJob /\ WaitsForSignalled /\ ExitTermed
  BY DEF Init, CmdFresh, CmdIsJob, WaitsForSignalled, ExitTermed
<1> QED
  BY <1>1, <1>2, <1>3, <1>4 DEF IInv

-----------------------------------------------------------------------------
(* The steps that leave the table and the children alone.                  *)

\* Such a step only has to keep the program on its way out once it forgot a
\* child, and to have a fresh, proper job where the code relies on one.
LEMMA QuietStep ==
  ASSUME IInv, TypeOK', UNCHANGED <<tableVars, childVars>>,
         main_keep_running' = main_keep_running,
         ~main_keep_running /\ pc \in AfterForgetting => pc' \in AfterForgetting,
         CmdFresh', CmdIsJob', WaitsForSignalled', ExitTermed'
  PROVE  IInv'
<1> USE DEF IInv, tableVars, childVars
<1>1. NoStrayKill' /\ TableMatches' /\ FreeIsClean'
  BY DEF NoStrayKill, TableMatches, FreeIsClean
<1>2. ForgottenOnlyAtEnd'
  BY DEF ForgottenOnlyAtEnd, Forgotten, Listed
<1>3. UnlistedApart' /\ JobsDistinct'
  BY DEF UnlistedApart, JobsDistinct, Listed
<1> QED
  BY <1>1, <1>2, <1>3

LEMMA QuietActions ==
  ASSUME IInv,
         \/ LoopTest \/ Exit \/ Reject \/ CommandDone
         \/ \E s \in Src : ReadCommand("add", s) \/ ReadCommand("end", s)
         \/ \E d \in Dst : AddTarget(d) \/ EndTarget(d)
         \/ \E s \in Src, d \in Dst : RestoreBegin(s, d)
         \/ ForkFails \/ EndScanDone \/ EndCall \/ RestoreEnd
  PROVE  IInv'
<1> DEFINE Quiet == /\ TypeOK' /\ UNCHANGED <<tableVars, childVars>>
                    /\ main_keep_running' = main_keep_running
                    /\ ~main_keep_running /\ pc \in AfterForgetting
                       => pc' \in AfterForgetting
                    /\ CmdFresh' /\ CmdIsJob' /\ WaitsForSignalled' /\ ExitTermed'
<1> USE ConstAssumption
<1> USE DEF IInv, Goto, clear_args, TypeOK, MainPc, AfterForgetting, CmdFresh,
            CmdIsJob, WaitsForSignalled, ExitTermed, Duplicate, Slot, Job,
            tableVars, childVars
<1>1. CASE LoopTest \/ Exit \/ Reject \/ CommandDone \/ RestoreEnd
  <2>1. Quiet
    BY <1>1 DEF LoopTest, Exit, Reject, CommandDone, RestoreEnd
  <2> QED
    BY <2>1, QuietStep
<1>2. CASE ForkFails \/ EndScanDone \/ EndCall
  <2>1. Quiet
    BY <1>2 DEF ForkFails, EndScanDone, EndCall
  <2> QED
    BY <2>1, QuietStep
<1>3. CASE \E s \in Src : ReadCommand("add", s) \/ ReadCommand("end", s)
  <2>1. Quiet
    BY <1>3 DEF ReadCommand
  <2> QED
    BY <2>1, QuietStep
<1>4. ASSUME NEW d \in Dst, AddTarget(d) PROVE IInv'
  <2>1. cmd' \in Job /\ pc' \in {"add", "fork"}
    BY <1>4 DEF AddTarget
  <2>2. pc' = "fork" => ~Duplicate(cmd')
    BY <1>4 DEF AddTarget
  <2>3. Quiet
    BY <1>4, <2>1, <2>2 DEF AddTarget
  <2> QED
    BY <2>3, QuietStep
<1>5. ASSUME NEW d \in Dst, EndTarget(d) PROVE IInv'
  <2>1. Quiet
    BY <1>5 DEF EndTarget
  <2> QED
    BY <2>1, QuietStep
<1>6. ASSUME NEW s \in Src, NEW d \in Dst, RestoreBegin(s, d) PROVE IInv'
  <2>1. Quiet
    BY <1>6 DEF RestoreBegin
  <2> QED
    BY <2>1, QuietStep
<1> QED
  BY <1>1, <1>2, <1>3, <1>4, <1>5, <1>6


-----------------------------------------------------------------------------
(* Signals.                                                                *)

\* Sending SIGTERM to children only moves them within the states of a running
\* process and records that they were signalled.
LEMMA KillKeeps ==
  ASSUME IInv, NEW P \in SUBSET Pid, Kill(P), UNCHANGED <<tableVars, job>>,
         \A p \in P : child[p] # "free"
  PROVE  /\ keep_running' \in [Pid -> BOOLEAN]
         /\ child' \in [Pid -> ChildPc]
         /\ termed' \subseteq Pid
         /\ \A p \in Pid : child'[p] = "free" <=> child[p] = "free"
         /\ NoStrayKill' /\ TableMatches' /\ FreeIsClean'
         /\ UnlistedApart' /\ JobsDistinct'
<1> USE DEF IInv, TypeOK, tableVars
<1>1. /\ keep_running' \in [Pid -> BOOLEAN]
      /\ child' \in [Pid -> ChildPc]
      /\ termed' \subseteq Pid
  BY DEF Kill, ChildPc
<1>2. \A p \in Pid : child'[p] = "free" <=> child[p] = "free"
  BY DEF Kill
<1>3. NoStrayKill' /\ TableMatches'
  BY <1>2 DEF NoStrayKill, TableMatches
<1>4. FreeIsClean'
  BY <1>2 DEF FreeIsClean, Kill
<1>5. UnlistedApart' /\ JobsDistinct'
  BY <1>2 DEF UnlistedApart, JobsDistinct, Listed
<1> QED
  BY <1>1, <1>2, <1>3, <1>4, <1>5

LEMMA EndKillStep == ASSUME IInv, EndKill PROVE IInv'
<1> USE ConstAssumption
<1> PICK i \in Slot : /\ Matches(i) /\ slot' = i /\ Kill({pids[i]})
  BY DEF EndKill
<1>1. pids[i] \in Pid /\ child[pids[i]] # "free"
  BY DEF IInv, TypeOK, NoStrayKill, Matches
<1>2. pc = "endScan" /\ pc' = "endCall"
      /\ UNCHANGED <<cmd, main_keep_running, tableVars, job>>
  BY DEF EndKill
<1>3. /\ keep_running' \in [Pid -> BOOLEAN]
      /\ child' \in [Pid -> ChildPc]
      /\ termed' \subseteq Pid
      /\ \A p \in Pid : child'[p] = "free" <=> child[p] = "free"
      /\ NoStrayKill' /\ TableMatches' /\ FreeIsClean'
      /\ UnlistedApart' /\ JobsDistinct'
  BY <1>1, <1>2, KillKeeps
<1>4. TypeOK'
  BY <1>2, <1>3 DEF IInv, TypeOK, MainPc, tableVars
<1>5. ForgottenOnlyAtEnd'
  BY <1>2, <1>3 DEF IInv, ForgottenOnlyAtEnd, Forgotten, Listed, AfterForgetting,
                    Kill, tableVars
<1>6. CmdFresh' /\ CmdIsJob' /\ ExitTermed'
  BY <1>2 DEF IInv, CmdFresh, CmdIsJob, ExitTermed
<1>7. WaitsForSignalled'
  BY <1>1, <1>2 DEF WaitsForSignalled, Kill, Matches, tableVars
<1> QED
  BY <1>3, <1>4, <1>5, <1>6, <1>7 DEF IInv

LEMMA FinishStep == ASSUME IInv, Finish PROVE IInv'
<1> USE ConstAssumption
<1> DEFINE P == {pids[i] : i \in {k \in Slot : pids[k] # NoPid}}
<1>1. P \in SUBSET Pid /\ \A p \in P : child[p] # "free"
  BY DEF IInv, TypeOK, NoStrayKill
<1>2. pc = "finish" /\ pc' = "exited" /\ Kill(P)
      /\ UNCHANGED <<cmd, slot, main_keep_running, tableVars, job>>
  BY DEF Finish, Goto
<1>3. /\ keep_running' \in [Pid -> BOOLEAN]
      /\ child' \in [Pid -> ChildPc]
      /\ termed' \subseteq Pid
      /\ \A p \in Pid : child'[p] = "free" <=> child[p] = "free"
      /\ NoStrayKill' /\ TableMatches' /\ FreeIsClean'
      /\ UnlistedApart' /\ JobsDistinct'
  BY <1>1, <1>2, KillKeeps
<1>4. TypeOK'
  BY <1>2, <1>3 DEF IInv, TypeOK, MainPc, tableVars
<1>5. ForgottenOnlyAtEnd'
  BY <1>2, <1>3 DEF IInv, ForgottenOnlyAtEnd, Forgotten, Listed, AfterForgetting,
                    Kill, tableVars
<1>6. CmdFresh' /\ CmdIsJob' /\ WaitsForSignalled'
  BY <1>2 DEF IInv, CmdFresh, CmdIsJob, WaitsForSignalled
<1>7. ExitTermed'
  BY <1>1, <1>2 DEF ExitTermed, Kill, tableVars
<1> QED
  BY <1>3, <1>4, <1>5, <1>6, <1>7 DEF IInv

\* An interrupted waitpid takes the child out of the table; the flag is down
\* from that moment on, and the child was signalled.
LEMMA MainHandlerStep == ASSUME IInv, main_handler PROVE IInv'
<1> USE ConstAssumption
<1>1. /\ pc # "exited" /\ main_keep_running' = FALSE
      /\ UNCHANGED <<cmd, slot, pid_jobs, unlisted, childVars>>
  BY DEF main_handler
<1>2. CASE WaitBlocked
  <2>1. pc' = "endScan" /\ pids' = [pids EXCEPT ![slot] = NoPid]
    BY <1>2 DEF main_handler, WaitBlocked
  <2>2. TypeOK'
    BY <1>1, <2>1 DEF IInv, TypeOK, MainPc, childVars
  <2>3. NoStrayKill' /\ TableMatches' /\ FreeIsClean'
    BY <1>1, <2>1 DEF IInv, TypeOK, NoStrayKill, TableMatches, FreeIsClean, childVars
  <2>4. \A p \in Pid : Listed(p) /\ ~Listed(p)' => p = pids[slot]
    BY <2>1 DEF IInv, TypeOK, Listed
  <2>5. \A p \in Pid : Listed(p)' => Listed(p)
    BY <2>1 DEF IInv, TypeOK, Listed
  <2>6. ForgottenOnlyAtEnd'
    BY <1>1, <1>2, <2>1, <2>4 DEF IInv, ForgottenOnlyAtEnd, Forgotten, WaitsForSignalled,
                                        AfterForgetting, WaitBlocked, childVars
  <2>7. UnlistedApart' /\ JobsDistinct'
    BY <1>1, <2>5 DEF IInv, TypeOK, UnlistedApart, JobsDistinct, childVars
  <2>8. CmdFresh' /\ CmdIsJob' /\ WaitsForSignalled' /\ ExitTermed'
    BY <1>1, <1>2, <2>1 DEF IInv, CmdFresh, CmdIsJob, WaitsForSignalled, ExitTermed, WaitBlocked
  <2> QED
    BY <2>2, <2>3, <2>6, <2>7, <2>8 DEF IInv
<1>3. CASE ~WaitBlocked
  <2>1. /\ pc' = IF pc = "fgets" THEN "finish" ELSE pc
        /\ pids' = pids
    BY <1>1, <1>3 DEF main_handler, WaitBlocked
  <2>2. TypeOK'
    BY <1>1, <2>1 DEF IInv, TypeOK, MainPc, childVars
  <2>3. NoStrayKill' /\ TableMatches' /\ FreeIsClean'
    BY <1>1, <2>1 DEF IInv, NoStrayKill, TableMatches, FreeIsClean, childVars
  <2>4. ForgottenOnlyAtEnd' /\ UnlistedApart' /\ JobsDistinct'
    BY <1>1, <2>1 DEF IInv, ForgottenOnlyAtEnd, Forgotten, UnlistedApart, JobsDistinct,
                 Listed, AfterForgetting, childVars
  <2>5. CmdFresh' /\ CmdIsJob' /\ WaitsForSignalled' /\ ExitTermed'
    BY <1>1, <2>1 DEF IInv, CmdFresh, CmdIsJob, WaitsForSignalled, ExitTermed,
                      Duplicate, childVars
  <2> QED
    BY <2>2, <2>3, <2>4, <2>5 DEF IInv
<1> QED
  BY <1>2, <1>3


-----------------------------------------------------------------------------
(* Reaping.                                                                *)

\* Every slot of R, whose child is a zombie, is freed and its child reaped.
LEMMA ReapKeeps ==
  ASSUME IInv, NEW R \in SUBSET Slot,
         \A i \in R : pids[i] # NoPid,
         pids' = [i \in Slot |-> IF i \in R THEN NoPid ELSE pids[i]],
         Gone({pids[i] : i \in R}),
         UNCHANGED <<pid_jobs, unlisted>>
  PROVE  /\ pids' \in [Slot -> Pid \cup {NoPid}]
         /\ child' \in [Pid -> ChildPc]
         /\ job' \in [Pid -> Job \cup {NoJob}]
         /\ keep_running' \in [Pid -> BOOLEAN]
         /\ termed' \subseteq Pid
         /\ NoStrayKill' /\ TableMatches' /\ FreeIsClean'
         /\ UnlistedApart' /\ JobsDistinct'
         /\ \A p \in Pid : Forgotten(p)' => Forgotten(p)
         /\ \A p \in Pid : Forgotten(p)' /\ p \in termed => p \in termed'
<1> USE ConstAssumption DEF IInv, TypeOK, Gone
<1>1. /\ pids' \in [Slot -> Pid \cup {NoPid}]
      /\ child' \in [Pid -> ChildPc]
      /\ job' \in [Pid -> Job \cup {NoJob}]
      /\ keep_running' \in [Pid -> BOOLEAN]
      /\ termed' \subseteq Pid
  BY DEF ChildPc
<1> DEFINE G == {pids[i] : i \in R}
<1>2. \A i \in Slot : pids'[i] # NoPid => pids'[i] = pids[i] /\ pids[i] \notin G
  BY DEF NoStrayKill
<1>3. \A p \in Pid : p \in G => Listed(p)
  BY DEF Listed
<1>4. \A p \in Pid : Listed(p) /\ p \notin G => Listed(p)'
  BY DEF Listed
<1>5. \A p \in Pid : Listed(p)' => Listed(p)
  BY <1>2 DEF Listed
<1>6. NoStrayKill' /\ TableMatches'
  BY <1>1, <1>2 DEF NoStrayKill, TableMatches
<1>7. FreeIsClean'
  BY DEF FreeIsClean
<1>8. UnlistedApart'
  BY <1>3, <1>5 DEF UnlistedApart
<1>9. JobsDistinct'
  BY DEF JobsDistinct, FreeIsClean
<1>10. \A p \in Pid : Forgotten(p)' => Forgotten(p)
  BY <1>3, <1>4 DEF Forgotten
<1>11. \A p \in Pid : Forgotten(p)' /\ p \in termed => p \in termed'
  BY DEF Forgotten
<1> QED
  BY <1>1, <1>6, <1>7, <1>8, <1>9, <1>10, <1>11

LEMMA ForkbombStep == ASSUME IInv, Reap \/ cmd_list PROVE IInv'
<1> USE ConstAssumption
<1>1. /\ pc \in {"reap", "fgets"} /\ pc' \in {"loop", "fgets"}
      /\ UNCHANGED <<cmd, slot, main_keep_running, pid_jobs, unlisted>>
      /\ pids' = [i \in Slot |-> IF i \in Reapable THEN NoPid ELSE pids[i]]
      /\ Gone({pids[i] : i \in Reapable})
  BY DEF Reap, cmd_list, Goto, forkbomb_protector
<1>2. Reapable \in SUBSET Slot /\ \A i \in Reapable : pids[i] # NoPid
  BY DEF Reapable
<1>3. /\ pids' \in [Slot -> Pid \cup {NoPid}]
      /\ child' \in [Pid -> ChildPc]
      /\ job' \in [Pid -> Job \cup {NoJob}]
      /\ keep_running' \in [Pid -> BOOLEAN]
      /\ termed' \subseteq Pid
      /\ NoStrayKill' /\ TableMatches' /\ FreeIsClean'
      /\ UnlistedApart' /\ JobsDistinct'
      /\ \A p \in Pid : Forgotten(p)' => Forgotten(p)
  BY <1>1, <1>2, ReapKeeps
<1>4. TypeOK'
  BY <1>1, <1>3 DEF IInv, TypeOK, MainPc
<1>5. ForgottenOnlyAtEnd'
  BY <1>1, <1>3 DEF IInv, ForgottenOnlyAtEnd, AfterForgetting
<1>6. CmdFresh' /\ CmdIsJob' /\ WaitsForSignalled' /\ ExitTermed'
  BY <1>1 DEF IInv, CmdFresh, CmdIsJob, WaitsForSignalled, ExitTermed
<1> QED
  BY <1>3, <1>4, <1>5, <1>6 DEF IInv

LEMMA EndReturnStep == ASSUME IInv, EndReturn PROVE IInv'
<1> USE ConstAssumption
<1>1. /\ pc = "endWait" /\ pc' = "endScan"
      /\ UNCHANGED <<cmd, slot, main_keep_running, pid_jobs, unlisted>>
      /\ pids' = [pids EXCEPT ![slot] = NoPid]
      /\ Gone({pids[slot]})
  BY DEF EndReturn, Goto
<1>2. /\ {slot} \in SUBSET Slot /\ \A i \in {slot} : pids[i] # NoPid
      /\ {pids[i] : i \in {slot}} = {pids[slot]}
      /\ pids' = [i \in Slot |-> IF i \in {slot} THEN NoPid ELSE pids[i]]
  BY <1>1 DEF IInv, TypeOK, WaitsForSignalled
<1>3. /\ pids' \in [Slot -> Pid \cup {NoPid}]
      /\ child' \in [Pid -> ChildPc]
      /\ job' \in [Pid -> Job \cup {NoJob}]
      /\ keep_running' \in [Pid -> BOOLEAN]
      /\ termed' \subseteq Pid
      /\ NoStrayKill' /\ TableMatches' /\ FreeIsClean'
      /\ UnlistedApart' /\ JobsDistinct'
      /\ \A p \in Pid : Forgotten(p)' => Forgotten(p)
      /\ \A p \in Pid : Forgotten(p)' /\ p \in termed => p \in termed'
  BY <1>1, <1>2, ReapKeeps
<1>4. TypeOK'
  BY <1>1, <1>3 DEF IInv, TypeOK, MainPc
<1>5. ForgottenOnlyAtEnd'
  BY <1>1, <1>3 DEF IInv, ForgottenOnlyAtEnd, AfterForgetting
<1>6. CmdFresh' /\ CmdIsJob' /\ WaitsForSignalled' /\ ExitTermed'
  BY <1>1 DEF IInv, CmdFresh, CmdIsJob, WaitsForSignalled, ExitTermed
<1> QED
  BY <1>3, <1>4, <1>5, <1>6 DEF IInv

-----------------------------------------------------------------------------
(* Forking.                                                                *)

LEMMA ForkStep == ASSUME IInv, NEW p \in Pid, Fork(p) PROVE IInv'
<1> USE ConstAssumption
<1>1. /\ pc = "fork" /\ pc' = "add" /\ child[p] = "free"
      /\ child' = [child EXCEPT ![p] = "forked"]
      /\ job' = [job EXCEPT ![p] = cmd]
      /\ UNCHANGED <<cmd, slot, main_keep_running, keep_running, termed>>
  BY DEF Fork, Goto
<1>2. /\ cmd \in Job /\ p \notin unlisted /\ ~Listed(p) /\ ~Duplicate(cmd)
      /\ \A q \in Pid : ~Forgotten(q)
  BY <1>1 DEF IInv, CmdIsJob, CmdFresh, UnlistedApart, NoStrayKill, Listed,
              ForgottenOnlyAtEnd, AfterForgetting
<1>3. \A q \in Pid \ unlisted : child[q] # "free" => job[q] # cmd
  BY <1>2 DEF IInv, Forgotten, Listed, TableMatches, Duplicate
<1>4. FreeIsClean' /\ CmdFresh' /\ CmdIsJob' /\ WaitsForSignalled' /\ ExitTermed'
  BY <1>1, <1>2 DEF IInv, TypeOK, FreeIsClean, CmdFresh, CmdIsJob, WaitsForSignalled,
                    ExitTermed
<1>5. CASE \E i \in Slot : /\ FirstFree(i)
                           /\ pids' = [pids EXCEPT ![i] = p]
                           /\ pid_jobs' = [pid_jobs EXCEPT ![i] = cmd]
                           /\ UNCHANGED unlisted
  <2> PICK i \in Slot : /\ pids[i] = NoPid
                        /\ pids' = [pids EXCEPT ![i] = p]
                        /\ pid_jobs' = [pid_jobs EXCEPT ![i] = cmd]
                        /\ UNCHANGED unlisted
    BY <1>5 DEF FirstFree
  <2>1. TypeOK'
    BY <1>1, <1>2 DEF IInv, TypeOK, MainPc, ChildPc
  <2>2. NoStrayKill' /\ TableMatches'
    BY <1>1, <1>2 DEF IInv, TypeOK, NoStrayKill, TableMatches, Listed
  <2>3. \A q \in Pid : Listed(q)' <=> q = p \/ Listed(q)
    BY DEF IInv, TypeOK, Listed
  <2>4. ForgottenOnlyAtEnd' /\ UnlistedApart'
    BY <1>1, <1>2, <2>3 DEF IInv, TypeOK, ForgottenOnlyAtEnd, Forgotten, UnlistedApart
  <2>5. JobsDistinct'
    BY <1>1, <1>3 DEF IInv, TypeOK, JobsDistinct
  <2> QED
    BY <1>4, <2>1, <2>2, <2>4, <2>5 DEF IInv
<1>6. CASE unlisted' = unlisted \cup {p} /\ UNCHANGED <<pids, pid_jobs>>
  <2>1. TypeOK'
    BY <1>1, <1>2, <1>6 DEF IInv, TypeOK, MainPc, ChildPc
  <2>2. NoStrayKill' /\ TableMatches'
    BY <1>1, <1>2, <1>6 DEF IInv, TypeOK, NoStrayKill, TableMatches, Listed
  <2>3. ForgottenOnlyAtEnd' /\ UnlistedApart'
    BY <1>1, <1>2, <1>6 DEF IInv, TypeOK, ForgottenOnlyAtEnd, Forgotten, UnlistedApart,
                            Listed
  <2>4. JobsDistinct'
    BY <1>1, <1>6 DEF IInv, TypeOK, JobsDistinct
  <2> QED
    BY <1>4, <2>1, <2>2, <2>3, <2>4 DEF IInv
<1> QED
  BY <1>5, <1>6 DEF Fork, add_to_pids_list

-----------------------------------------------------------------------------
(* The children.                                                           *)

LEMMA ChildStepKeeps ==
  ASSUME IInv, NEW p \in Pid, ChildStep(p) \/ ReadReturns(p)
  PROVE  IInv'
<1> USE ConstAssumption
<1>1. /\ child[p] # "free"
      /\ \E l \in ChildPc \ {"free"} : child' = [child EXCEPT ![p] = l]
      /\ \/ UNCHANGED keep_running
         \/ keep_running' = [keep_running EXCEPT ![p] = FALSE]
      /\ UNCHANGED <<mainVars, tableVars, job, termed>>
  BY DEF ChildStep, ReadReturns, InstallHandlers, WorkDone, LoopCheck, EnterRead,
         RootGone, ChildFails, ChildGoto, ChildPc
<1>2. \A q \in Pid : child'[q] = "free" <=> child[q] = "free"
  BY <1>1 DEF IInv, TypeOK
<1> USE DEF IInv, mainVars, tableVars
<1>3. TypeOK'
  <2>1. child' \in [Pid -> ChildPc]
    BY <1>1 DEF TypeOK
  <2>2. keep_running' \in [Pid -> BOOLEAN]
    <3>1. CASE UNCHANGED keep_running
      BY <3>1 DEF TypeOK
    <3>2. CASE keep_running' = [keep_running EXCEPT ![p] = FALSE]
      BY <3>2, Zenon DEF TypeOK
    <3> QED
      BY <1>1, <3>1, <3>2
  <2> QED
    BY <1>1, <2>1, <2>2 DEF TypeOK
<1>4. NoStrayKill' /\ TableMatches' /\ FreeIsClean'
  BY <1>1, <1>2 DEF TypeOK, NoStrayKill, TableMatches, FreeIsClean
<1>5. ForgottenOnlyAtEnd' /\ UnlistedApart' /\ JobsDistinct'
  BY <1>1, <1>2 DEF TypeOK, ForgottenOnlyAtEnd, Forgotten, UnlistedApart,
                    JobsDistinct, Listed
<1>6. CmdFresh' /\ CmdIsJob' /\ WaitsForSignalled' /\ ExitTermed'
  BY <1>1 DEF CmdFresh, CmdIsJob, WaitsForSignalled, ExitTermed, Duplicate
<1> QED
  BY <1>3, <1>4, <1>5, <1>6

-----------------------------------------------------------------------------
(* The theorems.                                                           *)

LEMMA NextIInv == IInv /\ [Next]_vars => IInv'
<1> SUFFICES ASSUME IInv, [Next]_vars PROVE IInv'
  OBVIOUS
<1>1. CASE MainStep
  BY <1>1, QuietActions, ForkbombStep, ForkStep, EndKillStep, EndReturnStep, FinishStep
     DEF MainStep
<1>2. CASE main_handler
  BY <1>2, MainHandlerStep
<1>3. CASE \E p \in Pid : ChildStep(p) \/ ReadReturns(p)
  BY <1>3, ChildStepKeeps
<1>4. CASE UNCHANGED vars
  BY <1>4 DEF vars, mainVars, tableVars, childVars, IInv, TypeOK, NoStrayKill,
      TableMatches, FreeIsClean, ForgottenOnlyAtEnd, Forgotten, UnlistedApart, Listed,
      JobsDistinct, CmdFresh, Duplicate, CmdIsJob, WaitsForSignalled, ExitTermed
<1> QED
  BY <1>1, <1>2, <1>3, <1>4 DEF Next

\* The inductive invariant holds in every reachable state.
THEOREM Invariance == Spec => []IInv
  BY InitIInv, NextIInv, PTL DEF Spec

\* Type correctness.
THEOREM TypeCorrect == Spec => []TypeOK
<1>1. IInv => TypeOK
  BY DEF IInv
<1> QED
  BY <1>1, Invariance, PTL

\* kill and waitpid never reach a process that is not an unreaped child.
THEOREM NoStrayKillHolds == Spec => []NoStrayKill
<1>1. IInv => NoStrayKill
  BY DEF IInv
<1> QED
  BY <1>1, Invariance, PTL

\* The table knows every running child, up to the two exceptions of the code.
THEOREM EveryChildListedHolds == Spec => []EveryChildListed
<1>1. IInv => EveryChildListed
  BY DEF IInv, EveryChildListed, ForgottenOnlyAtEnd, Forgotten, Live
<1> QED
  BY <1>1, Invariance, PTL

\* No two children mirror the same source into the same backup.
THEOREM OneMirrorPerJobHolds == Spec => []OneMirrorPerJob
<1>1. IInv => OneMirrorPerJob
  BY DEF IInv, OneMirrorPerJob, JobsDistinct, Live
<1> QED
  BY <1>1, Invariance, PTL

\* Every child that is still running at exit was told to stop.
THEOREM ExitSignalsAllHolds == Spec => []ExitSignalsAll
<1>1. IInv => ExitSignalsAll
  BY ConstAssumption DEF IInv, ExitSignalsAll, ExitTermed, ForgottenOnlyAtEnd,
      Forgotten, Live, Listed
<1> QED
  BY <1>1, Invariance, PTL


\* No step frees a slot without reaping its child, except on the way out.
THEOREM SlotFreedByReapingHolds == Spec => SlotFreedByReaping
<1> DEFINE Freed == \A i \in Slot :
                       pids[i] # NoPid /\ pids'[i] # pids[i]
                       => child'[pids[i]] = "free" \/ ~main_keep_running'
<1>1. IInv /\ [Next]_vars => [Freed]_vars
  <2> SUFFICES ASSUME IInv, Next PROVE Freed
    OBVIOUS
  <2> USE DEF IInv, TypeOK
  <2>1. CASE Reap \/ cmd_list
    BY <2>1 DEF Reap, cmd_list, forkbomb_protector, Gone
  <2>2. CASE EndReturn
    BY <2>2 DEF EndReturn, Gone
  <2>3. ASSUME NEW p \in Pid, Fork(p) PROVE Freed
    BY <2>3 DEF Fork, add_to_pids_list, FirstFree
  <2>4. CASE main_handler
    BY <2>4 DEF main_handler
  <2>5. CASE UNCHANGED pids
    BY <2>5
  <2>6. CASE MainStep
    BY <2>1, <2>2, <2>3, <2>5, <2>6
       DEF MainStep, LoopTest, Exit, Reject, CommandDone, ReadCommand, AddTarget, EndTarget,
           RestoreBegin, ForkFails, EndKill, EndScanDone, EndCall, RestoreEnd, Finish,
           tableVars
  <2>7. CASE \E p \in Pid : ChildStep(p) \/ ReadReturns(p)
    BY <2>5, <2>7
       DEF ChildStep, ReadReturns, InstallHandlers, WorkDone, LoopCheck, EnterRead,
           RootGone, ChildFails, tableVars
  <2> QED
    BY <2>4, <2>6, <2>7 DEF Next
<1> QED
  BY <1>1, Invariance, PTL DEF Spec, SlotFreedByReaping

-----------------------------------------------------------------------------
(* Refinement: Supervisor implements BackupService.                        *)

\* The jobs being mirrored only depend on which processes run, on their
\* arguments, and on who found the table full.
LEMMA MirroredSame ==
  ASSUME unlisted' = unlisted,
         \A p \in Pid \ unlisted : Live(p)' <=> Live(p),
         \A p \in Pid : Live(p) => job'[p] = job[p]
  PROVE  Mirrored' = Mirrored
  BY DEF Mirrored

LEMMA ServiceStep == IInv /\ [Next]_vars => [Service!Next]_Service!svars
<1> SUFFICES ASSUME IInv, Next PROVE Service!Next \/ UNCHANGED Service!svars
  BY DEF vars, mainVars, tableVars, childVars, Service!svars, Mirrored, Restoring, Live
<1> USE ConstAssumption
<1>1. CASE \/ LoopTest \/ Exit \/ Reject \/ CommandDone \/ ForkFails \/ EndScanDone
           \/ EndCall
           \/ \E s \in Src : ReadCommand("add", s) \/ ReadCommand("end", s)
           \/ \E d \in Dst : AddTarget(d) \/ EndTarget(d)
  <2>1. Mirrored' = Mirrored
    BY <1>1 DEF LoopTest, Exit, Reject, CommandDone, ForkFails, EndScanDone, EndCall,
               ReadCommand, AddTarget, EndTarget, tableVars, childVars, Mirrored, Live
  <2>2. pc # "restore" /\ pc' # "restore"
    BY <1>1 DEF LoopTest, Exit, Reject, CommandDone, ForkFails, EndScanDone, EndCall,
               ReadCommand, AddTarget, EndTarget, Goto, clear_args
  <2> QED
    BY <2>1, <2>2 DEF Restoring, Service!svars
<1>2. CASE Reap \/ cmd_list
  <2>1. Mirrored' = Mirrored
    BY <1>2, MirroredSame DEF IInv, TypeOK, Reap, cmd_list, forkbomb_protector, Reapable,
                              Gone, Live
  <2>2. pc # "restore" /\ pc' # "restore"
    BY <1>2 DEF Reap, cmd_list, Goto
  <2> QED
    BY <2>1, <2>2 DEF Restoring, Service!svars
<1>3. CASE EndReturn
  <2>1. Mirrored' = Mirrored
    BY <1>3, MirroredSame DEF IInv, TypeOK, EndReturn, WaitBlocked, Gone, Live
  <2>2. pc # "restore" /\ pc' # "restore"
    BY <1>3 DEF EndReturn, Goto
  <2> QED
    BY <2>1, <2>2 DEF Restoring, Service!svars
<1>4. CASE EndKill \/ Finish
  <2>1. Mirrored' = Mirrored
    BY <1>4, MirroredSame DEF IInv, TypeOK, EndKill, Finish, Kill, Live, tableVars
  <2>2. pc # "restore" /\ pc' # "restore"
    BY <1>4 DEF EndKill, Finish, Goto
  <2> QED
    BY <2>1, <2>2 DEF Restoring, Service!svars
<1>5. CASE main_handler
  <2>1. Mirrored' = Mirrored
    BY <1>5, MirroredSame DEF main_handler, childVars, Live
  <2>2. (pc' = "restore" <=> pc = "restore") /\ cmd' = cmd
    BY <1>5 DEF main_handler, WaitBlocked
  <2> QED
    BY <2>1, <2>2 DEF Restoring, Service!svars
<1>6. ASSUME NEW s \in Src, NEW d \in Dst, RestoreBegin(s, d) PROVE Service!Next
  <2>1. Mirrored' = Mirrored /\ Restoring = NoJob
    BY <1>6, MirroredSame DEF RestoreBegin, tableVars, childVars, Live, Restoring
  <2>2. Restoring' = <<s, d>> /\ <<s, d>> \in Job
    BY <1>6 DEF RestoreBegin, Goto, Restoring, Job
  <2>3. \A p \in Pid : Live(p) /\ p \notin unlisted => Listed(p)
    BY <1>6 DEF IInv, RestoreBegin, ForgottenOnlyAtEnd, Forgotten, AfterForgetting, Live
  <2>4. <<s, d>> \notin Mirrored
    BY <1>6, <2>3 DEF IInv, RestoreBegin, Mirrored, Duplicate, TableMatches, Listed
  <2> QED
    BY <2>1, <2>2, <2>4 DEF Service!Next, Service!BeginRestore
<1>7. CASE RestoreEnd
  <2>1. Mirrored' = Mirrored /\ Restoring' = NoJob
    BY <1>7, MirroredSame DEF RestoreEnd, clear_args, Goto, tableVars, childVars, Live,
                              Restoring
  <2>2. Restoring # NoJob
    BY <1>7 DEF RestoreEnd, Restoring, IInv, CmdIsJob
  <2> QED
    BY <2>1, <2>2 DEF Service!Next, Service!EndRestore
<1>8. ASSUME NEW p \in Pid, Fork(p) PROVE Service!Next \/ UNCHANGED Service!svars
  <2>1. /\ pc = "fork" /\ pc' = "add" /\ child[p] = "free"
        /\ child' = [child EXCEPT ![p] = "forked"]
        /\ job' = [job EXCEPT ![p] = cmd]
    BY <1>8 DEF Fork, Goto
  <2>2. Restoring = NoJob /\ Restoring' = NoJob
    BY <2>1 DEF Restoring
  <2>3. \A q \in Pid : /\ q # p => (Live(q)' <=> Live(q)) /\ job'[q] = job[q]
                       /\ ~Live(p) /\ Live(p)' /\ job'[p] = cmd
    BY <2>1 DEF IInv, TypeOK, Live
  <2>4. CASE unlisted' = unlisted
    <3>1. p \notin unlisted
      BY <2>1 DEF IInv, UnlistedApart
    <3>2. Mirrored' = Mirrored \cup {cmd}
      BY <2>3, <2>4, <3>1 DEF Mirrored
    <3>3. \A q \in Pid : Live(q) /\ q \notin unlisted => Listed(q)
      BY <2>1 DEF IInv, ForgottenOnlyAtEnd, Forgotten, AfterForgetting, Live
    <3>4. cmd \in Job /\ cmd \notin Mirrored
      BY <2>1, <3>3 DEF IInv, CmdIsJob, CmdFresh, Mirrored, Duplicate, TableMatches, Listed
    <3> QED
      BY <2>2, <3>2, <3>4 DEF Service!Next, Service!Start
  <2>5. CASE unlisted' = unlisted \cup {p}
    <3>1. Mirrored' = Mirrored
      BY <2>3, <2>5 DEF Mirrored
    <3> QED
      BY <2>2, <3>1 DEF Service!svars
  <2> QED
    BY <1>8, <2>4, <2>5 DEF Fork, add_to_pids_list
<1>9. ASSUME NEW p \in Pid, ChildStep(p) \/ ReadReturns(p)
      PROVE  Service!Next \/ UNCHANGED Service!svars
  <2>1. /\ Live(p)
        /\ \E l \in ChildPc \ {"free"} : child' = [child EXCEPT ![p] = l]
        /\ UNCHANGED <<mainVars, tableVars, job>>
    BY <1>9 DEF ChildStep, ReadReturns, InstallHandlers, WorkDone, LoopCheck, EnterRead,
           RootGone, ChildFails, ChildGoto, ChildPc, Live
  <2>2. Restoring' = Restoring /\ unlisted' = unlisted /\ job' = job
    BY <2>1 DEF Restoring, mainVars, tableVars
  <2>3. \A q \in Pid : q # p => (Live(q)' <=> Live(q))
    BY <2>1 DEF IInv, TypeOK, Live
  <2>4. CASE Live(p)' \/ p \in unlisted
    <3>1. Mirrored' = Mirrored
      BY <2>1, <2>2, <2>3, <2>4, MirroredSame
    <3> QED
      BY <2>2, <3>1 DEF Service!svars
  <2>5. CASE ~Live(p)' /\ p \notin unlisted
    <3>1. \A q \in Pid \ unlisted : Live(q) /\ q # p => job[q] # job[p]
      BY <2>1, <2>5 DEF IInv, JobsDistinct, Live
    <3>2. Mirrored' = Mirrored \ {job[p]} /\ job[p] \in Mirrored
      BY <2>1, <2>2, <2>3, <2>5, <3>1 DEF Mirrored
    <3>3. job[p] \in Job
      BY <2>1 DEF IInv, FreeIsClean, Live
    <3> QED
      BY <2>2, <3>2, <3>3 DEF Service!Next, Service!Stop
  <2> QED
    BY <2>4, <2>5
<1> DEFINE Goal == Service!Next \/ UNCHANGED Service!svars
<1>10. /\ \A s \in Src, d \in Dst : RestoreBegin(s, d) => Goal
       /\ \A p \in Pid : Fork(p) => Goal
       /\ \A p \in Pid : ChildStep(p) \/ ReadReturns(p) => Goal
       /\ main_handler => Goal
  BY <1>5, <1>6, <1>8, <1>9
<1>11. /\ \/ LoopTest \/ Exit \/ Reject \/ CommandDone \/ ForkFails \/ EndScanDone
          \/ EndCall
          \/ \E s \in Src : ReadCommand("add", s) \/ ReadCommand("end", s)
          \/ \E d \in Dst : AddTarget(d) \/ EndTarget(d)
          => Goal
       /\ Reap \/ cmd_list \/ EndReturn \/ EndKill \/ Finish \/ RestoreEnd => Goal
  BY <1>1, <1>2, <1>3, <1>4, <1>7
<1> HIDE DEF Goal
<1>12. MainStep => Goal
  BY <1>10, <1>11 DEF MainStep
<1>13. Goal
  BY <1>10, <1>12 DEF Next
<1> QED
  BY <1>13 DEF Goal

\* The program implements the service it offers: no job is started twice, and
\* none is restored while a process the program did not complain about mirrors it.
THEOREM Refinement == Spec => ImplementsService
<1>1. Init => Service!Init
  BY DEF Init, Service!Init, Mirrored, Restoring, Live
<1> QED
  BY <1>1, Invariance, ServiceStep, PTL DEF Spec, ImplementsService, Service!Spec

=============================================================================
