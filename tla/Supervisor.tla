------------------------------ MODULE Supervisor ------------------------------
(***************************************************************************)
(* The process structure of projekt/src/projekt.c: the interactive loop,   *)
(* its table of child processes (pids, pid_srcs, pid_dsts), the children   *)
(* forked by "add", and the signals between them.                          *)
(*                                                                         *)
(* The file system is not a variable here: the user and the children       *)
(* change it at any time, so every test of a directory (it exists, it is a *)
(* directory, it is empty) may have either outcome.  Module Mirror models  *)
(* what a child copies.                                                    *)
(*                                                                         *)
(* The arguments of a command are picked one at a time, as the code's loop *)
(* over args[] reaches them, so a command may name any number of backups.  *)
(***************************************************************************)
EXTENDS Naturals, FiniteSets

CONSTANTS Src,      \* source directories (absolute paths)
          Dst,      \* backup directories (absolute paths)
          Inside,   \* the jobs <<s, d>> whose backup lies inside its source
          Pid,      \* process identifiers the kernel hands out, and reuses
          MaxJobs,  \* length of the table pids (MAX_JOBS)
          NoPid,    \* the value 0 of a free slot of pids
          NoJob     \* paths of a slot that was never used

Job == Src \X Dst
Slot == 1..MaxJobs

ASSUME ConstAssumption ==
    /\ MaxJobs \in Nat \ {0}
    /\ Inside \subseteq Job
    /\ NoPid \notin Pid
    /\ NoJob \notin Job

VARIABLES
    pc,                 \* where the interactive process is
    cmd,                \* the job the current command is working on
    slot,               \* index j of cmd_end's scan of the table
    pids,               \* pids[MAX_JOBS], NoPid for a free slot
    pid_jobs,           \* pid_srcs and pid_dsts, slot by slot
    main_keep_running,  \* the flag main_handler clears
    child,              \* where each child process is
    job,                \* the arguments of each child's child_work
    keep_running,       \* each child's copy of the flag sigterm_handler clears
    unlisted,           \* children reported with "Too many children!!!"
    termed              \* children a SIGTERM was sent to (history)

mainVars == <<pc, cmd, slot, main_keep_running>>
tableVars == <<pids, pid_jobs, unlisted>>
childVars == <<child, job, keep_running, termed>>
vars == <<mainVars, tableVars, childVars>>

MainPc == {"loop", "reap", "fgets", "add", "fork", "end", "endScan",
           "endCall", "endWait", "restore", "finish", "exited"}

\* free: no such process; forked: SIGTERM still has the parent's handler;
\* armed: keep_running was tested but read has not been entered yet.
ChildPc == {"free", "forked", "copying", "check", "armed", "reading",
            "handling", "zombie"}

Live(p) == child[p] \notin {"free", "zombie"}
Listed(p) == \E i \in Slot : pids[i] = p

TypeOK ==
    /\ pc \in MainPc
    /\ cmd \in Job \cup {NoJob}
    /\ slot \in Slot
    /\ pids \in [Slot -> Pid \cup {NoPid}]
    /\ pid_jobs \in [Slot -> Job \cup {NoJob}]
    /\ main_keep_running \in BOOLEAN
    /\ child \in [Pid -> ChildPc]
    /\ job \in [Pid -> Job \cup {NoJob}]
    /\ keep_running \in [Pid -> BOOLEAN]
    /\ unlisted \subseteq Pid
    /\ termed \subseteq Pid

Init ==
    /\ pc = "loop"
    /\ cmd = NoJob
    /\ slot = 1
    /\ pids = [i \in Slot |-> NoPid]
    /\ pid_jobs = [i \in Slot |-> NoJob]
    /\ main_keep_running = TRUE
    /\ child = [p \in Pid |-> "free"]
    /\ job = [p \in Pid |-> NoJob]
    /\ keep_running = [p \in Pid |-> TRUE]
    /\ unlisted = {}
    /\ termed = {}

-----------------------------------------------------------------------------
(* The kernel's part: reaping children and delivering SIGTERM.             *)

\* Mutants: a definition named after another one, with a suffix, is that one
\* with a plausible slip in it, for the properties to notice.  None of them is
\* part of the specification.

\* waitpid(pids[i], NULL, WNOHANG) for each used slot.  A child is reaped
\* when it is a zombie, and its slot and its identifier become free; ECHILD
\* (no such child) frees the slot too.
Reapable == {i \in Slot : pids[i] # NoPid /\ child[pids[i]] \in {"free", "zombie"}}

\* The processes P are no more, and neither is their memory.
Gone(P) ==
    /\ child' = [p \in Pid |-> IF p \in P THEN "free" ELSE child[p]]
    /\ job' = [p \in Pid |-> IF p \in P THEN NoJob ELSE job[p]]
    /\ keep_running' = [p \in Pid |-> p \in P \/ keep_running[p]]
    /\ termed' = termed \ P

\* Frees every slot, whatever waitpid returned.
forkbomb_protector_FreesAll ==
    /\ pids' = [i \in Slot |-> NoPid]
    /\ Gone({pids[i] : i \in Reapable})
    /\ UNCHANGED <<pid_jobs, unlisted>>

forkbomb_protector ==
    /\ pids' = [i \in Slot |-> IF i \in Reapable THEN NoPid ELSE pids[i]]
    /\ Gone({pids[i] : i \in Reapable})
    /\ UNCHANGED <<pid_jobs, unlisted>>

\* kill(p, SIGTERM) for each p of P.  Before child_work installs
\* sigterm_handler the inherited main_handler takes the signal, and clears a
\* flag the child never reads.  A blocked read fails with EINTR.
Kill(P) ==
    /\ termed' = termed \cup P
    /\ keep_running' = [p \in Pid |->
           IF p \in P /\ Live(p) /\ child[p] # "forked"
           THEN FALSE ELSE keep_running[p]]
    /\ child' = [p \in Pid |->
           IF p \in P /\ child[p] = "reading" THEN "check" ELSE child[p]]

-----------------------------------------------------------------------------
(* The interactive process.                                                *)

Goto(l) == pc' = l /\ UNCHANGED <<slot, main_keep_running>>

\* The command is over; clear_args forgets its arguments.
clear_args == cmd' = NoJob /\ Goto("loop")

LoopTest ==
    /\ pc = "loop"
    /\ Goto(IF main_keep_running THEN "reap" ELSE "finish")
    /\ UNCHANGED <<cmd, tableVars, childVars>>

Reap ==
    /\ pc = "reap"
    /\ Goto("fgets")
    /\ forkbomb_protector
    /\ UNCHANGED cmd

\* "exit", or the end of the input.
Exit ==
    /\ pc = "fgets"
    /\ Goto("finish")
    /\ UNCHANGED <<cmd, tableVars, childVars>>

\* An empty line or an unknown command; or one that cmd_add (636-651), cmd_end
\* (747-758) or cmd_restore (902-925) turns down: a wrong number of arguments, a path
\* that does not exist, or one that is no directory.
Reject ==
    /\ pc = "fgets"
    /\ Goto("loop")
    /\ UNCHANGED <<cmd, tableVars, childVars>>

cmd_list ==
    /\ pc = "fgets"
    /\ Goto("loop")
    /\ forkbomb_protector
    /\ UNCHANGED cmd

\* "add" or "end" with a source that exists.  The backup of cmd is set by the
\* loop over the remaining arguments.
ReadCommand(op, s) ==
    /\ pc = "fgets"
    /\ \E d \in Dst : cmd' = <<s, d>>
    /\ Goto(op)
    /\ UNCHANGED <<tableVars, childVars>>

\* No more arguments.
CommandDone ==
    /\ pc \in {"add", "end"}
    /\ clear_args
    /\ UNCHANGED <<tableVars, childVars>>

\* The loop stops after the first slot.
Duplicate_FirstSlot(j) == pids[1] # NoPid /\ pid_jobs[1] = j

Duplicate(j) == \E i \in Slot : pids[i] # NoPid /\ pid_jobs[i] = j

\* One target of "add", up to the decision to fork.  usable: the directory was
\* missing and could be created, or it was there and is empty.
AddTarget(d) ==
    /\ pc = "add"
    /\ cmd' = <<cmd[1], d>>
    /\ \E usable \in BOOLEAN :
          Goto(IF usable /\ cmd' \notin Inside /\ ~Duplicate(cmd')
               THEN "fork" ELSE "add")
    /\ UNCHANGED <<tableVars, childVars>>

FirstFree(i) == pids[i] = NoPid /\ \A k \in Slot : k < i => pids[k] # NoPid

\* Mutant: the loop goes one too far, and a child that finds the table full is
\* written behind its end.
add_to_pids_list_OnePast(p) ==
    LET i == CHOOSE k \in 1..(MaxJobs + 1) :
                 /\ k \in Slot => pids[k] = NoPid
                 /\ \A j \in Slot : j < k => pids[j] # NoPid
    IN /\ pids' = [k \in Slot \cup {i} |-> IF k = i THEN p ELSE pids[k]]
       /\ pid_jobs' = [k \in Slot \cup {i} |-> IF k = i THEN cmd ELSE pid_jobs[k]]
       /\ UNCHANGED unlisted

\* The slot is taken by add_to_pids_list, after fork: with a full table the
\* child runs all the same, and only a message says so.
add_to_pids_list(p) ==
    \/ \E i \in Slot :
          /\ FirstFree(i)
          /\ pids' = [pids EXCEPT ![i] = p]
          /\ pid_jobs' = [pid_jobs EXCEPT ![i] = cmd]
          /\ UNCHANGED unlisted
    \/ /\ \A i \in Slot : pids[i] # NoPid
       /\ unlisted' = unlisted \cup {p}
       /\ UNCHANGED <<pids, pid_jobs>>

\* The child starts with main_handler on SIGTERM and its own copy of
\* keep_running, which is still 1.
Fork(p) ==
    /\ pc = "fork"
    /\ child[p] = "free"
    /\ child' = [child EXCEPT ![p] = "forked"]
    /\ job' = [job EXCEPT ![p] = cmd]
    /\ UNCHANGED <<keep_running, termed>>
    /\ add_to_pids_list(p)
    /\ Goto("add")
    /\ UNCHANGED cmd

ForkFails ==
    /\ pc = "fork"
    /\ Goto("add")
    /\ UNCHANGED <<cmd, tableVars, childVars>>

\* The next backup of "end".  If it no longer exists the argument is used as
\* it was typed, which still finds the job if it was typed as an absolute path.
EndTarget(d) ==
    /\ pc = "end"
    /\ cmd' = <<cmd[1], d>>
    /\ slot' = 1
    /\ pc' = "endScan"
    /\ UNCHANGED <<main_keep_running, tableVars, childVars>>

Matches(i) == pids[i] # NoPid /\ pid_jobs[i] = cmd

\* cmd_end's inner loop finds the next slot of the job and signals its child.
EndKill ==
    /\ pc = "endScan"
    /\ \E i \in Slot :
          /\ i >= slot
          /\ Matches(i)
          /\ \A k \in Slot : slot <= k /\ k < i => ~Matches(k)
          /\ slot' = i
          /\ Kill({pids[i]})
    /\ pc' = "endCall"
    /\ UNCHANGED <<cmd, main_keep_running, tableVars, job>>

EndScanDone ==
    /\ pc = "endScan"
    /\ \A i \in Slot : i >= slot => ~Matches(i)
    /\ pc' = "end"
    /\ slot' = 1
    /\ UNCHANGED <<cmd, main_keep_running, tableVars, childVars>>

EndCall ==
    /\ pc = "endCall"
    /\ Goto("endWait")
    /\ UNCHANGED <<cmd, tableVars, childVars>>

WaitBlocked == pc = "endWait" /\ child[pids[slot]] \notin {"free", "zombie"}

\* The slot is not freed after the wait.
EndReturn_KeepsSlot ==
    /\ pc = "endWait"
    /\ ~WaitBlocked
    /\ Gone({pids[slot]})
    /\ Goto("endScan")
    /\ UNCHANGED <<cmd, tableVars>>

\* waitpid returns because the child has exited (or never was ours).
EndReturn ==
    /\ pc = "endWait"
    /\ ~WaitBlocked
    /\ Gone({pids[slot]})
    /\ pids' = [pids EXCEPT ![slot] = NoPid]
    /\ Goto("endScan")
    /\ UNCHANGED <<cmd, pid_jobs, unlisted>>

\* The table is not searched.
RestoreBegin_Unguarded(s, d) ==
    /\ pc = "fgets"
    /\ cmd' = <<s, d>>
    /\ Goto("restore")
    /\ UNCHANGED <<tableVars, childVars>>

\* "restore" is refused for a job of the table; it copies in the foreground.
RestoreBegin(s, d) ==
    /\ pc = "fgets"
    /\ ~Duplicate(<<s, d>>)
    /\ cmd' = <<s, d>>
    /\ Goto("restore")
    /\ UNCHANGED <<tableVars, childVars>>

RestoreEnd ==
    /\ pc = "restore"
    /\ clear_args
    /\ UNCHANGED <<tableVars, childVars>>

\* The loop over the table stops one slot early.
Finish_SkipsLast ==
    /\ pc = "finish"
    /\ Kill({pids[i] : i \in {k \in Slot : pids[k] # NoPid /\ k < MaxJobs}})
    /\ Goto("exited")
    /\ UNCHANGED <<cmd, tableVars, job>>

\* After the loop every listed child is signalled; nobody waits for them.
Finish ==
    /\ pc = "finish"
    /\ Kill({pids[i] : i \in {k \in Slot : pids[k] # NoPid}})
    /\ Goto("exited")
    /\ UNCHANGED <<cmd, tableVars, job>>

\* A handler that does nothing but interrupt.
main_handler_NoFlag ==
    /\ pc # "exited"
    /\ \/ pc = "fgets" /\ pc' = "finish" /\ UNCHANGED pids
       \/ WaitBlocked /\ pc' = "endScan" /\ pids' = [pids EXCEPT ![slot] = NoPid]
       \/ pc # "fgets" /\ ~WaitBlocked /\ UNCHANGED <<pc, pids>>
    /\ UNCHANGED <<cmd, slot, main_keep_running, pid_jobs, unlisted, childVars>>

\* SIGINT or SIGTERM to the interactive process.  The handler is installed
\* with sa_flags 0, so a blocked fgets or waitpid fails with EINTR; cmd_end
\* does not look at the result of waitpid and frees the slot.
main_handler ==
    /\ pc # "exited"
    /\ main_keep_running' = FALSE
    /\ \/ pc = "fgets" /\ pc' = "finish" /\ UNCHANGED pids
       \/ WaitBlocked /\ pc' = "endScan" /\ pids' = [pids EXCEPT ![slot] = NoPid]
       \/ pc # "fgets" /\ ~WaitBlocked /\ UNCHANGED <<pc, pids>>
    /\ UNCHANGED <<cmd, slot, pid_jobs, unlisted, childVars>>

-----------------------------------------------------------------------------
(* The children: child_work and the loop of monitor.                       *)

ChildGoto(p, l) == child' = [child EXCEPT ![p] = l]

InstallHandlers(p) ==
    /\ child[p] = "forked"
    /\ ChildGoto(p, "copying")
    /\ UNCHANGED <<mainVars, tableVars, job, keep_running, termed>>

\* copy_recursive at the start, or the events of one read mirrored.
WorkDone(p) ==
    /\ child[p] \in {"copying", "handling"}
    /\ ChildGoto(p, "check")
    /\ UNCHANGED <<mainVars, tableVars, job, keep_running, termed>>

\* while (1) in place of while (keep_running).
LoopCheck_Forever(p) ==
    /\ child[p] = "check"
    /\ ChildGoto(p, "armed")
    /\ UNCHANGED <<mainVars, tableVars, job, keep_running, termed>>

LoopCheck(p) ==
    /\ child[p] = "check"
    /\ ChildGoto(p, IF keep_running[p] THEN "armed" ELSE "zombie")
    /\ UNCHANGED <<mainVars, tableVars, job, keep_running, termed>>

EnterRead(p) ==
    /\ child[p] = "armed"
    /\ ChildGoto(p, "reading")
    /\ UNCHANGED <<mainVars, tableVars, job, keep_running, termed>>

\* read returns events: somebody changed the source.
ReadReturns(p) ==
    /\ child[p] = "reading"
    /\ ChildGoto(p, "handling")
    /\ UNCHANGED <<mainVars, tableVars, job, keep_running, termed>>

\* The event says the root of the source is gone, or no watch is left.
RootGone(p) ==
    /\ child[p] = "handling"
    /\ ChildGoto(p, "check")
    /\ keep_running' = [keep_running EXCEPT ![p] = FALSE]
    /\ UNCHANGED <<mainVars, tableVars, job, termed>>

\* exit(EXIT_FAILURE): the first copy failed, inotify_init or closedir did.
ChildFails(p) ==
    /\ child[p] \in {"copying", "handling"}
    /\ ChildGoto(p, "zombie")
    /\ UNCHANGED <<mainVars, tableVars, job, keep_running, termed>>

-----------------------------------------------------------------------------
MainStep ==
    \/ LoopTest \/ Reap \/ Exit \/ Reject \/ cmd_list \/ CommandDone
    \/ \E s \in Src : ReadCommand("add", s) \/ ReadCommand("end", s)
    \/ \E d \in Dst : AddTarget(d) \/ EndTarget(d)
    \/ \E s \in Src, d \in Dst : RestoreBegin(s, d)
    \/ \E p \in Pid : Fork(p)
    \/ ForkFails \/ EndKill \/ EndScanDone \/ EndCall \/ EndReturn
    \/ RestoreEnd \/ Finish

\* What a child does by itself; only the user makes read return events.
ChildStep(p) ==
    \/ InstallHandlers(p) \/ WorkDone(p) \/ LoopCheck(p) \/ EnterRead(p)
    \/ RootGone(p) \/ ChildFails(p)

Next ==
    \/ MainStep
    \/ main_handler
    \/ \E p \in Pid : ChildStep(p) \/ ReadReturns(p)

Spec == Init /\ [][Next]_vars

\* The scheduler runs every process that can run: a child goes on, and so does
\* an "end" once its waitpid may return.  Nothing makes the user type, send a
\* signal or touch a file.
Fairness ==
    /\ \A p \in Pid : WF_vars(ChildStep(p))
    /\ WF_vars(EndCall) /\ WF_vars(EndReturn)

FairSpec == Spec /\ Fairness

-----------------------------------------------------------------------------
(* Properties.                                                             *)

\* Every pid of the table is a child that has not been reaped, and no pid is
\* there twice: kill and waitpid of cmd_end, and the kills at exit, can never
\* hit a stranger that was given a reused identifier.
NoStrayKill ==
    /\ \A i \in Slot : pids[i] # NoPid => child[pids[i]] # "free"
    /\ \A i, k \in Slot : pids[i] = pids[k] /\ pids[i] # NoPid => i = k

\* While the program reads commands, the table knows every running child it
\* did not complain about: the only children "list" cannot show and "end"
\* cannot stop are those that found the table full.
EveryChildListed ==
    \A p \in Pid :
        Live(p) /\ main_keep_running => Listed(p) \/ p \in unlisted

\* The duplicate check of cmd_add works on the table alone, which lags behind
\* the children; still, two children never mirror the same source into the
\* same backup, unless one of them found the table full.
OneMirrorPerJob ==
    \A p, q \in Pid :
        Live(p) /\ Live(q) /\ job[p] = job[q] /\ p # q
        => p \in unlisted \/ q \in unlisted

\* When the program has ended, every child it had a record of, and every child
\* an interrupted "end" forgot, was sent SIGTERM.
ExitSignalsAll ==
    pc = "exited" => \A p \in Pid : Live(p) => p \in termed \cup unlisted

\* A slot is freed only by the step that reaps its child; only an "end"
\* interrupted by a signal forgets a child, and then the loop is at its end.
SlotFreedByReaping ==
    [][\A i \in Slot :
          pids[i] # NoPid /\ pids'[i] # pids[i]
          => child'[pids[i]] = "free" \/ ~main_keep_running']_vars

\* The jobs that listed (or forgotten) children are mirroring.
Mirrored == {job[p] : p \in {q \in Pid : Live(q) /\ q \notin unlisted}}
Restoring == IF pc = "restore" THEN cmd ELSE NoJob

Service == INSTANCE BackupService
               WITH mirrored <- Mirrored, restoring <- Restoring

\* Seen from outside, and leaving aside children that found the table full,
\* the processes, signals and the table implement the service: a job is
\* started once, and never restored while a process mirrors it.
ImplementsService == Service!Spec

\* "end" returns if SIGTERM found its child copying, handling events, testing
\* keep_running or blocked in read (which then fails and the flag is tested).
EndReturns ==
    pc = "endWait" /\ ~keep_running[pids[slot]]
        /\ child[pids[slot]] \in {"copying", "handling", "check"}
    ~> pc # "endWait"

\* "end <source> <dst1> ... - stops watching a directory": once it waits for
\* the child, the wait ends.
EndStopsWatching == pc = "endWait" ~> pc # "endWait"
=============================================================================
