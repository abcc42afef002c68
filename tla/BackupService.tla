---------------------------- MODULE BackupService ----------------------------
(***************************************************************************)
(* What the interactive backup program promises its user, without          *)
(* processes, signals or a job table: a set of jobs being mirrored, and at *)
(* most one restore, which never runs on a job that is being mirrored.     *)
(***************************************************************************)
CONSTANTS Job,      \* pairs <<source directory, backup directory>>
          NoJob     \* no restore is running

VARIABLES mirrored,   \* the jobs with a process keeping the backup up to date
          restoring   \* the job whose backup is being copied back, or NoJob

svars == <<mirrored, restoring>>

Init == mirrored = {} /\ restoring = NoJob

\* A job is started once: the same pair is never mirrored by two processes.
Start(j) ==
    /\ restoring = NoJob
    /\ j \notin mirrored
    /\ mirrored' = mirrored \cup {j}
    /\ UNCHANGED restoring

\* A job stops because it was ended, or because its process gave up.
Stop(j) ==
    /\ j \in mirrored
    /\ mirrored' = mirrored \ {j}
    /\ UNCHANGED restoring

BeginRestore(j) ==
    /\ restoring = NoJob
    /\ j \notin mirrored
    /\ restoring' = j
    /\ UNCHANGED mirrored

EndRestore ==
    /\ restoring # NoJob
    /\ restoring' = NoJob
    /\ UNCHANGED mirrored

Next ==
    \/ \E j \in Job : Start(j) \/ Stop(j) \/ BeginRestore(j)
    \/ EndRestore

Spec == Init /\ [][Next]_svars
=============================================================================
