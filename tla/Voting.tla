-------------------------------- MODULE Voting --------------------------------
(***************************************************************************)
(* The threads of stopy3/eng/sop-voting.c: the main thread scans a         *)
(* directory into the queue of PathQueue, workers take files out and count *)
(* their ballots (bytes), a further thread waits for SIGINT and SIGUSR1.   *)
(*                                                                         *)
(* The loop at line 483 starts t + 1 workers; the id of the last one is    *)
(* overwritten when the signal thread is created, so that main never joins *)
(* it.  Extra is that worker.                                              *)
(*                                                                         *)
(* finished is read and written under finished_mutex, and whoever sets it  *)
(* holds that mutex until the queue is closed too, so that the two are one *)
(* step.  The number of mutexes is the length of the buffer: both are 256. *)
(***************************************************************************)
EXTENDS PathQueue, FiniteSets

CONSTANTS Worker,     \* the t workers main joins
          Extra,      \* the worker it does not
          Candidate,  \* the values of a ballot
          Ballots,    \* the content of each file: Elem -> Seq(Candidate)
          Batch,      \* length of the buffer, and number of mutexes
          MaxUsr1     \* bound: how many SIGUSR1 the user sends

Thread == Worker \cup {Extra}
Place == 0..(Batch - 1)

ASSUME VotingAssumption ==
    /\ Worker # {} /\ Extra \notin Worker
    /\ Ballots \in [Elem -> Seq(Candidate)]
    /\ Batch \in Nat \ {0}
    /\ MaxUsr1 \in Nat

VARIABLES main,      \* where the main thread is
          toScan,    \* directory entries readdir has not returned yet
          destroyed, \* how many mutexes main has destroyed
          pc,        \* where each worker is
          path,      \* the file it has open
          loaded,    \* the value it increments
          offset,    \* how much of each file is counted
          votes,
          sig,       \* where the signal thread is
          locked,    \* how many mutexes it has locked
          pending,   \* blocked signals that have arrived
          finished,
          userInt,   \* the user has sent SIGINT
          usr1       \* SIGUSR1 sent so far

mainVars   == <<main, toScan, destroyed>>
workerVars == <<pc, path, loaded, offset, votes>>
sigVars    == <<sig, locked, pending, finished>>
userVars   == <<userInt, usr1>>
vars == <<queueVars, mainVars, workerVars, sigVars, userVars>>

Running == main \notin {"exited", "failed"}

\* The buffer position, hence the mutex, of the next ballot of w's file.
Position(w) == offset[path[w]] % Batch

\* The ballot w is counting.
Vote(w) == Ballots[path[w]][offset[path[w]] + 1]

MutexFree(i) ==
    /\ ~(i < locked)
    /\ \A w \in Thread : pc[w] = "count" => Position(w) # i

-----------------------------------------------------------------------------
Init ==
    /\ queue_init
    /\ main = "scan" /\ toScan = Elem /\ destroyed = 0
    /\ pc = [w \in Thread |-> "dequeue"]
    /\ path = [w \in Thread |-> NULL]
    /\ loaded = [w \in Thread |-> 0]
    /\ offset = [f \in Elem |-> 0]
    /\ votes = [c \in Candidate |-> 0]
    /\ sig = "wait" /\ locked = 0 /\ pending = {} /\ finished = FALSE
    /\ userInt = FALSE /\ usr1 = 0

-----------------------------------------------------------------------------
(* start_routine                                                           *)

Goto(w, at) == pc' = [pc EXCEPT ![w] = at]

\* After queue_dispose the queue and args are freed memory: what a worker
\* that is still there does with them is undefined, here nothing at all or
\* the end of the process.
Freed == main = "disposed"

Dequeue(w) ==
    /\ pc[w] = "dequeue"
    /\ ~Freed
    /\ \E p \in Elem :
          /\ queue_dequeue(p)
          /\ path' = [path EXCEPT ![w] = p]
    /\ Goto(w, "test")
    /\ UNCHANGED <<mainVars, loaded, offset, votes, sigVars, userVars>>

NoMore(w) ==
    /\ pc[w] = "dequeue"
    /\ ~Freed
    /\ queue_ended
    /\ Goto(w, "done")
    /\ UNCHANGED <<mainVars, path, loaded, offset, votes, sigVars, userVars>>

\* Top of the inner loop: the test of finished, then bulk_read.
ReadBatch(w) ==
    /\ pc[w] = "test"
    /\ Goto(w, IF finished \/ offset[path[w]] = Len(Ballots[path[w]])
                  THEN "close" ELSE "lock")
    /\ UNCHANGED <<queueVars, mainVars, path, loaded, offset, votes, sigVars, userVars>>

\* The first half of votes[..]++, under the mutex of the buffer position.
LockAndLoad(w) ==
    /\ pc[w] = "lock"
    /\ Position(w) >= destroyed
    /\ MutexFree(Position(w))
    /\ loaded' = [loaded EXCEPT ![w] = votes[Vote(w)]]
    /\ Goto(w, "count")
    /\ UNCHANGED <<queueVars, mainVars, path, offset, votes, sigVars, userVars>>

\* pthread_mutex_lock of a destroyed mutex returns EINVAL, and ERR exits.
LockFails(w) ==
    /\ pc[w] = "lock"
    /\ Position(w) < destroyed
    /\ main' = "failed"
    /\ UNCHANGED <<queueVars, toScan, destroyed, workerVars, sigVars, userVars>>

\* Mutant: after a short read the rest of the buffer is counted too.
StoreAndUnlock_WholeBuffer(w) ==
    LET f == path[w]  n == offset[f] + 1 IN
    /\ pc[w] = "count"
    /\ votes' = [votes EXCEPT ![Vote(w)] =
                   loaded[w] + 1 + (IF n = Len(Ballots[f]) THEN (Batch - (n % Batch)) % Batch ELSE 0)]
    /\ offset' = [offset EXCEPT ![f] = n]
    /\ Goto(w, IF n % Batch = 0 \/ n = Len(Ballots[f]) THEN "test" ELSE "lock")
    /\ UNCHANGED <<queueVars, mainVars, path, loaded, sigVars, userVars>>

\* The second half; the buffer is used up after Batch ballots or with the file.
StoreAndUnlock(w) ==
    LET f == path[w]  n == offset[f] + 1 IN
    /\ pc[w] = "count"
    /\ votes' = [votes EXCEPT ![Vote(w)] = loaded[w] + 1]
    /\ offset' = [offset EXCEPT ![f] = n]
    /\ Goto(w, IF n % Batch = 0 \/ n = Len(Ballots[f]) THEN "test" ELSE "lock")
    /\ UNCHANGED <<queueVars, mainVars, path, loaded, sigVars, userVars>>

\* close and free, then the test of finished at the end of the outer loop.
CloseFile(w) ==
    /\ pc[w] = "close"
    /\ path' = [path EXCEPT ![w] = NULL]
    /\ Goto(w, IF finished THEN "done" ELSE "dequeue")
    /\ UNCHANGED <<queueVars, mainVars, loaded, offset, votes, sigVars, userVars>>

\* A step of a worker on freed memory that ends the process.
UseAfterFree(w) ==
    /\ Freed
    /\ pc[w] # "done"
    /\ main' = "failed"
    /\ UNCHANGED <<queueVars, toScan, destroyed, workerVars, sigVars, userVars>>

WorkerStep(w) ==
    /\ Running
    /\ \/ Dequeue(w) \/ NoMore(w) \/ ReadBatch(w) \/ LockAndLoad(w) \/ LockFails(w)
       \/ StoreAndUnlock(w) \/ CloseFile(w) \/ UseAfterFree(w)

-----------------------------------------------------------------------------
(* start_routine_signal                                                    *)

SigInt ==
    /\ sig = "wait"
    /\ "INT" \in pending
    /\ pending' = pending \ {"INT"}
    /\ finished' = TRUE
    /\ queue_complete_adding
    /\ sig' = "returned"
    /\ UNCHANGED <<mainVars, workerVars, locked, userVars>>

SigUsr1 ==
    /\ sig = "wait"
    /\ "USR1" \in pending
    /\ pending' = pending \ {"USR1"}
    /\ sig' = "locking"
    /\ UNCHANGED <<queueVars, mainVars, workerVars, locked, finished, userVars>>

\* Mutant: the mutex is taken without waiting for the one who has it.
LockNext_Barges ==
    /\ sig = "locking"
    /\ locked' = locked + 1
    /\ sig' = IF locked' = Batch THEN "print" ELSE "locking"
    /\ UNCHANGED <<queueVars, mainVars, workerVars, pending, finished, userVars>>

\* Mutant: one mutex too many.
LockNext_OneMore ==
    /\ sig = "locking"
    /\ MutexFree(locked)
    /\ locked' = locked + 1
    /\ sig' = IF locked' > Batch THEN "print" ELSE "locking"
    /\ UNCHANGED <<queueVars, mainVars, workerVars, pending, finished, userVars>>

LockNext ==
    /\ sig = "locking"
    /\ MutexFree(locked)
    /\ locked' = locked + 1
    /\ sig' = IF locked' = Batch THEN "print" ELSE "locking"
    /\ UNCHANGED <<queueVars, mainVars, workerVars, pending, finished, userVars>>

\* Mutant: the mutexes stay locked.
PrintPartial_KeepsLocks ==
    /\ sig = "print"
    /\ sig' = "wait"
    /\ UNCHANGED <<locked, queueVars, mainVars, workerVars, pending, finished, userVars>>

\* print_votes and the loop that unlocks.
PrintPartial ==
    /\ sig = "print"
    /\ sig' = "wait"
    /\ locked' = 0
    /\ UNCHANGED <<queueVars, mainVars, workerVars, pending, finished, userVars>>

SignalStep == Running /\ (SigInt \/ SigUsr1 \/ LockNext \/ PrintPartial)

-----------------------------------------------------------------------------
(* main                                                                    *)

\* Mutant: an entry is read from the directory again.
Enqueue_Again ==
    /\ main = "scan"
    /\ \E p \in toScan :
          /\ queue_enqueue(p)
          /\ toScan' \in {toScan, toScan \ {p}}
    /\ UNCHANGED <<main, destroyed, workerVars, sigVars, userVars>>

Enqueue ==
    /\ main = "scan"
    /\ \E p \in toScan :
          /\ queue_enqueue(p)
          /\ toScan' = toScan \ {p}
    /\ UNCHANGED <<main, destroyed, workerVars, sigVars, userVars>>

\* queue_enqueue returned 0: scan_dir breaks.
StopScan ==
    /\ main = "scan"
    /\ toScan # {}
    /\ queue_refuses
    /\ main' = "complete"
    /\ UNCHANGED <<toScan, destroyed, workerVars, sigVars, userVars>>

EndOfDir ==
    /\ main = "scan"
    /\ toScan = {}
    /\ main' = "complete"
    /\ UNCHANGED <<queueVars, toScan, destroyed, workerVars, sigVars, userVars>>

Complete ==
    /\ main = "complete"
    /\ queue_complete_adding
    /\ main' = "join"
    /\ UNCHANGED <<toScan, destroyed, workerVars, sigVars, userVars>>

\* Mutant: main asks the threads to stop before the workers are done.
JoinWorkers_NoWait ==
    /\ main = "join"
    /\ main' = "joinsig"
    /\ pending' = pending \cup {"INT"}
    /\ UNCHANGED <<queueVars, toScan, destroyed, workerVars, sig, locked, finished, userVars>>

\* The t joins, then kill(getpid(), SIGINT).
JoinWorkers ==
    /\ main = "join"
    /\ \A w \in Worker : pc[w] = "done"
    /\ main' = "joinsig"
    /\ pending' = pending \cup {"INT"}
    /\ UNCHANGED <<queueVars, toScan, destroyed, workerVars, sig, locked, finished, userVars>>

JoinSignalThread ==
    /\ main = "joinsig"
    /\ sig = "returned"
    /\ main' = "destroy"
    /\ UNCHANGED <<queueVars, toScan, destroyed, workerVars, sigVars, userVars>>

DestroyMutex ==
    /\ main = "destroy"
    /\ destroyed < Batch
    /\ IF MutexFree(destroyed)
         THEN destroyed' = destroyed + 1 /\ UNCHANGED main
         ELSE main' = "failed" /\ UNCHANGED destroyed       \* EBUSY
    /\ UNCHANGED <<queueVars, toScan, workerVars, sigVars, userVars>>

PrintFinal ==
    /\ main = "destroy"
    /\ destroyed = Batch
    /\ main' = "printed"
    /\ UNCHANGED <<queueVars, toScan, destroyed, workerVars, sigVars, userVars>>

\* free(args) and queue_dispose.
Dispose ==
    /\ main = "printed"
    /\ main' = "disposed"
    /\ UNCHANGED <<queueVars, toScan, destroyed, workerVars, sigVars, userVars>>

Exit ==
    /\ main = "disposed"
    /\ main' = "exited"
    /\ UNCHANGED <<queueVars, toScan, destroyed, workerVars, sigVars, userVars>>

MainStep ==
    \/ Enqueue \/ StopScan \/ EndOfDir \/ Complete \/ JoinWorkers
    \/ JoinSignalThread \/ DestroyMutex \/ PrintFinal \/ Dispose \/ Exit

-----------------------------------------------------------------------------
(* The user, from a terminal.  Both signals are blocked in every thread.   *)

UserInt ==
    /\ Running /\ ~userInt
    /\ userInt' = TRUE
    /\ pending' = pending \cup {"INT"}
    /\ UNCHANGED <<queueVars, mainVars, workerVars, sig, locked, finished, usr1>>

UserUsr1 ==
    /\ Running /\ usr1 < MaxUsr1
    /\ usr1' = usr1 + 1
    /\ pending' = pending \cup {"USR1"}
    /\ UNCHANGED <<queueVars, mainVars, workerVars, sig, locked, finished, userInt>>

Next ==
    \/ \E w \in Thread : WorkerStep(w)
    \/ SignalStep
    \/ MainStep
    \/ UserInt
    \/ UserUsr1

Spec == Init /\ [][Next]_vars

\* The scheduler runs every thread that can run.
FairSpec ==
    /\ Spec
    /\ \A w \in Thread : WF_vars(WorkerStep(w))
    /\ WF_vars(SignalStep)
    /\ WF_vars(MainStep)

-----------------------------------------------------------------------------
TypeOK ==
    /\ QueueTypeOK
    /\ main \in {"scan", "complete", "join", "joinsig", "destroy", "printed",
                 "disposed", "exited", "failed"}
    /\ toScan \subseteq Elem
    /\ destroyed \in 0..Batch
    /\ pc \in [Thread -> {"dequeue", "test", "lock", "count", "close", "done"}]
    /\ path \in [Thread -> Elem \cup {NULL}]
    /\ loaded \in [Thread -> Nat]
    /\ offset \in [Elem -> Nat]
    /\ votes \in [Candidate -> Nat]
    /\ sig \in {"wait", "locking", "print", "returned"}
    /\ locked \in 0..Batch
    /\ pending \subseteq {"INT", "USR1"}
    /\ finished \in BOOLEAN
    /\ userInt \in BOOLEAN
    /\ usr1 \in 0..MaxUsr1

\* The ballots for c in the counted parts of the files.
CountedFor(c) ==
    UNION {{<<f, i>> : i \in {j \in 1..offset[f] : Ballots[f][j] = c}} : f \in Elem}

\* Increments that overlap may be lost (see DedicatedMutex), but no candidate
\* ever has more votes than ballots read for it, whatever the workers, the
\* signals and the unjoined worker do to one another.
NoOvercount == \A c \in Candidate : votes[c] <= Cardinality(CountedFor(c))

\* Partial results are a snapshot: while start_routine_signal prints, no worker
\* is between reading and writing a vote.
PrintsSnapshot == sig = "print" => \A w \in Thread : pc[w] # "count"

\* Without a SIGINT from the user, once main prints the final votes every file
\* has been read to its end, but for at most the one the unjoined worker had
\* open.  (That one may be cut short: the SIGINT main sends itself makes the
\* worker leave its file at the next batch, or leave a path it has just taken.)
MissesAtMostOneFile ==
    main \in {"printed", "disposed", "exited"} /\ ~userInt =>
        Cardinality({f \in Elem : offset[f] < Len(Ballots[f])}) <= 1

\* No two threads have the same file open, none has a file that still waits in
\* the queue or the directory, and a file is not opened again once it has been
\* read from: every ballot is counted by one thread.
OneReaderPerFile ==
    /\ \A v, w \in Thread : path[v] # NULL /\ path[v] = path[w] => v = w
    /\ \A i, j \in 0..(Size - 1) : paths[i] # NULL /\ paths[i] = paths[j] => i = j
    /\ \A i \in 0..(Size - 1) : paths[i] \notin toScan
    /\ \A i \in 0..(Size - 1) :
          paths[i] # NULL => offset[paths[i]] = 0 /\ \A w \in Thread : path[w] # paths[i]
    /\ \A f \in toScan : offset[f] = 0 /\ \A w \in Thread : path[w] # f

\* main gets to the end (or to an ERR), whatever signals come and when: nobody
\* waits for ever for a path, for room, for a mutex or for a thread.
Terminates == <>~Running

\* The comment at line 50: each field of votes is protected by a mutex of its own.
DedicatedMutex ==
    \A v, w \in Thread :
        v # w /\ pc[v] = "count" /\ pc[w] = "count" => Vote(v) # Vote(w)
=============================================================================
