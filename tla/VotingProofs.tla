----------------------------- MODULE VotingProofs -----------------------------
(* Proofs about the voting program: its ring buffer, whatever its length, is  *)
(* a FIFO queue; and its threads, for every number of workers and files and   *)
(* every content of the files.                                                *)
EXTENDS Voting, FiniteSetTheorems, SequenceTheorems, TLAPS

-----------------------------------------------------------------------------
(* The ring buffer.                                                        *)

\* One step round the ring of Size places.
LEMMA HeadStep ==
  ASSUME NEW h \in 0..(Size - 1)
  PROVE  (h + 1) % Size = After(h, 1)
  BY QueueAssumption DEF After

QInv == QueueTypeOK /\ PlacesInOrder

LEMMA QInit == queue_init => QInv
<1> SUFFICES ASSUME queue_init PROVE QInv
  OBVIOUS
<1>1. QueueTypeOK
  <2>1. 0 \in 0..(Size - 1) /\ 0 \in 0..Size
    BY QueueAssumption
  <2>2. [i \in 0..(Size - 1) |-> NULL] \in [0..(Size - 1) -> Elem \cup {NULL}]
    OBVIOUS
  <2> QED
    BY <2>1, <2>2, Zenon DEF queue_init, QueueTypeOK
<1>2. tail = After(head, count)
  BY QueueAssumption DEF queue_init, After
<1>3. \A n \in 0..(Size - 1) : After(head, n) = n
  BY QueueAssumption DEF queue_init, After
<1>4. \A n \in 0..(Size - 1) : paths[After(head, n)] = NULL /\ ~(n < count)
  BY <1>3 DEF queue_init
<1> QED
  BY <1>1, <1>2, <1>4 DEF QInv, PlacesInOrder

LEMMA EnqueueKeeps ==
  ASSUME QInv, NEW p \in Elem, queue_enqueue(p) PROVE QInv'
<1> USE QueueAssumption DEF QInv, QueueTypeOK
<1>1. QueueTypeOK'
  BY DEF queue_enqueue
<1>2. tail = After(head, count) /\ count \in 0..(Size - 1)
  BY DEF PlacesInOrder, queue_enqueue
<1>3. tail' = After(head', count')
  BY <1>2 DEF queue_enqueue, After
<1>4. ASSUME NEW n \in 0..(Size - 1)
      PROVE  paths'[After(head', n)] # NULL <=> n < count'
  <2>1. After(head, n) \in 0..(Size - 1)
    BY DEF After
  <2>2. CASE n = count
    BY <1>2, <2>1, <2>2 DEF queue_enqueue
  <2>3. CASE n # count
    <3>1. After(head, n) # tail
      BY <1>2, <2>3 DEF After
    <3>2. paths'[After(head', n)] = paths[After(head, n)]
      BY <2>1, <3>1 DEF queue_enqueue
    <3> QED
      BY <1>2, <2>3, <3>2 DEF PlacesInOrder, queue_enqueue
  <2> QED
    BY <2>2, <2>3
<1> QED
  BY <1>1, <1>3, <1>4 DEF PlacesInOrder

LEMMA DequeueKeeps ==
  ASSUME QInv, NEW p, queue_dequeue(p) PROVE QInv'
<1> USE QueueAssumption DEF QInv, QueueTypeOK
<1>1. head' = After(head, 1) /\ count \in 1..Size /\ count' = count - 1
  BY HeadStep DEF queue_dequeue
<1>2. head' \in 0..(Size - 1)
  BY <1>1 DEF After
<1>3. QueueTypeOK'
  BY <1>1, <1>2 DEF queue_dequeue
<1>4. tail' = After(head', count')
  BY <1>1 DEF queue_dequeue, PlacesInOrder, After
<1>5. ASSUME NEW n \in 0..(Size - 1)
      PROVE  paths'[After(head', n)] # NULL <=> n < count'
  <2>1. After(head', n) = After(head, n + 1)
    BY <1>1 DEF After
  <2>2. CASE n + 1 = Size
    <3>1. After(head', n) = head
      BY <2>1, <2>2 DEF After
    <3> QED
      BY <1>1, <2>2, <3>1 DEF queue_dequeue
  <2>3. CASE n + 1 < Size
    <3>1. After(head, n + 1) \in 0..(Size - 1) /\ After(head, n + 1) # After(head, 0)
      BY <2>3 DEF After
    <3>2. paths'[After(head', n)] = paths[After(head, n + 1)]
      BY <2>1, <3>1 DEF queue_dequeue, After
    <3> QED
      BY <1>1, <2>3, <3>2 DEF PlacesInOrder
  <2> QED
    BY <2>2, <2>3
<1> QED
  BY <1>3, <1>4, <1>5 DEF PlacesInOrder

LEMMA QNext == QInv /\ [QueueNext]_queueVars => QInv'
<1> SUFFICES ASSUME QInv, [QueueNext]_queueVars PROVE QInv'
  OBVIOUS
<1>1. CASE queue_refuses \/ queue_ended \/ UNCHANGED queueVars
  BY <1>1 DEF queue_refuses, queue_ended, queueVars, QInv, QueueTypeOK, PlacesInOrder
<1>2. CASE queue_complete_adding
  BY <1>2 DEF queue_complete_adding, QInv, QueueTypeOK, PlacesInOrder
<1> QED
  BY <1>1, <1>2, EnqueueKeeps, DequeueKeeps DEF QueueNext

\* The places from head to tail, and no others, hold paths.
THEOREM PlacesInOrderHolds == QueueSpec => []PlacesInOrder
<1>1. QInv => PlacesInOrder
  BY DEF QInv
<1> QED
  BY <1>1, QInit, QNext, PTL DEF QueueSpec

-----------------------------------------------------------------------------
LEMMA HeldType == QInv => Held \in Seq(Elem) /\ Len(Held) = count
<1> SUFFICES ASSUME QInv PROVE Held \in Seq(Elem) /\ Len(Held) = count
  OBVIOUS
<1> USE QueueAssumption DEF QInv, QueueTypeOK
<1>1. \A n \in 1..count : paths[After(head, n - 1)] \in Elem
  <2> TAKE n \in 1..count
  <2>1. n - 1 \in 0..(Size - 1) /\ n - 1 < count
    OBVIOUS
  <2>2. After(head, n - 1) \in 0..(Size - 1)
    BY <2>1 DEF After
  <2> QED
    BY <2>1, <2>2 DEF PlacesInOrder
<1> QED
  BY <1>1 DEF Held

LEMMA HeldTypeNext == (QInv => Held \in Seq(Elem) /\ Len(Held) = count)'
  BY HeldType, PTL

LEMMA EnqueueAppends ==
  ASSUME QInv, NEW p \in Elem, queue_enqueue(p) PROVE Fifo!Put(p)
<1> USE QueueAssumption DEF QInv, QueueTypeOK
<1>1. QInv'
  BY EnqueueKeeps
<1>2. Held \in Seq(Elem) /\ Len(Held) = count /\ Held' \in Seq(Elem) /\ Len(Held') = count + 1
  BY <1>1, HeldType, HeldTypeNext DEF queue_enqueue
<1>3. \A n \in 1..(count + 1) : Held'[n] = Append(Held, p)[n]
  <2> TAKE n \in 1..(count + 1)
  <2>1. Held'[n] = paths'[After(head, n - 1)]
    BY DEF Held, queue_enqueue
  <2>2. After(head, n - 1) \in 0..(Size - 1)
    BY DEF queue_enqueue, After
  <2>3. CASE n = count + 1
    BY <1>2, <2>1, <2>2, <2>3 DEF queue_enqueue, PlacesInOrder
  <2>4. CASE n # count + 1
    <3>1. After(head, n - 1) # tail
      BY <2>4 DEF queue_enqueue, PlacesInOrder, After
    <3>2. Held'[n] = Held[n]
      BY <2>1, <2>2, <2>4, <3>1 DEF queue_enqueue, Held
    <3> QED
      BY <1>2, <2>4, <3>2
  <2> QED
    BY <2>3, <2>4
<1>4. Held' = Append(Held, p)
  BY <1>2, <1>3
<1> QED
  BY <1>2, <1>4 DEF queue_enqueue, Fifo!Put

LEMMA DequeueTakes ==
  ASSUME QInv, NEW p, queue_dequeue(p) PROVE Fifo!Take
<1> USE QueueAssumption DEF QInv, QueueTypeOK
<1>1. QInv' /\ head' = After(head, 1) /\ count' = count - 1 /\ count \in 1..Size
  BY DequeueKeeps, HeadStep DEF queue_dequeue
<1>2. Held \in Seq(Elem) /\ Len(Held) = count /\ Held' \in Seq(Elem) /\ Len(Held') = count - 1
  BY <1>1, HeldType, HeldTypeNext
<1>3. \A n \in 1..(count - 1) : Held'[n] = Tail(Held)[n]
  <2> TAKE n \in 1..(count - 1)
  <2>1. Held'[n] = paths'[After(head', n - 1)]
    BY <1>1 DEF Held
  <2>2. After(head', n - 1) = After(head, n)
    BY <1>1 DEF After
  <2>3. After(head, n) \in 0..(Size - 1) /\ After(head, n) # After(head, 0)
    BY <1>1 DEF After
  <2>4. Held'[n] = paths[After(head, n)]
    BY <2>1, <2>2, <2>3 DEF queue_dequeue, After
  <2>5. Held[n + 1] = paths[After(head, n)]
    BY <1>1 DEF Held
  <2> QED
    BY <1>2, <2>4, <2>5
<1>4. Held' = Tail(Held)
  BY <1>1, <1>2, <1>3
<1> QED
  BY <1>1, <1>2, <1>4 DEF queue_dequeue, Fifo!Take

\* The ring buffer implements the closable FIFO queue.
THEOREM RingIsFifo == QueueSpec => ImplementsFifo
<1>1. queue_init => Fifo!Init
  BY DEF queue_init, Fifo!Init, Held
<1>2. QInv /\ [QueueNext]_queueVars => [Fifo!Next]_Fifo!fvars
  <2> SUFFICES ASSUME QInv, [QueueNext]_queueVars
               PROVE  Fifo!Next \/ UNCHANGED Fifo!fvars
    OBVIOUS
  <2>1. CASE queue_refuses \/ queue_ended \/ UNCHANGED queueVars
    BY <2>1 DEF queue_refuses, queue_ended, queueVars, Fifo!fvars, Held
  <2>2. CASE queue_complete_adding
    BY <2>2 DEF queue_complete_adding, Fifo!Next, Fifo!Close, Held
  <2>3. ASSUME NEW p \in Elem, queue_enqueue(p) PROVE Fifo!Next
    BY <2>3, EnqueueAppends DEF Fifo!Next
  <2>4. ASSUME NEW p \in Elem \cup {NULL}, queue_dequeue(p) PROVE Fifo!Next
    BY <2>4, DequeueTakes DEF Fifo!Next
  <2> QED
    BY <2>1, <2>2, <2>3, <2>4 DEF QueueNext
<1> QED
  BY <1>1, <1>2, QInit, QNext, PTL DEF QueueSpec, ImplementsFifo, Fifo!Spec

-----------------------------------------------------------------------------
(* The threads.                                                            *)

\* What each worker is at, and the file it is at it with.
Reading ==
    \A w \in Thread :
       /\ path[w] # NULL <=> pc[w] \in {"test", "lock", "count", "close"}
       /\ path[w] # NULL => offset[path[w]] <= Len(Ballots[path[w]])
       /\ pc[w] \in {"lock", "count"} => offset[path[w]] < Len(Ballots[path[w]])

\* Who holds which mutex: the workers that count, each the one of its buffer
\* position, and the signal thread the first ones, all of them when it prints.
Locks ==
    /\ \A w \in Thread : pc[w] = "count" => Position(w) >= locked
    /\ \A v, w \in Thread :
          pc[v] = "count" /\ pc[w] = "count" /\ Position(v) = Position(w) => v = w
    /\ sig \in {"wait", "returned"} => locked = 0
    /\ sig = "locking" => locked < Batch
    /\ sig = "print" => locked = Batch

\* No vote, and no vote a worker is about to write, is more than the ballots.
Counts ==
    /\ \A c \in Candidate :
          IsFiniteSet(CountedFor(c)) /\ votes[c] <= Cardinality(CountedFor(c))
    /\ \A w \in Thread : pc[w] = "count" => loaded[w] <= Cardinality(CountedFor(Vote(w)))

Unread == {f \in Elem : offset[f] < Len(Ballots[f])}

Drained == completed_adding /\ count = 0

Joining == main \in {"scan", "complete", "join"}
Joined == main \in {"joinsig", "destroy", "printed", "disposed", "exited"}

\* Until main has joined the workers every file is read or somewhere to be read,
\* and nobody is done before the queue is empty for good; after that only Extra
\* can have a file, its last one.
Leftovers ==
    /\ Joining =>
          /\ ~finished /\ "INT" \notin pending /\ destroyed = 0
          /\ \A f \in Unread : \/ f \in toScan
                              \/ \E i \in 0..(Size - 1) : paths[i] = f
                              \/ \E w \in Thread : path[w] = f
          /\ \A w \in Thread : pc[w] = "close" => path[w] \notin Unread
          /\ \A w \in Thread : pc[w] = "done" => Drained
          /\ main # "join" => ~completed_adding
          /\ main # "scan" => toScan = {}
    /\ Joined =>
          /\ Drained
          /\ \A w \in Worker : pc[w] = "done"
          /\ \E f \in Elem \cup {NULL} : Unread \subseteq {f} /\ path[Extra] \in {f, NULL}

LeftoversUnlessInt == ~userInt => Leftovers

IInv ==
    /\ TypeOK /\ PlacesInOrder /\ OneReaderPerFile /\ Reading /\ Locks
    /\ Counts /\ LeftoversUnlessInt

-----------------------------------------------------------------------------
LEMMA PositionType ==
  ASSUME TypeOK, NEW w \in Thread, path[w] \in Elem
  PROVE  Position(w) \in Place
<1>1. offset[path[w]] \in Nat
  BY DEF TypeOK
<1> QED
  BY <1>1, VotingAssumption DEF Position, Place

LEMMA VoteType ==
  ASSUME TypeOK, Reading, NEW w \in Thread, pc[w] \in {"lock", "count"}
  PROVE  path[w] \in Elem /\ Vote(w) \in Candidate
<1>1. path[w] \in Elem /\ offset[path[w]] < Len(Ballots[path[w]]) /\ offset[path[w]] \in Nat
  BY DEF TypeOK, Reading
<1>2. Ballots[path[w]] \in Seq(Candidate)
  BY <1>1, VotingAssumption
<1>3. offset[path[w]] + 1 \in 1..Len(Ballots[path[w]])
  BY <1>1, <1>2
<1> QED
  BY <1>1, <1>2, <1>3 DEF Vote

\* Every step of a thread is a step of the queue or leaves it alone.
LEMMA QueueStep == TypeOK /\ [Next]_vars => [QueueNext]_queueVars
<1> SUFFICES ASSUME TypeOK, [Next]_vars PROVE [QueueNext]_queueVars
  OBVIOUS
<1>1. ASSUME NEW w \in Thread, WorkerStep(w) PROVE [QueueNext]_queueVars
  <2>1. CASE Dequeue(w)
    BY <2>1 DEF Dequeue, QueueNext
  <2>2. CASE NoMore(w)
    BY <2>2 DEF NoMore, QueueNext
  <2>3. CASE ReadBatch(w) \/ LockAndLoad(w) \/ LockFails(w) \/ StoreAndUnlock(w)
             \/ CloseFile(w) \/ UseAfterFree(w)
    BY <2>3 DEF ReadBatch, LockAndLoad, LockFails, StoreAndUnlock, CloseFile, UseAfterFree
  <2> QED
    BY <1>1, <2>1, <2>2, <2>3 DEF WorkerStep
<1>2. CASE SignalStep
  BY <1>2 DEF SignalStep, SigInt, SigUsr1, LockNext, PrintPartial, QueueNext
<1>3. ASSUME MainStep PROVE [QueueNext]_queueVars
  <2>1. CASE Enqueue
    <3>1. PICK p \in toScan : queue_enqueue(p)
      BY <2>1 DEF Enqueue
    <3>2. p \in Elem
      BY DEF TypeOK
    <3> QED
      BY <3>1, <3>2 DEF QueueNext
  <2>2. CASE StopScan \/ Complete
    BY <2>2 DEF StopScan, Complete, QueueNext
  <2>3. CASE EndOfDir \/ JoinWorkers \/ JoinSignalThread \/ DestroyMutex \/ PrintFinal
             \/ Dispose \/ Exit
    BY <2>3 DEF EndOfDir, JoinWorkers, JoinSignalThread, DestroyMutex, PrintFinal, Dispose, Exit
  <2> QED
    BY <1>3, <2>1, <2>2, <2>3 DEF MainStep
<1>4. CASE UserInt \/ UserUsr1 \/ UNCHANGED vars
  BY <1>4 DEF UserInt, UserUsr1, vars
<1> QED
  BY <1>1, <1>2, <1>3, <1>4 DEF Next

LEMMA QueueKept == IInv /\ [Next]_vars => QInv'
  BY QueueStep, QNext DEF IInv, QInv, TypeOK

-----------------------------------------------------------------------------
LEMMA InitHolds == Init => IInv
<1> SUFFICES ASSUME Init PROVE IInv
  OBVIOUS
<1> USE VotingAssumption, QueueAssumption DEF Init
<1>1. QInv
  BY QInit
<1>2. TypeOK
  <2>1. 0 \in 0..Batch /\ 0 \in 0..MaxUsr1
    OBVIOUS
  <2>2. /\ pc \in [Thread -> {"dequeue"}] /\ path \in [Thread -> {NULL}]
        /\ loaded \in [Thread -> {0}] /\ offset \in [Elem -> {0}] /\ votes \in [Candidate -> {0}]
    OBVIOUS
  <2> QED
    BY <1>1, <2>1, <2>2 DEF QInv, TypeOK
<1>3. PlacesInOrder
  BY <1>1 DEF QInv
<1>4. OneReaderPerFile
  BY DEF OneReaderPerFile, queue_init
<1>5. Reading
  BY DEF Reading
<1>6. Locks
  BY DEF Locks
<1>7. Counts
  <2>1. \A c : CountedFor(c) = {}
    BY DEF CountedFor
  <2>2. \A c : IsFiniteSet(CountedFor(c)) /\ Cardinality(CountedFor(c)) = 0
    BY <2>1, FS_EmptySet, Zenon
  <2>3. \A c \in Candidate : votes[c] = 0
    OBVIOUS
  <2>4. \A w \in Thread : pc[w] = "dequeue"
    OBVIOUS
  <2> QED
    BY <2>2, <2>3, <2>4 DEF Counts
<1>8. LeftoversUnlessInt
  BY DEF LeftoversUnlessInt, Leftovers, Joining, Joined, Unread, queue_init
<1> QED
  BY <1>2, <1>3, <1>4, <1>5, <1>6, <1>7, <1>8 DEF IInv

LEMMA TypeNext == IInv /\ [Next]_vars => TypeOK'
<1> SUFFICES ASSUME IInv, [Next]_vars PROVE TypeOK'
  OBVIOUS
<1> USE VotingAssumption, QueueAssumption
<1>0. QueueTypeOK' /\ TypeOK
  BY QueueKept DEF QInv, IInv
<1>1. ASSUME NEW w \in Thread, WorkerStep(w) PROVE TypeOK'
  <2>1. CASE Dequeue(w)
    BY <1>0, <2>1 DEF Dequeue, Goto, TypeOK, mainVars, sigVars, userVars
  <2>2. CASE NoMore(w)
    BY <1>0, <2>2 DEF NoMore, Goto, TypeOK, mainVars, sigVars, userVars
  <2>3. CASE ReadBatch(w)
    BY <1>0, <2>3 DEF ReadBatch, Goto, TypeOK, mainVars, sigVars, userVars
  <2>4. CASE LockAndLoad(w)
    <3>1. votes[Vote(w)] \in Nat
      BY <1>0, <2>4, VoteType DEF IInv, TypeOK, LockAndLoad
    <3> QED
      BY <1>0, <2>4, <3>1 DEF LockAndLoad, Goto, TypeOK, mainVars, sigVars, userVars
  <2>5. CASE LockFails(w) \/ UseAfterFree(w)
    BY <1>0, <2>5 DEF LockFails, UseAfterFree, TypeOK, workerVars, sigVars, userVars
  <2>6. CASE StoreAndUnlock(w)
    <3>1. path[w] \in Elem /\ offset[path[w]] + 1 \in Nat /\ loaded[w] + 1 \in Nat
      BY <1>0, <2>6, VoteType DEF IInv, TypeOK, StoreAndUnlock
    <3> QED
      BY <1>0, <2>6, <3>1 DEF StoreAndUnlock, Goto, TypeOK, mainVars, sigVars, userVars
  <2>7. CASE CloseFile(w)
    BY <1>0, <2>7 DEF CloseFile, Goto, TypeOK, mainVars, sigVars, userVars
  <2> QED
    BY <1>1, <2>1, <2>2, <2>3, <2>4, <2>5, <2>6, <2>7 DEF WorkerStep
<1>2. CASE SignalStep
  <2>1. CASE LockNext
    <3>1. locked + 1 \in 0..Batch
      BY <2>1, <1>0 DEF LockNext, IInv, Locks, TypeOK
    <3> QED
      BY <1>0, <2>1, <3>1 DEF LockNext, TypeOK, mainVars, workerVars, userVars
  <2>2. CASE SigInt
    BY <1>0, <2>2 DEF SigInt, TypeOK, mainVars, workerVars, userVars
  <2>3. CASE SigUsr1
    BY <1>0, <2>3 DEF SigUsr1, TypeOK, mainVars, workerVars, userVars
  <2>4. CASE PrintPartial
    <3>1. 0 \in 0..Batch
      OBVIOUS
    <3> QED
      BY <1>0, <2>4, <3>1 DEF PrintPartial, TypeOK, mainVars, workerVars, userVars
  <2> QED
    BY <1>2, <2>1, <2>2, <2>3, <2>4 DEF SignalStep
<1>3. CASE MainStep
  <2>1. CASE Enqueue \/ StopScan \/ EndOfDir \/ Complete
    BY <1>0, <2>1 DEF Enqueue, StopScan, EndOfDir, Complete, TypeOK, workerVars, sigVars, userVars
  <2>2. CASE JoinWorkers
    BY <1>0, <2>2 DEF JoinWorkers, TypeOK, workerVars, userVars
  <2>3. CASE DestroyMutex
    BY <1>0, <2>3 DEF DestroyMutex, TypeOK, workerVars, sigVars, userVars
  <2>4. CASE JoinSignalThread \/ PrintFinal \/ Dispose \/ Exit
    BY <1>0, <2>4 DEF JoinSignalThread, PrintFinal, Dispose, Exit, TypeOK, workerVars, sigVars, userVars
  <2> QED
    BY <1>3, <2>1, <2>2, <2>3, <2>4 DEF MainStep
<1>4. CASE UserInt
  BY <1>0, <1>4 DEF UserInt, TypeOK, mainVars, workerVars
<1>5. CASE UserUsr1
  BY <1>0, <1>5 DEF UserUsr1, TypeOK, mainVars, workerVars
<1>6. CASE UNCHANGED vars
  BY <1>0, <1>6 DEF vars, TypeOK, mainVars, workerVars, sigVars, userVars
<1> QED
  BY <1>1, <1>2, <1>3, <1>4, <1>5, <1>6 DEF Next

-----------------------------------------------------------------------------
\* A step that leaves alone what is where: the steps of main but for Enqueue,
\* of the signal thread, of the user, and some of the workers'.
Still == UNCHANGED <<paths, toScan, path, offset>>

LEMMA StillSteps ==
  ASSUME [Next]_vars
  PROVE  \/ Still
         \/ Enqueue
         \/ \E w \in Thread : Dequeue(w) \/ StoreAndUnlock(w) \/ CloseFile(w)
<1>1. ASSUME NEW w \in Thread, WorkerStep(w)
      PROVE  Still \/ Dequeue(w) \/ StoreAndUnlock(w) \/ CloseFile(w)
  BY <1>1 DEF WorkerStep, NoMore, ReadBatch, LockAndLoad, LockFails, UseAfterFree,
     queue_ended, Still, queueVars, mainVars, workerVars
<1>2. CASE SignalStep
  BY <1>2 DEF SignalStep, SigInt, SigUsr1, LockNext, PrintPartial, queue_complete_adding,
     Still, queueVars, mainVars, workerVars
<1>3. ASSUME MainStep PROVE Still \/ Enqueue
  BY <1>3 DEF MainStep, StopScan, EndOfDir, Complete, JoinWorkers, JoinSignalThread,
     DestroyMutex, PrintFinal, Dispose, Exit, queue_refuses, queue_complete_adding,
     Still, queueVars, workerVars
<1>4. CASE UserInt \/ UserUsr1 \/ UNCHANGED vars
  BY <1>4 DEF UserInt, UserUsr1, vars, Still, queueVars, mainVars, workerVars
<1> QED
  BY <1>1, <1>2, <1>3, <1>4 DEF Next

LEMMA OneReaderNext == IInv /\ [Next]_vars => OneReaderPerFile'
<1> SUFFICES ASSUME IInv, [Next]_vars PROVE OneReaderPerFile'
  OBVIOUS
<1> USE QueueAssumption
<1>0. TypeOK /\ OneReaderPerFile /\ Reading
  BY DEF IInv
<1>1. CASE Still
  BY <1>0, <1>1 DEF OneReaderPerFile, Still
<1>2. CASE Enqueue
  <2>1. PICK p \in toScan : queue_enqueue(p) /\ toScan' = toScan \ {p}
    BY <1>2 DEF Enqueue
  <2>2. /\ p \in Elem /\ p # NULL
        /\ paths' = [paths EXCEPT ![tail] = p]
        /\ path' = path /\ offset' = offset
    BY <1>0, <1>2, <2>1 DEF TypeOK, Enqueue, queue_enqueue, workerVars
  <2>3. \A i \in 0..(Size - 1) : (paths'[i] = p /\ i = tail) \/ paths'[i] = paths[i]
    BY <1>0, <2>2 DEF TypeOK, QueueTypeOK
  <2>4. \A i \in 0..(Size - 1) : paths[i] # p
    BY <1>0 DEF OneReaderPerFile
  <2> QED
    BY <1>0, <2>1, <2>2, <2>3, <2>4 DEF OneReaderPerFile
<1>3. ASSUME NEW w \in Thread, Dequeue(w) PROVE OneReaderPerFile'
  <2>1. PICK p \in Elem : queue_dequeue(p) /\ path' = [path EXCEPT ![w] = p]
    BY <1>3 DEF Dequeue
  <2>2. /\ p = paths[head] /\ p # NULL
        /\ head \in 0..(Size - 1)
        /\ paths' = [paths EXCEPT ![head] = NULL]
        /\ toScan' = toScan /\ offset' = offset
    BY <1>0, <1>3, <2>1 DEF TypeOK, QueueTypeOK, Dequeue, queue_dequeue, mainVars
  <2>3. \A i \in 0..(Size - 1) : IF i = head THEN paths'[i] = NULL ELSE paths'[i] = paths[i]
    BY <1>0, <2>2 DEF TypeOK, QueueTypeOK
  <2>4. \A v \in Thread : IF v = w THEN path'[v] = p ELSE path'[v] = path[v]
    BY <1>0, <2>1 DEF TypeOK
  <2>5. p \notin toScan /\ \A v \in Thread : path[v] # p
    BY <1>0, <2>2 DEF OneReaderPerFile
  <2>6. NULL \notin toScan
    BY <1>0 DEF TypeOK
  <2> QED
    BY <1>0, <2>2, <2>3, <2>4, <2>5, <2>6 DEF OneReaderPerFile
<1>4. ASSUME NEW w \in Thread, StoreAndUnlock(w) PROVE OneReaderPerFile'
  <2>1. /\ offset' = [offset EXCEPT ![path[w]] = offset[path[w]] + 1]
        /\ paths' = paths /\ toScan' = toScan /\ path' = path
    BY <1>4 DEF StoreAndUnlock, queueVars, mainVars
  <2>2. path[w] \notin toScan /\ \A i \in 0..(Size - 1) : paths[i] # NULL => paths[i] # path[w]
    BY <1>0 DEF OneReaderPerFile
  <2>3. \A f \in Elem : f # path[w] => offset'[f] = offset[f]
    BY <1>0, <2>1 DEF TypeOK
  <2>4. toScan \subseteq Elem /\ \A i \in 0..(Size - 1) : paths[i] # NULL => paths[i] \in Elem
    BY <1>0 DEF TypeOK, QueueTypeOK
  <2> QED
    BY <1>0, <2>1, <2>2, <2>3, <2>4 DEF OneReaderPerFile
<1>5. ASSUME NEW w \in Thread, CloseFile(w) PROVE OneReaderPerFile'
  <2>1. /\ path' = [path EXCEPT ![w] = NULL]
        /\ paths' = paths /\ toScan' = toScan /\ offset' = offset
    BY <1>5 DEF CloseFile, queueVars, mainVars
  <2>2. \A v \in Thread : IF v = w THEN path'[v] = NULL ELSE path'[v] = path[v]
    BY <1>0, <2>1 DEF TypeOK
  <2>3. NULL \notin toScan
    BY <1>0 DEF TypeOK
  <2> QED
    BY <1>0, <2>1, <2>2, <2>3 DEF OneReaderPerFile
<1> QED
  BY <1>1, <1>2, <1>3, <1>4, <1>5, StillSteps

-----------------------------------------------------------------------------
LEMMA ReadingNext == IInv /\ [Next]_vars => Reading'
<1> SUFFICES ASSUME IInv, [Next]_vars PROVE Reading'
  OBVIOUS
<1> USE QueueAssumption, VotingAssumption
<1>0. TypeOK /\ OneReaderPerFile /\ Reading
  BY DEF IInv
<1>1. CASE UNCHANGED <<pc, path, offset>>
  BY <1>0, <1>1 DEF Reading
<1>2. ASSUME NEW w \in Thread, Dequeue(w) PROVE Reading'
  <2>1. PICK p \in Elem : queue_dequeue(p) /\ path' = [path EXCEPT ![w] = p]
    BY <1>2 DEF Dequeue
  <2>2. pc' = [pc EXCEPT ![w] = "test"] /\ offset' = offset
    BY <1>2 DEF Dequeue, Goto
  <2>3. p # NULL /\ offset[p] = 0 /\ Len(Ballots[p]) \in Nat
    BY <1>0, <2>1 DEF OneReaderPerFile, TypeOK, QueueTypeOK, queue_dequeue
  <2> QED
    BY <1>0, <2>1, <2>2, <2>3 DEF TypeOK, Reading
<1>3. ASSUME NEW w \in Thread, NoMore(w) PROVE Reading'
  BY <1>0, <1>3 DEF NoMore, Goto, TypeOK, Reading
<1>4. ASSUME NEW w \in Thread, ReadBatch(w) PROVE Reading'
  <2>1. path[w] \in Elem /\ offset[path[w]] \in Nat /\ Len(Ballots[path[w]]) \in Nat
    BY <1>0, <1>4 DEF ReadBatch, TypeOK, Reading
  <2>2. offset[path[w]] # Len(Ballots[path[w]]) => offset[path[w]] < Len(Ballots[path[w]])
    BY <1>0, <1>4, <2>1 DEF Reading
  <2>3. /\ pc' = [pc EXCEPT ![w] = IF finished \/ offset[path[w]] = Len(Ballots[path[w]])
                                     THEN "close" ELSE "lock"]
        /\ pc[w] = "test" /\ path' = path /\ offset' = offset
    BY <1>4 DEF ReadBatch, Goto
  <2> QED
    BY <1>0, <2>1, <2>2, <2>3 DEF TypeOK, Reading
<1>5. ASSUME NEW w \in Thread, LockAndLoad(w) PROVE Reading'
  BY <1>0, <1>5 DEF LockAndLoad, Goto, TypeOK, Reading
<1>6. ASSUME NEW w \in Thread, StoreAndUnlock(w) PROVE Reading'
  <2> DEFINE f == path[w]  n == offset[f] + 1
  <2>1. /\ f \in Elem /\ f # NULL
        /\ offset[f] \in Nat /\ Len(Ballots[f]) \in Nat /\ offset[f] < Len(Ballots[f])
    BY <1>0, <1>6, VoteType DEF StoreAndUnlock, TypeOK, Reading
  <2>2. /\ pc[w] = "count" /\ path' = path
        /\ offset' = [offset EXCEPT ![f] = n]
        /\ pc' = [pc EXCEPT ![w] = IF n % Batch = 0 \/ n = Len(Ballots[f])
                                     THEN "test" ELSE "lock"]
    BY <1>6 DEF StoreAndUnlock, Goto
  <2>3. offset'[f] = n /\ n <= Len(Ballots[f]) /\ (n # Len(Ballots[f]) => n < Len(Ballots[f]))
    BY <1>0, <2>1, <2>2 DEF TypeOK
  <2>4. \A v \in Thread : v # w /\ path[v] # NULL => offset'[path[v]] = offset[path[v]]
    BY <1>0, <2>1, <2>2 DEF TypeOK, OneReaderPerFile
  <2>5. pc'[w] \in {"test", "lock"} /\ (n = Len(Ballots[f]) => pc'[w] = "test")
    BY <1>0, <2>2 DEF TypeOK
  <2> SUFFICES ASSUME NEW v \in Thread
               PROVE  /\ path[v] # NULL <=> pc'[v] \in {"test", "lock", "count", "close"}
                      /\ path[v] # NULL => offset'[path[v]] <= Len(Ballots[path[v]])
                      /\ pc'[v] \in {"lock", "count"} => offset'[path[v]] < Len(Ballots[path[v]])
    BY <2>2 DEF Reading
  <2>6. CASE v = w
    BY <2>1, <2>2, <2>3, <2>5, <2>6
  <2>7. CASE v # w
    <3>1. pc'[v] = pc[v]
      BY <1>0, <2>2, <2>7 DEF TypeOK
    <3> QED
      BY <1>0, <2>4, <2>7, <3>1 DEF Reading
  <2> QED
    BY <2>6, <2>7
<1>7. ASSUME NEW w \in Thread, CloseFile(w) PROVE Reading'
  BY <1>0, <1>7 DEF CloseFile, Goto, TypeOK, Reading
<1>8. ASSUME NEW w \in Thread, WorkerStep(w) PROVE Reading'
  <2>1. CASE LockFails(w) \/ UseAfterFree(w)
    BY <1>1, <2>1 DEF LockFails, UseAfterFree, workerVars
  <2> QED
    BY <1>2, <1>3, <1>4, <1>5, <1>6, <1>7, <1>8, <2>1 DEF WorkerStep
<1>9. CASE SignalStep \/ MainStep \/ UserInt \/ UserUsr1 \/ UNCHANGED vars
  <2>1. UNCHANGED workerVars
    BY <1>9 DEF SignalStep, SigInt, SigUsr1, LockNext, PrintPartial, MainStep, Enqueue, StopScan,
       EndOfDir, Complete, JoinWorkers, JoinSignalThread, DestroyMutex, PrintFinal, Dispose, Exit,
       UserInt, UserUsr1, vars
  <2> QED
    BY <1>1, <2>1 DEF workerVars
<1> QED
  BY <1>8, <1>9 DEF Next

-----------------------------------------------------------------------------
LEMMA LocksNext == IInv /\ [Next]_vars => Locks'
<1> SUFFICES ASSUME IInv, [Next]_vars PROVE Locks'
  OBVIOUS
<1> USE QueueAssumption, VotingAssumption
<1>0. TypeOK /\ OneReaderPerFile /\ Reading /\ Locks
  BY DEF IInv
<1>1. ASSUME NEW w \in Thread, Dequeue(w) \/ NoMore(w) \/ ReadBatch(w) \/ CloseFile(w)
      PROVE  Locks'
  <2>1. UNCHANGED sigVars /\ offset' = offset /\ pc'[w] # "count"
    BY <1>0, <1>1 DEF Dequeue, NoMore, ReadBatch, CloseFile, Goto, TypeOK
  <2>2. \A v \in Thread : v # w => pc'[v] = pc[v] /\ path'[v] = path[v]
    BY <1>0, <1>1 DEF Dequeue, NoMore, ReadBatch, CloseFile, Goto, TypeOK
  <2> QED
    BY <1>0, <2>1, <2>2 DEF Locks, Position, sigVars
<1>2. ASSUME NEW w \in Thread, LockAndLoad(w) PROVE Locks'
  <2>1. UNCHANGED sigVars /\ offset' = offset /\ path' = path
    BY <1>2 DEF LockAndLoad
  <2>2. \A v \in Thread : v # w => pc'[v] = pc[v]
    BY <1>0, <1>2 DEF LockAndLoad, Goto, TypeOK
  <2>3. \A v \in Thread : Position(v)' = Position(v)
    BY <2>1 DEF Position
  <2>4. path[w] \in Elem
    BY <1>0, <1>2 DEF LockAndLoad, TypeOK, Reading
  <2>5. Position(w) >= locked
    BY <1>0, <1>2, <2>4, PositionType DEF LockAndLoad, MutexFree, TypeOK, Place
  <2>6. \A v \in Thread : pc[v] = "count" => Position(v) # Position(w)
    BY <1>2 DEF LockAndLoad, MutexFree
  <2> QED
    BY <1>0, <2>1, <2>2, <2>3, <2>5, <2>6 DEF Locks, sigVars
<1>3. ASSUME NEW w \in Thread, StoreAndUnlock(w) PROVE Locks'
  <2>1. UNCHANGED sigVars /\ path' = path /\ pc[w] = "count" /\ path[w] # NULL
    BY <1>0, <1>3 DEF StoreAndUnlock, Reading
  <2>2. pc'[w] # "count" /\ \A v \in Thread : v # w => pc'[v] = pc[v]
    BY <1>0, <1>3 DEF StoreAndUnlock, Goto, TypeOK
  <2>3. \A f \in Elem : f # path[w] => offset'[f] = offset[f]
    BY <1>0, <1>3 DEF StoreAndUnlock, TypeOK
  <2>4. \A v \in Thread : v # w /\ pc[v] = "count" => Position(v)' = Position(v)
    BY <1>0, <2>1, <2>3 DEF Position, Reading, OneReaderPerFile, TypeOK
  <2> QED
    BY <1>0, <2>1, <2>2, <2>4 DEF Locks, sigVars
<1>4. ASSUME NEW w \in Thread, WorkerStep(w) PROVE Locks'
  <2>1. CASE LockFails(w) \/ UseAfterFree(w)
    BY <1>0, <2>1 DEF LockFails, UseAfterFree, Locks, Position, workerVars, sigVars
  <2> QED
    BY <1>1, <1>2, <1>3, <1>4, <2>1 DEF WorkerStep
<1>5. CASE SignalStep
  <2>1. \A v \in Thread : pc'[v] = pc[v] /\ Position(v)' = Position(v)
    BY <1>5 DEF SignalStep, SigInt, SigUsr1, LockNext, PrintPartial, Position, workerVars
  <2>2. CASE LockNext
    <3>1. \A v \in Thread : pc[v] = "count" => Position(v) \in Nat /\ Position(v) # locked
      BY <1>0, <2>2, PositionType DEF LockNext, MutexFree, Reading, TypeOK, Place
    <3> QED
      BY <1>0, <2>1, <2>2, <3>1 DEF LockNext, Locks, TypeOK
  <2>3. CASE PrintPartial
    <3>1. \A v \in Thread : pc[v] = "count" => Position(v) \in Nat
      BY <1>0, PositionType DEF Reading, TypeOK, Place
    <3> QED
      BY <1>0, <2>1, <2>3, <3>1 DEF PrintPartial, Locks
  <2>4. CASE SigInt
    BY <1>0, <2>1, <2>4 DEF SigInt, Locks
  <2>5. CASE SigUsr1
    BY <1>0, <2>1, <2>5 DEF SigUsr1, Locks, TypeOK
  <2> QED
    BY <1>5, <2>2, <2>3, <2>4, <2>5 DEF SignalStep
<1>6. CASE MainStep \/ UserInt \/ UserUsr1 \/ UNCHANGED vars
  <2>1. UNCHANGED <<workerVars, sig, locked>>
    BY <1>6 DEF MainStep, Enqueue, StopScan, EndOfDir, Complete, JoinWorkers, JoinSignalThread,
       DestroyMutex, PrintFinal, Dispose, Exit, UserInt, UserUsr1, vars, sigVars
  <2> QED
    BY <1>0, <2>1 DEF Locks, Position, workerVars
<1> QED
  BY <1>4, <1>5, <1>6 DEF Next

-----------------------------------------------------------------------------
\* A pair is counted for c iff it is a counted ballot, for c.
LEMMA CountedBallots ==
  \A c, x : x \in CountedFor(c) <=>
     \E f \in Elem : \E i \in 1..offset[f] : Ballots[f][i] = c /\ x = <<f, i>>
BY DEF CountedFor

\* The worker that stores a vote adds a ballot to those counted.
LEMMA StoreCounts ==
  ASSUME TypeOK, Reading, NEW w \in Thread, StoreAndUnlock(w), NEW c \in Candidate,
         IsFiniteSet(CountedFor(c))
  PROVE  /\ IsFiniteSet(CountedFor(c)')
         /\ Cardinality(CountedFor(c)') =
              Cardinality(CountedFor(c)) + (IF c = Vote(w) THEN 1 ELSE 0)
<1> DEFINE f == path[w]  n == offset[f] + 1
<1>1. /\ f \in Elem /\ offset[f] \in Nat /\ pc[w] = "count"
      /\ offset' = [offset EXCEPT ![f] = n]
  BY VoteType DEF StoreAndUnlock, TypeOK
<1>2. offset'[f] = n /\ \A g \in Elem : g # f => offset'[g] = offset[g]
  BY <1>1 DEF TypeOK
<1>3. Vote(w) = Ballots[f][n]
  BY DEF Vote
<1>4. \A x : x \in CountedFor(c)' <=>
        \E g \in Elem : \E i \in 1..offset'[g] : Ballots[g][i] = c /\ x = <<g, i>>
  BY DEF CountedFor
<1>5. \A i : i \in 1..n <=> i \in 1..offset[f] \/ i = n
  BY <1>1
<1> HIDE DEF f, n
<1>6. \A x : x \in CountedFor(c)' <=> x \in CountedFor(c) \/ (c = Vote(w) /\ x = <<f, n>>)
  BY <1>1, <1>2, <1>3, <1>4, <1>5, CountedBallots
<1>7. <<f, n>> \notin CountedFor(c)
  <2>1. n \notin 1..offset[f]
    BY <1>1 DEF n
  <2> QED
    BY <2>1, CountedBallots
<1>8. CASE c = Vote(w)
  <2>1. CountedFor(c)' = CountedFor(c) \cup {<<f, n>>}
    BY <1>6, <1>8
  <2>2. IsFiniteSet(CountedFor(c)')
    BY <2>1, FS_AddElement
  <2>3. Cardinality(CountedFor(c)') = Cardinality(CountedFor(c)) + 1
    BY <1>7, <2>1, FS_AddElement
  <2> QED
    BY <1>8, <2>2, <2>3
<1>9. CASE c # Vote(w)
  <2>1. CountedFor(c)' = CountedFor(c)
    BY <1>6, <1>9
  <2>2. Cardinality(CountedFor(c)) \in Nat
    BY FS_CardinalityType
  <2> QED
    BY <1>9, <2>1, <2>2
<1> QED
  BY <1>8, <1>9

\* A step that leaves the files, the votes and the counting workers alone.
LEMMA CountsStay ==
  ASSUME Counts, UNCHANGED <<offset, votes, loaded>>,
         \A v \in Thread : pc'[v] = "count" => pc[v] = "count" /\ path'[v] = path[v]
  PROVE  Counts'
<1>1. \A c : CountedFor(c)' = CountedFor(c)
  BY DEF CountedFor
<1>2. \A v \in Thread : pc'[v] = "count" => Vote(v)' = Vote(v)
  BY DEF Vote
<1> QED
  BY <1>1, <1>2 DEF Counts

LEMMA CountsNext == IInv /\ [Next]_vars => Counts'
<1> SUFFICES ASSUME IInv, [Next]_vars PROVE Counts'
  OBVIOUS
<1>0. TypeOK /\ OneReaderPerFile /\ Reading /\ Counts
  BY DEF IInv
<1>1. ASSUME NEW w \in Thread, Dequeue(w) \/ NoMore(w) \/ ReadBatch(w) \/ CloseFile(w)
      PROVE  Counts'
  <2>1. UNCHANGED <<offset, votes, loaded>> /\ pc'[w] # "count"
    BY <1>0, <1>1 DEF Dequeue, NoMore, ReadBatch, CloseFile, Goto, TypeOK
  <2>2. \A v \in Thread : v # w => pc'[v] = pc[v] /\ path'[v] = path[v]
    BY <1>0, <1>1 DEF Dequeue, NoMore, ReadBatch, CloseFile, Goto, TypeOK
  <2> QED
    BY <1>0, <2>1, <2>2, CountsStay
<1>2. ASSUME NEW w \in Thread, LockAndLoad(w) PROVE Counts'
  <2>1. /\ UNCHANGED <<path, offset, votes>> /\ pc[w] = "lock"
        /\ loaded' = [loaded EXCEPT ![w] = votes[Vote(w)]] /\ pc' = [pc EXCEPT ![w] = "count"]
    BY <1>2 DEF LockAndLoad, Goto
  <2>2. Vote(w) \in Candidate
    BY <1>0, <2>1, VoteType
  <2>3. loaded'[w] <= Cardinality(CountedFor(Vote(w)))
    BY <1>0, <2>1, <2>2 DEF TypeOK, Counts
  <2>4. \A v \in Thread : v # w => pc'[v] = pc[v] /\ loaded'[v] = loaded[v]
    BY <1>0, <2>1 DEF TypeOK
  <2>5. (\A c : CountedFor(c)' = CountedFor(c)) /\ (\A v \in Thread : Vote(v)' = Vote(v))
    BY <2>1 DEF CountedFor, Vote
  <2> QED
    BY <1>0, <2>1, <2>3, <2>4, <2>5 DEF Counts
<1>3. ASSUME NEW w \in Thread, StoreAndUnlock(w) PROVE Counts'
  <2>1. /\ pc[w] = "count" /\ UNCHANGED <<path, loaded>>
        /\ votes' = [votes EXCEPT ![Vote(w)] = loaded[w] + 1]
    BY <1>3 DEF StoreAndUnlock
  <2>2. Vote(w) \in Candidate /\ loaded[w] \in Nat /\ path[w] \in Elem /\ path[w] # NULL
    BY <1>0, <2>1, VoteType, QueueAssumption DEF TypeOK
  <2>3. \A c \in Candidate :
           /\ IsFiniteSet(CountedFor(c)) /\ Cardinality(CountedFor(c)) \in Nat
           /\ IsFiniteSet(CountedFor(c)')
           /\ Cardinality(CountedFor(c)') =
                Cardinality(CountedFor(c)) + (IF c = Vote(w) THEN 1 ELSE 0)
    BY <1>0, <1>3, StoreCounts, FS_CardinalityType DEF Counts
  <2>4. loaded[w] <= Cardinality(CountedFor(Vote(w)))
    BY <1>0, <2>1 DEF Counts
  <2>5. ASSUME NEW c \in Candidate PROVE votes'[c] <= Cardinality(CountedFor(c)')
    <3>1. votes[c] \in Nat /\ votes[c] <= Cardinality(CountedFor(c))
      BY <1>0 DEF TypeOK, Counts
    <3>2. CASE c = Vote(w)
      <4>1. votes'[c] = loaded[w] + 1
        BY <1>0, <2>1, <2>2, <3>2 DEF TypeOK
      <4>2. Cardinality(CountedFor(c)') = Cardinality(CountedFor(c)) + 1
        BY <2>3, <3>2
      <4>3. loaded[w] <= Cardinality(CountedFor(c)) /\ Cardinality(CountedFor(c)) \in Nat
        BY <2>3, <2>4, <3>2
      <4> QED
        BY <2>2, <4>1, <4>2, <4>3
    <3>3. CASE c # Vote(w)
      <4>1. votes'[c] = votes[c]
        BY <1>0, <2>1, <3>3 DEF TypeOK
      <4>2. Cardinality(CountedFor(c)') = Cardinality(CountedFor(c))
            /\ Cardinality(CountedFor(c)) \in Nat
        BY <2>3, <3>3
      <4> QED
        BY <3>1, <4>1, <4>2
    <3> QED
      BY <3>2, <3>3
  <2>6. ASSUME NEW v \in Thread, pc'[v] = "count"
        PROVE  loaded'[v] <= Cardinality(CountedFor(Vote(v))')
    <3>1. v # w /\ pc[v] = "count"
      BY <1>0, <1>3, <2>6 DEF StoreAndUnlock, Goto, TypeOK
    <3>2. path[v] \in Elem /\ path[v] # path[w] /\ Vote(v) \in Candidate
      BY <1>0, <2>2, <3>1, VoteType DEF OneReaderPerFile
    <3>3. offset'[path[v]] = offset[path[v]]
      BY <1>0, <1>3, <3>2 DEF StoreAndUnlock, TypeOK
    <3>4. Vote(v)' = Vote(v)
      BY <2>1, <3>3 DEF Vote
    <3>5. /\ loaded[v] \in Nat /\ loaded[v] <= Cardinality(CountedFor(Vote(v)))
          /\ Cardinality(CountedFor(Vote(v))) \in Nat
      BY <1>0, <2>3, <3>1, <3>2 DEF Counts, TypeOK
    <3>6. \E d \in {0, 1} : Cardinality(CountedFor(Vote(v))') = Cardinality(CountedFor(Vote(v))) + d
      <4> DEFINE c == Vote(v)
      <4>1. CountedFor(c)' = CountedFor(Vote(v))'
        BY <3>4 DEF CountedFor
      <4> QED
        BY <2>3, <3>2, <3>4, <4>1
    <3> QED
      BY <2>1, <3>5, <3>6
  <2> QED
    BY <2>3, <2>5, <2>6 DEF Counts
<1>4. ASSUME NEW w \in Thread, WorkerStep(w) PROVE Counts'
  <2>1. CASE LockFails(w) \/ UseAfterFree(w)
    BY <1>0, <2>1, CountsStay DEF LockFails, UseAfterFree, workerVars
  <2> QED
    BY <1>1, <1>2, <1>3, <1>4, <2>1 DEF WorkerStep
<1>5. CASE SignalStep \/ MainStep \/ UserInt \/ UserUsr1 \/ UNCHANGED vars
  <2>1. UNCHANGED workerVars
    BY <1>5 DEF SignalStep, SigInt, SigUsr1, LockNext, PrintPartial, MainStep, Enqueue, StopScan,
       EndOfDir, Complete, JoinWorkers, JoinSignalThread, DestroyMutex, PrintFinal, Dispose, Exit,
       UserInt, UserUsr1, vars
  <2> QED
    BY <1>0, <2>1, CountsStay DEF workerVars
<1> QED
  BY <1>4, <1>5 DEF Next

-----------------------------------------------------------------------------
\* Only a store reads on in a file, and the files that are read only get more.
LEMMA UnreadShrinks ==
  ASSUME TypeOK, Reading, NEW w \in Thread, StoreAndUnlock(w)
  PROVE  Unread' \subseteq Unread
<1>1. /\ path[w] \in Elem /\ offset[path[w]] \in Nat /\ Len(Ballots[path[w]]) \in Nat
      /\ offset' = [offset EXCEPT ![path[w]] = offset[path[w]] + 1]
  BY VoteType, VotingAssumption DEF StoreAndUnlock, TypeOK
<1>2. \A f \in Elem : f # path[w] => offset'[f] = offset[f]
  BY <1>1 DEF TypeOK
<1>3. offset'[path[w]] = offset[path[w]] + 1
  BY <1>1 DEF TypeOK
<1> QED
  BY <1>1, <1>2, <1>3 DEF Unread

\* An empty queue holds no path.
LEMMA EmptyQueue ==
  ASSUME QueueTypeOK, PlacesInOrder, count = 0, NEW i \in 0..(Size - 1)
  PROVE  paths[i] = NULL
<1>1. \E n \in 0..(Size - 1) : After(head, n) = i
  <2>1. CASE head <= i
    <3>1. i - head \in 0..(Size - 1) /\ After(head, i - head) = i
      BY <2>1, QueueAssumption DEF QueueTypeOK, After
    <3> QED
      BY <3>1
  <2>2. CASE head > i
    <3>1. Size - head + i \in 0..(Size - 1)
      BY <2>2, QueueAssumption DEF QueueTypeOK
    <3>2. After(head, Size - head + i) = i
      BY <2>2, QueueAssumption DEF QueueTypeOK, After
    <3> QED
      BY <3>1, <3>2
  <2> QED
    BY <2>1, <2>2, QueueAssumption DEF QueueTypeOK
<1> QED
  BY <1>1, QueueAssumption DEF PlacesInOrder

\* Steps that leave alone what Leftovers is about.
LEMMA LeftoversStay ==
  ASSUME Leftovers,
         UNCHANGED <<queueVars, main, destroyed, toScan, path, offset>>, finished' = finished,
         Joining => "INT" \notin pending',
         \A v \in Thread : pc'[v] = "close" /\ Joining =>
                              pc[v] = "close" \/ path[v] \notin Unread,
         \A v \in Thread : pc'[v] = "done" /\ Joining =>
                              pc[v] = "done" \/ Drained,
         \A v \in Thread : pc[v] = "done" => pc'[v] = "done"
  PROVE  Leftovers'
<1>1. Unread' = Unread
  BY DEF Unread
<1>2. /\ paths' = paths /\ count' = count /\ completed_adding' = completed_adding
      /\ toScan' = toScan /\ path' = path /\ finished' = finished
      /\ main' = main /\ destroyed' = destroyed /\ Joining' = Joining /\ Joined' = Joined
  BY DEF queueVars, Joining, Joined
<1>3. CASE Joining
  <2>1. Joining' /\ ~Joined'
    BY <1>2, <1>3 DEF Joining, Joined
  <2> QED
    BY <1>1, <1>2, <1>3, <2>1 DEF Leftovers, Drained
<1>4. CASE ~Joining
  <2>1. ~Joining'
    BY <1>2, <1>4
  <2>2. Joined' => \A v \in Worker : pc'[v] = "done"
    BY <1>2 DEF Leftovers, Drained, Thread
  <2> QED
    BY <1>1, <1>2, <2>1, <2>2 DEF Leftovers, Drained
<1> QED
  BY <1>3, <1>4

LEMMA LeftoversWorker ==
  ASSUME IInv, Leftovers, NEW w \in Thread, WorkerStep(w)
  PROVE  Leftovers'
<1> USE QueueAssumption, VotingAssumption
<1>0. TypeOK /\ OneReaderPerFile /\ Reading /\ PlacesInOrder
  BY DEF IInv
<1>1. CASE Dequeue(w)
  <2>1. PICK p \in Elem : queue_dequeue(p) /\ path' = [path EXCEPT ![w] = p]
    BY <1>1 DEF Dequeue
  <2>2. /\ pc[w] = "dequeue" /\ pc' = [pc EXCEPT ![w] = "test"]
        /\ main' = main /\ destroyed' = destroyed /\ toScan' = toScan /\ offset' = offset
        /\ finished' = finished /\ pending' = pending
    BY <1>1 DEF Dequeue, Goto, mainVars, sigVars
  <2>3. /\ count # 0 /\ p = paths[head] /\ head \in 0..(Size - 1)
        /\ completed_adding' = completed_adding
        /\ paths' = [paths EXCEPT ![head] = NULL]
    BY <1>0, <2>1 DEF queue_dequeue, TypeOK, QueueTypeOK
  <2>4. Joining' = Joining /\ Joined' = Joined /\ Unread' = Unread
    BY <2>2 DEF Joining, Joined, Unread
  <2>5. CASE Joining
    <3>1. /\ ~finished /\ "INT" \notin pending /\ destroyed = 0
          /\ \A v \in Thread : pc[v] # "done"
          /\ main # "join" => ~completed_adding
          /\ main # "scan" => toScan = {}
      BY <2>3, <2>5 DEF Leftovers, Drained
    <3>2. \A v \in Thread : pc'[v] # "done"
      BY <1>0, <2>2, <3>1 DEF TypeOK
    <3>3. \A v \in Thread : IF v = w THEN path'[v] = p /\ pc'[v] = "test"
                                     ELSE path'[v] = path[v] /\ pc'[v] = pc[v]
      BY <1>0, <2>1, <2>2 DEF TypeOK
    <3>4. \A v \in Thread : pc'[v] = "close" => path'[v] \notin Unread
      BY <2>5, <3>3 DEF Leftovers, Drained
    <3>5. \A i \in 0..(Size - 1) : paths[i] = p \/ paths[i] = NULL \/ paths'[i] = paths[i]
      BY <1>0, <2>3 DEF TypeOK, QueueTypeOK
    <3>6. path[w] = NULL
      BY <1>0, <2>2 DEF Reading
    <3>7. ASSUME NEW f \in Unread
          PROVE  \/ f \in toScan
                 \/ \E i \in 0..(Size - 1) : paths'[i] = f
                 \/ \E v \in Thread : path'[v] = f
      <4>1. f # NULL
        BY DEF Unread
      <4>2. CASE f \in toScan
        BY <4>2
      <4>3. ASSUME NEW i \in 0..(Size - 1), paths[i] = f
            PROVE  (\E j \in 0..(Size - 1) : paths'[j] = f) \/ \E v \in Thread : path'[v] = f
        BY <3>3, <3>5, <4>1, <4>3
      <4>4. ASSUME NEW v \in Thread, path[v] = f PROVE \E u \in Thread : path'[u] = f
        BY <3>3, <3>6, <4>1, <4>4
      <4> QED
        BY <2>5, <4>2, <4>3, <4>4 DEF Leftovers, Drained
    <3> QED
      <4>1. ~Joined'
        BY <2>2, <2>5 DEF Joining, Joined
      <4> QED
        BY <2>2, <2>3, <2>4, <2>5, <3>1, <3>2, <3>4, <3>7, <4>1 DEF Leftovers, Drained
  <2>6. CASE ~Joining
    <3>1. ~Joined
      BY <2>3 DEF Leftovers, Drained
    <3> QED
      BY <2>4, <2>6, <3>1 DEF Leftovers, Drained
  <2> QED
    BY <2>5, <2>6
<1>2. CASE NoMore(w)
  <2>1. /\ pc' = [pc EXCEPT ![w] = "done"] /\ Drained
        /\ UNCHANGED <<queueVars, main, destroyed, toScan, path, offset>>
        /\ finished' = finished /\ pending' = pending
    BY <1>2 DEF NoMore, queue_ended, Goto, mainVars, sigVars, Drained
  <2>2. \A v \in Thread : pc'[v] = pc[v] \/ pc'[v] = "done"
    BY <1>0, <2>1 DEF TypeOK
  <2>3. /\ Joining' = Joining /\ Joined' = Joined
        /\ Joining => "INT" \notin pending'
    BY <2>1 DEF Joining, Joined, Leftovers
  <2>4. /\ \A v \in Thread : pc'[v] = "close" /\ Joining =>
                              pc[v] = "close" \/ path[v] \notin Unread
        /\ \A v \in Thread : pc'[v] = "done" /\ Joining =>
                              pc[v] = "done" \/ Drained
        /\ \A v \in Thread : pc[v] = "done" => pc'[v] = "done"
    BY <2>1, <2>2
  <2> QED
    BY <2>1, <2>3, <2>4, LeftoversStay
<1>3. CASE ReadBatch(w)
  <2>1. /\ pc[w] = "test"
        /\ pc' = [pc EXCEPT ![w] = IF finished \/ offset[path[w]] = Len(Ballots[path[w]])
                                     THEN "close" ELSE "lock"]
        /\ UNCHANGED <<queueVars, main, destroyed, toScan, path, offset>>
        /\ finished' = finished /\ pending' = pending
    BY <1>3 DEF ReadBatch, Goto, mainVars, sigVars
  <2>2. \A v \in Thread : v # w => pc'[v] = pc[v]
    BY <1>0, <2>1 DEF TypeOK
  <2>3. /\ Joining' = Joining /\ Joined' = Joined
        /\ Joining => "INT" \notin pending' /\ ~finished
    BY <2>1 DEF Joining, Joined, Leftovers
  <2>4. pc'[w] \in {"close", "lock"} /\ (pc'[w] = "close" /\ Joining => path[w] \notin Unread)
    <3>1. path[w] \in Elem /\ offset[path[w]] \in Nat
      BY <1>0, <2>1 DEF Reading, TypeOK
    <3>2. CASE finished
      BY <1>0, <2>1, <2>3, <3>2 DEF TypeOK
    <3>3. CASE ~finished /\ offset[path[w]] = Len(Ballots[path[w]])
      BY <1>0, <2>1, <3>1, <3>3 DEF TypeOK, Unread
    <3>4. CASE ~finished /\ offset[path[w]] # Len(Ballots[path[w]])
      BY <1>0, <2>1, <3>4 DEF TypeOK
    <3> QED
      BY <3>2, <3>3, <3>4
  <2>5. /\ \A v \in Thread : pc'[v] = "close" /\ Joining =>
                              pc[v] = "close" \/ path[v] \notin Unread
        /\ \A v \in Thread : pc'[v] = "done" /\ Joining =>
                              pc[v] = "done" \/ Drained
        /\ \A v \in Thread : pc[v] = "done" => pc'[v] = "done"
    BY <2>1, <2>2, <2>4
  <2> QED
    BY <2>1, <2>3, <2>5, LeftoversStay
<1>4. CASE LockAndLoad(w)
  <2>1. /\ pc[w] = "lock" /\ pc' = [pc EXCEPT ![w] = "count"]
        /\ UNCHANGED <<queueVars, main, destroyed, toScan, path, offset>>
        /\ finished' = finished /\ pending' = pending
    BY <1>4 DEF LockAndLoad, Goto, mainVars, sigVars
  <2>2. \A v \in Thread : IF v = w THEN pc'[v] = "count" ELSE pc'[v] = pc[v]
    BY <1>0, <2>1 DEF TypeOK
  <2>3. /\ Joining' = Joining /\ Joined' = Joined
        /\ Joining => "INT" \notin pending'
    BY <2>1 DEF Joining, Joined, Leftovers
  <2>4. /\ \A v \in Thread : pc'[v] = "close" /\ Joining =>
                              pc[v] = "close" \/ path[v] \notin Unread
        /\ \A v \in Thread : pc'[v] = "done" /\ Joining =>
                              pc[v] = "done" \/ Drained
        /\ \A v \in Thread : pc[v] = "done" => pc'[v] = "done"
    BY <2>1, <2>2
  <2> QED
    BY <2>1, <2>3, <2>4, LeftoversStay
<1>5. CASE LockFails(w) \/ UseAfterFree(w)
  <2>1. ~Joining /\ ~Joining' /\ ~Joined'
    <3>1. main' = "failed"
      BY <1>5 DEF LockFails, UseAfterFree
    <3>2. CASE UseAfterFree(w)
      BY <3>1, <3>2 DEF UseAfterFree, Freed, Joining, Joined
    <3>3. CASE LockFails(w)
      <4>1. pc[w] = "lock" /\ Position(w) < destroyed
        BY <3>3 DEF LockFails
      <4>2. path[w] \in Elem
        BY <1>0, <4>1, VoteType
      <4>3. Position(w) \in 0..(Batch - 1)
        BY <1>0, <4>2, PositionType DEF Place
      <4>4. destroyed # 0
        BY <4>1, <4>3
      <4> QED
        BY <3>1, <4>4 DEF Leftovers, Drained, Joining, Joined
    <3> QED
      BY <1>5, <3>2, <3>3
  <2> QED
    BY <2>1 DEF Leftovers, Drained
<1>6. CASE StoreAndUnlock(w)
  <2>1. /\ pc[w] = "count" /\ Unread' \subseteq Unread
        /\ UNCHANGED <<queueVars, main, destroyed, toScan, path, finished, pending>>
    BY <1>0, <1>6, UnreadShrinks DEF StoreAndUnlock, mainVars, sigVars
  <2>2. /\ \A v \in Thread : v # w => pc'[v] = pc[v]
        /\ pc'[w] \in {"test", "lock"}
    BY <1>0, <1>6 DEF StoreAndUnlock, Goto, TypeOK
  <2>3. /\ Joining' = Joining /\ Joined' = Joined
        /\ paths' = paths /\ count' = count /\ completed_adding' = completed_adding
    BY <2>1 DEF Joining, Joined, queueVars
  <2>4. CASE Joining
    <3>1. ~Joined'
      BY <2>3, <2>4 DEF Joining, Joined
    <3>2. \A v \in Thread : pc'[v] \in {"close", "done"} => pc'[v] = pc[v]
      BY <2>2
    <3>3. \A v \in Thread : pc'[v] = "close" => path[v] \notin Unread'
      BY <2>1, <2>4, <3>2 DEF Leftovers, Drained
    <3>4. \A v \in Thread : pc'[v] = "done" => Drained
      BY <2>4, <3>2 DEF Leftovers, Drained
    <3> QED
      BY <2>1, <2>3, <2>4, <3>1, <3>3, <3>4 DEF Leftovers, Drained
  <2>5. CASE ~Joining
    <3>1. Joined => w \notin Worker
      BY <2>1 DEF Leftovers, Drained
    <3> QED
      BY <2>1, <2>2, <2>3, <2>5, <3>1 DEF Leftovers, Drained, Thread
  <2> QED
    BY <2>4, <2>5
<1>7. CASE CloseFile(w)
  <2>1. /\ pc[w] = "close" /\ path' = [path EXCEPT ![w] = NULL]
        /\ pc' = [pc EXCEPT ![w] = IF finished THEN "done" ELSE "dequeue"]
        /\ UNCHANGED <<queueVars, main, destroyed, toScan, offset, finished, pending>>
    BY <1>7 DEF CloseFile, Goto, mainVars, sigVars
  <2>2. \A v \in Thread : IF v = w THEN path'[v] = NULL ELSE path'[v] = path[v] /\ pc'[v] = pc[v]
    BY <1>0, <2>1 DEF TypeOK
  <2>3. /\ Joining' = Joining /\ Joined' = Joined /\ Unread' = Unread
        /\ paths' = paths /\ count' = count /\ completed_adding' = completed_adding
    BY <2>1 DEF Joining, Joined, queueVars, Unread
  <2>4. CASE Joining
    <3>1. ~finished /\ path[w] \notin Unread /\ ~Joined'
      BY <2>1, <2>3, <2>4 DEF Leftovers, Drained, Joining, Joined
    <3>2. pc'[w] = "dequeue"
      BY <1>0, <2>1, <3>1 DEF TypeOK
    <3>3. \A v \in Thread : pc'[v] \in {"close", "done"} => pc'[v] = pc[v] /\ path'[v] = path[v]
      BY <2>2, <3>2
    <3>4. \A f \in Unread : \A v \in Thread : path[v] = f => path'[v] = f
      BY <2>2, <3>1
    <3>5. \A v \in Thread : pc'[v] = "close" => path'[v] \notin Unread
      BY <2>4, <3>3 DEF Leftovers, Drained
    <3>6. \A v \in Thread : pc'[v] = "done" => Drained
      BY <2>4, <3>3 DEF Leftovers, Drained
    <3> QED
      BY <2>1, <2>3, <2>4, <3>1, <3>4, <3>5, <3>6 DEF Leftovers, Drained
  <2>5. CASE ~Joining
    <3>1. Joined => w \notin Worker
      BY <2>1 DEF Leftovers, Drained
    <3>2. Extra \in Thread /\ Worker \subseteq Thread
      BY DEF Thread
    <3>3. path'[Extra] \in {path[Extra], NULL}
      BY <2>2, <3>2
    <3> QED
      BY <2>1, <2>2, <2>3, <2>5, <3>1, <3>2, <3>3 DEF Leftovers, Drained
  <2> QED
    BY <2>4, <2>5
<1> QED
  BY <1>1, <1>2, <1>3, <1>4, <1>5, <1>6, <1>7 DEF WorkerStep

LEMMA LeftoversSignal ==
  ASSUME IInv, Leftovers, SignalStep
  PROVE  Leftovers'
<1>1. UNCHANGED <<mainVars, workerVars>>
  BY DEF SignalStep, SigInt, SigUsr1, LockNext, PrintPartial
<1>2. /\ main' = main /\ destroyed' = destroyed /\ toScan' = toScan
      /\ pc' = pc /\ path' = path /\ offset' = offset
      /\ Joining' = Joining /\ Joined' = Joined /\ Unread' = Unread
  BY <1>1 DEF mainVars, workerVars, Joining, Joined, Unread
<1>3. CASE SigInt
  <2>1. ~Joining
    BY <1>3 DEF SigInt, Leftovers
  <2>2. completed_adding' /\ count' = count
    BY <1>3 DEF SigInt, queue_complete_adding
  <2> QED
    BY <1>2, <2>1, <2>2 DEF Leftovers, Drained
<1>4. CASE SigUsr1 \/ LockNext \/ PrintPartial
  <2>1. UNCHANGED <<queueVars, finished>> /\ pending' \subseteq pending
    BY <1>4 DEF SigUsr1, LockNext, PrintPartial
  <2>2. Joining => "INT" \notin pending'
    BY <2>1 DEF Leftovers, Drained
  <2>3. UNCHANGED <<queueVars, main, destroyed, toScan, path, offset>> /\ finished' = finished
    BY <1>2, <2>1
  <2> QED
    BY <1>2, <2>2, <2>3, LeftoversStay
<1> QED
  BY <1>3, <1>4 DEF SignalStep

LEMMA LeftoversMain ==
  ASSUME IInv, Leftovers, MainStep
  PROVE  Leftovers'
<1> USE QueueAssumption, VotingAssumption
<1>0. TypeOK /\ PlacesInOrder /\ Reading
  BY DEF IInv
<1>1. CASE Enqueue
  <2>1. PICK p \in toScan : queue_enqueue(p) /\ toScan' = toScan \ {p}
    BY <1>1 DEF Enqueue
  <2>2. /\ main = "scan" /\ main' = main /\ destroyed' = destroyed
        /\ pc' = pc /\ path' = path /\ offset' = offset
        /\ finished' = finished /\ pending' = pending
    BY <1>1 DEF Enqueue, workerVars, sigVars
  <2>3. Joining /\ Joining' /\ ~Joined' /\ Unread' = Unread
    BY <2>2 DEF Joining, Joined, Unread
  <2>4. /\ ~completed_adding /\ completed_adding' = completed_adding /\ count # Size
        /\ paths' = [paths EXCEPT ![tail] = p]
    BY <2>1 DEF queue_enqueue
  <2>5. paths[tail] = NULL /\ tail \in 0..(Size - 1)
    <3>1. count \in 0..(Size - 1) /\ tail = After(head, count)
      BY <1>0, <2>4 DEF TypeOK, QueueTypeOK, PlacesInOrder
    <3>2. paths[After(head, count)] = NULL
      BY <1>0, <3>1 DEF PlacesInOrder
    <3> QED
      BY <1>0, <3>1, <3>2 DEF TypeOK, QueueTypeOK
  <2>6. paths'[tail] = p /\ \A i \in 0..(Size - 1) : paths[i] # NULL => paths'[i] = paths[i]
    BY <1>0, <2>4, <2>5 DEF TypeOK, QueueTypeOK
  <2>7. ASSUME NEW f \in Unread
        PROVE  \/ f \in toScan'
               \/ \E i \in 0..(Size - 1) : paths'[i] = f
               \/ \E v \in Thread : path'[v] = f
    <3>1. f # NULL
      BY DEF Unread
    <3> QED
      BY <2>1, <2>2, <2>3, <2>5, <2>6, <3>1 DEF Leftovers, Drained
  <2>8. \A v \in Thread : pc[v] # "done"
    BY <2>3, <2>4 DEF Leftovers, Drained
  <2> QED
    BY <2>2, <2>3, <2>4, <2>7, <2>8 DEF Leftovers, Drained
<1>2. CASE StopScan
  <2>1. main = "scan" /\ completed_adding
    BY <1>2 DEF StopScan, queue_refuses
  <2> QED
    BY <2>1 DEF Leftovers, Drained, Joining
<1>3. CASE EndOfDir
  <2>1. /\ main = "scan" /\ main' = "complete" /\ toScan = {}
        /\ UNCHANGED <<queueVars, toScan, destroyed, workerVars, sigVars>>
    BY <1>3 DEF EndOfDir
  <2> QED
    BY <2>1 DEF Leftovers, Drained, Joining, Joined, Unread, queueVars, workerVars, sigVars
<1>4. CASE Complete
  <2>1. /\ main = "complete" /\ main' = "join" /\ completed_adding'
        /\ UNCHANGED <<paths, count, toScan, destroyed, workerVars, sigVars>>
    BY <1>4 DEF Complete, queue_complete_adding
  <2> QED
    BY <2>1 DEF Leftovers, Drained, Joining, Joined, Unread, workerVars, sigVars
<1>5. CASE JoinWorkers
  <2>1. /\ main = "join" /\ main' = "joinsig" /\ \A w \in Worker : pc[w] = "done"
        /\ UNCHANGED <<queueVars, toScan, destroyed, workerVars>>
    BY <1>5 DEF JoinWorkers
  <2>2. Joining /\ ~Joining' /\ Joined'
    BY <2>1 DEF Joining, Joined
  <2>3. completed_adding /\ count = 0 /\ toScan = {}
    BY <2>1, <2>2 DEF Leftovers, Drained, Thread
  <2>4. \A i \in 0..(Size - 1) : paths[i] = NULL
    BY <1>0, <2>3, EmptyQueue DEF TypeOK
  <2>5. \A w \in Worker : path[w] = NULL
    BY <1>0, <2>1 DEF Reading, Thread
  <2>6. \A f \in Unread : path[Extra] = f
    BY <2>2, <2>3, <2>4, <2>5 DEF Leftovers, Drained, Unread, Thread
  <2>7. path[Extra] \in Elem \cup {NULL}
    BY <1>0 DEF TypeOK, Thread
  <2>8. Unread \subseteq {path[Extra]}
    BY <2>6
  <2>9. \E f \in Elem \cup {NULL} : Unread \subseteq {f} /\ path[Extra] \in {f, NULL}
    BY <2>7, <2>8
  <2>10. Unread' = Unread
    BY <2>1 DEF Unread, workerVars
  <2> QED
    BY <2>1, <2>2, <2>3, <2>9, <2>10 DEF Leftovers, Drained, queueVars, workerVars
<1>6. CASE JoinSignalThread \/ DestroyMutex \/ PrintFinal \/ Dispose \/ Exit
  <2>1. UNCHANGED <<queueVars, workerVars>>
    BY <1>6 DEF JoinSignalThread, DestroyMutex, PrintFinal, Dispose, Exit
  <2>2. Joined /\ ~Joining'
    BY <1>6 DEF JoinSignalThread, DestroyMutex, PrintFinal, Dispose, Exit, Joining, Joined
  <2>3. Unread' = Unread
    BY <2>1 DEF Unread, workerVars
  <2> QED
    BY <2>1, <2>2, <2>3 DEF Leftovers, Drained, queueVars, workerVars
<1> QED
  BY <1>1, <1>2, <1>3, <1>4, <1>5, <1>6 DEF MainStep

LEMMA LeftoversNext == IInv /\ [Next]_vars => LeftoversUnlessInt'
<1> SUFFICES ASSUME IInv, [Next]_vars, ~userInt' PROVE Leftovers'
  BY DEF LeftoversUnlessInt
<1>1. ~userInt /\ ~UserInt
  <2>1. ~UserInt
    BY DEF UserInt
  <2>2. \A w \in Thread : WorkerStep(w) => userInt' = userInt
    BY DEF WorkerStep, Dequeue, NoMore, ReadBatch, LockAndLoad, LockFails, StoreAndUnlock,
       CloseFile, UseAfterFree, userVars
  <2>3. SignalStep => userInt' = userInt
    BY DEF SignalStep, SigInt, SigUsr1, LockNext, PrintPartial, userVars
  <2>4. MainStep => userInt' = userInt
    BY DEF MainStep, Enqueue, StopScan, EndOfDir, Complete, JoinWorkers, JoinSignalThread,
       DestroyMutex, PrintFinal, Dispose, Exit, userVars, sigVars, workerVars
  <2>5. UserUsr1 \/ UNCHANGED vars => userInt' = userInt
    BY DEF UserUsr1, vars, userVars
  <2> QED
    BY <2>1, <2>2, <2>3, <2>4, <2>5 DEF Next
<1>2. Leftovers
  BY <1>1 DEF IInv, LeftoversUnlessInt
<1>3. CASE UserUsr1 \/ UNCHANGED vars
  <2>1. /\ UNCHANGED <<queueVars, mainVars, workerVars, finished>>
        /\ pending' \subseteq pending \cup {"USR1"}
    BY <1>3 DEF UserUsr1, vars, sigVars
  <2>2. Joining' = Joining /\ Joined' = Joined /\ (Joining => "INT" \notin pending')
    BY <1>2, <2>1 DEF Joining, Joined, mainVars, Leftovers
  <2>3. UNCHANGED <<queueVars, main, destroyed, toScan, path, offset>> /\ finished' = finished /\ pc' = pc
    BY <2>1 DEF mainVars, workerVars
  <2> QED
    BY <1>2, <2>2, <2>3, LeftoversStay
<1> QED
  BY <1>1, <1>2, <1>3, LeftoversWorker, LeftoversSignal, LeftoversMain DEF Next

-----------------------------------------------------------------------------
LEMMA Invariance == Spec => []IInv
<1>1. IInv /\ [Next]_vars => IInv'
  BY TypeNext, OneReaderNext, ReadingNext, LocksNext, QueueKept, CountsNext, LeftoversNext
     DEF IInv, QInv
<1> QED
  BY <1>1, InitHolds, PTL DEF Spec

\* The variables of the voting program keep their types.
THEOREM TypeCorrect == Spec => []TypeOK
<1>1. IInv => TypeOK
  BY DEF IInv
<1> QED
  BY <1>1, Invariance, PTL

\* A path is in one place only: every file is read by one worker, once.
THEOREM OneReaderPerFileHolds == Spec => []OneReaderPerFile
<1>1. IInv => OneReaderPerFile
  BY DEF IInv
<1> QED
  BY <1>1, Invariance, PTL

\* The partial results printed for SIGUSR1 are a snapshot of the votes.
THEOREM PrintsSnapshotHolds == Spec => []PrintsSnapshot
<1>1. IInv => PrintsSnapshot
  <2> SUFFICES ASSUME IInv, sig = "print", NEW w \in Thread, pc[w] = "count" PROVE FALSE
    BY DEF PrintsSnapshot
  <2>1. path[w] \in Elem
    BY DEF IInv, TypeOK, Reading
  <2>2. Position(w) \in 0..(Batch - 1) /\ Position(w) >= Batch
    BY <2>1, PositionType DEF IInv, Locks, Place
  <2> QED
    BY <2>2, VotingAssumption
<1> QED
  BY <1>1, Invariance, PTL

\* sop-voting.c: whatever increments are lost, no candidate gets more votes than
\* ballots were read for it, for every number of workers and content of the files.
THEOREM NoOvercountHolds == Spec => []NoOvercount
<1>1. IInv => NoOvercount
  BY DEF IInv, Counts, NoOvercount
<1> QED
  BY <1>1, Invariance, PTL

\* sop-voting.c: without a SIGINT from the user at most one file is not counted
\* to its end when main prints the result, whatever their number.
THEOREM MissesAtMostOneFileHolds == Spec => []MissesAtMostOneFile
<1>1. IInv => MissesAtMostOneFile
  <2> SUFFICES ASSUME IInv, main \in {"printed", "disposed", "exited"}, ~userInt
               PROVE  Cardinality(Unread) <= 1
    BY DEF MissesAtMostOneFile, Unread
  <2>1. PICK f : Unread \subseteq {f}
    BY DEF IInv, LeftoversUnlessInt, Leftovers, Joined
  <2>2. IsFiniteSet({f}) /\ Cardinality({f}) = 1
    BY FS_Singleton
  <2>3. Unread \in SUBSET {f}
    BY <2>1
  <2>4. Cardinality(Unread) <= Cardinality({f})
    BY <2>2, <2>3, FS_Subset
  <2> QED
    BY <2>2, <2>4
<1> QED
  BY <1>1, Invariance, PTL

\* The queue the threads share stays a closable FIFO queue.
THEOREM SharedQueueIsFifo == Spec => ImplementsFifo
<1>1. Spec => QueueSpec
  <2>1. Init => queue_init
    BY DEF Init
  <2>2. IInv /\ [Next]_vars => [QueueNext]_queueVars
    BY QueueStep DEF IInv
  <2> QED
    BY <2>1, <2>2, Invariance, PTL DEF Spec, QueueSpec
<1> QED
  BY <1>1, RingIsFifo
=============================================================================
