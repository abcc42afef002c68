------------------------------- MODULE Prelab -------------------------------
(***************************************************************************)
(* stopy3/antoni/prelab.c: main puts the paths of all texts below data1    *)
(* into a ring, then starts the threads that take paths from it and count  *)
(* letters; every 100 ms it sends SIGUSR1 to itself, for which a thread of *)
(* its own prints the counts; SIGINT makes that thread set quit.           *)
(*                                                                         *)
(* A critical section is a step, and so is an access without the mutex.    *)
(* What the program does when a call fails (ERR: all is killed) and the    *)
(* printing are left out.                                                  *)
(***************************************************************************)
EXTENDS Naturals, FiniteSets, Sequences

CONSTANTS Text,          \* files that data1 may hold (regular, with .txt)
          Content,       \* the letters of each
          Letter,
          TextWorker,    \* the threads of thread_work
          CIRC_BUF_SIZE

ASSUME PrelabAssumption ==
    /\ IsFiniteSet(Text) /\ IsFiniteSet(TextWorker) /\ TextWorker # {}
    /\ Content \in [Text -> Seq(Letter)]
    /\ CIRC_BUF_SIZE \in Nat \ {0}

Slot == 0..(CIRC_BUF_SIZE - 1)
NoPath == "NULL"

VARIABLES
    texts,         \* what data1 holds
    walked,        \* what walk_dir has put into the ring
    cb,            \* circ_buf: buf, head, tail, len
    workerPc,      \* where each thread is in thread_work
    path,          \* what each has popped
    offset,        \* bytes each has read of it
    freq,
    quit,
    pending,       \* signals that wait for signal_handling
    sigThread,     \* where signal_handling is
    prelabMain     \* where main is

ringVars == <<texts, walked, cb>>
readerVars == <<workerPc, path, offset, freq>>
prelabVars == <<ringVars, readerVars, quit, pending, sigThread, prelabMain>>

circ_buf_create ==
    [buf |-> [i \in Slot |-> NoPath], head |-> 0, tail |-> 0, len |-> 0]

PrelabInit ==
    /\ texts \in SUBSET Text
    /\ walked = {}
    /\ cb = circ_buf_create
    /\ workerPc = [w \in TextWorker |-> "none"]
    /\ path = [w \in TextWorker |-> NoPath]
    /\ offset = [w \in TextWorker |-> 0]
    /\ freq = [l \in Letter |-> 0]
    /\ quit = FALSE
    /\ pending = {}
    /\ sigThread = "none"
    /\ prelabMain = "walk"

-----------------------------------------------------------------------------
(* The ring and walk_dir                                                   *)

\* There is no thread yet that could make room: with more texts than places the
\* loop before the mutex never ends.
circ_buf_push(p) ==
    /\ cb.len < CIRC_BUF_SIZE
    /\ cb' = [cb EXCEPT !.buf[cb.head] = p, !.len = @ + 1,
                        !.head = (@ + 1) % CIRC_BUF_SIZE]

\* Directories are read in any order.
walk_dir ==
    /\ prelabMain = "walk"
    /\ \E p \in texts \ walked :
          circ_buf_push(p) /\ walked' = walked \cup {p}
    /\ UNCHANGED <<texts, readerVars, quit, pending, sigThread, prelabMain>>

\* Mutant: len > 0 and the taking of the path are not one critical section.
circ_buf_pop_NoMutex(w) ==
    /\ \/ /\ workerPc[w] = "pop" /\ cb.len > 0
          /\ path' = [path EXCEPT ![w] = cb.buf[cb.tail]]
          /\ workerPc' = [workerPc EXCEPT ![w] = "popped"]
          /\ UNCHANGED <<cb, offset>>
       \/ /\ workerPc[w] = "popped"
          /\ cb' = [cb EXCEPT !.len = @ - 1, !.tail = (@ + 1) % CIRC_BUF_SIZE]
          /\ offset' = [offset EXCEPT ![w] = 0]
          /\ workerPc' = [workerPc EXCEPT ![w] = "read"]
          /\ UNCHANGED path
    /\ UNCHANGED <<texts, walked, freq, quit, pending, sigThread, prelabMain>>

\* While len is 0 the loop goes round: another thread was quicker, and nobody
\* pushes any more.
circ_buf_pop(w) ==
    /\ workerPc[w] = "pop"
    /\ cb.len > 0
    /\ path' = [path EXCEPT ![w] = cb.buf[cb.tail]]
    /\ cb' = [cb EXCEPT !.len = @ - 1, !.tail = (@ + 1) % CIRC_BUF_SIZE]
    /\ offset' = [offset EXCEPT ![w] = 0]
    /\ workerPc' = [workerPc EXCEPT ![w] = "read"]
    /\ UNCHANGED <<texts, walked, freq, quit, pending, sigThread, prelabMain>>

-----------------------------------------------------------------------------
(* thread_work                                                             *)

WorkerGoto(w, l) == workerPc' = [workerPc EXCEPT ![w] = l]

\* Mutant: the last path is left in the ring.
TestLen_OffByOne(w) ==
    /\ workerPc[w] = "test"
    /\ WorkerGoto(w, IF cb.len > 1 THEN "pop" ELSE "end")
    /\ UNCHANGED <<ringVars, path, offset, freq, quit, pending, sigThread, prelabMain>>

\* while (cb->len > 0), without the mutex.
TestLen(w) ==
    /\ workerPc[w] = "test"
    /\ WorkerGoto(w, IF cb.len > 0 THEN "pop" ELSE "end")
    /\ UNCHANGED <<ringVars, path, offset, freq, quit, pending, sigThread, prelabMain>>

ReadByte(w) ==
    /\ workerPc[w] = "read"
    /\ IF offset[w] < Len(Content[path[w]])
       THEN offset' = [offset EXCEPT ![w] = @ + 1] /\ WorkerGoto(w, "test_quit")
       ELSE WorkerGoto(w, "test") /\ UNCHANGED offset
    /\ UNCHANGED <<ringVars, path, freq, quit, pending, sigThread, prelabMain>>

TestWorkerQuit(w) ==
    /\ workerPc[w] = "test_quit"
    /\ WorkerGoto(w, IF quit THEN "end" ELSE "count")
    /\ UNCHANGED <<ringVars, path, offset, freq, quit, pending, sigThread, prelabMain>>

CountLetter(w) ==
    /\ workerPc[w] = "count"
    /\ freq' = [freq EXCEPT ![Content[path[w]][offset[w]]] = @ + 1]
    /\ WorkerGoto(w, "read")
    /\ UNCHANGED <<ringVars, path, offset, quit, pending, sigThread, prelabMain>>

TextWorkerStep(w) ==
    TestLen(w) \/ circ_buf_pop(w) \/ ReadByte(w) \/ TestWorkerQuit(w) \/ CountLetter(w)

-----------------------------------------------------------------------------
(* signal_handling and main                                                *)

\* sigwait takes SIGINT before SIGUSR1, as Linux takes the lower number first.
\* For SIGUSR1 the counts are printed, under mx_freq.
TakeSignal ==
    /\ sigThread = "sigwait"
    /\ IF "SIGINT" \in pending
       THEN /\ pending' = pending \ {"SIGINT"}
            /\ quit' = TRUE
            /\ sigThread' = "ended"
       ELSE /\ "SIGUSR1" \in pending
            /\ pending' = {}
            /\ UNCHANGED <<quit, sigThread>>
    /\ UNCHANGED <<ringVars, readerVars, prelabMain>>

\* walk_dir has returned: signals are blocked and the threads created.
StartWorkers ==
    /\ prelabMain = "walk"
    /\ walked = texts
    /\ workerPc' = [w \in TextWorker |-> "test"]
    /\ sigThread' = "sigwait"
    /\ prelabMain' = "poll"
    /\ UNCHANGED <<ringVars, path, offset, freq, quit, pending>>

\* Every 100 ms: quit, or kill(0, SIGUSR1).
PollQuit ==
    /\ prelabMain = "poll"
    /\ IF quit
       THEN prelabMain' = "join" /\ UNCHANGED pending
       ELSE pending' = pending \cup {"SIGUSR1"} /\ UNCHANGED prelabMain
    /\ UNCHANGED <<ringVars, readerVars, quit, sigThread>>

\* All threads are joined; circ_buf_destroy and exit.
JoinWorkers ==
    /\ prelabMain = "join"
    /\ sigThread = "ended" /\ \A w \in TextWorker : workerPc[w] = "end"
    /\ prelabMain' = "exited"
    /\ UNCHANGED <<ringVars, readerVars, quit, pending, sigThread>>

PrelabMainStep == walk_dir \/ StartWorkers \/ PollQuit \/ JoinWorkers

\* SIGINT by the user; until the threads are created it is not blocked.
InterruptPrelab ==
    /\ prelabMain # "exited" /\ sigThread # "ended" /\ "SIGINT" \notin pending
    /\ IF prelabMain = "walk"
       THEN prelabMain' = "exited" /\ UNCHANGED pending
       ELSE pending' = pending \cup {"SIGINT"} /\ UNCHANGED prelabMain
    /\ UNCHANGED <<ringVars, readerVars, quit, sigThread>>

PrelabNext ==
    \/ PrelabMainStep \/ TakeSignal \/ InterruptPrelab
    \/ \E w \in TextWorker : TextWorkerStep(w)

PrelabSpec == PrelabInit /\ [][PrelabNext]_prelabVars

\* main and every thread go on; nobody has to send SIGINT.
PrelabFairness ==
    /\ WF_prelabVars(PrelabMainStep) /\ WF_prelabVars(TakeSignal)
    /\ \A w \in TextWorker : WF_prelabVars(TextWorkerStep(w))

-----------------------------------------------------------------------------
PrelabTypeOK ==
    /\ texts \subseteq Text /\ walked \subseteq texts
    /\ cb \in [buf : [Slot -> Text \cup {NoPath}], head : Slot, tail : Slot,
               len : 0..CIRC_BUF_SIZE]
    /\ workerPc \in [TextWorker -> {"none", "test", "pop", "read", "test_quit", "count", "end"}]
    /\ path \in [TextWorker -> Text \cup {NoPath}]
    /\ offset \in [TextWorker -> Nat]
    /\ freq \in [Letter -> Nat]
    /\ quit \in BOOLEAN
    /\ pending \subseteq {"SIGINT", "SIGUSR1"}
    /\ sigThread \in {"none", "sigwait", "ended"}
    /\ prelabMain \in {"walk", "poll", "join", "exited"}

\* How often the texts hold the letter.
Occurrences(l) ==
    Cardinality(UNION {{<<p, i>> : i \in {k \in DOMAIN Content[p] : Content[p][k] = l}} :
                       p \in texts})

\* No text is read twice and, unless SIGINT comes, none is left out, although the
\* threads look at len without the mutex and several see the same last path: no
\* letter is ever counted too often, and when all threads have ended the counts
\* are those of the texts.
LettersExact ==
    /\ \A l \in Letter : freq[l] <= Occurrences(l)
    /\ (\A w \in TextWorker : workerPc[w] = "end") /\ ~quit =>
          \A l \in Letter : freq[l] = Occurrences(l)

\* A thread that saw a path another one took waits in circ_buf_pop for ever.
StuckInPop(w) == workerPc[w] = "pop" /\ cb.len = 0

\* If the ring has room for all texts they are counted, unless SIGINT comes; after
\* SIGINT the program ends, unless a thread is stuck.
LettersCounted ==
    \/ \A l \in Letter : freq[l] = Occurrences(l)
    \/ quit \/ prelabMain = "exited"
    \/ Cardinality(texts) > CIRC_BUF_SIZE

PrelabOver == prelabMain = "exited" \/ \E w \in TextWorker : StuckInPop(w)

PrelabGoesOn == <>LettersCounted /\ (quit ~> PrelabOver)
=============================================================================
