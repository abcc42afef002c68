------------------------------ MODULE PathQueue ------------------------------
(***************************************************************************)
(* struct queue of stopy3/eng/sop-voting.c: a ring buffer of paths with a  *)
(* flag that says no more will come.  Every access holds the queue's       *)
(* mutex, so an operation is one step; the waits for room or for a path    *)
(* (unlock, sleep, lock, test again) are the operation not being enabled.  *)
(***************************************************************************)
EXTENDS Integers, Sequences

CONSTANTS Elem,   \* paths
          Size,   \* length of the array
          NULL

ASSUME QueueAssumption ==
    /\ Size \in Nat \ {0}
    /\ NULL \notin Elem

VARIABLES paths, head, tail, count, completed_adding

queueVars == <<paths, head, tail, count, completed_adding>>

QueueTypeOK ==
    /\ paths \in [0..(Size - 1) -> Elem \cup {NULL}]
    /\ head \in 0..(Size - 1)
    /\ tail \in 0..(Size - 1)
    /\ count \in 0..Size
    /\ completed_adding \in BOOLEAN

queue_init ==
    /\ paths = [i \in 0..(Size - 1) |-> NULL]
    /\ head = 0
    /\ tail = 0
    /\ count = 0
    /\ completed_adding = FALSE

\* Mutant: the new path goes where the oldest one is.
queue_enqueue_AtHead(p) ==
    /\ ~completed_adding
    /\ count # Size
    /\ paths' = [paths EXCEPT ![head] = p]
    /\ tail' = IF tail + 1 >= Size THEN 0 ELSE tail + 1
    /\ count' = count + 1
    /\ UNCHANGED <<head, completed_adding>>

\* queue_enqueue that returns 1.
queue_enqueue(p) ==
    /\ ~completed_adding
    /\ count # Size
    /\ paths' = [paths EXCEPT ![tail] = p]
    /\ tail' = IF tail + 1 >= Size THEN 0 ELSE tail + 1
    /\ count' = count + 1
    /\ UNCHANGED <<head, completed_adding>>

\* queue_enqueue that returns 0.
queue_refuses == completed_adding /\ UNCHANGED queueVars

queue_complete_adding ==
    /\ completed_adding' = TRUE
    /\ UNCHANGED <<paths, head, tail, count>>

\* Mutant: the place keeps the path that was taken.
queue_dequeue_KeepsPath(p) ==
    /\ count # 0
    /\ p = paths[head]
    /\ head' = (head + 1) % Size
    /\ count' = count - 1
    /\ UNCHANGED <<paths, tail, completed_adding>>

\* queue_dequeue that returns the path p.
queue_dequeue(p) ==
    /\ count # 0
    /\ p = paths[head]
    /\ paths' = [paths EXCEPT ![head] = NULL]
    /\ head' = (head + 1) % Size
    /\ count' = count - 1
    /\ UNCHANGED <<tail, completed_adding>>

\* queue_dequeue that returns NULL.
queue_ended == completed_adding /\ count = 0 /\ UNCHANGED queueVars

QueueNext ==
    \/ \E p \in Elem : queue_enqueue(p)
    \/ queue_refuses
    \/ queue_complete_adding
    \/ \E p \in Elem \cup {NULL} : queue_dequeue(p)
    \/ queue_ended

QueueSpec == queue_init /\ [][QueueNext]_queueVars

-----------------------------------------------------------------------------
(* The ring read as a sequence.                                            *)

\* The place n steps after the place h, going round.
After(h, n) == IF h + n < Size THEN h + n ELSE h + n - Size

Held == [n \in 1..count |-> paths[After(head, n - 1)]]

Fifo == INSTANCE ClosableFifo WITH held <- Held, closed <- completed_adding

\* The ring buffer is a first-in first-out queue that can be closed.
ImplementsFifo == Fifo!Spec

\* The used places are the count places from head to tail, and the only ones
\* that are not NULL: queue_dispose, which frees every place, frees each path
\* left in the queue once, and never one that a worker took.
PlacesInOrder ==
    /\ tail = After(head, count)
    /\ \A n \in 0..(Size - 1) : paths[After(head, n)] # NULL <=> n < count
=============================================================================
