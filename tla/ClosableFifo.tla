----------------------------- MODULE ClosableFifo -----------------------------
(***************************************************************************)
(* What a queue between one producer and many consumers promises: elements *)
(* come out once each and in the order they went in, never more than Size  *)
(* are held, nothing goes in once the queue is closed, and what is in it   *)
(* then can still be taken out.                                            *)
(***************************************************************************)
EXTENDS Naturals, Sequences

CONSTANTS Elem, Size

VARIABLES held,    \* the elements in the queue, oldest first
          closed

fvars == <<held, closed>>

Init == held = <<>> /\ closed = FALSE

Put(e) ==
    /\ ~closed
    /\ Len(held) < Size
    /\ held' = Append(held, e)
    /\ UNCHANGED closed

Take ==
    /\ held # <<>>
    /\ held' = Tail(held)
    /\ UNCHANGED closed

Close == closed' = TRUE /\ UNCHANGED held

Next == (\E e \in Elem : Put(e)) \/ Take \/ Close

Spec == Init /\ [][Next]_fvars
=============================================================================
