------------------------------- MODULE MCVoting -------------------------------
(* Two joined workers, the unjoined one, three files, two candidates.  The    *)
(* files are shorter and longer than the buffer of two.                       *)
EXTENDS Voting, TLC

CONSTANTS w1, w2, a, b, f1, f2, f3

MCBallots == (f1 :> <<a, b, a>>) @@ (f2 :> <<a>>) @@ (f3 :> <<b>>)

=============================================================================
