----------------------------- MODULE MCCardGame -----------------------------
(* Two players with two cards each, of two suits (odd and even).  The deals  *)
(* have no card in common: a card tells which game it is of.                 *)
EXTENDS CardGame

Deal(a, b) == [p \in Player |-> IF p = 0 THEN a ELSE b]

FirstDeal == Deal(<<2, 3>>, <<5, 6>>)

MCDeals == {FirstDeal, Deal(<<12, 13>>, <<14, 16>>)}
=============================================================================
