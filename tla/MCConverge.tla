----------------------------- MODULE MCConverge -----------------------------
EXTENDS Converge, TLC

CONSTANTS a, b

Position(t, s, i) == [t |-> t, s |-> s, i |-> i]

(* Not yet replicating, an early entry, one of the next term whose timestamp is
   smaller. *)
ThreePositions == {Position(0, 0, 0), Position(1, 2, 0), Position(2, 1, 0)}

Pair == <<a, b>>

Lists == {<< >>, <<a>>, <<a, b>>, <<b, b>>}
=============================================================================
