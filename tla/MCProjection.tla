----------------------------- MODULE MCProjection -----------------------------
(* Projection with names that look alike once they are shown, and that look  *)
(* like numbered or prefixed ones.                                           *)
EXTENDS Projection, TLC

CONSTANTS a, b, k1, k2
Lookalikes == {<<a>>, <<b>>, <<a, 2>>}
NoneOrA == {<<>>, <<a>>}
BIsShownAsA == b :> a
Rotated == Permutations({k1, k2})
AllOrNot == {[include |-> {}, exclude |-> {}], [include |-> {}, exclude |-> {<<a>>}]}
=============================================================================
