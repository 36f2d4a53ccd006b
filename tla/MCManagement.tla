----------------------------- MODULE MCManagement -----------------------------
(* Management with two requests at a time, two policy paths and one provider.*)
EXTENDS Management, TLC

CONSTANTS r1, r2, t1, t2, t3, t4, f1, f2, f3
TwoRequests == {r1, r2}
FourTokens == {t1, t2, t3, t4}
ThreeFiles == {f1, f2, f3}
Symmetric == {r @@ t @@ f : r \in Permutations(TwoRequests), t \in Permutations(FourTokens),
                            f \in Permutations(ThreeFiles)}
=============================================================================
