------------------------- MODULE MCProviderTransaction -------------------------
(* ProviderTransaction with two subscriptions and a file: the first version  *)
(* of each, a second one that two providers cannot both have, and one whose  *)
(* hosts are refused.                                                        *)
EXTENDS ProviderTransaction, TLC

CONSTANTS h1, h2, f1, old, new, bad
TwoHttp == {h1, h2}
OneHttp == {h1}
OneFile == {f1}
ThreeContents == {old, new, bad}
TwoContents == {old, new}
NewTwice == {{new}}
Never == {}
Versions == [p \in {h1, h2, f1} |-> IF p = f1 THEN 2 ELSE 3]
TwoVersions == [p \in {h1, f1} |-> 2]
Symmetric == Permutations(TwoHttp)
=============================================================================
