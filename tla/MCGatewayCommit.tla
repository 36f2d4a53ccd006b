--------------------------- MODULE MCGatewayCommit ---------------------------
(* GatewayCommit with two providers and two settings that listen on          *)
(* different addresses; for liveness one of each.                            *)
EXTENDS GatewayCommit, TLC

CONSTANTS p1, p2, s1, s2, a1, a2, o1, o2, o3, r1
TwoProviders == {p1, p2}
OneProvider == {p1}
TwoSettings == {s1, s2}
OneSetting == {s1}
OneAddress == s1 :> a1
TwoAddresses == s1 :> a1 @@ s2 :> a2
ThreeObjects == {o1, o2, o3}
OneReader == {r1}
Swap == p1 :> p2 @@ p2 :> p1
Exchange == s1 :> s2 @@ s2 :> s1 @@ a1 :> a2 @@ a2 :> a1
Keep(S) == [x \in S |-> x]
Symmetric == {o @@ p @@ s : o \in Permutations(ThreeObjects),
                            p \in {Keep(TwoProviders), Swap},
                            s \in {Keep({s1, s2, a1, a2}), Exchange}}
=============================================================================
