------------------------- MODULE MCSocksAssociations -------------------------
(* SocksAssociations with two clients on one host and one on another.        *)
EXTENDS SocksAssociations, TLC

CONSTANTS c1, c2, c3, h1, h2
ThreeClients == {c1, c2, c3}
TwoHosts == {h1, h2}
ThreeOnTwo == c1 :> h1 @@ c2 :> h1 @@ c3 :> h2
=============================================================================
