----------------------- MODULE SocksAssociationsProofs -----------------------
(***************************************************************************)
(* For every set of clients, hosts and limits: the two maps of the         *)
(* association registry agree, the limits hold, handshakes are counted,    *)
(* a bound association keeps its endpoint, and the user a datagram is      *)
(* relayed as is never guessed.                                            *)
(***************************************************************************)
EXTENDS SocksAssociations, FiniteSetTheorems, TLAPS

Handshaking == {c \in Clients : pc[c] = "handshake"}
HandshakingOf(h) == {c \in Handshaking : Host[c] = h}

\* A connection is in the registry only between add and remove.
Located == \A c \in Registered : pc[c] \in {"attaching", "copying"}

Shape ==
    /\ phase \in {"bound", "open", "shut", "cleared", "closed"}
    /\ loops \subseteq Loops
    /\ pc \in [Clients -> {"none", "accepted", "handshake", "adding", "attaching", "copying", "done"}]
    /\ cut \subseteq Clients
    /\ Registered \subseteq Clients /\ byID \in [Registered -> Association]
    /\ byEndpoint \in [Clients -> Clients \cup {None}]
    /\ packet \in [from : Clients, as : Clients \cup {None}] \cup {None}

RegistryInv == Shape /\ Located /\ MapsAgree

LEMMA Updated ==
    ASSUME NEW S, NEW f \in [S -> Association], NEW c \in S, NEW a \in Association
    PROVE [f EXCEPT ![c] = a] \in [S -> Association]
OBVIOUS

LEMMA InitRegistry == Init => RegistryInv
BY ClientsAssumption DEF Init, RegistryInv, Shape, Located, MapsAgree, Registered, Association, Loops

LEMMA StepRegistry == RegistryInv /\ [Next]_vars => RegistryInv'
<1> SUFFICES ASSUME RegistryInv, [Next]_vars PROVE RegistryInv' OBVIOUS
<1> USE ClientsAssumption DEF RegistryInv, Shape, Located, MapsAgree, Registered, Association, Goto
<1>1. ASSUME NEW c \in Clients, Accept(c) PROVE RegistryInv' BY <1>1 DEF Accept
<1>2. ASSUME NEW c \in Clients, Associate(c) PROVE RegistryInv' BY <1>2 DEF Associate
<1>3. ASSUME NEW c \in Clients, Remove(c) PROVE RegistryInv'
  BY <1>3 DEF Remove, RemoveAll
<1>4. ASSUME NEW c \in Clients, Receive(c) PROVE RegistryInv' BY <1>4 DEF Receive, NoPacket
<1>5. ASSUME NEW c \in Clients, Age(c) PROVE RegistryInv'
  <2>1. DOMAIN byID' = DOMAIN byID BY <1>5 DEF Age
  <2>2. ASSUME NEW d \in DOMAIN byID PROVE byID'[d].endpoint = byID[d].endpoint
    <3>1. byID[d] \in Association OBVIOUS
    <3>2. byID'[d] = byID[d] \/ byID'[d] = [byID[d] EXCEPT !.idle = TRUE] BY <1>5 DEF Age
    <3> QED BY <3>1, <3>2
  <2>3. byID' \in [DOMAIN byID -> Association]
    <3>1. byID[c] \in Association /\ c \in DOMAIN byID BY <1>5 DEF Age
    <3>2. [byID[c] EXCEPT !.idle = TRUE] \in Association BY <3>1
    <3>3. byID' = [byID EXCEPT ![c] = [byID[c] EXCEPT !.idle = TRUE]] BY <1>5 DEF Age
    <3> QED BY <3>1, <3>2, <3>3, Updated
  <2> QED BY <2>1, <2>2, <2>3, <1>5 DEF Age
<1>6. ASSUME NEW c \in Clients, Admit(c) PROVE RegistryInv' BY <1>6 DEF Admit
<1>7. ASSUME NEW c \in Clients, Refuse(c) PROVE RegistryInv' BY <1>7 DEF Refuse
<1>8. ASSUME NEW c \in Clients, EndHandshake(c) PROVE RegistryInv' BY <1>8 DEF EndHandshake
<1>9. ASSUME NEW c \in Clients, Add(c) PROVE RegistryInv' BY <1>9 DEF Add, Free
<1>10. ASSUME NEW c \in Clients, AddRefused(c) PROVE RegistryInv' BY <1>10 DEF AddRefused
<1>11. ASSUME NEW c \in Clients, AttachControl(c) PROVE RegistryInv'
  <2>1. DOMAIN byID' = DOMAIN byID BY <1>11 DEF AttachControl
  <2>2. ASSUME NEW d \in DOMAIN byID PROVE byID'[d].endpoint = byID[d].endpoint
    <3>1. byID[d] \in Association OBVIOUS
    <3>2. byID'[d] = byID[d] \/ byID'[d] = [byID[d] EXCEPT !.control = TRUE] BY <1>11 DEF AttachControl
    <3> QED BY <3>1, <3>2
  <2>3. byID' \in [DOMAIN byID -> Association]
    <3>1. byID' = [d \in DOMAIN byID |->
                     IF d = c THEN [byID[d] EXCEPT !.control = TRUE] ELSE byID[d]]
      BY <1>11 DEF AttachControl
    <3>2. ASSUME NEW d \in DOMAIN byID
          PROVE (IF d = c THEN [byID[d] EXCEPT !.control = TRUE] ELSE byID[d]) \in Association
      <4>1. byID[d] \in Association OBVIOUS
      <4> QED BY <4>1
    <3> QED BY <3>1, <3>2
  <2> QED BY <2>1, <2>2, <2>3, <1>11 DEF AttachControl
<1>12. CASE ResolveBound
  BY <1>12 DEF ResolveBound, ResolveTo, Read, NoPacket
<1>13. CASE ResolveFirst
  <2>1. PICK c \in DOMAIN byID : byID[c].endpoint = None /\ ResolveTo(c)
    BY <1>13 DEF ResolveFirst, Candidates, Of, Bound
  <2>2. packet.from \in Clients /\ byEndpoint[packet.from] = None
    BY <1>13 DEF ResolveFirst, Read, NoPacket
  <2>3. DOMAIN byID' = DOMAIN byID BY <2>1 DEF ResolveTo
  <2> DEFINE a == [[byID[c] EXCEPT !.endpoint = packet.from] EXCEPT !.idle = FALSE]
  <2>4. byID[c] \in Association BY <2>1
  <2>5. a \in Association /\ a.endpoint = packet.from BY <2>4, <2>2
  <2>9. byID' = [byID EXCEPT ![c] = a] BY <2>1 DEF ResolveTo
  <2> HIDE DEF a
  <2>10. byID' \in [DOMAIN byID -> Association] BY <2>1, <2>5, <2>9, Updated
  <2>11. byID'[c].endpoint = packet.from /\ \A d \in DOMAIN byID \ {c} : byID'[d] = byID[d]
    BY <2>1, <2>5, <2>9
  <2>6. packet' \in [from : Clients, as : Clients \cup {None}]
    <3>1. packet \in [from : Clients, as : Clients \cup {None}]
      BY <1>13 DEF ResolveFirst, Read, NoPacket
    <3>2. c \in Clients /\ packet' = [packet EXCEPT !.as = c] BY <2>1 DEF ResolveTo
    <3> QED BY <3>1, <3>2
  <2>7. Shape' /\ Located' BY <2>1, <2>2, <2>3, <2>10, <2>6 DEF ResolveTo
  <2>8. MapsAgree' BY <2>1, <2>2, <2>3, <2>11 DEF ResolveTo
  <2> QED BY <2>7, <2>8
<1>14. CASE Drop BY <1>14 DEF Drop
<1>15. CASE Relay BY <1>15 DEF Relay
<1>16. CASE Expire BY <1>16 DEF Expire, RemoveAll, Idle
<1>17. CASE LoopEnds BY <1>17 DEF LoopEnds
<1>18. CASE Start BY <1>18 DEF Start
<1>19. CASE Shut BY <1>19 DEF Shut
<1>20. CASE CloseAll BY <1>20 DEF CloseAll
<1>21. CASE Closed BY <1>21 DEF Closed
<1>22. CASE UNCHANGED vars BY <1>22 DEF vars
<1> QED
  BY <1>1, <1>2, <1>3, <1>4, <1>5, <1>6, <1>7, <1>8, <1>9, <1>10, <1>11, <1>12, <1>13, <1>14,
     <1>15, <1>16, <1>17, <1>18, <1>19, <1>20, <1>21, <1>22
  DEF Next, Client, Connection, Loop, Resolve, Lifetime

\* handshakeLimiter's counters, as functions of the connections.
CountInv ==
    /\ active = Cardinality(Handshaking) /\ active <= MaxHandshakes
    /\ byIP = [h \in Hosts |-> Cardinality(HandshakingOf(h))]
    /\ \A h \in Hosts : byIP[h] <= MaxHandshakesPerIP

LEMMA HandshakingFinite ==
    ASSUME NEW h
    PROVE  /\ IsFiniteSet(Handshaking) /\ Cardinality(Handshaking) \in Nat
           /\ IsFiniteSet(HandshakingOf(h)) /\ Cardinality(HandshakingOf(h)) \in Nat
<1>1. Handshaking \subseteq Clients /\ HandshakingOf(h) \subseteq Clients
  BY DEF Handshaking, HandshakingOf
<1> QED BY <1>1, ClientsAssumption, FS_Subset, FS_CardinalityType

LEMMA CountSame ==
    ASSUME CountInv, Handshaking' = Handshaking, UNCHANGED <<active, byIP>>
    PROVE  CountInv'
<1>1. \A h \in Hosts : HandshakingOf(h)' = HandshakingOf(h) BY DEF HandshakingOf
<1>2. \A h \in Hosts : Cardinality(HandshakingOf(h))' = Cardinality(HandshakingOf(h)) BY <1>1
<1> QED BY <1>1, <1>2 DEF CountInv

LEMMA CountAdmitted ==
    ASSUME Shape, CountInv, NEW c \in Clients, Admit(c)
    PROVE  CountInv'
<1> DEFINE h == Host[c]
<1> h \in Hosts BY ClientsAssumption
<1>1. c \notin Handshaking /\ Handshaking' = Handshaking \cup {c}
  BY DEF Admit, Goto, Shape, Handshaking
<1>2. Cardinality(Handshaking)' = Cardinality(Handshaking) + 1
  BY <1>1, HandshakingFinite, FS_AddElement
<1>3. c \notin HandshakingOf(h) /\ HandshakingOf(h)' = HandshakingOf(h) \cup {c}
  BY <1>1 DEF HandshakingOf
<1>4. Cardinality(HandshakingOf(h))' = Cardinality(HandshakingOf(h)) + 1
  BY <1>3, HandshakingFinite, FS_AddElement
<1>5. ASSUME NEW g \in Hosts \ {h} PROVE Cardinality(HandshakingOf(g))' = Cardinality(HandshakingOf(g))
  <2>1. HandshakingOf(g)' = HandshakingOf(g) BY <1>1 DEF HandshakingOf
  <2> QED BY <2>1
<1>6. active' = active + 1 /\ active < MaxHandshakes /\ byIP[h] < MaxHandshakesPerIP
  BY DEF Admit, Acquire
<1>7. byIP' = [byIP EXCEPT ![h] = @ + 1] BY DEF Admit, Acquire
<1>8. Cardinality(Handshaking) \in Nat /\ \A g \in Hosts : Cardinality(HandshakingOf(g)) \in Nat
  BY HandshakingFinite
<1> HIDE DEF h
<1>9. active' = Cardinality(Handshaking)' /\ active' <= MaxHandshakes
  BY <1>2, <1>6, <1>8, LimitsAssumption DEF CountInv
<1>10. \A g \in Hosts : byIP'[g] = Cardinality(HandshakingOf(g))'
  BY <1>4, <1>5, <1>7 DEF CountInv
<1>11. \A g \in Hosts : byIP'[g] <= MaxHandshakesPerIP
  BY <1>6, <1>7, <1>8, LimitsAssumption DEF CountInv
<1>12. byIP' = [g \in Hosts |-> byIP'[g]] BY <1>7 DEF CountInv
<1> QED BY <1>9, <1>10, <1>11, <1>12 DEF CountInv

LEMMA CountReleased ==
    ASSUME Shape, CountInv, NEW c \in Clients, pc[c] = "handshake", Release(Host[c]),
           NEW label, label # "handshake", Goto(c, label)
    PROVE  CountInv'
<1> DEFINE h == Host[c]
<1> h \in Hosts BY ClientsAssumption
<1>1. c \in Handshaking /\ Handshaking' = Handshaking \ {c}
  BY DEF Goto, Shape, Handshaking
<1>2. Cardinality(Handshaking)' = Cardinality(Handshaking) - 1
  BY <1>1, HandshakingFinite, FS_RemoveElement
<1>3. c \in HandshakingOf(h) /\ HandshakingOf(h)' = HandshakingOf(h) \ {c}
  BY <1>1 DEF HandshakingOf
<1>4. Cardinality(HandshakingOf(h))' = Cardinality(HandshakingOf(h)) - 1
  <2>1. IsFiniteSet(HandshakingOf(h))
    BY HandshakingFinite
  <2>2. Cardinality(HandshakingOf(h) \ {c}) = Cardinality(HandshakingOf(h)) - 1
    BY <1>3, <2>1, FS_RemoveElement
  <2> QED BY <1>3, <2>2
<1>5. ASSUME NEW g \in Hosts \ {h} PROVE Cardinality(HandshakingOf(g))' = Cardinality(HandshakingOf(g))
  <2>1. HandshakingOf(g)' = HandshakingOf(g) BY <1>1 DEF HandshakingOf
  <2> QED BY <2>1
<1>6. active' = active - 1 /\ byIP' = [byIP EXCEPT ![h] = @ - 1] BY DEF Release
<1>8. Cardinality(Handshaking) \in Nat /\ \A g \in Hosts : Cardinality(HandshakingOf(g)) \in Nat
  BY HandshakingFinite
<1> HIDE DEF h
<1>9. active' = Cardinality(Handshaking)' /\ active' <= MaxHandshakes
  BY <1>2, <1>6, <1>8, LimitsAssumption DEF CountInv
<1>10. \A g \in Hosts : byIP'[g] = Cardinality(HandshakingOf(g))'
  BY <1>4, <1>5, <1>6 DEF CountInv
<1>11. \A g \in Hosts : byIP'[g] <= MaxHandshakesPerIP
  BY <1>6, <1>8, LimitsAssumption DEF CountInv
<1>12. byIP' = [g \in Hosts |-> byIP'[g]] BY <1>6 DEF CountInv
<1> QED BY <1>9, <1>10, <1>11, <1>12 DEF CountInv

LEMMA InitCount == Init => CountInv
<1> SUFFICES ASSUME Init PROVE CountInv OBVIOUS
<1>1. Handshaking = {} /\ \A h \in Hosts : HandshakingOf(h) = {}
  BY DEF Init, Handshaking, HandshakingOf
<1>2. Cardinality(Handshaking) = 0 /\ \A h \in Hosts : Cardinality(HandshakingOf(h)) = 0
  BY <1>1, FS_EmptySet
<1>3. active = 0 /\ byIP = [h \in Hosts |-> 0] BY DEF Init
<1>4. byIP = [h \in Hosts |-> Cardinality(HandshakingOf(h))] BY <1>2, <1>3
<1> QED BY <1>2, <1>3, <1>4, LimitsAssumption DEF CountInv

LEMMA StepCount == Shape /\ CountInv /\ [Next]_vars => CountInv'
<1> SUFFICES ASSUME Shape, CountInv, [Next]_vars PROVE CountInv' OBVIOUS
<1>1. ASSUME NEW c \in Clients, Admit(c) PROVE CountInv' BY <1>1, CountAdmitted
<1>2. ASSUME NEW c \in Clients, Associate(c) PROVE CountInv'
  BY <1>2, CountReleased DEF Associate
<1>3. ASSUME NEW c \in Clients, EndHandshake(c) PROVE CountInv'
  BY <1>3, CountReleased DEF EndHandshake
<1>4. ASSUME NEW c \in Clients,
             Accept(c) \/ Remove(c) \/ Receive(c) \/ Age(c) \/ Refuse(c) \/ Add(c)
             \/ AddRefused(c) \/ AttachControl(c)
      PROVE  Handshaking' = Handshaking /\ UNCHANGED <<active, byIP>>
  BY <1>4 DEF Accept, Remove, Receive, Age, Refuse, Add, AddRefused, AttachControl, Goto,
              Handshaking, Shape
<1>5. ASSUME Loop \/ Lifetime \/ UNCHANGED vars
      PROVE  Handshaking' = Handshaking /\ UNCHANGED <<active, byIP>>
  BY <1>5 DEF Loop, Lifetime, Resolve, ResolveBound, ResolveFirst, ResolveTo, Drop, Relay, Expire,
              LoopEnds, Start, Shut, CloseAll, Closed, Handshaking, vars
<1> QED BY <1>1, <1>2, <1>3, <1>4, <1>5, CountSame DEF Next, Client, Connection

\* The registry's maps stay each other's inverse.
THEOREM RegistryAgrees == Spec => []MapsAgree
<1>1. RegistryInv => MapsAgree BY DEF RegistryInv
<1> QED BY <1>1, InitRegistry, StepRegistry, PTL DEF Spec

\* The type invariant: the counters are counts, of finitely many connections.
THEOREM TypeCorrect == Spec => []TypeOK
<1>1. RegistryInv /\ CountInv => TypeOK
  BY HandshakingFinite DEF RegistryInv, Shape, CountInv, TypeOK
<1>2. RegistryInv => Shape BY DEF RegistryInv
<1> QED BY <1>1, <1>2, InitRegistry, StepRegistry, InitCount, StepCount, PTL DEF Spec

\* handshakeLimiter counts the connections in their handshake and no others.
THEOREM HandshakesAreCounted == Spec => []HandshakesCounted
<1>1. CountInv => HandshakesCounted
  BY DEF CountInv, HandshakesCounted, Handshaking, HandshakingOf
<1>2. RegistryInv => Shape BY DEF RegistryInv
<1> QED BY <1>1, <1>2, InitRegistry, StepRegistry, InitCount, StepCount, PTL DEF Spec

\* A bound association keeps its endpoint: only resolve assigns one, and to an
\* unbound association, or again to the one that has it.
THEOREM EndpointsFixed == Spec => EndpointFixed
<1> DEFINE Fixed == \A c \in Registered \cap DOMAIN byID' :
                      Bound(c) => byID'[c].endpoint = byID[c].endpoint
<1>1. ASSUME RegistryInv, Next PROVE Fixed
  <2> USE <1>1, ClientsAssumption DEF RegistryInv, Shape, Located, MapsAgree, Registered, Association, Bound
  <2>1. ASSUME NEW c \in Clients, Client(c) \/ Connection(c) PROVE Fixed
    <3>1. CASE Remove(c) BY <3>1 DEF Remove, RemoveAll
    <3>2. CASE Age(c) BY <3>2 DEF Age
    <3>3. CASE Add(c) BY <3>3 DEF Add
    <3>4. CASE AttachControl(c)
      <4>1. ASSUME NEW d \in DOMAIN byID PROVE byID'[d].endpoint = byID[d].endpoint
        <5>1. byID[d] \in Association OBVIOUS
        <5>2. byID'[d] = byID[d] \/ byID'[d] = [byID[d] EXCEPT !.control = TRUE]
          BY <3>4 DEF AttachControl
        <5> QED BY <5>1, <5>2
      <4> QED BY <4>1
    <3>5. CASE UNCHANGED byID BY <3>5
    <3> QED
      BY <2>1, <3>1, <3>2, <3>3, <3>4, <3>5
      DEF Client, Connection, Accept, Associate, Receive, Admit, Refuse, EndHandshake, AddRefused
  <2>2. CASE ResolveBound
    <3>1. PICK c \in DOMAIN byID : byID[c].endpoint = packet.from /\ ResolveTo(c)
      BY <2>2 DEF ResolveBound, Read, NoPacket
    <3>2. byID[c] \in Association BY <3>1
    <3>3. byID'[c].endpoint = packet.from BY <3>1, <3>2 DEF ResolveTo
    <3>4. \A d \in DOMAIN byID \ {c} : byID'[d] = byID[d] BY <3>1 DEF ResolveTo
    <3> QED BY <3>1, <3>3, <3>4
  <2>3. CASE ResolveFirst BY <2>3 DEF ResolveFirst, ResolveTo, Candidates, Of
  <2>4. CASE Expire BY <2>4 DEF Expire, RemoveAll
  <2>5. CASE Drop \/ Relay \/ LoopEnds \/ Lifetime
    BY <2>5 DEF Drop, Relay, LoopEnds, Lifetime, Start, Shut, CloseAll, Closed
  <2> QED BY <1>1, <2>1, <2>2, <2>3, <2>4, <2>5 DEF Next, Loop, Resolve
<1>2. RegistryInv /\ [Next]_vars => [Fixed]_vars BY <1>1
<1> QED BY <1>2, InitRegistry, StepRegistry, PTL DEF Spec, EndpointFixed

\* A datagram is relayed as the association that has its endpoint, or as the
\* only unbound one of its host; nobody's datagram is relayed as anybody's guess.
THEOREM SendersOwn == Spec => NeverGuessed
<1> DEFINE Unbound == {c \in Clients : c \in Registered /\ Host[c] = Host[packet.from] /\ ~Bound(c)}
           Own == Read /\ Resolved' => byEndpoint[packet.from] = packet'.as \/ Unbound = {packet'.as}
<1>1. ASSUME RegistryInv, Next, Read, Resolved' PROVE byEndpoint[packet.from] = packet'.as \/ Unbound = {packet'.as}
  <2>1. packet = [from |-> packet.from, as |-> None] /\ packet.from \in Clients /\ byEndpoint \in [Clients -> Clients \cup {None}]
    BY <1>1 DEF RegistryInv, Shape, Read, NoPacket
  <2>2. packet' # None /\ packet' # packet
    BY <1>1, <2>1 DEF Resolved, NoPacket
  <2>3. ASSUME NEW c, ResolveTo(c) PROVE packet'.as = c
    BY <2>1, <2>3 DEF ResolveTo
  <2>4. CASE ResolveBound
    BY <2>3, <2>4 DEF ResolveBound
  <2>5. CASE ResolveFirst
    <3>1. PICK c \in Candidates(packet.from) : Candidates(packet.from) = {c} /\ packet'.as = c
      BY <2>3, <2>5 DEF ResolveFirst
    <3>2. Candidates(packet.from) = Unbound
      BY <1>1 DEF RegistryInv, Shape, Candidates, Of
    <3> QED BY <3>1, <3>2
  <2>6. packet' = packet \/ packet' = None \/ ResolveBound \/ ResolveFirst
    <3>1. ASSUME NEW c \in Clients, Client(c) \/ Connection(c) PROVE packet' = packet
      BY <1>1, <3>1
      DEF Client, Connection, Accept, Associate, Remove, Receive, Age, Admit, Refuse, EndHandshake, Add, AddRefused,
          AttachControl, Read
    <3>2. CASE Loop \/ Lifetime
      BY <3>2 DEF Loop, Lifetime, Resolve, Drop, Relay, Expire, LoopEnds, Start, Shut, CloseAll, Closed
    <3> QED BY <1>1, <3>1, <3>2 DEF Next
  <2> QED BY <2>2, <2>4, <2>5, <2>6
<1>2. RegistryInv /\ [Next]_vars => [Own]_vars BY <1>1
<1> QED BY <1>2, InitRegistry, StepRegistry, PTL DEF Spec, NeverGuessed

----------------------------------------------------------------------------
(* The limits of associations *)

LEMMA RegisteredFinite ==
    ASSUME Shape, NEW h
    PROVE  /\ IsFiniteSet(Registered) /\ Cardinality(Registered) \in Nat
           /\ IsFiniteSet(Of(h)) /\ Cardinality(Of(h)) \in Nat
<1>1. Registered \subseteq Clients /\ Of(h) \subseteq Clients BY DEF Shape, Of
<1> QED BY <1>1, ClientsAssumption, FS_Subset, FS_CardinalityType

\* Only add makes the registry grow.
LEMMA FewerWithin ==
    ASSUME Shape, WithinLimits, Registered' \subseteq Registered
    PROVE  WithinLimits'
<1>1. IsFiniteSet(Registered) /\ \A h \in Hosts : IsFiniteSet(Of(h)) BY RegisteredFinite
<1>2. \A h \in Hosts : Of(h)' \subseteq Of(h) BY DEF Of
<1>3. /\ IsFiniteSet(Registered') /\ Cardinality(Registered') <= Cardinality(Registered)
  BY <1>1, FS_Subset
<1>4. ASSUME NEW h \in Hosts PROVE Cardinality(Of(h)') <= Cardinality(Of(h)) /\ IsFiniteSet(Of(h)')
  BY <1>1, <1>2, FS_Subset
<1>5. /\ Cardinality(Registered) \in Nat /\ Cardinality(Registered') \in Nat
      /\ \A h \in Hosts : Cardinality(Of(h)) \in Nat /\ Cardinality(Of(h)') \in Nat
  BY <1>1, <1>3, <1>4, FS_CardinalityType
<1> QED BY <1>3, <1>4, <1>5, LimitsAssumption DEF WithinLimits

LEMMA AddWithin ==
    ASSUME RegistryInv, WithinLimits, NEW c \in Clients, Add(c)
    PROVE  WithinLimits'
<1> DEFINE h == Host[c]
<1> h \in Hosts BY ClientsAssumption
<1>1. Shape BY DEF RegistryInv
<1>2. c \notin Registered BY DEF Add, RegistryInv, Located
<1>3. Registered' = Registered \cup {c} BY DEF Add, Registered
<1>4. Of(h)' = Of(h) \cup {c} /\ c \notin Of(h) BY <1>2, <1>3 DEF Of
<1>5. ASSUME NEW g \in Hosts \ {h} PROVE Cardinality(Of(g)') = Cardinality(Of(g))
  <2>1. Of(g)' = Of(g) BY <1>3 DEF Of
  <2> QED BY <2>1
<1>6. Cardinality(Registered') = Cardinality(Registered) + 1
  BY <1>1, <1>2, <1>3, RegisteredFinite, FS_AddElement
<1>7. Cardinality(Of(h)') = Cardinality(Of(h)) + 1
  BY <1>1, <1>4, RegisteredFinite, FS_AddElement
<1>8. ~(Cardinality(Registered) >= MaxAssociations) /\ ~(Cardinality(Of(h)) >= MaxAssociationsPerIP)
  BY DEF Add, Full
<1>9. Cardinality(Registered) \in Nat /\ \A g \in Hosts : Cardinality(Of(g)) \in Nat
  BY <1>1, RegisteredFinite
<1> HIDE DEF h
<1>10. Cardinality(Registered') <= MaxAssociations BY <1>6, <1>8, <1>9, LimitsAssumption
<1>11. ASSUME NEW g \in Hosts PROVE Cardinality(Of(g)') <= MaxAssociationsPerIP
  BY <1>5, <1>7, <1>8, <1>9, LimitsAssumption DEF WithinLimits
<1> QED BY <1>10, <1>11 DEF WithinLimits

LEMMA InitWithin == Init => WithinLimits
<1> SUFFICES ASSUME Init PROVE WithinLimits OBVIOUS
<1>1. Registered = {} /\ \A h \in Hosts : Of(h) = {} BY DEF Init, Registered, Of
<1>2. Cardinality(Registered) = 0 /\ \A h \in Hosts : Cardinality(Of(h)) = 0 BY <1>1, FS_EmptySet
<1> QED BY <1>2, LimitsAssumption DEF WithinLimits

LEMMA StepWithin == RegistryInv /\ WithinLimits /\ [Next]_vars => WithinLimits'
<1> SUFFICES ASSUME RegistryInv, WithinLimits, [Next]_vars PROVE WithinLimits' OBVIOUS
<1>1. Shape BY DEF RegistryInv
<1>2. ASSUME NEW c \in Clients, Add(c) PROVE WithinLimits' BY <1>2, AddWithin
<1>3. ASSUME NEW c \in Clients,
             Accept(c) \/ Associate(c) \/ Remove(c) \/ Receive(c) \/ Age(c)
             \/ Admit(c) \/ Refuse(c) \/ EndHandshake(c) \/ AddRefused(c) \/ AttachControl(c)
      PROVE  Registered' \subseteq Registered
  BY <1>3 DEF Accept, Associate, Remove, RemoveAll, Receive, Age, Admit, Refuse, EndHandshake,
              AddRefused, AttachControl, Registered
<1>4. ASSUME Loop \/ Lifetime \/ UNCHANGED vars PROVE Registered' \subseteq Registered
  BY <1>4 DEF Loop, Lifetime, Resolve, ResolveBound, ResolveFirst, ResolveTo, Drop, Relay, Expire, RemoveAll,
              LoopEnds, Start, Shut, CloseAll, Closed, Registered, vars
<1> QED BY <1>1, <1>2, <1>3, <1>4, FewerWithin DEF Next, Client, Connection

\* Neither limit of associations is ever passed, also not that of one host.
THEOREM LimitsHold == Spec => []WithinLimits
BY InitRegistry, StepRegistry, InitWithin, StepWithin, PTL DEF Spec

----------------------------------------------------------------------------
(* Orphans, and Close *)

\* A datagram in hand keeps acceptUDP running, and Close waits for it.
QuietInv == (packet # None => "acceptUDP" \in loops) /\ (phase = "closed" => loops = {})

LEMMA InitQuiet == Init => QuietInv
BY DEF Init, QuietInv

LEMMA StepQuiet == QuietInv /\ [Next]_vars => QuietInv'
<1> SUFFICES ASSUME QuietInv, [Next]_vars PROVE QuietInv' OBVIOUS
<1> USE DEF QuietInv, NoPacket
<1>1. ASSUME NEW c \in Clients, Receive(c) PROVE QuietInv' BY <1>1 DEF Receive
<1>2. ASSUME NEW c \in Clients,
             Accept(c) \/ Associate(c) \/ Remove(c) \/ Age(c)
             \/ Admit(c) \/ Refuse(c) \/ EndHandshake(c) \/ Add(c) \/ AddRefused(c) \/ AttachControl(c)
      PROVE  UNCHANGED <<phase, loops, packet>>
  BY <1>2 DEF Accept, Associate, Remove, Age, Admit, Refuse, EndHandshake, Add, AddRefused, AttachControl
<1>3. CASE LoopEnds BY <1>3 DEF LoopEnds, Busy
<1>4. CASE Resolve \/ Relay \/ Expire
  <2>1. UNCHANGED <<phase, loops>> BY <1>4 DEF Resolve, ResolveBound, ResolveFirst, ResolveTo, Drop, Relay, Expire
  <2>2. packet' # None => packet # None
    BY <1>4 DEF Resolve, ResolveBound, ResolveFirst, Read, Drop, Relay, Expire
  <2> QED BY <2>1, <2>2
<1>5. CASE Lifetime BY <1>5 DEF Lifetime, Start, Shut, CloseAll, Closed, Loops
<1>6. CASE UNCHANGED vars BY <1>6 DEF vars
<1> QED BY <1>1, <1>2, <1>3, <1>4, <1>5, <1>6 DEF Next, Client, Connection, Loop

\* Once Close has returned no loop runs, and no datagram is on its way to the core.
THEOREM CloseIsQuiet == Spec => []QuietAfterClose
<1>1. QuietInv => QuietAfterClose BY DEF QuietInv, QuietAfterClose, NoPacket
<1> QED BY <1>1, InitQuiet, StepQuiet, PTL DEF Spec

\* An association ages only with its control connection attached, so that one
\* between add and attachControl is not expired.
Aging == \A c \in Registered : /\ byID[c].idle => byID[c].control
                               /\ pc[c] = "attaching" => ~byID[c].control

OrphanInv ==
    /\ Aging /\ NoOrphans
    /\ phase \in {"bound", "open"} => \A c \in Clients : pc[c] = "attaching" => c \in Registered

LEMMA InitOrphan == Init => OrphanInv
BY DEF Init, OrphanInv, Aging, NoOrphans, Registered

\* resolve marks an association as used, and leaves the rest as it is.
LEMMA ResolveOrphan ==
    ASSUME Shape, OrphanInv, NEW c \in Registered, ResolveTo(c)
    PROVE  OrphanInv'
<1> USE DEF Registered
<1> DEFINE a == [[byID[c] EXCEPT !.endpoint = packet.from] EXCEPT !.idle = FALSE]
<1>1. byID' = [byID EXCEPT ![c] = a] /\ UNCHANGED <<phase, pc, cut>> BY DEF ResolveTo
<1>2. byID[c] \in Association BY DEF Shape
<1>3. a.idle = FALSE /\ a.control = byID[c].control BY <1>2 DEF Association
<1> HIDE DEF a
<1>4. DOMAIN byID' = DOMAIN byID BY <1>1
<1>5. \A d \in DOMAIN byID : byID'[d].control = byID[d].control /\ (byID'[d].idle => byID[d].idle) BY <1>1, <1>3
<1> QED BY <1>1, <1>4, <1>5 DEF OrphanInv, Aging, NoOrphans

LEMMA AttachOrphan ==
    ASSUME Shape, OrphanInv, NEW c \in Clients, AttachControl(c)
    PROVE  OrphanInv'
<1> USE DEF Registered
<1>1. DOMAIN byID' = DOMAIN byID /\ UNCHANGED <<phase, cut>> BY DEF AttachControl
<1>2. pc' = [pc EXCEPT ![c] = "copying"] /\ pc[c] = "attaching" BY DEF AttachControl, Goto
<1>3. pc'[c] = "copying" /\ \A d \in Clients \ {c} : pc'[d] = pc[d] BY <1>2 DEF Shape
<1>4. \A d \in DOMAIN byID : d # c => byID'[d] = byID[d] BY DEF AttachControl
<1>5. c \in DOMAIN byID => byID'[c].control
  <2>1. c \in DOMAIN byID => byID[c] \in Association BY DEF Shape
  <2>2. c \in DOMAIN byID => byID'[c] = [byID[c] EXCEPT !.control = TRUE] BY DEF AttachControl
  <2> QED BY <2>1, <2>2 DEF Association
<1>6. DOMAIN byID \subseteq Clients BY DEF Shape
<1>7. Aging'
  <2> SUFFICES ASSUME NEW d \in DOMAIN byID
               PROVE  (byID'[d].idle => byID'[d].control) /\ (pc'[d] = "attaching" => ~byID'[d].control)
    BY <1>1 DEF Aging
  <2>1. CASE d = c BY <1>3, <1>5, <2>1
  <2>2. CASE d # c BY <1>3, <1>4, <1>6, <2>2 DEF OrphanInv, Aging
  <2> QED BY <2>1, <2>2
<1>8. NoOrphans' BY <1>1, <1>2, <1>3 DEF OrphanInv, NoOrphans
<1> QED BY <1>1, <1>3, <1>7, <1>8 DEF OrphanInv

LEMMA AgeOrphan ==
    ASSUME Shape, OrphanInv, NEW c \in Clients, Age(c)
    PROVE  OrphanInv'
<1> USE DEF Registered
<1>1. /\ byID' = [byID EXCEPT ![c] = [byID[c] EXCEPT !.idle = TRUE]] /\ UNCHANGED <<phase, pc, cut>>
      /\ c \in DOMAIN byID /\ byID[c].control BY DEF Age
<1>2. byID[c] \in Association BY <1>1 DEF Shape
<1>3. [byID[c] EXCEPT !.idle = TRUE].control = byID[c].control BY <1>2 DEF Association
<1>4. DOMAIN byID' = DOMAIN byID /\ \A d \in DOMAIN byID : byID'[d].control = byID[d].control BY <1>1, <1>3
<1>5. \A d \in DOMAIN byID : byID'[d].idle => byID'[d].control BY <1>1, <1>4 DEF OrphanInv, Aging
<1> QED BY <1>1, <1>4, <1>5 DEF OrphanInv, Aging, NoOrphans

LEMMA AddOrphan ==
    ASSUME Shape, OrphanInv, NEW c \in Clients, Add(c)
    PROVE  OrphanInv'
<1> USE DEF Registered
<1>1. PICK e \in Clients \cup {None} :
          byID' = [d \in DOMAIN byID \cup {c} |->
                IF d = c THEN [endpoint |-> e, control |-> FALSE, idle |-> FALSE] ELSE byID[d]]
  BY DEF Add
<1>2. UNCHANGED <<phase, cut>> /\ pc' = [pc EXCEPT ![c] = "attaching"] BY DEF Add, Goto
<1>3. pc'[c] = "attaching" /\ \A d \in Clients \ {c} : pc'[d] = pc[d] BY <1>2 DEF Shape
<1>4. /\ DOMAIN byID' = DOMAIN byID \cup {c} /\ ~byID'[c].control /\ ~byID'[c].idle
      /\ \A d \in DOMAIN byID \ {c} : byID'[d] = byID[d] BY <1>1
<1>5. DOMAIN byID \subseteq Clients BY DEF Shape
<1>6. Aging'
  <2> SUFFICES ASSUME NEW d \in DOMAIN byID \cup {c}
               PROVE  (byID'[d].idle => byID'[d].control) /\ (pc'[d] = "attaching" => ~byID'[d].control)
    BY <1>4 DEF Aging
  <2>1. CASE d = c BY <1>4, <2>1
  <2>2. CASE d # c BY <1>3, <1>4, <1>5, <2>2 DEF OrphanInv, Aging
  <2> QED BY <2>1, <2>2
<1>7. NoOrphans' BY <1>2, <1>3, <1>4 DEF OrphanInv, NoOrphans
<1> QED BY <1>2, <1>3, <1>4, <1>6, <1>7 DEF OrphanInv

\* Associations leave the registry: with their connections cut, or ended.
LEMMA RemovedOrphan ==
    ASSUME OrphanInv, NEW S, RemoveAll(S), phase' = phase, cut \subseteq cut',
           phase \in {"bound", "open"} =>
              \A c \in Clients : \/ pc'[c] = pc[c] /\ (c \in S => c \in cut' /\ pc[c] # "attaching")
                                 \/ pc'[c] = "done",
           \A c \in Registered \ S : pc'[c] = "attaching" => pc[c] = "attaching"
    PROVE  OrphanInv'
<1> USE DEF Registered
<1>1. byID' = [c \in DOMAIN byID \ S |-> byID[c]] BY DEF RemoveAll
<1> QED BY <1>1 DEF OrphanInv, Aging, NoOrphans

LEMMA StepOrphan == Shape /\ OrphanInv /\ [Next]_vars => OrphanInv'
<1> SUFFICES ASSUME Shape, OrphanInv, [Next]_vars PROVE OrphanInv' OBVIOUS
<1>1. ASSUME NEW c \in Clients, Add(c) \/ AttachControl(c) \/ Age(c) PROVE OrphanInv'
  BY <1>1, AddOrphan, AttachOrphan, AgeOrphan
<1>2. ASSUME NEW c \in Clients, Remove(c) PROVE OrphanInv'
  <2>1. RemoveAll({c}) /\ UNCHANGED <<phase, cut>> /\ pc' = [pc EXCEPT ![c] = "done"] BY <1>2 DEF Remove, Goto
  <2>2. pc'[c] = "done" /\ \A d \in Clients \ {c} : pc'[d] = pc[d] BY <2>1 DEF Shape
  <2>3. \A d \in Registered \ {c} : pc'[d] = "attaching" => pc[d] = "attaching" BY <2>2 DEF Shape
  <2> QED BY <2>1, <2>2, <2>3, RemovedOrphan
<1>3. ASSUME NEW c \in Clients,
             Accept(c) \/ Associate(c) \/ Receive(c) \/ Admit(c) \/ Refuse(c) \/ EndHandshake(c) \/ AddRefused(c)
      PROVE  OrphanInv'
  <2>1. UNCHANGED <<phase, cut, byID>>
    BY <1>3 DEF Accept, Associate, Receive, Admit, Refuse, EndHandshake, AddRefused
  <2>2. pc' \in [Clients -> {"none", "accepted", "handshake", "adding", "attaching", "copying", "done"}]
        /\ \A d \in Clients : (pc'[d] \in {"attaching", "copying"} => pc'[d] = pc[d])
    BY <1>3 DEF Accept, Associate, Receive, Admit, Refuse, EndHandshake, AddRefused, Goto, Shape
  <2>3. Registered \subseteq Clients BY DEF Shape
  <2> QED BY <2>1, <2>2, <2>3 DEF OrphanInv, Aging, NoOrphans, Registered
<1>4. CASE ResolveBound \/ ResolveFirst \/ Drop \/ Relay
  <2>1. CASE ResolveFirst
    <3>1. PICK c \in Registered : ResolveTo(c) BY <2>1 DEF ResolveFirst, Candidates, Of
    <3> QED BY <3>1, ResolveOrphan
  <2>2. CASE ResolveBound
    <3>1. ResolveTo(byEndpoint[packet.from]) BY <2>2 DEF ResolveBound
    <3>2. CASE byEndpoint[packet.from] \in Registered BY <3>1, <3>2, ResolveOrphan
    <3>3. CASE byEndpoint[packet.from] \notin Registered
      <4>1. UNCHANGED <<phase, cut, byID, pc>> BY <3>1, <3>3 DEF ResolveTo, Registered, Shape
      <4> QED BY <4>1 DEF OrphanInv, Aging, NoOrphans, Registered
    <3> QED BY <3>2, <3>3
  <2>3. CASE Drop \/ Relay
    <3>1. UNCHANGED <<phase, cut, byID, pc>> BY <2>3 DEF Drop, Relay
    <3> QED BY <3>1 DEF OrphanInv, Aging, NoOrphans, Registered
  <2> QED BY <1>4, <2>1, <2>2, <2>3
<1>5. CASE Expire
  <2>1. RemoveAll(Idle) /\ cut' = cut \cup {c \in Idle : byID[c].control} /\ UNCHANGED <<phase, pc>> BY <1>5 DEF Expire
  <2>2. \A c \in Idle : byID[c].control /\ pc[c] # "attaching" BY DEF OrphanInv, Aging, Idle
  <2> QED BY <2>1, <2>2, RemovedOrphan
<1>6. CASE LoopEnds \/ Lifetime \/ UNCHANGED vars
  <2>1. CASE CloseAll BY <2>1 DEF CloseAll, OrphanInv, Aging, NoOrphans, Registered
  <2>2. CASE LoopEnds \/ Start \/ Shut \/ Closed \/ UNCHANGED vars
    <3>1. UNCHANGED <<cut, byID, pc>> /\ (phase' \in {"bound", "open"} => phase \in {"bound", "open"})
      BY <2>2 DEF LoopEnds, Start, Shut, Closed, vars
    <3> QED BY <3>1 DEF OrphanInv, Aging, NoOrphans, Registered
  <2> QED BY <1>6, <2>1, <2>2 DEF Lifetime
<1> QED BY <1>1, <1>2, <1>3, <1>4, <1>5, <1>6 DEF Next, Client, Connection, Loop, Resolve

\* While the listener is open, whoever loses an association is told by the end
\* of its control connection.
THEOREM NobodyOrphaned == Spec => []NoOrphans
<1>1. OrphanInv => NoOrphans BY DEF OrphanInv
<1>2. RegistryInv => Shape BY DEF RegistryInv
<1> QED BY <1>1, <1>2, InitRegistry, StepRegistry, InitOrphan, StepOrphan, PTL DEF Spec
=============================================================================
