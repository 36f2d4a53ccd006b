-------------------------- MODULE SocksAssociations --------------------------
(***************************************************************************)
(* The SOCKS5 listener (internal/mihomo/socks_listener.go): the handshakes *)
(* it admits, the UDP associations of the authenticated connections, the   *)
(* datagrams it hands to the core, the expiry of unused associations, and  *)
(* Close, which ends its three loops.                                      *)
(*                                                                         *)
(* A client is one TCP connection and one UDP socket. It names its         *)
(* connection, the association made on it, and the endpoint of its socket. *)
(* Several clients share a host: the code tells them apart by port only.   *)
(***************************************************************************)
EXTENDS Naturals, FiniteSets, Functions

CONSTANTS
    Clients,
    Hosts,
    Host,               \* the address of each client
    None,
    MaxAssociations, MaxAssociationsPerIP,
    MaxHandshakes, MaxHandshakesPerIP

ASSUME ClientsAssumption == IsFiniteSet(Clients) /\ None \notin Clients /\ Host \in [Clients -> Hosts]
ASSUME LimitsAssumption ==
    {MaxAssociations, MaxAssociationsPerIP, MaxHandshakes, MaxHandshakesPerIP} \subseteq Nat \ {0}

VARIABLES
    phase,              \* of the listener: bound, open, shut, cleared, closed
    loops,              \* the goroutines that run: acceptTCP, acceptUDP, expireAssociations
    pc,                 \* by client: where its connection is
    cut,                \* the control connections the listener closed
    byID,               \* the associations: endpoint, control attached, idle
    byEndpoint,         \* by endpoint: the association bound to it, or None
    active, byIP,       \* the handshakes counted by handshakeLimiter
    packet              \* the datagram acceptUDP has read: its sender, and the user it resolved to

vars == <<phase, loops, pc, cut, byID, byEndpoint, active, byIP, packet>>

Loops == {"acceptTCP", "acceptUDP", "expireAssociations"}
Association == [endpoint : Clients \cup {None}, control : BOOLEAN, idle : BOOLEAN]
Registered == DOMAIN byID
Of(h) == {c \in Registered : Host[c] = h}
Bound(c) == byID[c].endpoint # None
Goto(c, label) == pc' = [pc EXCEPT ![c] = label]
NoPacket == packet = None

----------------------------------------------------------------------------
(* handshakeLimiter and associationRegistry *)

Acquire(h) == /\ active < MaxHandshakes /\ byIP[h] < MaxHandshakesPerIP
              /\ active' = active + 1
              /\ byIP' = [byIP EXCEPT ![h] = @ + 1]

\* A mutant of Release: the deferred release counts again.
ReleaseTwice(h) == active' = active - 2 /\ byIP' = [byIP EXCEPT ![h] = @ - 2]

Release(h) == /\ active' = active - 1
              /\ byIP' = [byIP EXCEPT ![h] = @ - 1]

\* A mutant of Full: the limit of the listener is off by one.
FullLate(h) == Cardinality(Registered) > MaxAssociations \/ Cardinality(Of(h)) >= MaxAssociationsPerIP

Full(h) == Cardinality(Registered) >= MaxAssociations \/ Cardinality(Of(h)) >= MaxAssociationsPerIP

\* A mutant of Free: the endpoint may be another association's.
FreeAnyway(c, e) == Host[e] = Host[c]

\* The endpoint a client asks for is of its own host and belongs to no one.
Free(c, e) == Host[e] = Host[c] /\ byEndpoint[e] = None

\* A mutant of Candidates: a bound association may move.
CandidatesBound(e) == Of(Host[e])

\* The associations an unknown endpoint may belong to: bound to none yet.
Candidates(e) == {c \in Of(Host[e]) : ~Bound(c)}

\* A mutant of RemoveAll: the endpoint stays taken.
RemoveIDs(S) == byID' = [c \in Registered \ S |-> byID[c]] /\ UNCHANGED byEndpoint

\* removeLocked
RemoveAll(S) ==
    /\ byID' = [c \in Registered \ S |-> byID[c]]
    /\ byEndpoint' = [e \in Clients |-> IF byEndpoint[e] \in S THEN None ELSE byEndpoint[e]]

----------------------------------------------------------------------------
(* Connections: acceptTCP and, for each of them, handleTCP *)

Accept(c) ==
    /\ phase = "open" /\ "acceptTCP" \in loops /\ pc[c] = "none"
    /\ \A d \in Clients : pc[d] # "accepted"
    /\ Goto(c, "accepted")
    /\ UNCHANGED <<phase, loops, cut, byID, byEndpoint, active, byIP, packet>>

Admit(c) ==
    /\ pc[c] = "accepted"
    /\ Acquire(Host[c])
    /\ Goto(c, "handshake")
    /\ UNCHANGED <<phase, loops, cut, byID, byEndpoint, packet>>

Refuse(c) ==
    /\ pc[c] = "accepted"
    /\ active >= MaxHandshakes \/ byIP[Host[c]] >= MaxHandshakesPerIP
    /\ Goto(c, "done")
    /\ UNCHANGED <<phase, loops, cut, byID, byEndpoint, active, byIP, packet>>

\* UDP ASSOCIATE of an authenticated user.
Associate(c) ==
    /\ pc[c] = "handshake"
    /\ Release(Host[c])
    /\ Goto(c, "adding")
    /\ UNCHANGED <<phase, loops, cut, byID, byEndpoint, packet>>

\* A mutant of EndHandshake: only an association gives its handshake back.
EndUnreleased(c) ==
    /\ pc[c] = "handshake"
    /\ Goto(c, "done")
    /\ UNCHANGED <<phase, loops, cut, byID, byEndpoint, active, byIP, packet>>

\* A mutant of EndHandshake: without a deadline a silent client stays.
EndByClient(c) == phase # "open" /\ EndUnreleased(c)

\* CONNECT, from here on the core's; another command, no valid credentials, or the deadline.
EndHandshake(c) ==
    /\ pc[c] = "handshake"
    /\ Release(Host[c])
    /\ Goto(c, "done")
    /\ UNCHANGED <<phase, loops, cut, byID, byEndpoint, packet>>

\* add: with the endpoint the client asks for, or with none.
Add(c) ==
    /\ pc[c] = "adding" /\ ~Full(Host[c])
    /\ \E e \in Clients \cup {None} :
          /\ e # None => Free(c, e)
          /\ byID' = [d \in Registered \cup {c} |->
                IF d = c THEN [endpoint |-> e, control |-> FALSE, idle |-> FALSE] ELSE byID[d]]
          /\ byEndpoint' = [d \in Clients |-> IF d = e THEN c ELSE byEndpoint[d]]
    /\ Goto(c, "attaching")
    /\ UNCHANGED <<phase, loops, cut, active, byIP, packet>>

AddRefused(c) ==
    /\ pc[c] = "adding"
    /\ Full(Host[c]) \/ \E e \in Clients : ~Free(c, e)
    /\ Goto(c, "done")
    /\ UNCHANGED <<phase, loops, cut, byID, byEndpoint, active, byIP, packet>>

\* attachControl: nothing to attach to if the association is gone.
AttachControl(c) ==
    /\ pc[c] = "attaching"
    /\ byID' = [d \in Registered |-> IF d = c THEN [byID[d] EXCEPT !.control = TRUE] ELSE byID[d]]
    /\ Goto(c, "copying")
    /\ UNCHANGED <<phase, loops, cut, byEndpoint, active, byIP, packet>>

\* The control connection ended: the client closed it, or the listener did.
Remove(c) ==
    /\ pc[c] = "copying"
    /\ RemoveAll({c})
    /\ Goto(c, "done")
    /\ UNCHANGED <<phase, loops, cut, active, byIP, packet>>

----------------------------------------------------------------------------
(* Datagrams: acceptUDP *)

Receive(e) ==
    /\ phase = "open" /\ "acceptUDP" \in loops /\ NoPacket
    /\ packet' = [from |-> e, as |-> None]
    /\ UNCHANGED <<phase, loops, pc, cut, byID, byEndpoint, active, byIP>>

Read == ~NoPacket /\ packet.as = None
Resolved == ~NoPacket /\ packet.as # None

\* resolve: the datagram belongs to association c, and is a sign of life.
ResolveTo(c) ==
    /\ packet' = [packet EXCEPT !.as = c]
    /\ byID' = [byID EXCEPT ![c].endpoint = packet.from, ![c].idle = FALSE]
    /\ byEndpoint' = [byEndpoint EXCEPT ![packet.from] = c]
    /\ UNCHANGED <<phase, loops, pc, cut, active, byIP>>

ResolveBound == /\ Read /\ byEndpoint[packet.from] # None
                /\ ResolveTo(byEndpoint[packet.from])

\* A mutant of ResolveFirst: one of several candidates is as good as another.
ResolveAny == /\ Read /\ byEndpoint[packet.from] = None
              /\ \E c \in Candidates(packet.from) : ResolveTo(c)

ResolveFirst == /\ Read /\ byEndpoint[packet.from] = None
                /\ \E c \in Candidates(packet.from) : Candidates(packet.from) = {c} /\ ResolveTo(c)

\* No association, or more than one, that it may belong to.
Drop == /\ Read /\ byEndpoint[packet.from] = None
        /\ Cardinality(Candidates(packet.from)) # 1
        /\ packet' = None
        /\ UNCHANGED <<phase, loops, pc, cut, byID, byEndpoint, active, byIP>>

\* HandleUDPPacket, unless the datagram is malformed.
Relay == /\ Resolved
         /\ packet' = None
         /\ UNCHANGED <<phase, loops, pc, cut, byID, byEndpoint, active, byIP>>

----------------------------------------------------------------------------
(* The listener: time, Start, Close *)

\* defaultAssociationIdle passes without a datagram; attaching never takes as long.
Age(c) ==
    /\ c \in Registered /\ byID[c].control /\ ~byID[c].idle
    /\ byID' = [byID EXCEPT ![c].idle = TRUE]
    /\ UNCHANGED <<phase, loops, pc, cut, byEndpoint, active, byIP, packet>>

Idle == {c \in Registered : byID[c].idle}

\* A mutant of Expire: the association goes, its control connection stays.
ExpireOnly ==
    /\ "expireAssociations" \in loops /\ Idle # {}
    /\ RemoveAll(Idle)
    /\ UNCHANGED <<phase, loops, pc, cut, active, byIP, packet>>

Expire ==
    /\ "expireAssociations" \in loops /\ Idle # {}
    /\ cut' = cut \cup {c \in Idle : byID[c].control}
    /\ RemoveAll(Idle)
    /\ UNCHANGED <<phase, loops, pc, active, byIP, packet>>

Start ==
    /\ phase = "bound"
    /\ phase' = "open" /\ loops' = Loops
    /\ UNCHANGED <<pc, cut, byID, byEndpoint, active, byIP, packet>>

\* Close: the sockets are closed and the loops told to end.
Shut ==
    /\ phase \in {"bound", "open"}
    /\ phase' = "shut"
    /\ UNCHANGED <<loops, pc, cut, byID, byEndpoint, active, byIP, packet>>

\* A mutant of CloseAll: the control connections are left to their clients.
CloseNone ==
    /\ phase = "shut" /\ phase' = "cleared"
    /\ byID' = [c \in {} |-> None] /\ byEndpoint' = [e \in Clients |-> None]
    /\ UNCHANGED <<loops, pc, cut, active, byIP, packet>>

CloseAll ==
    /\ phase = "shut"
    /\ cut' = cut \cup {c \in Registered : byID[c].control}
    /\ byID' = [c \in {} |-> None]
    /\ byEndpoint' = [e \in Clients |-> None]
    /\ phase' = "cleared"
    /\ UNCHANGED <<loops, pc, active, byIP, packet>>

Busy(loop) == \/ loop = "acceptTCP" /\ \E c \in Clients : pc[c] = "accepted"
              \/ loop = "acceptUDP" /\ ~NoPacket

\* A mutant of LoopEnds: the context is not cancelled.
LoopsLinger ==
    /\ phase \in {"shut", "cleared"}
    /\ \E loop \in loops \ {"expireAssociations"} : ~Busy(loop) /\ loops' = loops \ {loop}
    /\ UNCHANGED <<phase, pc, cut, byID, byEndpoint, active, byIP, packet>>

LoopEnds ==
    /\ phase \in {"shut", "cleared"}
    /\ \E loop \in loops : ~Busy(loop) /\ loops' = loops \ {loop}
    /\ UNCHANGED <<phase, pc, cut, byID, byEndpoint, active, byIP, packet>>

\* A mutant of Closed: Close does not wait for the loops.
ClosedEarly ==
    /\ phase = "cleared" /\ phase' = "closed"
    /\ UNCHANGED <<loops, pc, cut, byID, byEndpoint, active, byIP, packet>>

Closed ==
    /\ phase = "cleared" /\ loops = {}
    /\ phase' = "closed"
    /\ UNCHANGED <<loops, pc, cut, byID, byEndpoint, active, byIP, packet>>

----------------------------------------------------------------------------
Init ==
    /\ phase = "bound" /\ loops = {}
    /\ pc = [c \in Clients |-> "none"] /\ cut = {}
    /\ byID = [c \in {} |-> None]
    /\ byEndpoint = [e \in Clients |-> None]
    /\ active = 0 /\ byIP = [h \in Hosts |-> 0]
    /\ packet = None

Connection(c) == Admit(c) \/ Refuse(c) \/ EndHandshake(c) \/ Add(c) \/ AddRefused(c) \/ AttachControl(c)
Client(c) == Accept(c) \/ Associate(c) \/ Remove(c) \/ Receive(c) \/ Age(c)
Resolve == ResolveBound \/ ResolveFirst \/ Drop
Loop == Resolve \/ Relay \/ Expire \/ LoopEnds
Lifetime == Start \/ Shut \/ CloseAll \/ Closed

Next == \/ \E c \in Clients : Client(c) \/ Connection(c)
        \/ Loop \/ Lifetime

Spec == Init /\ [][Next]_vars

\* Goroutines are scheduled; a handshake meets its deadline; io.Copy returns
\* once the listener closed the connection, and so does Close once called.
FairSpec ==
    /\ Spec
    /\ \A c \in Clients : WF_vars(Connection(c)) /\ WF_vars(c \in cut /\ Remove(c))
    /\ WF_vars(Resolve \/ Relay) /\ WF_vars(Expire) /\ WF_vars(LoopEnds)
    /\ WF_vars(CloseAll) /\ WF_vars(Closed)

----------------------------------------------------------------------------
(* Properties *)

\* The state has the shape the code gives it, within the limits of associations.
TypeOK ==
    /\ phase \in {"bound", "open", "shut", "cleared", "closed"}
    /\ loops \subseteq Loops
    /\ pc \in [Clients -> {"none", "accepted", "handshake", "adding", "attaching", "copying", "done"}]
    /\ cut \subseteq Clients
    /\ Registered \subseteq Clients /\ byID \in [Registered -> Association]
    /\ byEndpoint \in [Clients -> Clients \cup {None}]
    /\ active \in Nat /\ byIP \in [Hosts -> Nat]
    /\ packet \in [from : Clients, as : Clients \cup {None}] \cup {None}

\* The two maps of the registry stay each other's inverse through add, resolve,
\* remove, expire and closeAll: no two associations share an endpoint, and no
\* endpoint resolves to an association that is gone or to one of another host.
MapsAgree ==
    \A e, c \in Clients :
        byEndpoint[e] = c <=> c \in Registered /\ byID[c].endpoint = e

\* Whatever the interleaving, neither limit of associations is passed.
WithinLimits ==
    /\ Cardinality(Registered) <= MaxAssociations
    /\ \A h \in Hosts : Cardinality(Of(h)) <= MaxAssociationsPerIP

\* handshakeLimiter counts exactly the connections in their handshake, so that
\* no path out of handleTCP leaks a place or gives it back twice.
HandshakesCounted ==
    LET handshaking == {c \in Clients : pc[c] = "handshake"}
    IN /\ active = Cardinality(handshaking) /\ active <= MaxHandshakes
       /\ \A h \in Hosts : /\ byIP[h] = Cardinality({c \in handshaking : Host[c] = h})
                           /\ byIP[h] <= MaxHandshakesPerIP

\* An association that left the registry while its control connection was
\* attached has that connection closed: no client waits on a dead association.
NoOrphans == \A c \in Clients : pc[c] = "copying" /\ phase \in {"bound", "open"} => c \in Registered \cup cut

\* A bound association never moves to another endpoint, which a datagram of
\* another client of the same host could otherwise take over.
EndpointFixed ==
    [][\A c \in Registered \cap DOMAIN byID' :
          Bound(c) => byID'[c].endpoint = byID[c].endpoint]_vars

\* The user a datagram is relayed as is its sender's own or one who shares its
\* host, and with several unbound associations of that host it is no one's.
NeverGuessed ==
    [][Read /\ Resolved' =>
          \/ byEndpoint[packet.from] = packet'.as
          \/ {c \in Clients : c \in Registered /\ Host[c] = Host[packet.from] /\ ~Bound(c)} = {packet'.as}]_vars

\* Once Close has returned the listener hands nothing more to the core, which
\* the manager then takes down.
QuietAfterClose == phase = "closed" => NoPacket /\ loops = {}

\* What README.md says of datagrams without a binding: one of a client whose
\* association expired, from an endpoint no association is bound to, is dropped.
ExpiredDropped ==
    [][Read /\ packet.from \in cut /\ byEndpoint[packet.from] = None => ~Resolved']_vars

\* A handshake comes to an end, whatever the client does or leaves undone.
HandshakesEnd == \A c \in Clients : pc[c] = "handshake" ~> pc[c] # "handshake"

\* An association without datagrams goes away with its connection, while the
\* listener is open.
IdleEnds ==
    \A c \in Clients : c \in Idle ~> pc[c] = "done" \/ c \in Registered \ Idle \/ phase # "open"

\* Close returns, whatever the connections and datagrams it meets.
CloseReturns == phase = "shut" ~> phase = "closed"
=============================================================================
