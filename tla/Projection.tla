------------------------------ MODULE Projection ------------------------------
(***************************************************************************)
(* What Surge is given to reach the nodes (internal/mihomo/projection.go): *)
(* for every node of every provider a line with a display name and a       *)
(* credential of its own, all of them at one SOCKS port.                   *)
(*                                                                         *)
(* The credential is the node's identity: it is derived from the           *)
(* projection key and the names of provider and node, and the router finds *)
(* the node by it.  The display name is what Surge tells lines apart by.   *)
(* Lines stay with Surge while the gateway publishes one projection after  *)
(* the other, and a connection is verified and routed by two lookups.      *)
(*                                                                         *)
(* A name is a sequence of parts, which the gateway joins with " · "; a    *)
(* digest is the tuple of what it is made from.                            *)
(***************************************************************************)
EXTENDS Naturals, Sequences, FiniteSets, SequencesExt

CONSTANTS
    Parts,          \* what names are made of, besides numbers
    Names,          \* names of providers and nodes
    PrefixNames,       \* what a provider may have as prefix
    Shown,          \* the part of a name that is shown for another one
    Keys,           \* projection keys
    Rules,          \* what the filter of a policy path may say
    None,
    MaxNodes,       \* bound: nodes of a provider
    MaxChanges      \* bound: projections published or refused

\* A part of a name; the numbers that tell names apart are parts as well.
Part == Parts \cup Nat

ASSUME NamesAssumption ==
    /\ Names \cup PrefixNames \subseteq Seq(Part) /\ <<>> \notin Names
    /\ \A part \in DOMAIN Shown : Shown[part] \in Parts
ASSUME RulesAssumption == \A r \in Rules : DOMAIN r = {"include", "exclude"}
ASSUME BoundsAssumption == MaxNodes \in Nat /\ MaxChanges \in Nat

VARIABLES
    source,         \* the accepted providers and the settings
    snapshot,       \* SnapshotStore.current
    lines,          \* the lines Surge fetched last
    conn,           \* a connection to the SOCKS port: its line, and the node
                    \* it was dialed through
    changes

vars == <<source, snapshot, lines, conn, changes>>

\* A node's outbound keeps its name when its parameters change.
Proxy == [name : Names, params : {1, 2}]
Nodes(params) == {s \in BoundedSeq(Proxy, MaxNodes) : \A i \in DOMAIN s : s[i].params = params}
View(names, prefixes, hidden, nodes) == [name : names, prefix : prefixes, hidden : hidden, proxies : nodes]
Options == [key : Keys, prefixed : BOOLEAN]

----------------------------------------------------------------------------
(* BuildProjection *)

\* surgeDisplayName: parts that Surge could not read are shown as others.
SurgeDisplayName(name) ==
    [i \in DOMAIN name |-> IF name[i] \in DOMAIN Shown THEN Shown[name[i]] ELSE name[i]]

\* An empty prefix stands for the provider's name.
Display(view, proxy, options) ==
    LET prefix == IF view.prefix = <<>> THEN view.name ELSE view.prefix
    IN SurgeDisplayName(IF options.prefixed THEN prefix \o proxy.name ELSE proxy.name)

IdentityShown(view, proxy, options) == <<options.key, Display(view, proxy, options)>>

\* nodeKey under the projection key: what user name and password derive from.
Identity(view, proxy, options) == <<options.key, view.name, proxy.name>>

Entry(view, proxy, options) ==
    [display |-> Display(view, proxy, options),
     username |-> <<"user", Identity(view, proxy, options)>>,
     password |-> <<"pass", Identity(view, proxy, options)>>,
     provider |-> view.name, proxy |-> proxy]

\* matchesProjection
Matches(view, proxy) == proxy.name \notin view.hidden

NumberedNext(base, first, used) == first

\* The first of several numbers that makes base a name not used before.
Numbered(base, first, used) ==
    LET free == {n \in first .. first + Cardinality(used) : Append(base, n) \notin used}
    IN CHOOSE n \in free : \A other \in free : n <= other

\* disambiguateDisplayNames: in order, a name that is taken gets a number.  The
\* numbers of a name start at 2, those of a name that was itself numbered at 0.
Named(done, entry) ==
    LET base == entry.display
        first == IF base \in DOMAIN done.next THEN done.next[base] ELSE 0
        number == Numbered(base, first, done.used)
        name == IF base \in done.used THEN Append(base, number) ELSE base
        next == IF base \in done.used THEN number + 1 ELSE 2
    IN [list |-> Append(done.list, [entry EXCEPT !.display = name]),
        used |-> done.used \cup {name},
        next |-> [n \in DOMAIN done.next \cup {base} |-> IF n = base THEN next ELSE done.next[n]]]

Disambiguated(entries) ==
    LET done[n \in 0 .. Len(entries)] ==
          IF n = 0 THEN [list |-> <<>>, used |-> {}, next |-> <<>>] ELSE Named(done[n - 1], entries[n])
    IN done[Len(entries)].list

\* The entries of the nodes of a provider that its filter leaves.
Matching(view, options) ==
    LET upTo[n \in 0 .. Len(view.proxies)] ==
          IF n = 0 THEN <<>>
          ELSE IF Matches(view, view.proxies[n]) THEN Append(upTo[n - 1], Entry(view, view.proxies[n], options))
          ELSE upTo[n - 1]
    IN upTo[Len(view.proxies)]

Projected(views, options) ==
    LET upTo[n \in 0 .. Len(views)] ==
          IF n = 0 THEN <<>> ELSE upTo[n - 1] \o Matching(views[n], options)
    IN upTo[Len(views)]

\* Two providers of one name or two nodes of one name in a provider are refused.
Refused(views, options) ==
    \/ ~IsInjective([i \in DOMAIN views |-> views[i].name])
    \/ ~IsInjective([i \in DOMAIN Projected(views, options) |-> Projected(views, options)[i].username])

BuildProjection(views, options) == Disambiguated(Projected(views, options))

----------------------------------------------------------------------------
(* The gateway publishes, Surge fetches and connects *)

\* What can change from one projection to the next: names, prefixes, filters
\* and nodes of a provider, the order and number of providers, the settings.
Edited(view) ==
    View(Names, {view.prefix}, {view.hidden}, {view.proxies})
    \cup View({view.name}, PrefixNames, {{}} \cup {{n} : n \in Names}, {view.proxies})
    \cup View({view.name}, {view.prefix}, {view.hidden}, Nodes(2))

Changed ==
    {[source EXCEPT !.views = Reverse(@)], [source EXCEPT !.views = Tail(@)]}
    \cup {[source EXCEPT !.options = o] : o \in Options}
    \cup UNION {{[source EXCEPT !.views[i] = v] : v \in Edited(source.views[i])} : i \in DOMAIN source.views}

\* A projection that cannot be built leaves the one before in force.
Publish ==
    /\ changes < MaxChanges /\ changes' = changes + 1 /\ source.views # <<>>
    /\ \E s \in Changed :
          IF Refused(s.views, s.options)
          THEN UNCHANGED <<source, snapshot>>
          ELSE source' = s /\ snapshot' = BuildProjection(s.views, s.options)
    /\ UNCHANGED <<lines, conn>>

\* FilterPolicyPathEntries, by display name: what is excluded wins.
Listed(rule) ==
    {e \in ToSet(snapshot) : (rule.include = {} \/ e.display \in rule.include) /\ e.display \notin rule.exclude}

\* formatSurgeLine; what the line is for is kept with it.
Line(entry) ==
    [display |-> entry.display, username |-> entry.username, password |-> entry.password,
     key |-> source.options.key, provider |-> entry.provider, node |-> entry.proxy.name]

Fetch ==
    /\ \E rule \in Rules : lines' = {Line(e) : e \in Listed(rule)}
    /\ UNCHANGED <<source, snapshot, conn, changes>>

\* byUser
EntryByUser(username) == {e \in ToSet(snapshot) : e.username = username}

Verify(line) == \E e \in EntryByUser(line.username) : e.password = line.password

Connect ==
    /\ conn = None
    /\ \E line \in lines : Verify(line) /\ conn' = [line |-> line, via |-> None]
    /\ UNCHANGED <<source, snapshot, lines, changes>>

\* The router looks the user up again, in the projection of that moment, and
\* refuses one it does not know any more.
Route ==
    /\ conn # None /\ conn.via = None
    /\ LET found == EntryByUser(conn.line.username)
       IN IF found = {} THEN conn' = None ELSE \E e \in found : conn' = [conn EXCEPT !.via = e]
    /\ UNCHANGED <<source, snapshot, lines, changes>>

Hangup == conn # None /\ conn.via # None /\ conn' = None /\ UNCHANGED <<source, snapshot, lines, changes>>

Init ==
    /\ \E n, m \in Names, p, q \in Nodes(1), o \in Options :
          source = [views |-> <<[name |-> n, prefix |-> <<>>, hidden |-> {}, proxies |-> p],
                                [name |-> m, prefix |-> <<>>, hidden |-> {}, proxies |-> q]>>,
                    options |-> o]
    /\ ~Refused(source.views, source.options)
    /\ snapshot = BuildProjection(source.views, source.options)
    /\ lines = {} /\ conn = None /\ changes = 0

Next == Publish \/ Fetch \/ Connect \/ Route \/ Hangup
Spec == Init /\ [][Next]_vars

----------------------------------------------------------------------------
\* No two nodes are shown under one name, whatever the names, the prefixes and
\* the numbers other names end with: Surge would keep only one of their lines.
NamesUnique == \A i, j \in DOMAIN snapshot : i # j => snapshot[i].display # snapshot[j].display

\* A line Surge has works as long as the projection key and the names of its
\* provider and node stay, whatever else changes, and no longer; a connection
\* made with it is dialed through that node.
Offered(line) ==
    /\ line.key = source.options.key
    /\ \E i \in DOMAIN source.views :
          /\ source.views[i].name = line.provider /\ line.node \notin source.views[i].hidden
          /\ \E j \in DOMAIN source.views[i].proxies : source.views[i].proxies[j].name = line.node

LinesKeepWorking ==
    /\ \A line \in lines : Verify(line) <=> Offered(line)
    /\ conn # None /\ conn.via # None =>
          conn.via.provider = conn.line.provider /\ conn.via.proxy.name = conn.line.node
=============================================================================
