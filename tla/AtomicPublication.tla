-------------------------- MODULE AtomicPublication --------------------------
(***************************************************************************)
(* What the gateway promises about its subscriptions, without instances,   *)
(* versions, polls and caches in the making: what is published is a view   *)
(* of all providers that was checked as a whole, it takes effect at one    *)
(* instant together with the copies kept of it, nodes and hosts of a       *)
(* subscription are of one version, and a restart publishes what was kept. *)
(* The exceptions are on record: once a failure between two renames has    *)
(* left a mixture of two views on disk, or a candidate waits without its   *)
(* cache, the copies are no longer `whole', until a start or a new         *)
(* configuration made them so.                                             *)
(***************************************************************************)
CONSTANTS
    Subscriptions,
    Views,          \* what may be published: by provider, nodes and hosts
    None

VARIABLES
    inForce,        \* the view that is published, if any
    kept,           \* by subscription: the accepted copy, or None
    whole           \* all copies are of the view that was published last, and
                    \* each subscription in it is of one version

vars == <<inForce, kept, whole>>

Copies(view) == [p \in Subscriptions |-> view[p].proxies]

\* Every copy stays, or becomes that of the view.
Mixes(view) ==
    /\ kept' = [p \in Subscriptions |-> kept'[p]]
    /\ \A p \in Subscriptions : kept'[p] \in {kept[p], view[p].proxies}

\* Nodes and hosts of every subscription are of one version.
Unmixed(view) == \A p \in Subscriptions : view[p].proxies = view[p].hosts

Init == inForce = {} /\ kept = [p \in Subscriptions |-> None] /\ whole = TRUE

\* After a stop the view is made of what was kept.
Publish == \E view \in inForce' \cap Views :
    /\ inForce = {} => \A p \in Subscriptions : kept[p] \in {None, view[p].proxies}
    /\ inForce' = {view} /\ Mixes(view)
    /\ whole => whole'
    /\ whole' => kept' = Copies(view) /\ Unmixed(view)

\* The core stops: by a failure, by a request, or with the process.
Withdraw == inForce' = {} /\ UNCHANGED <<kept, whole>>

\* Some copies were replaced, and cannot be put back.
Tear ==
    /\ whole' = FALSE /\ inForce' \in {inForce, {}}
    /\ \E view \in Views : Mixes(view)

\* A new configuration has put the cache of a waiting candidate back.
Overtake == whole' = FALSE /\ UNCHANGED <<inForce, kept>>

Next == Publish \/ Withdraw \/ Tear \/ Overtake

Spec == Init /\ [][Next]_vars
=============================================================================
