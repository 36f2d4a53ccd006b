----------------------------- MODULE AtomicUpdate -----------------------------
(***************************************************************************)
(* What the self-update promises, without saying how: an update either     *)
(* installs its candidate or leaves the installed release in place, and no *)
(* management write is accepted, lost or undone while it is under way.     *)
(* At other times a power loss may take back the last writes.              *)
(***************************************************************************)
EXTENDS Naturals

CONSTANTS Release, Foreign

VARIABLES
    installed,  \* the release a start of the service would run
    candidate,  \* the release the last update was for
    busy,       \* an update is under way or waits for recovery
    writes      \* accepted management writes in the configuration

vars == <<installed, candidate, busy, writes>>

Init == installed = 0 /\ candidate = 0 /\ busy = FALSE /\ writes = 0

\* Updates only go up.
Begin ==
    /\ ~busy /\ busy' = TRUE
    /\ candidate' \in {r \in Release : installed = Foreign \/ r > installed}
    /\ UNCHANGED <<installed, writes>>

Commit ==
    /\ busy /\ busy' = FALSE
    /\ installed' = IF installed = Foreign THEN Foreign ELSE candidate
    /\ UNCHANGED <<candidate, writes>>

Abort == busy /\ busy' = FALSE /\ UNCHANGED <<installed, candidate, writes>>

Accept == ~busy /\ writes' = writes + 1 /\ UNCHANGED <<installed, candidate, busy>>

PowerLoss == ~busy /\ writes' \in 0 .. writes /\ UNCHANGED <<installed, candidate, busy>>

\* Somebody else replaces the executable; the update no longer answers for it.
Disturb == installed' = Foreign /\ UNCHANGED <<candidate, busy, writes>>

Next == Begin \/ Commit \/ Abort \/ Accept \/ PowerLoss \/ Disturb

Spec == Init /\ [][Next]_vars
=============================================================================
