------------------------- MODULE AtomicConfiguration -------------------------
(***************************************************************************)
(* What the gateway promises about its configuration, without the core and *)
(* the locks that keep it: an operation replaces the whole configuration   *)
(* at one instant by the one it made of it, or not at all; the end of the  *)
(* process undoes no change and makes none (a power loss is not in this    *)
(* module: see UpdateTransaction); and an answer to Surge was chosen from  *)
(* one configuration, which is still in force when the answer leaves.      *)
(***************************************************************************)
CONSTANTS
    Configurations, \* the valid ones
    Operations,     \* pairs: what an operation may make of a configuration
    Offers,         \* by configuration: the list a policy path selects
    Readers

VARIABLES
    config,         \* the configuration in force, which is the durable one
    asked,          \* the configuration an operation wants in its place, if any
    sent            \* by reader: the list that is about to be sent, if any

vars == <<config, asked, sent>>

Silent == [r \in Readers |-> {}]

Init == config \in Configurations /\ asked = {} /\ sent = Silent

Ask ==
    /\ asked = {} /\ UNCHANGED <<config, sent>>
    /\ \E c \in Configurations : <<config, c>> \in Operations /\ asked' = {c}

\* Nobody is about to send what was chosen from the configuration that goes.
Replace == config' \in asked /\ sent = Silent /\ UNCHANGED <<asked, sent>>

Return == asked' = {} /\ UNCHANGED <<config, sent>>

\* Without a running core the list is empty.
Choose(r) ==
    /\ sent[r] = {} /\ UNCHANGED <<config, asked>>
    /\ \E list \in {Offers[config], <<>>} : sent' = [sent EXCEPT ![r] = {list}]

Send(r) == sent' = [sent EXCEPT ![r] = {}] /\ UNCHANGED <<config, asked>>

Crash == asked' = {} /\ sent' = Silent /\ UNCHANGED config

Next == Ask \/ Replace \/ Return \/ Crash \/ \E r \in Readers : Choose(r) \/ Send(r)

Spec == Init /\ [][Next]_vars
=============================================================================
