------------------------------ MODULE Management ------------------------------
(***************************************************************************)
(* Requests of the configuration page, several at a time                   *)
(* (internal/management/server.go, internal/gateway/policy_paths.go,       *)
(* provider_upload.go and the writers of app.go).                          *)
(*                                                                         *)
(* App.applyMu orders the changes of the configuration, but a request does *)
(* more than that: it is written from a page loaded earlier, a new HTTP    *)
(* address is bound before the change and served after it, an uploaded     *)
(* file is stored before the change and the one it replaces removed after. *)
(* Between these steps other requests run, and the process may end.        *)
(*                                                                         *)
(* GatewayCommit shows that a change is saved and published as a whole, or *)
(* not at all; here it is one step.                                        *)
(***************************************************************************)
EXTENDS Naturals, FiniteSets, Functions

CONSTANTS
    Requests,       \* requests that are served at the same time
    Addresses,      \* HTTP addresses
    Paths, Default, \* policy paths; one of them is the default one
    Console,        \* stands for the management token among the tokens' holders
    Tokens,
    Providers, Files,
    None,
    Faults,         \* "save": a change fails; "remove": a file cannot be removed
    MaxRequests     \* bound: requests sent

Holders == Paths \cup {Console}

ASSUME HoldersAssumption == Default \in Paths /\ Console \notin Paths
ASSUME FaultsAssumption == Faults \subseteq {"save", "remove"} /\ MaxRequests \in Nat

VARIABLES
    config,         \* gateway.json and App.config
    files,          \* the directory of uploads
    listener,       \* the address the server serves
    req,            \* the requests in progress
    trial,          \* the configuration a release on trial may be rolled back to
    sent,
    used,           \* auxiliary: tokens that were ever in force, for fresh ones
    retired,        \* auxiliary: tokens that were replaced or deleted, and not
                    \* set again since
    leftover,       \* auxiliary: files whose removal is left to the next start
    settled         \* auxiliary: the settings in force came from a request that
                    \* no other settings request overlapped

history == <<sent, used, retired, leftover, settled>>
vars == <<config, files, listener, req, trial, history>>

Partial(D, V) == UNION {[S -> V] : S \in SUBSET D}

Config == {c \in [bind : Addresses, token : Partial(Holders, Tokens),
                  upload : Partial(Providers, Files \cup {None})] :
              {Default, Console} \subseteq DOMAIN c.token}

\* ValidateConfig, of the tokens.
Valid(c) == IsInjective(c.token)

InForce(c) == Range(c.token)
Referenced(c) == Range(c.upload) \ {None}

With(f, x, v) == [y \in DOMAIN f \cup {x} |-> IF y = x THEN v ELSE f[y]]
Without(f, x) == Restrict(f, DOMAIN f \ {x})

\* What a request asks for.  Without a token it keeps the one in force; a
\* provider whose source is no uploaded file has none.
SettingsAsk == [kind : {"settings"}, bind : Addresses, holder : {Default, Console}, token : Tokens \cup {None}]
PathAsk ==
    [kind : {"path"}, op : {"add", "edit"}, holder : Paths, token : Tokens \cup {None}]
    \cup [kind : {"path"}, op : {"delete", "rotate"}, holder : Paths, token : {None}]
ProviderAsk ==
    [kind : {"provider"}, op : {"add", "replace", "keep", "other", "delete"}, provider : Providers, token : {None}]
Ask == SettingsAsk \cup PathAsk \cup ProviderAsk

\* step "asked": before applyMu; "saved": the configuration is changed; "failed".
\* item is the listener that was prepared, or the file that is to be removed.
Request == [ask : Ask, token : Tokens \cup {None}, step : {"asked", "saved", "failed"},
            item : Addresses \cup Files \cup {None}, alone : BOOLEAN]

ASSUME NoneAssumption == None \notin Tokens \cup Files \cup Addresses /\ None \notin Request /\ None \notin Config

At(r, step) == req[r] # None /\ req[r].step = step
Advanced(q, step, item) == [q EXCEPT !.step = step, !.item = item]
Joined(q) == [q EXCEPT !.alone = FALSE]
Done(r) == req' = [req EXCEPT ![r] = None]
Of(kind) == {r \in Requests : req[r] # None /\ req[r].ask.kind = kind}

\* UpdateProvider and DeleteProvider hold applyMu until the old file is gone.
Locked == \E r \in Of("provider") : req[r].step = "saved"

----------------------------------------------------------------------------
(* A request arrives *)

\* The token a request brings to applyMu is the one it names, and none if it names
\* none, whatever is in force then.  A policy path names what was typed into the
\* page; the settings page can also name a token it had loaded.
TokenLoaded(ask) ==
    IF ask.token = None /\ ask.kind # "provider" /\ ask.holder \in DOMAIN config.token
    THEN config.token[ask.holder] ELSE ask.token

TokenSent(ask) == ask.token

Arrived(ask, item, alone) ==
    [ask |-> ask, token |-> TokenSent(ask), step |-> "asked", item |-> item, alone |-> alone]

\* prepareHTTPRebind: a new address is bound, unless it is served already.
Prepare(r, ask) ==
    LET others == Of("settings")
        item == IF ask.bind = listener THEN None ELSE ask.bind
    IN /\ \A q \in others : item = None \/ req[q].item # item
       /\ req' = [q \in Requests |->
            IF q = r THEN Arrived(ask, item, others = {})
            ELSE IF q \in others THEN Joined(req[q]) ELSE req[q]]

\* StoreProviderUpload: the file gets a name that is not taken.
Store(r, ask) ==
    \E f \in Files \ files :
        files' = files \cup {f} /\ req' = [req EXCEPT ![r] = Arrived(ask, f, TRUE)]

\* updateGate lets nothing in while a release is on trial.
Receive(r) ==
    /\ req[r] = None /\ trial = None /\ sent < MaxRequests /\ sent' = sent + 1
    /\ \E ask \in Ask :
          IF ask.kind = "settings" THEN Prepare(r, ask) /\ UNCHANGED files
          ELSE IF ask.kind = "provider" /\ ask.op \in {"add", "replace"} THEN Store(r, ask)
          ELSE req' = [req EXCEPT ![r] = Arrived(ask, None, TRUE)] /\ UNCHANGED files
    /\ UNCHANGED <<config, listener, trial, used, retired, leftover, settled>>

----------------------------------------------------------------------------
(* It changes the configuration, under applyMu *)

Kept(holder, token) == IF token = None THEN config.token[holder] ELSE token

\* UpdateSettingsPatch
SettingsChange(ask, token) ==
    {[config EXCEPT !.bind = ask.bind, !.token = With(@, ask.holder, Kept(ask.holder, token))]}

\* AddPolicyPath, UpdatePolicyPath, DeletePolicyPath, RegeneratePolicyPathToken.
\* A random token is one that nobody ever had.
PathChange(ask, token) ==
    LET known == ask.holder \in DOMAIN config.token
        random == Tokens \ used
    IN CASE ask.op = "add" /\ ~known ->
              {[config EXCEPT !.token = With(@, ask.holder, t)] : t \in IF token = None THEN random ELSE {token}}
         [] ask.op = "edit" /\ known -> {[config EXCEPT !.token = With(@, ask.holder, Kept(ask.holder, token))]}
         [] ask.op = "rotate" /\ known -> {[config EXCEPT !.token = With(@, ask.holder, t)] : t \in random}
         [] ask.op = "delete" /\ known /\ ask.holder # Default -> {[config EXCEPT !.token = Without(@, ask.holder)]}
         [] OTHER -> {}

\* AddProvider, UpdateProvider, DeleteProvider
ProviderChange(ask, file) ==
    LET known == ask.provider \in DOMAIN config.upload
    IN CASE ask.op = (IF known THEN "replace" ELSE "add") ->
              {[config EXCEPT !.upload = With(@, ask.provider, file)]}
         [] ask.op = "keep" /\ known -> {config}
         [] ask.op = "other" -> {[config EXCEPT !.upload = With(@, ask.provider, None)]}
         [] ask.op = "delete" /\ known -> {[config EXCEPT !.upload = Without(@, ask.provider)]}
         [] OTHER -> {}

Changed(r) ==
    LET ask == req[r].ask
    IN {c \in CASE ask.kind = "settings" -> SettingsChange(ask, req[r].token)
                 [] ask.kind = "path" -> PathChange(ask, req[r].token)
                 [] ask.kind = "provider" -> ProviderChange(ask, req[r].item) : Valid(c)}

\* What the request has to do once c is in force: serve the listener it
\* prepared, remove the file its provider had.
Remaining(r, c) ==
    IF req[r].ask.kind = "provider"
    THEN Referenced(config) \ Referenced(c)
    ELSE {req[r].item} \ {None}

Commit(r) ==
    /\ At(r, "asked") /\ ~Locked
    /\ \E c \in Changed(r) :
          /\ config' = c
          /\ IF Remaining(r, c) = {} THEN Done(r)
             ELSE \E item \in Remaining(r, c) :
                    req' = [req EXCEPT ![r] = Advanced(@, "saved", item)]
          /\ used' = used \cup InForce(c)
          /\ retired' = (retired \cup (InForce(config) \ InForce(c))) \ {req[r].ask.token}
    /\ settled' = IF req[r].ask.kind = "settings" THEN req[r].alone ELSE settled
    /\ UNCHANGED <<files, listener, trial, sent, leftover>>

\* It is refused, or the change cannot be applied or saved.
RefuseServing(r) ==
    /\ At(r, "asked") /\ ~Locked
    /\ Changed(r) = {} \/ "save" \in Faults
    /\ IF req[r].item = None THEN Done(r)
       ELSE req' = [req EXCEPT ![r] = Advanced(@, IF @.ask.kind = "settings" THEN "saved" ELSE "failed", @.item)]
    /\ UNCHANGED <<config, files, listener, trial, history>>

Refuse(r) ==
    /\ At(r, "asked") /\ ~Locked
    /\ Changed(r) = {} \/ "save" \in Faults
    /\ IF req[r].item = None THEN Done(r) ELSE req' = [req EXCEPT ![r] = Advanced(@, "failed", @.item)]
    /\ UNCHANGED <<config, files, listener, trial, history>>

----------------------------------------------------------------------------
(* What is left to do after applyMu *)

\* activateHTTPRebind
Activate(r) ==
    /\ r \in Of("settings") /\ At(r, "saved")
    /\ listener' = req[r].item /\ Done(r)
    /\ UNCHANGED <<config, files, trial, history>>

CloseUnused(r) ==
    /\ r \in Of("settings") /\ At(r, "failed") /\ Done(r)
    /\ UNCHANGED <<config, files, listener, trial, history>>

\* DiscardProviderUpload, of the replaced file or of the request's own one.
Discard(r) ==
    /\ r \in Of("provider") /\ (At(r, "saved") \/ At(r, "failed"))
    /\ \/ files' = files \ {req[r].item} /\ UNCHANGED leftover
       \/ "remove" \in Faults /\ leftover' = leftover \cup {req[r].item} /\ UNCHANGED files
    /\ Done(r)
    /\ UNCHANGED <<config, listener, trial, sent, used, retired, settled>>

----------------------------------------------------------------------------
(* The process ends and starts, also as another release *)

\* reconcileProviderUploads: files no provider refers to are removed.
Cleaned(c) ==
    LET kept == Referenced(c) \cap files
    IN IF "remove" \in Faults THEN {kept \cup left : left \in SUBSET files} ELSE {kept}

CleanedAlways(c, busy) == Cleaned(c)

\* ...but not while an update may still be rolled back.
CleanedUnlessUpdating(c, busy) == IF busy THEN {files} ELSE Cleaned(c)

Start(c, busy) ==
    /\ config' = c /\ listener' = c.bind /\ files' \in CleanedUnlessUpdating(c, busy)
    /\ req' = [r \in Requests |-> None]
    /\ leftover' = files' \ Referenced(c) /\ settled' = TRUE
    /\ UNCHANGED <<sent, used, retired>>

Restart == Start(config, trial # None) /\ UNCHANGED trial

\* What the new release may make of the configuration: it may not know a source.
Migrated(c) == {[c EXCEPT !.upload = f] : f \in {f \in [DOMAIN c.upload -> Files \cup {None}] :
                                                    \A p \in DOMAIN f : f[p] \in {c.upload[p], None}}}

\* An update waits for the requests in progress, and keeps the configuration.
\* Without a service to start, nothing is tried: the new release is just started.
Try ==
    /\ trial = None /\ \A r \in Requests : req[r] = None
    /\ \E c \in Migrated(config), busy \in BOOLEAN :
          Start(c, busy) /\ trial' = IF busy THEN config ELSE None

\* The old release starts before the journal says that it is over.
RollBack == trial # None /\ Start(trial, TRUE) /\ UNCHANGED trial

Decide == trial # None /\ trial' = None /\ UNCHANGED <<config, files, listener, req, history>>

Init ==
    /\ config \in Config /\ Valid(config) /\ DOMAIN config.token = {Default, Console}
    /\ files = Referenced(config) /\ IsInjective(Restrict(config.upload, {p \in DOMAIN config.upload : config.upload[p] # None}))
    /\ listener = config.bind
    /\ req = [r \in Requests |-> None] /\ trial = None
    /\ sent = 0 /\ used = InForce(config) /\ retired = {} /\ leftover = {} /\ settled = TRUE

Next ==
    \/ \E r \in Requests : Receive(r) \/ Commit(r) \/ Refuse(r) \/ Activate(r) \/ CloseUnused(r) \/ Discard(r)
    \/ Restart \/ Try \/ RollBack \/ Decide

Spec == Init /\ [][Next]_vars

----------------------------------------------------------------------------
TypeOK ==
    /\ config \in Config /\ trial \in Config \cup {None}
    /\ files \subseteq Files /\ listener \in Addresses
    /\ req \in [Requests -> Request \cup {None}]
    /\ used \subseteq Tokens /\ retired \subseteq Tokens /\ settled \in BOOLEAN

\* A provider's uploaded file is there, and that of a configuration an update
\* may be rolled back to; a file that none refers to is some request's to
\* remove, or was left for the next start.
UploadsKept ==
    /\ Referenced(config) \subseteq files
    /\ trial # None => Referenced(trial) \subseteq files
    /\ files \ Referenced(config) \subseteq leftover \cup {req[r].item : r \in Of("provider")}

\* A token that was rotated away or deleted opens nothing again, unless a
\* request names it: no request written before the rotation brings it back.
RetiredTokens == retired \cap InForce(config) = {}

\* The server serves the configured address once no settings request is in
\* progress, unless settings requests overlapped.
ListensWhereConfigured == settled /\ Of("settings") = {} => listener = config.bind
=============================================================================
