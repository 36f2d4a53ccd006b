-------------------------- MODULE ManagementProofs ---------------------------
(***************************************************************************)
(* Proofs about Management, for any number of requests, policy paths,      *)
(* providers and tokens: what a change does to tokens, uploads and the     *)
(* address (the lemmas on Changed), and one inductive invariant for each   *)
(* property.                                                               *)
(***************************************************************************)
EXTENDS Management, TLAPS

\* What a request carries.
ItemOK(q) ==
    /\ q.token = q.ask.token
    /\ q.step # "asked" => q.item # None
    /\ q.ask.kind = "settings" => q.item \in {None, q.ask.bind}
    /\ q.ask.kind = "path" => q.item = None
    /\ q.ask.kind = "provider" =>
          /\ q.item \in Files \cup {None}
          /\ q.step = "asked" /\ q.item # None => q.ask.op \in {"add", "replace"}

ItemsOK == \A r \in Requests : req[r] # None => ItemOK(req[r])

\* Nothing is in progress while a release is on trial, which keeps the tokens.
TrialOK == trial # None => trial.token = config.token /\ \A r \in Requests : req[r] = None

Shape == TypeOK /\ ItemsOK /\ TrialOK

TokensOK == InForce(config) \subseteq used /\ retired \subseteq used /\ RetiredTokens

\* The file a request holds is there, nobody refers to it, and no other has it.
UploadsOK ==
    /\ UploadsKept
    /\ \A r \in Of("provider") : req[r].item # None =>
          /\ req[r].item \in files \ Referenced(config)
          /\ \A q \in Of("provider") : q # r => req[q].item # req[r].item

\* Of the settings requests one at most has a listener of the configured
\* address to serve, as long as the settings are those of a lone request.
ListenerOK ==
    /\ \A r \in Of("settings") : req[r].alone =>
          Of("settings") = {r} /\ (At(r, "asked") /\ req[r].item = None => req[r].ask.bind = listener)
    /\ settled =>
          \/ listener = config.bind /\ \A r \in Of("settings") : ~At(r, "saved")
          \/ \E r \in Of("settings") : At(r, "saved") /\ req[r].item = config.bind
                                       /\ \A q \in Of("settings") : At(q, "saved") => q = r

----------------------------------------------------------------------------
(* Partial functions and configurations *)

LEMMA PartialFunctions ==
    ASSUME NEW X, NEW T, NEW f
    PROVE  f \in Partial(X, T) <=> f \in [DOMAIN f -> T] /\ DOMAIN f \subseteq X
<1>1. ASSUME f \in Partial(X, T) PROVE f \in [DOMAIN f -> T] /\ DOMAIN f \subseteq X
  <2>1. PICK S \in SUBSET X : f \in [S -> T] BY <1>1 DEF Partial
  <2>2. DOMAIN f = S BY <2>1
  <2>. QED BY <2>1, <2>2
<1>2. ASSUME f \in [DOMAIN f -> T], DOMAIN f \subseteq X PROVE f \in Partial(X, T)
  BY <1>2 DEF Partial
<1>. QED BY <1>1, <1>2

LEMMA WithDomain == ASSUME NEW f, NEW x, NEW v PROVE DOMAIN With(f, x, v) = DOMAIN f \cup {x}
BY DEF With

LEMMA WithIn ==
    ASSUME NEW X, NEW T, NEW f \in Partial(X, T), NEW x \in X, NEW v \in T
    PROVE  With(f, x, v) \in Partial(X, T)
<1>1. f \in [DOMAIN f -> T] /\ DOMAIN f \subseteq X BY PartialFunctions
<1>2. With(f, x, v) \in [DOMAIN f \cup {x} -> T] BY <1>1 DEF With
<1>. QED BY <1>1, <1>2, WithDomain, PartialFunctions

LEMMA WithRange ==
    ASSUME NEW f, NEW x, NEW v
    PROVE  Range(With(f, x, v)) \subseteq Range(f) \cup {v}
BY DEF With, Range

LEMMA WithValue == ASSUME NEW f, NEW x, NEW v PROVE v \in Range(With(f, x, v))
BY DEF With, Range

LEMMA WithLoses == ASSUME NEW f, NEW x, NEW v PROVE Range(f) \subseteq Range(With(f, x, v)) \cup {f[x]}
BY DEF With, Range

LEMMA WithoutDomain == ASSUME NEW f, NEW x PROVE DOMAIN Without(f, x) = DOMAIN f \ {x}
BY DEF Without, Restrict

LEMMA WithoutIn ==
    ASSUME NEW X, NEW T, NEW f \in Partial(X, T), NEW x
    PROVE  Without(f, x) \in Partial(X, T)
<1>1. f \in [DOMAIN f -> T] /\ DOMAIN f \subseteq X BY PartialFunctions
<1>2. Without(f, x) \in [DOMAIN f \ {x} -> T] BY <1>1 DEF Without, Restrict
<1>. QED BY <1>1, <1>2, WithoutDomain, PartialFunctions

LEMMA WithoutRange == ASSUME NEW f, NEW x PROVE Range(Without(f, x)) \subseteq Range(f)
BY DEF Without, Restrict, Range

LEMMA WithoutLoses == ASSUME NEW f, NEW x PROVE Range(f) \subseteq Range(Without(f, x)) \cup {f[x]}
BY DEF Without, Restrict, Range

LEMMA ConfigParts ==
    ASSUME NEW c \in Config
    PROVE  /\ c.bind \in Addresses
           /\ c.token \in Partial(Holders, Tokens)
           /\ {Default, Console} \subseteq DOMAIN c.token
           /\ c.upload \in Partial(Providers, Files \cup {None})
BY DEF Config

----------------------------------------------------------------------------
(* What a request makes of the configuration *)

LEMMA SettingsChanges ==
    ASSUME config \in Config, used \subseteq Tokens,
           NEW ask \in SettingsAsk,
           NEW c \in SettingsChange(ask, ask.token)
    PROVE  /\ c \in Config /\ c.bind = ask.bind /\ c.upload = config.upload
           /\ InForce(c) \subseteq InForce(config) \cup ({ask.token} \ {None})
<1> DEFINE v == Kept(ask.holder, ask.token)
           t == With(config.token, ask.holder, v)
<1>1. ask.bind \in Addresses /\ ask.holder \in {Default, Console} /\ ask.token \in Tokens \cup {None}
  BY DEF SettingsAsk
<1>2. /\ config.token \in Partial(Holders, Tokens)
      /\ {Default, Console} \subseteq DOMAIN config.token BY ConfigParts
<1>3. config.token \in [DOMAIN config.token -> Tokens] /\ ask.holder \in DOMAIN config.token /\ ask.holder \in Holders
  BY <1>1, <1>2, PartialFunctions
<1>4. v \in Tokens /\ v \in InForce(config) \cup ({ask.token} \ {None})
  BY <1>1, <1>3 DEF Kept, InForce, Range
<1>5. c = [config EXCEPT !.bind = ask.bind, !.token = t] BY DEF SettingsChange
<1> HIDE DEF v
<1>6. t \in Partial(Holders, Tokens) BY <1>2, <1>3, <1>4, WithIn
<1>7. DOMAIN t = DOMAIN config.token \cup {ask.holder} /\ Range(t) \subseteq Range(config.token) \cup {v}
  BY WithDomain, WithRange
<1> HIDE DEF t
<1>8. c \in Config /\ c.bind = ask.bind /\ c.token = t /\ c.upload = config.upload
  BY <1>1, <1>2, <1>5, <1>6, <1>7 DEF Config
<1>. QED BY <1>4, <1>7, <1>8 DEF InForce

LEMMA PathChanges ==
    ASSUME config \in Config, used \subseteq Tokens, NEW ask \in PathAsk, NEW c \in PathChange(ask, ask.token)
    PROVE  /\ c \in Config /\ c.bind = config.bind /\ c.upload = config.upload
           /\ InForce(c) \subseteq InForce(config) \cup ({ask.token} \ {None}) \cup (Tokens \ used)
<1> DEFINE known == ask.holder \in DOMAIN config.token
           new == InForce(config) \cup ({ask.token} \ {None}) \cup (Tokens \ used)
<1>1. ask.holder \in Paths /\ ask.token \in Tokens \cup {None} /\ ask.holder \in Holders BY DEF PathAsk, Holders
<1>2. /\ config.token \in Partial(Holders, Tokens)
      /\ {Default, Console} \subseteq DOMAIN config.token BY ConfigParts
<1>3. config.token \in [DOMAIN config.token -> Tokens] BY <1>2, PartialFunctions
<1>4. ASSUME NEW v \in Tokens, v \in new, c = [config EXCEPT !.token = With(@, ask.holder, v)]
      PROVE  c \in Config /\ c.bind = config.bind /\ c.upload = config.upload /\ InForce(c) \subseteq new
  <2> DEFINE t == With(config.token, ask.holder, v)
  <2>1. t \in Partial(Holders, Tokens) BY <1>1, <1>2, WithIn
  <2>2. DOMAIN t = DOMAIN config.token \cup {ask.holder} /\ Range(t) \subseteq Range(config.token) \cup {v}
    BY WithDomain, WithRange
  <2>3. c = [config EXCEPT !.token = t] BY <1>4
  <2> HIDE DEF t
  <2>4. c \in Config /\ c.bind = config.bind /\ c.token = t /\ c.upload = config.upload
    BY <1>2, <2>1, <2>2, <2>3 DEF Config
  <2>. QED BY <1>4, <2>2, <2>4 DEF InForce
<1>5. ASSUME known, ask.holder # Default, c = [config EXCEPT !.token = Without(@, ask.holder)]
      PROVE  c \in Config /\ c.bind = config.bind /\ c.upload = config.upload /\ InForce(c) \subseteq new
  <2> DEFINE t == Without(config.token, ask.holder)
  <2>1. t \in Partial(Holders, Tokens) BY <1>2, WithoutIn
  <2>2. DOMAIN t = DOMAIN config.token \ {ask.holder} /\ Range(t) \subseteq Range(config.token)
    BY WithoutDomain, WithoutRange
  <2>3. c = [config EXCEPT !.token = t] BY <1>5
  <2> HIDE DEF t
  <2>4. {Default, Console} \subseteq DOMAIN t BY <1>1, <1>2, <1>5, <2>2, HoldersAssumption
  <2>5. c \in Config /\ c.bind = config.bind /\ c.token = t /\ c.upload = config.upload
    BY <2>1, <2>3, <2>4 DEF Config
  <2>. QED BY <2>2, <2>5 DEF InForce
<1>6. known => Kept(ask.holder, ask.token) \in Tokens /\ Kept(ask.holder, ask.token) \in new
  BY <1>1, <1>3 DEF Kept, InForce, Range
<1>7. \/ ask.op = "add" /\ ~known /\ \E t \in IF ask.token = None THEN Tokens \ used ELSE {ask.token} :
              c = [config EXCEPT !.token = With(@, ask.holder, t)]
      \/ known /\ c = [config EXCEPT !.token = With(@, ask.holder, Kept(ask.holder, ask.token))]
      \/ known /\ \E t \in Tokens \ used : c = [config EXCEPT !.token = With(@, ask.holder, t)]
      \/ known /\ ask.holder # Default /\ c = [config EXCEPT !.token = Without(@, ask.holder)]
  BY DEF PathChange
<1>. QED
  <2>1. CASE \E t \in IF ask.token = None THEN Tokens \ used ELSE {ask.token} :
              c = [config EXCEPT !.token = With(@, ask.holder, t)]
    <3>1. PICK t \in IF ask.token = None THEN Tokens \ used ELSE {ask.token} :
              c = [config EXCEPT !.token = With(@, ask.holder, t)] BY <2>1
    <3>2. t \in Tokens /\ t \in new BY <1>1, <3>1
    <3>. QED BY <1>4, <3>1, <3>2
  <2>2. CASE known /\ c = [config EXCEPT !.token = With(@, ask.holder, Kept(ask.holder, ask.token))]
    BY <1>4, <1>6, <2>2
  <2>3. CASE \E t \in Tokens \ used : c = [config EXCEPT !.token = With(@, ask.holder, t)]
    BY <1>4, <2>3
  <2>4. CASE known /\ ask.holder # Default /\ c = [config EXCEPT !.token = Without(@, ask.holder)]
    BY <1>5, <2>4
  <2>. QED BY <1>7, <2>1, <2>2, <2>3, <2>4

\* At most one file goes out of use, and only the request's own one comes in.
LosesOne(c) == \E x : Referenced(config) \subseteq Referenced(c) \cup {x}

LEMMA ProviderChanges ==
    ASSUME config \in Config, NEW ask \in ProviderAsk, NEW f \in Files \cup {None},
           f # None => ask.op \in {"add", "replace"},
           NEW c \in ProviderChange(ask, f)
    PROVE  /\ c \in Config /\ c.bind = config.bind /\ c.token = config.token
           /\ Referenced(c) \subseteq Referenced(config) \cup ({f} \ {None})
           /\ f # None => f \in Referenced(c)
           /\ LosesOne(c)
<1> DEFINE p == ask.provider
           known == p \in DOMAIN config.upload
           good == /\ c \in Config /\ c.bind = config.bind /\ c.token = config.token
                   /\ Referenced(c) \subseteq Referenced(config) \cup ({f} \ {None})
                   /\ f # None => f \in Referenced(c)
                   /\ LosesOne(c)
           having(v) == [config EXCEPT !.upload = With(@, p, v)]
<1>. SUFFICES good OBVIOUS
<1>1. p \in Providers BY DEF ProviderAsk
<1>2. config.upload \in Partial(Providers, Files \cup {None}) BY ConfigParts
<1>3. ASSUME NEW v \in Files \cup {None}, v # f => v = None /\ f = None, c = having(v)
      PROVE  good
  <2> DEFINE u == With(config.upload, p, v)
  <2>1. u \in Partial(Providers, Files \cup {None}) BY <1>1, <1>2, WithIn
  <2>2. Range(u) \subseteq Range(config.upload) \cup {v} /\ v \in Range(u) BY WithRange, WithValue
  <2>3. Range(config.upload) \subseteq Range(u) \cup {config.upload[p]} BY WithLoses
  <2>4. c = [config EXCEPT !.upload = u] BY <1>3
  <2> HIDE DEF u
  <2>5. c \in Config /\ c.bind = config.bind /\ c.token = config.token /\ c.upload = u
    BY <2>1, <2>4 DEF Config
  <2>6. Referenced(c) = Range(u) \ {None} /\ Referenced(config) = Range(config.upload) \ {None}
    BY <2>5 DEF Referenced
  <2>7. Referenced(c) \subseteq Referenced(config) \cup ({f} \ {None}) BY <1>3, <2>2, <2>6
  <2>8. f # None => f \in Referenced(c) BY <1>3, <2>2, <2>6
  <2>9. Referenced(config) \subseteq Referenced(c) \cup {config.upload[p]} BY <2>3, <2>6
  <2>10. LosesOne(c) BY <2>9, Zenon DEF LosesOne
  <2>. QED BY <2>5, <2>7, <2>8, <2>10
<1>4. ASSUME known, f = None, c = [config EXCEPT !.upload = Without(@, p)]
      PROVE  good
  <2> DEFINE u == Without(config.upload, p)
  <2>1. u \in Partial(Providers, Files \cup {None}) BY <1>2, WithoutIn
  <2>2. Range(u) \subseteq Range(config.upload) /\ Range(config.upload) \subseteq Range(u) \cup {config.upload[p]}
    BY WithoutRange, WithoutLoses
  <2>3. c = [config EXCEPT !.upload = u] BY <1>4
  <2> HIDE DEF u
  <2>4. c \in Config /\ c.bind = config.bind /\ c.token = config.token /\ c.upload = u
    BY <2>1, <2>3 DEF Config
  <2>5. Referenced(config) \subseteq Referenced(c) \cup {config.upload[p]} BY <2>2, <2>4 DEF Referenced
  <2>6. LosesOne(c) BY <2>5, Zenon DEF LosesOne
  <2>. QED BY <1>4, <2>2, <2>4, <2>6 DEF Referenced
<1>5. \/ ask.op \in {"add", "replace"} /\ c = having(f)
      \/ ask.op = "keep" /\ c = config
      \/ ask.op = "other" /\ c = having(None)
      \/ ask.op = "delete" /\ known /\ c = [config EXCEPT !.upload = Without(@, p)]
  BY DEF ProviderChange
<1> HIDE DEF good, having
<1>6. CASE ask.op \in {"add", "replace"} /\ c = having(f)
  <2>1. c = having(f) => good BY <1>3
  <2>. QED BY <1>6, <2>1
<1>7. CASE ask.op = "keep" /\ c = config
  <2>1. f = None BY <1>7
  <2>2. LosesOne(c) BY <1>7 DEF LosesOne
  <2>. QED BY <1>7, <2>1, <2>2 DEF good
<1>8. CASE ask.op = "other" /\ c = having(None)
  <2>1. f = None BY <1>8
  <2>. QED BY <1>3, <1>8, <2>1
<1>9. CASE ask.op = "delete" /\ known /\ c = [config EXCEPT !.upload = Without(@, p)]
  <2>1. f = None BY <1>9
  <2>. QED BY <1>4, <1>9, <2>1
<1>. QED BY <1>5, <1>6, <1>7, <1>8, <1>9

----------------------------------------------------------------------------
(* Requests *)

LEMMA Asked ==
    ASSUME NEW ask \in Ask
    PROVE  /\ ask.kind \in {"settings", "path", "provider"} /\ ask.token \in Tokens \cup {None}
           /\ ask.kind = "settings" => ask \in SettingsAsk /\ ask.bind \in Addresses
           /\ ask.kind = "path" => ask \in PathAsk
           /\ ask.kind = "provider" => ask \in ProviderAsk /\ ask.token = None
BY DEF Ask, SettingsAsk, PathAsk, ProviderAsk

LEMMA Fields ==
    ASSUME NEW q \in Request
    PROVE  /\ q # None /\ q.ask \in Ask /\ q.token \in Tokens \cup {None}
           /\ q.step \in {"asked", "saved", "failed"}
           /\ q.item \in Addresses \cup Files \cup {None} /\ q.alone \in BOOLEAN
BY NoneAssumption DEF Request

LEMMA AdvancedFields ==
    ASSUME NEW q \in Request, NEW step \in {"asked", "saved", "failed"}, NEW item \in Addresses \cup Files \cup {None}
    PROVE  /\ Advanced(q, step, item) \in Request /\ Advanced(q, step, item).ask = q.ask
           /\ Advanced(q, step, item).token = q.token /\ Advanced(q, step, item).step = step
           /\ Advanced(q, step, item).item = item /\ Advanced(q, step, item).alone = q.alone
BY DEF Request, Advanced

LEMMA JoinedFields ==
    ASSUME NEW q \in Request
    PROVE  /\ Joined(q) \in Request /\ Joined(q).ask = q.ask /\ Joined(q).token = q.token
           /\ Joined(q).step = q.step /\ Joined(q).item = q.item /\ Joined(q).alone = FALSE
BY DEF Request, Joined

LEMMA ArrivedFields ==
    ASSUME NEW ask \in Ask, NEW item \in Addresses \cup Files \cup {None}, NEW alone \in BOOLEAN
    PROVE  /\ Arrived(ask, item, alone) \in Request /\ Arrived(ask, item, alone).ask = ask
           /\ Arrived(ask, item, alone).token = ask.token /\ Arrived(ask, item, alone).step = "asked"
           /\ Arrived(ask, item, alone).item = item /\ Arrived(ask, item, alone).alone = alone
BY Asked DEF Request, Arrived, TokenSent

LEMMA Values ==
    ASSUME NEW c \in Config
    PROVE  InForce(c) \subseteq Tokens /\ Referenced(c) \subseteq Files
<1>1. c.token \in [DOMAIN c.token -> Tokens] /\ c.upload \in [DOMAIN c.upload -> Files \cup {None}]
  BY ConfigParts, PartialFunctions
<1>. QED BY <1>1 DEF InForce, Referenced, Range

\* What is known of a change that a request makes.
LEMMA Changes ==
    ASSUME Shape, NEW r \in Requests, At(r, "asked"), NEW c \in Changed(r)
    PROVE  /\ c \in Config
           /\ req[r].ask.kind = "settings" => c.bind = req[r].ask.bind /\ c.upload = config.upload
           /\ req[r].ask.kind = "path" => c.bind = config.bind /\ c.upload = config.upload
           /\ req[r].ask.kind = "provider" =>
                 /\ c.bind = config.bind /\ LosesOne(c)
                 /\ Referenced(c) \subseteq Referenced(config) \cup ({req[r].item} \ {None})
                 /\ req[r].item # None => req[r].item \in Referenced(c)
           /\ InForce(c) \subseteq InForce(config) \cup ({req[r].ask.token} \ {None}) \cup (Tokens \ used)
<1>1. req[r] \in Request BY DEF Shape, TypeOK, At
<1>2. req[r].ask \in Ask BY <1>1, Fields
<1>3. config \in Config /\ used \subseteq Tokens BY DEF Shape, TypeOK
<1>4. req[r] # None /\ req[r].token = req[r].ask.token BY DEF Shape, ItemsOK, ItemOK, At
<1>5. CASE req[r].ask.kind = "settings"
  <2>1. req[r].ask \in SettingsAsk BY <1>2, <1>5, Asked
  <2>2. c \in SettingsChange(req[r].ask, req[r].ask.token) BY <1>4, <1>5 DEF Changed
  <2>. QED BY <1>3, <1>5, <2>1, <2>2, SettingsChanges
<1>6. CASE req[r].ask.kind = "path"
  <2>1. req[r].ask \in PathAsk BY <1>2, <1>6, Asked
  <2>2. c \in PathChange(req[r].ask, req[r].ask.token) BY <1>4, <1>6 DEF Changed
  <2>. QED BY <1>3, <1>6, <2>1, <2>2, PathChanges
<1>7. CASE req[r].ask.kind = "provider"
  <2>1. req[r].ask \in ProviderAsk BY <1>2, <1>7, Asked
  <2>2. c \in ProviderChange(req[r].ask, req[r].item) BY <1>7 DEF Changed
  <2>3. /\ req[r].item \in Files \cup {None}
        /\ req[r].item # None => req[r].ask.op \in {"add", "replace"} BY <1>4, <1>7 DEF Shape, ItemsOK, ItemOK, At
  <2>4. /\ c \in Config /\ c.bind = config.bind /\ c.token = config.token
        /\ Referenced(c) \subseteq Referenced(config) \cup ({req[r].item} \ {None})
        /\ req[r].item # None => req[r].item \in Referenced(c)
        /\ LosesOne(c) BY <1>3, <2>1, <2>2, <2>3, ProviderChanges
  <2>. QED BY <1>7, <2>4 DEF InForce
<1>. QED BY <1>2, <1>5, <1>6, <1>7, Asked

----------------------------------------------------------------------------
(* What an action makes of the requests *)

ReqOK == req \in [Requests -> Request \cup {None}] /\ ItemsOK

Others(r) == \A q \in Requests \ {r} : req'[q] = req[q]

LEMMA DoneStep ==
    ASSUME Shape, NEW r \in Requests, Done(r)
    PROVE  ReqOK' /\ req'[r] = None /\ Others(r)
<1>1. req \in [Requests -> Request \cup {None}] BY DEF Shape, TypeOK
<1>2. req'[r] = None /\ Others(r) /\ req' \in [Requests -> Request \cup {None}]
  BY <1>1 DEF Done, Others
<1>3. ItemsOK' BY <1>2 DEF Shape, ItemsOK, Others, ItemOK
<1>. QED BY <1>2, <1>3 DEF ReqOK

LEMMA AdvanceStep ==
    ASSUME Shape, NEW r \in Requests, req[r] # None, NEW step \in {"saved", "failed"},
           NEW item \in Addresses \cup Files,
           req[r].ask.kind = "settings" => item = req[r].ask.bind,
           req[r].ask.kind # "path",
           req[r].ask.kind = "provider" => item \in Files,
           req' = [req EXCEPT ![r] = Advanced(@, step, item)]
    PROVE  /\ ReqOK' /\ Others(r) /\ req'[r] # None
           /\ req'[r].ask = req[r].ask /\ req'[r].step = step /\ req'[r].item = item
           /\ req'[r].alone = req[r].alone
<1> DEFINE q == Advanced(req[r], step, item)
<1>1. req \in [Requests -> Request \cup {None}] /\ req[r] \in Request BY DEF Shape, TypeOK
<1>2. item \in Addresses \cup Files \cup {None} /\ step \in {"asked", "saved", "failed"} OBVIOUS
<1>3. /\ q \in Request /\ q.ask = req[r].ask /\ q.token = req[r].token /\ q.step = step
      /\ q.item = item /\ q.alone = req[r].alone BY <1>1, <1>2, AdvancedFields
<1> HIDE DEF q
<1>4. req' = [req EXCEPT ![r] = q] BY DEF q
<1>5. req'[r] = q /\ Others(r) /\ req' \in [Requests -> Request \cup {None}] BY <1>1, <1>3, <1>4 DEF Others
<1>6. ItemOK(req[r]) BY DEF Shape, ItemsOK
<1>7. item # None BY NoneAssumption
<1>8. ItemOK(q) BY <1>3, <1>6, <1>7 DEF ItemOK
<1>9. ItemsOK'
  <2> SUFFICES ASSUME NEW x \in Requests, req'[x] # None PROVE ItemOK(req'[x]) BY DEF ItemsOK, ItemOK
  <2>1. CASE x = r BY <1>5, <1>8, <2>1
  <2>2. CASE x # r BY <1>5, <2>2 DEF Others, Shape, ItemsOK
  <2>. QED BY <2>1, <2>2
<1>10. q # None BY <1>3, NoneAssumption
<1>. QED BY <1>3, <1>5, <1>9, <1>10 DEF ReqOK

LEMMA ArriveStep ==
    ASSUME Shape, NEW r \in Requests, NEW ask \in Ask, NEW item \in Addresses \cup Files \cup {None},
           NEW alone \in BOOLEAN,
           ask.kind = "settings" => item \in {None, ask.bind},
           ask.kind = "path" => item = None,
           ask.kind = "provider" => item \in Files \cup {None} /\ (item # None => ask.op \in {"add", "replace"}),
           req' \in [Requests -> Request \cup {None}], req'[r] = Arrived(ask, item, alone),
           \A q \in Requests \ {r} : req'[q] = req[q] \/ (req'[q] = Joined(req[q]) /\ req[q] # None)
    PROVE  /\ ReqOK' /\ req'[r] # None /\ req'[r].ask = ask /\ req'[r].step = "asked"
           /\ req'[r].item = item /\ req'[r].alone = alone
<1>1. /\ req'[r] \in Request /\ req'[r].ask = ask /\ req'[r].token = ask.token /\ req'[r].step = "asked"
      /\ req'[r].item = item /\ req'[r].alone = alone BY ArrivedFields
<1>2. ItemOK(req'[r]) BY <1>1 DEF ItemOK
<1>3. ItemsOK'
  <2> SUFFICES ASSUME NEW x \in Requests, req'[x] # None PROVE ItemOK(req'[x]) BY DEF ItemsOK, ItemOK
  <2>1. CASE x = r BY <1>2, <2>1
  <2>2. CASE x # r /\ req'[x] = req[x] BY <2>2 DEF Shape, ItemsOK
  <2>3. CASE x # r /\ req'[x] = Joined(req[x]) /\ req[x] # None
    <3>1. req[x] \in Request /\ ItemOK(req[x]) BY <2>3 DEF Shape, TypeOK, ItemsOK
    <3>2. /\ req'[x].ask = req[x].ask /\ req'[x].token = req[x].token /\ req'[x].step = req[x].step
          /\ req'[x].item = req[x].item BY <2>3, <3>1, JoinedFields
    <3>. QED BY <3>1, <3>2 DEF ItemOK
  <2>. QED BY <2>1, <2>2, <2>3
<1>4. req'[r] # None BY <1>1, Fields
<1>. QED BY <1>1, <1>3, <1>4 DEF ReqOK

\* The three ways in which a request is received.
Receives(r, ask, item, alone) ==
    /\ req[r] = None /\ trial = None
    /\ req' \in [Requests -> Request \cup {None}] /\ req'[r] = Arrived(ask, item, alone)
    /\ ask.kind = "settings" =>
          /\ item = (IF ask.bind = listener THEN None ELSE ask.bind)
          /\ alone = (Of("settings") = {}) /\ files' = files
          /\ \A q \in Requests \ {r} : req'[q] = IF q \in Of("settings") THEN Joined(req[q]) ELSE req[q]
    /\ ask.kind # "settings" => Others(r)
    /\ ask.kind = "path" => item = None /\ files' = files
    /\ ask.kind = "provider" =>
          \/ ask.op \in {"add", "replace"} /\ item \in Files \ files /\ files' = files \cup {item}
          \/ item = None /\ files' = files
    /\ UNCHANGED <<config, listener, trial, used, retired, leftover, settled>>

LEMMA ReceiveCases ==
    ASSUME Shape, NEW r \in Requests, Receive(r)
    PROVE  \E ask \in Ask, item \in Addresses \cup Files \cup {None}, alone \in BOOLEAN :
              Receives(r, ask, item, alone)
<1> DEFINE others == Of("settings")
<1>1. req \in [Requests -> Request \cup {None}] BY DEF Shape, TypeOK
<1>2. PICK ask \in Ask : IF ask.kind = "settings" THEN Prepare(r, ask) /\ UNCHANGED files
          ELSE IF ask.kind = "provider" /\ ask.op \in {"add", "replace"} THEN Store(r, ask)
          ELSE req' = [req EXCEPT ![r] = Arrived(ask, None, TRUE)] /\ UNCHANGED files
  BY DEF Receive
<1>3. /\ req[r] = None /\ trial = None
      /\ UNCHANGED <<config, listener, trial, used, retired, leftover, settled>> BY DEF Receive
<1>4. ASSUME NEW item \in Files \cup {None}, req' = [req EXCEPT ![r] = Arrived(ask, item, TRUE)]
      PROVE  /\ req' \in [Requests -> Request \cup {None}] /\ req'[r] = Arrived(ask, item, TRUE)
             /\ Others(r)
  <2>1. item \in Addresses \cup Files \cup {None} /\ TRUE \in BOOLEAN OBVIOUS
  <2>2. Arrived(ask, item, TRUE) \in Request BY <2>1, ArrivedFields
  <2>. QED BY <1>1, <1>4, <2>2 DEF Others
<1>5. CASE ask.kind = "settings"
  <2> DEFINE item == IF ask.bind = listener THEN None ELSE ask.bind
             alone == others = {}
             arrived == Arrived(ask, item, alone)
  <2>1. ask.bind \in Addresses BY <1>5, Asked
  <2>2. item \in Addresses \cup Files \cup {None} /\ alone \in BOOLEAN BY <2>1
  <2>3. arrived \in Request BY <2>2, ArrivedFields
  <2>4. /\ req' = [q \in Requests |-> IF q = r THEN arrived ELSE IF q \in others THEN Joined(req[q]) ELSE req[q]]
        /\ files' = files BY <1>2, <1>5 DEF Prepare
  <2> HIDE DEF arrived
  <2>5. \A q \in others : Joined(req[q]) \in Request
    <3> SUFFICES ASSUME NEW q \in others PROVE Joined(req[q]) \in Request OBVIOUS
    <3>1. req[q] \in Request BY <1>1 DEF Of
    <3>. QED BY <3>1, JoinedFields
  <2>6. req' \in [Requests -> Request \cup {None}]
    <3> SUFFICES ASSUME NEW q \in Requests
                 PROVE  (IF q = r THEN arrived ELSE IF q \in others THEN Joined(req[q]) ELSE req[q])
                          \in Request \cup {None} BY <2>4
    <3>. QED BY <1>1, <2>3, <2>5
  <2>7. req'[r] = arrived BY <2>4
  <2>8. \A q \in Requests \ {r} : req'[q] = IF q \in others THEN Joined(req[q]) ELSE req[q] BY <2>4
  <2> HIDE DEF others
  <2>9. Receives(r, ask, item, alone) BY <1>3, <1>5, <2>4, <2>6, <2>7, <2>8 DEF Receives, arrived, others
  <2>. QED BY <2>2, <2>9
<1>6. CASE ask.kind = "provider" /\ ask.op \in {"add", "replace"}
  <2>1. PICK f \in Files \ files : files' = files \cup {f} /\ req' = [req EXCEPT ![r] = Arrived(ask, f, TRUE)]
    BY <1>2, <1>6 DEF Store
  <2>2. f \in Files \cup {None} BY <2>1
  <2>3. /\ req' \in [Requests -> Request \cup {None}] /\ req'[r] = Arrived(ask, f, TRUE)
        /\ Others(r) BY <1>4, <2>1, <2>2
  <2>4. Receives(r, ask, f, TRUE) BY <1>3, <1>6, <2>1, <2>3 DEF Receives
  <2>. QED BY <2>4
<1>7. CASE ask.kind # "settings" /\ ~(ask.kind = "provider" /\ ask.op \in {"add", "replace"})
  <2>1. req' = [req EXCEPT ![r] = Arrived(ask, None, TRUE)] /\ files' = files BY <1>2, <1>7
  <2>2. None \in Files \cup {None} OBVIOUS
  <2>3. /\ req' \in [Requests -> Request \cup {None}] /\ req'[r] = Arrived(ask, None, TRUE)
        /\ Others(r) BY <1>4, <2>1, <2>2
  <2>4. Receives(r, ask, None, TRUE) BY <1>3, <1>7, <2>1, <2>3 DEF Receives
  <2>. QED BY <2>4
<1>. QED BY <1>5, <1>6, <1>7

LEMMA ReceiveStep ==
    ASSUME Shape, NEW r \in Requests, NEW ask \in Ask, NEW item \in Addresses \cup Files \cup {None},
           NEW alone \in BOOLEAN, Receives(r, ask, item, alone)
    PROVE  /\ ReqOK' /\ req'[r] # None /\ req'[r].ask = ask /\ req'[r].step = "asked"
           /\ req'[r].item = item /\ req'[r].alone = alone
<1>1. req' \in [Requests -> Request \cup {None}] /\ req'[r] = Arrived(ask, item, alone) BY DEF Receives
<1>2. ask.kind = "settings" => item \in {None, ask.bind} BY DEF Receives
<1>3. ask.kind = "path" => item = None BY DEF Receives
<1>4. ask.kind = "provider" => item \in Files \cup {None} /\ (item # None => ask.op \in {"add", "replace"})
  BY DEF Receives
<1>5. \A q \in Requests \ {r} : req'[q] = req[q] \/ (req'[q] = Joined(req[q]) /\ req[q] # None)
  BY DEF Receives, Others, Of
<1>. QED BY <1>1, <1>2, <1>3, <1>4, <1>5, ArriveStep

\* What r has become, when it is not done.
Became(r, step) ==
    /\ req'[r] # None /\ req'[r].ask = req[r].ask /\ req'[r].step = step
    /\ req'[r].alone = req[r].alone

LEMMA CommitStep ==
    ASSUME Shape, NEW r \in Requests, Commit(r)
    PROVE  /\ ReqOK' /\ Others(r) /\ trial = None /\ trial' = None
           /\ \E c \in Changed(r) :
                 /\ config' = c
                 /\ \/ Remaining(r, c) = {} /\ req'[r] = None
                    \/ Became(r, "saved") /\ req'[r].item \in Remaining(r, c)
                 /\ used' = used \cup InForce(c)
                 /\ retired' = (retired \cup (InForce(config) \ InForce(c))) \ {req[r].ask.token}
<1>1. PICK c \in Changed(r) :
          /\ config' = c
          /\ IF Remaining(r, c) = {} THEN Done(r)
             ELSE \E item \in Remaining(r, c) : req' = [req EXCEPT ![r] = Advanced(@, "saved", item)]
          /\ used' = used \cup InForce(c)
          /\ retired' = (retired \cup (InForce(config) \ InForce(c))) \ {req[r].ask.token}
  BY DEF Commit
<1>2. At(r, "asked") /\ req[r] # None /\ trial' = trial BY DEF Commit, At
<1>3. trial = None BY <1>2 DEF Shape, TrialOK
<1>4. req[r] \in Request /\ ItemOK(req[r]) BY <1>2 DEF Shape, TypeOK, ItemsOK
<1>5. req[r].ask \in Ask BY <1>4, Fields
<1>6. CASE Remaining(r, c) = {}
  <2>1. ReqOK' /\ req'[r] = None /\ Others(r) BY <1>1, <1>6, DoneStep
  <2>. QED BY <1>1, <1>2, <1>3, <1>6, <2>1
<1>7. CASE Remaining(r, c) # {}
  <2>1. PICK item \in Remaining(r, c) : req' = [req EXCEPT ![r] = Advanced(@, "saved", item)] BY <1>1, <1>7
  <2>2. req[r].ask.kind = "settings" => item = req[r].ask.bind /\ item \in Addresses
    BY <1>4, <1>5, <2>1, Asked DEF Remaining, ItemOK
  <2>3. req[r].ask.kind = "provider" => item \in Files
    <3>1. Referenced(config) \subseteq Files BY Values DEF Shape, TypeOK
    <3>. QED BY <2>1, <3>1 DEF Remaining
  <2>4. req[r].ask.kind # "path" BY <1>4, <1>7 DEF Remaining, ItemOK
  <2>5. item \in Addresses \cup Files BY <1>5, <2>2, <2>3, <2>4, Asked
  <2>6. "saved" \in {"saved", "failed"} OBVIOUS
  <2>7. /\ ReqOK' /\ Others(r) /\ req'[r] # None
        /\ req'[r].ask = req[r].ask /\ req'[r].step = "saved" /\ req'[r].item = item
        /\ req'[r].alone = req[r].alone
    BY <1>2, <2>1, <2>2, <2>3, <2>4, <2>5, <2>6, AdvanceStep
  <2>. QED BY <1>1, <1>2, <1>3, <2>1, <2>7 DEF Became
<1>. QED BY <1>6, <1>7

LEMMA RefuseStep ==
    ASSUME Shape, NEW r \in Requests, Refuse(r)
    PROVE  /\ ReqOK' /\ Others(r)
           /\ \/ req'[r] = None /\ req[r].item = None
              \/ Became(r, "failed") /\ req'[r].item = req[r].item
           /\ UNCHANGED <<config, files, listener, trial, history>>
<1>1. req[r] # None /\ UNCHANGED <<config, files, listener, trial, history>> BY DEF Refuse, At
<1>2. req[r] \in Request /\ ItemOK(req[r]) BY <1>1 DEF Shape, TypeOK, ItemsOK
<1>3. req[r].ask \in Ask BY <1>2, Fields
<1>4. CASE req[r].item = None
  <2>1. ReqOK' /\ req'[r] = None /\ Others(r) BY <1>4, DoneStep DEF Refuse
  <2>. QED BY <1>1, <1>4, <2>1
<1>5. CASE req[r].item # None
  <2> DEFINE item == req[r].item
  <2>1. req' = [req EXCEPT ![r] = Advanced(@, "failed", item)] BY <1>5 DEF Refuse
  <2>2. req[r].ask.kind = "settings" => item = req[r].ask.bind BY <1>2, <1>5 DEF ItemOK
  <2>3. req[r].ask.kind = "provider" => item \in Files BY <1>2, <1>5 DEF ItemOK
  <2>4. req[r].ask.kind # "path" BY <1>2, <1>5 DEF ItemOK
  <2>5. item \in Addresses \cup Files BY <1>2, <1>5, Fields
  <2>6. "failed" \in {"saved", "failed"} OBVIOUS
  <2> HIDE DEF item
  <2>7. /\ ReqOK' /\ Others(r) /\ req'[r] # None
        /\ req'[r].ask = req[r].ask /\ req'[r].step = "failed" /\ req'[r].item = item
        /\ req'[r].alone = req[r].alone
    BY <1>1, <2>1, <2>2, <2>3, <2>4, <2>5, <2>6, AdvanceStep
  <2>. QED BY <1>1, <2>7 DEF Became, item
<1>. QED BY <1>4, <1>5

\* All requests are gone when the process starts.
LEMMA StartStep ==
    ASSUME Shape, NEW c \in Config, NEW busy \in BOOLEAN, Start(c, busy)
    PROVE  /\ ReqOK' /\ (\A r \in Requests : req'[r] = None)
           /\ config' = c /\ listener' = c.bind /\ settled' = TRUE
           /\ used' = used /\ retired' = retired
           /\ files' \subseteq files /\ Referenced(c) \cap files \subseteq files'
           /\ busy => files' = files
           /\ leftover' = files' \ Referenced(c)
<1>1. \A r \in Requests : req'[r] = None BY DEF Start
<1>2. ReqOK' BY <1>1 DEF Start, ReqOK, ItemsOK, ItemOK
<1>3. files' \in CleanedUnlessUpdating(c, busy) BY DEF Start
<1>4. CASE busy
  <2>1. files' = files BY <1>3, <1>4 DEF CleanedUnlessUpdating
  <2>. QED BY <1>1, <1>2, <1>4, <2>1 DEF Start
<1>5. CASE ~busy
  <2>1. files' \in Cleaned(c) BY <1>3, <1>5 DEF CleanedUnlessUpdating
  <2>2. files' \subseteq files /\ Referenced(c) \cap files \subseteq files' BY <2>1 DEF Cleaned
  <2>. QED BY <1>1, <1>2, <1>5, <2>2 DEF Start
<1>. QED BY <1>4, <1>5

LEMMA MigratedConfig ==
    ASSUME config \in Config, NEW c \in Migrated(config)
    PROVE  c \in Config /\ c.token = config.token /\ Referenced(c) \subseteq Referenced(config)
<1> DEFINE u == config.upload
<1>1. PICK f \in [DOMAIN u -> Files \cup {None}] :
          c = [config EXCEPT !.upload = f] /\ \A p \in DOMAIN f : f[p] \in {u[p], None}
  BY DEF Migrated
<1>2. u \in Partial(Providers, Files \cup {None}) BY ConfigParts
<1>3. DOMAIN u \subseteq Providers BY <1>2, PartialFunctions
<1>4. f \in [DOMAIN f -> Files \cup {None}] /\ DOMAIN f = DOMAIN u OBVIOUS
<1>5. f \in Partial(Providers, Files \cup {None}) BY <1>3, <1>4, PartialFunctions
<1>6. c \in Config /\ c.token = config.token /\ c.upload = f BY <1>1, <1>5 DEF Config
<1>7. Range(f) \subseteq Range(u) \cup {None} BY <1>1, <1>4 DEF Range
<1>. QED BY <1>6, <1>7 DEF Referenced

----------------------------------------------------------------------------
(* Types *)

LEMMA InitShape == Init => Shape
<1> SUFFICES ASSUME Init PROVE Shape OBVIOUS
<1>1. config \in Config /\ listener = config.bind /\ files = Referenced(config) /\ used = InForce(config)
  BY DEF Init
<1>2. \A r \in Requests : req[r] = None BY DEF Init
<1>3. TypeOK BY <1>1, Values, ConfigParts DEF Init, TypeOK
<1>. QED BY <1>2, <1>3 DEF Init, Shape, ItemsOK, TrialOK

LEMMA ReceiveShape == ASSUME Shape, NEW r \in Requests, Receive(r) PROVE Shape'
<1>1. PICK ask \in Ask, item \in Addresses \cup Files \cup {None}, alone \in BOOLEAN :
          Receives(r, ask, item, alone) BY ReceiveCases
<1>2. ReqOK' BY <1>1, ReceiveStep
<1>3. files' \subseteq Files
  <2>1. ask.kind \in {"settings", "path", "provider"} BY Asked
  <2>. QED BY <1>1, <2>1 DEF Receives, Shape, TypeOK
<1>4. UNCHANGED <<config, listener, trial, used, retired, settled>> /\ trial = None BY <1>1 DEF Receives
<1>5. TypeOK' BY <1>2, <1>3, <1>4 DEF Shape, TypeOK, ReqOK
<1>. QED BY <1>2, <1>4, <1>5 DEF Shape, ReqOK, TrialOK

LEMMA CommitShape == ASSUME Shape, NEW r \in Requests, Commit(r) PROVE Shape'
<1>1. ReqOK' /\ trial' = None BY CommitStep
<1>2. PICK c \in Changed(r) :
          /\ config' = c /\ used' = used \cup InForce(c)
          /\ retired' = (retired \cup (InForce(config) \ InForce(c))) \ {req[r].ask.token}
  BY CommitStep
<1>3. At(r, "asked") /\ UNCHANGED <<files, listener>> BY DEF Commit
<1>4. c \in Config BY <1>3, Changes
<1>5. InForce(c) \subseteq Tokens /\ InForce(config) \subseteq Tokens BY <1>4, Values DEF Shape, TypeOK
<1>6. settled' \in BOOLEAN
  <2>1. req[r].alone \in BOOLEAN BY <1>3, Fields DEF At, Shape, TypeOK
  <2>. QED BY <2>1 DEF Commit, Shape, TypeOK
<1>7. TypeOK' BY <1>1, <1>2, <1>3, <1>4, <1>5, <1>6 DEF Shape, TypeOK, ReqOK
<1>. QED BY <1>1, <1>7 DEF Shape, ReqOK, TrialOK

LEMMA RefuseShape == ASSUME Shape, NEW r \in Requests, Refuse(r) PROVE Shape'
<1>1. ReqOK' /\ UNCHANGED <<config, files, listener, trial, history>> BY RefuseStep
<1>2. req[r] # None BY DEF Refuse, At
<1>3. trial = None BY <1>2 DEF Shape, TrialOK
<1>4. TypeOK' BY <1>1 DEF Shape, TypeOK, ReqOK, history
<1>. QED BY <1>1, <1>3, <1>4 DEF Shape, ReqOK, TrialOK

LEMMA ActivateShape == ASSUME Shape, NEW r \in Requests, Activate(r) PROVE Shape'
<1>1. ReqOK' BY DoneStep DEF Activate
<1>2. UNCHANGED <<config, files, trial, history>> /\ listener' = req[r].item BY DEF Activate
<1>3. req[r] # None /\ req[r].ask.kind = "settings" /\ req[r].step = "saved" BY DEF Activate, Of, At
<1>4. trial = None BY <1>3 DEF Shape, TrialOK
<1>5. req[r] \in Request /\ ItemOK(req[r]) BY <1>3 DEF Shape, TypeOK, ItemsOK
<1>6. req[r].item = req[r].ask.bind BY <1>3, <1>5 DEF ItemOK
<1>7. listener' \in Addresses BY <1>2, <1>3, <1>5, <1>6, Fields, Asked
<1>8. TypeOK' BY <1>1, <1>2, <1>7 DEF Shape, TypeOK, ReqOK, history
<1>. QED BY <1>1, <1>2, <1>4, <1>8 DEF Shape, ReqOK, TrialOK

LEMMA CloseUnusedShape == ASSUME Shape, NEW r \in Requests, CloseUnused(r) PROVE Shape'
<1>1. ReqOK' BY DoneStep DEF CloseUnused
<1>2. UNCHANGED <<config, files, listener, trial, history>> /\ req[r] # None BY DEF CloseUnused, Of
<1>3. trial = None BY <1>2 DEF Shape, TrialOK
<1>4. TypeOK' BY <1>1, <1>2 DEF Shape, TypeOK, ReqOK, history
<1>. QED BY <1>1, <1>2, <1>3, <1>4 DEF Shape, ReqOK, TrialOK

LEMMA DiscardShape == ASSUME Shape, NEW r \in Requests, Discard(r) PROVE Shape'
<1>1. ReqOK' BY DoneStep DEF Discard
<1>2. UNCHANGED <<config, listener, trial, sent, used, retired, settled>> /\ req[r] # None BY DEF Discard, Of
<1>3. files' \subseteq files BY DEF Discard
<1>4. trial = None BY <1>2 DEF Shape, TrialOK
<1>5. TypeOK' BY <1>1, <1>2, <1>3 DEF Shape, TypeOK, ReqOK
<1>. QED BY <1>1, <1>2, <1>4, <1>5 DEF Shape, ReqOK, TrialOK

LEMMA StartShape ==
    ASSUME Shape, NEW c \in Config, NEW busy \in BOOLEAN, Start(c, busy), trial' \in Config \cup {None},
           trial' # None => trial'.token = c.token
    PROVE  Shape'
<1>1. /\ ReqOK' /\ (\A r \in Requests : req'[r] = None)
      /\ config' = c /\ listener' = c.bind /\ settled' = TRUE
      /\ used' = used /\ retired' = retired /\ files' \subseteq files
  BY StartStep
<1>2. c.bind \in Addresses BY ConfigParts
<1>3. TypeOK' BY <1>1, <1>2 DEF Shape, TypeOK, ReqOK
<1>. QED BY <1>1, <1>3 DEF Shape, ReqOK, TrialOK

LEMMA RestartShape == ASSUME Shape, Restart PROVE Shape'
<1>1. config \in Config /\ (trial # None) \in BOOLEAN /\ Start(config, trial # None) /\ trial' = trial
  BY DEF Restart, Shape, TypeOK
<1>2. trial' \in Config \cup {None} /\ (trial' # None => trial'.token = config.token)
  BY <1>1 DEF Shape, TypeOK, TrialOK
<1>. QED BY <1>1, <1>2, StartShape

LEMMA TryShape == ASSUME Shape, Try PROVE Shape'
<1>1. PICK c \in Migrated(config), busy \in BOOLEAN : Start(c, busy) /\ trial' = IF busy THEN config ELSE None
  BY DEF Try
<1>2. config \in Config BY DEF Shape, TypeOK
<1>3. c \in Config /\ c.token = config.token BY <1>2, MigratedConfig
<1>4. trial' \in Config \cup {None} /\ (trial' # None => trial'.token = c.token) BY <1>1, <1>2, <1>3
<1>. QED BY <1>1, <1>3, <1>4, StartShape

LEMMA RollBackShape == ASSUME Shape, RollBack PROVE Shape'
<1>1. Start(trial, TRUE) /\ trial' = trial /\ trial # None BY DEF RollBack
<1>2. trial \in Config /\ TRUE \in BOOLEAN BY <1>1 DEF Shape, TypeOK
<1>3. trial' \in Config \cup {None} /\ (trial' # None => trial'.token = trial.token) BY <1>1, <1>2
<1>. QED BY <1>1, <1>2, <1>3, StartShape

LEMMA DecideShape == ASSUME Shape, Decide PROVE Shape'
BY DEF Shape, Decide, TypeOK, ItemsOK, TrialOK, history, ItemOK

LEMMA IdleShape == ASSUME Shape, UNCHANGED vars PROVE Shape'
BY DEF Shape, vars, history, TypeOK, ItemsOK, TrialOK, ItemOK

LEMMA NextShape == Shape /\ [Next]_vars => Shape'
<1> SUFFICES ASSUME Shape, [Next]_vars PROVE Shape' OBVIOUS
<1>1. CASE \E r \in Requests : Receive(r) BY <1>1, ReceiveShape
<1>2. CASE \E r \in Requests : Commit(r) BY <1>2, CommitShape
<1>3. CASE \E r \in Requests : Refuse(r) BY <1>3, RefuseShape
<1>4. CASE \E r \in Requests : Activate(r) BY <1>4, ActivateShape
<1>5. CASE \E r \in Requests : CloseUnused(r) BY <1>5, CloseUnusedShape
<1>6. CASE \E r \in Requests : Discard(r) BY <1>6, DiscardShape
<1>7. CASE Restart \/ Try \/ RollBack \/ Decide
  BY <1>7, RestartShape, TryShape, RollBackShape, DecideShape
<1>8. CASE UNCHANGED vars BY <1>8, IdleShape
<1>. QED BY <1>1, <1>2, <1>3, <1>4, <1>5, <1>6, <1>7, <1>8 DEF Next

\* Every state has the declared shape, whatever the requests, restarts and
\* updates in progress.
THEOREM TypeCorrect == Spec => []TypeOK
<1>1. Init => Shape BY InitShape
<1>2. Shape /\ [Next]_vars => Shape' BY NextShape
<1>3. Shape => TypeOK BY DEF Shape
<1>. QED BY <1>1, <1>2, <1>3, PTL DEF Spec

----------------------------------------------------------------------------
(* Tokens *)

LEMMA InitTokens == Init => TokensOK
BY DEF Init, TokensOK, RetiredTokens

LEMMA CommitTokens == ASSUME Shape, TokensOK, NEW r \in Requests, Commit(r) PROVE TokensOK'
<1>1. PICK c \in Changed(r) :
          /\ config' = c /\ used' = used \cup InForce(c)
          /\ retired' = (retired \cup (InForce(config) \ InForce(c))) \ {req[r].ask.token}
  BY CommitStep
<1>2. At(r, "asked") BY DEF Commit
<1>3. InForce(c) \subseteq InForce(config) \cup ({req[r].ask.token} \ {None}) \cup (Tokens \ used)
  BY <1>2, Changes
<1>4. InForce(config)' = InForce(c) BY <1>1 DEF InForce
<1>5. retired \subseteq used /\ InForce(config) \subseteq used /\ retired \cap InForce(config) = {}
  BY DEF TokensOK, RetiredTokens
<1>6. (InForce(config)' \subseteq used') /\ (retired' \subseteq used') BY <1>1, <1>4, <1>5
<1>7. retired' \cap InForce(config)' = {}
  <2> SUFFICES ASSUME NEW x \in retired', x \in InForce(c) PROVE FALSE BY <1>4
  <2>1. x # req[r].ask.token /\ (x \in retired \/ x \notin InForce(c)) BY <1>1
  <2>. QED BY <1>3, <1>5, <2>1
<1>. QED BY <1>6, <1>7 DEF TokensOK, RetiredTokens

\* Nothing but a change of the configuration touches tokens.
LEMMA KeptTokens ==
    ASSUME TokensOK, config'.token = config.token, UNCHANGED <<used, retired>>
    PROVE  TokensOK'
BY DEF TokensOK, RetiredTokens, InForce

LEMMA StartTokens ==
    ASSUME Shape, TokensOK, Restart \/ Try \/ RollBack
    PROVE  TokensOK'
<1>1. PICK c \in Config, busy \in BOOLEAN : Start(c, busy) /\ c.token = config.token
  <2>1. config \in Config /\ (trial # None) \in BOOLEAN /\ TRUE \in BOOLEAN BY DEF Shape, TypeOK
  <2>2. CASE Restart BY <2>1, <2>2 DEF Restart
  <2>3. CASE Try
    <3>1. PICK c \in Migrated(config), busy \in BOOLEAN : Start(c, busy) BY <2>3 DEF Try
    <3>2. c \in Config /\ c.token = config.token BY <2>1, MigratedConfig
    <3>. QED BY <3>1, <3>2
  <2>4. CASE RollBack
    <3>1. trial \in Config /\ trial.token = config.token BY <2>4 DEF RollBack, Shape, TypeOK, TrialOK
    <3>. QED BY <2>1, <2>4, <3>1 DEF RollBack
  <2>. QED BY <2>2, <2>3, <2>4
<1>. QED BY <1>1, KeptTokens DEF Start

LEMMA NextTokens == Shape /\ TokensOK /\ [Next]_vars => TokensOK'
<1> SUFFICES ASSUME Shape, TokensOK, [Next]_vars PROVE TokensOK' OBVIOUS
<1>1. CASE \E r \in Requests : Commit(r) BY <1>1, CommitTokens
<1>2. CASE Restart \/ Try \/ RollBack BY <1>2, StartTokens
<1>3. CASE \E r \in Requests : Receive(r) \/ Refuse(r) \/ Activate(r) \/ CloseUnused(r) \/ Discard(r)
  BY <1>3, KeptTokens DEF Receive, Refuse, Activate, CloseUnused, Discard, history
<1>4. CASE Decide \/ UNCHANGED vars BY <1>4, KeptTokens DEF Decide, vars, history
<1>. QED BY <1>1, <1>2, <1>3, <1>4 DEF Next

\* A token that was rotated away or deleted opens nothing again, unless a
\* request names it, however requests overlap with restarts and updates.
THEOREM RetiredForGood == Spec => []RetiredTokens
<1>1. Init => Shape /\ TokensOK BY InitShape, InitTokens
<1>2. Shape /\ TokensOK /\ [Next]_vars => Shape' /\ TokensOK' BY NextShape, NextTokens
<1>3. TokensOK => RetiredTokens BY DEF TokensOK
<1>. QED BY <1>1, <1>2, <1>3, PTL DEF Spec

----------------------------------------------------------------------------
(* The address that is served *)

LEMMA InitListener == Init => ListenerOK
BY DEF Init, ListenerOK, Of, At

\* A step of a request that is not about settings.
LEMMA ElsewhereListener ==
    ASSUME ListenerOK, NEW r \in Requests, Others(r),
           req[r] = None \/ req[r].ask.kind # "settings",
           req'[r] = None \/ req'[r].ask.kind # "settings",
           config'.bind = config.bind, UNCHANGED <<listener, settled>>
    PROVE  ListenerOK'
<1>1. Of("settings")' = Of("settings") /\ \A q \in Of("settings") : req'[q] = req[q]
  BY DEF Others, Of
<1>. QED BY <1>1 DEF ListenerOK, At

LEMMA ReceiveListener == ASSUME Shape, ListenerOK, NEW r \in Requests, Receive(r) PROVE ListenerOK'
<1> DEFINE others == Of("settings")
<1>1. PICK ask \in Ask, item \in Addresses \cup Files \cup {None}, alone \in BOOLEAN :
          Receives(r, ask, item, alone) BY ReceiveCases
<1>2. /\ req'[r] # None /\ req'[r].ask = ask /\ req'[r].step = "asked"
      /\ req'[r].item = item /\ req'[r].alone = alone BY <1>1, ReceiveStep
<1>3. req[r] = None /\ UNCHANGED <<config, listener, settled>> BY <1>1 DEF Receives
<1>4. CASE ask.kind # "settings"
  <2>1. Others(r) BY <1>1, <1>4 DEF Receives
  <2>. QED BY <1>2, <1>3, <1>4, <2>1, ElsewhereListener
<1>5. CASE ask.kind = "settings"
  <2>1. /\ item = (IF ask.bind = listener THEN None ELSE ask.bind)
        /\ alone = (others = {})
        /\ \A q \in Requests \ {r} : req'[q] = IF q \in others THEN Joined(req[q]) ELSE req[q]
    BY <1>1, <1>5 DEF Receives
  <2>2. ASSUME NEW q \in others
        PROVE  q # r /\ req'[q] # None /\ req'[q].ask = req[q].ask /\ req'[q].step = req[q].step
               /\ req'[q].item = req[q].item /\ req'[q].alone = FALSE
    <3>1. q \in Requests /\ q # r /\ req[q] # None BY <1>3 DEF Of
    <3>2. req[q] \in Request BY <3>1 DEF Shape, TypeOK
    <3>3. req'[q] = Joined(req[q]) BY <2>1, <3>1
    <3>. QED BY <3>1, <3>2, <3>3, JoinedFields, Fields
  <2>3. Of("settings")' = others \cup {r}
    <3>1. ASSUME NEW q \in Requests \ {r} PROVE q \in Of("settings")' <=> q \in others
      <4>1. CASE q \in others
        <5>1. req'[q] # None /\ req'[q].ask.kind = "settings" BY <2>2, <4>1 DEF Of
        <5>. QED BY <3>1, <4>1, <5>1 DEF Of
      <4>2. CASE q \notin others
        <5>1. req'[q] = req[q] BY <2>1, <3>1, <4>2
        <5>. QED BY <3>1, <4>2, <5>1 DEF Of
      <4>. QED BY <4>1, <4>2
    <3>2. r \in Of("settings")' /\ r \notin others BY <1>2, <1>3, <1>5 DEF Of
    <3>3. Of("settings")' \subseteq Requests /\ others \subseteq Requests BY DEF Of
    <3>. HIDE DEF others
    <3>. QED BY <3>1, <3>2, <3>3
  <2>4. \A q \in Of("settings")' : At(q, "saved")' <=> (q \in others /\ At(q, "saved"))
    BY <1>2, <2>2, <2>3 DEF At, Of
  <2>5. ASSUME NEW q \in Of("settings")', req'[q].alone
        PROVE  Of("settings")' = {q} /\ (At(q, "asked")' /\ req'[q].item = None => req'[q].ask.bind = listener')
    <3>1. q = r BY <2>2, <2>3, <2>5
    <3>2. others = {} BY <1>2, <2>1, <2>5, <3>1
    <3>3. item = None => ask.bind = listener
      <4>1. ask.bind \in Addresses BY <1>5, Asked
      <4>. QED BY <2>1, <4>1, NoneAssumption
    <3>. QED BY <1>2, <1>3, <2>3, <3>1, <3>2, <3>3
  <2>6. settled' => \/ listener' = config'.bind /\ \A q \in Of("settings")' : ~At(q, "saved")'
                    \/ \E q \in Of("settings")' : At(q, "saved")' /\ req'[q].item = config'.bind
                                       /\ \A x \in Of("settings")' : At(x, "saved")' => x = q
    <3>1. CASE settled /\ listener = config.bind /\ \A q \in others : ~At(q, "saved")
      BY <1>3, <2>4, <3>1
    <3>2. CASE settled /\ \E q \in others : At(q, "saved") /\ req[q].item = config.bind
                                  /\ \A x \in others : At(x, "saved") => x = q
      <4>1. PICK q \in others : At(q, "saved") /\ req[q].item = config.bind
                             /\ \A x \in others : At(x, "saved") => x = q BY <3>2
      <4>2. q \in Of("settings")' /\ At(q, "saved")' /\ req'[q].item = config'.bind
        BY <1>3, <2>2, <2>3, <2>4, <4>1
      <4>3. \A x \in Of("settings")' : At(x, "saved")' => x = q BY <2>4, <4>1
      <4>. QED BY <4>2, <4>3
    <3>. QED BY <1>3, <3>1, <3>2 DEF ListenerOK
  <2>. QED BY <2>5, <2>6 DEF ListenerOK
<1>. QED BY <1>4, <1>5

\* A request that goes on was not alone with another, and is the only one that
\* was, if it was.
LEMMA AloneKept ==
    ASSUME ListenerOK, NEW r \in Of("settings"), Others(r),
           req'[r] = None \/ (Became(r, "saved") \/ Became(r, "failed")), NEW q \in Of("settings")', req'[q].alone
    PROVE  q = r /\ req'[r] # None /\ req[r].alone /\ Of("settings")' = {r} /\ ~At(q, "asked")'
<1>1. r \in Requests /\ req[r] # None /\ q \in Requests /\ req'[q] # None /\ req'[q].ask.kind = "settings" BY DEF Of
<1>2. CASE q # r
  <2>1. req'[q] = req[q] BY <1>1, <1>2 DEF Others
  <2>2. q \in Of("settings") /\ req[q].alone BY <1>1, <2>1 DEF Of
  <2>. QED BY <1>2, <2>2 DEF ListenerOK
<1>3. CASE q = r
  <2>1. req[r].alone /\ (Became(r, "saved") \/ Became(r, "failed")) BY <1>1, <1>3 DEF Became
  <2>2. Of("settings") = {r} BY <2>1 DEF ListenerOK
  <2>3. Of("settings")' = {r} BY <1>1, <1>3, <2>2 DEF Of, Others
  <2>. QED BY <1>1, <1>3, <2>1, <2>3 DEF At, Became
<1>. QED BY <1>2, <1>3

LEMMA CommitListener == ASSUME Shape, ListenerOK, NEW r \in Requests, Commit(r) PROVE ListenerOK'
<1>1. PICK c \in Changed(r) :
          /\ config' = c
          /\ \/ Remaining(r, c) = {} /\ req'[r] = None
             \/ Became(r, "saved") /\ req'[r].item \in Remaining(r, c)
  BY CommitStep
<1>2. Others(r) BY CommitStep
<1>3. At(r, "asked") /\ listener' = listener /\ settled' = (IF req[r].ask.kind = "settings" THEN req[r].alone ELSE settled)
  BY DEF Commit
<1>4. req[r] \in Request /\ req[r] # None /\ ItemOK(req[r]) BY <1>3 DEF At, Shape, TypeOK, ItemsOK
<1>5. req[r].ask.kind \in {"settings", "path", "provider"} BY <1>4, Fields, Asked
<1>6. CASE req[r].ask.kind # "settings"
  <2>1. c.bind = config.bind BY <1>3, <1>5, <1>6, Changes
  <2>2. req'[r] = None \/ req'[r].ask.kind # "settings" BY <1>1, <1>6 DEF Became
  <2>3. config'.bind = config.bind /\ UNCHANGED <<listener, settled>> BY <1>1, <1>3, <1>6, <2>1
  <2>. QED BY <1>2, <1>6, <2>2, <2>3, ElsewhereListener
<1>7. CASE req[r].ask.kind = "settings"
  <2>1. r \in Of("settings") BY <1>4, <1>7 DEF Of
  <2>2. c.bind = req[r].ask.bind BY <1>3, <1>7, Changes
  <2>3. Remaining(r, c) = {req[r].item} \ {None} BY <1>7 DEF Remaining
  <2>4. req[r].item \in {None, req[r].ask.bind} BY <1>4, <1>7 DEF ItemOK
  <2>5. \A q \in Of("settings")' : req'[q].alone =>
          q = r /\ req'[r] # None /\ Of("settings")' = {r} /\ ~At(q, "asked")'
    BY <1>1, <1>2, <2>1, AloneKept
  <2>6. ASSUME settled'
        PROVE  \/ listener' = config'.bind /\ \A q \in Of("settings")' : ~At(q, "saved")'
               \/ \E q \in Of("settings")' : At(q, "saved")' /\ req'[q].item = config'.bind
                                       /\ \A x \in Of("settings")' : At(x, "saved")' => x = q
    <3>1. req[r].alone BY <1>3, <1>7, <2>6
    <3>2. Of("settings") = {r} /\ (req[r].item = None => req[r].ask.bind = listener)
      BY <1>3, <2>1, <3>1 DEF ListenerOK
    <3>3. Of("settings")' \subseteq {r} BY <1>2, <3>2 DEF Of, Others
    <3>4. CASE req'[r] = None
      <4>1. Of("settings")' = {} BY <3>3, <3>4 DEF Of
      <4>2. req[r].item = None \/ req'[r] # None BY <1>1, <2>3 DEF Became
      <4>. QED BY <1>1, <1>3, <2>2, <3>2, <3>4, <4>1, <4>2
    <3>5. CASE Became(r, "saved") /\ req'[r].item \in Remaining(r, c)
      <4>1. r \in Of("settings")' /\ At(r, "saved")' BY <1>7, <3>5 DEF Of, At, Became
      <4>2. req'[r].item = config'.bind BY <1>1, <2>2, <2>3, <2>4, <3>5
      <4>. QED BY <3>3, <4>1, <4>2
    <3>. QED BY <1>1, <3>4, <3>5
  <2>. QED BY <2>5, <2>6 DEF ListenerOK
<1>. QED BY <1>6, <1>7

\* A settings request ends or is refused, without a change.
LEMMA LeftListener ==
    ASSUME ListenerOK, NEW r \in Of("settings"), ~At(r, "saved"), Others(r),
           req'[r] = None \/ Became(r, "failed"), UNCHANGED <<config, listener, settled>>
    PROVE  ListenerOK'
<1>1. r \in Requests /\ req[r] # None BY DEF Of
<1>2. \A q \in Of("settings")' : req'[q].alone =>
        q = r /\ req'[r] # None /\ Of("settings")' = {r} /\ ~At(q, "asked")' BY AloneKept
<1>3. \A q \in Requests : (q \in Of("settings")' /\ At(q, "saved")') <=> (q \in Of("settings") /\ At(q, "saved"))
  BY DEF Of, At, Others, Became
<1>4. \A q \in Of("settings") : At(q, "saved") => req'[q] = req[q] BY DEF Of, Others
<1>5. Of("settings") \subseteq Requests /\ Of("settings")' \subseteq Requests BY DEF Of
<1>6. settled' => \/ listener' = config'.bind /\ \A q \in Of("settings")' : ~At(q, "saved")'
                  \/ \E q \in Of("settings")' : At(q, "saved")' /\ req'[q].item = config'.bind
                                       /\ \A x \in Of("settings")' : At(x, "saved")' => x = q
  BY <1>3, <1>4, <1>5 DEF ListenerOK
<1>. QED BY <1>2, <1>6 DEF ListenerOK

LEMMA RefuseListener == ASSUME Shape, ListenerOK, NEW r \in Requests, Refuse(r) PROVE ListenerOK'
<1>1. /\ Others(r) /\ (req'[r] = None \/ Became(r, "failed"))
      /\ UNCHANGED <<config, files, listener, trial, history>> BY RefuseStep
<1>2. At(r, "asked") /\ req[r] # None BY DEF Refuse, At
<1>3. CASE req[r].ask.kind = "settings"
  <2>1. r \in Of("settings") /\ ~At(r, "saved") BY <1>2, <1>3 DEF Of, At
  <2>. QED BY <1>1, <2>1, LeftListener DEF history
<1>4. CASE req[r].ask.kind # "settings"
  BY <1>1, <1>4, ElsewhereListener DEF Became, history
<1>. QED BY <1>3, <1>4

LEMMA ActivateListener == ASSUME Shape, ListenerOK, NEW r \in Requests, Activate(r) PROVE ListenerOK'
<1>1. r \in Of("settings") /\ At(r, "saved") /\ listener' = req[r].item /\ UNCHANGED <<config, settled>>
  BY DEF Activate, history
<1>2. req'[r] = None /\ Others(r) BY DoneStep DEF Activate
<1>3. \A q \in Of("settings")' : ~req'[q].alone BY <1>1, <1>2, AloneKept
<1>4. settled => req[r].item = config.bind /\ \A q \in Of("settings") : At(q, "saved") => q = r
  BY <1>1 DEF ListenerOK
<1>5. settled => \A q \in Of("settings")' : ~At(q, "saved")' BY <1>2, <1>4 DEF Of, At, Others
<1>. QED BY <1>1, <1>3, <1>4, <1>5 DEF ListenerOK

LEMMA StartListener ==
    ASSUME Shape, Restart \/ Try \/ RollBack
    PROVE  ListenerOK'
<1>1. \E c, busy : Start(c, busy) BY DEF Restart, Try, RollBack
<1>2. listener' = config'.bind /\ \A r \in Requests : req'[r] = None BY <1>1 DEF Start
<1>3. Of("settings")' = {} BY <1>2 DEF Of
<1>. QED BY <1>2, <1>3 DEF ListenerOK

LEMMA NextListener == Shape /\ ListenerOK /\ [Next]_vars => ListenerOK'
<1> SUFFICES ASSUME Shape, ListenerOK, [Next]_vars PROVE ListenerOK' OBVIOUS
<1>1. CASE \E r \in Requests : Receive(r) BY <1>1, ReceiveListener
<1>2. CASE \E r \in Requests : Commit(r) BY <1>2, CommitListener
<1>3. CASE \E r \in Requests : Refuse(r) BY <1>3, RefuseListener
<1>4. CASE \E r \in Requests : Activate(r) BY <1>4, ActivateListener
<1>5. ASSUME NEW r \in Requests, CloseUnused(r) PROVE ListenerOK'
  <2>1. r \in Of("settings") /\ ~At(r, "saved") /\ UNCHANGED <<config, listener, settled>>
    BY <1>5 DEF CloseUnused, At, history
  <2>2. req'[r] = None /\ Others(r) BY <1>5, DoneStep DEF CloseUnused
  <2>. QED BY <2>1, <2>2, LeftListener
<1>6. ASSUME NEW r \in Requests, Discard(r) PROVE ListenerOK'
  <2>1. req[r] # None /\ req[r].ask.kind # "settings" /\ UNCHANGED <<config, listener, settled>>
    BY <1>6 DEF Discard, Of
  <2>2. req'[r] = None /\ Others(r) BY <1>6, DoneStep DEF Discard
  <2>. QED BY <2>1, <2>2, ElsewhereListener
<1>7. CASE Restart \/ Try \/ RollBack BY <1>7, StartListener
<1>8. CASE Decide \/ UNCHANGED vars BY <1>8 DEF Decide, vars, history, ListenerOK, Of, At
<1>. QED BY <1>1, <1>2, <1>3, <1>4, <1>5, <1>6, <1>7, <1>8 DEF Next

\* The server serves the configured address once no settings request is in
\* progress, unless settings requests overlapped.
THEOREM ServesConfigured == Spec => []ListensWhereConfigured
<1>1. Init => Shape /\ ListenerOK BY InitShape, InitListener
<1>2. Shape /\ ListenerOK /\ [Next]_vars => Shape' /\ ListenerOK' BY NextShape, NextListener
<1>3. ListenerOK => ListensWhereConfigured BY DEF ListenerOK, ListensWhereConfigured
<1>. QED BY <1>1, <1>2, <1>3, PTL DEF Spec

----------------------------------------------------------------------------
(* Uploads *)

\* What UploadsOK says of the files that no provider refers to.
Owned == files \ Referenced(config) \subseteq leftover \cup {req[r].item : r \in Of("provider")}

Held ==
    \A r \in Of("provider") : req[r].item # None =>
        /\ req[r].item \in files \ Referenced(config)
        /\ \A q \in Of("provider") : q # r => req[q].item # req[r].item

LEMMA UploadsParts ==
    UploadsOK <=> /\ Referenced(config) \subseteq files
                  /\ trial # None => Referenced(trial) \subseteq files
                  /\ Owned /\ Held
BY DEF UploadsOK, UploadsKept, Owned, Held

\* Each of them is left over or held by a request.
LEMMA OwnedBy ==
    Owned <=> \A x \in files \ Referenced(config) :
                 x \in leftover \/ \E r \in Of("provider") : req[r].item = x
BY DEF Owned

LEMMA InitUploads == Init => UploadsOK
BY DEF Init, UploadsOK, UploadsKept, Of

\* A step of a request that is not about a provider.
LEMMA ElsewhereUploads ==
    ASSUME UploadsOK, NEW r \in Requests, Others(r), trial' = None,
           req[r] = None \/ req[r].ask.kind # "provider",
           req'[r] = None \/ req'[r].ask.kind # "provider",
           config'.upload = config.upload, UNCHANGED <<files, leftover>>
    PROVE  UploadsOK'
<1>1. Of("provider")' = Of("provider") /\ \A q \in Of("provider") : req'[q] = req[q]
  BY DEF Others, Of
<1>2. Referenced(config)' = Referenced(config) BY DEF Referenced
<1>3. Referenced(config) \subseteq files /\ Owned /\ Held BY UploadsParts
<1>4. Owned'
  <2>1. \A x \in files' \ Referenced(config)' :
           x \in leftover' \/ \E q \in Of("provider")' : req'[q].item = x BY <1>1, <1>2, <1>3, OwnedBy
  <2>. QED BY <2>1, OwnedBy DEF Owned
<1>5. Held' BY <1>1, <1>2, <1>3 DEF Held
<1>. QED BY <1>2, <1>3, <1>4, <1>5 DEF UploadsOK, UploadsKept, Owned, Held

LEMMA NoneIsNoFile == ASSUME Shape PROVE None \notin files /\ None \notin Referenced(config)
BY NoneAssumption DEF Shape, TypeOK, Referenced

LEMMA ReceiveUploads == ASSUME Shape, UploadsOK, NEW r \in Requests, Receive(r) PROVE UploadsOK'
<1>1. PICK ask \in Ask, item \in Addresses \cup Files \cup {None}, alone \in BOOLEAN :
          Receives(r, ask, item, alone) BY ReceiveCases
<1>2. req'[r] # None /\ req'[r].ask = ask /\ req'[r].item = item BY <1>1, ReceiveStep
<1>3. req[r] = None /\ trial' = None /\ UNCHANGED <<config, leftover>> BY <1>1 DEF Receives
<1>4. ask.kind \in {"settings", "path", "provider"} BY Asked
<1>5. Referenced(config)' = Referenced(config) BY <1>3 DEF Referenced
<1>6. Referenced(config) \subseteq files /\ Owned /\ Held BY UploadsParts
<1>7. CASE ask.kind = "settings"
  <2>1. /\ \A q \in Requests \ {r} : req'[q] = IF q \in Of("settings") THEN Joined(req[q]) ELSE req[q]
        /\ files' = files
    BY <1>1, <1>7 DEF Receives
  <2>2. ASSUME NEW q \in Requests, q \in Of("provider") \/ q \in Of("provider")'
        PROVE  q \in Of("provider") /\ q \in Of("provider")' /\ req'[q] = req[q]
    <3>1. q # r /\ (q \in Of("settings") \/ req'[q] = req[q]) BY <1>2, <1>3, <1>7, <2>1, <2>2 DEF Of
    <3>2. CASE q \in Of("settings")
      <4>1. req[q] \in Request /\ req'[q] = Joined(req[q]) BY <2>1, <3>1, <3>2 DEF Of, Shape, TypeOK
      <4>2. req'[q].ask = req[q].ask BY <4>1, JoinedFields
      <4>. QED BY <2>2, <3>2, <4>2 DEF Of
    <3>. QED BY <2>2, <3>1, <3>2 DEF Of
  <2>3. Of("provider")' = Of("provider") /\ \A q \in Of("provider") : req'[q] = req[q] BY <2>2 DEF Of
  <2>4. \A x \in files' \ Referenced(config)' :
           x \in leftover' \/ \E q \in Of("provider")' : req'[q].item = x BY <1>3, <1>5, <1>6, <2>1, <2>3, OwnedBy
  <2>5. Owned' BY <2>4, OwnedBy DEF Owned
  <2>6. Held' BY <1>5, <1>6, <2>1, <2>3 DEF Held
  <2>. QED BY <1>3, <1>5, <1>6, <2>1, <2>5, <2>6 DEF UploadsOK, UploadsKept, Owned, Held
<1>8. CASE ask.kind = "path"
  <2>1. Others(r) /\ files' = files BY <1>1, <1>8 DEF Receives
  <2>2. config'.upload = config.upload /\ req'[r].ask.kind # "provider" BY <1>2, <1>3, <1>8
  <2>. QED BY <1>3, <2>1, <2>2, ElsewhereUploads
<1>9. CASE ask.kind = "provider"
  <2>1. Others(r) /\ \/ item \in Files \ files /\ files' = files \cup {item}
                     \/ item = None /\ files' = files
    BY <1>1, <1>9 DEF Receives
  <2>2. Of("provider")' = Of("provider") \cup {r} /\ r \notin Of("provider")
    BY <1>2, <1>3, <1>9, <2>1 DEF Of, Others
  <2>3. \A q \in Of("provider") : req'[q] = req[q] BY <2>1, <2>2 DEF Of, Others
  <2>4. \A x \in files' \ Referenced(config)' :
           x \in leftover' \/ \E q \in Of("provider")' : req'[q].item = x
    BY <1>2, <1>3, <1>5, <1>6, <2>1, <2>2, <2>3, OwnedBy
  <2>5. Owned' BY <2>4, OwnedBy DEF Owned
  <2>6. ASSUME NEW p \in Of("provider")', req'[p].item # None
        PROVE  /\ req'[p].item \in files' \ Referenced(config)'
               /\ \A q \in Of("provider")' : q # p => req'[q].item # req'[p].item
    <3>1. \A q \in Of("provider") : req[q].item # None => req[q].item \in files \ Referenced(config)
      BY <1>6 DEF Held
    <3>2. CASE p = r
      <4>1. item \in Files \ files /\ files' = files \cup {item} BY <1>2, <2>1, <2>6, <3>2
      <4>2. item # None BY <4>1, NoneAssumption
      <4>. QED BY <1>2, <1>5, <1>6, <2>2, <2>3, <3>1, <3>2, <4>1, <4>2
    <3>3. CASE p # r
      <4>1. p \in Of("provider") /\ req'[p] = req[p] BY <2>2, <2>3, <3>3
      <4>2. req[p].item \in files \ Referenced(config) /\ \A q \in Of("provider") : q # p => req[q].item # req[p].item
        BY <1>6, <2>6, <4>1 DEF Held
      <4>3. item # req[p].item BY <2>1, <2>6, <4>1, <4>2
      <4>. QED BY <1>2, <1>5, <2>1, <2>2, <2>3, <4>1, <4>2, <4>3
    <3>. QED BY <3>2, <3>3
  <2>7. Held' BY <2>6 DEF Held
  <2>8. Referenced(config)' \subseteq files' BY <1>5, <1>6, <2>1
  <2>. QED BY <1>3, <2>5, <2>7, <2>8 DEF UploadsOK, UploadsKept, Owned, Held
<1>. QED BY <1>4, <1>7, <1>8, <1>9

LEMMA CommitUploads == ASSUME Shape, UploadsOK, NEW r \in Requests, Commit(r) PROVE UploadsOK'
<1>1. Others(r) /\ trial' = None BY CommitStep
<1>2. PICK c \in Changed(r) :
          /\ config' = c
          /\ \/ Remaining(r, c) = {} /\ req'[r] = None
             \/ Became(r, "saved") /\ req'[r].item \in Remaining(r, c)
  BY CommitStep
<1>3. At(r, "asked") /\ UNCHANGED <<files, leftover>> BY DEF Commit
<1>4. req[r] \in Request /\ req[r] # None BY <1>3 DEF At, Shape, TypeOK
<1>5. req[r].ask.kind \in {"settings", "path", "provider"} BY <1>4, Fields, Asked
<1>6. CASE req[r].ask.kind # "provider"
  <2>1. c.upload = config.upload BY <1>3, <1>5, <1>6, Changes
  <2>2. config'.upload = config.upload BY <1>2, <2>1
  <2>3. req'[r] = None \/ req'[r].ask.kind # "provider" BY <1>2, <1>6 DEF Became
  <2>. QED BY <1>1, <1>3, <1>6, <2>2, <2>3, ElsewhereUploads
<1>7. CASE req[r].ask.kind = "provider"
  <2> DEFINE own == req[r].item
             gone == Referenced(config) \ Referenced(c)
  <2>1. /\ LosesOne(c) /\ Referenced(c) \subseteq Referenced(config) \cup ({own} \ {None})
        /\ own # None => own \in Referenced(c) BY <1>3, <1>7, Changes
  <2>2. Remaining(r, c) = gone BY <1>7 DEF Remaining
  <2>3. \A x, y \in gone : x = y BY <2>1 DEF LosesOne
  <2>4. Referenced(config) \subseteq files /\ Owned /\ Held BY UploadsParts
  <2>5. r \in Of("provider") BY <1>4, <1>7 DEF Of
  <2>6. own # None => own \in files \ Referenced(config) /\ \A q \in Of("provider") : q # r => req[q].item # own
    BY <2>4, <2>5 DEF Held
  <2>7. Referenced(config)' = Referenced(c) BY <1>2 DEF Referenced
  <2>8. Referenced(c) \subseteq files BY <2>1, <2>4, <2>6
  <2>9. Of("provider") \subseteq Of("provider")' \cup {r} /\ Of("provider")' \subseteq Of("provider")
        /\ \A q \in Of("provider") \ {r} : req'[q] = req[q]
    BY <1>1, <1>2, <1>7, <2>5 DEF Of, Others, Became
  <2>10. gone # {} => r \in Of("provider")' /\ req'[r].item \in gone
    BY <1>2, <1>4, <1>7, <2>2, <2>5 DEF Of, Became
  <2>11. r \in Of("provider")' => req'[r].item \in gone
    BY <1>2, <2>2 DEF Of
  <2>12. ASSUME NEW x \in files' \ Referenced(config)'
         PROVE  x \in leftover' \/ \E q \in Of("provider")' : req'[q].item = x
    <3>1. CASE x \in Referenced(config)
      <4>1. x \in gone BY <2>7, <2>12, <3>1
      <4>. QED BY <2>3, <2>10, <4>1
    <3>2. CASE x \notin Referenced(config)
      <4>1. x \in leftover \/ \E q \in Of("provider") : req[q].item = x BY <1>3, <2>4, <2>12, <3>2, OwnedBy
      <4>2. x # own \/ own = None BY <2>1, <2>7, <2>12
      <4>3. x # None BY <1>3, <2>12, NoneIsNoFile
      <4>4. \A q \in Of("provider") : req[q].item = x => q # r BY <4>2, <4>3
      <4>. QED BY <1>3, <2>9, <4>1, <4>4
    <3>. QED BY <3>1, <3>2
  <2>13. Owned' BY <2>12, OwnedBy DEF Owned
  <2>14. ASSUME NEW p \in Of("provider")', req'[p].item # None
         PROVE  /\ req'[p].item \in files' \ Referenced(config)'
                /\ \A q \in Of("provider")' : q # p => req'[q].item # req'[p].item
    <3>1. \A q \in Of("provider")' : q # r =>
             q \in Of("provider") /\ req'[q] = req[q]
             /\ (req[q].item # None => req[q].item \in files \ Referenced(config))
      BY <2>4, <2>9 DEF Held
    <3>2. CASE p = r
      <4>1. req'[p].item \in Referenced(config) /\ req'[p].item \notin Referenced(c) BY <2>11, <3>2
      <4>. QED BY <1>3, <2>4, <2>7, <2>14, <3>1, <3>2, <4>1
    <3>3. CASE p # r
      <4>1. p \in Of("provider") /\ req'[p] = req[p] /\ req[p].item # None BY <2>14, <3>1, <3>3
      <4>2. req[p].item \in files \ Referenced(config) /\ \A q \in Of("provider") : q # p => req[q].item # req[p].item
        BY <2>4, <4>1 DEF Held
      <4>3. req[p].item # own BY <2>5, <3>3, <4>2
      <4>4. req[p].item \notin Referenced(c) BY <2>1, <4>2, <4>3
      <4>5. r \in Of("provider")' => req'[r].item # req[p].item BY <2>11, <4>2
      <4>. QED BY <1>3, <2>7, <3>1, <4>1, <4>2, <4>4, <4>5
    <3>. QED BY <3>2, <3>3
  <2>15. Held' BY <2>14 DEF Held
  <2>. QED BY <1>1, <1>3, <2>7, <2>8, <2>13, <2>15 DEF UploadsOK, UploadsKept, Owned, Held
<1>. QED BY <1>6, <1>7

\* A provider request goes on, or ends: what it held is gone from the files, or
\* left over, or it held nothing.
LEMMA EndUploads ==
    ASSUME Shape, UploadsOK, NEW r \in Of("provider"), Others(r), UNCHANGED <<config, trial>>, trial = None,
           \/ req'[r] # None /\ req'[r].ask = req[r].ask /\ req'[r].item = req[r].item
              /\ UNCHANGED <<files, leftover>>
           \/ /\ req'[r] = None
              /\ \/ req[r].item = None /\ UNCHANGED <<files, leftover>>
                 \/ req[r].item # None /\ files' = files \ {req[r].item} /\ leftover' = leftover
                 \/ req[r].item # None /\ files' = files /\ leftover' = leftover \cup {req[r].item}
    PROVE  UploadsOK'
<1> DEFINE own == req[r].item
<1>1. Referenced(config) \subseteq files /\ Owned /\ Held BY UploadsParts
<1>2. Referenced(config)' = Referenced(config) BY DEF Referenced
<1>3. r \in Requests /\ req[r] # None /\ req[r].ask.kind = "provider" BY DEF Of
<1>4. \A q \in Of("provider") \ {r} : q \in Of("provider")' /\ req'[q] = req[q] BY DEF Of, Others
<1>5. \A q \in Of("provider")' : q \in Of("provider") /\ req'[q].item = req[q].item BY <1>3 DEF Of, Others
<1>6. own # None => own \in files \ Referenced(config) BY <1>1 DEF Held
<1>7. /\ Referenced(config)' \subseteq files' /\ files' \subseteq files
      /\ \A x \in files : x # own => x \in files' BY <1>1, <1>2, <1>6
<1>8. ASSUME NEW x \in files' \ Referenced(config)'
      PROVE  x \in leftover' \/ \E q \in Of("provider")' : req'[q].item = x
  <2>1. x \in leftover \/ \E q \in Of("provider") : req[q].item = x BY <1>1, <1>2, <1>7, <1>8, OwnedBy
  <2>2. leftover \subseteq leftover' OBVIOUS
  <2>3. x # None BY <1>7, <1>8, NoneIsNoFile
  <2>4. x = own => x \in leftover' \/ (r \in Of("provider")' /\ req'[r].item = x) BY <1>3, <1>8, <2>3 DEF Of
  <2>. QED BY <1>4, <2>1, <2>2, <2>4
<1>9. Owned' BY <1>8, OwnedBy DEF Owned
<1>10. ASSUME NEW p \in Of("provider")', req'[p].item # None
       PROVE  /\ req'[p].item \in files' \ Referenced(config)'
              /\ \A q \in Of("provider")' : q # p => req'[q].item # req'[p].item
  <2>1. p \in Of("provider") /\ req'[p].item = req[p].item BY <1>5, <1>10
  <2>2. req[p].item \in files \ Referenced(config) /\ \A q \in Of("provider") : q # p => req[q].item # req[p].item
    BY <1>1, <1>10, <2>1 DEF Held
  <2>3. req[p].item \in files'
    <3>1. CASE p = r
      <4>1. files' = files BY <1>10, <3>1 DEF Of
      <4>. QED BY <2>2, <4>1
    <3>2. CASE p # r BY <1>7, <2>2, <3>2
    <3>. QED BY <3>1, <3>2
  <2>. QED BY <1>2, <1>5, <2>1, <2>2, <2>3
<1>11. Held' BY <1>10 DEF Held
<1>. QED BY <1>7, <1>9, <1>11 DEF UploadsOK, UploadsKept, Owned, Held

LEMMA RefuseUploads == ASSUME Shape, UploadsOK, NEW r \in Requests, Refuse(r) PROVE UploadsOK'
<1>1. /\ Others(r) /\ UNCHANGED <<config, files, trial, leftover>>
      /\ \/ req'[r] = None /\ req[r].item = None
         \/ Became(r, "failed") /\ req'[r].item = req[r].item
  BY RefuseStep DEF history
<1>2. req[r] # None BY DEF Refuse, At
<1>3. trial = None BY <1>2 DEF Shape, TrialOK
<1>4. CASE req[r].ask.kind = "provider"
  <2>1. r \in Of("provider") BY <1>2, <1>4 DEF Of
  <2>. QED BY <1>1, <1>3, <2>1, EndUploads DEF Became
<1>5. CASE req[r].ask.kind # "provider"
  <2>1. (req'[r] = None \/ req'[r].ask.kind # "provider") /\ config'.upload = config.upload /\ trial' = None
    BY <1>1, <1>3, <1>5 DEF Became
  <2>. QED BY <1>1, <1>5, <2>1, ElsewhereUploads
<1>. QED BY <1>4, <1>5

LEMMA DiscardUploads == ASSUME Shape, UploadsOK, NEW r \in Requests, Discard(r) PROVE UploadsOK'
<1>1. /\ r \in Of("provider") /\ (At(r, "saved") \/ At(r, "failed")) /\ UNCHANGED <<config, trial>>
      /\ \/ files' = files \ {req[r].item} /\ leftover' = leftover
         \/ files' = files /\ leftover' = leftover \cup {req[r].item}
  BY DEF Discard
<1>2. req'[r] = None /\ Others(r) BY DoneStep DEF Discard
<1>3. req[r] # None /\ req[r].item # None BY <1>1 DEF At, Shape, ItemsOK, ItemOK
<1>4. trial = None BY <1>3 DEF Shape, TrialOK
<1>. QED BY <1>1, <1>2, <1>3, <1>4, EndUploads

LEMMA StartUploads ==
    ASSUME Shape, NEW c \in Config, NEW busy \in BOOLEAN, Start(c, busy), Referenced(c) \subseteq files,
           trial' # None => busy /\ Referenced(trial') \subseteq files
    PROVE  UploadsOK'
<1>1. /\ \A r \in Requests : req'[r] = None
      /\ config' = c /\ Referenced(c) \cap files \subseteq files'
      /\ busy => files' = files
      /\ leftover' = files' \ Referenced(c)
  BY StartStep
<1>2. Of("provider")' = {} BY <1>1 DEF Of
<1>3. Referenced(config)' = Referenced(c) /\ Referenced(trial)' = Referenced(trial') BY <1>1 DEF Referenced
<1>4. trial' # None => Referenced(trial)' \subseteq files' BY <1>1, <1>3
<1>5. Owned' BY <1>1, <1>3 DEF Owned
<1>6. Held' BY <1>2 DEF Held
<1>. QED BY <1>1, <1>3, <1>4, <1>5, <1>6 DEF UploadsOK, UploadsKept, Owned, Held

LEMMA RestartUploads == ASSUME Shape, UploadsOK, Restart PROVE UploadsOK'
<1>1. config \in Config /\ (trial # None) \in BOOLEAN /\ Start(config, trial # None) /\ trial' = trial
  BY DEF Restart, Shape, TypeOK
<1>2. Referenced(config) \subseteq files /\ (trial # None => Referenced(trial) \subseteq files) BY UploadsParts
<1>3. trial' # None => (trial # None) /\ Referenced(trial') \subseteq files BY <1>1, <1>2
<1>. QED BY <1>1, <1>2, <1>3, StartUploads

LEMMA TryUploads == ASSUME Shape, UploadsOK, Try PROVE UploadsOK'
<1>1. PICK c \in Migrated(config), busy \in BOOLEAN : Start(c, busy) /\ trial' = IF busy THEN config ELSE None
  BY DEF Try
<1>2. config \in Config BY DEF Shape, TypeOK
<1>3. c \in Config /\ Referenced(c) \subseteq Referenced(config) BY <1>2, MigratedConfig
<1>4. Referenced(config) \subseteq files BY UploadsParts
<1>5. trial' # None => busy /\ Referenced(trial') \subseteq files BY <1>1, <1>4
<1>. QED BY <1>1, <1>3, <1>4, <1>5, StartUploads

LEMMA RollBackUploads == ASSUME Shape, UploadsOK, RollBack PROVE UploadsOK'
<1>1. trial # None /\ Start(trial, TRUE) /\ trial' = trial BY DEF RollBack
<1>2. trial \in Config /\ TRUE \in BOOLEAN BY <1>1 DEF Shape, TypeOK
<1>3. Referenced(trial) \subseteq files BY <1>1, UploadsParts
<1>. QED BY <1>1, <1>2, <1>3, StartUploads

LEMMA IdleUploads == ASSUME UploadsOK, Decide \/ UNCHANGED vars PROVE UploadsOK'
<1>1. UNCHANGED <<config, files, req, leftover>> /\ trial' \in {None, trial} BY DEF Decide, vars, history
<1>2. Of("provider")' = Of("provider") BY <1>1 DEF Of
<1>3. Referenced(config)' = Referenced(config) /\ Referenced(trial)' = Referenced(trial') BY <1>1 DEF Referenced
<1>4. Owned /\ Held BY UploadsParts
<1>5. Owned' /\ Held' BY <1>1, <1>2, <1>3, <1>4 DEF Owned, Held
<1>. QED BY <1>1, <1>3, <1>5, UploadsParts DEF UploadsOK, UploadsKept, Owned, Held

LEMMA NextUploads == Shape /\ UploadsOK /\ [Next]_vars => UploadsOK'
<1> SUFFICES ASSUME Shape, UploadsOK, [Next]_vars PROVE UploadsOK' OBVIOUS
<1>1. CASE \E r \in Requests : Receive(r) BY <1>1, ReceiveUploads
<1>2. CASE \E r \in Requests : Commit(r) BY <1>2, CommitUploads
<1>3. CASE \E r \in Requests : Refuse(r) BY <1>3, RefuseUploads
<1>4. CASE \E r \in Requests : Discard(r) BY <1>4, DiscardUploads
<1>5. ASSUME NEW r \in Requests, Activate(r) \/ CloseUnused(r) PROVE UploadsOK'
  <2>1. /\ req[r] # None /\ req[r].ask.kind # "provider" /\ Done(r)
        /\ UNCHANGED <<config, files, trial, leftover>>
    BY <1>5 DEF Activate, CloseUnused, Of, history
  <2>2. req'[r] = None /\ Others(r) BY <2>1, DoneStep
  <2>3. trial' = None /\ config'.upload = config.upload BY <2>1 DEF Shape, TrialOK
  <2>. QED BY <2>1, <2>2, <2>3, ElsewhereUploads
<1>6. CASE Restart BY <1>6, RestartUploads
<1>7. CASE Try BY <1>7, TryUploads
<1>8. CASE RollBack BY <1>8, RollBackUploads
<1>9. CASE Decide \/ UNCHANGED vars BY <1>9, IdleUploads
<1>. QED BY <1>1, <1>2, <1>3, <1>4, <1>5, <1>6, <1>7, <1>8, <1>9 DEF Next

\* A provider's uploaded file is there, also that of the configuration an update
\* may be rolled back to, and no unused file is forgotten.
THEOREM FilesKept == Spec => []UploadsKept
<1>1. Init => Shape /\ UploadsOK BY InitShape, InitUploads
<1>2. Shape /\ UploadsOK /\ [Next]_vars => Shape' /\ UploadsOK' BY NextShape, NextUploads
<1>3. UploadsOK => UploadsKept BY DEF UploadsOK
<1>. QED BY <1>1, <1>2, <1>3, PTL DEF Spec

=============================================================================
