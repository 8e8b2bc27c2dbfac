------------------------------ MODULE Registry ------------------------------
(***************************************************************************)
(* Which limiter and which breaker a client ends up with, and which        *)
(* account its requests reach: New (src/config.go), Client.attachPace,     *)
(* paceKey and AccountID (src/client.go), Client.url (src/request.go), and *)
(* pace.ForAccount and pace.BreakerFor (src/pace/pace.go).                 *)
(*                                                                         *)
(* A step is one operation on a sync.Map or one way into or out of the     *)
(* client's sync.Once.  A limiter or a breaker is named by the routine     *)
(* that made it.                                                           *)
(*                                                                         *)
(* An operator named X_Suffix is a faulty variant of X, used only to show  *)
(* that the properties notice the fault.                                   *)
(***************************************************************************)
EXTENDS Naturals, FiniteSets

CONSTANTS
    Clients,   \* the clients of the process
    Routines,  \* the goroutines that call Do or Download, once each
    ClientOf,  \* the client each routine calls
    Configs    \* per client: what its caller may pass to New

\* A host is spelled in some case, with or without slashes at its end; an
\* empty host, account or override is "unset".
ConfigType ==
    [host : [name : STRING, upper : BOOLEAN, slash : BOOLEAN],
     account : STRING, override : STRING, partner : BOOLEAN,
     credentials : BOOLEAN, rps : Nat]

ASSUME ClientOfAssumption == ClientOf \in [Routines -> Clients]
ASSUME ConfigsAssumption == Configs \in [Clients -> SUBSET ConfigType]
ASSUME RoutinesNamedAssumption == "nobody" \notin Routines

TrimRight(h) == [h EXCEPT !.slash = FALSE]
ToLower(h) == [h EXCEPT !.upper = FALSE]

defaultRPS == 8
maxRPS == 10

\* New: the fields it requires, a host that is an absolute URL, a rate the
\* platform allows, and partner mode and the override account together.
Valid(cfg) ==
    /\ cfg.host.name # "unset" /\ cfg.account # "unset" /\ cfg.credentials
    /\ cfg.rps <= maxRPS
    /\ cfg.partner <=> cfg.override # "unset"

Normalized_KeepsSlash(cfg) == [cfg EXCEPT !.rps = IF @ = 0 THEN defaultRPS ELSE @]
\* New: what the client keeps of its configuration.
Normalized(cfg) ==
    [cfg EXCEPT !.host = TrimRight(@),
                !.rps = IF @ = 0 THEN defaultRPS ELSE @]

VARIABLES
    config,     \* per client: its configuration, NoConfig before New
    once,       \* per client: its sync.Once is new, running or done
    limiterOf,  \* per client: the limiter attached to it
    breakerOf,  \* per client: the breaker attached to it
    limiters,   \* the registry of limiters, as entries
    breakers,   \* the registry of breakers, as entries
    configured, \* pairs of a limiter and a client that configured it
    at          \* where each routine is

registryVars == <<config, once, limiterOf, breakerOf, limiters, breakers,
                  configured, at>>

NoConfig == [host |-> "none"]
Nobody == "nobody"

RegistryInit ==
    /\ config = [k \in Clients |-> NoConfig]
    /\ once = [k \in Clients |-> "new"]
    /\ limiterOf = [k \in Clients |-> Nobody]
    /\ breakerOf = [k \in Clients |-> Nobody]
    /\ limiters = {}
    /\ breakers = {}
    /\ configured = {}
    /\ at = [r \in Routines |-> "start"]

\* Client.paceKey, and normalize once more in ForAccount and BreakerFor.
paceKey(k) ==
    [host |-> ToLower(config[k].host),
     account |-> config[k].account, override |-> config[k].override]

\* Client.AccountID: whom the account's own objects are asked about.
AccountID(k) ==
    IF config[k].override # "unset" THEN config[k].override ELSE config[k].account

\* Client.url: what of the address is the same for every request.
Address(k) ==
    [host |-> config[k].host,
     root |-> IF config[k].partner THEN "partner" ELSE "api",
     account |-> config[k].account,
     overrideAccount |-> config[k].override]

\* The account the platform makes of it: partner requests may name another.
Reaches(a) ==
    IF a.root = "partner" /\ a.overrideAccount # "unset"
      THEN a.overrideAccount ELSE a.account

SameAddress(k, l) ==
    [Address(k) EXCEPT !.host = ToLower(@)] = [Address(l) EXCEPT !.host = ToLower(@)]

-----------------------------------------------------------------------------
(* New and attachPace *)

New(k) ==
    /\ config[k] = NoConfig
    /\ \E cfg \in Configs[k] : Valid(cfg) /\ config' = [config EXCEPT ![k] = Normalized(cfg)]
    /\ UNCHANGED <<once, limiterOf, breakerOf, limiters, breakers, configured, at>>

Goto(r, l) == at' = [at EXCEPT ![r] = l]

\* sync.Once: the first routine runs the function, those that come while it
\* runs wait for it, later ones go on.
EnterOnce_NoWait(r) ==
    LET k == ClientOf[r] IN
    /\ at[r] = "start" /\ config[k] # NoConfig
    /\ IF once[k] = "new"
         THEN once' = [once EXCEPT ![k] = "running"] /\ Goto(r, "loadLimiter")
         ELSE Goto(r, "attached") /\ UNCHANGED once
    /\ UNCHANGED <<config, limiterOf, breakerOf, limiters, breakers, configured>>
EnterOnce(r) ==
    LET k == ClientOf[r] IN
    /\ at[r] = "start" /\ config[k] # NoConfig
    /\ \/ /\ once[k] = "new"
          /\ once' = [once EXCEPT ![k] = "running"]
          /\ Goto(r, "loadLimiter")
       \/ once[k] = "done" /\ Goto(r, "attached") /\ UNCHANGED once
    /\ UNCHANGED <<config, limiterOf, breakerOf, limiters, breakers, configured>>

Found(registry, key) == {e \in registry : e.key = key}

\* sync.Map.Load: an entry is used; without one the routine makes its own.
Load(r, registry, key, found, missing) ==
    IF Found(registry, key) # {} THEN Goto(r, found) ELSE Goto(r, missing)

Stored_Overwriting(r, registry, key) ==
    (registry \ Found(registry, key)) \cup {[key |-> key, made |-> r]}
\* sync.Map.LoadOrStore: whoever comes second gets the first one's.
Stored(r, registry, key) ==
    IF Found(registry, key) # {} THEN registry
    ELSE registry \cup {[key |-> key, made |-> r]}

Maker(registry, key) == (CHOOSE e \in registry : e.key = key).made

ForAccount(r) ==
    LET k == ClientOf[r] IN
    /\ \/ /\ at[r] = "loadLimiter"
          /\ Load(r, limiters, paceKey(k), "loadBreaker", "storeLimiter")
          /\ UNCHANGED limiters
       \/ /\ at[r] = "storeLimiter"
          /\ limiters' = Stored(r, limiters, paceKey(k))
          /\ Goto(r, "loadBreaker")
    /\ limiterOf' = IF at'[r] = "loadBreaker"
                      THEN [limiterOf EXCEPT ![k] = Maker(limiters', paceKey(k))]
                      ELSE limiterOf
    /\ UNCHANGED <<config, once, breakerOf, breakers, configured>>

BreakerFor(r) ==
    LET k == ClientOf[r] IN
    /\ \/ /\ at[r] = "loadBreaker"
          /\ Load(r, breakers, paceKey(k), "configure", "storeBreaker")
          /\ UNCHANGED breakers
       \/ /\ at[r] = "storeBreaker"
          /\ breakers' = Stored(r, breakers, paceKey(k))
          /\ Goto(r, "configure")
    /\ breakerOf' = IF at'[r] = "configure"
                      THEN [breakerOf EXCEPT ![k] = Maker(breakers', paceKey(k))]
                      ELSE breakerOf
    /\ UNCHANGED <<config, once, limiterOf, limiters, configured>>

\* Limiter.Configure, whose effect on the limiter is module Limiter's, and
\* the end of the function the sync.Once runs.
Configure(r) ==
    LET k == ClientOf[r] IN
    /\ at[r] = "configure"
    /\ configured' = configured \cup {<<limiterOf[k], k>>}
    /\ once' = [once EXCEPT ![k] = "done"]
    /\ Goto(r, "attached")
    /\ UNCHANGED <<config, limiterOf, breakerOf, limiters, breakers>>

Attach(r) == EnterOnce(r) \/ ForAccount(r) \/ BreakerFor(r) \/ Configure(r)

RegistryNext == (\E k \in Clients : New(k)) \/ (\E r \in Routines : Attach(r))

RegistrySpec == RegistryInit /\ [][RegistryNext]_registryVars

-----------------------------------------------------------------------------
IsMap(registry) ==
    /\ \A e \in registry : e.made \in Routines
    /\ \A e, f \in registry : e.key = f.key => e = f

Good(cfg) == cfg \in ConfigType /\ ~ cfg.host.slash /\ Valid(cfg)

RegistryTypeOK ==
    /\ \A k \in Clients : config[k] = NoConfig \/ Good(config[k])
    /\ once \in [Clients -> {"new", "running", "done"}]
    /\ limiterOf \in [Clients -> Routines \cup {Nobody}]
    /\ breakerOf \in [Clients -> Routines \cup {Nobody}]
    /\ IsMap(limiters) /\ IsMap(breakers)
    /\ configured \subseteq Routines \X Clients
    /\ at \in [Routines -> {"start", "loadLimiter", "storeLimiter", "loadBreaker",
                            "storeBreaker", "configure", "attached"}]

\* Whoever has passed attachPace has a limiter that his own client's rate
\* and read limit were applied to, and shares it, and the breaker, with the
\* clients whose requests go to the same address and with nobody else; and
\* the account he is asked about is the one his requests reach.
BudgetMatchesTarget ==
    \A r \in Routines : at[r] = "attached" =>
        LET k == ClientOf[r] IN
        /\ <<limiterOf[k], k>> \in configured
        /\ Reaches(Address(k)) = AccountID(k)
        /\ \A s \in Routines : at[s] = "attached" =>
             LET l == ClientOf[s] IN
             /\ SameAddress(k, l) <=> limiterOf[k] = limiterOf[l]
             /\ SameAddress(k, l) <=> breakerOf[k] = breakerOf[l]
=============================================================================
