---------------------------- MODULE AccountProofs ----------------------------
(***************************************************************************)
(* That clients share a limiter and a breaker exactly if their requests go *)
(* to the same address, for every set of clients, routines and             *)
(* configurations.                                                         *)
(*                                                                         *)
(* What the write operations promise, proved for every set of calls, every *)
(* assignment of operations to them and every budget of sends; and what    *)
(* the composition of the objects with the registry promises: that it is a *)
(* behaviour of both parts, so that what is proved of each holds in it,    *)
(* and that writes to one address of the account do not overlap, which     *)
(* neither part says alone.                                                *)
(*                                                                         *)
(* The invariant RegistryInv says that a registry is a map and names every *)
(* limiter (breaker) once, that at most one routine runs a client's        *)
(* sync.Once, and what that routine has attached so far; a client whose    *)
(* sync.Once is done has everything.                                       *)
(*                                                                         *)
(* The invariant ObjectsInv says of a call that it has sent nothing before *)
(* its request was made and accepted, that what it knows of the object     *)
(* still agrees with the platform, and how many records it has made or     *)
(* removed.                                                                *)
(***************************************************************************)
EXTENDS Account, FiniteSetTheorems, TLAPS

-----------------------------------------------------------------------------
(* The registry *)

Keys == [host : [name : STRING, upper : BOOLEAN, slash : BOOLEAN],
         account : STRING, override : STRING]
Registered == [key : Keys, made : Routines]
Has(registry, key, maker) == [key |-> key, made |-> maker] \in registry

\* A registry is a map, and every limiter (breaker) is in it under one key.
OneEach(registry) ==
    /\ registry \subseteq Registered
    /\ \A e, f \in registry : e.key = f.key => e = f
    /\ \A e, f \in registry : e.made = f.made => e = f

Unmade(registry, r) == \A e \in registry : e.made # r

WithoutLimiter == {"start", "loadLimiter", "storeLimiter"}
WithoutBreaker == WithoutLimiter \cup {"loadBreaker", "storeBreaker"}
Busy == {"loadLimiter", "storeLimiter", "loadBreaker", "storeBreaker", "configure"}
Places == Busy \cup {"start", "attached"}

RoutineInv(r) ==
    LET k == ClientOf[r] IN
    /\ at[r] \in Busy => once[k] = "running"
    /\ at[r] = "attached" => once[k] = "done"
    /\ at[r] \in WithoutLimiter => Unmade(limiters, r)
    /\ at[r] \in WithoutBreaker => Unmade(breakers, r)
    /\ at[r] \in Busy \ WithoutLimiter => Has(limiters, paceKey(k), limiterOf[k])
    /\ at[r] = "configure" => Has(breakers, paceKey(k), breakerOf[k])

ClientInv(k) ==
    /\ once[k] # "new" => config[k] # NoConfig
    /\ once[k] = "done" => /\ Has(limiters, paceKey(k), limiterOf[k])
                           /\ Has(breakers, paceKey(k), breakerOf[k])
                           /\ <<limiterOf[k], k>> \in configured

\* At most one routine runs the function of a client's sync.Once.
OneRuns ==
    \A r, s \in Routines :
        ClientOf[r] = ClientOf[s] /\ at[r] \in Busy /\ at[s] \in Busy => r = s

RegistryInv ==
    /\ RegistryTypeOK
    /\ OneEach(limiters) /\ OneEach(breakers)
    /\ \A r \in Routines : RoutineInv(r)
    /\ \A k \in Clients : ClientInv(k)
    /\ OneRuns

-----------------------------------------------------------------------------
(* Configurations and keys *)

LEMMA NormalizedIsGood ==
    ASSUME NEW cfg \in ConfigType, Valid(cfg)
    PROVE  Good(Normalized(cfg))
<1> DEFINE n == Normalized(cfg)
<1>1. TrimRight(cfg.host) \in [name : STRING, upper : BOOLEAN, slash : BOOLEAN]
      /\ ~ TrimRight(cfg.host).slash /\ TrimRight(cfg.host).name = cfg.host.name
  BY DEF ConfigType, TrimRight
<1>2. (IF cfg.rps = 0 THEN defaultRPS ELSE cfg.rps) \in 0..maxRPS
  BY DEF ConfigType, Valid, defaultRPS, maxRPS
<1>3. /\ n.host = TrimRight(cfg.host)
      /\ n.rps = IF cfg.rps = 0 THEN defaultRPS ELSE cfg.rps
      /\ n.account = cfg.account /\ n.override = cfg.override
      /\ n.partner = cfg.partner /\ n.credentials = cfg.credentials
  BY DEF Normalized, ConfigType
<1>4. n \in ConfigType
  <2>1. \A h \in [name : STRING, upper : BOOLEAN, slash : BOOLEAN] :
          [cfg EXCEPT !.host = h] \in ConfigType
    BY DEF ConfigType
  <2>2. \A c \in ConfigType : \A m \in Nat : [c EXCEPT !.rps = m] \in ConfigType
    BY DEF ConfigType
  <2>3. n = [[cfg EXCEPT !.host = TrimRight(cfg.host)]
               EXCEPT !.rps = IF cfg.rps = 0 THEN defaultRPS ELSE cfg.rps]
    BY DEF Normalized, ConfigType
  <2>4. [cfg EXCEPT !.host = TrimRight(cfg.host)] \in ConfigType
    BY <1>1, <2>1, Zenon
  <2>5. (IF cfg.rps = 0 THEN defaultRPS ELSE cfg.rps) \in Nat
    BY <1>2 DEF maxRPS
  <2> QED
    BY <2>2, <2>3, <2>4, <2>5, Zenon
<1> QED
  BY <1>1, <1>2, <1>3, <1>4 DEF Good, Valid, maxRPS

LEMMA KeyTyped ==
    ASSUME NEW k \in Clients, Good(config[k])
    PROVE  paceKey(k) \in Keys
BY DEF Good, ConfigType, paceKey, Keys, ToLower

\* The override is part of the key and decides the root of the address.
LEMMA KeyIsAddress ==
    ASSUME NEW k \in Clients, NEW l \in Clients, Good(config[k]), Good(config[l])
    PROVE  SameAddress(k, l) <=> paceKey(k) = paceKey(l)
<1> DEFINE A(m) == [Address(m) EXCEPT !.host = ToLower(@)]
<1>1. \A m \in {k, l} : A(m) =
         [host |-> ToLower(config[m].host),
          root |-> IF config[m].partner THEN "partner" ELSE "api",
          account |-> config[m].account,
          overrideAccount |-> config[m].override]
  BY DEF Address
<1>2. \A m \in {k, l} : config[m].partner \in BOOLEAN
                       /\ (config[m].partner <=> config[m].override # "unset")
  BY DEF Good, Valid, ConfigType
<1>3. SameAddress(k, l) <=> /\ ToLower(config[k].host) = ToLower(config[l].host)
                            /\ config[k].account = config[l].account
                            /\ config[k].override = config[l].override
  BY <1>1, <1>2 DEF SameAddress
<1>4. paceKey(k) = paceKey(l) <=> /\ ToLower(config[k].host) = ToLower(config[l].host)
                                  /\ config[k].account = config[l].account
                                  /\ config[k].override = config[l].override
  BY DEF paceKey
<1> QED
  BY <1>3, <1>4

\* Partner mode and the override account come together, so that the account
\* asked about is the account reached.
LEMMA ReachesItsAccount ==
    ASSUME NEW k \in Clients, Good(config[k])
    PROVE  Reaches(Address(k)) = AccountID(k)
BY DEF Good, Valid, ConfigType, Reaches, Address, AccountID

-----------------------------------------------------------------------------
(* Registries *)

LEMMA MakerHas ==
    ASSUME NEW registry, OneEach(registry), NEW key, Found(registry, key) # {}
    PROVE  Has(registry, key, Maker(registry, key))
<1>1. PICK e \in registry : e.key = key
  BY DEF Found
<1> DEFINE m == CHOOSE x \in registry : x.key = key
<1>2. m \in registry /\ m.key = key
  BY <1>1
<1>3. m = [key |-> m.key, made |-> m.made]
  BY <1>2 DEF OneEach, Registered
<1> QED
  BY <1>2, <1>3 DEF Has, Maker

LEMMA StoredKeeps ==
    ASSUME NEW registry, OneEach(registry), NEW key \in Keys,
           NEW r \in Routines, Unmade(registry, r)
    PROVE  /\ OneEach(Stored(r, registry, key))
           /\ registry \subseteq Stored(r, registry, key)
           /\ Found(Stored(r, registry, key), key) # {}
           /\ \A s \in Routines \ {r} :
                Unmade(registry, s) => Unmade(Stored(r, registry, key), s)
<1>1. CASE Found(registry, key) # {}
  BY <1>1 DEF Stored
<1>2. CASE Found(registry, key) = {}
  <2> DEFINE n == [key |-> key, made |-> r]
  <2>1. Stored(r, registry, key) = registry \cup {n}
    BY <1>2 DEF Stored
  <2>2. n \in Registered /\ n.key = key /\ n.made = r
    BY DEF Registered
  <2>3. \A e \in registry : e.key # key /\ e.made # r
    BY <1>2 DEF Found, Unmade
  <2> HIDE DEF n
  <2> QED
    BY <2>1, <2>2, <2>3 DEF OneEach, Found, Unmade
<1> QED
  BY <1>1, <1>2

-----------------------------------------------------------------------------
(* The invariant of the registry *)

LEMMA RegistryInvInit == RegistryInit => RegistryInv
<1> SUFFICES ASSUME RegistryInit PROVE RegistryInv
  OBVIOUS
<1>1. RegistryTypeOK
  BY DEF RegistryInit, RegistryTypeOK, IsMap
<1>2. OneEach(limiters) /\ OneEach(breakers) /\ OneRuns
  BY DEF RegistryInit, OneEach, OneRuns, Busy
<1>3. (\A r \in Routines : RoutineInv(r)) /\ (\A k \in Clients : ClientInv(k))
  BY DEF RegistryInit, RoutineInv, ClientInv, Unmade, Busy
<1> QED
  BY <1>1, <1>2, <1>3 DEF RegistryInv

\* What a routine inside its client's sync.Once may do to the others.
LEMMA OthersKeep ==
    ASSUME RegistryInv, NEW r \in Routines, at[r] \in Busy, UNCHANGED config,
           NEW to \in Busy \cup {"attached"}, at' = [at EXCEPT ![r] = to],
           OneEach(limiters'), limiters \subseteq limiters',
           OneEach(breakers'), breakers \subseteq breakers',
           \A s \in Routines \ {r} :
             /\ Unmade(limiters, s) => Unmade(limiters', s)
             /\ Unmade(breakers, s) => Unmade(breakers', s),
           \A l \in Clients \ {ClientOf[r]} :
             /\ limiterOf'[l] = limiterOf[l] /\ breakerOf'[l] = breakerOf[l]
             /\ once'[l] = once[l],
           configured \subseteq configured',
           RegistryTypeOK', RoutineInv(r)', ClientInv(ClientOf[r])'
    PROVE  RegistryInv'
<1> DEFINE k == ClientOf[r]
<1>0. k \in Clients /\ at \in [Routines -> Places] /\ \A l \in Clients : paceKey(l)' = paceKey(l)
  BY ClientOfAssumption DEF RegistryInv, RegistryTypeOK, paceKey, Places, Busy
<1>1. ASSUME NEW s \in Routines \ {r} PROVE RoutineInv(s)'
  <2>1. at'[s] = at[s] /\ ClientOf[s] \in Clients /\ RoutineInv(s)
    BY ClientOfAssumption, <1>0 DEF RegistryInv
  <2>2. CASE ClientOf[s] = k
    <3>1. at[s] \notin Busy /\ once[k] = "running"
      BY <2>2 DEF RegistryInv, OneRuns, RoutineInv
    <3>2. at[s] = "start"
      BY <1>0, <2>1, <2>2, <3>1 DEF RegistryInv, RoutineInv, Places
    <3> QED
      BY <2>1, <3>2 DEF RoutineInv, Busy
  <2>3. CASE ClientOf[s] # k
    BY <1>0, <2>1, <2>3 DEF RoutineInv, Has
  <2> QED
    BY <2>2, <2>3
<1>2. ASSUME NEW l \in Clients \ {k} PROVE ClientInv(l)'
  BY <1>0 DEF RegistryInv, ClientInv, Has
<1>3. OneRuns'
  <2>1. \A s \in Routines : at'[s] \in Busy => at[s] \in Busy
    BY <1>0
  <2> QED
    BY <2>1 DEF RegistryInv, OneRuns
<1> QED
  BY <1>1, <1>2, <1>3 DEF RegistryInv

LEMMA NewKeeps ==
    ASSUME RegistryInv, NEW k \in Clients, New(k) PROVE RegistryInv'
<1>1. PICK cfg \in Configs[k] : Valid(cfg) /\ config' = [config EXCEPT ![k] = Normalized(cfg)]
  BY DEF New
<1>2. Good(Normalized(cfg))
  BY <1>1, ConfigsAssumption, NormalizedIsGood
<1>3. /\ UNCHANGED <<once, limiterOf, breakerOf, limiters, breakers, configured, at>>
      /\ once[k] = "new"
  BY DEF New, RegistryInv, ClientInv, RegistryTypeOK
<1>4. \A l \in Clients \ {k} : paceKey(l)' = paceKey(l) /\ config'[l] = config[l]
  BY <1>1 DEF paceKey, RegistryInv, RegistryTypeOK
<1>5. RegistryTypeOK'
  <2>1. config'[k] = Normalized(cfg) \/ config'[k] = config[k]
    BY <1>1 DEF RegistryInv, RegistryTypeOK
  <2> QED
    BY <1>2, <1>3, <1>4, <2>1 DEF RegistryInv, RegistryTypeOK, IsMap, Good
<1>6. ASSUME NEW r \in Routines PROVE RoutineInv(r)'
  <2>1. ClientOf[r] = k => at[r] \notin Busy
    BY <1>3 DEF RegistryInv, RoutineInv
  <2> QED
    BY <1>3, <1>4, <2>1, ClientOfAssumption DEF RegistryInv, RoutineInv, Busy
<1>7. ASSUME NEW l \in Clients PROVE ClientInv(l)'
  BY <1>3, <1>4 DEF RegistryInv, ClientInv
<1> QED
  BY <1>3, <1>5, <1>6, <1>7 DEF RegistryInv, OneRuns, OneEach

LEMMA EnterKeeps ==
    ASSUME RegistryInv, NEW r \in Routines, EnterOnce(r) PROVE RegistryInv'
<1> DEFINE k == ClientOf[r]
<1>0. /\ k \in Clients /\ at[r] = "start" /\ config[k] # NoConfig
      /\ UNCHANGED <<config, limiterOf, breakerOf, limiters, breakers, configured>>
      /\ Unmade(limiters, r) /\ Unmade(breakers, r)
      /\ at \in [Routines -> Places]
  BY ClientOfAssumption
     DEF EnterOnce, RegistryInv, RoutineInv, RegistryTypeOK, Busy, Places,
         WithoutLimiter, WithoutBreaker
<1>1. \A l \in Clients : paceKey(l)' = paceKey(l)
  BY <1>0 DEF paceKey
<1>2. CASE once[k] = "new"
  <2>1. /\ once' = [once EXCEPT ![k] = "running"]
        /\ at' = [at EXCEPT ![r] = "loadLimiter"]
    BY <1>2 DEF EnterOnce, Goto
  <2>2. \A s \in Routines : ClientOf[s] = k => at[s] \notin Busy /\ at[s] # "attached"
    BY <1>2 DEF RegistryInv, RoutineInv
  <2>3. ASSUME NEW s \in Routines PROVE RoutineInv(s)'
    <3>1. CASE s = r
      BY <1>0, <2>1, <3>1 DEF RoutineInv, RegistryInv, RegistryTypeOK, Busy,
                              WithoutLimiter, WithoutBreaker, Unmade
    <3>2. CASE s # r
      BY <1>0, <1>1, <2>1, <2>2, <3>2, ClientOfAssumption
         DEF RoutineInv, RegistryInv, RegistryTypeOK, Has, Unmade
    <3> QED
      BY <3>1, <3>2
  <2>4. ASSUME NEW l \in Clients PROVE ClientInv(l)'
    BY <1>0, <1>1, <2>1 DEF RegistryInv, ClientInv, RegistryTypeOK, Has
  <2>5. OneRuns'
    BY <1>0, <2>1, <2>2 DEF RegistryInv, OneRuns
  <2>6. RegistryTypeOK'
    BY <1>0, <2>1 DEF RegistryInv, RegistryTypeOK, IsMap
  <2> QED
    BY <1>0, <2>3, <2>4, <2>5, <2>6 DEF RegistryInv, OneEach
<1>3. CASE once[k] # "new"
  <2>1. /\ once[k] = "done" /\ UNCHANGED once
        /\ at' = [at EXCEPT ![r] = "attached"]
    BY <1>3 DEF EnterOnce, Goto
  <2>2. ASSUME NEW s \in Routines PROVE RoutineInv(s)'
    BY <1>0, <1>1, <2>1, ClientOfAssumption
       DEF RoutineInv, RegistryInv, Busy, WithoutLimiter, WithoutBreaker, Has, Unmade
  <2>3. ASSUME NEW l \in Clients PROVE ClientInv(l)'
    BY <1>0, <1>1, <2>1 DEF RegistryInv, ClientInv, Has
  <2>4. OneRuns'
    BY <1>0, <2>1 DEF RegistryInv, OneRuns, Busy
  <2>5. RegistryTypeOK'
    BY <1>0, <2>1 DEF RegistryInv, RegistryTypeOK, IsMap
  <2> QED
    BY <1>0, <2>2, <2>3, <2>4, <2>5 DEF RegistryInv, OneEach
<1> QED
  BY <1>2, <1>3

LEMMA ForAccountKeeps ==
    ASSUME RegistryInv, NEW r \in Routines, ForAccount(r) PROVE RegistryInv'
<1> DEFINE k == ClientOf[r]
<1> DEFINE key == paceKey(k)
<1>0. /\ k \in Clients /\ at[r] \in {"loadLimiter", "storeLimiter"}
      /\ UNCHANGED <<config, once, breakerOf, breakers, configured>>
      /\ once[k] = "running" /\ Good(config[k]) /\ key \in Keys
      /\ Unmade(limiters, r) /\ Unmade(breakers, r)
      /\ at \in [Routines -> Places]
  <2>1. /\ k \in Clients /\ at[r] \in {"loadLimiter", "storeLimiter"}
        /\ UNCHANGED <<config, once, breakerOf, breakers, configured>>
    BY ClientOfAssumption DEF ForAccount
  <2>2. once[k] = "running" /\ Unmade(limiters, r) /\ Unmade(breakers, r)
    BY <2>1 DEF RegistryInv, RoutineInv, Busy, WithoutLimiter, WithoutBreaker
  <2>3. Good(config[k])
    BY <2>1, <2>2 DEF RegistryInv, ClientInv, RegistryTypeOK
  <2> QED
    BY <2>1, <2>2, <2>3, KeyTyped DEF RegistryInv, RegistryTypeOK, Busy, Places
<1>1. paceKey(k)' = key
  BY <1>0 DEF paceKey
<1>2. \/ /\ at' = [at EXCEPT ![r] = "storeLimiter"]
         /\ UNCHANGED <<limiters, limiterOf>>
      \/ /\ at' = [at EXCEPT ![r] = "loadBreaker"]
         /\ limiterOf' = [limiterOf EXCEPT ![k] = Maker(limiters', key)]
         /\ Has(limiters', key, Maker(limiters', key))
         /\ OneEach(limiters') /\ limiters \subseteq limiters'
         /\ \A s \in Routines \ {r} : Unmade(limiters, s) => Unmade(limiters', s)
  <2>1. CASE at[r] = "loadLimiter" /\ Found(limiters, key) # {}
    BY <1>0, <2>1, MakerHas DEF ForAccount, Load, Goto, RegistryInv
  <2>2. CASE at[r] = "loadLimiter" /\ Found(limiters, key) = {}
    BY <1>0, <2>2 DEF ForAccount, Load, Goto
  <2>3. CASE at[r] = "storeLimiter"
    <3>1. /\ limiters' = Stored(r, limiters, key)
          /\ at' = [at EXCEPT ![r] = "loadBreaker"]
          /\ limiterOf' = [limiterOf EXCEPT ![k] = Maker(limiters', key)]
      BY <1>0, <2>3 DEF ForAccount, Goto
    <3>2. /\ OneEach(limiters') /\ limiters \subseteq limiters'
          /\ Found(limiters', key) # {}
          /\ \A s \in Routines \ {r} : Unmade(limiters, s) => Unmade(limiters', s)
      BY <1>0, <3>1, StoredKeeps DEF RegistryInv
    <3> QED
      BY <3>1, <3>2, MakerHas
  <2> QED
    BY <1>0, <2>1, <2>2, <2>3
<1> HIDE DEF key
<1>3. OneEach(limiters') /\ limiters \subseteq limiters' /\ OneEach(breakers')
  BY <1>0, <1>2 DEF RegistryInv, OneEach
<1>4. limiterOf' \in [Clients -> Routines \cup {Nobody}]
  <2>1. Has(limiters', key, Maker(limiters', key)) => Maker(limiters', key) \in Routines
    BY <1>3 DEF OneEach, Has, Registered
  <2> QED
    BY <1>2, <2>1 DEF RegistryInv, RegistryTypeOK
<1>5. RegistryTypeOK'
  <2>1. IsMap(limiters')
    BY <1>3 DEF OneEach, IsMap, Registered
  <2> QED
    BY <1>0, <1>2, <1>4, <2>1 DEF RegistryInv, RegistryTypeOK, IsMap
<1>6. RoutineInv(r)'
  BY <1>0, <1>1, <1>2 DEF RoutineInv, RegistryInv, RegistryTypeOK, Busy, Has,
     WithoutLimiter, WithoutBreaker, Unmade
<1>7. ClientInv(k)'
  BY <1>0 DEF ClientInv, RegistryInv
<1> QED
  BY <1>0, <1>2, <1>3, <1>5, <1>6, <1>7, OthersKeep DEF Busy, RegistryInv, RegistryTypeOK

LEMMA BreakerForKeeps ==
    ASSUME RegistryInv, NEW r \in Routines, BreakerFor(r) PROVE RegistryInv'
<1> DEFINE k == ClientOf[r]
<1> DEFINE key == paceKey(k)
<1>0. /\ k \in Clients /\ at[r] \in {"loadBreaker", "storeBreaker"}
      /\ UNCHANGED <<config, once, limiterOf, limiters, configured>>
      /\ once[k] = "running" /\ Good(config[k]) /\ key \in Keys
      /\ Unmade(breakers, r) /\ Has(limiters, key, limiterOf[k])
      /\ at \in [Routines -> Places]
  <2>1. /\ k \in Clients /\ at[r] \in {"loadBreaker", "storeBreaker"}
        /\ UNCHANGED <<config, once, limiterOf, limiters, configured>>
    BY ClientOfAssumption DEF BreakerFor
  <2>2. once[k] = "running" /\ Unmade(breakers, r) /\ Has(limiters, key, limiterOf[k])
    BY <2>1 DEF RegistryInv, RoutineInv, Busy, WithoutLimiter, WithoutBreaker
  <2>3. Good(config[k])
    BY <2>1, <2>2 DEF RegistryInv, ClientInv, RegistryTypeOK
  <2> QED
    BY <2>1, <2>2, <2>3, KeyTyped DEF RegistryInv, RegistryTypeOK, Busy, Places
<1>1. paceKey(k)' = key
  BY <1>0 DEF paceKey
<1>2. \/ /\ at' = [at EXCEPT ![r] = "storeBreaker"]
         /\ UNCHANGED <<breakers, breakerOf>>
      \/ /\ at' = [at EXCEPT ![r] = "configure"]
         /\ breakerOf' = [breakerOf EXCEPT ![k] = Maker(breakers', key)]
         /\ Has(breakers', key, Maker(breakers', key))
         /\ OneEach(breakers') /\ breakers \subseteq breakers'
         /\ \A s \in Routines \ {r} : Unmade(breakers, s) => Unmade(breakers', s)
  <2>1. CASE at[r] = "loadBreaker" /\ Found(breakers, key) # {}
    BY <1>0, <2>1, MakerHas DEF BreakerFor, Load, Goto, RegistryInv
  <2>2. CASE at[r] = "loadBreaker" /\ Found(breakers, key) = {}
    BY <1>0, <2>2 DEF BreakerFor, Load, Goto
  <2>3. CASE at[r] = "storeBreaker"
    <3>1. /\ breakers' = Stored(r, breakers, key)
          /\ at' = [at EXCEPT ![r] = "configure"]
          /\ breakerOf' = [breakerOf EXCEPT ![k] = Maker(breakers', key)]
      BY <1>0, <2>3 DEF BreakerFor, Goto
    <3>2. /\ OneEach(breakers') /\ breakers \subseteq breakers'
          /\ Found(breakers', key) # {}
          /\ \A s \in Routines \ {r} : Unmade(breakers, s) => Unmade(breakers', s)
      BY <1>0, <3>1, StoredKeeps DEF RegistryInv
    <3> QED
      BY <3>1, <3>2, MakerHas
  <2> QED
    BY <1>0, <2>1, <2>2, <2>3
<1> HIDE DEF key
<1>3. OneEach(limiters') /\ OneEach(breakers') /\ breakers \subseteq breakers'
  BY <1>0, <1>2 DEF RegistryInv, OneEach
<1>4. breakerOf' \in [Clients -> Routines \cup {Nobody}]
  <2>1. Has(breakers', key, Maker(breakers', key)) => Maker(breakers', key) \in Routines
    BY <1>3 DEF OneEach, Has, Registered
  <2> QED
    BY <1>2, <2>1 DEF RegistryInv, RegistryTypeOK
<1>5. RegistryTypeOK'
  <2>1. IsMap(breakers')
    BY <1>3 DEF OneEach, IsMap, Registered
  <2> QED
    BY <1>0, <1>2, <1>4, <2>1 DEF RegistryInv, RegistryTypeOK, IsMap
<1>6. RoutineInv(r)'
  BY <1>0, <1>1, <1>2 DEF RoutineInv, RegistryInv, RegistryTypeOK, Busy, Has,
     WithoutLimiter, WithoutBreaker, Unmade
<1>7. ClientInv(k)'
  BY <1>0 DEF ClientInv, RegistryInv
<1> QED
  BY <1>0, <1>2, <1>3, <1>5, <1>6, <1>7, OthersKeep DEF Busy, RegistryInv, RegistryTypeOK

LEMMA ConfigureKeeps ==
    ASSUME RegistryInv, NEW r \in Routines, Configure(r) PROVE RegistryInv'
<1> DEFINE k == ClientOf[r]
<1>0. /\ k \in Clients /\ at[r] = "configure"
      /\ UNCHANGED <<config, limiterOf, breakerOf, limiters, breakers>>
      /\ configured' = configured \cup {<<limiterOf[k], k>>}
      /\ once' = [once EXCEPT ![k] = "done"]
      /\ at' = [at EXCEPT ![r] = "attached"]
      /\ Has(limiters, paceKey(k), limiterOf[k])
      /\ Has(breakers, paceKey(k), breakerOf[k])
      /\ config[k] # NoConfig
  BY ClientOfAssumption
     DEF Configure, Goto, RegistryInv, RoutineInv, ClientInv, Busy, WithoutLimiter
<1>1. paceKey(k)' = paceKey(k)
  BY <1>0 DEF paceKey
<1>2. limiterOf[k] \in Routines
  BY <1>0 DEF Has, RegistryInv, OneEach, Registered
<1>3. RegistryTypeOK'
  BY <1>0, <1>2 DEF RegistryInv, RegistryTypeOK, IsMap
<1>4. RoutineInv(r)'
  BY <1>0 DEF RoutineInv, RegistryInv, RegistryTypeOK, Busy, WithoutLimiter, WithoutBreaker
<1>5. ClientInv(k)'
  BY <1>0, <1>1 DEF ClientInv, RegistryInv, RegistryTypeOK, Has
<1>6. OneEach(limiters') /\ OneEach(breakers')
  BY <1>0 DEF RegistryInv, OneEach
<1> QED
  BY <1>0, <1>3, <1>4, <1>5, <1>6, OthersKeep DEF Busy, RegistryInv, RegistryTypeOK

LEMMA RegistryInvStep ==
    ASSUME RegistryInv, [RegistryNext]_registryVars PROVE RegistryInv'
<1>1. CASE UNCHANGED registryVars
  <2>1. \A k \in Clients : paceKey(k)' = paceKey(k)
    BY <1>1 DEF registryVars, paceKey
  <2> QED
    BY <1>1, <2>1, ClientOfAssumption
       DEF registryVars, RegistryInv, RegistryTypeOK, IsMap, OneEach, RoutineInv,
           ClientInv, OneRuns, Has, Unmade
<1>2. CASE RegistryNext
  BY <1>2, NewKeeps, EnterKeeps, ForAccountKeeps, BreakerForKeeps, ConfigureKeeps
     DEF RegistryNext, Attach
<1> QED
  BY <1>1, <1>2

LEMMA RegistryInvariance == RegistrySpec => []RegistryInv
<1> QED
  BY RegistryInvInit, RegistryInvStep, PTL DEF RegistrySpec

-----------------------------------------------------------------------------
(* Results on the registry *)

\* The registries stay maps and every variable keeps its type, whichever
\* routines come first.
THEOREM RegistryTyping == RegistrySpec => []RegistryTypeOK
<1>1. RegistryInv => RegistryTypeOK
  BY DEF RegistryInv
<1> QED
  BY <1>1, RegistryInvariance, PTL

LEMMA AttachedMatch ==
    ASSUME RegistryInv, NEW r \in Routines, NEW s \in Routines,
           at[r] = "attached", at[s] = "attached"
    PROVE  /\ SameAddress(ClientOf[r], ClientOf[s])
                <=> limiterOf[ClientOf[r]] = limiterOf[ClientOf[s]]
           /\ SameAddress(ClientOf[r], ClientOf[s])
                <=> breakerOf[ClientOf[r]] = breakerOf[ClientOf[s]]
<1> DEFINE k == ClientOf[r]
<1> DEFINE l == ClientOf[s]
<1>1. ASSUME NEW q \in Routines, at[q] = "attached"
      PROVE  /\ ClientOf[q] \in Clients /\ Good(config[ClientOf[q]])
             /\ Has(limiters, paceKey(ClientOf[q]), limiterOf[ClientOf[q]])
             /\ Has(breakers, paceKey(ClientOf[q]), breakerOf[ClientOf[q]])
  <2>1. ClientOf[q] \in Clients /\ RoutineInv(q)
    BY ClientOfAssumption DEF RegistryInv
  <2>2. once[ClientOf[q]] = "done" /\ ClientInv(ClientOf[q])
    BY <1>1, <2>1 DEF RegistryInv, RoutineInv
  <2> QED
    BY <2>1, <2>2 DEF RegistryInv, ClientInv, RegistryTypeOK
<1>2. SameAddress(k, l) <=> paceKey(k) = paceKey(l)
  BY <1>1, KeyIsAddress
<1>3. ASSUME NEW registry, OneEach(registry), NEW m, NEW n,
             Has(registry, paceKey(k), m), Has(registry, paceKey(l), n)
      PROVE  paceKey(k) = paceKey(l) <=> m = n
  <2> DEFINE e == [key |-> paceKey(k), made |-> m]
  <2> DEFINE f == [key |-> paceKey(l), made |-> n]
  <2>1. e \in registry /\ f \in registry
    BY <1>3 DEF Has
  <2>2. (e.key = f.key => e = f) /\ (e.made = f.made => e = f)
    BY <1>3, <2>1 DEF OneEach
  <2> QED
    BY <2>2
<1>4. /\ OneEach(limiters) /\ OneEach(breakers)
      /\ Has(limiters, paceKey(k), limiterOf[k]) /\ Has(limiters, paceKey(l), limiterOf[l])
      /\ Has(breakers, paceKey(k), breakerOf[k]) /\ Has(breakers, paceKey(l), breakerOf[l])
  BY <1>1 DEF RegistryInv
<1>5. paceKey(k) = paceKey(l) <=> limiterOf[k] = limiterOf[l]
  BY <1>3, <1>4
<1>6. paceKey(k) = paceKey(l) <=> breakerOf[k] = breakerOf[l]
  BY <1>3, <1>4
<1> QED
  BY <1>2, <1>5, <1>6

\* Two routines past attachPace share limiter and breaker exactly if their
\* requests go to the same address, and that limiter has been configured by
\* each one's client.
THEOREM Sharing == RegistrySpec => []BudgetMatchesTarget
<1>1. RegistryInv => BudgetMatchesTarget
  <2> SUFFICES ASSUME RegistryInv, NEW r \in Routines, at[r] = "attached"
               PROVE  LET k == ClientOf[r] IN
                      /\ <<limiterOf[k], k>> \in configured
                      /\ Reaches(Address(k)) = AccountID(k)
    BY AttachedMatch DEF BudgetMatchesTarget
  <2>1. /\ ClientOf[r] \in Clients /\ Good(config[ClientOf[r]])
        /\ <<limiterOf[ClientOf[r]], ClientOf[r]>> \in configured
    BY ClientOfAssumption DEF RegistryInv, RoutineInv, ClientInv, RegistryTypeOK
  <2> QED
    BY <2>1, ReachesItsAccount
<1> QED
  BY <1>1, RegistryInvariance, PTL

-----------------------------------------------------------------------------
(* The write operations *)

ObjectsStep(c) == Prepare(c) \/ Send(c) \/ Finish(c) \/ TakeEffect(c)

\* Nothing is sent, and nothing lands, before the request is accepted.
RequestInv(c) ==
    /\ landed[c] <= tried[c]
    /\ tried[c] > 0 => phase[c] = "ready"
    /\ phase[c] = "ready" /\ (outcome[c] = "open" \/ tried[c] > 0)
         => op[c].needs \subseteq given[c]

\* What was read and not changed since is what is there.
CopyInv(c) ==
    \A e \in known[c] : copy[c][e] = doc[e]

\* Records, by who made them and at which landing.
RecordInv(c) ==
    /\ op[c].does = "delete" /\ landed[c] > 0 => victim[c] \in gone
    /\ op[c].does = "create" =>
         /\ \A x \in MadeBy(c) : x[2] <= landed[c]
         /\ IsFiniteSet(MadeBy(c)) /\ Cardinality(MadeBy(c)) = landed[c]
    /\ outcome[c] = "ok" => landed[c] > 0

CallInv(c) == RequestInv(c) /\ CopyInv(c) /\ RecordInv(c)
ObjectsInv == ObjectsTypeOK /\ \A c \in Calls : CallInv(c)

\* What the table of the operations says: a guarded one needs to be confirmed,
\* and one that covers more than its entry is among those that may.
WholeObject == {"UpdatePersisted", "FullReplace", "RawPost", "UpdateRaw", "UpdateComponent"}

LEMMA OperationFacts ==
    \A o \in Operations :
        /\ o.needs \in SUBSET Needs
        /\ o.name \in Guarded => "confirmed" \in o.needs
        /\ o.does = "edit" => o.scope \in {"entry", "process", "object"}
        /\ o.scope = "object" => o.name \in WholeObject
        /\ o.scope = "process" => o.name \in {"UpdateSchedules", "RetrySchedules"}
<1> SUFFICES ASSUME NEW o \in Operations
             PROVE  /\ o.needs \in SUBSET Needs
                    /\ o.name \in Guarded => "confirmed" \in o.needs
                    /\ o.does = "edit" => o.scope \in {"entry", "process", "object"}
                    /\ o.scope = "object" => o.name \in WholeObject
                    /\ o.scope = "process" => o.name \in {"UpdateSchedules", "RetrySchedules"}
  OBVIOUS
<1>1. o.needs \in SUBSET Needs
  BY DEF Needs
<1>2. CASE o \in Edits
  BY <1>1, <1>2
     DEF Edits, UpdatePersisted, SetCustom, UpdateExtensions, UpdateSchedules, SetEnabled,
         RawPost, UpdateRaw, UpdateComponent, ExecuteMerge, Set, Operation, Guarded,
         WholeObject
<1>3. CASE o \in Creations
  BY <1>1, <1>3
     DEF Creations, CreateComponent, CreateFolder, CreatePackage, Deploy, CreateBranch,
         CreateMerge, Execute, Creation, Operation, Guarded
<1>4. CASE o \in Deletions
  BY <1>1, <1>4
     DEF Deletions, Undeploy, DeleteBranch, DeleteMerge, RawDelete, Deletion, Operation,
         Guarded
<1> QED
  BY <1>2, <1>3, <1>4 DEF Operations

LEMMA EntryExists == AnEntry \in Entries
BY EntriesAssumption DEF AnEntry

-----------------------------------------------------------------------------
(* Types of the write operations *)

LEMMA TypeInit == ObjectsInit => ObjectsTypeOK
<1> SUFFICES ASSUME ObjectsInit PROVE ObjectsTypeOK
  OBVIOUS
<1>1. Nothing \in Documents
  BY DEF Nothing, Documents, Values
<1>2. doc \in Documents
  BY DEF ObjectsInit, Documents, Values
<1> QED
  BY <1>1, <1>2, EntryExists
     DEF ObjectsInit, CallsInit, ObjectsTypeOK, Outcomes, Records

LEMMA TypeStep ==
    ASSUME ObjectsTypeOK, NEW c \in Calls, ObjectsStep(c)
    PROVE  ObjectsTypeOK'
<1>0. op \in [Calls -> Operations]
  BY ProgramsAssumption DEF ObjectsTypeOK
<1>1. CASE Fetch(c)
  <2>1. \A seen \in Readings(c) : seen \in Documents
    BY DEF Readings, ObjectsTypeOK, Nothing, Documents, Values
  <2> QED
    BY <1>1, <2>1 DEF Fetch, ObjectsTypeOK, callState, requestVars
<1>2. ASSUME NEW inputs \in Inputs(c), Submit(c, inputs) PROVE ObjectsTypeOK'
  <2>1. inputs \in SUBSET Needs
    BY <1>0, OperationFacts DEF Inputs
  <2>2. target' \in [Calls -> Entries]
    BY <1>2, TargetsAssumption DEF Submit, ObjectsTypeOK
  <2>3. victim' \in [Calls -> made']
    BY <1>2 DEF Submit, ObjectsTypeOK
  <2>4. outcome' \in [Calls -> Outcomes] /\ UNCHANGED <<tried, landed>>
    BY <1>2 DEF Submit, ObjectsTypeOK, Conclude, Outcomes, callState
  <2> QED
    BY <1>2, <2>1, <2>2, <2>3, <2>4 DEF Submit, ObjectsTypeOK
<1>3. CASE Send(c)
  BY <1>3 DEF Send, Try, ObjectsTypeOK, objectVars
<1>4. CASE Finish(c)
  BY <1>4 DEF Finish, Return, Conclude, ObjectsTypeOK, objectVars
<1>5. CASE TakeEffect(c)
  <2>1. landed' \in [Calls -> Nat] /\ UNCHANGED <<outcome, tried>>
    BY <1>5 DEF TakeEffect, Land, ObjectsTypeOK
  <2>2. doc' \in Documents
    <3>1. Payload(c) \in Documents
      BY DEF Payload, Unsent, Upsert, ObjectsTypeOK, Documents, Values
    <3> QED
      BY <1>5, <3>1 DEF TakeEffect, ObjectsTypeOK, Documents
  <2>3. known' \in [Calls -> SUBSET Entries]
    BY <1>5 DEF TakeEffect, ObjectsTypeOK
  <2>4. made' \subseteq Records /\ made \subseteq made' /\ gone' \subseteq made'
    <3>1. landed'[c] \in Nat
      BY <2>1 DEF ObjectsTypeOK
    <3> QED
      BY <1>5, <3>1 DEF TakeEffect, ObjectsTypeOK, Records
  <2> QED
    BY <1>5, <2>1, <2>2, <2>3, <2>4 DEF TakeEffect, ObjectsTypeOK, requestVars
<1> QED
  BY <1>1, <1>2, <1>3, <1>4, <1>5 DEF ObjectsStep, Prepare
-----------------------------------------------------------------------------
(* The invariant of the write operations *)

LEMMA ObjectsInvInit == ObjectsInit => ObjectsInv
<1> SUFFICES ASSUME ObjectsInit PROVE ObjectsInv
  OBVIOUS
<1>1. ASSUME NEW c \in Calls PROVE CallInv(c)
  <2>1. RequestInv(c) /\ CopyInv(c)
    BY DEF ObjectsInit, CallsInit, RequestInv, CopyInv
  <2>2. MadeBy(c) = {}
    BY ValuesAssumption DEF ObjectsInit, MadeBy
  <2>3. RecordInv(c)
    BY <2>2, FS_EmptySet DEF ObjectsInit, CallsInit, RecordInv
  <2> QED
    BY <2>1, <2>3 DEF CallInv
<1> QED
  BY <1>1, TypeInit DEF ObjectsInv

\* A request is made once, before anything is sent.
LEMMA RequestStep ==
    ASSUME ObjectsInv, NEW c \in Calls, ObjectsStep(c), NEW d \in Calls
    PROVE  RequestInv(d)'
<1> USE DEF ObjectsInv, CallInv, RequestInv, ObjectsTypeOK
<1>1. CASE Fetch(c)
  BY <1>1 DEF Fetch, callState, requestVars
<1>2. ASSUME NEW inputs \in Inputs(c), Submit(c, inputs) PROVE RequestInv(d)'
  <2>1. tried[c] = 0 /\ landed[c] = 0
    BY <1>2 DEF Submit
  <2>2. CASE Accepted(c, inputs)
    BY <1>2, <2>1, <2>2 DEF Submit, Accepted, callState
  <2>3. CASE ~ Accepted(c, inputs)
    BY <1>2, <2>1, <2>3 DEF Submit, Conclude
  <2> QED
    BY <2>2, <2>3
<1>3. CASE Send(c)
  BY <1>3 DEF Send, Try, objectVars
<1>4. CASE Finish(c)
  BY <1>4 DEF Finish, Return, Conclude, objectVars
<1>5. CASE TakeEffect(c)
  BY <1>5 DEF TakeEffect, Land, requestVars
<1> QED
  BY <1>1, <1>2, <1>3, <1>4, <1>5 DEF ObjectsStep, Prepare

\* What a call has read of an entry is forgotten when the entry changes.
LEMMA CopyStep ==
    ASSUME ObjectsInv, NEW c \in Calls, ObjectsStep(c), NEW d \in Calls
    PROVE  CopyInv(d)'
<1> USE DEF ObjectsInv, CallInv, CopyInv, ObjectsTypeOK
<1>1. CASE Fetch(c)
  BY <1>1 DEF Fetch
<1>2. ASSUME NEW inputs \in Inputs(c), Submit(c, inputs) PROVE CopyInv(d)'
  BY <1>2 DEF Submit
<1>3. CASE Send(c) \/ Finish(c)
  BY <1>3 DEF Send, Finish, Return, objectVars
<1>4. CASE TakeEffect(c)
  <2>1. CASE UNCHANGED <<doc, known>>
    BY <1>4, <2>1 DEF TakeEffect
  <2>2. CASE known' = [f \in Calls |-> {e \in known[f] : doc'[e] = doc[e]}]
    BY <1>4, <2>2 DEF TakeEffect
  <2> QED
    BY <1>4, <2>1, <2>2 DEF TakeEffect
<1> QED
  BY <1>1, <1>2, <1>3, <1>4 DEF ObjectsStep, Prepare

LEMMA RecordStep ==
    ASSUME ObjectsInv, NEW c \in Calls, ObjectsStep(c), NEW d \in Calls
    PROVE  RecordInv(d)'
<1> USE DEF ObjectsInv, CallInv, ObjectsTypeOK
<1>1. ASSUME UNCHANGED <<op, made, gone, landed>>,
             landed[d] > 0 => victim'[d] = victim[d],
             outcome'[d] = "ok" => landed[d] > 0
      PROVE  RecordInv(d)'
  <2>1. MadeBy(d)' = MadeBy(d)
    BY <1>1 DEF MadeBy
  <2> QED
    BY <1>1, <2>1 DEF RecordInv
<1>2. CASE Fetch(c)
  BY <1>1, <1>2 DEF Fetch, callState, requestVars, RecordInv
<1>3. ASSUME NEW inputs \in Inputs(c), Submit(c, inputs) PROVE RecordInv(d)'
  <2>1. landed[c] = 0
    BY <1>3 DEF Submit, RequestInv
  <2>2. d # c => victim'[d] = victim[d]
    BY <1>3 DEF Submit
  <2>3. UNCHANGED <<landed, tried>> /\ (outcome'[d] = "ok" => outcome[d] = "ok")
    BY <1>3 DEF Submit, Conclude, callState
  <2> QED
    BY <1>1, <1>3, <2>1, <2>2, <2>3 DEF Submit, RecordInv
<1>4. CASE Send(c)
  BY <1>1, <1>4 DEF Send, Try, objectVars, RecordInv
<1>5. CASE Finish(c)
  BY <1>1, <1>5 DEF Finish, Return, Conclude, objectVars, RecordInv
<1>6. CASE TakeEffect(c)
  <2>1. /\ op' = op /\ victim' = victim /\ outcome' = outcome
        /\ landed' = [landed EXCEPT ![c] = @ + 1] /\ landed[d] \in Nat
        /\ landed'[d] >= landed[d] /\ landed'[d] \in Nat
    BY <1>6 DEF TakeEffect, Land, requestVars
  <2>2. op'[d].does = "delete" /\ landed'[d] > 0 => victim'[d] \in gone'
    BY <1>6, <2>1 DEF TakeEffect, RecordInv
  <2>3. outcome'[d] = "ok" => landed'[d] > 0
    BY <2>1 DEF RecordInv
  <2>4. ASSUME op[d].does = "create"
        PROVE  /\ \A x \in MadeBy(d)' : x[2] <= landed'[d]
               /\ IsFiniteSet(MadeBy(d)') /\ Cardinality(MadeBy(d)') = landed'[d]
    <3>1. CASE d # c \/ op[c].does # "create"
      <4>1. op[d].does = op[c].does \/ d # c
        OBVIOUS
      <4>2. MadeBy(d)' = MadeBy(d) /\ landed'[d] = landed[d]
        BY <1>6, <2>1, <2>4, <3>1 DEF TakeEffect, MadeBy
      <4> QED
        BY <2>4, <4>2 DEF RecordInv
    <3>2. CASE d = c /\ op[c].does = "create"
      <4>1. MadeBy(c)' = MadeBy(c) \cup {<<c, landed'[c]>>}
        BY <1>6, <3>2 DEF TakeEffect, MadeBy
      <4>2. landed'[c] = landed[c] + 1
        BY <2>1
      <4>3. <<c, landed'[c]>> \notin MadeBy(c)
        BY <2>1, <2>4, <3>2, <4>2 DEF RecordInv
      <4>4. /\ IsFiniteSet(MadeBy(c)')
            /\ Cardinality(MadeBy(c)') = Cardinality(MadeBy(c)) + 1
        <5>1. IsFiniteSet(MadeBy(c))
          BY <2>4, <3>2 DEF RecordInv
        <5>2. \A S, x : IsFiniteSet(S) /\ x \notin S =>
                /\ IsFiniteSet(S \cup {x})
                /\ Cardinality(S \cup {x}) = Cardinality(S) + 1
          BY FS_AddElement
        <5>3. /\ IsFiniteSet(MadeBy(c) \cup {<<c, landed'[c]>>})
              /\ Cardinality(MadeBy(c) \cup {<<c, landed'[c]>>})
                   = Cardinality(MadeBy(c)) + 1
          BY <4>3, <5>1, <5>2, Zenon
        <5> QED
          BY <4>1, <5>3, Zenon
      <4>5. \A x \in MadeBy(c)' : x[2] <= landed'[c]
        <5>1. \A x \in MadeBy(c) : x[2] \in Nat /\ x[2] <= landed[c]
          BY <2>4, <3>2 DEF RecordInv, MadeBy, Records
        <5> QED
          BY <2>1, <3>2, <4>1, <4>2, <5>1
      <4> QED
        BY <2>4, <3>2, <4>2, <4>4, <4>5 DEF RecordInv
    <3> QED
      BY <3>1, <3>2
  <2> QED
    BY <2>1, <2>2, <2>3, <2>4 DEF RecordInv
<1> QED
  BY <1>2, <1>3, <1>4, <1>5, <1>6 DEF ObjectsStep, Prepare

LEMMA ObjectsInvStep ==
    ASSUME ObjectsInv, [ObjectsNext]_<<callState, objectVars>>
    PROVE  ObjectsInv'
<1>1. CASE UNCHANGED <<callState, objectVars>>
  BY <1>1 DEF callState, objectVars, requestVars, ObjectsInv, CallInv, ObjectsTypeOK,
              RequestInv, CopyInv, RecordInv, MadeBy
<1>2. ASSUME NEW c \in Calls, ObjectsStep(c) PROVE ObjectsInv'
  BY <1>2, TypeStep, RequestStep, CopyStep, RecordStep DEF ObjectsInv, CallInv
<1> QED
  BY <1>1, <1>2 DEF ObjectsNext, ObjectsStep

LEMMA ObjectsInvariance == ObjectsSpec => []ObjectsInv
<1> QED
  BY ObjectsInvInit, ObjectsInvStep, PTL DEF ObjectsSpec

-----------------------------------------------------------------------------
(* Results on the write operations *)

\* Every variable of the objects keeps its type, whatever the calls do.
THEOREM ObjectsTyping == ObjectsSpec => []ObjectsTypeOK
<1>1. ObjectsInv => ObjectsTypeOK
  BY DEF ObjectsInv
<1> QED
  BY <1>1, ObjectsInvariance, PTL

\* A guarded write that was not confirmed has no effect, reported deletions
\* and creations are done, and no call makes more records than it sent
\* requests.
THEOREM Accounting == ObjectsSpec => []RecordsAccounted
<1>1. ObjectsInv => RecordsAccounted
  <2> SUFFICES ASSUME ObjectsInv, NEW c \in Calls
               PROVE  /\ landed[c] > 0 /\ op[c].name \in Guarded => Confirmed(c)
                      /\ op[c].does = "delete" /\ outcome[c] = "ok" => victim[c] \in gone
                      /\ op[c].does = "create" =>
                           /\ outcome[c] = "ok" => MadeBy(c) # {}
                           /\ Cardinality(MadeBy(c)) <= tried[c]
    BY DEF RecordsAccounted
  <2>1. /\ RequestInv(c) /\ RecordInv(c)
        /\ landed[c] \in Nat /\ tried[c] \in Nat
        /\ op[c] \in Operations
    BY ProgramsAssumption DEF ObjectsInv, CallInv, ObjectsTypeOK
  <2>2. op[c].does = "create" /\ outcome[c] = "ok" => MadeBy(c) # {}
    BY <2>1, FS_EmptySet DEF RecordInv
  <2>3. landed[c] > 0 => op[c].needs \subseteq given[c]
    BY <2>1 DEF RequestInv
  <2>4. landed[c] > 0 /\ op[c].name \in Guarded => Confirmed(c)
    BY <2>1, <2>3, OperationFacts DEF Confirmed
  <2> QED
    BY <2>1, <2>2, <2>4 DEF RequestInv, RecordInv
<1> QED
  BY <1>1, ObjectsInvariance, PTL

\* A step that changes an entry is the landing of an edit that means to, or
\* of a replacement that did not know the entry or could not carry it.
LEMMA StepKeepsEntries ==
    ASSUME ObjectsInv, NEW c \in Calls, ObjectsStep(c), NEW e \in Entries,
           doc'[e] # doc[e]
    PROVE  /\ landed'[c] > landed[c]
           /\ \/ e = target[c]
              \/ e \in MayReplace(c) /\ e \notin known[c] \cap op[c].carries
<1>1. TakeEffect(c) /\ op[c].does = "edit"
  BY DEF ObjectsStep, Prepare, Fetch, Submit, Send, Finish, Return, objectVars,
         TakeEffect
<1>2. /\ landed'[c] > landed[c]
      /\ op[c] \in Operations
  BY <1>1, ProgramsAssumption
     DEF TakeEffect, Land, ObjectsInv, ObjectsTypeOK, CallInv, RequestInv
<1>3. e \in Covered(c) /\ Payload(c)[e] # doc[e]
  BY <1>1 DEF TakeEffect
<1>4. ASSUME e # target[c]
      PROVE  e \in MayReplace(c) /\ e \notin known[c] \cap op[c].carries
  <2>1. e \in op[c].carries => copy[c][e] # doc[e]
    BY <1>3, <1>4 DEF Payload, Upsert
  <2>2. \/ op[c].scope = "object" /\ op[c].name \in WholeObject
        \/ /\ op[c].scope = "process" /\ op[c].name \in {"UpdateSchedules", "RetrySchedules"}
           /\ e[1] = target[c][1]
    BY <1>1, <1>2, <1>3, <1>4, OperationFacts DEF Covered
  <2>3. e \in MayReplace(c)
    BY <2>2 DEF MayReplace, WholeObject
  <2> QED
    BY <2>1, <2>3 DEF ObjectsInv, CallInv, CopyInv
<1> QED
  BY <1>2, <1>4

\* An edit disturbs no entry but its own, unless it is a replacement whose
\* caller did not know the entry's present value, or whose request has no
\* room for it: what was read, stayed and can be sent is never lost.
THEOREM Keeping == ObjectsSpec => EntriesKept
<1>1. ObjectsInv /\ [ObjectsNext]_<<callState, objectVars>>
      => [\A e \in Entries : doc'[e] # doc[e] =>
            \E c \in Calls :
               /\ landed'[c] > landed[c]
               /\ \/ e = target[c]
                  \/ e \in MayReplace(c) /\ e \notin known[c] \cap op[c].carries]_objectVars
  BY StepKeepsEntries DEF ObjectsNext, ObjectsStep, objectVars
<1> QED
  BY <1>1, ObjectsInvariance, PTL DEF ObjectsSpec, EntriesKept

-----------------------------------------------------------------------------
(* The composition *)

\* Whoever has sent something has been through attachPace.
Attached == \A c \in Calls : tried[c] > 0 => at[c] = "attached"

LEMMA CallerRoutine == \A c \in Calls : c \in Routines
BY RoutinesAssumption

-----------------------------------------------------------------------------
(* The parts *)

LEMMA RegistryPart == AccountSpec => RegistrySpec
<1>1. AccountInit => RegistryInit
  BY DEF AccountInit
<1>2. [AccountNext]_accountVars => [RegistryNext]_registryVars
  BY DEF AccountNext, AccountStep, accountVars
<1> QED
  BY <1>1, <1>2, PTL DEF AccountSpec, RegistrySpec

LEMMA ObjectsPart == AccountSpec => ObjectsSpec
<1>1. AccountInit => ObjectsInit
  BY DEF AccountInit
<1>2. [AccountNext]_accountVars => [ObjectsNext]_<<callState, objectVars>>
  BY DEF AccountNext, AccountStep, ObjectsNext, accountVars
<1> QED
  BY <1>1, <1>2, PTL DEF AccountSpec, ObjectsSpec

\* Whatever the interleaving of first calls and writes, the composition does
\* to the registries only what attachPace does, and to the objects only what
\* the services' operations do.
THEOREM Composition == AccountSpec => RegistrySpec /\ ObjectsSpec
BY RegistryPart, ObjectsPart, PTL

\* Every variable of either part keeps its type.
THEOREM AccountTyping == AccountSpec => []TypeOK
<1>1. RegistryTypeOK /\ ObjectsTypeOK => TypeOK
  BY DEF TypeOK
<1> QED
  BY <1>1, RegistryPart, ObjectsPart, RegistryTyping, ObjectsTyping, PTL

\* The account a call reaches, the limiter it waits at and its client's
\* address belong together also while objects are edited.
THEOREM AccountSharing == AccountSpec => []BudgetMatchesTarget
BY RegistryPart, Sharing, PTL

\* What the operations owe for each record holds in the composition.
THEOREM AccountAccounting == AccountSpec => []RecordsAccounted
BY ObjectsPart, Accounting, PTL

\* What they owe for each entry of the object does, too.
THEOREM AccountKeeping == AccountSpec => EntriesKept
BY ObjectsPart, Keeping, PTL

-----------------------------------------------------------------------------
(* The order of the writes *)

\* A request goes out only from an attached routine whose limiter no other
\* call under way has.
LEMMA OnlySendTries ==
    ASSUME TypeOK, [AccountNext]_accountVars,
           NEW d \in Calls, tried'[d] # tried[d]
    PROVE  at[d] = "attached" /\ Admitted(d)
<1>1. tried \in [Calls -> Nat]
  BY DEF TypeOK, ObjectsTypeOK
<1>2. tried' # tried
  OBVIOUS
<1>3. PICK c \in Calls : AccountStep(c)
  BY <1>2 DEF AccountNext, accountVars, callState, TakeEffect, Land
<1>4. ~ Prepare(c) /\ ~ Finish(c)
  BY <1>2 DEF Prepare, Fetch, Submit, Finish, Return, Conclude, callState
<1>5. AtHome(c) /\ Admitted(c) /\ Send(c)
  BY <1>3, <1>4 DEF AccountStep
<1>6. tried' = [tried EXCEPT ![c] = @ + 1]
  BY <1>5 DEF Send, Try
<1>7. c = d
  BY <1>1, <1>6
<1> QED
  BY <1>5, <1>7 DEF AtHome

LEMMA StaysAttached ==
    ASSUME TypeOK, [AccountNext]_accountVars,
           NEW r \in Routines, at[r] = "attached"
    PROVE  at'[r] = "attached"
<1>1. at \in [Routines -> Places]
  BY DEF TypeOK, RegistryTypeOK, Places, Busy
<1>2. CASE at' = at
  BY <1>2
<1>3. CASE \E s \in Routines : Attach(s)
  <2>1. PICK s \in Routines : Attach(s)
    BY <1>3
  <2>2. at[s] # "attached"
    BY <2>1 DEF Attach, EnterOnce, ForAccount, BreakerFor, Configure
  <2>3. \E to : at' = [at EXCEPT ![s] = to]
    BY <2>1 DEF Attach, EnterOnce, ForAccount, BreakerFor, Configure, Load, Goto
  <2> QED
    BY <1>1, <2>2, <2>3
<1>4. at' = at \/ \E s \in Routines : Attach(s)
  BY DEF AccountNext, AccountStep, accountVars, registryVars, RegistryNext, New
<1> QED
  BY <1>2, <1>3, <1>4

LEMMA AttachedInvariance == AccountSpec => []Attached
<1>1. AccountInit => Attached
  BY DEF AccountInit, ObjectsInit, CallsInit, Attached
<1>2. ASSUME TypeOK, Attached, [AccountNext]_accountVars
      PROVE  Attached'
  <2> SUFFICES ASSUME NEW c \in Calls, tried'[c] > 0
               PROVE  at'[c] = "attached"
    BY DEF Attached
  <2>1. at[c] = "attached"
    <3>1. CASE tried'[c] = tried[c]
      BY <1>2, <3>1 DEF Attached
    <3>2. CASE tried'[c] # tried[c]
      BY <1>2, <3>2, OnlySendTries
    <3> QED
      BY <3>1, <3>2
  <2> QED
    BY <1>2, <2>1, StaysAttached, CallerRoutine
<1> QED
  BY <1>1, <1>2, AccountTyping, PTL DEF AccountSpec

LEMMA StepInOrder ==
    ASSUME TypeOK, Attached, BudgetMatchesTarget, [AccountNext]_accountVars,
           NEW c \in Calls, NEW d \in Calls, c # d,
           tried'[d] > tried[d], Underway(c)
    PROVE  ~ SameAddress(Client(c), Client(d))
<1>1. tried \in [Calls -> Nat]
  BY DEF TypeOK, ObjectsTypeOK
<1>2. tried'[d] # tried[d]
  BY <1>1
<1>3. at[d] = "attached" /\ Admitted(d)
  BY <1>2, OnlySendTries
<1>4. at[c] = "attached"
  BY DEF Attached, Underway
<1>5. limiterOf[Client(c)] # limiterOf[Client(d)]
  BY <1>3 DEF Admitted
<1>6. SameAddress(Client(c), Client(d))
        <=> limiterOf[Client(c)] = limiterOf[Client(d)]
  BY <1>3, <1>4, CallerRoutine DEF BudgetMatchesTarget, Client
<1> QED
  BY <1>5, <1>6

\* Between the first request of one write and its return no other write to
\* the same address sends anything, whichever clients made them and whenever
\* these were created: the registries give both one limiter.
THEOREM WritesOrdered == AccountSpec => AccountWritesInOrder
<1>1. TypeOK /\ Attached /\ BudgetMatchesTarget /\ [AccountNext]_accountVars
        => [\A c, d \in Calls :
              c # d /\ tried'[d] > tried[d] /\ Underway(c)
                => ~ SameAddress(Client(c), Client(d))]_accountVars
  BY StepInOrder
<1> QED
  BY <1>1, AccountTyping, AttachedInvariance, AccountSharing, PTL
     DEF AccountSpec, AccountWritesInOrder
=============================================================================
