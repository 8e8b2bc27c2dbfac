------------------------------ MODULE Account ------------------------------
(***************************************************************************)
(* The composition of Registry and Objects: several clients of a process,  *)
(* each attached to the limiter of its account when a goroutine first      *)
(* calls it, edit the objects of one account.  Which writes wait for each  *)
(* other follows from which limiter they find, so what AtLeastOnce takes   *)
(* as given, that the writes of a limiter do not overlap, is put here in   *)
(* terms of the registry: Ordered is empty, and Send asks the limiter.     *)
(***************************************************************************)
EXTENDS Registry, Objects

CONSTANT Home   \* the account whose objects are edited

\* A goroutine makes one call.
ASSUME RoutinesAssumption == Routines = Calls /\ Ordered = {}

accountVars == <<registryVars, callState, objectVars>>

Client(c) == ClientOf[c]

\* Requests of call c reach the account.
AtHome(c) == at[c] = "attached" /\ AccountID(Client(c)) = Home

\* Limiter.Acquire of class Write: one at a time, until it returns.
Admitted(c) ==
    \A d \in Calls \ {c} :
        Underway(d) => limiterOf[Client(d)] # limiterOf[Client(c)]

AccountInit == RegistryInit /\ ObjectsInit

AccountStep(c) ==
    /\ AtHome(c)
    /\ Prepare(c) \/ (Admitted(c) /\ Send(c)) \/ Finish(c)
    /\ UNCHANGED registryVars

AccountNext ==
    \/ RegistryNext /\ UNCHANGED <<callState, objectVars>>
    \/ \E c \in Calls : AccountStep(c)
    \/ \E c \in Calls : TakeEffect(c) /\ UNCHANGED registryVars

AccountSpec == AccountInit /\ [][AccountNext]_accountVars

TypeOK == RegistryTypeOK /\ ObjectsTypeOK

-----------------------------------------------------------------------------
\* Two writes that go to the same address of the account do not overlap,
\* whichever Client each was made with and whenever that Client was created:
\* between the first request of one and its return the other sends nothing.
AccountWritesInOrder ==
    [][\A c, d \in Calls :
         c # d /\ tried'[d] > tried[d] /\ Underway(c)
           => ~ SameAddress(Client(c), Client(d))]_accountVars
=============================================================================
