----------------------------- MODULE MCAccount -----------------------------
(* A small instance of the account for TLC. *)
EXTENDS Account, TLC

CONSTANTS a, b, g1, g2, g3

Callers == g1 :> a @@ g2 :> a @@ g3 :> b
Sends == g1 :> 2 @@ g2 :> 1 @@ g3 :> 1

TwoProcesses == {<<"p", "x">>, <<"p", "y">>, <<"q", "x">>}

\* The request types have fields for what is called x.
Fields == {<<"p", "x">>, <<"q", "x">>}

Meant ==
    g1 :> {<<"p", "x">>} @@ g2 :> {<<"p", "y">>} @@ g3 :> {<<"p", "x">>, <<"q", "x">>}

Spelled(upper, slash) == [name |-> "https://api", upper |-> upper, slash |-> slash]
Given(host, account, override, partner) ==
    [host |-> host, account |-> account, override |-> override,
     partner |-> partner, credentials |-> TRUE, rps |-> 0]

\* One account under two spellings of the host, and through its partner; and
\* a configuration New must reject.
SomeConfigs ==
    a :> {Given(Spelled(TRUE, FALSE), "home", "unset", FALSE)} @@
    b :> {Given(Spelled(FALSE, TRUE), "home", "unset", FALSE),
          Given(Spelled(FALSE, FALSE), "partner", "home", TRUE),
          Given(Spelled(FALSE, FALSE), "partner", "home", FALSE)}

\* Every operation takes part in one of these; the edits of one are of the
\* same object.
SomePrograms ==
    {g1 :> p[1] @@ g2 :> p[2] @@ g3 :> p[3] : p \in
        {<<UpdatePersisted, UpdatePersisted, RawPost>>,
         <<UpdateExtensions(TRUE), Deploy, UpdateExtensions(FALSE)>>,
         <<UpdateSchedules(TRUE), Undeploy, UpdateSchedules(FALSE)>>,
         <<UpdateRaw, CreateFolder, UpdateRaw>>,
         <<UpdateComponent, CreateBranch, ExecuteMerge>>,
         <<SetCustom, CreateComponent, SetCustom>>,
         <<SetEnabled, Execute, SetEnabled>>,
         <<CreatePackage, RawDelete, RawDelete>>,
         <<CreateMerge, DeleteMerge, DeleteBranch>>}}
=============================================================================
