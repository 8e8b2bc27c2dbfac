------------------------------ MODULE Objects ------------------------------
(***************************************************************************)
(* The write operations of the typed services (src/objects) and what they  *)
(* do to the account: settings that are edited in place, where some writes *)
(* replace more than they mean to change and so begin with a read, and     *)
(* records that are created and deleted.  A call is one of AtLeastOnce: it *)
(* may take effect more than once, and after it has returned.              *)
(*                                                                         *)
(* The settings of a behaviour are the entries of one object, one per      *)
(* process and name: a runtime's persisted or custom properties, the       *)
(* overrides of an environment, the windows or the switches of a runtime's *)
(* schedules, the content of a branch.  An entry's value is the call that  *)
(* wrote it.                                                               *)
(*                                                                         *)
(* An operator named X_Suffix is a faulty variant of X, used only to show  *)
(* that the properties notice the fault.                                   *)
(***************************************************************************)
EXTENDS AtLeastOnce, FiniteSets

CONSTANTS
    Entries,   \* the entries of the object: pairs of a process and a name
    Modelled,  \* those a request type has a field for; others are read raw
    Targets,   \* per call: the entries it may mean to change
    Programs   \* which operation each call performs: the choices

Values == Calls \cup {"initial", "absent"}
Documents == [Entries -> Values]

ASSUME TriesAssumption == Tries \in [Calls -> Nat]
ASSUME EntriesAssumption == Entries # {} /\ Modelled \subseteq Entries
ASSUME TargetsAssumption == Targets \in [Calls -> SUBSET Entries]
ASSUME ValuesAssumption == {"initial", "absent"} \cap Calls = {}

-----------------------------------------------------------------------------
(* The operations: what a request needs before it is sent, what of the     *)
(* object it can carry, and what the platform takes it for                 *)

\* A request sets one entry, or replaces the object or one process of it
\* by what the caller gives; or it makes or removes a record.
Operation(name, does, scope, carries, needs) ==
    [name |-> name, does |-> does, scope |-> scope, carries |-> carries, needs |-> needs]
Set(name, needs) == Operation(name, "edit", "entry", Entries, needs)
Creation(name, needs) == Operation(name, "create", "none", {}, needs)
Deletion(name, needs) == Operation(name, "delete", "none", {}, needs)

\* RuntimeProps: the persisted properties are replaced as a whole; a custom
\* property is sent as a partial update.
UpdatePersisted ==
    Operation("UpdatePersisted", "edit", "object", Entries, {"confirmed", "atom"})
SetCustom == Set("SetCustom", {"runtime", "name"})

\* Extensions.Update is a partial update unless FullReplace is asked for; the
\* request has connections and properties, no raw block and no secret.
UpdateExtensions(fullReplace) ==
    Operation(IF fullReplace THEN "FullReplace" ELSE "UpdateExtensions", "edit",
              IF fullReplace THEN "object" ELSE "entry",
              Modelled, {"confirmed", "environment", "overrides"})

\* Schedules: the windows of a process are replaced, and its retry windows
\* with them: by the same windows if MaxRetry is given, else by none.  The
\* switch of a process is set.
UpdateSchedules(retry) ==
    Operation(IF retry THEN "RetrySchedules" ELSE "UpdateSchedules", "edit",
              "process", Modelled, {"confirmed", "schedule", "atom", "process"})
SetEnabled == Set("SetEnabled", {"confirmed", "status"})

\* Documents that are sent as the caller made them.
RawPost == Operation("RawPost", "edit", "object", Entries, {"path", "body"})
UpdateRaw ==
    Operation("UpdateRaw", "edit", "object", Entries, {"confirmed", "runtime", "payload"})
UpdateComponent == Operation("UpdateComponent", "edit", "object", Entries, {"id", "body"})

\* MergeRequests.Execute and Revert act on the destination branch.
ExecuteMerge == Set("ExecuteMerge", {"confirmed", "mergeRequest"})

CreateComponent == Creation("CreateComponent", {"body"})
CreateFolder == Creation("CreateFolder", {"name"})
CreatePackage == Creation("CreatePackage", {"component"})
Deploy == Creation("Deploy", {"confirmed", "environment", "package"})
CreateBranch == Creation("CreateBranch", {"name", "parent"})
CreateMerge == Creation("CreateMerge", {"source", "destination", "strategy"})
Execute == Creation("Execute", {"atom", "process"})

Undeploy_Unconfirmed == Deletion("Undeploy", {"deployment"})
Undeploy == Deletion("Undeploy", {"confirmed", "deployment"})
DeleteBranch == Deletion("DeleteBranch", {"confirmed", "branch"})
DeleteMerge == Deletion("DeleteMerge", {"mergeRequest"})
RawDelete == Deletion("RawDelete", {"path"})

Edits ==
    {UpdatePersisted, SetCustom, UpdateExtensions(TRUE), UpdateExtensions(FALSE),
     UpdateSchedules(TRUE), UpdateSchedules(FALSE), SetEnabled, RawPost, UpdateRaw,
     UpdateComponent, ExecuteMerge}
Creations ==
    {CreateComponent, CreateFolder, CreatePackage, Deploy, CreateBranch, CreateMerge,
     Execute}
Deletions == {Undeploy, DeleteBranch, DeleteMerge, RawDelete}
Operations == Edits \cup Creations \cup Deletions
Needs == UNION {o.needs : o \in Operations}

ASSUME ProgramsAssumption == Programs \subseteq [Calls -> Operations]

-----------------------------------------------------------------------------
VARIABLES
    op,       \* the operation of each call
    phase,    \* has it read, has its request been made
    copy,     \* what it read of the object
    given,    \* what its request brought of what the operation needs
    target,   \* the entry its request means to change
    victim,   \* the record its request means to delete
    doc,      \* the object on the platform
    known,    \* history: the entries whose present value the call has read
    made,     \* history: records made, by whom and at which landing
    gone      \* records deleted

objectVars == <<op, phase, copy, given, target, victim, doc, known,
                made, gone>>
requestVars == <<given, target, victim>>

Nothing == [e \in Entries |-> "absent"]
AnEntry == CHOOSE e \in Entries : TRUE

\* There is one record to begin with, and one entry is not set.
ObjectsInit ==
    /\ CallsInit
    /\ op \in Programs
    /\ phase = [c \in Calls |-> "new"]
    /\ copy = [c \in Calls |-> Nothing]
    /\ given = [c \in Calls |-> {}]
    /\ target = [c \in Calls |-> AnEntry]
    /\ victim = [c \in Calls |-> <<"initial", 1>>]
    /\ doc = [e \in Entries |-> IF e = AnEntry THEN "absent" ELSE "initial"]
    /\ known = [c \in Calls |-> {}]
    /\ made = {<<"initial", 1>>}
    /\ gone = {}

\* What a read may return: the object, or of Persisted an empty set, if the
\* platform's answer has no item.
Readings(c) == {doc} \cup (IF op[c] = UpdatePersisted THEN {Nothing} ELSE {})

\* The caller reads before it writes, as the replacements ask it to: with
\* Persisted, Extensions.Get, ForProcess, GetRaw, Raw.Get, Components.Get.
Fetch(c) ==
    /\ phase[c] = "new" /\ op[c].does = "edit"
    /\ phase' = [phase EXCEPT ![c] = "read"]
    /\ \E seen \in Readings(c) :
         /\ copy' = [copy EXCEPT ![c] = seen]
         /\ known' = [known EXCEPT ![c] = {e \in Entries : seen[e] = doc[e]}]
    /\ UNCHANGED <<callState, op, requestVars, doc, made, gone>>

Upsert_DropsRest(d, e, v) == [Nothing EXCEPT ![e] = v]
\* PersistedProcessProperties.Upsert: one property of one process is set,
\* added if it is not there; nothing is removed.
Upsert(d, e, v) == [d EXCEPT ![e] = v]

\* The checks every operation begins with.
Accepted(c, inputs) == op[c].needs \subseteq inputs

\* What becomes of an entry that the request has no room for: it is gone,
\* or made of what the request brings.
Unsent(c) == IF op[c].name = "RetrySchedules" THEN c ELSE "absent"

\* What the request carries: of what the caller read, as much as the request
\* has room for, with one entry changed.
Payload(c) ==
    Upsert([e \in Entries |-> IF e \in op[c].carries THEN copy[c][e] ELSE Unsent(c)],
           target[c], c)

\* The caller makes the request, whether or not it has read anything; the
\* service refuses it when an input is missing, before anything touches the
\* wire.
Submit(c, inputs) ==
    /\ outcome[c] = "open" /\ phase[c] # "ready"
    /\ phase' = [phase EXCEPT ![c] = "ready"]
    /\ given' = [given EXCEPT ![c] = inputs]
    /\ IF op[c].does = "edit"
         THEN \E e \in Targets[c] \cap op[c].carries : target' = [target EXCEPT ![c] = e]
         ELSE UNCHANGED target
    /\ IF op[c].does = "delete"
         THEN \E x \in made \ gone : victim' = [victim EXCEPT ![c] = x]
         ELSE UNCHANGED victim
    /\ IF Accepted(c, inputs) THEN UNCHANGED callState ELSE Conclude(c, "refused")
    /\ UNCHANGED <<op, copy, doc, known, made, gone>>

\* postJSON, deleteReq and Raw.stream hand the request to Do.
Send(c) ==
    /\ phase[c] = "ready"
    /\ Try(c)
    /\ UNCHANGED objectVars

\* Entries a request of call c overwrites.
Covered(c) ==
    CASE op[c].scope = "object" -> Entries
      [] op[c].scope = "process" -> {e \in Entries : e[1] = target[c][1]}
      [] op[c].scope = "entry" -> {target[c]}

\* The platform applies a request; of a record that is gone there is nothing
\* left to delete.
TakeEffect(c) ==
    /\ Land(c)
    /\ \/ /\ op[c].does = "edit"
          /\ doc' = [e \in Entries |-> IF e \in Covered(c) THEN Payload(c)[e] ELSE doc[e]]
          /\ known' = [d \in Calls |-> {e \in known[d] : doc'[e] = doc[e]}]
          /\ UNCHANGED <<made, gone>>
       \/ /\ op[c].does = "create"
          /\ made' = made \cup {<<c, landed'[c]>>}
          /\ UNCHANGED <<doc, known, gone>>
       \/ /\ op[c].does = "delete" /\ victim[c] \notin gone
          /\ gone' = gone \cup {victim[c]}
          /\ UNCHANGED <<doc, known, made>>
    /\ UNCHANGED <<op, phase, copy, requestVars>>

\* The call returns with Do's verdict.
Return(c, r) ==
    /\ phase[c] = "ready"
    /\ Conclude(c, r)
    /\ UNCHANGED objectVars

\* A caller gives all that the operation asks for, does not confirm, or
\* leaves out the rest.
Inputs(c) == {op[c].needs, op[c].needs \ {"confirmed"}, op[c].needs \cap {"confirmed"}}

Prepare(c) == Fetch(c) \/ \E inputs \in Inputs(c) : Submit(c, inputs)
Finish(c) == \E r \in Outcomes \ {"open"} : Return(c, r)

ObjectsNext == \E c \in Calls : Prepare(c) \/ Send(c) \/ Finish(c) \/ TakeEffect(c)

ObjectsSpec == ObjectsInit /\ [][ObjectsNext]_<<callState, objectVars>>

-----------------------------------------------------------------------------
Records == (Calls \cup {"initial"}) \X Nat

ObjectsTypeOK ==
    /\ outcome \in [Calls -> Outcomes]
    /\ tried \in [Calls -> Nat] /\ landed \in [Calls -> Nat]
    /\ op \in Programs
    /\ phase \in [Calls -> {"new", "read", "ready"}]
    /\ copy \in [Calls -> Documents] /\ doc \in Documents
    /\ given \in [Calls -> SUBSET Needs]
    /\ target \in [Calls -> Entries]
    /\ victim \in [Calls -> made]
    /\ known \in [Calls -> SUBSET Entries]
    /\ made \subseteq Records /\ gone \subseteq made

\* What the documentation lets an edit change besides its entry.
MayReplace(c) ==
    CASE op[c].name \in {"UpdatePersisted", "FullReplace", "RawPost", "UpdateRaw",
                         "UpdateComponent"} -> Entries
      [] op[c].name \in {"UpdateSchedules", "RetrySchedules"} ->
           {e \in Entries : e[1] = target[c][1]}
      [] OTHER -> {}

\* An edit changes the entry it is meant to change.  Another entry changes
\* with it only if the edit is a replacement that covers it, and the caller
\* had not read its present value (it read nothing, or somebody wrote since)
\* or the request has no room for it: what was read, has not changed and can
\* be sent is never lost, duplicate and late arrivals of requests included.
EntriesKept ==
    [][\A e \in Entries : doc'[e] # doc[e] =>
         \E c \in Calls :
            /\ landed'[c] > landed[c]
            /\ \/ e = target[c]
               \/ e \in MayReplace(c) /\ e \notin known[c] \cap op[c].carries]_objectVars

MadeBy(c) == {x \in made : x[1] = c}

\* The writes that are said to refuse to act until they are confirmed; the
\* package says it of all branch and merge writes, but creating a branch and
\* creating or deleting a merge request take no confirmation.
Guarded ==
    {"Deploy", "Undeploy", "UpdateSchedules", "RetrySchedules", "SetEnabled",
     "UpdateExtensions", "FullReplace", "UpdateRaw", "UpdatePersisted", "DeleteBranch",
     "ExecuteMerge"}

Confirmed(c) == "confirmed" \in given[c]

\* A guarded write without the caller's confirmation has no effect, however
\* often it is tried; a deletion reported done is done; a creation reported
\* done has made a record, and none has made more than were sent.
RecordsAccounted ==
    \A c \in Calls :
        /\ landed[c] > 0 /\ op[c].name \in Guarded => Confirmed(c)
        /\ op[c].does = "delete" /\ outcome[c] = "ok" => victim[c] \in gone
        /\ op[c].does = "create" =>
             /\ outcome[c] = "ok" => MadeBy(c) # {}
             /\ Cardinality(MadeBy(c)) <= tried[c]
=============================================================================
