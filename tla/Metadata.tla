------------------------------ MODULE Metadata ------------------------------
(***************************************************************************)
(* Component metadata (src/objects/metadata.go): the current components of *)
(* a list of folders, asked for in batches, and lists by any other filter. *)
(* A batch, and a list by a filter, is a QueryAll (src/objects/query.go),  *)
(* page by page as in module Pagination; components are saved, moved,      *)
(* deleted and restored between any two pages.                             *)
(*                                                                         *)
(* An operator named X_Suffix is a faulty variant of X, used only to show  *)
(* that the properties notice the fault.                                   *)
(***************************************************************************)
EXTENDS Encoding, FiniteSets

CONSTANTS
    Components,
    Folders,
    folderBatchSize,   \* folders per request
    FolderLists,       \* lists of folders a caller may ask for
    Expressions,       \* what else a caller may list by
    PageRows,          \* rows the platform puts on a page
    MaxEdits           \* bound: edits, and losses, during one list

ASSUME BatchAssumption ==
    folderBatchSize \in Nat \ {0} /\ PageRows \in Nat \ {0} /\ MaxEdits \in Nat
ASSUME ComponentsAssumption == IsFiniteSet(Components)
ASSUME FoldersAssumption == FolderLists \subseteq Seq(Folders)
ASSUME ExpressionsAssumption ==
    /\ MaxDepth >= 2
    /\ {EqBool("currentVersion", TRUE), EqBool("deleted", FALSE)} \subseteq Comparisons
    /\ \A f \in Folders : Eq("folderId", f) \in Comparisons
    /\ Expressions \subseteq Buildable

VARIABLES
    component,  \* platform: per component, its version, folder, deletion
    request,    \* what is listed: folders or an expression
    asked,      \* how many of the folders have been asked for
    all,        \* ids of the components collected
    listErr,    \* not called, under way, or the error it returned
    paging,     \* the query under way: "no", "more" pages, the "last" one is in
    wire,       \* the body of the latest query
    served,     \* platform: how many rows the query has served
    collected,  \* ids the query has collected
    count,      \* numberOfResults of its first page
    edited,     \* history: the components edited since the list began
    shifts,     \* history: what went wrong between the pages of the query
    calm        \* history: in no query so far more than one thing did

pageVars == <<paging, wire, served, collected, count>>
metadataVars == <<component, request, asked, all, listErr, pageVars,
                  edited, shifts, calm>>

NoRequest == [by |-> "nothing", folders |-> <<>>, filter |-> Nil]

\* A component has two versions when the list begins and is edited at most
\* once while it runs.
Versions == 1..3

MetadataTypeOK ==
    /\ component \in [Components -> [version : Versions, folder : Folders, deleted : BOOLEAN]]
    /\ request.folders \in Seq(Folders) /\ request.filter \in Buildable
    /\ asked \in Nat
    /\ all \in Seq(Components)
    /\ listErr \in {"idle", "running", "nil", "api", "truncated", "malformed"}
    /\ paging \in {"no", "more", "last"} /\ served \in Nat
    /\ wire \in Acceptable \cup {ListAll}
    /\ collected \in Seq(Components) /\ count \in Nat
    /\ edited \in SUBSET Components /\ shifts \in Nat /\ calm \in BOOLEAN

MetadataInit ==
    /\ component \in [Components -> [version : {2}, folder : Folders, deleted : BOOLEAN]]
    /\ request = NoRequest
    /\ asked = 0
    /\ all = <<>>
    /\ listErr = "idle"
    /\ paging = "no" /\ wire = ListAll /\ served = 0 /\ collected = <<>> /\ count = 0
    /\ edited = {} /\ shifts = 0 /\ calm = TRUE

\* A row per version of a component.
Row(c, v, folder, current, deleted) ==
    [componentId |-> c, version |-> v, folderId |-> folder,
     currentVersion |-> FormatBool(current), deleted |-> FormatBool(deleted)]
RowsOf(c) ==
    {Row(c, v, component[c].folder, v = component[c].version, component[c].deleted) :
        v \in 1..component[c].version}
ComponentRows == UNION {RowsOf(c) : c \in Components}

\* A set as a list, each member once, in some order.
Listing(S) ==
    CHOOSE s \in [1..Cardinality(S) -> S] :
        \A i, j \in DOMAIN s : s[i] = s[j] => i = j

\* The ids of the rows a body selects, in the platform's order: any order,
\* the same as long as the rows are the same.
RowsBy(body) == Selected(ComponentRows, body)
FoundBy(body) ==
    LET rows == Listing(RowsBy(body))
    IN [i \in DOMAIN rows |-> rows[i].componentId]

-----------------------------------------------------------------------------
(* What is asked for *)

currentNotDeleted == <<EqBool("currentVersion", TRUE), EqBool("deleted", FALSE)>>
FolderFilter(batch) == And(Append(currentNotDeleted, In("folderId", batch)))

BatchEnd_OneMore ==
    IF asked + folderBatchSize < Len(request.folders)
      THEN asked + folderBatchSize + 1 ELSE Len(request.folders)
BatchEnd ==
    IF asked + folderBatchSize < Len(request.folders)
      THEN asked + folderBatchSize ELSE Len(request.folders)
Batch == SubSeq(request.folders, asked + 1, BatchEnd)

\* The body of the next query.
Body == MarshalJSON(IF request.by = "folders" THEN FolderFilter(Batch) ELSE request.filter)

\* An empty list is answered without a request.
CurrentByFolders(folders) ==
    /\ listErr = "idle"
    /\ request' = [NoRequest EXCEPT !.by = "folders", !.folders = folders]
    /\ listErr' = IF folders = <<>> THEN "nil" ELSE "running"
    /\ UNCHANGED <<component, asked, all, pageVars, edited, shifts, calm>>

\* Current, CurrentByNameLike and the other lists by one filter: the
\* expressions the services build are among Expressions.
ListBy(filter) ==
    /\ listErr = "idle"
    /\ request' = [NoRequest EXCEPT !.by = "filter", !.filter = filter]
    /\ listErr' = "running"
    /\ UNCHANGED <<component, asked, all, pageVars, edited, shifts, calm>>

\* A filter that cannot be encoded, on which mustFilter panics, is not sent.
Refuse ==
    /\ listErr = "running" /\ paging = "no"
    /\ Body = Malformed
    /\ listErr' = "malformed"
    /\ UNCHANGED <<component, request, asked, all, pageVars, edited, shifts, calm>>

-----------------------------------------------------------------------------
(* One query, page by page *)

Shift(n) ==
    /\ shifts' = shifts + n
    /\ calm' = (calm /\ shifts + n <= 1)

\* Where the page behind the platform's cursor ends.
PageBorder(found) ==
    IF served + PageRows < Len(found) THEN served + PageRows ELSE Len(found)

\* A page is collected.  It comes with a token if there is more to serve;
\* losing the token is one of the things that go wrong.
Collect(found) ==
    /\ collected' = collected \o SubSeq(found, served + 1, PageBorder(found))
    /\ served' = PageBorder(found)
    /\ \/ /\ paging' = IF PageBorder(found) < Len(found) THEN "more" ELSE "last"
          /\ UNCHANGED <<shifts, calm>>
       \/ /\ PageBorder(found) < Len(found) /\ shifts < MaxEdits
          /\ paging' = "last"
          /\ Shift(1)

FirstPage ==
    /\ listErr = "running" /\ paging = "no"
    /\ wire' = Body
    /\ wire' # Malformed
    /\ LET found == FoundBy(wire') IN count' = Len(found) /\ Collect(found)
    /\ UNCHANGED <<component, request, asked, all, listErr, edited>>

NextPage ==
    /\ listErr = "running" /\ paging = "more"
    /\ Collect(FoundBy(wire))
    /\ UNCHANGED <<component, request, asked, all, listErr, wire, count, edited>>

\* An error of any page ends the list with nothing.
PageFails ==
    /\ listErr = "running"
    /\ (paging = "no" /\ Body # Malformed) \/ paging = "more"
    /\ listErr' = "api" /\ all' = <<>>
    /\ UNCHANGED <<component, request, asked, pageVars, edited, shifts, calm>>

\* A page is served, its answer is lost, and Do asks again.
AnswerLost ==
    /\ listErr = "running" /\ paging = "more" /\ shifts < MaxEdits
    /\ served' = PageBorder(FoundBy(wire))
    /\ Shift(1)
    /\ UNCHANGED <<component, request, asked, all, listErr, paging, wire, collected, count, edited>>

\* The tokens have run out: the rows collected are as many as the first page
\* announced, or the list fails.  Then the next batch is due, if there is one.
QueryReturns_Unchecked ==
    /\ listErr = "running" /\ paging = "last"
    /\ all' = all \o collected
    /\ asked' = asked + folderBatchSize
    /\ listErr' = IF asked' < Len(request.folders) THEN "running" ELSE "nil"
    /\ paging' = "no" /\ served' = 0 /\ collected' = <<>> /\ shifts' = 0
    /\ UNCHANGED <<component, request, wire, count, edited, calm>>
QueryReturns ==
    /\ listErr = "running" /\ paging = "last"
    /\ IF Len(collected) # count
         THEN listErr' = "truncated" /\ all' = <<>> /\ UNCHANGED asked
         ELSE /\ all' = all \o collected
              /\ asked' = asked + folderBatchSize
              /\ listErr' = IF asked' < Len(request.folders) THEN "running" ELSE "nil"
    /\ paging' = "no" /\ served' = 0 /\ collected' = <<>> /\ shifts' = 0
    /\ UNCHANGED <<component, request, wire, count, edited, calm>>

\* Somebody saves, moves, deletes or restores a component.  Between two pages
\* every row that thereby comes or goes is something that goes wrong.
Edit(c) ==
    /\ listErr = "running" /\ Cardinality(edited) < MaxEdits /\ c \notin edited
    /\ \/ component' = [component EXCEPT ![c].version = @ + 1]
       \/ component' = [component EXCEPT ![c].deleted = ~ @]
       \/ \E f \in Folders \ {component[c].folder} :
              component' = [component EXCEPT ![c].folder = f]
    /\ edited' = edited \cup {c}
    /\ UNCHANGED <<request, asked, all, listErr, pageVars>>
    /\ IF paging = "more"
         THEN LET before == RowsBy(wire)
                  after == RowsBy(wire)'
              IN Shift(Cardinality((before \ after) \cup (after \ before)))
         ELSE UNCHANGED <<shifts, calm>>

MetadataNext ==
    \/ /\ listErr = "idle"
       /\ \/ \E folders \in FolderLists : CurrentByFolders(folders)
          \/ \E filter \in Expressions : ListBy(filter)
    \/ Refuse \/ FirstPage \/ NextPage \/ PageFails \/ AnswerLost \/ QueryReturns
    \/ \E c \in Components : Edit(c)

MetadataSpec == MetadataInit /\ [][MetadataNext]_metadataVars

-----------------------------------------------------------------------------
(* Properties *)

NoRepeats(list) == \A i, j \in DOMAIN list : list[i] = list[j] => i = j

\* CurrentByFolders lists a component that stays as it is exactly once if it
\* is in one of the folders, each of them named once, and not deleted, and
\* else not at all, wherever the batches and their pages begin and end and
\* whatever happens to other components in between, as long as no more than
\* one row comes or goes, or one answer is lost, between the pages of one
\* batch: a single one is noticed by the count, two (one save of a component
\* is enough) may cancel out and take a component with them that nobody
\* touched.  An error comes with nothing.
\* (The batches are no snapshot: a component that is moved between them may
\* be missed or listed twice.)
StayersListedOnce ==
    /\ listErr = "malformed" => request.by # "folders"
    /\ listErr \in {"api", "truncated", "malformed"} => all = <<>>
    /\ calm /\ listErr = "nil" /\ request.by = "folders" /\ NoRepeats(request.folders) =>
         \A c \in Components \ edited :
             Cardinality({i \in DOMAIN all : all[i] = c}) =
                 IF /\ \E i \in DOMAIN request.folders : request.folders[i] = component[c].folder
                    /\ ~ component[c].deleted
                   THEN 1 ELSE 0

\* Every filter a service builds asks for what its constructors say, in a
\* form the platform accepts, or is refused before it is sent: groups of one
\* collapse at any depth without changing what is selected, and nothing
\* ill-formed hides behind such a collapse.
MeaningKept ==
    request.by = "filter" => KeepsMeaning(request.filter, ComponentRows)
=============================================================================
