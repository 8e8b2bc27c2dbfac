---------------------------- MODULE MCRetrieval ----------------------------
(***************************************************************************)
(* Retrieval and Metadata in one run: in some behaviours a caller lists an *)
(* entity's ids and fetches them, in the others he lists components by     *)
(* their folders or by some filter.                                        *)
(***************************************************************************)
EXTENDS Retrieval, Metadata

CONSTANTS c1, c2, c3, f1, f2, f3

allVars == <<retrievalVars, metadataVars>>

NoQuery ==
    /\ table = {} /\ cursor = 0 /\ page = "done" /\ token = FALSE
    /\ total = 0 /\ results = <<>> /\ snapshot = <<>> /\ disturbed = 0
    /\ returned = [err |-> "none", rows |-> <<>>]

NoList ==
    /\ component = [c \in Components |-> [version |-> 2, folder |-> f1, deleted |-> FALSE]]
    /\ request = NoRequest /\ asked = 0 /\ all = <<>> /\ listErr = "nil"
    /\ paging = "no" /\ wire = ListAll /\ served = 0 /\ collected = <<>> /\ count = 0
    /\ edited = {} /\ shifts = 0 /\ calm = TRUE

\* One component is in the folders, the others are where they may.
SomeTables ==
    {t \in [Components -> [version : {2}, folder : Folders, deleted : BOOLEAN]] :
        t[c1] = [version |-> 2, folder |-> f1, deleted |-> FALSE]}

\* The table for lists by a filter.
OneTable ==
    [c \in Components |-> [version |-> 2, folder |-> IF c = c3 THEN f2 ELSE f1,
                           deleted |-> c = c2]]

MCInit ==
    \/ RetrievalInit /\ NoList
    \/ NoQuery /\ BulkInit /\ MetadataInit /\ component \in SomeTables

SomeComparisons ==
    {EqBool("currentVersion", TRUE), EqBool("deleted", FALSE), IsNull("folderId"), Eq("", "x")}
    \cup {Eq("folderId", f) : f \in Folders}

\* Expressions up to depth three, some of them ill-formed.
Leaves == {Eq("folderId", f1), IsNull("folderId"), Eq("", "x"), Nil}
Groups(members) == {And(m) : m \in members} \cup {Or(m) : m \in members}
Shallow ==
    Groups({<<>>} \cup {<<x>> : x \in Leaves} \cup (Leaves \X Leaves))
    \cup {In("folderId", fs) : fs \in {<<>>, <<f2>>, <<f2, f1>>}}
SomeExpressions ==
    LET deeper == Groups({<<x>> : x \in Shallow} \cup (Shallow \X Leaves))
    IN Leaves \cup Shallow \cup deeper \cup Groups({<<x>> : x \in deeper})

SomeFolderLists == {<<>>, <<f1, f2>>, <<f3, f1, f2>>}

\* Of most filters only the body matters; some are listed by, page by page.
Listable == request.by = "filter" => request.filter \in Leaves

Ended ==
    /\ listErr \notin {"idle", "running"} \/ ~ Listable
    /\ page = "done" /\ (returned.err = "nil" => bulkErr \notin {"idle", "running"})
    /\ UNCHANGED allVars

MCNext ==
    \/ RetrievalNext /\ UNCHANGED metadataVars
    \/ /\ listErr \in {"idle", "running"}
       /\ Listable /\ MetadataNext
       /\ request'.by = "filter" => component = OneTable /\ component' = component
       /\ UNCHANGED retrievalVars
    \/ Ended

MCSpec ==
    MCInit /\ [][MCNext]_allVars /\ WF_allVars(Proceed /\ UNCHANGED <<bulkVars, metadataVars>>)
=============================================================================
