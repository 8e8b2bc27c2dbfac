----------------------------- MODULE Retrieval -----------------------------
(***************************************************************************)
(* Pagination and Bulk composed: a caller lists an entity's ids with       *)
(* QueryAll and fetches what it got with BulkGet, while rows come and go.  *)
(***************************************************************************)
EXTENDS Pagination, Bulk

ASSUME IdsAssumption == Rows \subseteq Ids

retrievalVars == <<vars, bulkVars>>

\* Every variable of the two modules has its type.
TypeOK == PaginationTypeOK /\ BulkTypeOK

RetrievalInit == Init /\ BulkInit

\* The ids are fetched one time as listed and one time with a repetition.
Fetch ==
    /\ returned.err = "nil"
    /\ \/ Call(returned.rows)
       \/ /\ returned.rows # <<>>
          /\ Call(Append(returned.rows, Head(returned.rows)))
    /\ UNCHANGED vars

\* What the platform may answer for a chunk: it has the rows of the table.  It
\* may answer too little, or one entry too many.
Answers ==
    {a \in UNION {[1..n -> {"object", "miss", "garbage"}] : n \in 0..Len(Chunk) + 1} :
        \A i \in DOMAIN a : i <= Len(Chunk) => (a[i] = "miss") = (Chunk[i] \notin table)}

BulkStep ==
    /\ \/ \E a \in Answers : BulkChunkGet(a)
       \/ \E a \in Answers : BulkFails(a)
       \/ BulkReturns
    /\ UNCHANGED vars

\* A listed row is deleted before it is fetched.
Vanish ==
    /\ bulkErr = "running"
    /\ \E r \in table : table' = table \ {r}
    /\ UNCHANGED <<cursor, queryVars, snapshot, disturbed, bulkVars>>

RetrievalNext ==
    \/ (Query \/ Disturbance) /\ UNCHANGED bulkVars
    \/ Fetch
    \/ BulkStep
    \/ Vanish

\* The caller goes on as long as calls return.
RetrievalSpec ==
    /\ RetrievalInit /\ [][RetrievalNext]_retrievalVars
    /\ WF_retrievalVars(Proceed /\ UNCHANGED bulkVars)
=============================================================================
