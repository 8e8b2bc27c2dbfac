----------------------------- MODULE Pagination -----------------------------
(***************************************************************************)
(* QueryAll (src/objects/query.go): one query, its first page, the pages   *)
(* its tokens lead to, and the count check that decides whether what was   *)
(* collected may be returned.                                              *)
(*                                                                         *)
(* The platform is the environment.  It keeps the rows in a fixed order    *)
(* and a cursor behind the token; rows come and go while the caller pages, *)
(* an answer may be lost so that the retry (Client.Do) gets the page after *)
(* it, and a page may come without the token that leads on.  Each of these *)
(* is a disturbance; MaxDisturbances bounds them.                          *)
(*                                                                         *)
(* An operator named X_Suffix is a faulty variant of X, used only to show  *)
(* that the properties notice the fault.                                   *)
(***************************************************************************)
EXTENDS Integers, FiniteSets, Sequences

CONSTANTS
    Rows,             \* rows the entity may have; their order is the platform's
    PageSize,
    MaxDisturbances   \* bound: what goes wrong during one query

ASSUME RowsAssumption == Rows \subseteq Int /\ IsFiniteSet(Rows)
ASSUME PageAssumption == PageSize \in Nat \ {0} /\ MaxDisturbances \in Nat

VARIABLES
    table,      \* platform: the rows there are
    cursor,     \* platform: how many rows the query has served
    page,       \* pc: "first", "more" or "done"
    token,      \* the latest page came with a queryToken
    total,      \* numberOfResults of the first page
    results,    \* collected rows
    returned,   \* what QueryAll returns: an error or "nil", and rows
    snapshot,   \* history: the rows at the time of the first page
    disturbed   \* history: disturbances so far

platformVars == <<table, cursor>>
queryVars == <<page, token, total, results, returned>>
vars == <<platformVars, queryVars, snapshot, disturbed>>

InOrder(rows) ==
    CHOOSE s \in [1..Cardinality(rows) -> rows] :
        \A i, j \in DOMAIN s : i < j => s[i] < s[j]
Lesser(m, n) == IF m < n THEN m ELSE n

PaginationTypeOK ==
    /\ table \in SUBSET Rows
    /\ cursor \in Nat
    /\ page \in {"first", "more", "done"}
    /\ token \in BOOLEAN
    /\ total \in Nat
    /\ results \in Seq(Rows)
    /\ returned.err \in {"none", "nil", "api", "truncated"}
    /\ returned.rows \in Seq(Rows)
    /\ snapshot \in Seq(Rows)
    /\ disturbed \in 0..MaxDisturbances

Init ==
    /\ table \in SUBSET Rows
    /\ cursor = 0
    /\ page = "first"
    /\ token = FALSE
    /\ total = 0
    /\ results = <<>>
    /\ returned = [err |-> "none", rows |-> <<>>]
    /\ snapshot = <<>>
    /\ disturbed = 0

-----------------------------------------------------------------------------
(* One page *)

\* The platform serves the rows behind the cursor, if it serves at all.
PageEnd == Lesser(cursor + PageSize, Cardinality(table))
Page == SubSeq(InOrder(table), cursor + 1, PageEnd)
Advance == cursor' = PageEnd

\* A page comes with a token if there is more to serve; losing it is a
\* disturbance.
Token ==
    \/ /\ token' = (cursor' < Cardinality(table))
       /\ UNCHANGED disturbed
    \/ /\ cursor' < Cardinality(table) /\ disturbed < MaxDisturbances
       /\ token' = FALSE
       /\ disturbed' = disturbed + 1

QueryFirst_Remaining ==
    /\ page = "first"
    /\ page' = "more"
    /\ total' = Cardinality(table) - PageSize
    /\ results' = Page
    /\ Advance /\ Token
    /\ snapshot' = InOrder(table)
    /\ UNCHANGED <<table, returned>>
QueryFirst ==
    /\ page = "first"
    /\ page' = "more"
    /\ total' = Cardinality(table)
    /\ results' = Page
    /\ Advance /\ Token
    /\ snapshot' = InOrder(table)
    /\ UNCHANGED <<table, returned>>

QueryMore_KeepToken ==
    /\ page = "more" /\ token
    /\ results' = results \o Page
    /\ Advance
    /\ UNCHANGED <<table, page, token, total, returned, snapshot, disturbed>>
QueryMore ==
    /\ page = "more" /\ token
    /\ results' = results \o Page
    /\ Advance /\ Token
    /\ UNCHANGED <<table, page, total, returned, snapshot>>

\* Do fails, or the page cannot be decoded: an error, and no rows.
QueryFails ==
    /\ page = "first" \/ (page = "more" /\ token)
    /\ page' = "done"
    /\ returned' = [err |-> "api", rows |-> <<>>]
    /\ UNCHANGED <<platformVars, token, total, results, snapshot, disturbed>>

\* The tokens have run out.
Finish_Missing ==
    /\ page = "more" /\ ~token
    /\ page' = "done"
    /\ returned' = IF Len(results) < total
                     THEN [err |-> "truncated", rows |-> <<>>]
                     ELSE [err |-> "nil", rows |-> results]
    /\ UNCHANGED <<platformVars, token, total, results, snapshot, disturbed>>
Finish ==
    /\ page = "more" /\ ~token
    /\ page' = "done"
    /\ returned' = IF Len(results) # total
                     THEN [err |-> "truncated", rows |-> <<>>]
                     ELSE [err |-> "nil", rows |-> results]
    /\ UNCHANGED <<platformVars, token, total, results, snapshot, disturbed>>

-----------------------------------------------------------------------------
(* The environment between two pages *)

Disturb == page = "more" /\ disturbed < MaxDisturbances /\ disturbed' = disturbed + 1

\* Somebody creates or deletes a row.
Change(r) ==
    /\ Disturb
    /\ table' = IF r \in table THEN table \ {r} ELSE table \cup {r}
    /\ UNCHANGED <<cursor, queryVars, snapshot>>

\* A page is served, its answer is lost, and Do asks again.
LoseAnswer ==
    /\ token /\ Disturb
    /\ Advance
    /\ UNCHANGED <<table, queryVars, snapshot>>

\* Calls return and the caller goes on.
Proceed == QueryFirst \/ QueryMore \/ Finish
Query == Proceed \/ QueryFails
Disturbance == LoseAnswer \/ \E r \in Rows : Change(r)

-----------------------------------------------------------------------------
(* Properties *)

\* QueryAll completes or fails.  An error comes with no rows; and rows that
\* come with no error are exactly the rows there were when the query began,
\* each once and in order, if at most one thing went wrong on the way: every
\* single lost page, lost token, new row or deleted row is noticed by the
\* count.  (Two of them may cancel out.)
CompleteOrFail ==
    /\ returned.err # "nil" => returned.rows = <<>>
    /\ returned.err = "nil" /\ disturbed <= 1 => returned.rows = snapshot

\* Nothing that goes wrong keeps the query paging: it returns.
QueryEnds == <>(page = "done")
=============================================================================
