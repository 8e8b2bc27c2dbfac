------------------------------- MODULE Errors -------------------------------
(***************************************************************************)
(* What a caller can tell from an error of Do or Download (src/errors.go,  *)
(* the switch of evalAttempt in src/client.go, sendDownload in             *)
(* src/download.go): which class of answer a status is, and which Kind     *)
(* (an exit code of the caller) and which quirk an error chain shows.      *)
(* Statuses and texts are the representatives the code tells apart.        *)
(***************************************************************************)
EXTENDS Client

Statuses == {200, 202, 204, 304, 400, 401, 403, 404, 409, 429, 500, 503}
Texts == {"does not have access rights", "duplicate", "is invalid", "other"}

\* The switch of evalAttempt: how an attempt of Do ends.  A busy answer that
\* asks for too long a wait ends the call like one that finds no budget.
Fate(s) ==
    CASE s \in 200..299 -> "ok"
      [] s \in {401, 403} -> "auth"
      [] s = 429 \/ s >= 500 -> "busy"
      [] OTHER -> "refused"

\* sendDownload asks first whether the file is there yet.
FateOf(c, s) == IF c \in Downloads /\ s \in {202, 204} THEN "pending" ELSE Fate(s)

\* Statuses the latest answer of call c may have had.
StatusesOf(c) ==
    {s \in Statuses :
        FateOf(c, s) = IF answer[c] = "busyLong" THEN "busy" ELSE answer[c]}

-----------------------------------------------------------------------------
(* Error chains: the APIError in them, the sentinel, and whether something *)
(* below satisfies net.Error or is a url.Error                             *)

NoResponse == [status |-> 0, text |-> "none"]

\* Every chain the call may have returned.  A request that cannot be made may
\* fail with a url.Error of url.Parse.  A seek on a pipe fails with an
\* errno, which has the methods of a net.Error; one on a closed file with
\* the plain os.ErrClosed.
Chains(c) ==
    LET Chain(api, is, net) == [api |-> api, is |-> is, net |-> net]
        Captured == [status : StatusesOf(c), text : Texts]
    IN CASE result[c] = "api" -> {Chain(e, "none", FALSE) : e \in Captured}
         [] result[c] = "auth" -> {Chain(e, "ErrAuth", FALSE) : e \in Captured}
         [] result[c] = "circuit" -> {Chain(NoResponse, "ErrCircuitOpen", FALSE)}
         [] result[c] = "notReady" -> {Chain(NoResponse, "ErrNotReady", FALSE)}
         [] result[c] = "network" -> {Chain(NoResponse, "none", TRUE)}
         [] result[c] = "cancelled" ->
              {Chain(NoResponse, e, FALSE) : e \in {"Canceled", "DeadlineExceeded"}}
         [] result[c] = "request" -> {Chain(NoResponse, "none", n) : n \in BOOLEAN}
         [] result[c] = "body" -> {Chain(NoResponse, "none", Body[c] = "pipe")}
         [] OTHER -> {}

StatusKind_ThrottledIsCallers(s) ==
    CASE s \in {401, 403} -> "auth"
      [] s = 409 -> "conflict"
      [] s >= 500 -> "transport"
      [] s \in 400..499 \ {401, 403, 409} -> "validation"
      [] OTHER -> "unknown"
\* APIError.Kind.
StatusKind(s) ==
    CASE s \in {401, 403} -> "auth"
      [] s = 409 -> "conflict"
      [] s = 429 \/ s >= 500 -> "transport"
      [] s \in 400..499 \ {401, 403, 409, 429} -> "validation"
      [] OTHER -> "unknown"

\* KindOf: an APIError anywhere in the chain decides.
KindOf(err) ==
    IF err.api # NoResponse THEN StatusKind(err.api.status)
    ELSE
    CASE err.is \in {"ErrCircuitOpen", "ErrAuth"} -> "auth"
      [] err.is \in {"ErrTruncated", "DeadlineExceeded", "Canceled"} -> "transport"
      [] err.is = "none" /\ err.net -> "transport"
      [] OTHER -> "unknown"

\* The quirk predicates.
IsBranchUnlicensed(err) ==
    err.api.status \in {400, 403} /\ err.api.text = "does not have access rights"
IsDuplicateDeploy(err) == err.api.status = 400 /\ err.api.text = "duplicate"
IsLogNotReady(err) == err.api.status = 400 /\ err.api.text = "is invalid"

-----------------------------------------------------------------------------
\* A caller that maps kinds to exit codes, or acts on a quirk, draws the right
\* conclusion about its call:
\*  - "validation", "conflict" or a quirk, of a call that sent one request:
\*    the platform has not applied it and will not.  (A retried call may find
\*    its own first attempt in the way.)
\*  - "auth": the credential was rejected, or the open circuit kept the call
\*    from sending anything; and every such call is told so.
\*  - "transport" of an answer: trying again was allowed as often as the
\*    budget has it, unless the platform asked for too long a wait.
KindTellsEffect ==
    \A c \in Calls : \A err \in Chains(c) :
        LET Unapplied == sent[c] = 1 => applied[c] + inFlight[c] = 0
        IN /\ KindOf(err) \in {"validation", "conflict"} => Unapplied
           /\ IsBranchUnlicensed(err) \/ IsDuplicateDeploy(err) \/ IsLogNotReady(err)
                => Unapplied
           /\ KindOf(err) = "auth"
                <=> answer[c] = "auth" \/ (result[c] = "circuit" /\ sent[c] = 0)
           /\ KindOf(err) = "transport" /\ err.api # NoResponse =>
                sent[c] = Budgeted(c) \/ answer[c] = "busyLong"
=============================================================================
