-------------------------------- MODULE Bulk --------------------------------
(***************************************************************************)
(* BulkGet (src/objects/bulk.go): a list of ids is fetched in chunks; an   *)
(* entry of an answer is attributed to an id by its position alone.        *)
(*                                                                         *)
(* The platform is the environment: per requested id it answers an object, *)
(* a miss, or something that cannot be decoded as the caller's type, and   *)
(* it may answer fewer entries than it was asked for, or more.             *)
(*                                                                         *)
(* An operator named X_Suffix is a faulty variant of X, used only to show  *)
(* that the properties notice the fault.                                   *)
(***************************************************************************)
EXTENDS Integers, Sequences

CONSTANTS
    Ids,
    bulkChunk     \* ids per request

ASSUME ChunkAssumption == bulkChunk \in Nat \ {0}

VARIABLES
    ids,        \* the ids BulkGet was called with
    start,      \* how many of them have been asked for
    objects,    \* ids of the decoded objects, in order
    misses,     \* ids of the misses, in order
    bulkErr,    \* not called, under way, or the error it returned
    verdicts    \* history: what the platform made of each id so far

bulkVars == <<ids, start, objects, misses, bulkErr, verdicts>>

BulkTypeOK ==
    /\ ids \in Seq(Ids)
    /\ start \in Nat
    /\ objects \in Seq(Ids)
    /\ misses \in Seq(Ids)
    /\ bulkErr \in {"idle", "running", "nil", "api", "truncated", "decode"}
    /\ verdicts \in Seq({"object", "miss"})

BulkInit ==
    /\ ids = <<>>
    /\ start = 0
    /\ objects = <<>>
    /\ misses = <<>>
    /\ bulkErr = "idle"
    /\ verdicts = <<>>

Call(list) ==
    /\ bulkErr = "idle"
    /\ ids' = list
    /\ bulkErr' = "running"
    /\ UNCHANGED <<start, objects, misses, verdicts>>

-----------------------------------------------------------------------------

ChunkEnd_OneShort ==
    IF start + bulkChunk < Len(ids) THEN start + bulkChunk - 1 ELSE Len(ids)
ChunkEnd == IF start + bulkChunk < Len(ids) THEN start + bulkChunk ELSE Len(ids)
Chunk == SubSeq(ids, start + 1, ChunkEnd)

\* The members of list whose verdict is v, collected from the first one on.
Picked(list, verdict, v) ==
    LET got[n \in 0..Len(verdict)] ==
          IF n = 0 THEN <<>>
          ELSE IF verdict[n] = v THEN Append(got[n - 1], list[n])
          ELSE got[n - 1]
    IN  got[Len(verdict)]

\* The ids of the chunk that the platform's answer gives verdict v.
Attributed(answer, v) == Picked(Chunk, answer, v)

\* One answer with one entry per id, all of them decodable or missing.
BulkChunkGet(answer) ==
    /\ bulkErr = "running" /\ start < Len(ids)
    /\ Len(answer) = Len(Chunk)
    /\ "garbage" \notin {answer[i] : i \in DOMAIN answer}
    /\ objects' = objects \o Attributed(answer, "object")
    /\ misses' = misses \o Attributed(answer, "miss")
    /\ verdicts' = verdicts \o answer
    /\ start' = start + bulkChunk
    /\ UNCHANGED <<ids, bulkErr>>

\* Any error returns no objects and no misses.
Fail(err) ==
    /\ bulkErr = "running" /\ start < Len(ids)
    /\ bulkErr' = err
    /\ objects' = <<>> /\ misses' = <<>>
    /\ UNCHANGED <<ids, start, verdicts>>

BulkFails(answer) ==
    \/ Fail("api")
    \/ Len(answer) # Len(Chunk) /\ Fail("truncated")
    \/ /\ Len(answer) = Len(Chunk)
       /\ \E i \in DOMAIN answer : answer[i] = "garbage"
       /\ Fail("decode")

BulkReturns ==
    /\ bulkErr = "running" /\ start >= Len(ids)
    /\ bulkErr' = "nil"
    /\ UNCHANGED <<ids, start, objects, misses, verdicts>>

-----------------------------------------------------------------------------
(* Properties *)

\* Every id is accounted for: with no error the objects are those of the ids
\* the platform answered an object for and the misses are the others, each
\* as often and in the order the caller asked, whatever the chunk borders;
\* with an error there is neither.
EveryIdAccountedFor ==
    /\ bulkErr = "nil" =>
         /\ Len(verdicts) = Len(ids)
         /\ Len(objects) + Len(misses) = Len(ids)
         /\ objects = Picked(ids, verdicts, "object")
         /\ misses = Picked(ids, verdicts, "miss")
    /\ bulkErr \notin {"nil", "running"} => objects = <<>> /\ misses = <<>>
=============================================================================
