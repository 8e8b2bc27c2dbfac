-------------------------- MODULE RetrievalProofs --------------------------
(***************************************************************************)
(* What QueryAll and BulkGet return, for every table, page size and chunk  *)
(* size.  RetrievalInv is inductive; the rest are facts about the          *)
(* operators the two models are built from.  Picked is recursive and       *)
(* InOrder is chosen, so these facts need induction; it is done with sets  *)
(* of numbers, by UpTo of MetadataProofs.                                  *)
(***************************************************************************)
EXTENDS Retrieval, MetadataProofs

-----------------------------------------------------------------------------
(* Picked *)

\* What Picked has collected after n verdicts, given what it had before.
Step(before, n, list, verdict, v) ==
    IF n = 0 THEN <<>>
    ELSE IF verdict[n] = v THEN Append(before, list[n])
    ELSE before

Grown(got, k, list, verdict, v) ==
    got = [n \in 0..k |-> Step(got[n - 1], n, list, verdict, v)]

LEMMA SomethingGrows ==
    ASSUME NEW list, NEW verdict, NEW v, NEW k \in Nat
    PROVE  \E got : Grown(got, k, list, verdict, v)
<1> DEFINE Good == {n \in Nat : \E got : Grown(got, n, list, verdict, v)}
<1>1. 0 \in Good
  <2> DEFINE got == [i \in 0..0 |-> <<>>]
  <2>1. Grown(got, 0, list, verdict, v)
    BY DEF Grown, Step
  <2> QED
    BY <2>1
<1>2. ASSUME NEW n \in 1..k, n - 1 \in Good
      PROVE  n \in Good
  <2>1. PICK got : Grown(got, n - 1, list, verdict, v)
    BY <1>2
  <2> DEFINE more == [i \in 0..n |->
                        IF i = n THEN Step(got[n - 1], n, list, verdict, v) ELSE got[i]]
  <2>2. ASSUME NEW i \in 0..n
        PROVE  more[i] = Step(more[i - 1], i, list, verdict, v)
    <3>1. CASE i = n
      BY <3>1
    <3>2. CASE i # n /\ i # 0
      BY <3>2, <2>1 DEF Grown
    <3>3. CASE i # n /\ i = 0
      BY <3>3, <2>1 DEF Grown, Step
    <3> QED
      BY <3>1, <3>2, <3>3
  <2>3. Grown(more, n, list, verdict, v)
    BY <2>2 DEF Grown
  <2> QED
    BY <2>3
<1> HIDE DEF Good
<1>3. 0..k \subseteq Good
  BY <1>1, <1>2, UpTo
<1> QED
  BY <1>3 DEF Good

\* Collected as Picked does it, from the first verdict to the last.
Collects(got, list, verdict, v) ==
    /\ got[0] = <<>>
    /\ \A n \in 1..Len(verdict) :
         got[n] = IF verdict[n] = v THEN Append(got[n - 1], list[n]) ELSE got[n - 1]

LEMMA PickedCollects ==
    ASSUME NEW list, NEW verdict, Len(verdict) \in Nat, NEW v
    PROVE  \E got : Collects(got, list, verdict, v) /\ Picked(list, verdict, v) = got[Len(verdict)]
<1> DEFINE g == CHOOSE got : Grown(got, Len(verdict), list, verdict, v)
<1>1. Grown(g, Len(verdict), list, verdict, v)
  BY SomethingGrows
<1>2. Picked(list, verdict, v) = g[Len(verdict)]
  BY DEF Picked, Grown, Step
<1> HIDE DEF g
<1>3. \A n \in 0..Len(verdict) : g[n] = Step(g[n - 1], n, list, verdict, v)
  BY <1>1 DEF Grown
<1>4. g[0] = <<>>
  BY <1>3 DEF Step
<1>5. ASSUME NEW n \in 1..Len(verdict)
      PROVE  g[n] = IF verdict[n] = v THEN Append(g[n - 1], list[n]) ELSE g[n - 1]
  BY <1>3 DEF Step
<1>6. Collects(g, list, verdict, v)
  BY <1>4, <1>5 DEF Collects
<1> QED
  BY <1>2, <1>6

\* What is collected on the way is a sequence of members of the list.
LEMMA CollectedType ==
    ASSUME NEW S, NEW list \in Seq(S), NEW verdict, Len(verdict) \in 0..Len(list),
           NEW v, NEW got, Collects(got, list, verdict, v)
    PROVE  \A n \in 0..Len(verdict) : got[n] \in Seq(S)
<1> DEFINE Good == {n \in 0..Len(verdict) : got[n] \in Seq(S)}
<1>1. 0 \in Good
  <2>1. got[0] = <<>>
    BY DEF Collects
  <2>2. got[0] \in Seq(S)
    BY <2>1
  <2> QED
    BY <2>2
<1>2. ASSUME NEW n \in 1..Len(verdict), n - 1 \in Good
      PROVE  n \in Good
  <2>1. got[n - 1] \in Seq(S) /\ list[n] \in S
    BY <1>2
  <2>2. got[n] = IF verdict[n] = v THEN Append(got[n - 1], list[n]) ELSE got[n - 1]
    BY DEF Collects
  <2>3. got[n] \in Seq(S)
    BY <2>1, <2>2
  <2> QED
    BY <2>3
<1>3. Len(verdict) \in Nat
  OBVIOUS
<1> HIDE DEF Good
<1>4. 0..Len(verdict) \subseteq Good
  BY <1>1, <1>2, <1>3, UpTo
<1> QED
  BY <1>4 DEF Good

\* Concatenation and slices under names of their own, for the provers' sake.
Joined(s, t) == s \o t
Part(s, i, j) == SubSeq(s, i, j)

LEMMA JoinedAppend ==
    \A S : \A s, t \in Seq(S) : \A e \in S :
        Append(Joined(s, t), e) = Joined(s, Append(t, e))
BY DEF Joined

\* Splitting the list splits what is picked from it.
LEMMA PickedSplits ==
    ASSUME NEW S, NEW V, NEW list \in Seq(S), NEW verdict \in Seq(V), NEW answer \in Seq(V),
           Len(verdict) + Len(answer) <= Len(list),
           NEW chunk, chunk = Part(list, Len(verdict) + 1, Len(verdict) + Len(answer)),
           NEW both, both = Joined(verdict, answer),
           NEW v
    PROVE  Picked(list, both, v) = Joined(Picked(list, verdict, v), Picked(chunk, answer, v))
<1> DEFINE k == Len(verdict)
<1>1. both \in Seq(V) /\ Len(both) = k + Len(answer) /\ k \in Nat /\ Len(answer) \in Nat
  BY DEF Joined
<1>2. chunk \in Seq(S) /\ Len(chunk) = Len(answer)
      /\ \A n \in 1..Len(answer) : chunk[n] = list[k + n]
  BY SubSeqProperties DEF Part
<1>3. Len(both) \in Nat /\ Len(verdict) \in Nat /\ Len(answer) \in Nat
      /\ Len(verdict) \in 0..Len(list) /\ Len(answer) \in 0..Len(chunk)
  BY <1>1, <1>2
<1>4. PICK whole : Collects(whole, list, both, v) /\ Picked(list, both, v) = whole[Len(both)]
  BY <1>3, PickedCollects
<1>5. PICK first : Collects(first, list, verdict, v)
                   /\ Picked(list, verdict, v) = first[Len(verdict)]
  BY <1>3, PickedCollects
<1>6. PICK rest : Collects(rest, chunk, answer, v)
                  /\ Picked(chunk, answer, v) = rest[Len(answer)]
  BY <1>3, PickedCollects
<1>7. \A n \in 0..Len(verdict) : first[n] \in Seq(S)
  BY <1>3, <1>5, CollectedType
<1>8. \A n \in 0..Len(answer) : rest[n] \in Seq(S)
  BY <1>2, <1>3, <1>6, CollectedType
<1> HIDE DEF k
<1>9. \A n \in 0..k : whole[n] = first[n]
  <2> DEFINE Good == {n \in 0..k : whole[n] = first[n]}
  <2>1. 0 \in Good
    BY <1>1, <1>4, <1>5 DEF Collects
  <2>2. ASSUME NEW n \in 1..k, n - 1 \in Good
        PROVE  n \in Good
    <3>1. whole[n - 1] = first[n - 1] /\ both[n] = verdict[n] /\ n \in 1..Len(both)
      BY <1>1, <2>2 DEF k, Joined
    <3>2. whole[n] = first[n]
      BY <1>4, <1>5, <2>2, <3>1 DEF Collects, k
    <3> QED
      BY <3>2
  <2> HIDE DEF Good
  <2>3. 0..k \subseteq Good
    BY <1>1, <2>1, <2>2, UpTo
  <2> QED
    BY <2>3 DEF Good
<1> DEFINE glued == [n \in 0..Len(answer) |-> Joined(first[k], rest[n])]
<1>10. glued[0] = first[k]
  <2>1. rest[0] = <<>> /\ first[k] \in Seq(S)
    BY <1>1, <1>6, <1>7 DEF Collects, k
  <2>2. glued[0] = Joined(first[k], rest[0])
    BY <1>1
  <2>3. Joined(first[k], <<>>) = first[k]
    BY <2>1 DEF Joined
  <2> QED
    BY <2>1, <2>2, <2>3
<1>11. ASSUME NEW n \in 1..Len(answer)
       PROVE  glued[n] = IF answer[n] = v THEN Append(glued[n - 1], chunk[n])
                         ELSE glued[n - 1]
  <2>1. rest[n] = IF answer[n] = v THEN Append(rest[n - 1], chunk[n]) ELSE rest[n - 1]
    BY <1>6, <1>11 DEF Collects
  <2>2. first[k] \in Seq(S) /\ rest[n - 1] \in Seq(S) /\ chunk[n] \in S
    BY <1>1, <1>2, <1>7, <1>8, <1>11 DEF k
  <2>3. Append(Joined(first[k], rest[n - 1]), chunk[n])
          = Joined(first[k], Append(rest[n - 1], chunk[n]))
    <3>1. \A s, t \in Seq(S) : \A e \in S :
            Append(Joined(s, t), e) = Joined(s, Append(t, e))
      BY JoinedAppend
    <3> QED
      BY <2>2, <3>1, Zenon
  <2>4. n - 1 \in 0..Len(answer) /\ n \in 0..Len(answer)
    BY <1>1, <1>11
  <2>5. glued[n - 1] = Joined(first[k], rest[n - 1]) /\ glued[n] = Joined(first[k], rest[n])
    BY <2>4
  <2> QED
    BY <2>1, <2>3, <2>5
<1> HIDE DEF glued
<1>12. \A n \in 0..Len(answer) : whole[k + n] = glued[n]
  <2> DEFINE Good == {n \in 0..Len(answer) : whole[k + n] = glued[n]}
  <2>1. 0 \in Good
    BY <1>1, <1>9, <1>10
  <2>2. ASSUME NEW n \in 1..Len(answer), n - 1 \in Good
        PROVE  n \in Good
    <3>1. whole[k + (n - 1)] = glued[n - 1]
      BY <2>2
    <3>2. both[k + n] = answer[n] /\ k + n \in 1..Len(both) /\ (k + n) - 1 = k + (n - 1)
      BY <1>1, <2>2 DEF k, Joined
    <3>3. list[k + n] = chunk[n]
      BY <1>2, <2>2
    <3>4. whole[k + n] = IF answer[n] = v THEN Append(whole[k + (n - 1)], chunk[n])
                         ELSE whole[k + (n - 1)]
      BY <1>4, <3>2, <3>3 DEF Collects
    <3>5. whole[k + n] = glued[n]
      BY <1>11, <2>2, <3>1, <3>4
    <3> QED
      BY <1>1, <2>2, <3>5
  <2> HIDE DEF Good
  <2>3. 0..Len(answer) \subseteq Good
    BY <1>1, <2>1, <2>2, UpTo
  <2> QED
    BY <2>3 DEF Good
<1>13. whole[Len(both)] = glued[Len(answer)]
  BY <1>1, <1>12
<1>14. glued[Len(answer)] = Joined(first[k], rest[Len(answer)])
  BY <1>1 DEF glued
<1> QED
  BY <1>4, <1>5, <1>6, <1>13, <1>14 DEF k

LEMMA PickedSplitsAll ==
    \A S, V : \A list \in Seq(S) : \A verdict, answer \in Seq(V) : \A v :
        Len(verdict) + Len(answer) <= Len(list)
          => Picked(list, Joined(verdict, answer), v)
               = Joined(Picked(list, verdict, v),
                        Picked(Part(list, Len(verdict) + 1, Len(verdict) + Len(answer)),
                               answer, v))
<1> TAKE S, V
<1> TAKE list \in Seq(S)
<1> TAKE verdict, answer \in Seq(V)
<1> TAKE v
<1> HAVE Len(verdict) + Len(answer) <= Len(list)
<1> DEFINE chunk == Part(list, Len(verdict) + 1, Len(verdict) + Len(answer))
           both == Joined(verdict, answer)
<1>1. chunk = Part(list, Len(verdict) + 1, Len(verdict) + Len(answer))
      /\ both = Joined(verdict, answer)
  OBVIOUS
<1> HIDE DEF chunk, both
<1>2. Picked(list, both, v) = Joined(Picked(list, verdict, v), Picked(chunk, answer, v))
  BY <1>1, PickedSplits
<1> QED
  BY <1>1, <1>2

\* Every verdict picks its id once.
LEMMA PickedCounts ==
    ASSUME NEW S, NEW list \in Seq(S), NEW verdict \in Seq({"object", "miss"}),
           Len(verdict) <= Len(list)
    PROVE  /\ Picked(list, verdict, "object") \in Seq(S)
           /\ Picked(list, verdict, "miss") \in Seq(S)
           /\ Len(Picked(list, verdict, "object")) + Len(Picked(list, verdict, "miss"))
                = Len(verdict)
<1> DEFINE k == Len(verdict)
<1>0. k \in Nat /\ k \in 0..Len(list)
  OBVIOUS
<1>1. PICK o : Collects(o, list, verdict, "object") /\ Picked(list, verdict, "object") = o[k]
  BY PickedCollects
<1>2. PICK m : Collects(m, list, verdict, "miss") /\ Picked(list, verdict, "miss") = m[k]
  BY PickedCollects
<1>3. \A n \in 0..k : o[n] \in Seq(S) /\ m[n] \in Seq(S)
  BY <1>0, <1>1, <1>2, CollectedType
<1> HIDE DEF k
<1> DEFINE tally == [n \in 0..k |-> Len(o[n]) + Len(m[n])]
<1>4. tally[0] = 0
  <2>1. o[0] = <<>> /\ m[0] = <<>>
    BY <1>1, <1>2 DEF Collects
  <2>2. Len(o[0]) = 0 /\ Len(m[0]) = 0
    BY <2>1
  <2>3. tally[0] = Len(o[0]) + Len(m[0])
    BY <1>0
  <2> HIDE DEF tally
  <2> QED
    BY <2>2, <2>3
<1>5. ASSUME NEW n \in 1..k
      PROVE  tally[n] = tally[n - 1] + 1
  <2>1. list[n] \in S /\ verdict[n] \in {"object", "miss"} /\ n - 1 \in 0..k /\ n \in 0..k
    BY <1>0 DEF k
  <2>2. o[n] = IF verdict[n] = "object" THEN Append(o[n - 1], list[n]) ELSE o[n - 1]
    BY <1>1 DEF Collects, k
  <2>3. m[n] = IF verdict[n] = "miss" THEN Append(m[n - 1], list[n]) ELSE m[n - 1]
    BY <1>2 DEF Collects, k
  <2>4. o[n - 1] \in Seq(S) /\ m[n - 1] \in Seq(S)
    BY <1>3, <2>1
  <2>5. Len(o[n - 1]) \in Nat /\ Len(m[n - 1]) \in Nat
    BY <2>4
  <2>6. \/ Len(o[n]) = Len(o[n - 1]) + 1 /\ Len(m[n]) = Len(m[n - 1])
        \/ Len(o[n]) = Len(o[n - 1]) /\ Len(m[n]) = Len(m[n - 1]) + 1
    BY <2>1, <2>2, <2>3, <2>4
  <2>7. tally[n] = Len(o[n]) + Len(m[n]) /\ tally[n - 1] = Len(o[n - 1]) + Len(m[n - 1])
    BY <2>1
  <2>8. \E a, b \in Nat :
          /\ tally[n - 1] = a + b
          /\ tally[n] = (a + 1) + b \/ tally[n] = a + (b + 1)
    BY <2>5, <2>6, <2>7, Zenon
  <2> HIDE DEF tally
  <2> QED
    BY <2>8
<1>6. tally[k] = Len(o[k]) + Len(m[k])
  BY <1>0
<1> HIDE DEF tally
<1>7. tally[k] = k
  <2> DEFINE Good == {n \in 0..k : tally[n] = n}
  <2>1. 0 \in Good
    BY <1>0, <1>4
  <2>2. ASSUME NEW n \in 1..k, n - 1 \in Good
        PROVE  n \in Good
    BY <1>0, <1>5, <2>2
  <2> HIDE DEF Good
  <2>3. 0..k \subseteq Good
    BY <1>0, <2>1, <2>2, UpTo
  <2> QED
    BY <1>0, <2>3 DEF Good
<1>8. o[k] \in Seq(S) /\ m[k] \in Seq(S)
  BY <1>0, <1>3
<1> QED
  BY <1>1, <1>2, <1>6, <1>7, <1>8 DEF k

-----------------------------------------------------------------------------
(* InOrder *)

LEMMA Greatest ==
    ASSUME NEW S, S \in SUBSET Int, IsFiniteSet(S), S # {}
    PROVE  \E x \in S : \A y \in S : y <= x
<1> DEFINE Good == {n \in Nat : \A T \in SUBSET Int :
                      IsFiniteSet(T) /\ Cardinality(T) = n /\ T # {}
                        => \E x \in T : \A y \in T : y <= x}
<1>1. 0 \in Good
  BY FS_EmptySet
<1>2. ASSUME NEW n \in 1..Cardinality(S), n - 1 \in Good
      PROVE  n \in Good
  <2> SUFFICES ASSUME NEW T \in SUBSET Int, IsFiniteSet(T), Cardinality(T) = n, T # {}
               PROVE  \E x \in T : \A y \in T : y <= x
    BY <1>2
  <2>1. PICK x \in T : TRUE
    OBVIOUS
  <2>2. IsFiniteSet(T \ {x}) /\ Cardinality(T \ {x}) = n - 1
    BY FS_RemoveElement
  <2>3. CASE T \ {x} = {}
    BY <2>1, <2>3
  <2>4. CASE T \ {x} # {}
    <3>1. PICK m \in T \ {x} : \A y \in T \ {x} : y <= m
      BY <1>2, <2>2, <2>4
    <3> QED
      BY <2>1, <3>1
  <2> QED
    BY <2>3, <2>4
<1>3. Cardinality(S) \in Nat
  BY FS_CardinalityType
<1> HIDE DEF Good
<1>4. 0..Cardinality(S) \subseteq Good
  BY <1>1, <1>2, <1>3, UpTo
<1>5. Cardinality(S) \in Good
  BY <1>3, <1>4
<1> QED
  BY <1>5 DEF Good

Ascends(s) == \A i, j \in DOMAIN s : i < j => s[i] < s[j]

\* Every finite set of rows can be put in order.
LEMMA OrderExists ==
    ASSUME NEW S, S \in SUBSET Int, IsFiniteSet(S)
    PROVE  \E s \in [1..Cardinality(S) -> S] : Ascends(s)
<1> DEFINE Good == {n \in Nat : \A T \in SUBSET Int :
                      IsFiniteSet(T) /\ Cardinality(T) = n
                        => \E s \in [1..n -> T] : Ascends(s)}
<1>1. 0 \in Good
  <2>1. ASSUME NEW T \in SUBSET Int
        PROVE  \E s \in [1..0 -> T] : Ascends(s)
    <3>1. [i \in 1..0 |-> 0] \in [1..0 -> T]
      OBVIOUS
    <3>2. Ascends([i \in 1..0 |-> 0])
      BY DEF Ascends
    <3> QED
      BY <3>1, <3>2
  <2> QED
    BY <2>1
<1>2. ASSUME NEW n \in 1..Cardinality(S), n - 1 \in Good
      PROVE  n \in Good
  <2> SUFFICES ASSUME NEW T \in SUBSET Int, IsFiniteSet(T), Cardinality(T) = n
               PROVE  \E s \in [1..n -> T] : Ascends(s)
    BY <1>2
  <2>1. T # {}
    BY FS_EmptySet
  <2>2. PICK x \in T : \A y \in T : y <= x
    BY <2>1, Greatest
  <2>3. IsFiniteSet(T \ {x}) /\ Cardinality(T \ {x}) = n - 1
    BY FS_RemoveElement
  <2>4. PICK s \in [1..(n - 1) -> T \ {x}] : Ascends(s)
    BY <1>2, <2>3
  <2> DEFINE t == [i \in 1..n |-> IF i = n THEN x ELSE s[i]]
  <2>5. t \in [1..n -> T]
    BY <2>4
  <2>6. ASSUME NEW i \in 1..n, NEW j \in 1..n, i < j
        PROVE  t[i] < t[j]
    <3>1. i \in 1..(n - 1) /\ t[i] = s[i] /\ s[i] \in T \ {x}
      BY <2>4, <2>6
    <3>2. CASE j = n
      <4>1. t[j] = x /\ x \in Int
        BY <3>2
      <4>2. s[i] <= x /\ s[i] # x /\ s[i] \in Int
        BY <2>2, <3>1
      <4>3. s[i] < x
        BY <4>1, <4>2
      <4> QED
        BY <3>1, <4>1, <4>3
    <3>3. CASE j # n
      <4>1. j \in 1..(n - 1) /\ t[j] = s[j]
        BY <3>3
      <4> QED
        BY <2>4, <2>6, <3>1, <4>1 DEF Ascends
    <3> QED
      BY <3>2, <3>3
  <2>7. Ascends(t)
    BY <2>6 DEF Ascends
  <2> QED
    BY <2>5, <2>7
<1>3. Cardinality(S) \in Nat
  BY FS_CardinalityType
<1> HIDE DEF Good
<1>4. 0..Cardinality(S) \subseteq Good
  BY <1>1, <1>2, <1>3, UpTo
<1>5. Cardinality(S) \in Good
  BY <1>3, <1>4
<1> QED
  BY <1>5 DEF Good

\* The platform's list of a table has every row of it in a place of its own.
LEMMA InOrderFacts ==
    ASSUME NEW S \in SUBSET Rows
    PROVE  /\ Cardinality(S) \in Nat
           /\ InOrder(S) \in [1..Cardinality(S) -> S]
           /\ InOrder(S) \in Seq(Rows)
           /\ Len(InOrder(S)) = Cardinality(S)
<1>1. S \in SUBSET Int /\ IsFiniteSet(S) /\ Cardinality(S) \in Nat
  BY RowsAssumption, FS_Subset, FS_CardinalityType
<1>2. \E s \in [1..Cardinality(S) -> S] : \A i, j \in DOMAIN s : i < j => s[i] < s[j]
  BY <1>1, OrderExists DEF Ascends
<1>3. InOrder(S) \in [1..Cardinality(S) -> S]
  BY <1>2 DEF InOrder
<1> HIDE DEF InOrder
<1>4. InOrder(S) \in [1..Cardinality(S) -> Rows]
  BY <1>3
<1> QED
  BY <1>1, <1>3, <1>4

-----------------------------------------------------------------------------
(* QueryAll: the invariant *)

\* Nothing has gone wrong yet: what was collected is what the platform has
\* served of its list, and there is a token exactly if there is more.
Undisturbed ==
    /\ snapshot = InOrder(table)
    /\ total = Cardinality(table)
    /\ cursor <= total
    /\ results = SubSeq(snapshot, 1, cursor)
    /\ token = (cursor < total)

\* One thing went wrong.  With the tokens at an end, the count is off unless
\* all rows were there already; otherwise pages were lost, or the table is
\* one row longer or shorter than the count, and the count will be off.
Settled == ~ token /\ (Len(results) # total \/ results = snapshot)
PageLost ==
    /\ token
    /\ Cardinality(table) = total
    /\ Len(results) < cursor /\ cursor <= total
TableChanged ==
    /\ token
    /\ Cardinality(table) \in {total - 1, total + 1}
    /\ Len(results) = cursor /\ cursor <= Cardinality(table)

PageInv ==
    /\ PaginationTypeOK
    /\ page = "first" => cursor = 0 /\ disturbed = 0
    /\ page # "done" => returned.err = "none" /\ returned.rows = <<>>
    /\ page = "more" /\ disturbed = 0 => Undisturbed
    /\ page = "more" /\ disturbed = 1 => Settled \/ PageLost \/ TableChanged
    /\ CompleteOrFail


LEMMA LesserFacts ==
    ASSUME NEW m \in Int, NEW n \in Int
    PROVE  /\ Lesser(m, n) \in {m, n}
           /\ Lesser(m, n) <= m /\ Lesser(m, n) <= n
BY DEF Lesser

\* A page has the rows behind the cursor, as many as it moves on.
LEMMA PageFacts ==
    ASSUME PaginationTypeOK
    PROVE  /\ Cardinality(table) \in Nat /\ PageEnd \in Nat
           /\ PageEnd <= Cardinality(table)
           /\ cursor < Cardinality(table) => cursor < PageEnd
           /\ Page \in Seq(Rows)
           /\ cursor <= Cardinality(table) => Len(Page) = PageEnd - cursor
<1> DEFINE N == Cardinality(table)
<1>1. N \in Nat /\ InOrder(table) \in Seq(Rows) /\ Len(InOrder(table)) = N
  BY InOrderFacts DEF PaginationTypeOK
<1>2. cursor \in Nat /\ PageSize \in Nat /\ PageSize >= 1
  BY PageAssumption DEF PaginationTypeOK
<1> HIDE DEF N
<1>3. PageEnd = Lesser(cursor + PageSize, N)
  BY DEF PageEnd, N
<1>4. PageEnd \in Nat /\ PageEnd <= N /\ (cursor < N => cursor < PageEnd)
      /\ (cursor <= N => cursor <= PageEnd)
  BY <1>1, <1>2, <1>3 DEF Lesser
<1>5. \A i \in (cursor + 1)..PageEnd : InOrder(table)[i] \in Rows
  BY <1>1, <1>2, <1>4, ElementOfSeq
<1>6. /\ Page \in Seq(Rows)
      /\ Len(Page) = IF cursor + 1 <= PageEnd THEN PageEnd - (cursor + 1) + 1 ELSE 0
  BY <1>2, <1>4, <1>5, SubSeqProperties DEF Page
<1> QED
  BY <1>1, <1>2, <1>4, <1>6 DEF N

LEMMA PageInvStarts == Init => PageInv
<1> SUFFICES ASSUME Init PROVE PageInv
  OBVIOUS
<1>1. PaginationTypeOK
  <2>1. returned.err = "none" /\ returned.rows = <<>>
    BY DEF Init
  <2>2. 0 \in 0..MaxDisturbances /\ <<>> \in Seq(Rows)
    BY PageAssumption
  <2> QED
    BY <2>1, <2>2 DEF Init, PaginationTypeOK
<1> QED
  BY <1>1 DEF Init, PageInv, CompleteOrFail

\* What a token and the number of disturbances may be after a page.
LEMMA TokenFacts ==
    ASSUME PaginationTypeOK, Token
    PROVE  /\ token' \in BOOLEAN /\ disturbed' \in 0..MaxDisturbances
           /\ token' => cursor' < Cardinality(table)
           /\ \/ disturbed' = disturbed /\ token' = (cursor' < Cardinality(table))
              \/ /\ disturbed' = disturbed + 1
                 /\ ~ token' /\ cursor' < Cardinality(table)
<1>1. disturbed \in 0..MaxDisturbances /\ MaxDisturbances \in Nat
  BY PageAssumption DEF PaginationTypeOK
<1>2. CASE token' = (cursor' < Cardinality(table)) /\ UNCHANGED disturbed
  <2>1. token' \in BOOLEAN
    <3>1. (cursor' < Cardinality(table)) \in BOOLEAN
      OBVIOUS
    <3> QED
      BY <1>2, <3>1, Zenon
  <2>2. token' => cursor' < Cardinality(table)
    BY <1>2, Zenon
  <2>3. disturbed' \in 0..MaxDisturbances
    BY <1>1, <1>2
  <2> QED
    BY <1>2, <2>1, <2>2, <2>3, Zenon
<1>3. CASE /\ cursor' < Cardinality(table) /\ disturbed < MaxDisturbances
           /\ token' = FALSE /\ disturbed' = disturbed + 1
  <2>1. disturbed' \in 0..MaxDisturbances
    BY <1>1, <1>3
  <2> QED
    BY <1>3, <2>1, Zenon
<1> QED
  BY <1>2, <1>3, Zenon DEF Token

LEMMA FirstPageKept ==
    ASSUME PageInv, QueryFirst
    PROVE  PageInv'
<1> DEFINE N == Cardinality(table)
<1>1. PaginationTypeOK /\ cursor = 0 /\ disturbed = 0
      /\ returned.err = "none" /\ returned.rows = <<>>
  BY DEF PageInv, QueryFirst
<1>2. /\ N \in Nat /\ PageEnd \in 0..N
      /\ Page \in Seq(Rows) /\ Len(Page) = PageEnd
  BY <1>1, PageFacts
<1>3. /\ page' = "more" /\ total' = N /\ results' = Page /\ cursor' = PageEnd
      /\ Token /\ snapshot' = InOrder(table) /\ UNCHANGED <<table, returned>>
  BY DEF QueryFirst, Advance
<1>4. InOrder(table) \in Seq(Rows)
  BY <1>1, InOrderFacts DEF PaginationTypeOK
<1>5. /\ token' \in BOOLEAN /\ disturbed' \in 0..MaxDisturbances
      /\ \/ disturbed' = 0 /\ token' = (PageEnd < N)
         \/ disturbed' = 1 /\ ~ token' /\ PageEnd < N
  BY <1>1, <1>3, TokenFacts
<1>6. PaginationTypeOK'
  <2>1. returned.rows \in Seq(Rows) /\ table \in SUBSET Rows
    BY <1>1 DEF PaginationTypeOK
  <2>2. cursor' \in Nat /\ total' \in Nat
    BY <1>2, <1>3
  <2>3. results' \in Seq(Rows) /\ snapshot' \in Seq(Rows)
    BY <1>2, <1>3, <1>4
  <2>4. token' \in BOOLEAN /\ disturbed' \in 0..MaxDisturbances
    BY <1>5
  <2> QED
    BY <1>1, <1>3, <2>1, <2>2, <2>3, <2>4 DEF PaginationTypeOK
<1>7. Page = SubSeq(InOrder(table), 1, PageEnd)
  BY <1>1 DEF Page
<1>8. disturbed' = 0 => Undisturbed'
  BY <1>2, <1>3, <1>5, <1>7 DEF Undisturbed
<1>9. disturbed' = 1 => Settled'
  BY <1>2, <1>3, <1>5 DEF Settled
<1> QED
  BY <1>1, <1>3, <1>6, <1>8, <1>9 DEF PageInv, CompleteOrFail

LEMMA NextPageKept ==
    ASSUME PageInv, QueryMore
    PROVE  PageInv'
<1> DEFINE N == Cardinality(table)
<1>1. PaginationTypeOK /\ page = "more" /\ token
      /\ returned.err = "none" /\ returned.rows = <<>>
  BY DEF PageInv, QueryMore
<1>2. /\ N \in Nat /\ PageEnd \in 0..N
      /\ cursor < N => cursor < PageEnd
      /\ Page \in Seq(Rows)
      /\ cursor <= N => Len(Page) = PageEnd - cursor
  BY <1>1, PageFacts
<1>3. /\ page' = "more" /\ results' = results \o Page /\ cursor' = PageEnd
      /\ Token /\ UNCHANGED <<table, total, returned, snapshot>>
  BY <1>1 DEF QueryMore, Advance
<1>4. /\ cursor \in Nat /\ total \in Nat /\ results \in Seq(Rows) /\ disturbed \in Nat
      /\ snapshot \in Seq(Rows) /\ Len(results) \in Nat /\ disturbed \in 0..MaxDisturbances
  BY <1>1, PageAssumption DEF PaginationTypeOK
<1>5. /\ token' \in BOOLEAN /\ disturbed' \in 0..MaxDisturbances
      /\ token' => PageEnd < N
      /\ \/ disturbed' = disturbed /\ token' = (PageEnd < N)
         \/ disturbed' = disturbed + 1 /\ ~ token' /\ PageEnd < N
  BY <1>1, <1>3, TokenFacts
<1>6. results' \in Seq(Rows) /\ Len(results') = Len(results) + Len(Page)
  <2>1. /\ results \o Page \in Seq(Rows)
        /\ Len(results \o Page) = Len(results) + Len(Page)
    BY <1>2, <1>4
  <2>2. results' = results \o Page
    BY <1>3
  <2> QED
    BY <2>1, <2>2
<1> HIDE DEF N
<1>7. PaginationTypeOK'
  <2>1. returned.rows \in Seq(Rows) /\ table \in SUBSET Rows
    BY <1>1 DEF PaginationTypeOK
  <2>2. cursor' \in Nat
    BY <1>2, <1>3
  <2> QED
    BY <1>1, <1>3, <1>4, <1>5, <1>6, <2>1, <2>2 DEF PaginationTypeOK
<1>8. CASE disturbed = 0
  <2>1. Undisturbed
    BY <1>1, <1>8 DEF PageInv
  <2>2. /\ snapshot = InOrder(table) /\ total = N /\ cursor < N
        /\ results = SubSeq(snapshot, 1, cursor) /\ Len(snapshot) = N
    BY <1>1, <2>1, InOrderFacts DEF Undisturbed, PaginationTypeOK, N
  <2>3. Page = SubSeq(snapshot, cursor + 1, PageEnd)
    BY <2>2 DEF Page
  <2>4. results' = SubSeq(snapshot, 1, PageEnd)
    <3>1. 1 \in 1..Len(snapshot) + 1 /\ cursor \in (1 - 1)..Len(snapshot)
          /\ PageEnd \in cursor..Len(snapshot)
      BY <1>2, <1>4, <2>2
    <3>2. SubSeq(snapshot, 1, cursor) \o SubSeq(snapshot, cursor + 1, PageEnd)
            = SubSeq(snapshot, 1, PageEnd)
      BY <1>4, <3>1, ConcatAdjacentSubSeq
    <3> QED
      BY <1>3, <2>2, <2>3, <3>2
  <2>5. Len(results') = PageEnd
    BY <1>2, <1>4, <2>2, <2>4
  <2>6. ASSUME disturbed' = 0
        PROVE  Undisturbed'
    <3>1. token' = (PageEnd < N)
      BY <1>5, <1>8, <2>6
    <3>2. token' = (cursor' < total')
      BY <1>3, <2>2, <3>1
    <3>3. cursor' <= total'
      BY <1>2, <1>3, <2>2
    <3>4. snapshot' = InOrder(table') /\ total' = Cardinality(table')
          /\ results' = SubSeq(snapshot', 1, cursor')
      BY <1>3, <2>2, <2>4 DEF N
    <3> QED
      BY <3>2, <3>3, <3>4 DEF Undisturbed
  <2>7. ASSUME disturbed' = 1
        PROVE  Settled'
    <3>1. ~ token' /\ PageEnd < N
      BY <1>5, <1>8, <2>7
    <3>2. total' = N /\ Len(results') < N
      BY <1>3, <2>2, <2>5, <3>1
    <3>3. Len(results') # total'
      BY <1>2, <2>5, <3>2
    <3> QED
      BY <3>1, <3>3 DEF Settled
  <2> QED
    BY <1>1, <1>3, <1>5, <1>7, <1>8, <2>6, <2>7 DEF PageInv, CompleteOrFail
<1>9. CASE disturbed = 1
  <2>1. Settled \/ PageLost \/ TableChanged
    BY <1>1, <1>9 DEF PageInv
  <2>2. CASE PageLost
    <3>1. N = total /\ Len(results) < cursor /\ cursor <= N
      BY <2>2 DEF PageLost, N
    <3>2. Len(results') < PageEnd /\ PageEnd <= total
      <4>1. Len(Page) = PageEnd - cursor /\ PageEnd \in Nat /\ PageEnd <= total
        BY <1>2, <1>4, <3>1
      <4>2. Len(results') = Len(results) + (PageEnd - cursor)
        BY <1>6, <4>1
      <4> QED
        BY <1>4, <3>1, <4>1, <4>2
    <3>3. Settled' \/ PageLost'
      BY <1>2, <1>3, <1>5, <3>1, <3>2 DEF Settled, PageLost, N
    <3> QED
      BY <1>1, <1>3, <1>5, <1>7, <1>9, <3>3 DEF PageInv, CompleteOrFail
  <2>3. CASE TableChanged
    <3>1. N \in {total - 1, total + 1} /\ Len(results) = cursor /\ cursor <= N
      BY <2>3 DEF TableChanged, N
    <3>2. Len(results') = PageEnd
      <4>1. Len(Page) = PageEnd - cursor /\ PageEnd \in Nat
        BY <1>2, <3>1
      <4>2. Len(results') = cursor + (PageEnd - cursor)
        BY <1>6, <3>1, <4>1
      <4> QED
        BY <1>4, <4>1, <4>2
    <3>3. Settled' \/ TableChanged' \/ disturbed' = 2
      BY <1>2, <1>3, <1>4, <1>5, <1>9, <3>1, <3>2 DEF Settled, TableChanged, N
    <3> QED
      BY <1>1, <1>3, <1>5, <1>7, <1>9, <3>3 DEF PageInv, CompleteOrFail
  <2> QED
    BY <1>1, <2>1, <2>2, <2>3 DEF Settled
<1>10. CASE disturbed > 1
  <2>1. disturbed' > 1
    BY <1>4, <1>5, <1>10
  <2> QED
    BY <1>1, <1>3, <1>7, <2>1 DEF PageInv, CompleteOrFail
<1> QED
  BY <1>4, <1>8, <1>9, <1>10

LEMMA ReturnKept ==
    ASSUME PageInv, QueryFails \/ Finish
    PROVE  PageInv'
<1>1. PaginationTypeOK /\ page' = "done"
      /\ UNCHANGED <<table, cursor, token, total, results, snapshot, disturbed>>
  BY DEF PageInv, QueryFails, Finish, platformVars
<1>2. CASE QueryFails
  <2>1. returned'.err = "api" /\ returned'.rows = <<>>
    BY <1>2 DEF QueryFails
  <2> QED
    BY <1>1, <2>1 DEF PageInv, PaginationTypeOK, CompleteOrFail
<1>3. CASE Finish
  <2>1. page = "more" /\ ~ token
    BY <1>3 DEF Finish
  <2>2. CASE Len(results) # total
    <3>1. returned'.err = "truncated" /\ returned'.rows = <<>>
      BY <1>3, <2>2 DEF Finish
    <3> QED
      BY <1>1, <3>1 DEF PageInv, PaginationTypeOK, CompleteOrFail
  <2>3. CASE Len(results) = total
    <3>1. returned'.err = "nil" /\ returned'.rows = results
      BY <1>3, <2>3 DEF Finish
    <3>2. disturbed <= 1 => results = snapshot
      <4>1. CASE disturbed = 0
        <5>1. /\ snapshot = InOrder(table) /\ total = Cardinality(table)
              /\ cursor <= total /\ ~ (cursor < total)
              /\ results = SubSeq(snapshot, 1, cursor)
          BY <2>1, <4>1 DEF PageInv, Undisturbed
        <5>2. snapshot \in Seq(Rows) /\ Len(snapshot) = total /\ cursor = total
          BY <1>1, <5>1, InOrderFacts DEF PaginationTypeOK
        <5> QED
          BY <5>1, <5>2, SubSeqFull
      <4>2. CASE disturbed = 1
        BY <2>1, <2>3, <4>2 DEF PageInv, Settled, PageLost, TableChanged
      <4> QED
        BY <1>1, <4>1, <4>2, PageAssumption DEF PaginationTypeOK
    <3> QED
      BY <1>1, <3>1, <3>2 DEF PageInv, PaginationTypeOK, CompleteOrFail
  <2> QED
    BY <2>2, <2>3
<1> QED
  BY <1>2, <1>3

LEMMA UndisturbedFacts ==
    ASSUME PaginationTypeOK, Undisturbed
    PROVE  /\ Len(results) = cursor /\ Len(snapshot) = total
           /\ ~ token => results = snapshot
<1>1. snapshot \in Seq(Rows) /\ Len(snapshot) = total /\ cursor \in 0..total /\ total \in Nat
  BY InOrderFacts DEF Undisturbed, PaginationTypeOK
<1>2. results = SubSeq(snapshot, 1, cursor) /\ (~ token => ~ (cursor < total))
  BY DEF Undisturbed
<1>3. \A i \in 1..cursor : snapshot[i] \in Rows
  BY <1>1, ElementOfSeq
<1>4. Len(results) = cursor
  BY <1>1, <1>2, <1>3, SubSeqProperties
<1>5. ASSUME ~ token
      PROVE  results = snapshot
  <2>1. cursor = Len(snapshot)
    BY <1>1, <1>2, <1>5
  <2> QED
    BY <1>1, <1>2, <2>1, SubSeqFull
<1> QED
  BY <1>1, <1>4, <1>5

LEMMA LossKept ==
    ASSUME PageInv, LoseAnswer
    PROVE  PageInv'
<1>1. /\ PaginationTypeOK /\ page = "more" /\ token
      /\ returned.err = "none" /\ returned.rows = <<>>
      /\ disturbed < MaxDisturbances /\ disturbed' = disturbed + 1 /\ cursor' = PageEnd
      /\ UNCHANGED <<table, page, token, total, results, returned, snapshot>>
  BY DEF PageInv, LoseAnswer, Disturb, Advance, queryVars
<1>2. disturbed \in Nat /\ disturbed' \in 0..MaxDisturbances
  BY <1>1, PageAssumption DEF PaginationTypeOK
<1>3. PageEnd \in Nat /\ PageEnd <= Cardinality(table) /\ Cardinality(table) \in Nat
      /\ (cursor < Cardinality(table) => cursor < PageEnd)
  BY <1>1, PageFacts
<1>4. PaginationTypeOK'
  BY <1>1, <1>2, <1>3 DEF PaginationTypeOK
<1>5. ASSUME disturbed = 0
      PROVE  PageLost'
  <2>1. Undisturbed
    BY <1>1, <1>5 DEF PageInv
  <2>2. Len(results) = cursor
    BY <1>1, <2>1, UndisturbedFacts
  <2>3. total = Cardinality(table) /\ cursor < total
    BY <1>1, <2>1 DEF Undisturbed
  <2> QED
    BY <1>1, <1>3, <2>2, <2>3 DEF PageLost
<1>6. disturbed' # 0 /\ (disturbed' = 1 => disturbed = 0)
  BY <1>1, <1>2
<1> QED
  BY <1>1, <1>4, <1>5, <1>6 DEF PageInv, CompleteOrFail

LEMMA RowChanged ==
    ASSUME PageInv, NEW r \in Rows, Change(r)
    PROVE  PageInv'
<1>1. /\ PaginationTypeOK /\ page = "more"
      /\ returned.err = "none" /\ returned.rows = <<>>
      /\ disturbed < MaxDisturbances /\ disturbed' = disturbed + 1
      /\ table' = IF r \in table THEN table \ {r} ELSE table \cup {r}
      /\ UNCHANGED <<cursor, page, token, total, results, returned, snapshot>>
  BY DEF PageInv, Change, Disturb, queryVars
<1>2. disturbed \in Nat /\ disturbed' \in 0..MaxDisturbances
  BY <1>1, PageAssumption DEF PaginationTypeOK
<1>3. table \in SUBSET Rows /\ table' \in SUBSET Rows
  BY <1>1 DEF PaginationTypeOK
<1>4. PaginationTypeOK'
  BY <1>1, <1>2, <1>3 DEF PaginationTypeOK
<1>5. ASSUME disturbed = 0
      PROVE  Settled' \/ TableChanged'
  <2>1. Undisturbed
    BY <1>1, <1>5 DEF PageInv
  <2>2. Len(results) = cursor /\ (~ token => results = snapshot)
    BY <1>1, <2>1, UndisturbedFacts
  <2>3. CASE ~ token
    BY <1>1, <2>2, <2>3 DEF Settled
  <2>4. CASE token
    <3>1. total = Cardinality(table) /\ cursor < total /\ total \in Nat /\ cursor \in Nat
      BY <1>1, <2>1, <2>4 DEF Undisturbed, PaginationTypeOK
    <3>2. Cardinality(table') \in {total - 1, total + 1}
      <4>1. IsFiniteSet(table)
        BY <1>3, RowsAssumption, FS_Subset
      <4>2. CASE r \in table
        BY <1>1, <3>1, <4>1, <4>2, FS_RemoveElement
      <4>3. CASE r \notin table
        BY <1>1, <3>1, <4>1, <4>3, FS_AddElement
      <4> QED
        BY <4>2, <4>3
    <3> QED
      BY <1>1, <2>2, <2>4, <3>1, <3>2 DEF TableChanged
  <2> QED
    BY <2>3, <2>4
<1>6. disturbed' # 0 /\ (disturbed' = 1 => disturbed = 0)
  BY <1>1, <1>2
<1> QED
  BY <1>1, <1>4, <1>5, <1>6 DEF PageInv, CompleteOrFail

LEMMA PageInvKept ==
    ASSUME PageInv, Query \/ Disturbance
    PROVE  PageInv'
BY FirstPageKept, NextPageKept, ReturnKept, LossKept, RowChanged
   DEF Query, Proceed, Disturbance

-----------------------------------------------------------------------------
(* BulkGet: the invariant *)

\* What was filed so far is what the verdicts so far say of the ids they are
\* about, and these are all ids that were asked for.
Filed ==
    /\ Len(verdicts) = Lesser(start, Len(ids))
    /\ objects = Picked(ids, verdicts, "object")
    /\ misses = Picked(ids, verdicts, "miss")

BulkInv ==
    /\ BulkTypeOK
    /\ bulkErr = "idle" =>
         start = 0 /\ verdicts = <<>> /\ objects = <<>> /\ misses = <<>>
    /\ bulkErr = "running" => Filed
    /\ EveryIdAccountedFor

LEMMA BulkInvStarts == BulkInit => BulkInv
BY DEF BulkInit, BulkInv, BulkTypeOK, EveryIdAccountedFor

LEMMA Called ==
    ASSUME BulkInv, NEW list \in Seq(Ids), Call(list)
    PROVE  BulkInv'
<1>1. /\ BulkTypeOK /\ start = 0 /\ verdicts = <<>> /\ objects = <<>> /\ misses = <<>>
      /\ ids' = list /\ bulkErr' = "running"
      /\ UNCHANGED <<start, objects, misses, verdicts>>
  BY DEF BulkInv, Call
<1>2. Picked(list, <<>>, "object") = <<>> /\ Picked(list, <<>>, "miss") = <<>>
  <2>1. Len(<<>>) = 0
    OBVIOUS
  <2>2. ASSUME NEW v
        PROVE  Picked(list, <<>>, v) = <<>>
    <3>1. PICK got : Collects(got, list, <<>>, v) /\ Picked(list, <<>>, v) = got[Len(<<>>)]
      BY <2>1, PickedCollects
    <3>2. got[0] = <<>>
      BY <3>1 DEF Collects
    <3> QED
      BY <2>1, <3>1, <3>2
  <2> QED
    BY <2>2
<1>3. Len(verdicts') = Lesser(start', Len(ids'))
  BY <1>1 DEF Lesser
<1>4. Filed'
  BY <1>1, <1>2, <1>3 DEF Filed
<1>5. BulkTypeOK'
  BY <1>1 DEF BulkTypeOK
<1> QED
  BY <1>1, <1>4, <1>5 DEF BulkInv, EveryIdAccountedFor

LEMMA ChunkFiled ==
    ASSUME BulkInv, NEW answer \in Seq({"object", "miss", "garbage"}), BulkChunkGet(answer)
    PROVE  BulkInv'
<1>1. /\ BulkTypeOK /\ Filed /\ bulkErr = "running" /\ start < Len(ids)
      /\ Len(answer) = Len(Chunk)
      /\ \A i \in DOMAIN answer : answer[i] # "garbage"
      /\ objects' = objects \o Attributed(answer, "object")
      /\ misses' = misses \o Attributed(answer, "miss")
      /\ verdicts' = verdicts \o answer
      /\ start' = start + bulkChunk
      /\ UNCHANGED <<ids, bulkErr>>
  BY DEF BulkInv, BulkChunkGet
<1>2. /\ ids \in Seq(Ids) /\ start \in Nat /\ verdicts \in Seq({"object", "miss"})
      /\ Len(ids) \in Nat /\ bulkChunk \in Nat /\ bulkChunk > 0
  BY <1>1, ChunkAssumption DEF BulkTypeOK
<1>3. Len(verdicts) = start
  BY <1>1, <1>2 DEF Filed, Lesser
<1>4. /\ ChunkEnd \in start..Len(ids) /\ ChunkEnd = Lesser(start + bulkChunk, Len(ids))
  BY <1>1, <1>2 DEF ChunkEnd, Lesser
<1>5. Len(Chunk) = ChunkEnd - start
  <2>1. \A i \in (start + 1)..ChunkEnd : ids[i] \in Ids
    BY <1>2, <1>4, ElementOfSeq
  <2>2. Len(Chunk) = IF start + 1 <= ChunkEnd THEN ChunkEnd - (start + 1) + 1 ELSE 0
    BY <1>2, <1>4, <2>1, SubSeqProperties DEF Chunk
  <2> QED
    BY <1>2, <1>4, <2>2
<1>6. answer \in Seq({"object", "miss"})
  BY <1>1
<1>7. /\ Len(verdicts) + Len(answer) <= Len(ids)
      /\ Chunk = SubSeq(ids, Len(verdicts) + 1, Len(verdicts) + Len(answer))
  <2>1. Len(verdicts) + Len(answer) = ChunkEnd
    BY <1>1, <1>2, <1>3, <1>4, <1>5
  <2> QED
    BY <1>2, <1>3, <1>4, <2>1 DEF Chunk
<1>8. ASSUME NEW v
      PROVE  Picked(ids, verdicts', v) = Picked(ids, verdicts, v) \o Picked(Chunk, answer, v)
  <2>1. verdicts' = Joined(verdicts, answer)
    BY <1>1 DEF Joined
  <2>2. Chunk = Part(ids, Len(verdicts) + 1, Len(verdicts) + Len(answer))
    BY <1>7 DEF Part
  <2>3. Len(verdicts) + Len(answer) <= Len(ids)
    BY <1>7
  <2>4. Picked(ids, Joined(verdicts, answer), v)
          = Joined(Picked(ids, verdicts, v),
                   Picked(Part(ids, Len(verdicts) + 1, Len(verdicts) + Len(answer)), answer, v))
    BY <1>2, <1>6, <2>3, PickedSplitsAll
  <2> QED
    BY <2>1, <2>2, <2>4 DEF Joined
<1>9. objects' = Picked(ids', verdicts', "object") /\ misses' = Picked(ids', verdicts', "miss")
  BY <1>1, <1>8 DEF Filed, Attributed
<1>10. /\ verdicts' \in Seq({"object", "miss"})
       /\ Len(verdicts') = Len(verdicts) + Len(answer)
  <2>1. /\ verdicts \o answer \in Seq({"object", "miss"})
        /\ Len(verdicts \o answer) = Len(verdicts) + Len(answer)
    BY <1>2, <1>6
  <2> QED
    BY <1>1, <2>1
<1>11. Filed'
  <2>1. Len(verdicts') = Lesser(start + bulkChunk, Len(ids))
    BY <1>1, <1>2, <1>3, <1>4, <1>5, <1>10
  <2> QED
    BY <1>1, <1>9, <2>1 DEF Filed
<1>12. objects' \in Seq(Ids) /\ misses' \in Seq(Ids)
  <2>1. Len(verdicts') <= Len(ids')
    BY <1>1, <1>7, <1>10
  <2>2. ids' \in Seq(Ids)
    BY <1>1, <1>2
  <2> QED
    BY <1>9, <1>10, <2>1, <2>2, PickedCounts
<1>13. BulkTypeOK'
  BY <1>1, <1>2, <1>10, <1>12 DEF BulkTypeOK
<1> QED
  BY <1>1, <1>11, <1>13 DEF BulkInv, EveryIdAccountedFor

LEMMA BulkFailed ==
    ASSUME BulkInv, NEW answer, BulkFails(answer)
    PROVE  BulkInv'
<1>1. PICK err \in {"api", "truncated", "decode"} : Fail(err)
  BY DEF BulkFails
<1>2. /\ BulkTypeOK /\ bulkErr' = err /\ objects' = <<>> /\ misses' = <<>>
      /\ UNCHANGED <<ids, start, verdicts>>
  BY <1>1 DEF BulkInv, Fail
<1>3. BulkTypeOK'
  BY <1>2 DEF BulkTypeOK
<1> QED
  BY <1>2, <1>3 DEF BulkInv, EveryIdAccountedFor

LEMMA BulkReturned ==
    ASSUME BulkInv, BulkReturns
    PROVE  BulkInv'
<1>1. /\ BulkTypeOK /\ Filed /\ start >= Len(ids) /\ bulkErr' = "nil"
      /\ UNCHANGED <<ids, start, objects, misses, verdicts>>
  BY DEF BulkInv, BulkReturns
<1>2. /\ ids \in Seq(Ids) /\ start \in Nat /\ verdicts \in Seq({"object", "miss"})
      /\ Len(ids) \in Nat
  BY <1>1 DEF BulkTypeOK
<1>3. Len(verdicts) = Len(ids)
  BY <1>1, <1>2 DEF Filed, Lesser
<1>4. Len(objects) + Len(misses) = Len(ids)
  BY <1>1, <1>2, <1>3, PickedCounts DEF Filed
<1>5. EveryIdAccountedFor'
  BY <1>1, <1>3, <1>4 DEF EveryIdAccountedFor, Filed
<1>6. BulkTypeOK'
  BY <1>1 DEF BulkTypeOK
<1> QED
  BY <1>1, <1>5, <1>6 DEF BulkInv

LEMMA AnswersType ==
    ASSUME NEW a \in Answers
    PROVE  a \in Seq({"object", "miss", "garbage"})
<1>1. PICK n \in 0..Len(Chunk) + 1 : a \in [1..n -> {"object", "miss", "garbage"}]
  BY Zenon DEF Answers
<1>2. n \in Nat
  OBVIOUS
<1> QED
  BY <1>1, <1>2

-----------------------------------------------------------------------------
(* The composition *)

\* BulkGet is called with what QueryAll returned, so a row that vanishes
\* while it runs is one the query has done with.
Linked == bulkErr # "idle" => page = "done"

RetrievalInv == PageInv /\ BulkInv /\ Linked

LEMMA RetrievalInvStarts == RetrievalInit => RetrievalInv
BY PageInvStarts, BulkInvStarts DEF RetrievalInit, RetrievalInv, Linked, BulkInit

LEMMA RetrievalInvKept ==
    ASSUME RetrievalInv, [RetrievalNext]_retrievalVars
    PROVE  RetrievalInv'
<1>1. CASE (Query \/ Disturbance) /\ UNCHANGED bulkVars
  <2>1. PageInv'
    BY <1>1, PageInvKept DEF RetrievalInv
  <2>2. BulkInv'
    BY <1>1 DEF RetrievalInv, BulkInv, BulkTypeOK, Filed, EveryIdAccountedFor, bulkVars
  <2>3. page # "done"
    BY <1>1 DEF Query, Proceed, Disturbance, QueryFirst, QueryMore, Finish, QueryFails,
                LoseAnswer, Change, Disturb
  <2>4. Linked'
    BY <1>1, <2>3 DEF RetrievalInv, Linked, bulkVars
  <2> QED
    BY <2>1, <2>2, <2>4 DEF RetrievalInv
<1>2. CASE Fetch
  <2>1. page = "done" /\ returned.rows \in Seq(Rows)
    BY <1>2 DEF RetrievalInv, PageInv, PaginationTypeOK, Fetch
  <2>2. PICK list \in Seq(Ids) : Call(list)
    <3>1. returned.rows \in Seq(Ids)
      BY <2>1, IdsAssumption
    <3>2. ASSUME returned.rows # <<>>
          PROVE  Append(returned.rows, Head(returned.rows)) \in Seq(Ids)
      BY <3>1, <3>2
    <3> QED
      BY <1>2, <3>1, <3>2 DEF Fetch
  <2>3. BulkInv'
    BY <2>2, Called DEF RetrievalInv
  <2>4. PageInv' /\ Linked'
    BY <1>2, <2>1 DEF RetrievalInv, Linked, Fetch, vars, platformVars, queryVars, PageInv,
         PaginationTypeOK, Undisturbed, Settled, PageLost, TableChanged, CompleteOrFail
  <2> QED
    BY <2>3, <2>4 DEF RetrievalInv
<1>3. CASE BulkStep
  <2>1. BulkInv' /\ bulkErr # "idle"
    BY <1>3, AnswersType, ChunkFiled, BulkFailed, BulkReturned
       DEF RetrievalInv, BulkStep, BulkChunkGet, BulkFails, Fail, BulkReturns
  <2>2. PageInv' /\ Linked'
    BY <1>3, <2>1 DEF RetrievalInv, Linked, BulkStep, vars, platformVars, queryVars, PageInv,
         PaginationTypeOK, Undisturbed, Settled, PageLost, TableChanged, CompleteOrFail
  <2> QED
    BY <2>1, <2>2 DEF RetrievalInv
<1>4. CASE Vanish
  <2>1. page = "done" /\ page' = "done"
    BY <1>4 DEF RetrievalInv, Linked, Vanish, queryVars
  <2>2. PageInv'
    BY <1>4, <2>1 DEF RetrievalInv, Vanish, queryVars, PageInv, PaginationTypeOK, CompleteOrFail
  <2>3. BulkInv' /\ Linked'
    BY <1>4, <2>1 DEF RetrievalInv, Vanish, Linked, BulkInv, BulkTypeOK, Filed,
                      EveryIdAccountedFor, bulkVars
  <2> QED
    BY <2>2, <2>3 DEF RetrievalInv
<1>5. CASE UNCHANGED retrievalVars
  BY <1>5 DEF RetrievalInv, Linked, retrievalVars, vars, platformVars, queryVars, bulkVars,
       PageInv, PaginationTypeOK, Undisturbed, Settled, PageLost, TableChanged, CompleteOrFail,
       BulkInv, BulkTypeOK, Filed, EveryIdAccountedFor
<1> QED
  BY <1>1, <1>2, <1>3, <1>4, <1>5 DEF RetrievalNext

LEMMA Invariant == RetrievalSpec => []RetrievalInv
<1>1. RetrievalInit => RetrievalInv
  BY RetrievalInvStarts
<1>2. RetrievalInv /\ [RetrievalNext]_retrievalVars => RetrievalInv'
  BY RetrievalInvKept
<1> QED
  BY <1>1, <1>2, PTL DEF RetrievalSpec

\* The variables of a query and of a bulk fetch keep their types, whatever
\* the platform's table, the page size and the chunk size are.
THEOREM Typing == RetrievalSpec => []TypeOK
<1>1. RetrievalInv => TypeOK
  BY DEF RetrievalInv, PageInv, BulkInv, TypeOK
<1> QED
  BY <1>1, Invariant, PTL

\* QueryAll returns exactly the rows there were when it began, or an error
\* and no rows, if at most one page, token or row went missing or came in.
THEOREM Completeness == RetrievalSpec => []CompleteOrFail
<1>1. RetrievalInv => CompleteOrFail
  BY DEF RetrievalInv, PageInv
<1> QED
  BY <1>1, Invariant, PTL

\* BulkGet accounts for every id, with repetitions and in the caller's
\* order, wherever the chunks are cut.
THEOREM Attribution == RetrievalSpec => []EveryIdAccountedFor
<1>1. RetrievalInv => EveryIdAccountedFor
  BY DEF RetrievalInv, BulkInv
<1> QED
  BY <1>1, Invariant, PTL
=============================================================================
