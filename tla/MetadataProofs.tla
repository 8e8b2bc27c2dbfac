--------------------------- MODULE MetadataProofs ---------------------------
(***************************************************************************)
(* The encoder of filters keeps their meaning, for every expression of     *)
(* every depth over every set of comparisons; and what CurrentByFolders    *)
(* lists, for every list of folders and size of a batch.                   *)
(*                                                                         *)
(* Trees grow by levels: what is said of a tree is proved by induction on  *)
(* the level it is on, with sets of numbers (UpTo), from the least element *)
(* of a set of naturals.  The recursive functions Encode and Satisfying    *)
(* are chosen, so that they must be shown to exist first; EncodeGroupIs    *)
(* and SatisfyingGroup then say what they return.                          *)
(*                                                                         *)
(* ListInv is inductive.  Once and Never say how often a list names a      *)
(* component; Concatenated says what a further batch makes of that, and    *)
(* Smooth and Shaken how the pages of a batch stand to its count.          *)
(***************************************************************************)
EXTENDS Metadata, FiniteSetTheorems, SequenceTheorems, WellFoundedInduction, TLAPS

\* A set of naturals that is not empty has a least member.
LEMMA LeastOne ==
    ASSUME NEW T, T \subseteq Nat, T # {}
    PROVE  \E n \in T : \A m \in T : n <= m
<1>1. PICK n \in T : \A m \in T : ~ (<<m, n>> \in OpToRel(<, Nat))
  BY WFMin, NatLessThanWellFounded
<1>2. ASSUME NEW m \in T
      PROVE  n <= m
  <2>1. ~ (m < n)
    BY <1>1, <1>2 DEF OpToRel
  <2> QED
    BY <2>1
<1> QED
  BY <1>2

\* Induction on a set of numbers: what holds of 0 and is handed on holds.
LEMMA UpTo ==
    ASSUME NEW k \in Nat, NEW Good, 0 \in Good,
           \A n \in 1..k : n - 1 \in Good => n \in Good
    PROVE  0..k \subseteq Good
<1> DEFINE Bad == (0..k) \ Good
<1> SUFFICES ASSUME Bad # {} PROVE FALSE
  OBVIOUS
<1>1. Bad \subseteq Nat
  OBVIOUS
<1> HIDE DEF Bad
<1>2. PICK n \in Bad : \A m \in Bad : n <= m
  BY <1>1, LeastOne
<1>3. n \in 1..k /\ n - 1 \in 0..k
  BY <1>2 DEF Bad
<1>4. n - 1 \in Good
  BY <1>2, <1>3 DEF Bad
<1> QED
  BY <1>2, <1>3, <1>4 DEF Bad

-----------------------------------------------------------------------------
(* Trees *)

LEMMA GroupFacts ==
    ASSUME NEW S, NEW least, NEW g \in GroupsOf(S, least)
    PROVE  /\ g.kind = "group" /\ g.operator \in {"and", "or"}
           /\ g.nested \in Seq(S) /\ Len(g.nested) >= least
           /\ g = Group(g.operator, g.nested)
  BY DEF GroupsOf, Group

LEMMA GroupMade ==
    ASSUME NEW S, NEW least, NEW operator \in {"and", "or"}, NEW nested \in Seq(S),
           Len(nested) >= least
    PROVE  Group(operator, nested) \in GroupsOf(S, least)
  BY DEF GroupsOf, Group

LEMMA MoreGroups ==
    ASSUME NEW S, NEW T, S \subseteq T, NEW least \in Nat, NEW less \in Nat, less <= least
    PROVE  GroupsOf(S, least) \subseteq GroupsOf(T, less)
<1> SUFFICES ASSUME NEW g \in GroupsOf(S, least)
             PROVE  g \in GroupsOf(T, less)
  OBVIOUS
<1>1. /\ g.operator \in {"and", "or"} /\ g.nested \in Seq(S) /\ Len(g.nested) >= least
      /\ g = Group(g.operator, g.nested)
  BY GroupFacts
<1>2. g.nested \in Seq(T) /\ Len(g.nested) \in Nat
  BY <1>1
<1>3. Len(g.nested) >= less
  BY <1>1, <1>2
<1> QED
  BY <1>1, <1>2, <1>3, GroupMade

\* The levels of trees, up to the k-th.
GrownTo(level, k, leaves, least) ==
    level = [n \in 0..k |-> IF n = 0 THEN leaves ELSE leaves \cup GroupsOf(level[n - 1], least)]

LEMMA LevelsExist ==
    ASSUME NEW leaves, NEW least, NEW k \in Nat
    PROVE  \E level : GrownTo(level, k, leaves, least)
<1> DEFINE Good == {n \in Nat : \E level : GrownTo(level, n, leaves, least)}
<1>1. 0 \in Good
  <2> DEFINE level == [i \in 0..0 |-> leaves]
  <2>1. GrownTo(level, 0, leaves, least)
    BY DEF GrownTo
  <2> QED
    BY <2>1
<1>2. ASSUME NEW n \in 1..k, n - 1 \in Good
      PROVE  n \in Good
  <2>1. PICK level : GrownTo(level, n - 1, leaves, least)
    BY <1>2
  <2> DEFINE more == [i \in 0..n |->
                        IF i = n THEN leaves \cup GroupsOf(level[n - 1], least) ELSE level[i]]
  <2>2. ASSUME NEW i \in 0..n
        PROVE  more[i] = IF i = 0 THEN leaves ELSE leaves \cup GroupsOf(more[i - 1], least)
    <3>1. CASE i = n
      BY <3>1
    <3>2. CASE i # n /\ i # 0
      <4>1. i \in 0..n - 1 /\ i - 1 \in 0..n /\ i - 1 # n
        BY <3>2
      <4>2. more[i] = level[i] /\ more[i - 1] = level[i - 1]
        BY <3>2, <4>1
      <4>3. level[i] = leaves \cup GroupsOf(level[i - 1], least)
        BY <2>1, <3>2, <4>1 DEF GrownTo
      <4> HIDE DEF more
      <4> QED
        BY <3>2, <4>2, <4>3
    <3>3. CASE i # n /\ i = 0
      BY <3>3, <2>1 DEF GrownTo
    <3> QED
      BY <3>1, <3>2, <3>3
  <2>3. GrownTo(more, n, leaves, least)
    BY <2>2 DEF GrownTo
  <2> QED
    BY <2>3
<1> HIDE DEF Good
<1>3. 0..k \subseteq Good
  BY <1>1, <1>2, UpTo
<1> QED
  BY <1>3 DEF Good

\* The trees of a depth: leaves, or groups of the trees of the depth before.
Grows(level, leaves, least) ==
    /\ level[0] = leaves
    /\ \A n \in 1..MaxDepth : level[n] = leaves \cup GroupsOf(level[n - 1], least)
    /\ Trees(leaves, least) = level[MaxDepth]

LEMMA TreesGrow ==
    ASSUME NEW leaves, NEW least
    PROVE  \E level : Grows(level, leaves, least)
<1> DEFINE l == CHOOSE level : GrownTo(level, MaxDepth, leaves, least)
<1>1. GrownTo(l, MaxDepth, leaves, least)
  BY LevelsExist, DepthAssumption
<1>2. Trees(leaves, least) = l[MaxDepth]
  BY DEF Trees, GrownTo
<1> HIDE DEF l
<1>3. l[0] = leaves
  BY <1>1, DepthAssumption DEF GrownTo
<1>4. ASSUME NEW n \in 1..MaxDepth
      PROVE  l[n] = leaves \cup GroupsOf(l[n - 1], least)
  <2>1. n \in 0..MaxDepth /\ n # 0
    BY DepthAssumption
  <2> QED
    BY <1>1, <2>1 DEF GrownTo
<1>5. Grows(l, leaves, least)
  BY <1>2, <1>3, <1>4 DEF Grows
<1> QED
  BY <1>5

\* A tree of fewer or narrower levels is also one of more or wider ones.
LEMMA LevelsNest ==
    ASSUME NEW small, NEW more, NEW l1, NEW least \in Nat, Grows(l1, small, least),
           NEW l2, NEW less \in Nat, Grows(l2, more, less),
           small \subseteq more, less <= least
    PROVE  \A n \in 0..MaxDepth : l1[n] \subseteq l2[n]
<1> DEFINE Good == {n \in 0..MaxDepth : l1[n] \subseteq l2[n]}
<1>1. 0 \in Good
  BY DepthAssumption DEF Grows
<1>2. ASSUME NEW n \in 1..MaxDepth, n - 1 \in Good
      PROVE  n \in Good
  <2>1. l1[n - 1] \subseteq l2[n - 1]
    BY <1>2
  <2>2. GroupsOf(l1[n - 1], least) \subseteq GroupsOf(l2[n - 1], less)
    BY <2>1, MoreGroups
  <2>3. l1[n] \subseteq l2[n]
    BY <2>2 DEF Grows
  <2> QED
    BY <2>3
<1> HIDE DEF Good
<1>3. 0..MaxDepth \subseteq Good
  BY <1>1, <1>2, UpTo, DepthAssumption
<1> QED
  BY <1>3 DEF Good

LEMMA MoreTrees ==
    ASSUME NEW small, NEW more, NEW least \in Nat, NEW less \in Nat,
           small \subseteq more, less <= least
    PROVE  Trees(small, least) \subseteq Trees(more, less)
<1>1. PICK l1 : Grows(l1, small, least)
  BY TreesGrow
<1>2. PICK l2 : Grows(l2, more, less)
  BY TreesGrow
<1>3. l1[MaxDepth] \subseteq l2[MaxDepth]
  BY <1>1, <1>2, LevelsNest, DepthAssumption
<1> QED
  BY <1>1, <1>2, <1>3 DEF Grows

\* The trees of a depth are trees of the next, and all are trees.
LEMMA DeeperTrees ==
    ASSUME NEW leaves, NEW least \in Nat, NEW level, Grows(level, leaves, least)
    PROVE  /\ \A n \in 1..MaxDepth : level[n - 1] \subseteq level[n]
           /\ \A n \in 0..MaxDepth : level[n] \subseteq Trees(leaves, least)
<1> DEFINE Good == {n \in 0..MaxDepth :
                      n < MaxDepth => level[n] \subseteq level[n + 1]}
<1>1. 0 \in Good
  <2>1. 0 < MaxDepth => 1 \in 1..MaxDepth /\ 1 - 1 = 0
    BY DepthAssumption
  <2>2. 0 < MaxDepth => level[0] \subseteq level[1]
    BY <2>1 DEF Grows
  <2> QED
    BY <2>2, DepthAssumption
<1>2. ASSUME NEW n \in 1..MaxDepth, n - 1 \in Good
      PROVE  n \in Good
  <2>1. CASE n < MaxDepth
    <3>1. level[n - 1] \subseteq level[n]
      <4>1. n - 1 < MaxDepth /\ (n - 1) + 1 = n
        BY DepthAssumption
      <4> QED
        BY <1>2, <4>1
    <3>2. GroupsOf(level[n - 1], least) \subseteq GroupsOf(level[n], least)
      BY <3>1, MoreGroups
    <3>3. /\ level[n] = leaves \cup GroupsOf(level[n - 1], least)
          /\ level[n + 1] = leaves \cup GroupsOf(level[n], least)
      <4>1. n + 1 \in 1..MaxDepth /\ (n + 1) - 1 = n
        BY <2>1, DepthAssumption
      <4> QED
        BY <4>1 DEF Grows
    <3>4. level[n] \subseteq level[n + 1]
      BY <3>2, <3>3
    <3> QED
      BY <3>4
  <2> QED
    BY <2>1
<1> HIDE DEF Good
<1>3. 0..MaxDepth \subseteq Good
  BY <1>1, <1>2, UpTo, DepthAssumption
<1>4. \A n \in 1..MaxDepth : level[n - 1] \subseteq level[n]
  <2> TAKE n \in 1..MaxDepth
  <2>1. n - 1 \in Good /\ n - 1 < MaxDepth /\ (n - 1) + 1 = n
    BY <1>3, DepthAssumption
  <2> QED
    BY <2>1 DEF Good
<1> DEFINE Under == {k \in 0..MaxDepth : level[MaxDepth - k] \subseteq Trees(leaves, least)}
<1>5. 0 \in Under
  BY DepthAssumption DEF Grows
<1>6. ASSUME NEW k \in 1..MaxDepth, k - 1 \in Under
      PROVE  k \in Under
  <2>1. /\ MaxDepth - k + 1 \in 1..MaxDepth /\ (MaxDepth - k + 1) - 1 = MaxDepth - k
        /\ MaxDepth - (k - 1) = MaxDepth - k + 1
    BY DepthAssumption
  <2> QED
    BY <1>4, <1>6, <2>1
<1> HIDE DEF Under
<1>7. 0..MaxDepth \subseteq Under
  BY <1>5, <1>6, UpTo, DepthAssumption
<1>8. \A n \in 0..MaxDepth : level[n] \subseteq Trees(leaves, least)
  <2> TAKE n \in 0..MaxDepth
  <2>1. MaxDepth - n \in Under /\ MaxDepth - (MaxDepth - n) = n
    BY <1>7, DepthAssumption
  <2> QED
    BY <2>1 DEF Under
<1> QED
  BY <1>4, <1>8

\* A tree is a leaf or a group of trees.
LEMMA TreeMembers ==
    ASSUME NEW leaves, NEW least \in Nat, NEW x \in Trees(leaves, least), x \notin leaves
    PROVE  x \in GroupsOf(Trees(leaves, least), least)
<1>1. PICK level : Grows(level, leaves, least)
  BY TreesGrow
<1>2. MaxDepth \in 1..MaxDepth
  BY <1>1, DepthAssumption DEF Grows
<1>3. MaxDepth - 1 \in 0..MaxDepth
  BY <1>2
<1>4. level[MaxDepth - 1] \subseteq Trees(leaves, least)
  BY <1>1, <1>3, DeeperTrees
<1>5. x \in GroupsOf(level[MaxDepth - 1], least)
  BY <1>1, <1>2 DEF Grows
<1> QED
  BY <1>4, <1>5, MoreGroups

LEMMA Kinds ==
    /\ \A x \in Comparisons : x.kind = "simple"
    /\ \A x \in Proper : x.kind = "simple" /\ x.property # ""
    /\ Nil.kind = "nil" /\ Malformed.kind = "error"
    /\ \A x \in Buildable : x.kind # "error"
<1>1. \A x \in Comparisons : x.kind = "simple"
  BY ComparisonsAssumption DEF Simple
<1>2. \A x \in Proper : x.kind = "simple" /\ x.property # ""
  BY <1>1 DEF Proper
<1>3. Nil.kind = "nil" /\ Malformed.kind = "error"
  BY DEF Nil, Malformed
<1>4. ASSUME NEW x \in Buildable
      PROVE  x.kind # "error"
  <2>1. CASE x \in Comparisons \cup {Nil}
    BY <1>1, <1>3, <2>1
  <2>2. CASE x \notin Comparisons \cup {Nil}
    <3>1. x \in GroupsOf(Buildable, 0)
      BY <2>2, TreeMembers DEF Buildable
    <3>2. x.kind = "group"
      BY <3>1, GroupFacts
    <3> QED
      BY <3>2
  <2> QED
    BY <2>1, <2>2
<1> QED
  BY <1>1, <1>2, <1>3, <1>4

\* Every tree of either kind is one of the wider ones.
LEMMA TreesNest == Acceptable \subseteq WellFormed /\ WellFormed \subseteq Buildable \ {Nil}
<1>1. Acceptable \subseteq WellFormed
  BY MoreTrees DEF Acceptable, WellFormed
<1>2. Proper \subseteq Comparisons \cup {Nil}
  BY DEF Proper
<1>3. WellFormed \subseteq Buildable
  BY <1>2, MoreTrees DEF WellFormed, Buildable
<1>4. Nil \notin WellFormed
  <2>1. SUFFICES ASSUME Nil \in WellFormed PROVE FALSE
    OBVIOUS
  <2>2. CASE Nil \in Proper
    <3>1. Nil.kind = "simple"
      BY <2>2, Kinds
    <3> QED
      BY <3>1, Kinds
  <2>3. CASE Nil \notin Proper
    <3>1. Nil \in GroupsOf(WellFormed, 1)
      BY <2>1, <2>3, TreeMembers DEF WellFormed
    <3>2. Nil.kind = "group"
      BY <3>1, GroupFacts
    <3> QED
      BY <3>2, Kinds
  <2> QED
    BY <2>2, <2>3
<1> QED
  BY <1>1, <1>3, <1>4

-----------------------------------------------------------------------------
(* What Encode returns *)

\* The encoding of an expression, from the encodings of its members.
Encoded(encode, e) ==
    IF e.kind = "group"
      THEN EncodeGroup(e.operator, [i \in DOMAIN e.nested |->
                                       encodeMember(encode, e.nested[i])])
      ELSE EncodeSimple(e)

EncodesOn(encode, S) == encode = [e \in S |-> Encoded(encode, e)]

\* It depends on the members only.
LEMMA SameMembers ==
    ASSUME NEW e, NEW one, NEW other,
           e.kind = "group" =>
             \A i \in DOMAIN e.nested : e.nested[i] # Nil => one[e.nested[i]] = other[e.nested[i]]
    PROVE  Encoded(one, e) = Encoded(other, e)
<1>1. CASE e.kind = "group"
  <2>1. \A i \in DOMAIN e.nested : encodeMember(one, e.nested[i]) = encodeMember(other, e.nested[i])
    BY <1>1 DEF encodeMember
  <2>2. [i \in DOMAIN e.nested |-> encodeMember(one, e.nested[i])]
          = [i \in DOMAIN e.nested |-> encodeMember(other, e.nested[i])]
    BY <2>1
  <2> QED
    BY <1>1, <2>2 DEF Encoded
<1>2. CASE e.kind # "group"
  BY <1>2 DEF Encoded
<1> QED
  BY <1>1, <1>2

LEMMA EncoderExists ==
    \E encode : EncodesOn(encode, Buildable \ {Nil})
<1>1. PICK level : Grows(level, Comparisons \cup {Nil}, 0)
  BY TreesGrow
<1>2. /\ level[0] = Comparisons \cup {Nil}
      /\ \A n \in 1..MaxDepth :
           /\ level[n] = (Comparisons \cup {Nil}) \cup GroupsOf(level[n - 1], 0)
           /\ level[n - 1] \subseteq level[n]
      /\ Buildable = level[MaxDepth]
  BY <1>1, DeeperTrees DEF Grows, Buildable
<1> DEFINE Good == {n \in 0..MaxDepth : \E encode : EncodesOn(encode, level[n] \ {Nil})}
<1>3. 0 \in Good
  <2> DEFINE encode == [e \in level[0] \ {Nil} |-> EncodeSimple(e)]
  <2>1. \A e \in level[0] \ {Nil} : EncodeSimple(e) = Encoded(encode, e)
    BY <1>2, Kinds DEF Encoded
  <2>2. EncodesOn(encode, level[0] \ {Nil})
    BY <2>1 DEF EncodesOn
  <2> QED
    BY <2>2, DepthAssumption
<1>4. ASSUME NEW n \in 1..MaxDepth, n - 1 \in Good
      PROVE  n \in Good
  <2>1. PICK encode : EncodesOn(encode, level[n - 1] \ {Nil})
    BY <1>4
  <2> DEFINE more == [e \in level[n] \ {Nil} |-> Encoded(encode, e)]
  <2>2. \A e \in level[n - 1] \ {Nil} : more[e] = encode[e]
    <3> TAKE e \in level[n - 1] \ {Nil}
    <3>1. e \in level[n] \ {Nil}
      BY <1>2
    <3>2. encode[e] = Encoded(encode, e)
      BY <2>1 DEF EncodesOn
    <3> QED
      BY <3>1, <3>2
  <2>3. \A e \in level[n] \ {Nil} : Encoded(encode, e) = Encoded(more, e)
    <3> TAKE e \in level[n] \ {Nil}
    <3>1. ASSUME e.kind = "group", NEW i \in DOMAIN e.nested, e.nested[i] # Nil
          PROVE  encode[e.nested[i]] = more[e.nested[i]]
      <4>1. e \notin Comparisons /\ e # Nil
        BY <3>1, Kinds
      <4>2. e \in GroupsOf(level[n - 1], 0)
        BY <1>2, <4>1
      <4>3. e.nested[i] \in level[n - 1]
        BY <3>1, <4>2, GroupFacts
      <4> HIDE DEF more
      <4> QED
        BY <2>2, <3>1, <4>3
    <3> HIDE DEF more
    <3> QED
      BY <3>1, SameMembers
  <2>4. EncodesOn(more, level[n] \ {Nil})
    BY <2>3 DEF EncodesOn
  <2> QED
    BY <2>4
<1> HIDE DEF Good
<1>5. MaxDepth \in Good
  BY <1>3, <1>4, UpTo, DepthAssumption
<1> QED
  BY <1>2, <1>5 DEF Good

\* The encoder is defined on every expression that can be built.
LEMMA EncodeIs ==
    \E encode : \A e \in Buildable \ {Nil} :
        Encode(e) = encode[e] /\ encode[e] = Encoded(encode, e)
<1> DEFINE code == CHOOSE encode : EncodesOn(encode, Buildable \ {Nil})
<1>1. EncodesOn(code, Buildable \ {Nil})
  BY EncoderExists
<1>2. \A e : Encode(e) = code[e]
  BY DEF Encode, EncodesOn, Encoded
<1> HIDE DEF code
<1>3. \A e \in Buildable \ {Nil} : code[e] = Encoded(code, e)
  BY <1>1 DEF EncodesOn
<1> QED
  BY <1>2, <1>3

\* A simple expression is itself, unless its property is empty.  A group is
\* refused if it has no members, or one that is nil or refused; a group of
\* one is its member, a larger one the group of its members, encoded.
LEMMA EncodeSimpleIs ==
    ASSUME NEW x \in Comparisons
    PROVE  Encode(x) = IF x.property = "" THEN Malformed ELSE x
<1>1. Comparisons \cup {Nil} \subseteq Buildable
  BY TreesGrow, DeeperTrees, DepthAssumption DEF Buildable, Grows
<1>2. x \in Buildable \ {Nil} /\ x.kind # "group"
  BY <1>1, Kinds
<1> QED
  BY <1>2, EncodeIs DEF Encoded, EncodeSimple

LEMMA EncodeGroupIs ==
    ASSUME NEW g \in Buildable, g \in GroupsOf(Buildable, 0)
    PROVE  IF \/ g.nested = <<>>
              \/ \E i \in DOMAIN g.nested : g.nested[i] = Nil \/ Encode(g.nested[i]) = Malformed
             THEN Encode(g) = Malformed
             ELSE Encode(g) = IF Len(g.nested) = 1 THEN Encode(g.nested[1])
                              ELSE Group(g.operator, [i \in DOMAIN g.nested |-> Encode(g.nested[i])])
<1>1. /\ g.kind = "group" /\ g.nested \in Seq(Buildable) /\ g # Nil
  <2>1. g.kind = "group" /\ g.nested \in Seq(Buildable)
    BY GroupFacts
  <2> QED
    BY <2>1, Kinds
<1>2. PICK encode : \A e \in Buildable \ {Nil} :
        Encode(e) = encode[e] /\ encode[e] = Encoded(encode, e)
  BY EncodeIs
<1> DEFINE nested == [i \in DOMAIN g.nested |-> encodeMember(encode, g.nested[i])]
<1>3. Encode(g) = EncodeGroup(g.operator, nested)
  BY <1>1, <1>2 DEF Encoded
<1>4. \A i \in DOMAIN g.nested :
        nested[i] = IF g.nested[i] = Nil THEN Malformed ELSE Encode(g.nested[i])
  <2> TAKE i \in DOMAIN g.nested
  <2>1. g.nested[i] \in Buildable
    BY <1>1
  <2> QED
    BY <1>2, <2>1 DEF encodeMember
<1>5. DOMAIN nested = DOMAIN g.nested /\ Len(nested) = Len(g.nested)
      /\ DOMAIN g.nested = 1..Len(g.nested) /\ (nested = <<>> <=> g.nested = <<>>)
  BY <1>1
<1>6. nested = [i \in DOMAIN g.nested |-> nested[i]]
  OBVIOUS
<1> HIDE DEF nested
<1>7. CASE \/ g.nested = <<>>
           \/ \E i \in DOMAIN g.nested : g.nested[i] = Nil \/ Encode(g.nested[i]) = Malformed
  <2>1. nested = <<>> \/ \E i \in DOMAIN nested : nested[i] = Malformed
    BY <1>4, <1>5, <1>7
  <2>2. Encode(g) = Malformed
    BY <1>3, <2>1 DEF EncodeGroup
  <2> QED
    BY <1>7, <2>2
<1>8. CASE /\ g.nested # <<>>
           /\ \A i \in DOMAIN g.nested : g.nested[i] # Nil /\ Encode(g.nested[i]) # Malformed
  <2>1. nested # <<>> /\ \A i \in DOMAIN nested : nested[i] # Malformed
    BY <1>4, <1>5, <1>8
  <2>2. \A i \in DOMAIN g.nested : nested[i] = Encode(g.nested[i])
    BY <1>4, <1>8
  <2>3. nested = [i \in DOMAIN g.nested |-> Encode(g.nested[i])]
    BY <1>6, <2>2
  <2>4. Len(g.nested) = 1 => nested[1] = Encode(g.nested[1])
    BY <1>5, <2>2
  <2>5. Encode(g) = IF Len(g.nested) = 1 THEN nested[1] ELSE Group(g.operator, nested)
    BY <1>3, <1>5, <2>1 DEF EncodeGroup
  <2> QED
    BY <1>8, <2>3, <2>4, <2>5
<1> QED
  BY <1>7, <1>8

-----------------------------------------------------------------------------
(* What Satisfying returns *)

Satisfied(rows, satisfying, e) ==
    IF e.kind = "simple"
      THEN {row \in rows : Holds(e.operator, e.property, e.argument, row)}
      ELSE LET parts == {satisfying[e.nested[i]] : i \in DOMAIN e.nested}
           IN {row \in rows : IF e.operator = "and"
                                THEN \A part \in parts : row \in part
                                ELSE \E part \in parts : row \in part}

SatisfiesOn(rows, satisfying, S) == satisfying = [e \in S |-> Satisfied(rows, satisfying, e)]

LEMMA SameParts ==
    ASSUME NEW rows, NEW e, NEW one, NEW other,
           e.kind # "simple" => \A i \in DOMAIN e.nested : one[e.nested[i]] = other[e.nested[i]]
    PROVE  Satisfied(rows, one, e) = Satisfied(rows, other, e)
<1>1. CASE e.kind # "simple"
  <2>1. {one[e.nested[i]] : i \in DOMAIN e.nested} = {other[e.nested[i]] : i \in DOMAIN e.nested}
    BY <1>1
  <2> QED
    BY <1>1, <2>1 DEF Satisfied
<1>2. CASE e.kind = "simple"
  BY <1>2 DEF Satisfied
<1> QED
  BY <1>1, <1>2

LEMMA MeaningExists ==
    ASSUME NEW rows
    PROVE  \E satisfying : SatisfiesOn(rows, satisfying, WellFormed)
<1>1. PICK level : Grows(level, Proper, 1)
  BY TreesGrow
<1>2. /\ level[0] = Proper
      /\ \A n \in 1..MaxDepth :
           /\ level[n] = Proper \cup GroupsOf(level[n - 1], 1)
           /\ level[n - 1] \subseteq level[n]
      /\ WellFormed = level[MaxDepth]
  BY <1>1, DeeperTrees DEF Grows, WellFormed
<1> DEFINE Good == {n \in 0..MaxDepth : \E satisfying : SatisfiesOn(rows, satisfying, level[n])}
<1>3. 0 \in Good
  <2> DEFINE leaf == [e \in level[0] |->
                        {row \in rows : Holds(e.operator, e.property, e.argument, row)}]
  <2>1. \A e \in level[0] :
          {row \in rows : Holds(e.operator, e.property, e.argument, row)} = Satisfied(rows, leaf, e)
    BY <1>2, Kinds DEF Satisfied
  <2>2. SatisfiesOn(rows, leaf, level[0])
    BY <2>1 DEF SatisfiesOn
  <2> QED
    BY <2>2, DepthAssumption
<1>4. ASSUME NEW n \in 1..MaxDepth, n - 1 \in Good
      PROVE  n \in Good
  <2>1. PICK satisfying : SatisfiesOn(rows, satisfying, level[n - 1])
    BY <1>4
  <2> DEFINE more == [e \in level[n] |-> Satisfied(rows, satisfying, e)]
  <2>2. \A e \in level[n - 1] : more[e] = satisfying[e]
    <3> TAKE e \in level[n - 1]
    <3>1. e \in level[n]
      BY <1>2
    <3>2. satisfying[e] = Satisfied(rows, satisfying, e)
      BY <2>1 DEF SatisfiesOn
    <3> QED
      BY <3>1, <3>2
  <2>3. \A e \in level[n] : Satisfied(rows, satisfying, e) = Satisfied(rows, more, e)
    <3> TAKE e \in level[n]
    <3>1. ASSUME e.kind # "simple", NEW i \in DOMAIN e.nested
          PROVE  satisfying[e.nested[i]] = more[e.nested[i]]
      <4>1. e \notin Proper
        BY <3>1, Kinds
      <4>2. e \in GroupsOf(level[n - 1], 1)
        BY <1>2, <4>1
      <4>3. e.nested[i] \in level[n - 1]
        BY <3>1, <4>2, GroupFacts
      <4> HIDE DEF more
      <4> QED
        BY <2>2, <4>3
    <3> HIDE DEF more
    <3> QED
      BY <3>1, SameParts
  <2>4. SatisfiesOn(rows, more, level[n])
    BY <2>3 DEF SatisfiesOn
  <2> QED
    BY <2>4
<1> HIDE DEF Good
<1>5. MaxDepth \in Good
  BY <1>3, <1>4, UpTo, DepthAssumption
<1> QED
  BY <1>2, <1>5 DEF Good

LEMMA SatisfyingIs ==
    ASSUME NEW rows
    PROVE  \E satisfying : \A e \in WellFormed :
             /\ Satisfying(rows, e) = satisfying[e]
             /\ satisfying[e] = Satisfied(rows, satisfying, e)
<1> DEFINE meaning == CHOOSE satisfying : SatisfiesOn(rows, satisfying, WellFormed)
<1>1. SatisfiesOn(rows, meaning, WellFormed)
  BY MeaningExists
<1>2. \A e : Satisfying(rows, e) = meaning[e]
  BY DEF Satisfying, SatisfiesOn, Satisfied
<1> HIDE DEF meaning
<1>3. \A e \in WellFormed : meaning[e] = Satisfied(rows, meaning, e)
  BY <1>1 DEF SatisfiesOn
<1> QED
  BY <1>2, <1>3

LEMMA SatisfyingSimple ==
    ASSUME NEW rows, NEW x \in Proper
    PROVE  Satisfying(rows, x) = {row \in rows : Holds(x.operator, x.property, x.argument, row)}
<1>1. Proper \subseteq WellFormed
  BY TreesGrow, DeeperTrees, DepthAssumption DEF WellFormed, Grows
<1>2. x \in WellFormed /\ x.kind = "simple"
  BY <1>1, Kinds
<1> QED
  BY <1>2, SatisfyingIs DEF Satisfied

LEMMA SatisfyingGroup ==
    ASSUME NEW rows, NEW g \in WellFormed, g \in GroupsOf(WellFormed, 1)
    PROVE  Satisfying(rows, g) =
             {row \in rows :
                IF g.operator = "and"
                  THEN \A i \in DOMAIN g.nested : row \in Satisfying(rows, g.nested[i])
                  ELSE \E i \in DOMAIN g.nested : row \in Satisfying(rows, g.nested[i])}
<1>1. g.kind = "group" /\ g.nested \in Seq(WellFormed)
  BY GroupFacts
<1>2. PICK satisfying : \A e \in WellFormed :
             /\ Satisfying(rows, e) = satisfying[e]
             /\ satisfying[e] = Satisfied(rows, satisfying, e)
  BY SatisfyingIs
<1>3. \A i \in DOMAIN g.nested : satisfying[g.nested[i]] = Satisfying(rows, g.nested[i])
  BY <1>1, <1>2
<1> DEFINE parts == {satisfying[g.nested[i]] : i \in DOMAIN g.nested}
<1>4. Satisfying(rows, g) = {row \in rows : IF g.operator = "and"
                                              THEN \A part \in parts : row \in part
                                              ELSE \E part \in parts : row \in part}
  BY <1>1, <1>2 DEF Satisfied
<1>5. \A row : /\ (\A part \in parts : row \in part)
                    <=> \A i \in DOMAIN g.nested : row \in Satisfying(rows, g.nested[i])
               /\ (\E part \in parts : row \in part)
                    <=> \E i \in DOMAIN g.nested : row \in Satisfying(rows, g.nested[i])
  BY <1>3
<1> HIDE DEF parts
<1> QED
  BY <1>4, <1>5

LEMMA SatisfyingSome ==
    ASSUME NEW rows, NEW e \in WellFormed
    PROVE  Satisfying(rows, e) \subseteq rows
<1>1. PICK satisfying : /\ Satisfying(rows, e) = satisfying[e]
                        /\ satisfying[e] = Satisfied(rows, satisfying, e)
  BY SatisfyingIs
<1>2. Satisfied(rows, satisfying, e) \subseteq rows
  BY DEF Satisfied
<1> QED
  BY <1>1, <1>2

-----------------------------------------------------------------------------
(* The encoder keeps the meaning *)

\* A group of expressions and the group of their encodings.
LEMMA GroupEncoded ==
    ASSUME NEW rows, NEW W, W \subseteq WellFormed, NEW A, A \subseteq Acceptable,
           \A x \in W : Encode(x) \in A /\ Satisfying(rows, Encode(x)) = Satisfying(rows, x),
           GroupsOf(A, 2) \subseteq Acceptable,
           NEW g \in WellFormed, g \in GroupsOf(W, 1)
    PROVE  /\ Encode(g) \in A \cup GroupsOf(A, 2)
           /\ Satisfying(rows, Encode(g)) = Satisfying(rows, g)
<1> DEFINE wires == [i \in DOMAIN g.nested |-> Encode(g.nested[i])]
<1>1. /\ g.kind = "group" /\ g.operator \in {"and", "or"} /\ g.nested \in Seq(W)
      /\ Len(g.nested) >= 1
  BY GroupFacts
<1>2. /\ Len(g.nested) \in Nat /\ DOMAIN g.nested = 1..Len(g.nested) /\ g.nested # <<>>
      /\ \A i \in DOMAIN g.nested : g.nested[i] \in W
  BY <1>1
<1>3. \A i \in DOMAIN g.nested :
        /\ g.nested[i] # Nil /\ Encode(g.nested[i]) # Malformed /\ Encode(g.nested[i]) \in A
        /\ Satisfying(rows, Encode(g.nested[i])) = Satisfying(rows, g.nested[i])
  <2>1. Nil \notin W
    BY TreesNest
  <2>2. Malformed \notin A
    BY TreesNest, Kinds
  <2> QED
    BY <1>2, <2>1, <2>2
<1>4. g \in Buildable /\ g \in GroupsOf(Buildable, 0) /\ g \in GroupsOf(WellFormed, 1)
  <2>1. W \subseteq WellFormed /\ W \subseteq Buildable
    BY TreesNest
  <2>2. GroupsOf(W, 1) \subseteq GroupsOf(Buildable, 0) /\ GroupsOf(W, 1) \subseteq GroupsOf(WellFormed, 1)
    BY <2>1, MoreGroups
  <2> QED
    BY <2>2, TreesNest
<1>5. Encode(g) = IF Len(g.nested) = 1 THEN Encode(g.nested[1]) ELSE Group(g.operator, wires)
  BY <1>2, <1>3, <1>4, EncodeGroupIs
<1>6. Satisfying(rows, g) =
             {row \in rows :
                IF g.operator = "and"
                  THEN \A i \in DOMAIN g.nested : row \in Satisfying(rows, g.nested[i])
                  ELSE \E i \in DOMAIN g.nested : row \in Satisfying(rows, g.nested[i])}
  BY <1>4, SatisfyingGroup
<1>7. CASE Len(g.nested) = 1
  <2>1. DOMAIN g.nested = {1}
    BY <1>2, <1>7
  <2>2. Satisfying(rows, g) = {row \in rows : row \in Satisfying(rows, g.nested[1])}
    BY <1>6, <2>1
  <2>3. Satisfying(rows, g.nested[1]) \subseteq rows
    BY <1>2, <2>1, SatisfyingSome
  <2>4. Satisfying(rows, g) = Satisfying(rows, g.nested[1])
    BY <2>2, <2>3
  <2> QED
    BY <1>3, <1>5, <1>7, <2>1, <2>4
<1>8. CASE Len(g.nested) # 1
  <2>1. /\ wires \in Seq(A) /\ Len(wires) = Len(g.nested) /\ DOMAIN wires = DOMAIN g.nested
        /\ \A i \in DOMAIN g.nested : wires[i] = Encode(g.nested[i])
    BY <1>2, <1>3
  <2>2. Len(wires) >= 2
    <3> HIDE DEF wires
    <3>1. \A k \in Nat : k >= 1 /\ k # 1 => k >= 2
      OBVIOUS
    <3>2. Len(g.nested) \in Nat /\ Len(g.nested) >= 1 /\ Len(g.nested) # 1
      BY <1>1, <1>2, <1>8
    <3>3. Len(g.nested) >= 2
      BY <3>1, <3>2
    <3> QED
      BY <2>1, <3>3
  <2>3. Encode(g) = Group(g.operator, wires)
    BY <1>5, <1>8
  <2> HIDE DEF wires
  <2>4. Encode(g) \in GroupsOf(A, 2)
    BY <1>1, <2>1, <2>2, <2>3, GroupMade
  <2>5. Encode(g) \in WellFormed /\ Encode(g) \in GroupsOf(WellFormed, 1)
    <3>1. A \subseteq WellFormed
      BY TreesNest
    <3>2. GroupsOf(A, 2) \subseteq GroupsOf(WellFormed, 1)
      BY <3>1, MoreGroups
    <3> QED
      BY <2>4, <3>2, TreesNest
  <2>6. Encode(g).operator = g.operator /\ Encode(g).nested = wires
    BY <2>3 DEF Group
  <2>7. Satisfying(rows, Encode(g)) =
             {row \in rows :
                IF g.operator = "and"
                  THEN \A i \in DOMAIN wires : row \in Satisfying(rows, wires[i])
                  ELSE \E i \in DOMAIN wires : row \in Satisfying(rows, wires[i])}
    BY <2>5, <2>6, SatisfyingGroup
  <2>8. \A i \in DOMAIN g.nested : Satisfying(rows, wires[i]) = Satisfying(rows, g.nested[i])
    BY <1>3, <2>1
  <2> QED
    BY <1>6, <2>1, <2>4, <2>7, <2>8
<1> QED
  BY <1>7, <1>8

\* A well-formed expression becomes one the platform accepts and selects the
\* same rows.
LEMMA WellFormedEncoded ==
    ASSUME NEW rows, NEW x \in WellFormed
    PROVE  Encode(x) \in Acceptable /\ Satisfying(rows, Encode(x)) = Satisfying(rows, x)
<1>1. PICK w : Grows(w, Proper, 1)
  BY TreesGrow
<1>2. PICK a : Grows(a, Proper, 2)
  BY TreesGrow
<1>3. /\ w[0] = Proper /\ WellFormed = w[MaxDepth]
      /\ \A n \in 1..MaxDepth : w[n] = Proper \cup GroupsOf(w[n - 1], 1)
      /\ \A n \in 0..MaxDepth : w[n] \subseteq WellFormed
  BY <1>1, DeeperTrees DEF Grows, WellFormed
<1>4. /\ a[0] = Proper /\ Acceptable = a[MaxDepth]
      /\ \A n \in 1..MaxDepth : a[n] = Proper \cup GroupsOf(a[n - 1], 2) /\ a[n - 1] \subseteq a[n]
      /\ \A n \in 0..MaxDepth : a[n] \subseteq Acceptable
  BY <1>2, DeeperTrees DEF Grows, Acceptable
<1> DEFINE Good == {n \in 0..MaxDepth : \A y \in w[n] :
                      Encode(y) \in a[n] /\ Satisfying(rows, Encode(y)) = Satisfying(rows, y)}
<1>5. ASSUME NEW n \in 0..MaxDepth, NEW y \in Proper
      PROVE  Encode(y) \in a[n] /\ Satisfying(rows, Encode(y)) = Satisfying(rows, y)
  <2>1. Encode(y) = y
    BY EncodeSimpleIs DEF Proper
  <2>2. Proper \subseteq a[n]
    <3>1. n = 0 \/ n \in 1..MaxDepth
      BY DepthAssumption
    <3> QED
      BY <1>4, <3>1
  <2> QED
    BY <2>1, <2>2
<1>6. 0 \in Good
  BY <1>3, <1>5, DepthAssumption
<1>7. ASSUME NEW n \in 1..MaxDepth, n - 1 \in Good
      PROVE  n \in Good
  <2>1. n \in 0..MaxDepth /\ n - 1 \in 0..MaxDepth
    BY DepthAssumption
  <2>2. ASSUME NEW g \in w[n], g \in GroupsOf(w[n - 1], 1)
        PROVE  Encode(g) \in a[n] /\ Satisfying(rows, Encode(g)) = Satisfying(rows, g)
    <3>1. \A y \in w[n - 1] :
            Encode(y) \in a[n - 1] /\ Satisfying(rows, Encode(y)) = Satisfying(rows, y)
      BY <1>7
    <3>2. /\ w[n - 1] \subseteq WellFormed /\ a[n - 1] \subseteq Acceptable /\ g \in WellFormed
          /\ a[n - 1] \subseteq a[n] /\ GroupsOf(a[n - 1], 2) \subseteq a[n]
          /\ GroupsOf(a[n - 1], 2) \subseteq Acceptable
      BY <1>3, <1>4, <2>1, <2>2
    <3>3. /\ Encode(g) \in a[n - 1] \cup GroupsOf(a[n - 1], 2)
          /\ Satisfying(rows, Encode(g)) = Satisfying(rows, g)
      BY <2>2, <3>1, <3>2, GroupEncoded
    <3> QED
      BY <3>2, <3>3
  <2>3. \A y \in w[n] : y \in Proper \/ y \in GroupsOf(w[n - 1], 1)
    BY <1>3
  <2> QED
    BY <1>5, <2>1, <2>2, <2>3
<1> HIDE DEF Good
<1>8. MaxDepth \in Good
  BY <1>6, <1>7, UpTo, DepthAssumption
<1> QED
  BY <1>3, <1>4, <1>8 DEF Good

\* What is not refused is well-formed.
LEMMA IllFormedRefused ==
    ASSUME NEW x \in Buildable \ {Nil}, x \notin WellFormed
    PROVE  Encode(x) = Malformed
<1>1. PICK w : Grows(w, Proper, 1)
  BY TreesGrow
<1>2. PICK b : Grows(b, Comparisons \cup {Nil}, 0)
  BY TreesGrow
<1>3. /\ w[0] = Proper /\ WellFormed = w[MaxDepth]
      /\ \A n \in 1..MaxDepth : w[n] = Proper \cup GroupsOf(w[n - 1], 1)
  BY <1>1 DEF Grows, WellFormed
<1>4. /\ b[0] = Comparisons \cup {Nil} /\ Buildable = b[MaxDepth]
      /\ \A n \in 1..MaxDepth : b[n] = (Comparisons \cup {Nil}) \cup GroupsOf(b[n - 1], 0)
      /\ \A n \in 0..MaxDepth : b[n] \subseteq Buildable
  BY <1>2, DeeperTrees DEF Grows, Buildable
<1> DEFINE Good == {n \in 0..MaxDepth : \A y \in b[n] :
                      y # Nil /\ Encode(y) # Malformed => y \in w[n]}
<1>5. ASSUME NEW n \in 0..MaxDepth, NEW y \in Comparisons, Encode(y) # Malformed
      PROVE  y \in w[n]
  <2>1. y \in Proper
    BY <1>5, EncodeSimpleIs DEF Proper
  <2>2. n = 0 \/ n \in 1..MaxDepth
    BY DepthAssumption
  <2> QED
    BY <1>3, <2>1, <2>2
<1>6. 0 \in Good
  BY <1>4, <1>5, DepthAssumption
<1>7. ASSUME NEW n \in 1..MaxDepth, n - 1 \in Good
      PROVE  n \in Good
  <2>1. n \in 0..MaxDepth /\ n - 1 \in 0..MaxDepth
    BY DepthAssumption
  <2>2. ASSUME NEW g \in b[n], g \in GroupsOf(b[n - 1], 0), Encode(g) # Malformed
        PROVE  g \in w[n]
    <3>1. \A y \in b[n - 1] : y # Nil /\ Encode(y) # Malformed => y \in w[n - 1]
      BY <1>7
    <3>2. g \in Buildable /\ g \in GroupsOf(Buildable, 0)
      <4>1. b[n - 1] \subseteq Buildable
        BY <1>4, <2>1
      <4>2. GroupsOf(b[n - 1], 0) \subseteq GroupsOf(Buildable, 0)
        BY <4>1, MoreGroups
      <4> QED
        BY <1>4, <2>1, <2>2, <4>2
    <3>3. /\ g.operator \in {"and", "or"} /\ g.nested \in Seq(b[n - 1])
          /\ g = Group(g.operator, g.nested)
      BY <2>2, GroupFacts
    <3>4. /\ g.nested # <<>>
          /\ \A i \in DOMAIN g.nested : g.nested[i] # Nil /\ Encode(g.nested[i]) # Malformed
      BY <2>2, <3>2, EncodeGroupIs
    <3>5. \A i \in DOMAIN g.nested : g.nested[i] \in w[n - 1]
      BY <3>1, <3>3, <3>4
    <3>6. g.nested \in Seq(w[n - 1]) /\ Len(g.nested) >= 1
      BY <3>3, <3>4, <3>5
    <3>7. g \in GroupsOf(w[n - 1], 1)
      BY <3>3, <3>6, GroupMade
    <3> QED
      BY <1>3, <3>7
  <2>3. \A y \in b[n] : y = Nil \/ y \in Comparisons \/ y \in GroupsOf(b[n - 1], 0)
    BY <1>4
  <2> QED
    BY <1>5, <2>1, <2>2, <2>3
<1> HIDE DEF Good
<1>8. MaxDepth \in Good
  BY <1>6, <1>7, UpTo, DepthAssumption
<1> QED
  BY <1>3, <1>4, <1>8 DEF Good

\* What is sent for an expression selects the rows it means.
THEOREM EncoderKeepsMeaning ==
    ASSUME NEW filter \in Buildable, NEW rows
    PROVE  KeepsMeaning(filter, rows)
<1>1. ListAll.kind = "all" /\ \A x \in Buildable : x.kind = "all" => FALSE
  <2>1. ListAll.kind = "all"
    BY DEF ListAll
  <2>2. ASSUME NEW x \in Buildable PROVE x.kind # "all"
    <3>1. CASE x \in Comparisons \cup {Nil}
      BY <3>1, Kinds
    <3>2. CASE x \notin Comparisons \cup {Nil}
      <4>1. x \in GroupsOf(Buildable, 0)
        BY <3>2, TreeMembers DEF Buildable
      <4>2. x.kind = "group"
        BY <4>1, GroupFacts
      <4> QED
        BY <4>2
    <3> QED
      BY <3>1, <3>2
  <2> QED
    BY <2>1, <2>2
<1>2. CASE filter = Nil
  BY <1>2, TreesNest DEF KeepsMeaning, MarshalJSON, Selected
<1>3. CASE filter \in WellFormed
  <2>1. filter # Nil /\ MarshalJSON(filter) = Encode(filter)
    BY <1>3, TreesNest DEF MarshalJSON
  <2>2. Encode(filter) \in Acceptable /\ Satisfying(rows, Encode(filter)) = Satisfying(rows, filter)
    BY <1>3, WellFormedEncoded
  <2>3. Encode(filter) # ListAll
    BY <1>1, <2>2, TreesNest
  <2> QED
    BY <1>3, <2>1, <2>2, <2>3 DEF KeepsMeaning, Selected
<1>4. CASE filter \notin WellFormed \cup {Nil}
  BY <1>4, IllFormedRefused DEF KeepsMeaning, MarshalJSON
<1> QED
  BY <1>2, <1>3, <1>4

LEMMA NilBuildable == Nil \in Buildable
<1>1. PICK level : Grows(level, Comparisons \cup {Nil}, 0)
  BY TreesGrow
<1>2. level[0] \subseteq Buildable
  BY <1>1, DeeperTrees, DepthAssumption DEF Buildable
<1> QED
  BY <1>1, <1>2 DEF Grows

\* What is sent is a body the platform accepts.
LEMMA Sendable ==
    ASSUME NEW filter \in Buildable, MarshalJSON(filter) # Malformed
    PROVE  MarshalJSON(filter) \in Acceptable \cup {ListAll}
  BY WellFormedEncoded, IllFormedRefused DEF MarshalJSON

-----------------------------------------------------------------------------
(* What a list says of a component *)

Once(c, s) == \E i \in DOMAIN s : s[i] = c /\ \A j \in DOMAIN s : s[j] = c => j = i
Never(c, s) == \A i \in DOMAIN s : s[i] # c

LEMMA Counted ==
    ASSUME NEW S, NEW s \in Seq(S), NEW c
    PROVE  /\ Once(c, s) => Cardinality({i \in DOMAIN s : s[i] = c}) = 1
           /\ Never(c, s) => Cardinality({i \in DOMAIN s : s[i] = c}) = 0
<1> DEFINE At == {i \in DOMAIN s : s[i] = c}
<1>1. ASSUME Once(c, s)
      PROVE  Cardinality(At) = 1
  <2>1. PICK i \in DOMAIN s : s[i] = c /\ \A j \in DOMAIN s : s[j] = c => j = i
    BY <1>1 DEF Once
  <2>2. At = {i}
    BY <2>1
  <2> QED
    BY <2>2, FS_Singleton
<1>2. ASSUME Never(c, s)
      PROVE  Cardinality(At) = 0
  <2>1. At = {}
    BY <1>2 DEF Never
  <2> QED
    BY <2>1, FS_EmptySet
<1> QED
  BY <1>1, <1>2

LEMMA Concatenated ==
    ASSUME NEW S, NEW s \in Seq(S), NEW t \in Seq(S), NEW c,
           NEW both, both = s \o t
    PROVE  /\ Once(c, s) /\ Never(c, t) => Once(c, both)
           /\ Never(c, s) /\ Once(c, t) => Once(c, both)
           /\ Never(c, s) /\ Never(c, t) => Never(c, both)
<1>1. /\ both \in Seq(S) /\ Len(both) = Len(s) + Len(t)
      /\ Len(s) \in Nat /\ Len(t) \in Nat
      /\ DOMAIN s = 1..Len(s) /\ DOMAIN t = 1..Len(t) /\ DOMAIN both = 1..(Len(s) + Len(t))
  OBVIOUS
<1>2. \A i \in 1..Len(s) : i \in DOMAIN both /\ both[i] = s[i]
  OBVIOUS
<1>3. \A i \in 1..Len(t) : Len(s) + i \in DOMAIN both /\ both[Len(s) + i] = t[i]
  OBVIOUS
<1>4. \A i \in DOMAIN both : \/ i \in 1..Len(s)
                             \/ \E k \in 1..Len(t) : i = Len(s) + k
  <2> TAKE i \in DOMAIN both
  <2>1. CASE i <= Len(s)
    BY <1>1, <2>1
  <2>2. CASE i > Len(s)
    <3>1. i - Len(s) \in 1..Len(t) /\ i = Len(s) + (i - Len(s))
      BY <1>1, <2>2
    <3> QED
      BY <3>1
  <2> QED
    BY <1>1, <2>1, <2>2
<1>5. ASSUME Once(c, s), Never(c, t)
      PROVE  Once(c, both)
  <2>1. PICK i \in DOMAIN s : s[i] = c /\ \A j \in DOMAIN s : s[j] = c => j = i
    BY <1>5 DEF Once
  <2>2. i \in DOMAIN both /\ both[i] = c
    BY <1>1, <1>2, <2>1
  <2>3. ASSUME NEW j \in DOMAIN both, both[j] = c
        PROVE  j = i
    <3>1. CASE j \in 1..Len(s)
      BY <1>1, <1>2, <2>1, <2>3, <3>1
    <3>2. ASSUME NEW k \in 1..Len(t), j = Len(s) + k
          PROVE  FALSE
      BY <1>1, <1>3, <1>5, <2>3, <3>2 DEF Never
    <3> QED
      BY <1>4, <3>1, <3>2
  <2> QED
    BY <2>2, <2>3 DEF Once
<1>6. ASSUME Never(c, s), Once(c, t)
      PROVE  Once(c, both)
  <2>1. PICK i \in DOMAIN t : t[i] = c /\ \A j \in DOMAIN t : t[j] = c => j = i
    BY <1>6 DEF Once
  <2>2. Len(s) + i \in DOMAIN both /\ both[Len(s) + i] = c
    BY <1>1, <1>3, <2>1
  <2>3. ASSUME NEW j \in DOMAIN both, both[j] = c
        PROVE  j = Len(s) + i
    <3>1. CASE j \in 1..Len(s)
      BY <1>1, <1>2, <1>6, <2>3, <3>1 DEF Never
    <3>2. ASSUME NEW k \in 1..Len(t), j = Len(s) + k
          PROVE  j = Len(s) + i
      <4>1. t[k] = c
        BY <1>3, <2>3, <3>2
      <4> QED
        BY <1>1, <2>1, <3>2, <4>1
    <3> QED
      BY <1>4, <3>1, <3>2
  <2> QED
    BY <2>2, <2>3 DEF Once
<1>7. ASSUME Never(c, s), Never(c, t)
      PROVE  Never(c, both)
  <2>1. ASSUME NEW j \in DOMAIN both
        PROVE  both[j] # c
    <3>1. CASE j \in 1..Len(s)
      BY <1>1, <1>2, <1>7, <3>1 DEF Never
    <3>2. ASSUME NEW k \in 1..Len(t), j = Len(s) + k
          PROVE  both[j] # c
      BY <1>1, <1>3, <1>7, <3>2 DEF Never
    <3> QED
      BY <1>4, <3>1, <3>2
  <2> QED
    BY <2>1 DEF Never
<1> QED
  BY <1>5, <1>6, <1>7

(* What a query lists *)

\* A finite set can be listed, and its list has every member once.
LEMMA ListingFacts ==
    ASSUME NEW S, IsFiniteSet(S)
    PROVE  /\ Listing(S) \in Seq(S) /\ Len(Listing(S)) = Cardinality(S)
           /\ \A x \in S : \E i \in DOMAIN Listing(S) : Listing(S)[i] = x
           /\ \A i, j \in DOMAIN Listing(S) : Listing(S)[i] = Listing(S)[j] => i = j
<1> DEFINE n == Cardinality(S)
<1>1. n \in Nat /\ ExistsBijection(1..n, S)
  BY FS_CardinalityType
<1>2. PICK f \in Bijection(1..n, S) : TRUE
  BY <1>1 DEF ExistsBijection
<1>3. f \in [1..n -> S] /\ \A i, j \in DOMAIN f : f[i] = f[j] => i = j
  BY <1>2 DEF Bijection, Injection, IsInjective
<1>4. /\ Listing(S) \in [1..n -> S]
      /\ \A i, j \in DOMAIN Listing(S) : Listing(S)[i] = Listing(S)[j] => i = j
  BY <1>3 DEF Listing
<1> HIDE DEF Listing
<1>5. Listing(S) \in Injection(1..n, S)
  BY <1>4 DEF Injection, IsInjective
<1>6. Cardinality(1..n) = n
  BY <1>1, FS_Interval
<1>7. Listing(S) \in Surjection(1..n, S)
  BY <1>5, <1>6, FS_Injection
<1>8. \A x \in S : \E i \in DOMAIN Listing(S) : Listing(S)[i] = x
  BY <1>4, <1>7 DEF Surjection
<1>9. Len(Listing(S)) = Cardinality(S)
  BY <1>1, <1>4
<1> QED
  BY <1>1, <1>4, <1>8, <1>9

\* What is in the platform's tables, before and after a step.
TablesTypeOK ==
    component \in [Components -> [version : Versions, folder : Folders, deleted : BOOLEAN]]

LEMMA TablesTyped == MetadataTypeOK => TablesTypeOK
BY DEF MetadataTypeOK, TablesTypeOK

LEMMA RowsFinite ==
    ASSUME TablesTypeOK
    PROVE  IsFiniteSet(ComponentRows)
<1> DEFINE P == Components \X Versions
           f == [p \in P |-> Row(p[1], p[2], component[p[1]].folder,
                                 p[2] = component[p[1]].version, component[p[1]].deleted)]
           T == {f[p] : p \in P}
<1>1. IsFiniteSet(Versions)
  <2>1. 1 \in Int /\ 3 \in Int
    OBVIOUS
  <2> QED
    BY <2>1, FS_Interval DEF Versions
<1>2. IsFiniteSet(P)
  BY <1>1, ComponentsAssumption, FS_Product
<1>3. f \in Surjection(P, T)
  <2> HIDE DEF P
  <2>1. f \in [P -> T] /\ \A p \in P : f[p] \in T
    OBVIOUS
  <2>2. \A t \in T : \E p \in P : f[p] = t
    OBVIOUS
  <2> HIDE DEF f, T
  <2> QED
    BY <2>1, <2>2 DEF Surjection
<1>4. IsFiniteSet(T)
  BY <1>2, <1>3, FS_Surjection
<1>5. ComponentRows \subseteq T
  <2> SUFFICES ASSUME NEW c \in Components, NEW row \in RowsOf(c)
               PROVE  row \in T
    BY DEF ComponentRows
  <2>1. PICK v \in 1..component[c].version :
          row = Row(c, v, component[c].folder, v = component[c].version, component[c].deleted)
    BY DEF RowsOf
  <2>2. component[c].version \in Versions
    BY DEF TablesTypeOK
  <2>3. v \in Versions
    BY <2>1, <2>2 DEF Versions
  <2>4. <<c, v>> \in P /\ f[<<c, v>>] = row
    BY <2>1, <2>3
  <2> QED
    BY <2>4
<1> QED
  BY <1>4, <1>5, FS_Subset

LEMMA SelectedSome ==
    ASSUME NEW body \in Acceptable \cup {ListAll}
    PROVE  RowsBy(body) \subseteq ComponentRows
<1>1. CASE body = ListAll
  BY <1>1 DEF RowsBy, Selected
<1>2. CASE body # ListAll
  <2>1. body \in WellFormed
    BY <1>2, TreesNest
  <2> QED
    BY <1>2, <2>1, SatisfyingSome DEF RowsBy, Selected
<1> QED
  BY <1>1, <1>2

LEMMA QueryTyped ==
    ASSUME TablesTypeOK, NEW body \in Acceptable \cup {ListAll}
    PROVE  /\ FoundBy(body) \in Seq(Components)
           /\ IsFiniteSet(RowsBy(body)) /\ Len(FoundBy(body)) = Cardinality(RowsBy(body))
           /\ \A c \in Components :
                /\ (\E row \in RowsBy(body) :
                      /\ row.componentId = c
                      /\ \A other \in RowsBy(body) : other.componentId = c => other = row)
                   => Once(c, FoundBy(body))
                /\ (\A row \in RowsBy(body) : row.componentId # c)
                   => Never(c, FoundBy(body))
<1> DEFINE S == RowsBy(body)
           L == Listing(S)
<1>1. IsFiniteSet(S)
  BY RowsFinite, FS_Subset, SelectedSome
<1>2. \A row \in S : row.componentId \in Components
  <2>1. \A row \in ComponentRows : row.componentId \in Components
    BY DEF ComponentRows, RowsOf, Row
  <2> QED
    BY <2>1, SelectedSome
<1>3. FoundBy(body) = [i \in DOMAIN L |-> L[i].componentId]
  BY DEF FoundBy, RowsBy
<1> HIDE DEF S
<1>4. /\ L \in Seq(S) /\ Len(L) = Cardinality(S)
      /\ \A x \in S : \E i \in DOMAIN L : L[i] = x
      /\ \A i, j \in DOMAIN L : L[i] = L[j] => i = j
  BY <1>1, ListingFacts
<1> HIDE DEF L
<1>5. Len(L) \in Nat /\ DOMAIN L = 1..Len(L) /\ \A i \in DOMAIN L : L[i] \in S
  BY <1>4
<1>6. FoundBy(body) \in Seq(Components) /\ Len(FoundBy(body)) = Cardinality(S)
  BY <1>2, <1>3, <1>4, <1>5
<1>7. DOMAIN FoundBy(body) = DOMAIN L /\ \A i \in DOMAIN L : FoundBy(body)[i] = L[i].componentId
  BY <1>3
<1>8. ASSUME NEW c \in Components, NEW row \in S, row.componentId = c,
             \A other \in S : other.componentId = c => other = row
      PROVE  Once(c, FoundBy(body))
  <2>1. PICK i \in DOMAIN L : L[i] = row
    BY <1>4
  <2>2. ASSUME NEW j \in DOMAIN L, L[j].componentId = c
        PROVE  j = i
    <3>1. L[j] = row
      BY <1>5, <1>8, <2>2
    <3> QED
      BY <1>4, <2>1, <3>1
  <2> QED
    BY <1>7, <1>8, <2>1, <2>2 DEF Once
<1>9. ASSUME NEW c \in Components, \A row \in S : row.componentId # c
      PROVE  Never(c, FoundBy(body))
  BY <1>5, <1>7, <1>9 DEF Never
<1> QED
  BY <1>1, <1>6, <1>8, <1>9 DEF S

\* Whether a component is one a list of the folders should have.
Belongs(c, folders) ==
    ~ component[c].deleted /\ \E i \in DOMAIN folders : folders[i] = component[c].folder

\* The filter for a batch: live current versions, in one of its folders.
FolderParts(batch) == Append(currentNotDeleted, In("folderId", batch))

LEMMA Three ==
    ASSUME NEW S, NEW a \in S, NEW b \in S, NEW c \in S, NEW three, three = Append(<<a, b>>, c)
    PROVE  /\ three \in Seq(S) /\ Len(three) = 3 /\ DOMAIN three = 1..3
           /\ three[1] = a /\ three[2] = b /\ three[3] = c
<1> DEFINE two == <<a, b>>
<1>1. two \in Seq(S) /\ Len(two) = 2 /\ two[1] = a /\ two[2] = b
  OBVIOUS
<1>2. three = Append(two, c)
  OBVIOUS
<1> HIDE DEF two
<1>3. /\ three \in Seq(S) /\ Len(three) = Len(two) + 1 /\ three[Len(two) + 1] = c
      /\ \A i \in 1..Len(two) : three[i] = two[i]
  BY <1>1, <1>2
<1>4. Len(two) + 1 = 3 /\ 1 \in 1..Len(two) /\ 2 \in 1..Len(two)
  BY <1>1
<1>5. three[1] = a /\ three[2] = b /\ three[3] = c
  BY <1>1, <1>3, <1>4
<1> QED
  BY <1>3, <1>4, <1>5

LEMMA FolderFilterIs ==
    ASSUME NEW batch, NEW S, EqBool("currentVersion", TRUE) \in S,
           EqBool("deleted", FALSE) \in S, In("folderId", batch) \in S,
           NEW parts, parts = FolderParts(batch)
    PROVE  /\ FolderFilter(batch) = Group("and", parts)
           /\ parts \in Seq(S) /\ Len(parts) = 3 /\ DOMAIN parts = 1..3
           /\ parts[1] = EqBool("currentVersion", TRUE)
           /\ parts[2] = EqBool("deleted", FALSE)
           /\ parts[3] = In("folderId", batch)
<1>1. FolderFilter(batch) = Group("and", parts)
  BY DEF FolderFilter, And, FolderParts
<1> DEFINE a == EqBool("currentVersion", TRUE)
           b == EqBool("deleted", FALSE)
           c == In("folderId", batch)
<1>2. parts = Append(<<a, b>>, c)
  BY DEF FolderParts, currentNotDeleted
<1>3. a \in S /\ b \in S /\ c \in S
  OBVIOUS
<1> HIDE DEF a, b, c
<1>4. /\ parts \in Seq(S) /\ Len(parts) = 3 /\ DOMAIN parts = 1..3
      /\ parts[1] = a /\ parts[2] = b /\ parts[3] = c
  BY <1>2, <1>3, Three
<1> QED
  BY <1>1, <1>4 DEF a, b, c

\* The filter for a batch is well-formed, and so are its members.
LEMMA FolderFilterWellFormed ==
    ASSUME NEW n \in Nat \ {0}, NEW batch \in [1..n -> Folders]
    PROVE  /\ EqBool("currentVersion", TRUE) \in Proper /\ EqBool("deleted", FALSE) \in Proper
           /\ \A f \in Folders : Eq("folderId", f) \in Proper
           /\ Proper \subseteq WellFormed
           /\ In("folderId", batch) \in WellFormed
           /\ In("folderId", batch) \in GroupsOf(WellFormed, 1)
           /\ FolderFilter(batch) \in WellFormed
           /\ FolderFilter(batch) \in GroupsOf(WellFormed, 1)
<1>1. PICK level : Grows(level, Proper, 1)
  BY TreesGrow
<1>2. 0 \in 0..MaxDepth /\ 1 \in 0..MaxDepth /\ 2 \in 0..MaxDepth
      /\ 1 \in 1..MaxDepth /\ 2 \in 1..MaxDepth /\ 1 - 1 = 0 /\ 2 - 1 = 1
  BY DepthAssumption, ExpressionsAssumption
<1>3. /\ level[0] = Proper
      /\ level[1] = Proper \cup GroupsOf(level[0], 1)
      /\ level[2] = Proper \cup GroupsOf(level[1], 1)
      /\ level[0] \subseteq WellFormed /\ level[1] \subseteq WellFormed
      /\ level[2] \subseteq WellFormed
  <2>1. \A m \in 1..MaxDepth : level[m] = Proper \cup GroupsOf(level[m - 1], 1)
    BY <1>1 DEF Grows
  <2>2. \A m \in 0..MaxDepth : level[m] \subseteq WellFormed
    BY <1>1, DeeperTrees DEF WellFormed
  <2> QED
    BY <1>1, <1>2, <2>1, <2>2 DEF Grows
<1>4. /\ EqBool("currentVersion", TRUE) \in Proper /\ EqBool("deleted", FALSE) \in Proper
      /\ \A f \in Folders : Eq("folderId", f) \in Proper
  BY ExpressionsAssumption DEF Proper, EqBool, Eq, Compare, Simple
<1> DEFINE members == [i \in DOMAIN batch |-> Eq("folderId", batch[i])]
<1>5. members \in Seq(Proper) /\ Len(members) = n
  <2>1. DOMAIN batch = 1..n /\ \A i \in 1..n : batch[i] \in Folders
    OBVIOUS
  <2>2. members \in [1..n -> Proper]
    BY <1>4, <2>1
  <2> HIDE DEF members
  <2> QED
    BY <2>2
<1>6. In("folderId", batch) \in GroupsOf(level[0], 1)
  <2>1. In("folderId", batch) = Group("or", members)
    BY DEF In
  <2> HIDE DEF members
  <2> QED
    BY <1>3, <1>5, <2>1, GroupMade
<1> DEFINE parts == FolderParts(batch)
<1>7. FolderFilter(batch) = Group("and", parts)
  BY <1>3, <1>4, <1>6, FolderFilterIs
<1>8. parts \in Seq(level[1]) /\ Len(parts) = 3
  BY <1>3, <1>4, <1>6, FolderFilterIs
<1> HIDE DEF parts, members
<1>9. FolderFilter(batch) \in GroupsOf(level[1], 1)
  <2>1. Len(parts) >= 1
    BY <1>8
  <2> QED
    BY <1>7, <1>8, <2>1, GroupMade
<1>10. GroupsOf(level[0], 1) \subseteq GroupsOf(WellFormed, 1)
       /\ GroupsOf(level[1], 1) \subseteq GroupsOf(WellFormed, 1)
  BY <1>3, MoreGroups
<1> QED
  BY <1>3, <1>4, <1>6, <1>9, <1>10

\* What a comparison of the filter says of a row.
LEMMA RowHolds ==
    ASSUME NEW c, NEW v, NEW f, NEW current \in BOOLEAN, NEW deleted \in BOOLEAN, NEW g
    PROVE  /\ Holds("EQUALS", "folderId", <<g>>, Row(c, v, f, current, deleted)) <=> f = g
           /\ Holds("EQUALS", "currentVersion", <<"true">>, Row(c, v, f, current, deleted))
                <=> current
           /\ Holds("EQUALS", "deleted", <<"false">>, Row(c, v, f, current, deleted))
                <=> ~ deleted
<1> DEFINE row == Row(c, v, f, current, deleted)
<1>1. /\ row["folderId"] = f /\ row["currentVersion"] = FormatBool(current)
      /\ row["deleted"] = FormatBool(deleted)
  BY DEF Row
<1> HIDE DEF row
<1>2. FormatBool(current) = "true" <=> current
  BY DEF FormatBool
<1>3. FormatBool(deleted) = "false" <=> ~ deleted
  BY DEF FormatBool
<1>4. Holds("EQUALS", "folderId", <<g>>, row) <=> f = g
  BY <1>1 DEF Holds
<1>5. Holds("EQUALS", "currentVersion", <<"true">>, row) <=> current
  BY <1>1, <1>2 DEF Holds
<1>6. Holds("EQUALS", "deleted", <<"false">>, row) <=> ~ deleted
  BY <1>1, <1>3 DEF Holds
<1> QED
  BY <1>4, <1>5, <1>6 DEF row

\* The filter for a batch can be sent, and selects the live current versions
\* of the components in its folders.
LEMMA FolderFilterSelects ==
    ASSUME NEW n \in Nat \ {0}, NEW batch \in [1..n -> Folders],
           NEW body, body = MarshalJSON(FolderFilter(batch)), NEW rows
    PROVE  /\ body \in Acceptable /\ body # Malformed
           /\ \A c, v, f : \A current, deleted \in BOOLEAN :
                Row(c, v, f, current, deleted) \in rows =>
                  (Row(c, v, f, current, deleted) \in Selected(rows, body)
                     <=> current /\ ~ deleted /\ \E i \in 1..n : batch[i] = f)
<1> DEFINE filter == FolderFilter(batch)
           folder == In("folderId", batch)
           live == EqBool("currentVersion", TRUE)
           kept == EqBool("deleted", FALSE)
<1>1. /\ live \in Proper /\ kept \in Proper
      /\ \A f \in Folders : Eq("folderId", f) \in Proper
      /\ Proper \subseteq WellFormed
      /\ folder \in WellFormed /\ folder \in GroupsOf(WellFormed, 1)
      /\ filter \in WellFormed /\ filter \in GroupsOf(WellFormed, 1)
  BY FolderFilterWellFormed
<1>2. /\ body \in Acceptable /\ Selected(rows, body) = Satisfying(rows, filter)
  <2>1. KeepsMeaning(filter, rows)
    BY <1>1, TreesNest, EncoderKeepsMeaning
  <2> QED
    BY <1>1, <2>1 DEF KeepsMeaning
<1>3. body # Malformed
  BY <1>2, TreesNest, Kinds
<1>4. filter.operator = "and" /\ filter.nested = FolderParts(batch)
  <2>1. FolderFilter(batch) = Group("and", FolderParts(batch))
    BY DEF FolderFilter, And, FolderParts
  <2> QED
    BY <2>1 DEF Group
<1>5. Satisfying(rows, filter) =
        {row \in rows : /\ row \in Satisfying(rows, live) /\ row \in Satisfying(rows, kept)
                        /\ row \in Satisfying(rows, folder)}
  <2> DEFINE members == FolderParts(batch)
  <2>1. DOMAIN members = 1..3 /\ members[1] = live /\ members[2] = kept /\ members[3] = folder
    BY <1>1, FolderFilterIs
  <2> HIDE DEF members
  <2>2. filter.nested = members
    BY <1>4 DEF members
  <2> HIDE DEF filter, live, kept, folder
  <2>3. Satisfying(rows, filter) =
          {row \in rows : \A i \in DOMAIN members : row \in Satisfying(rows, members[i])}
    BY <1>1, <1>4, <2>2, SatisfyingGroup
  <2>4. \A row : (\A i \in DOMAIN members : row \in Satisfying(rows, members[i]))
                 <=> /\ row \in Satisfying(rows, live) /\ row \in Satisfying(rows, kept)
                     /\ row \in Satisfying(rows, folder)
    <3>1. \A i : i \in 1..3 <=> i = 1 \/ i = 2 \/ i = 3
      OBVIOUS
    <3> QED
      BY <2>1, <3>1
  <2> QED
    BY <2>3, <2>4
<1>6. Satisfying(rows, folder) =
        {row \in rows : \E i \in 1..n : row \in Satisfying(rows, Eq("folderId", batch[i]))}
  <2>1. folder.operator = "or" /\ folder.nested = [i \in DOMAIN batch |-> Eq("folderId", batch[i])]
    BY DEF In, Group
  <2>2. DOMAIN batch = 1..n
    OBVIOUS
  <2>3. DOMAIN folder.nested = 1..n /\ \A i \in 1..n : folder.nested[i] = Eq("folderId", batch[i])
    BY <2>1, <2>2
  <2> HIDE DEF folder
  <2> QED
    BY <1>1, <2>1, <2>3, SatisfyingGroup
<1>7. \A f \in Folders : Satisfying(rows, Eq("folderId", f))
                            = {row \in rows : Holds("EQUALS", "folderId", <<f>>, row)}
  <2> TAKE f \in Folders
  <2> DEFINE e == Eq("folderId", f)
  <2>1. e.operator = "EQUALS" /\ e.property = "folderId" /\ e.argument = <<f>>
    BY DEF Eq, Compare, Simple
  <2>2. e \in Proper
    BY <1>1
  <2> HIDE DEF e
  <2>3. Satisfying(rows, e) = {row \in rows : Holds("EQUALS", "folderId", <<f>>, row)}
    BY <2>1, <2>2, SatisfyingSimple
  <2> QED
    BY <2>3 DEF e
<1>8. /\ Satisfying(rows, live) = {row \in rows : Holds("EQUALS", "currentVersion", <<"true">>, row)}
      /\ Satisfying(rows, kept) = {row \in rows : Holds("EQUALS", "deleted", <<"false">>, row)}
  <2>1. /\ live.operator = "EQUALS" /\ live.property = "currentVersion" /\ live.argument = <<"true">>
        /\ kept.operator = "EQUALS" /\ kept.property = "deleted" /\ kept.argument = <<"false">>
    BY DEF EqBool, Eq, Compare, Simple, FormatBool
  <2> HIDE DEF live, kept
  <2> QED
    BY <1>1, <2>1, SatisfyingSimple
<1> HIDE DEF filter, folder, live, kept
<1>9. ASSUME NEW c, NEW v, NEW f, NEW current \in BOOLEAN, NEW deleted \in BOOLEAN,
             Row(c, v, f, current, deleted) \in rows
      PROVE  Row(c, v, f, current, deleted) \in Selected(rows, body)
               <=> current /\ ~ deleted /\ \E i \in 1..n : batch[i] = f
  <2> DEFINE row == Row(c, v, f, current, deleted)
  <2>1. row \in Satisfying(rows, live) <=> current
    BY <1>8, <1>9, RowHolds
  <2>2. row \in Satisfying(rows, kept) <=> ~ deleted
    BY <1>8, <1>9, RowHolds
  <2>3. \A i \in 1..n : row \in Satisfying(rows, Eq("folderId", batch[i])) <=> batch[i] = f
    <3> TAKE i \in 1..n
    <3>1. batch[i] \in Folders
      OBVIOUS
    <3>2. Holds("EQUALS", "folderId", <<batch[i]>>, row) <=> f = batch[i]
      BY RowHolds
    <3> HIDE DEF row
    <3>3. row \in Satisfying(rows, Eq("folderId", batch[i]))
            <=> row \in rows /\ Holds("EQUALS", "folderId", <<batch[i]>>, row)
      BY <1>7, <3>1
    <3> QED
      BY <1>9, <3>2, <3>3 DEF row
  <2>4. row \in rows
    BY <1>9
  <2> HIDE DEF row
  <2>5. row \in Satisfying(rows, filter) <=> current /\ ~ deleted /\ \E i \in 1..n : batch[i] = f
    BY <1>5, <1>6, <2>1, <2>2, <2>3, <2>4
  <2> QED
    BY <1>2, <2>5 DEF row
<1> QED
  BY <1>2, <1>3, <1>9

LEMMA BatchListed ==
    ASSUME MetadataTypeOK, NEW n \in 1..folderBatchSize, NEW batch \in [1..n -> Folders],
           NEW body, body = MarshalJSON(FolderFilter(batch))
    PROVE  /\ body # Malformed /\ body \in Acceptable
           /\ \A c \in Components : IF Belongs(c, batch) THEN Once(c, FoundBy(body))
                                                         ELSE Never(c, FoundBy(body))
<1>0. n \in Nat \ {0}
  BY BatchAssumption
<1>1. body # Malformed /\ body \in Acceptable
  BY <1>0, FolderFilterSelects
<1>2. \A c, v, f : \A current, deleted \in BOOLEAN :
        Row(c, v, f, current, deleted) \in ComponentRows =>
          (Row(c, v, f, current, deleted) \in RowsBy(body)
             <=> current /\ ~ deleted /\ \E i \in 1..n : batch[i] = f)
  BY <1>0, FolderFilterSelects DEF RowsBy
<1> SUFFICES ASSUME NEW c \in Components
             PROVE  IF Belongs(c, batch) THEN Once(c, FoundBy(body)) ELSE Never(c, FoundBy(body))
  BY <1>1
<1> DEFINE of(v) == Row(c, v, component[c].folder, v = component[c].version,
                        component[c].deleted)
<1>3. /\ component[c].version \in Versions /\ component[c].folder \in Folders
      /\ component[c].deleted \in BOOLEAN
  BY DEF MetadataTypeOK
<1>4. 1..component[c].version \subseteq Versions /\ component[c].version \in 1..component[c].version
  BY <1>3 DEF Versions
<1>5. DOMAIN batch = 1..n
  OBVIOUS
<1>6. \A v \in 1..component[c].version :
        of(v) \in RowsBy(body) <=> v = component[c].version /\ Belongs(c, batch)
  <2> TAKE v \in 1..component[c].version
  <2>1. v \in Versions
    BY <1>4
  <2>2. ASSUME NEW current \in BOOLEAN, NEW deleted \in BOOLEAN,
               current <=> v = component[c].version, deleted <=> component[c].deleted
        PROVE  of(v) \in RowsBy(body) <=> v = component[c].version /\ Belongs(c, batch)
    <3>1. of(v) = Row(c, v, component[c].folder, current, deleted)
      BY <2>2 DEF Row, FormatBool
    <3>2. Row(c, v, component[c].folder, current, deleted) \in RowsBy(body)
            <=> current /\ ~ deleted /\ \E i \in 1..n : batch[i] = component[c].folder
      <4>1. of(v) \in ComponentRows
        BY <2>1 DEF ComponentRows, RowsOf
      <4> HIDE DEF of
      <4> QED
        BY <1>2, <3>1, <4>1
    <3> HIDE DEF of
    <3> QED
      BY <1>5, <2>2, <3>1, <3>2, Zenon DEF Belongs
  <2>3. /\ \E current \in BOOLEAN : current <=> v = component[c].version
        /\ \E deleted \in BOOLEAN : deleted <=> component[c].deleted
    OBVIOUS
  <2> HIDE DEF of
  <2> QED
    BY <2>2, <2>3, Zenon
<1>7. \A row \in ComponentRows : row.componentId = c =>
        \E v \in 1..component[c].version : row = of(v)
  BY DEF ComponentRows, RowsOf, Row
<1>8. \A v \in 1..component[c].version : of(v) \in ComponentRows /\ of(v).componentId = c
  BY DEF ComponentRows, RowsOf, Row
<1> DEFINE latest == of(component[c].version)
<1> HIDE DEF of
<1>9. RowsBy(body) \subseteq ComponentRows
  BY <1>1, SelectedSome
<1>10. CASE Belongs(c, batch)
  <2>1. latest \in RowsBy(body) /\ latest.componentId = c
    BY <1>4, <1>6, <1>8, <1>10
  <2>2. \A other \in RowsBy(body) : other.componentId = c => other = latest
    BY <1>6, <1>7, <1>9
  <2> HIDE DEF latest
  <2>3. \E row \in RowsBy(body) :
          /\ row.componentId = c
          /\ \A other \in RowsBy(body) : other.componentId = c => other = row
    BY <2>1, <2>2
  <2>4. Once(c, FoundBy(body))
    BY <1>1, <2>3, QueryTyped, TablesTyped
  <2> QED
    BY <1>10, <2>4
<1>11. CASE ~ Belongs(c, batch)
  <2>1. \A row \in RowsBy(body) : row.componentId # c
    BY <1>6, <1>7, <1>9, <1>11
  <2> QED
    BY <1>1, <1>11, <2>1, QueryTyped, TablesTyped
<1> QED
  BY <1>10, <1>11

-----------------------------------------------------------------------------
(* A query, page by page *)

\* What a query finds, and how many rows that are, before and after a step.
Finds(body) ==
    /\ FoundBy(body) \in Seq(Components)
    /\ IsFiniteSet(RowsBy(body)) /\ Len(FoundBy(body)) = Cardinality(RowsBy(body))

LEMMA Findable == TablesTypeOK => \A body \in Acceptable \cup {ListAll} : Finds(body)
BY QueryTyped DEF Finds

LEMMA StillFindable ==
    TablesTypeOK' => \A body \in Acceptable \cup {ListAll} : Finds(body)'
<1>1. (TablesTypeOK => \A body \in Acceptable \cup {ListAll} : Finds(body))'
  BY Findable, PTL
<1> QED
  BY <1>1

\* Nothing has gone wrong, and there is more to come.
Smooth(found, total) ==
    /\ collected = SubSeq(found, 1, served) /\ served < Len(found)
    /\ total = Len(found)

\* One thing has: the count will tell.
Shaken(found, total) ==
    /\ served <= Len(found)
    /\ \/ Len(collected) = served /\ total # Len(found)
       \/ Len(collected) < served /\ total = Len(found)

OnTrack(found, total) == IF shifts = 0 THEN Smooth(found, total) ELSE Shaken(found, total)

\* Before its first page a query is as smooth as can be.
Fresh(found, total) ==
    shifts = 0 /\ served = 0 /\ collected = <<>> /\ total = Len(found)

LEMMA PageCollected ==
    ASSUME NEW found \in Seq(Components), NEW total \in Nat,
           served \in Nat, collected \in Seq(Components), shifts \in Nat, calm \in BOOLEAN,
           calm => shifts <= 1 /\ (Fresh(found, total) \/ OnTrack(found, total)),
           Collect(found)
    PROVE  /\ served' \in Nat /\ collected' \in Seq(Components)
           /\ shifts' \in Nat /\ calm' \in BOOLEAN /\ paging' \in {"more", "last"}
           /\ calm' => calm /\ shifts' <= 1
           /\ calm' /\ paging' = "more" => OnTrack(found, total)'
           /\ calm' /\ paging' = "last" /\ Len(collected') = total => collected' = found
<1> DEFINE n == Len(found)
           end == PageBorder(found)
           rows == SubSeq(found, served + 1, end)
<1>1. n \in Nat /\ end \in Nat /\ end <= n /\ (served < n => served < end)
      /\ (served <= n => served <= end)
  BY BatchAssumption DEF PageBorder
<1>2. \A i \in (served + 1)..end : found[i] \in Components
  BY <1>1, ElementOfSeq
<1>3. /\ rows \in Seq(Components)
      /\ Len(rows) = IF served + 1 <= end THEN end - served ELSE 0
  BY <1>1, <1>2, SubSeqProperties
<1>4. collected' = collected \o rows /\ served' = end
  BY DEF Collect
<1>5. collected' \in Seq(Components) /\ Len(collected') = Len(collected) + Len(rows)
      /\ Len(collected) \in Nat
  <2> HIDE DEF rows
  <2> QED
    BY <1>3, <1>4, ConcatProperties
<1>6. \/ /\ paging' = (IF end < n THEN "more" ELSE "last")
         /\ shifts' = shifts
      \/ /\ end < n /\ paging' = "last" /\ shifts' = shifts + 1
         /\ calm' => shifts + 1 <= 1
  <2>1. \/ /\ paging' = (IF end < n THEN "more" ELSE "last")
           /\ shifts' = shifts /\ calm' = calm
        \/ /\ end < n /\ paging' = "last" /\ shifts' = shifts + 1
           /\ calm' = (calm /\ shifts + 1 <= 1)
    BY Zenon DEF Collect, Shift
  <2> HIDE DEF end, n
  <2> QED
    BY <2>1, Zenon
<1>7. calm' \in BOOLEAN /\ (calm' => calm)
  <2>1. calm' = calm \/ calm' = (calm /\ shifts + 1 <= 1)
    BY Zenon DEF Collect, Shift
  <2> DEFINE few == shifts + 1 <= 1
  <2>2. calm' = calm \/ calm' = (calm /\ few)
    BY <2>1
  <2> HIDE DEF few
  <2>3. CASE calm' = calm
    BY <2>3, Zenon
  <2>4. CASE calm' = (calm /\ few)
    <3>1. (calm /\ few) \in BOOLEAN /\ (calm /\ few => calm)
      OBVIOUS
    <3> QED
      BY <2>4, <3>1, Zenon
  <2> QED
    BY <2>2, <2>3, <2>4
<1> HIDE DEF rows, end, n
<1>71. shifts' \in Nat /\ paging' \in {"more", "last"}
  <2>1. shifts' = shifts \/ shifts' = shifts + 1
    BY <1>6, Zenon
  <2>2. paging' = "more" \/ paging' = "last"
    BY <1>6, Zenon
  <2> QED
    BY <2>1, <2>2
<1>72. calm' => shifts' <= 1
  BY <1>6, <1>7
<1>8. ASSUME calm', shifts = 0
      PROVE  /\ collected' = SubSeq(found, 1, end) /\ total = n /\ Len(collected') = end
             /\ served <= n
  <2>1. collected = SubSeq(found, 1, served) /\ total = n /\ served <= n
    <3>1. CASE Fresh(found, total)
      BY <3>1, SubSeqEmpty DEF Fresh, n
    <3>2. CASE OnTrack(found, total)
      BY <1>1, <1>8, <3>2 DEF OnTrack, Smooth, n
    <3> QED
      BY <1>7, <1>8, <3>1, <3>2
  <2>2. SubSeq(found, 1, served) \o SubSeq(found, served + 1, end) = SubSeq(found, 1, end)
    <3>1. 1 \in 1..Len(found) + 1 /\ served \in 1 - 1..Len(found) /\ end \in served..Len(found)
      BY <1>1, <2>1 DEF n
    <3> QED
      BY <3>1, ConcatAdjacentSubSeq
  <2>3. collected' = SubSeq(found, 1, end)
    BY <1>4, <2>1, <2>2 DEF rows
  <2>4. \A i \in 1..end : found[i] \in Components
    BY <1>1, ElementOfSeq DEF n
  <2>5. Len(SubSeq(found, 1, end)) = end
    BY <1>1, <2>4, SubSeqProperties
  <2> QED
    BY <2>1, <2>3, <2>5
<1>9. ASSUME calm', shifts # 0
      PROVE  /\ shifts' = shifts /\ paging' = (IF end < n THEN "more" ELSE "last")
             /\ \/ Len(collected') = end /\ total # n
                \/ Len(collected') < end /\ total = n
  <2>1. Shaken(found, total)
    BY <1>7, <1>9 DEF OnTrack, Fresh
  <2>2. shifts' = shifts /\ paging' = (IF end < n THEN "more" ELSE "last")
    BY <1>6, <1>9
  <2>3. Len(rows) = end - served /\ served <= end
    BY <1>1, <1>3, <2>1 DEF Shaken, n
  <2>4. \/ Len(collected) = served /\ total # n
        \/ Len(collected) < served /\ total = n
    BY <2>1 DEF Shaken, n
  <2>5. \/ Len(collected') = end /\ total # n
        \/ Len(collected') < end /\ total = n
    <3>1. CASE Len(collected) = served /\ total # n
      BY <1>1, <1>5, <2>3, <3>1
    <3>2. CASE Len(collected) < served /\ total = n
      BY <1>1, <1>5, <2>3, <3>2
    <3> QED
      BY <2>4, <3>1, <3>2
  <2> QED
    BY <2>2, <2>5
<1>10. ASSUME calm', paging' = "more"
       PROVE  OnTrack(found, total)'
  <2>1. end < n
    BY <1>6, <1>10
  <2>2. CASE shifts = 0
    <3>1. shifts' = 0
      BY <1>6, <1>10, <2>2
    <3> QED
      BY <1>4, <1>8, <1>10, <2>1, <2>2, <3>1 DEF OnTrack, Smooth, n
  <2>3. CASE shifts # 0
    <3>1. shifts' # 0 /\ served' <= n
      BY <1>1, <1>4, <1>9, <1>10, <2>3
    <3> QED
      BY <1>4, <1>9, <1>10, <2>3, <3>1 DEF OnTrack, Shaken, n
  <2> QED
    BY <2>2, <2>3
<1>11. ASSUME calm', paging' = "last", Len(collected') = total
       PROVE  collected' = found
  <2>1. CASE shifts = 0
    <3>1. end = n
      BY <1>1, <1>8, <1>11, <2>1
    <3> QED
      BY <1>8, <1>11, <2>1, <3>1, SubSeqFull DEF n
  <2>2. CASE shifts # 0
    <3>1. end = n
      BY <1>1, <1>9, <1>11, <2>2
    <3> QED
      BY <1>1, <1>5, <1>9, <1>11, <2>2, <3>1
  <2> QED
    BY <2>1, <2>2
<1> QED
  BY <1>1, <1>4, <1>5, <1>7, <1>71, <1>72, <1>10, <1>11

\* A row that comes or goes changes how many there are.
LEMMA RowComesOrGoes ==
    ASSUME NEW S, NEW T, IsFiniteSet(S), IsFiniteSet(T)
    PROVE  LET n == Cardinality((S \ T) \cup (T \ S))
           IN /\ n \in Nat
              /\ n = 0 => S = T
              /\ n = 1 => Cardinality(T) = Cardinality(S) + 1
                          \/ Cardinality(T) = Cardinality(S) - 1
<1> DEFINE D == (S \ T) \cup (T \ S)
<1>1. IsFiniteSet(D)
  <2>1. IsFiniteSet(S \ T) /\ IsFiniteSet(T \ S)
    BY FS_Difference
  <2> QED
    BY <2>1, FS_Union
<1>2. Cardinality(D) \in Nat
  BY <1>1, FS_CardinalityType
<1>3. ASSUME Cardinality(D) = 0
      PROVE  S = T
  <2>1. D = {}
    BY <1>1, <1>3, FS_EmptySet
  <2> QED
    BY <2>1
<1>4. ASSUME Cardinality(D) = 1
      PROVE  Cardinality(T) = Cardinality(S) + 1 \/ Cardinality(T) = Cardinality(S) - 1
  <2>1. PICK x : D = {x}
    BY <1>1, <1>4, FS_Singleton
  <2>2. CASE x \in S
    <3>1. T = S \ {x}
      BY <2>1, <2>2
    <3> QED
      BY <2>2, <3>1, FS_RemoveElement
  <2>3. CASE x \notin S
    <3>1. T = S \cup {x}
      BY <2>1, <2>3
    <3> QED
      BY <2>3, <3>1, FS_AddElement
  <2> QED
    BY <2>2, <2>3
<1> QED
  BY <1>2, <1>3, <1>4

-----------------------------------------------------------------------------
(* CurrentByFolders: the invariant *)

EarlierOf(m, n) == IF m < n THEN m ELSE n
Answered == EarlierOf(asked, Len(request.folders))
InAnswered(c) ==
    /\ ~ component[c].deleted
    /\ \E i \in 1..Answered : request.folders[i] = component[c].folder
ListedAsAnswered(c) == IF InAnswered(c) THEN Once(c, all) ELSE Never(c, all)

\* What is to come of the query under way for the component.
CollectedAsAsked(c) == IF Belongs(c, Batch) THEN Once(c, collected) ELSE Never(c, collected)

NoQuery == paging = "no" /\ served = 0 /\ collected = <<>> /\ shifts = 0

QueryInv ==
    /\ paging = "no" => NoQuery
    /\ paging # "no" => wire = Body /\ wire # Malformed
    /\ calm => shifts <= 1
    /\ calm /\ paging = "more" => OnTrack(FoundBy(wire), count)
    /\ calm /\ paging = "last" /\ Len(collected) = count /\ request.by = "folders"
         => \A c \in Components \ edited : CollectedAsAsked(c)

Underway ==
    /\ QueryInv
    /\ \/ request.by = "folders" /\ asked < Len(request.folders)
       \/ request.by = "filter" /\ request.folders = <<>> /\ all = <<>>

ListInv ==
    /\ MetadataTypeOK
    /\ \A c \in Components \ edited : component[c].version = 2
    /\ listErr = "idle" => NoQuery /\ asked = 0 /\ all = <<>> /\ edited = {}
    /\ listErr = "running" => Underway
    /\ listErr = "nil" /\ request.by = "folders" => asked >= Len(request.folders)
    /\ calm /\ listErr \in {"running", "nil"} /\ request.by = "folders"
         /\ NoRepeats(request.folders)
         => \A c \in Components \ edited : ListedAsAnswered(c)
    /\ listErr = "malformed" => request.by # "folders"
    /\ listErr \in {"api", "truncated", "malformed"} => all = <<>>

LEMMA ListInvStarts == MetadataInit => ListInv
<1> SUFFICES ASSUME MetadataInit PROVE ListInv
  OBVIOUS
<1>1. component \in [Components -> [version : Versions, folder : Folders, deleted : BOOLEAN]]
      /\ \A c \in Components : component[c].version = 2
  BY DEF MetadataInit, Versions
<1>2. request.folders = <<>> /\ listErr = "idle" /\ asked = 0 /\ all = <<>> /\ edited = {}
  BY DEF MetadataInit, NoRequest
<1>3. request.filter \in Buildable /\ request.by = "nothing"
  BY NilBuildable DEF MetadataInit, NoRequest
<1>4. /\ NoQuery /\ wire = ListAll /\ count = 0 /\ calm = TRUE
      /\ served \in Nat /\ shifts \in Nat /\ collected \in Seq(Components)
  BY DEF MetadataInit, NoQuery
<1>5. MetadataTypeOK
  BY <1>1, <1>2, <1>3, <1>4 DEF MetadataTypeOK, NoQuery
<1> QED
  BY <1>1, <1>2, <1>4, <1>5 DEF ListInv

LEMMA BatchFacts ==
    ASSUME MetadataTypeOK, asked < Len(request.folders)
    PROVE  /\ BatchEnd \in asked + 1..Len(request.folders)
           /\ BatchEnd - asked \in 1..folderBatchSize
           /\ Batch \in [1..BatchEnd - asked -> Folders]
           /\ \A i \in 1..BatchEnd - asked : Batch[i] = request.folders[asked + i]
           /\ EarlierOf(asked + folderBatchSize, Len(request.folders)) = BatchEnd
<1> DEFINE n == BatchEnd - asked
<1>1. /\ request.folders \in Seq(Folders) /\ Len(request.folders) \in Nat /\ asked \in Nat
      /\ folderBatchSize \in Nat /\ folderBatchSize > 0
  BY BatchAssumption DEF MetadataTypeOK
<1>2. /\ BatchEnd \in asked + 1..Len(request.folders) /\ n \in 1..folderBatchSize
      /\ EarlierOf(asked + folderBatchSize, Len(request.folders)) = BatchEnd
  BY <1>1 DEF BatchEnd, EarlierOf
<1>3. \A i \in (asked + 1)..BatchEnd : request.folders[i] \in Folders
  BY <1>1, <1>2, ElementOfSeq
<1>4. /\ Batch \in Seq(Folders)
      /\ Len(Batch) = IF asked + 1 <= BatchEnd THEN BatchEnd - (asked + 1) + 1 ELSE 0
      /\ \A i \in 1..BatchEnd - (asked + 1) + 1 : Batch[i] = request.folders[(asked + 1) + i - 1]
  BY <1>1, <1>2, <1>3, SubSeqProperties DEF Batch
<1>5. Len(Batch) = n /\ BatchEnd - (asked + 1) + 1 = n
  BY <1>1, <1>2, <1>4
<1>6. \A i \in 1..n : Batch[i] = request.folders[asked + i]
  BY <1>1, <1>2, <1>4, <1>5
<1>7. Batch \in [1..n -> Folders]
  BY <1>4, <1>5
<1> QED
  BY <1>2, <1>6, <1>7

\* The body of a batch can always be sent; that of a filter is one the
\* platform accepts, or is refused.
LEMMA BodySent ==
    ASSUME MetadataTypeOK, Underway
    PROVE  /\ Body # Malformed => Body \in Acceptable \cup {ListAll}
           /\ request.by = "folders" =>
                /\ Body # Malformed
                /\ \A c \in Components : IF Belongs(c, Batch) THEN Once(c, FoundBy(Body))
                                                              ELSE Never(c, FoundBy(Body))
<1>1. CASE request.by = "folders"
  <2>1. asked < Len(request.folders) /\ Body = MarshalJSON(FolderFilter(Batch))
    BY <1>1 DEF Underway, Body
  <2>2. BatchEnd - asked \in 1..folderBatchSize /\ Batch \in [1..BatchEnd - asked -> Folders]
    BY <2>1, BatchFacts
  <2> QED
    BY <2>1, <2>2, BatchListed
<1>2. CASE request.by # "folders"
  <2>1. Body = MarshalJSON(request.filter) /\ request.filter \in Buildable
    BY <1>2 DEF Body, MetadataTypeOK
  <2> QED
    BY <1>2, <2>1, Sendable
<1> QED
  BY <1>1, <1>2

\* What is listed stays as it is while a query runs.
LEMMA ListingStays ==
    ASSUME ListInv, listErr = "running", calm' => calm, MetadataTypeOK', QueryInv',
           UNCHANGED <<component, request, asked, all, listErr, edited>>
    PROVE  ListInv'
<1>1. Underway'
  BY DEF ListInv, Underway
<1>2. (NoRepeats(request.folders))' <=> NoRepeats(request.folders)
  BY DEF NoRepeats
<1>3. \A c \in Components : ListedAsAnswered(c)' <=> ListedAsAnswered(c)
  BY DEF ListedAsAnswered, InAnswered, Answered, Once, Never
<1>4. calm' /\ request'.by = "folders" /\ (NoRepeats(request.folders))'
        => \A c \in Components \ edited' : ListedAsAnswered(c)'
  BY <1>2, <1>3 DEF ListInv
<1>5. \A c \in Components \ edited' : component'[c].version = 2
  BY DEF ListInv
<1> QED
  BY <1>1, <1>4, <1>5 DEF ListInv

\* The query, and what it is for, when the platform's tables stay as they are.
LEMMA SameTables ==
    ASSUME UNCHANGED <<component, request, asked>>
    PROVE  Body' = Body /\ Batch' = Batch /\ FoundBy(wire)' = FoundBy(wire')
           /\ \A c \in Components : Belongs(c, Batch)' <=> Belongs(c, Batch)
<1>1. BatchEnd' = BatchEnd
  BY DEF BatchEnd
<1>2. Batch' = Batch
  BY <1>1 DEF Batch
<1>3. Body' = Body
  BY <1>2 DEF Body
<1>4. RowsBy(wire)' = RowsBy(wire')
  BY DEF RowsBy, ComponentRows, RowsOf
<1>5. FoundBy(wire)' = FoundBy(wire')
  BY <1>4 DEF FoundBy
<1> QED
  BY <1>2, <1>3, <1>5 DEF Belongs

\* CurrentByFolders and the lists by a filter begin with nothing.
LEMMA ListCalled ==
    ASSUME ListInv,
           (\E folders \in FolderLists : CurrentByFolders(folders))
             \/ (\E filter \in Expressions : ListBy(filter))
    PROVE  ListInv'
<1>1. /\ MetadataTypeOK /\ asked = 0 /\ all = <<>> /\ edited = {} /\ NoQuery
      /\ \A c \in Components \ edited : component[c].version = 2
      /\ UNCHANGED <<component, asked, all, pageVars, edited, shifts, calm>>
      /\ \/ /\ request'.by = "folders" /\ request'.folders \in FolderLists
            /\ request'.filter = Nil
            /\ listErr' = IF request'.folders = <<>> THEN "nil" ELSE "running"
         \/ /\ request'.by = "filter" /\ request'.folders = <<>>
            /\ request'.filter \in Expressions /\ listErr' = "running"
  BY DEF ListInv, CurrentByFolders, ListBy, NoRequest
<1>2. request'.folders \in Seq(Folders) /\ request'.filter \in Buildable
  <2>1. <<>> \in Seq(Folders)
    OBVIOUS
  <2>2. request'.folders \in FolderLists \/ request'.folders = <<>>
    BY <1>1
  <2>3. request'.filter = Nil \/ request'.filter \in Expressions
    BY <1>1
  <2> QED
    BY <2>1, <2>2, <2>3, FoldersAssumption, ExpressionsAssumption, NilBuildable
<1>3. /\ UNCHANGED <<component, asked, all, edited, shifts, calm>>
      /\ UNCHANGED <<paging, wire, served, collected, count>>
  BY <1>1 DEF pageVars
<1>4. MetadataTypeOK'
  <2>1. listErr' \in {"nil", "running"}
    BY <1>1
  <2> QED
    BY <1>1, <1>2, <1>3, <2>1 DEF MetadataTypeOK
<1>5. NoQuery' /\ QueryInv'
  BY <1>1, <1>3 DEF NoQuery, QueryInv
<1>6. listErr' = "running" => Underway'
  <2>1. request'.folders # <<>> => asked' < Len(request'.folders)
    BY <1>1, <1>2, <1>3
  <2> QED
    BY <1>1, <1>3, <1>5, <2>1 DEF Underway
<1>7. listErr' = "nil" => asked' >= Len(request'.folders)
  BY <1>1, <1>3
<1>8. Answered' = 0
  BY <1>1, <1>2, <1>3 DEF Answered, EarlierOf
<1>9. \A c \in Components : ListedAsAnswered(c)'
  <2> TAKE c \in Components
  <2>1. ~ InAnswered(c)'
    BY <1>8 DEF InAnswered
  <2>2. Never(c, all)'
    BY <1>1, <1>3 DEF Never
  <2> QED
    BY <2>1, <2>2 DEF ListedAsAnswered
<1>10. listErr' \in {"nil", "running"}
  BY <1>1
<1> QED
  BY <1>1, <1>3, <1>4, <1>6, <1>7, <1>9, <1>10 DEF ListInv

\* It ends with an error, and nothing.
LEMMA ListFailed ==
    ASSUME ListInv, Refuse \/ PageFails
    PROVE  ListInv'
<1>1. /\ MetadataTypeOK /\ Underway /\ listErr = "running"
      /\ UNCHANGED <<component, request, asked, edited, shifts, calm>>
      /\ UNCHANGED <<paging, wire, served, collected, count>>
  BY DEF ListInv, Refuse, PageFails, pageVars
<1>2. listErr' \in {"api", "malformed"} /\ all' = <<>>
      /\ (listErr' = "malformed" => request.by # "folders")
  <2>1. CASE Refuse
    <3>1. request.by # "folders"
      BY <1>1, <2>1, BodySent DEF Refuse
    <3> QED
      BY <1>1, <2>1, <3>1 DEF Refuse, Underway
  <2>2. CASE PageFails
    BY <2>2 DEF PageFails
  <2> QED
    BY <2>1, <2>2
<1>3. MetadataTypeOK'
  <2>1. all' \in Seq(Components)
    BY <1>2
  <2> QED
    BY <1>1, <1>2, <2>1 DEF MetadataTypeOK
<1> QED
  BY <1>1, <1>2, <1>3 DEF ListInv

\* A page of the query keeps it on its track.
LEMMA PageKept ==
    ASSUME ListInv, FirstPage \/ NextPage
    PROVE  ListInv'
<1>1. /\ MetadataTypeOK /\ Underway /\ QueryInv /\ listErr = "running"
      /\ UNCHANGED <<component, request, asked, all, listErr, edited>>
  BY DEF ListInv, Underway, FirstPage, NextPage
<1>2. /\ served \in Nat /\ collected \in Seq(Components) /\ count \in Nat
      /\ shifts \in Nat /\ calm \in BOOLEAN
  BY <1>1 DEF MetadataTypeOK
<1>3. Body' = Body /\ Batch' = Batch /\ FoundBy(wire)' = FoundBy(wire')
      /\ \A c \in Components : Belongs(c, Batch)' <=> Belongs(c, Batch)
  BY <1>1, SameTables
<1>4. wire' = Body /\ wire' # Malformed /\ wire' \in Acceptable \cup {ListAll}
      /\ Collect(FoundBy(wire'))
  <2>1. CASE FirstPage
    BY <1>1, <2>1, BodySent DEF FirstPage
  <2>2. CASE NextPage
    BY <1>1, <2>2, BodySent DEF NextPage, QueryInv
  <2> QED
    BY <2>1, <2>2
<1> DEFINE found == FoundBy(wire')
<1>5. found \in Seq(Components) /\ Len(found) \in Nat
  BY <1>1, <1>4, QueryTyped, TablesTyped
<1>6. /\ count' \in Nat
      /\ calm => shifts <= 1 /\ (Fresh(found, count') \/ OnTrack(found, count'))
  <2>1. CASE FirstPage
    <3>1. count' = Len(found) /\ NoQuery
      BY <1>1, <2>1 DEF FirstPage, QueryInv
    <3> HIDE DEF found
    <3> QED
      BY <1>5, <3>1 DEF Fresh, NoQuery
  <2>2. CASE NextPage
    <3>1. count' = count /\ wire' = wire
      BY <2>2 DEF NextPage
    <3>2. calm => shifts <= 1 /\ OnTrack(FoundBy(wire), count)
      BY <1>1, <2>2 DEF QueryInv, NextPage
    <3> QED
      BY <1>2, <3>1, <3>2
  <2> QED
    BY <2>1, <2>2
<1>7. PICK f, t : f = found /\ t = count'
  OBVIOUS
<1>8. Collect(f)
  BY <1>4, <1>7
<1>9. f \in Seq(Components) /\ t \in Nat
      /\ (calm => shifts <= 1 /\ (Fresh(f, t) \/ OnTrack(f, t)))
  BY <1>5, <1>6, <1>7
<1>10. /\ served' \in Nat /\ collected' \in Seq(Components)
       /\ shifts' \in Nat /\ calm' \in BOOLEAN /\ paging' \in {"more", "last"}
       /\ calm' => calm /\ shifts' <= 1
       /\ calm' /\ paging' = "more" => OnTrack(f, t)'
       /\ calm' /\ paging' = "last" /\ Len(collected') = t => collected' = f
  BY <1>2, <1>8, <1>9, PageCollected
<1>11. MetadataTypeOK'
  BY <1>1, <1>4, <1>6, <1>10 DEF MetadataTypeOK
<1>12. calm' /\ paging' = "more" => OnTrack(FoundBy(wire), count)'
  <2>1. OnTrack(f, t)' <=> OnTrack(FoundBy(wire), count)'
    BY <1>3, <1>7 DEF OnTrack, Smooth, Shaken
  <2> QED
    BY <1>10, <2>1
<1>13. ASSUME calm', paging' = "last", Len(collected') = count', request.by = "folders",
              NEW c \in Components
       PROVE  CollectedAsAsked(c)'
  <2>1. collected' = FoundBy(Body)
    BY <1>4, <1>7, <1>10, <1>13
  <2>2. IF Belongs(c, Batch) THEN Once(c, FoundBy(Body)) ELSE Never(c, FoundBy(Body))
    BY <1>1, <1>13, BodySent
  <2>3. IF Belongs(c, Batch)' THEN Once(c, collected') ELSE Never(c, collected')
    BY <1>3, <2>1, <2>2
  <2>4. CollectedAsAsked(c)' <=>
          IF Belongs(c, Batch)' THEN Once(c, collected') ELSE Never(c, collected')
    BY DEF CollectedAsAsked, Once, Never
  <2> QED
    BY <2>3, <2>4
<1>14. QueryInv'
  BY <1>1, <1>3, <1>4, <1>10, <1>12, <1>13 DEF QueryInv
<1> QED
  BY <1>1, <1>10, <1>11, <1>14, ListingStays

\* A lost answer is the one thing that may go wrong.
LEMMA AnswerMissed ==
    ASSUME ListInv, AnswerLost
    PROVE  ListInv'
<1>1. /\ MetadataTypeOK /\ Underway /\ QueryInv /\ listErr = "running" /\ paging = "more"
      /\ UNCHANGED <<component, request, asked, all, listErr, edited, paging, wire, collected, count>>
      /\ shifts' = shifts + 1
  BY DEF ListInv, Underway, AnswerLost, Shift
<1>2. calm' \in BOOLEAN /\ (calm' => calm) /\ (calm' => shifts + 1 <= 1)
  <2> DEFINE few == shifts + 1 <= 1
  <2>1. calm' = (calm /\ few)
    BY Zenon DEF AnswerLost, Shift
  <2> HIDE DEF few
  <2>2. (calm /\ few) \in BOOLEAN /\ (calm /\ few => calm) /\ (calm /\ few => few)
    OBVIOUS
  <2>3. calm' \in BOOLEAN /\ (calm' => calm) /\ (calm' => few)
    BY <2>1, <2>2, Zenon
  <2> QED
    BY <2>3 DEF few
<1>3. /\ served \in Nat /\ collected \in Seq(Components) /\ count \in Nat /\ shifts \in Nat
      /\ wire \in Acceptable \cup {ListAll}
  BY <1>1 DEF MetadataTypeOK
<1> DEFINE found == FoundBy(wire)
<1>4. found \in Seq(Components) /\ Len(found) \in Nat
  BY <1>1, <1>3, QueryTyped, TablesTyped
<1>5. served' = PageBorder(found)
  BY DEF AnswerLost
<1>6. FoundBy(wire)' = found /\ Batch' = Batch /\ Body' = Body
  BY <1>1, SameTables
<1>7. calm' => OnTrack(FoundBy(wire), count)'
  <2> SUFFICES ASSUME calm' PROVE OnTrack(FoundBy(wire), count)'
    OBVIOUS
  <2>1. shifts = 0 /\ OnTrack(found, count)
    BY <1>1, <1>2, <1>3 DEF QueryInv
  <2> HIDE DEF found
  <2>2. collected = SubSeq(found, 1, served) /\ served < Len(found) /\ count = Len(found)
    BY <2>1 DEF OnTrack, Smooth
  <2>3. served < served' /\ served' <= Len(found) /\ served' \in Nat
    BY <1>3, <1>4, <1>5, <2>2, BatchAssumption DEF PageBorder
  <2>4. Len(collected) = served
    <3>1. \A i \in 1..served : found[i] \in Components
      BY <1>3, <1>4, <2>2, ElementOfSeq
    <3> QED
      BY <1>3, <2>2, <3>1, SubSeqProperties
  <2>5. shifts' # 0 /\ count' = Len(found) /\ Len(collected') < served'
    BY <1>1, <1>3, <2>1, <2>2, <2>3, <2>4
  <2>6. Shaken(FoundBy(wire), count)'
    BY <1>6, <2>3, <2>5 DEF Shaken
  <2> QED
    BY <2>5, <2>6 DEF OnTrack
<1>8. served' \in Nat
  BY <1>3, <1>4, <1>5, BatchAssumption DEF PageBorder
<1>9. MetadataTypeOK'
  BY <1>1, <1>2, <1>3, <1>8 DEF MetadataTypeOK
<1>10. QueryInv'
  BY <1>1, <1>2, <1>3, <1>6, <1>7 DEF QueryInv
<1> QED
  BY <1>1, <1>2, <1>9, <1>10, ListingStays

\* A batch that was counted adds what its folders should have.
LEMMA BatchAdded ==
    ASSUME MetadataTypeOK, asked < Len(request.folders), NoRepeats(request.folders),
           NEW c \in Components, ListedAsAnswered(c), CollectedAsAsked(c),
           UNCHANGED <<component, request>>,
           asked' = asked + folderBatchSize, all' = all \o collected
    PROVE  ListedAsAnswered(c)'
<1> DEFINE n == BatchEnd - asked
<1>1. /\ request.folders \in Seq(Folders) /\ asked \in Nat /\ Len(request.folders) \in Nat
      /\ all \in Seq(Components) /\ collected \in Seq(Components)
  BY DEF MetadataTypeOK
<1>2. /\ BatchEnd \in asked + 1..Len(request.folders) /\ n \in 1..folderBatchSize
      /\ Batch \in [1..n -> Folders]
      /\ \A i \in 1..n : Batch[i] = request.folders[asked + i]
      /\ EarlierOf(asked + folderBatchSize, Len(request.folders)) = BatchEnd
  BY BatchFacts
<1>3. Answered = asked /\ Answered' = BatchEnd
  BY <1>1, <1>2 DEF Answered, EarlierOf
<1>4. Belongs(c, Batch) <=>
        ~ component[c].deleted
        /\ \E i \in asked + 1..BatchEnd : request.folders[i] = component[c].folder
  <2>1. DOMAIN Batch = 1..n
    BY <1>2
  <2>2. \A i \in 1..n : asked + i \in asked + 1..BatchEnd
    BY <1>1, <1>2
  <2>3. \A i \in asked + 1..BatchEnd : i - asked \in 1..n /\ asked + (i - asked) = i
    BY <1>1, <1>2
  <2> HIDE DEF n
  <2>4. \A i \in asked + 1..BatchEnd : Batch[i - asked] = request.folders[i]
    BY <1>2, <2>3
  <2> QED
    BY <1>2, <2>1, <2>2, <2>3, <2>4 DEF Belongs
<1>5. InAnswered(c)' <=> InAnswered(c) \/ Belongs(c, Batch)
  <2>1. 1..BatchEnd = 1..asked \cup (asked + 1..BatchEnd)
    BY <1>1, <1>2
  <2>2. InAnswered(c)' <=> ~ component[c].deleted
                           /\ \E i \in 1..BatchEnd : request.folders[i] = component[c].folder
    BY <1>3 DEF InAnswered
  <2>3. InAnswered(c) <=> ~ component[c].deleted
                          /\ \E i \in 1..asked : request.folders[i] = component[c].folder
    BY <1>3 DEF InAnswered
  <2> QED
    BY <1>4, <2>1, <2>2, <2>3
<1>6. ~ (InAnswered(c) /\ Belongs(c, Batch))
  <2> SUFFICES ASSUME InAnswered(c), Belongs(c, Batch) PROVE FALSE
    OBVIOUS
  <2>1. PICK i \in 1..asked : request.folders[i] = component[c].folder
    BY <1>3 DEF InAnswered
  <2>2. PICK j \in asked + 1..BatchEnd : request.folders[j] = component[c].folder
    BY <1>4
  <2>3. i \in DOMAIN request.folders /\ j \in DOMAIN request.folders /\ i # j
    BY <1>1, <1>2
  <2> QED
    BY <2>1, <2>2, <2>3 DEF NoRepeats
<1>7. /\ Once(c, all) /\ Never(c, collected) => Once(c, all')
      /\ Never(c, all) /\ Once(c, collected) => Once(c, all')
      /\ Never(c, all) /\ Never(c, collected) => Never(c, all')
  BY <1>1, Concatenated
<1>8. IF InAnswered(c)' THEN Once(c, all') ELSE Never(c, all')
  BY <1>5, <1>6, <1>7 DEF ListedAsAnswered, CollectedAsAsked
<1>9. ListedAsAnswered(c)' <=> IF InAnswered(c)' THEN Once(c, all') ELSE Never(c, all')
  BY DEF ListedAsAnswered, Once, Never
<1> QED
  BY <1>8, <1>9

LEMMA QueryReturned ==
    ASSUME ListInv, QueryReturns
    PROVE  ListInv'
<1>1. /\ MetadataTypeOK /\ Underway /\ QueryInv /\ listErr = "running" /\ paging = "last"
      /\ UNCHANGED <<component, request, wire, count, edited, calm>>
      /\ paging' = "no" /\ served' = 0 /\ collected' = <<>> /\ shifts' = 0
  BY DEF ListInv, Underway, QueryReturns
<1>2. NoQuery' /\ QueryInv'
  BY <1>1 DEF NoQuery, QueryInv
<1>3. /\ request.folders \in Seq(Folders) /\ asked \in Nat /\ Len(request.folders) \in Nat
      /\ all \in Seq(Components) /\ collected \in Seq(Components)
      /\ folderBatchSize \in Nat
  BY <1>1, BatchAssumption DEF MetadataTypeOK
<1>4. served' \in Nat /\ shifts' \in Nat /\ collected' \in Seq(Components)
  BY <1>1
<1>5. CASE Len(collected) # count
  <2>1. listErr' = "truncated" /\ all' = <<>> /\ asked' = asked
    BY <1>5 DEF QueryReturns
  <2>2. all' \in Seq(Components)
    BY <2>1
  <2>3. MetadataTypeOK'
    BY <1>1, <1>4, <2>1, <2>2 DEF MetadataTypeOK
  <2>4. \A c \in Components \ edited' : component'[c].version = 2
    BY <1>1 DEF ListInv
  <2> QED
    BY <2>1, <2>3, <2>4 DEF ListInv
<1>6. CASE Len(collected) = count
  <2>1. /\ all' = all \o collected /\ asked' = asked + folderBatchSize
        /\ listErr' = IF asked' < Len(request.folders) THEN "running" ELSE "nil"
    BY <1>6 DEF QueryReturns
  <2>2. all' \in Seq(Components) /\ asked' \in Nat /\ listErr' \in {"running", "nil"}
    <3>1. all \o collected \in Seq(Components)
      BY <1>3
    <3> QED
      BY <1>3, <2>1, <3>1
  <2>3. MetadataTypeOK'
    BY <1>1, <1>4, <2>2 DEF MetadataTypeOK
  <2>4. listErr' = "running" => Underway'
    <3>1. request.by = "filter" => ~ (asked' < Len(request.folders))
      BY <1>1, <2>2 DEF Underway
    <3> QED
      BY <1>1, <1>2, <2>1, <3>1 DEF Underway
  <2>5. listErr' = "nil" => asked' >= Len(request'.folders)
    BY <1>1, <1>3, <2>1, <2>2
  <2>6. ASSUME calm', request'.by = "folders", (NoRepeats(request.folders))',
               NEW c \in Components \ edited'
        PROVE  ListedAsAnswered(c)'
    <3>1. calm /\ request.by = "folders" /\ NoRepeats(request.folders) /\ c \in Components \ edited
      BY <1>1, <2>6 DEF NoRepeats
    <3>2. ListedAsAnswered(c) /\ CollectedAsAsked(c)
      BY <1>1, <1>6, <3>1 DEF ListInv, QueryInv
    <3>3. asked < Len(request.folders)
      BY <1>1, <3>1 DEF Underway
    <3> QED
      BY <1>1, <2>1, <3>1, <3>2, <3>3, BatchAdded
  <2>7. \A c \in Components \ edited' : component'[c].version = 2
    BY <1>1 DEF ListInv
  <2> QED
    BY <2>2, <2>3, <2>4, <2>5, <2>6, <2>7 DEF ListInv
<1> QED
  BY <1>5, <1>6

\* An edit that makes one row come or go throws the count off; one that makes
\* none leaves the query as it was.
LEMMA TrackShifted ==
    ASSUME MetadataTypeOK, TablesTypeOK', NEW body \in Acceptable \cup {ListAll},
           NEW n, n = Cardinality((RowsBy(body) \ RowsBy(body)')
                                    \cup (RowsBy(body)' \ RowsBy(body))),
           shifts' = shifts + n, UNCHANGED <<served, collected, count>>
    PROVE  /\ n \in Nat
           /\ shifts' <= 1 /\ OnTrack(FoundBy(body), count)
                => OnTrack(FoundBy(body), count)'
<1> DEFINE found == FoundBy(body)
           later == FoundBy(body)'
           S == RowsBy(body)
           T == RowsBy(body)'
<1>1. Finds(body) /\ Finds(body)'
  BY Findable, StillFindable, TablesTyped
<1>2. /\ found \in Seq(Components) /\ IsFiniteSet(S) /\ Len(found) = Cardinality(S)
      /\ IsFiniteSet(T) /\ Len(later) = Cardinality(T)
      /\ Len(found) \in Nat /\ Cardinality(T) \in Nat
  <2>1. /\ found \in Seq(Components) /\ IsFiniteSet(S) /\ Len(found) = Cardinality(S)
        /\ IsFiniteSet(T) /\ Len(later) = Cardinality(T)
    BY <1>1 DEF Finds
  <2> HIDE DEF found, later, S, T
  <2> QED
    BY <2>1, FS_CardinalityType
<1>3. /\ n \in Nat
      /\ n = 0 => S = T
      /\ n = 1 => Cardinality(T) = Cardinality(S) + 1 \/ Cardinality(T) = Cardinality(S) - 1
  <2>1. n = Cardinality((S \ T) \cup (T \ S))
    OBVIOUS
  <2> HIDE DEF S, T
  <2> QED
    BY <1>2, <2>1, RowComesOrGoes
<1>4. S = T => later = found
  BY DEF FoundBy
<1>5. SUFFICES ASSUME shifts' <= 1, OnTrack(found, count)
               PROVE  OnTrack(found, count)'
  BY <1>3
<1>6. served \in Nat /\ shifts \in Nat /\ collected \in Seq(Components)
  BY DEF MetadataTypeOK
<1> HIDE DEF found, later, S, T
<1>7. CASE n = 0
  <2>1. later = found /\ shifts' = shifts
    BY <1>3, <1>4, <1>6, <1>7
  <2> QED
    BY <1>3, <1>5, <2>1 DEF OnTrack, Smooth, Shaken, later, found
<1>8. CASE n # 0
  <2>1. n = 1 /\ shifts = 0 /\ shifts' = 1
    BY <1>3, <1>5, <1>6, <1>8
  <2>2. collected = SubSeq(found, 1, served) /\ served < Len(found) /\ count = Len(found)
    BY <1>5, <2>1 DEF OnTrack, Smooth
  <2>3. Len(collected) = served
    <3>1. \A i \in 1..served : found[i] \in Components
      BY <1>2, <1>6, <2>2, ElementOfSeq
    <3> QED
      BY <1>6, <2>2, <3>1, SubSeqProperties
  <2>4. served <= Len(later) /\ count # Len(later)
    BY <1>2, <1>3, <1>6, <2>1, <2>2
  <2>5. served' <= Len(later) /\ Len(collected') = served' /\ count' # Len(later)
    BY <2>3, <2>4
  <2>6. Shaken(FoundBy(body), count)'
    BY <2>5 DEF Shaken, later
  <2> QED
    BY <1>3, <2>1, <2>6 DEF OnTrack, found
<1> QED
  BY <1>7, <1>8

LEMMA ComponentEdited ==
    ASSUME ListInv, NEW e \in Components, Edit(e)
    PROVE  ListInv'
<1>1. /\ MetadataTypeOK /\ Underway /\ QueryInv /\ listErr = "running" /\ e \notin edited
      /\ edited' = edited \cup {e}
      /\ UNCHANGED <<request, asked, all, listErr>>
      /\ UNCHANGED <<paging, wire, served, collected, count>>
  BY DEF ListInv, Underway, Edit, pageVars
<1>2. component' \in [Components -> [version : Versions, folder : Folders, deleted : BOOLEAN]]
      /\ \A c \in Components \ {e} : component'[c] = component[c]
  <2>1. component[e].version = 2
    BY <1>1 DEF ListInv
  <2>2. component \in [Components -> [version : Versions, folder : Folders, deleted : BOOLEAN]]
    BY <1>1 DEF MetadataTypeOK
  <2>3. CASE component' = [component EXCEPT ![e].version = @ + 1]
    BY <2>1, <2>2, <2>3 DEF Versions
  <2>4. CASE component' = [component EXCEPT ![e].deleted = ~ @]
    <3>1. (~ component[e].deleted) \in BOOLEAN
      OBVIOUS
    <3> QED
      BY <2>2, <2>4, <3>1
  <2>5. CASE \E f \in Folders \ {component[e].folder} :
               component' = [component EXCEPT ![e].folder = f]
    BY <2>2, <2>5
  <2> QED
    BY <2>3, <2>4, <2>5 DEF Edit
<1> DEFINE n == Cardinality((RowsBy(wire) \ RowsBy(wire)') \cup (RowsBy(wire)' \ RowsBy(wire)))
<1>3. IF paging = "more" THEN shifts' = shifts + n /\ calm' = (calm /\ shifts + n <= 1)
                         ELSE UNCHANGED <<shifts, calm>>
  BY DEF Edit, Shift
<1>4. PICK body \in Acceptable \cup {ListAll} : body = wire /\ body = wire'
  BY <1>1 DEF MetadataTypeOK
<1>5. /\ RowsBy(wire) = RowsBy(body) /\ RowsBy(wire)' = RowsBy(body)'
      /\ FoundBy(wire) = FoundBy(body) /\ FoundBy(wire)' = FoundBy(body)'
  BY <1>4 DEF FoundBy, RowsBy
<1>6. TablesTypeOK'
  BY <1>2 DEF TablesTypeOK
<1>7. ASSUME paging = "more"
      PROVE  /\ n \in Nat /\ shifts' = shifts + n
             /\ shifts' <= 1 /\ OnTrack(FoundBy(wire), count) => OnTrack(FoundBy(wire), count)'
  <2>1. shifts' = shifts + n
    BY <1>3, <1>7
  <2>2. n = Cardinality((RowsBy(body) \ RowsBy(body)') \cup (RowsBy(body)' \ RowsBy(body)))
    BY <1>5
  <2> HIDE DEF n
  <2>3. /\ n \in Nat
        /\ shifts' <= 1 /\ OnTrack(FoundBy(body), count) => OnTrack(FoundBy(body), count)'
    BY <1>1, <1>6, <2>1, <2>2, TrackShifted
  <2>4. /\ OnTrack(FoundBy(wire), count) <=> OnTrack(FoundBy(body), count)
        /\ OnTrack(FoundBy(wire), count)' <=> OnTrack(FoundBy(body), count)'
    BY <1>5 DEF OnTrack, Smooth, Shaken
  <2> QED
    BY <2>1, <2>3, <2>4
<1>8. /\ shifts' \in Nat /\ calm' \in BOOLEAN /\ (calm' => calm)
      /\ calm' /\ paging = "more" => shifts' <= 1
      /\ paging # "more" => shifts' = shifts
  <2>1. calm \in BOOLEAN /\ shifts \in Nat
    BY <1>1 DEF MetadataTypeOK
  <2>2. CASE paging = "more"
    <3> DEFINE few == shifts + n <= 1
    <3>1. calm' = (calm /\ few) /\ shifts' = shifts + n /\ n \in Nat
      BY <1>3, <1>7, <2>2
    <3> HIDE DEF few, n
    <3>2. (calm /\ few) \in BOOLEAN /\ (calm /\ few => calm) /\ (calm /\ few => few)
      BY <2>1
    <3>3. calm' \in BOOLEAN /\ (calm' => calm) /\ (calm' => few)
      BY <3>1, <3>2, Zenon
    <3>4. shifts' \in Nat
      BY <2>1, <3>1
    <3>5. few => shifts' <= 1
      BY <3>1 DEF few
    <3> QED
      BY <2>2, <3>3, <3>4, <3>5, Zenon
  <2>3. CASE paging # "more"
    <3>1. shifts' = shifts /\ calm' = calm
      BY <1>3, <2>3
    <3> QED
      BY <2>1, <2>3, <3>1, Zenon
  <2> QED
    BY <2>2, <2>3
<1> HIDE DEF n
<1>9. MetadataTypeOK'
  BY <1>1, <1>2, <1>8 DEF MetadataTypeOK
<1>10. Batch' = Batch /\ Body' = Body
  <2>1. BatchEnd' = BatchEnd
    BY <1>1 DEF BatchEnd
  <2>2. Batch' = Batch
    BY <1>1, <2>1 DEF Batch
  <2> QED
    BY <1>1, <2>2 DEF Body
<1>11. ASSUME NEW c \in Components \ edited'
       PROVE  /\ c \in Components \ edited /\ component'[c] = component[c]
              /\ component'[c].version = 2
              /\ ListedAsAnswered(c) => ListedAsAnswered(c)'
              /\ CollectedAsAsked(c) => CollectedAsAsked(c)'
  <2>1. c \in Components \ edited /\ component'[c] = component[c]
    BY <1>1, <1>2
  <2>2. component'[c].version = 2
    BY <2>1 DEF ListInv
  <2>3. ListedAsAnswered(c) => ListedAsAnswered(c)'
    BY <1>1, <2>1 DEF ListedAsAnswered, InAnswered, Answered, Once, Never
  <2>4. CollectedAsAsked(c) => CollectedAsAsked(c)'
    BY <1>1, <1>10, <2>1 DEF CollectedAsAsked, Belongs, Once, Never
  <2> QED
    BY <2>1, <2>2, <2>3, <2>4
<1>12. QueryInv'
  <2>1. paging' = "no" => NoQuery'
    BY <1>1, <1>8 DEF QueryInv, NoQuery
  <2>2. calm' => shifts' <= 1
    BY <1>1, <1>8 DEF QueryInv
  <2>3. calm' /\ paging' = "more" => OnTrack(FoundBy(wire), count)'
    BY <1>1, <1>7, <1>8 DEF QueryInv
  <2>4. calm' /\ paging' = "last" /\ Len(collected') = count' /\ request'.by = "folders"
          => \A c \in Components \ edited' : CollectedAsAsked(c)'
    BY <1>1, <1>8, <1>11 DEF QueryInv
  <2>5. paging' # "no" => wire' = Body' /\ wire' # Malformed
    BY <1>1, <1>10 DEF QueryInv
  <2> QED
    BY <2>1, <2>2, <2>3, <2>4, <2>5 DEF QueryInv
<1>13. Underway'
  BY <1>1, <1>12 DEF Underway
<1>14. (NoRepeats(request.folders))' <=> NoRepeats(request.folders)
  BY <1>1 DEF NoRepeats
<1>15. calm' /\ request'.by = "folders" /\ (NoRepeats(request.folders))'
         => \A c \in Components \ edited' : ListedAsAnswered(c)'
  BY <1>1, <1>8, <1>11, <1>14 DEF ListInv
<1> QED
  BY <1>1, <1>9, <1>11, <1>13, <1>15 DEF ListInv

LEMMA ListInvariant == MetadataSpec => []ListInv
<1>1. ListInv /\ [MetadataNext]_metadataVars => ListInv'
  <2> SUFFICES ASSUME ListInv, [MetadataNext]_metadataVars
               PROVE  ListInv'
    OBVIOUS
  <2>1. CASE UNCHANGED metadataVars
    <3>1. /\ UNCHANGED <<component, request, asked, all, listErr, edited, shifts, calm>>
          /\ UNCHANGED <<paging, wire, served, collected, count>>
      BY <2>1 DEF metadataVars, pageVars
    <3>2. /\ Body' = Body /\ Batch' = Batch /\ FoundBy(wire)' = FoundBy(wire)
          /\ \A c \in Components : Belongs(c, Batch)' <=> Belongs(c, Batch)
      BY <3>1, SameTables
    <3>3. MetadataTypeOK' /\ NoQuery' = NoQuery
      BY <3>1 DEF ListInv, MetadataTypeOK, NoQuery
    <3>4. OnTrack(FoundBy(wire), count)' <=> OnTrack(FoundBy(wire), count)
      BY <3>1, <3>2 DEF OnTrack, Smooth, Shaken
    <3>5. \A c \in Components : CollectedAsAsked(c)' <=> CollectedAsAsked(c)
      BY <3>1, <3>2 DEF CollectedAsAsked, Once, Never
    <3>6. QueryInv => QueryInv'
      BY <3>1, <3>2, <3>3, <3>4, <3>5 DEF QueryInv
    <3>7. Underway => Underway'
      BY <3>1, <3>6 DEF Underway
    <3>8. \A c \in Components : ListedAsAnswered(c)' <=> ListedAsAnswered(c)
      BY <3>1 DEF ListedAsAnswered, InAnswered, Answered, Once, Never
    <3>9. (NoRepeats(request.folders))' <=> NoRepeats(request.folders)
      BY <3>1 DEF NoRepeats
    <3> QED
      BY <3>1, <3>3, <3>7, <3>8, <3>9 DEF ListInv
  <2> QED
    BY <2>1, ListCalled, ListFailed, PageKept, AnswerMissed, QueryReturned, ComponentEdited
       DEF MetadataNext
<1> QED
  BY <1>1, ListInvStarts, PTL DEF MetadataSpec

\* The variables of a list keep their types.
THEOREM ListTyping == MetadataSpec => []MetadataTypeOK
<1>1. ListInv => MetadataTypeOK
  BY DEF ListInv
<1> QED
  BY <1>1, ListInvariant, PTL

\* A component nobody edits is in the list of its folder's current components
\* once, or not at all if it does not belong there, for every list of folders,
\* every size of a batch and of a page, and every edit of other components
\* between the batches and between their pages, as long as between the pages
\* of one batch a single row comes or goes or a single answer is lost.
THEOREM Stayers == MetadataSpec => []StayersListedOnce
<1>1. ListInv => StayersListedOnce
  <2> SUFFICES ASSUME ListInv, calm, listErr = "nil", request.by = "folders",
                      NoRepeats(request.folders), NEW c \in Components \ edited
               PROVE  Cardinality({i \in DOMAIN all : all[i] = c}) =
                        IF /\ \E i \in DOMAIN request.folders :
                                request.folders[i] = component[c].folder
                           /\ ~ component[c].deleted
                          THEN 1 ELSE 0
    BY DEF ListInv, StayersListedOnce
  <2>1. all \in Seq(Components) /\ request.folders \in Seq(Folders) /\ asked \in Nat
    BY DEF ListInv, MetadataTypeOK
  <2>2. DOMAIN request.folders = 1..Answered
    BY <2>1 DEF ListInv, Answered, EarlierOf
  <2>3. ListedAsAnswered(c)
    BY DEF ListInv
  <2>4. /\ Once(c, all) => Cardinality({i \in DOMAIN all : all[i] = c}) = 1
        /\ Never(c, all) => Cardinality({i \in DOMAIN all : all[i] = c}) = 0
    BY <2>1, Counted
  <2>5. InAnswered(c) <=> /\ \E i \in DOMAIN request.folders :
                                request.folders[i] = component[c].folder
                          /\ ~ component[c].deleted
    BY <2>2 DEF InAnswered
  <2>6. CASE InAnswered(c)
    <3>1. Cardinality({i \in DOMAIN all : all[i] = c}) = 1
      BY <2>3, <2>4, <2>6 DEF ListedAsAnswered
    <3> QED
      BY <3>1, <2>5, <2>6
  <2>7. CASE ~ InAnswered(c)
    <3>1. Cardinality({i \in DOMAIN all : all[i] = c}) = 0
      BY <2>3, <2>4, <2>7 DEF ListedAsAnswered
    <3> QED
      BY <3>1, <2>5, <2>7
  <2> QED
    BY <2>6, <2>7
<1> QED
  BY <1>1, ListInvariant, PTL

\* A list by a filter asks for what the filter means, in a body the platform
\* accepts, or is refused: for every filter of every depth.
THEOREM FiltersKeepMeaning == MetadataSpec => []MeaningKept
<1>1. ListInv => MeaningKept
  BY EncoderKeepsMeaning DEF ListInv, MetadataTypeOK, MeaningKept
<1> QED
  BY <1>1, ListInvariant, PTL
=============================================================================
