------------------------------- MODULE Encoding -------------------------------
(***************************************************************************)
(* The request body an expression of Filters is encoded to                 *)
(* (src/internal/query/query.go), and what either means for a row.         *)
(*                                                                         *)
(* An expression is a tree.  Trees grow by levels, so that recursion over  *)
(* them is a function on a set that can be reasoned about.                 *)
(*                                                                         *)
(* An operator named X_Suffix is a faulty variant of X, used only to show  *)
(* that the properties notice the fault.                                   *)
(***************************************************************************)
EXTENDS Filters

CONSTANTS
    Comparisons,   \* the simple expressions that are built
    MaxDepth       \* bound: groups inside groups

ASSUME ComparisonsAssumption ==
    \A x \in Comparisons : x = Simple(x.operator, x.property, x.argument)
ASSUME DepthAssumption == MaxDepth \in Nat

-----------------------------------------------------------------------------
(* Expressions as trees *)

GroupsOf(members, least) ==
    {g \in [kind : {"group"}, operator : {"and", "or"}, nested : Seq(members)] :
        Len(g.nested) >= least}

\* What can be grown from leaves with groups of least members or more.
Trees(leaves, least) ==
    LET level[n \in 0..MaxDepth] ==
            IF n = 0 THEN leaves ELSE leaves \cup GroupsOf(level[n - 1], least)
    IN level[MaxDepth]

\* What the constructors build: a group may be empty and hold nil.
Buildable == Trees(Comparisons \cup {Nil}, 0)

\* What is an expression: no empty group, no nil, no empty property, anywhere.
Proper == {x \in Comparisons : x.property # ""}
WellFormed == Trees(Proper, 1)

\* What the platform accepts: groups of one are out.
Acceptable == Trees(Proper, 2)

-----------------------------------------------------------------------------
(* Encoding *)

\* A group of one may be refused by the platform: it becomes its member.
EncodeGroup_KeepsSingles(operator, nested) ==
    IF nested = <<>> \/ \E i \in DOMAIN nested : nested[i] = Malformed THEN Malformed
    ELSE Group(operator, nested)
EncodeGroup(operator, nested) ==
    IF nested = <<>> \/ \E i \in DOMAIN nested : nested[i] = Malformed THEN Malformed
    ELSE IF Len(nested) = 1 THEN nested[1]
    ELSE Group(operator, nested)

EncodeSimple(e) == IF e.property = "" THEN Malformed ELSE e

encodeMember(encode, member) == IF member = Nil THEN Malformed ELSE encode[member]

Encode(expression) ==
    LET encode[e \in Buildable \ {Nil}] ==
            IF e.kind = "group"
              THEN EncodeGroup(e.operator, [i \in DOMAIN e.nested |->
                                               encodeMember(encode, e.nested[i])])
              ELSE EncodeSimple(e)
    IN encode[expression]

\* The envelope: a filter without an expression lists everything.
ListAll == [kind |-> "all"]
MarshalJSON(filter) == IF filter = Nil THEN ListAll ELSE Encode(filter)

-----------------------------------------------------------------------------
(* What an expression means, to who builds it and to the platform          *)
(* (external): a row is a function on properties                           *)

Holds(operator, property, argument, row) ==
    CASE operator = "EQUALS" -> row[property] = argument[1]
      [] operator = "NOT_EQUALS" -> row[property] # argument[1]
      [] operator = "IS_NULL" -> row[property] = "null"
      [] operator = "IS_NOT_NULL" -> row[property] # "null"

\* Of the rows: And those that satisfy every member, Or those that satisfy some.
Satisfying(rows, expression) ==
    LET satisfying[e \in WellFormed] ==
            IF e.kind = "simple"
              THEN {row \in rows : Holds(e.operator, e.property, e.argument, row)}
              ELSE LET parts == {satisfying[e.nested[i]] : i \in DOMAIN e.nested}
                   IN {row \in rows : IF e.operator = "and"
                                        THEN \A part \in parts : row \in part
                                        ELSE \E part \in parts : row \in part}
    IN satisfying[expression]

Selected(rows, wire) == IF wire = ListAll THEN rows ELSE Satisfying(rows, wire)

\* The body of a filter is refused if the expression is ill-formed, and else
\* is one the platform accepts and selects the rows that were meant.
KeepsMeaning(filter, rows) ==
    LET wire == MarshalJSON(filter)
    IN /\ filter = Nil => Selected(rows, wire) = rows
       /\ filter \in WellFormed =>
            wire \in Acceptable /\ Selected(rows, wire) = Satisfying(rows, filter)
       /\ filter \notin WellFormed \cup {Nil} => wire = Malformed
=============================================================================
