------------------------------- MODULE Filters -------------------------------
(***************************************************************************)
(* The constructors of the filter builder (src/internal/query/query.go):   *)
(* expressions as the services build them.  Module Encoding says what      *)
(* becomes of them.                                                        *)
(***************************************************************************)
EXTENDS Naturals, Sequences

\* A nil Expression, and what stands for an error of the encoder.
Nil == [kind |-> "nil"]
Malformed == [kind |-> "error"]

-----------------------------------------------------------------------------
(* Constructors *)

Simple(operator, property, argument) ==
    [kind |-> "simple", operator |-> operator, property |-> property,
     argument |-> argument]
Group(operator, nested) ==
    [kind |-> "group", operator |-> operator, nested |-> nested]

\* Eq, Like, Gte and the others that carry a value differ in the operator.
Compare(operator, property, value) == Simple(operator, property, <<value>>)
Eq(property, value) == Compare("EQUALS", property, value)
IsNull(property) == Simple("IS_NULL", property, <<>>)
IsNotNull(property) == Simple("IS_NOT_NULL", property, <<>>)
FormatBool(v) == IF v THEN "true" ELSE "false"
EqBool(property, v) == Eq(property, FormatBool(v))

In(property, values) ==
    Group("or", [i \in DOMAIN values |-> Eq(property, values[i])])
And(exprs) == Group("and", exprs)
Or(exprs) == Group("or", exprs)
=============================================================================
