----------------------------- MODULE Selections -----------------------------
(***************************************************************************)
(* What several components do with a list: keep some of its members, and   *)
(* add up numbers.                                                         *)
(***************************************************************************)
EXTENDS Integers, FiniteSets, Functions

\* The members of s at the given places, in their order.
Those(s, places) ==
    [k \in 1..Cardinality(places) |->
        s[CHOOSE i \in places : Cardinality({j \in places : j < i}) = k - 1]]

SumOver(f) == SumFunctionOnSet(f, DOMAIN f)
=============================================================================
