------------------------------- MODULE Lists --------------------------------
(***************************************************************************)
(* Lists of orders and amounts: the members of a set in order, what stands *)
(* at some places of a list, what is left of a list when some members      *)
(* leave, and the sum of a list.  They are defined by the places of their  *)
(* members, without a recursion over the list where there need not be one. *)
(***************************************************************************)
EXTENDS Integers, FiniteSets, Sequences

\* The members of S that come before x, where R is the set of the pairs
\* <<y, z>> such that y comes before z.
Preceding(x, S, R) == {y \in S : <<y, x>> \in R}

\* The members of S in order: the k-th is the one with k - 1 before it.
Ranked(S, R) ==
    [k \in 1..Cardinality(S) |->
        CHOOSE x \in S : Cardinality(Preceding(x, S, R)) = k - 1]

\* A set of numbers, from the least up.
Ascending(S) == Ranked(S, {p \in S \X S : p[1] < p[2]})

\* What stands at some places of a list, in its order.
Sublist(list, places) ==
    [k \in 1..Cardinality(places) |-> list[Ascending(places)[k]]]

\* The list without the first place of each member of S.
Without(list, S) ==
    Sublist(list, {i \in DOMAIN list :
                      list[i] \in S => \E j \in 1..(i - 1) : list[j] = list[i]})

\* The sum of a list of numbers.
Total(list) ==
    LET sum[k \in 0..Len(list)] == IF k = 0 THEN 0 ELSE sum[k - 1] + list[k]
    IN  sum[Len(list)]

\* The amounts of a list of legs or fills.
Amounts(list) == [i \in DOMAIN list |-> list[i].amount]
=============================================================================
