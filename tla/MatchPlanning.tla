--------------------------- MODULE MatchPlanning ----------------------------
(***************************************************************************)
(* One run of the matcher on any book: the makers that rest, in order of   *)
(* arrival, how much of each is filled, those that are locked, and the     *)
(* taker.  The plan it returns is compared with what a match is, stated    *)
(* without the loop that computes it.                                      *)
(***************************************************************************)
EXTENDS Matcher

CONSTANTS
    Makers,         \* orders that may rest
    Takers,         \* orders that may come in
    MaxBook,        \* bound: orders on the book
    MaxFilled       \* bound: claim amount filled of an order before

\* The engine puts an order on a book, and asks for a match for it, only once
\* it has passed validation.
ASSUME BookAssumption ==
    /\ Makers \subseteq Orders /\ Takers \subseteq Orders
    /\ \A o \in Makers \cup Takers : ValidBasic(o)
    /\ MaxBook \in Nat /\ MaxFilled \in Nat

VARIABLES
    queue,          \* the resting orders in order of arrival
    makerFilled,    \* the book's filled amount of each
    unavailable,    \* orders that a reservation has locked
    taker,          \* the incoming order
    takerFilled,    \* what was filled of it before
    plan            \* what plan_match returned

vars == <<queue, makerFilled, unavailable, taker, takerFilled, plan>>

Pending == [outcome |-> "Pending"]

\* Any of the makers in any order of arrival, each with something left, and
\* any of them locked; and a taker that has something left.
Init ==
    /\ queue \in {q \in UNION {[1..n -> Makers] : n \in 0..MaxBook} :
                    \A i, j \in DOMAIN q : q[i] = q[j] => i = j}
    /\ LET listed == {queue[i] : i \in DOMAIN queue}
       IN  /\ \E f \in [listed -> 0..MaxFilled] :
                 /\ \A m \in listed : f[m] < MaxClaim(m)
                 /\ makerFilled = [m \in Orders |-> IF m \in listed THEN f[m] ELSE 0]
           /\ unavailable \in SUBSET listed
    /\ taker \in Takers
    /\ takerFilled \in 0..MaxFilled
    /\ takerFilled < MaxClaim(taker)
    /\ plan = Pending

Plan ==
    /\ plan = Pending
    /\ plan' = PlanMatch(LevelsOf(queue), makerFilled, taker, takerFilled, unavailable)
    /\ UNCHANGED <<queue, makerFilled, unavailable, taker, takerFilled>>

Next == Plan

Spec == Init /\ [][Next]_vars
-----------------------------------------------------------------------------
(***************************************************************************)
(* Correctness.                                                            *)
(***************************************************************************)
Matched == plan.outcome = "Matched"

Positions == DOMAIN queue

\* The positions of the makers a match of this kind may use.
Eligible(kind) ==
    {i \in Positions :
        /\ queue[i] \notin unavailable
        /\ Terms[queue[i]].market = Terms[taker].market
        /\ Terms[queue[i]].claim = MakerClaim(kind, taker)
        /\ Terms[queue[i]].side = MakerSide(kind, taker)
        /\ Crossed(kind, taker, queue[i])}

\* The maker at position i goes before the one at j: it has the better
\* price for the taker, or the same and came first.
GoesBefore(kind, i, j) ==
    LET p == Price(queue[i])
        q == Price(queue[j])
        cheaper == IF MakerSide(kind, taker) = "Sell" THEN p < q ELSE p > q
    IN  cheaper \/ (p = q /\ i < j)

FilledOf(i) ==
    IF \E k \in DOMAIN plan.fills : plan.fills[k].order = queue[i]
    THEN plan.fills[CHOOSE k \in DOMAIN plan.fills : plan.fills[k].order = queue[i]].amount
    ELSE 0

LeftOf(i) == RemainingClaim(queue[i], makerFilled[queue[i]])

(***************************************************************************)
(* Price-time priority: a maker trades only once every eligible maker with *)
(* a better claim is used up, and no maker trades that is locked or does   *)
(* not cross (iter_priority and the loops of plan_direct, plan_mint and    *)
(* plan_merge).                                                            *)
(***************************************************************************)
BestMakersFirst ==
    Matched =>
        /\ \A k \in DOMAIN plan.fills :
              \E i \in Eligible(plan.kind) : queue[i] = plan.fills[k].order
        /\ \A i, j \in Eligible(plan.kind) :
              GoesBefore(plan.kind, i, j) /\ FilledOf(j) > 0 => FilledOf(i) = LeftOf(i)

(***************************************************************************)
(* A match takes all it can: a taker left with something has used up every *)
(* eligible maker, or as many makers as the contract takes.  And nobody is *)
(* turned away by mistake: where the matcher finds no match, a single      *)
(* eligible maker on the other side could only have traded at a price      *)
(* that, rounded to whole units of collateral, is worse for the taker than *)
(* the one it signed.                                                      *)
(***************************************************************************)
TakesAllItCan ==
    /\ Matched /\ plan.taken < RemainingClaim(taker, takerFilled) =>
          \/ Len(plan.fills) = MaxMakerOrders
          \/ \A i \in Eligible(plan.kind) : FilledOf(i) = LeftOf(i)
    /\ plan = NoMatch =>
          \A i \in Eligible("Direct") : Eligible("Direct") = {i} =>
              LET left == RemainingClaim(taker, takerFilled)
                  amount == IF left < LeftOf(i) THEN left ELSE LeftOf(i)
                  cost   == CollateralDelta(queue[i], makerFilled[queue[i]], amount)
                  limit  == CollateralDelta(taker, takerFilled, amount)
              IN  IF Terms[taker].side = "Buy" THEN cost > limit ELSE cost < limit

(***************************************************************************)
(* A plan can be settled: the makers' tokens are the taker's; every maker  *)
(* moves the collateral its own price says; the collateral of a mint adds  *)
(* up to the pairs minted and that of a merge to the pairs merged; and the *)
(* taker pays at most, or gets at least, what it signed, and never a       *)
(* negative amount.                                                        *)
(***************************************************************************)
PlanSettles ==
    Matched =>
        LET paid == Collaterals(plan.fills, makerFilled)
            signed == CollateralDelta(taker, takerFilled, plan.taken)
        IN  /\ plan.taken = Total(Amounts(plan.fills))
            /\ plan.makerCollateral = Total(paid)
            /\ \A k \in DOMAIN paid : paid[k] > 0
            /\ IF plan.kind = "Direct" THEN plan.takerCollateral = plan.makerCollateral
               ELSE plan.takerCollateral + plan.makerCollateral = plan.taken
            /\ plan.takerCollateral >= 0
            /\ IF Terms[taker].side = "Buy" THEN plan.takerCollateral <= signed
               ELSE plan.takerCollateral >= signed

TriedKinds ==
    {"Direct", IF Terms[taker].side = "Buy" THEN "MintAssisted" ELSE "MergeAssisted"}

\* The positions that come before i in turn, and what they leave of the taker.
Before(kind, i) ==
    LET before == {j \in Eligible(kind) : GoesBefore(kind, j, i)}
    IN  Ranked(before, {p \in before \X before : GoesBefore(kind, p[1], p[2])})

LeftFor(kind, i) ==
    LET before == Before(kind, i)
    IN  RemainingClaim(taker, takerFilled)
            - Total([k \in DOMAIN before |-> LeftOf(before[k])])

(***************************************************************************)
(* A submission fails only on dust: what the makers before the last leave  *)
(* of the taker is less than that maker has, and too little to move a unit *)
(* of its collateral; or all that the taker can get, from every eligible   *)
(* maker or as many as the contract takes, is too little to move a unit of *)
(* its own.  A maker that is used up whole never fails the taker (the      *)
(* ZeroFill error of prepare_fill in PlanBuilder::push_fill, which does    *)
(* not pass such a maker over).                                            *)
(***************************************************************************)
FailsOnlyOnDust ==
    plan = MatchFailed =>
        \E kind \in TriedKinds : \E i \in Eligible(kind) :
            LET left == LeftFor(kind, i)
                makers == Len(Before(kind, i)) + 1
                taken == RemainingClaim(taker, takerFilled) - left + LeftOf(i)
            IN  /\ left > 0 /\ makers <= MaxMakerOrders
                /\ \/ /\ left < LeftOf(i)
                      /\ CollateralDelta(queue[i], makerFilled[queue[i]], left) = 0
                   \/ /\ left > LeftOf(i)
                      /\ \/ makers = MaxMakerOrders
                         \/ \A j \in Eligible(kind) : ~GoesBefore(kind, i, j)
                      /\ CollateralDelta(taker, takerFilled, taken) = 0
=============================================================================
