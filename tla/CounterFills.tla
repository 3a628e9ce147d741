---------------------------- MODULE CounterFills ----------------------------
(***************************************************************************)
(* The order that FillAccounting fills meets the counter order of the demo *)
(* market maker on a book of its own (demo_market_maker.rs).  The book     *)
(* takes an order as unfilled, however much of it was filled elsewhere.    *)
(***************************************************************************)
EXTENDS FillAccounting, CounterOrder, Matcher

\* An order hash commits to the terms of the order.
ASSUME CounterHashAssumption ==
    \A o \in Orders : ValidBasic(o) /\ Collateral(o) < MaxClaim(o) =>
        /\ CounterOf(o, 0, 1) \in Orders
        /\ Terms[CounterOf(o, 0, 1)] = CounterTerms(o, 0)

\* plan_for_submit for the counter order.
CounterPlan ==
    PlanMatch(LevelsOf(<<order>>), [o \in Orders |-> 0], CounterOf(order, filled, 1), 0, {})

(***************************************************************************)
(* The counter order crosses an order that nothing has filled yet, and     *)
(* takes all of it, however its price rounds (the tests of                 *)
(* demo_counter_order_terms try a few amounts).  An order at a full unit   *)
(* per claim leaves nothing for a counter order to pay.                    *)
(***************************************************************************)
FreshOrderCountered ==
    filled = 0 /\ Collateral(order) < MaxClaim(order) =>
        /\ CounterPlan.outcome = "Matched"
        /\ CounterPlan.taken = MaxClaim(order)
        /\ CounterPlan.takerCollateral
               <= Terms[CounterOf(order, filled, 1)].makerAmount
=============================================================================
