--------------------------- MODULE FillAccounting ---------------------------
(***************************************************************************)
(* One order filled piece by piece through prepare_fill (asceswap-math,    *)
(* fill_accounting.rs), from its first fill to its last: what its owner    *)
(* pays, or is paid, along the way.  A fill that prepare_fill refuses      *)
(* changes nothing.                                                        *)
(***************************************************************************)
EXTENDS OrderMath

VARIABLES
    order,      \* the order being filled
    filled,     \* claim amount filled so far
    paid,       \* collateral moved so far
    lastPrice   \* claim amount and collateral of the last fill

vars == <<order, filled, paid, lastPrice>>

Init ==
    /\ order \in {o \in Orders : ValidBasic(o)}
    /\ filled = 0
    /\ paid = 0
    /\ lastPrice = [claim |-> 0, collateral |-> 0]

Fill(amount) ==
    /\ CanFill(order, filled, amount)
    /\ filled' = filled + amount
    /\ paid' = paid + CollateralDelta(order, filled, amount)
    /\ lastPrice' = [claim |-> amount, collateral |-> paid' - paid]
    /\ UNCHANGED order

Next == \E amount \in 1..MaxClaim(order) : Fill(amount)

Spec == Init /\ [][Next]_vars
-----------------------------------------------------------------------------
(***************************************************************************)
(* However the order is cut into fills, the collateral moved is the exact  *)
(* price of what was filled, rounded down by less than one unit: rounding  *)
(* neither accumulates over the fills nor overcharges a buyer              *)
(* (cumulative_collateral, collateral_delta_for_new_fill).  Nor does any   *)
(* single fill, with the rounding it makes up for, move more than one unit *)
(* of collateral per claim token, so that the other side of a mint or of a *)
(* merge never pays a negative amount (the subtraction in                  *)
(* PlanBuilder::finish).                                                   *)
(***************************************************************************)
ExactPrice ==
    /\ filled <= MaxClaim(order)
    /\ paid * MaxClaim(order) <= filled * Collateral(order)
    /\ filled * Collateral(order) < (paid + 1) * MaxClaim(order)
    /\ lastPrice.collateral <= lastPrice.claim

(***************************************************************************)
(* The remainder of a partly filled order can always be filled at once:    *)
(* the ZeroFill rule never strands a last piece too small to be priced     *)
(* (prepare_fill on remaining_claim_amount).                               *)
(***************************************************************************)
RemainderFillable ==
    filled < MaxClaim(order) =>
        CanFill(order, filled, RemainingClaim(order, filled))
=============================================================================
