----------------------------- MODULE OrderMath ------------------------------
(***************************************************************************)
(* Signed orders and the arithmetic of filling them (asceswap-types,       *)
(* asceswap-math).                                                         *)
(*                                                                         *)
(* An order hash commits to every field of the order, so the hash stands   *)
(* for the order and Terms gives its fields.  Amounts are unbounded        *)
(* naturals: the code multiplies two U256 in a U512 and every quotient it  *)
(* keeps is at most one of the operands, because ValidBasic bounds the     *)
(* collateral of an order by its claim amount.                             *)
(***************************************************************************)
EXTENDS Integers

CONSTANTS
    Orders,     \* order hashes
    Terms,      \* the order behind each hash
    Wad         \* fixed-point scale of prices (10^18 in the code)

Claims == {"Payoff", "Residual"}
Sides  == {"Buy", "Sell"}

\* Maker 0 and market 0 are the zero address and the zero market id;
\* expiration 0 means that the order never expires.
OrderTerms ==
    [maker : Nat, market : Nat, claim : Claims, side : Sides,
     makerAmount : Nat, takerAmount : Nat,
     expiration : Nat, epoch : Nat, maxFeeRate : Nat]

ASSUME TermsAssumption == Terms \in [Orders -> OrderTerms]
ASSUME WadAssumption   == Wad \in Nat \ {0}

OppositeSide(side)   == IF side = "Buy" THEN "Sell" ELSE "Buy"
OppositeClaim(claim) == IF claim = "Payoff" THEN "Residual" ELSE "Payoff"

\* The claim tokens the order trades in all, and the collateral for all of
\* them: a buyer gives collateral for claims, a seller claims for collateral.
MaxClaim(o) ==
    IF Terms[o].side = "Buy" THEN Terms[o].takerAmount ELSE Terms[o].makerAmount

Collateral(o) ==
    IF Terms[o].side = "Buy" THEN Terms[o].makerAmount ELSE Terms[o].takerAmount

\* Order::validate_basic: no zero field, and a claim never costs more than
\* the one unit of collateral it can pay out.
ValidBasic(o) ==
    /\ Terms[o].maker # 0
    /\ Terms[o].market # 0
    /\ Terms[o].makerAmount > 0
    /\ Terms[o].takerAmount > 0
    /\ Collateral(o) <= MaxClaim(o)

Price(o) == (Collateral(o) * Wad) \div MaxClaim(o)

RemainingClaim(o, filled) == MaxClaim(o) - filled

\* Faulty variants: rounded up, and priced fill by fill.
CumulativeCollateralUp(o, filled) ==
    (filled * Collateral(o) + MaxClaim(o) - 1) \div MaxClaim(o)

CollateralOfFillAlone(o, filled, amount) == (amount * Collateral(o)) \div MaxClaim(o)

\* Collateral is owed on the cumulative fill, rounded down once.
CumulativeCollateral(o, filled) == (filled * Collateral(o)) \div MaxClaim(o)

CollateralDelta(o, filled, amount) ==
    CumulativeCollateral(o, filled + amount) - CumulativeCollateral(o, filled)

\* new_filled_claim_amount succeeds: a positive fill within the order.
FitsOrder(o, filled, amount) == amount > 0 /\ filled + amount <= MaxClaim(o)

\* prepare_fill succeeds.  A fill too small to move one unit of collateral
\* is refused (ZeroFill).
CanFill(o, filled, amount) ==
    /\ ValidBasic(o)
    /\ FitsOrder(o, filled, amount)
    /\ CollateralDelta(o, filled, amount) > 0
=============================================================================
