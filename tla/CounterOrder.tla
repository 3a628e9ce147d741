---------------------------- MODULE CounterOrder ----------------------------
(***************************************************************************)
(* The order with which the demo market maker answers an order that rests  *)
(* (asceswap-api, demo_market_maker.rs).  It always buys: a seller is met  *)
(* at its own price, a buyer by the other claim of the pair, at the price  *)
(* that makes up one unit of collateral with the buyer's.                  *)
(***************************************************************************)
EXTENDS OrderMath

CONSTANTS
    DemoMaker,          \* the maker of all counter orders
    OrderHash(_, _)     \* the hash of an order, given its terms and its salt

ASSUME DemoMakerAssumption == DemoMaker \in Nat \ {0}

\* Faulty variant: rounded down.
MulDivFloor(a, b, denominator) == (a * b) \div denominator

MulDivCeil(a, b, denominator) == (a * b + denominator - 1) \div denominator

\* The terms of the counter order to an order of which "filled" was filled
\* when it came: all that is left of it, for ever.  Its epoch is the one it
\* is validated against, and it is validated at a fee of zero.
CounterTerms(o, filled) ==
    LET left       == RemainingClaim(o, filled)
        collateral == CollateralDelta(o, filled, left)
        price      == (collateral * Wad) \div left
        buying     == Terms[o].side = "Buy"
    IN  [maker       |-> DemoMaker,
         market      |-> Terms[o].market,
         claim       |-> IF buying THEN OppositeClaim(Terms[o].claim)
                                   ELSE Terms[o].claim,
         side        |-> "Buy",
         makerAmount |-> IF buying THEN MulDivCeil(Wad - price, left, Wad)
                                   ELSE collateral,
         takerAmount |-> left,
         expiration  |-> 0, epoch |-> 0, maxFeeRate |-> 0]

CounterOf(o, filled, salt) == OrderHash(CounterTerms(o, filled), salt)
=============================================================================
