------------------------- MODULE MCFillAccounting ---------------------------
(***************************************************************************)
(* FillAccounting, with the counter orders, over every order with amounts  *)
(* up to MaxAmount, of both claims and sides, the invalid ones included.   *)
(***************************************************************************)
EXTENDS CounterFills

CONSTANT MaxAmount      \* bound: largest amount of an order

\* An order is its own hash; maker 2 is the demo market maker.
MCOrders ==
    [maker : {1, 2}, market : {1}, claim : Claims, side : Sides,
     makerAmount : 0..MaxAmount, takerAmount : 0..MaxAmount,
     expiration : {0}, epoch : {0}, maxFeeRate : {0}]

MCTerms == [o \in MCOrders |-> o]

MCOrderHash(terms, salt) == terms
=============================================================================
