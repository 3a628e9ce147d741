------------------------------ MODULE MCEngine ------------------------------
(***************************************************************************)
(* Engine on three orders of one market: two sellers and a buyer large     *)
(* enough for both, so that the buyer can take either or both, and any of  *)
(* the three can be the taker.                                             *)
(***************************************************************************)
EXTENDS Engine

MCOrders == {"sellA", "sellB", "buyC"}

MarketOrder(side, makerAmount, takerAmount, expiration) ==
    [maker |-> 1, market |-> 1, claim |-> "Payoff", side |-> side,
     makerAmount |-> makerAmount, takerAmount |-> takerAmount,
     expiration |-> expiration, epoch |-> 0, maxFeeRate |-> 0]

MCTerms ==
    [o \in MCOrders |->
        CASE o = "sellA" -> MarketOrder("Sell", 3, 3, 0)
          [] o = "sellB" -> MarketOrder("Sell", 2, 1, 1)
          [] o = "buyC"  -> MarketOrder("Buy", 2, 3, 0)]

Context(alreadyFilled, now, cancelled) ==
    [expectedHash |-> None, filled |-> alreadyFilled, cancelled |-> cancelled,
     makerEpoch |-> 0, now |-> now, feeRate |-> 0,
     signature |-> "Unchecked", requireSignature |-> FALSE]

Command(context, postOnly, rest, ttl) ==
    [context |-> context, postOnly |-> postOnly, restOnNoMatch |-> rest, ttl |-> ttl]

MCTimes == 0..2

\* Resting orders and takers, with and without a fill from elsewhere, the
\* reservations with and without an expiry; a post-only and an
\* immediate-or-cancel order; a cancelled order that claims an impossible fill.
MCCommands ==
    {Command(Context(f, 0, FALSE), FALSE, TRUE, ttl) : f \in 0..1, ttl \in {None, 1}}
    \cup {Command(Context(0, 2, FALSE), FALSE, FALSE, None),
          Command(Context(0, 0, FALSE), TRUE, TRUE, None),
          Command(Context(9, 0, TRUE), FALSE, TRUE, None)}
=============================================================================
