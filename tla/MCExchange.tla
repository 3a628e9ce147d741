----------------------------- MODULE MCExchange -----------------------------
(***************************************************************************)
(* Exchange on four orders of one market.  askA and askB rest at one       *)
(* price, bidC takes all of one and half of the other, and bidR buys the   *)
(* opposite claim, so that it mints with bidC but not with half a price.   *)
(***************************************************************************)
EXTENDS Exchange

MCOrders == {"askA", "askB", "bidC", "bidR"}

MarketOrder(claim, side, makerAmount, takerAmount, expiration) ==
    [maker |-> 1, market |-> 1, claim |-> claim, side |-> side,
     makerAmount |-> makerAmount, takerAmount |-> takerAmount,
     expiration |-> expiration, epoch |-> 0, maxFeeRate |-> 0]

MCTerms ==
    [o \in MCOrders |->
        CASE o = "askA" -> MarketOrder("Payoff", "Sell", 4, 2, 0)
          [] o = "askB" -> MarketOrder("Payoff", "Sell", 4, 2, 0)
          [] o = "bidC" -> MarketOrder("Payoff", "Buy", 4, 6, 0)
          [] o = "bidR" -> MarketOrder("Residual", "Buy", 2, 4, 1)]

\* askB has the smaller hash, so that its hash and its arrival disagree.
MCHashRank ==
    [o \in MCOrders |->
        CASE o = "askA" -> 3 [] o = "askB" -> 1 [] o = "bidC" -> 2 [] o = "bidR" -> 0]

Context(alreadyFilled, now, cancelled) ==
    [expectedHash |-> None, filled |-> alreadyFilled, cancelled |-> cancelled,
     makerEpoch |-> 0, now |-> now, feeRate |-> 0,
     signature |-> "Unchecked", requireSignature |-> FALSE]

Command(context, postOnly, rest, ttl) ==
    [context |-> context, postOnly |-> postOnly, restOnNoMatch |-> rest, ttl |-> ttl]

MCTimes == {0, 2}

\* Orders that nothing has filled before they are submitted.
FreshCommands ==
    {Command(Context(0, 0, FALSE), FALSE, TRUE, None),
     Command(Context(0, 2, FALSE), FALSE, FALSE, 1),
     Command(Context(0, 0, FALSE), TRUE, TRUE, None)}

\* Orders that may have been filled in part before: a bid with one token
\* filled, an ask for half of it, and an ask of which one token is left.
PartFilledOrders == {"bidM", "askT", "askU"}

PartFilledTerms ==
    [o \in PartFilledOrders |->
        CASE o = "bidM" -> MarketOrder("Payoff", "Buy", 3, 6, 0)
          [] o = "askT" -> MarketOrder("Payoff", "Sell", 3, 1, 0)
          [] o = "askU" -> MarketOrder("Payoff", "Sell", 4, 2, 0)]

PartFilledHashRank ==
    [o \in PartFilledOrders |-> CASE o = "bidM" -> 0 [] o = "askT" -> 1 [] o = "askU" -> 2]

PartFilledCommands ==
    {Command(Context(f, 0, FALSE), FALSE, TRUE, None) : f \in {0, 1, 3}}
=============================================================================
