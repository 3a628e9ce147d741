----------------------------- MODULE MCService ------------------------------
(***************************************************************************)
(* The whole service on a seller and a buyer of one market, whom the demo  *)
(* market maker answers, and an order of its own on a second market, with  *)
(* every fault of the store and restarts at any moment.                    *)
(***************************************************************************)
EXTENDS DemoMarketMaker

CONSTANTS sellA, buyB, sellD

MCClientOrders == {sellA, buyB, sellD}

MarketOrder(maker, market, claim, side, makerAmount, takerAmount) ==
    [maker |-> maker, market |-> market, claim |-> claim, side |-> side,
     makerAmount |-> makerAmount, takerAmount |-> takerAmount,
     expiration |-> 0, epoch |-> 0, maxFeeRate |-> 0]

MCOrderHash(terms, salt) == [terms |-> terms, salt |-> salt]

\* The answers to sellA and to buyB.
MCCounterOrders ==
    {MCOrderHash(terms, salt) :
        terms \in {MarketOrder(DemoMaker, 1, "Payoff", "Buy", 1, 2),
                   MarketOrder(DemoMaker, 1, "Residual", "Buy", 1, 2)},
        salt \in 1..MaxSalt}

MCOrders == MCClientOrders \cup MCCounterOrders

MCTerms ==
    [o \in MCOrders |->
        CASE o = sellA -> MarketOrder(1, 1, "Payoff", "Sell", 2, 1)
          [] o = buyB  -> MarketOrder(1, 1, "Payoff", "Buy", 1, 2)
          [] o = sellD -> MarketOrder(DemoMaker, 2, "Payoff", "Sell", 2, 1)
          [] OTHER     -> o.terms]

MCContext ==
    [expectedHash |-> None, filled |-> 0, cancelled |-> FALSE,
     makerEpoch |-> 0, now |-> 0, feeRate |-> 0,
     signature |-> "Unchecked", requireSignature |-> FALSE]

MCCommands ==
    {[context |-> MCContext, postOnly |-> FALSE, restOnNoMatch |-> TRUE, ttl |-> 1]}

MCTimes == 0..1

\* The hashes and the length of the event log decide nothing.
MCView ==
    <<vars, stored, eventCount - nextEvent, answered, routes, demoVars>>
=============================================================================
