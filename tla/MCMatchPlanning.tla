-------------------------- MODULE MCMatchPlanning ---------------------------
(***************************************************************************)
(* MatchPlanning on the small books of one market that can be made of      *)
(* makers on both sides of both claims, with a limit of two makers.        *)
(***************************************************************************)
EXTENDS MatchPlanning

MCOrders ==
    {"ask50", "ask50b", "ask67", "bid67", "bid75", "bidResidual", "askResidual",
     "buyer", "seller"}

MarketOrder(claim, side, makerAmount, takerAmount) ==
    [maker |-> 1, market |-> 1, claim |-> claim, side |-> side,
     makerAmount |-> makerAmount, takerAmount |-> takerAmount,
     expiration |-> 0, epoch |-> 0, maxFeeRate |-> 0]

MCTerms ==
    [o \in MCOrders |->
        CASE o = "ask50"       -> MarketOrder("Payoff", "Sell", 4, 2)
          [] o = "ask50b"      -> MarketOrder("Payoff", "Sell", 2, 1)
          [] o = "ask67"       -> MarketOrder("Payoff", "Sell", 3, 2)
          [] o = "bid67"       -> MarketOrder("Payoff", "Buy", 2, 3)
          [] o = "bid75"       -> MarketOrder("Payoff", "Buy", 3, 4)
          [] o = "bidResidual" -> MarketOrder("Residual", "Buy", 2, 4)
          [] o = "askResidual" -> MarketOrder("Residual", "Sell", 3, 1)
          [] o = "buyer"       -> MarketOrder("Payoff", "Buy", 4, 6)
          [] o = "seller"      -> MarketOrder("Payoff", "Sell", 5, 3)]

MCTakers == {"buyer", "seller"}
MCMakers == MCOrders \ MCTakers
=============================================================================
