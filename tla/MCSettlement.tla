---------------------------- MODULE MCSettlement ----------------------------
(***************************************************************************)
(* Settlement on a seller and two buyers of one market.  The buyers want   *)
(* one token each; the seller has SellSize of them, so that the two        *)
(* matches compete for one order or follow each other on it.  A second     *)
(* seller has one token.                                                   *)
(***************************************************************************)
EXTENDS Settlement, TLC

CONSTANTS sellA, buyB, buyC, sellD, SellSize

TwoOrders   == {sellA, buyB}
ThreeOrders == {sellA, buyB, buyC}
FourOrders  == {sellA, buyB, buyC, sellD}

\* The buyers are alike.
MCSymmetry == Permutations({buyB, buyC})

MCTerms ==
    [o \in Orders |->
        [maker |-> 1, market |-> 1, claim |-> "Payoff",
         side |-> IF o \in {sellA, sellD} THEN "Sell" ELSE "Buy",
         makerAmount |-> IF o = sellA THEN SellSize ELSE 1,
         takerAmount |-> IF o = sellA THEN SellSize ELSE 1,
         expiration |-> 0, epoch |-> 0, maxFeeRate |-> 0]]

MCContext ==
    [expectedHash |-> None, filled |-> 0, cancelled |-> FALSE,
     makerEpoch |-> 0, now |-> 0, feeRate |-> 0,
     signature |-> "Unchecked", requireSignature |-> FALSE]

Submission(ttl) ==
    [context |-> MCContext, postOnly |-> FALSE, restOnNoMatch |-> TRUE, ttl |-> ttl]

LastingCommands  == {Submission(None)}
ExpiringCommands == {Submission(1)}

MCTimes == 0..1

\* The history and the length of the event log decide nothing.
MCView ==
    <<vars, stored, hashes, eventCount - nextEvent, executorVars, chainVars>>
=============================================================================
