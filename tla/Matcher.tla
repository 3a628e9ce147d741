------------------------------ MODULE Matcher -------------------------------
(***************************************************************************)
(* The matcher (asceswap-matcher) over one market's order book             *)
(* (asceswap-orderbook): walk the makers from the best price down and, at  *)
(* one price, in order of arrival, fill each as far as the taker goes, and *)
(* price the whole.  A taker first tries the opposite side of its own      *)
(* claim; failing that, two buyers of opposite claims mint a pair, and two *)
(* sellers merge one.                                                      *)
(*                                                                         *)
(* The books are price levels: a function from the levels that exist to    *)
(* the queues of the hashes that stand at them (PriceLevelBook).           *)
(***************************************************************************)
EXTENDS OrderMath, MatchConfig, Lists

\* Where a taker looks for makers.
MakerClaim(kind, taker) ==
    IF kind = "Direct" THEN Terms[taker].claim ELSE OppositeClaim(Terms[taker].claim)

MakerSide(kind, taker) ==
    IF kind = "Direct" THEN OppositeSide(Terms[taker].side) ELSE Terms[taker].side

\* The level that an order stands at: its side of its market's book, and its
\* price there.
LevelOf(o) ==
    [market |-> Terms[o].market, claim |-> Terms[o].claim, side |-> Terms[o].side,
     price |-> Price(o)]

\* The levels when the orders of a list have been inserted one by one.
LevelsOf(list) ==
    [l \in {LevelOf(list[i]) : i \in DOMAIN list} |->
        Sublist(list, {i \in DOMAIN list : LevelOf(list[i]) = l})]

\* Faulty variant: the lowest price first on both sides.
LowerPrice(side, p, q) == p < q

\* Is price p better than price q, for those who trade with this side?
BetterPrice(side, p, q) == IF side = "Buy" THEN p > q ELSE p < q

\* The place <<l, i>> is the i-th of level l.
PlacesAt(levels, market, claim, side) ==
    UNION {{l} \X DOMAIN levels[l] :
              l \in {k \in DOMAIN levels :
                        k.market = market /\ k.claim = claim /\ k.side = side}}

\* iter_priority: the orders of a side of the book, best level first and each
\* level from the front.
Priority(levels, market, claim, side) ==
    LET places == PlacesAt(levels, market, claim, side)
        Before(p, q) == \/ BetterPrice(side, p[1].price, q[1].price)
                        \/ p[1] = q[1] /\ p[2] < q[2]
        ranked == Ranked(places, {p \in places \X places : Before(p[1], p[2])})
    IN  [k \in 1..Cardinality(places) |-> levels[ranked[k][1]][ranked[k][2]]]

\* The best prices of a mint add up to one unit of collateral or more, those
\* of a merge to one unit or less.
Crossed(kind, taker, maker) ==
    CASE kind = "Direct" ->
            IF Terms[taker].side = "Buy" THEN Price(taker) >= Price(maker)
                                         ELSE Price(taker) <= Price(maker)
      [] kind = "MintAssisted"  -> Price(maker) >= Wad - Price(taker)
      [] kind = "MergeAssisted" -> Price(maker) <= Wad - Price(taker)
-----------------------------------------------------------------------------
(***************************************************************************)
(* Building a plan.                                                        *)
(***************************************************************************)
\* The collateral each fill moves, at the price of its maker.
Collaterals(fills, makerFilled) ==
    [k \in DOMAIN fills |->
        CollateralDelta(fills[k].order, makerFilled[fills[k].order], fills[k].amount)]

NewBuilder == [taken |-> 0, collateral |-> 0, fills |-> <<>>, stage |-> "Matching"]

\* Faulty variant: a fill takes all that is left of the maker.
TakeWholeMaker(builder, maker, makerFilled, amount) ==
    [builder EXCEPT
        !.taken = @ + amount,
        !.collateral = @ + CollateralDelta(maker, makerFilled, amount),
        !.fills = Append(@, [order |-> maker,
                             amount |-> RemainingClaim(maker, makerFilled)])]

AddFill(builder, maker, makerFilled, amount) ==
    [builder EXCEPT
        !.taken = @ + amount,
        !.collateral = @ + CollateralDelta(maker, makerFilled, amount),
        !.fills = Append(@, [order |-> maker, amount |-> amount])]

\* push_fill: as much of the maker as it has left and the taker still needs.
\* A fill that prepare_fill refuses fails the whole submission.
PushFill(builder, maker, makerFilled, taker, takerFilled) ==
    LET takerAvailable == RemainingClaim(taker, takerFilled) - builder.taken
        makerAvailable == RemainingClaim(maker, makerFilled)
        amount == IF takerAvailable < makerAvailable THEN takerAvailable
                                                     ELSE makerAvailable
    IN  IF takerAvailable = 0 THEN [builder EXCEPT !.stage = "Done"]
        ELSE IF makerAvailable = 0 THEN builder
        ELSE IF ~CanFill(maker, makerFilled, amount)
        THEN [builder EXCEPT !.stage = "Failed"]
        ELSE AddFill(builder, maker, makerFilled, amount)

\* Faulty variant: a locked maker ends the loop.
StopAtLocked(builder, maker, makerFilled, kind, taker, takerFilled, unavailable) ==
    IF builder.stage # "Matching" THEN builder
    ELSE IF \/ ~Crossed(kind, taker, maker)
            \/ maker \in unavailable
            \/ Len(builder.fills) = MaxMakerOrders
    THEN [builder EXCEPT !.stage = "Done"]
    ELSE PushFill(builder, maker, makerFilled, taker, takerFilled)

\* One turn of the loop over the makers.
Consider(builder, maker, makerFilled, kind, taker, takerFilled, unavailable) ==
    IF builder.stage # "Matching" THEN builder
    ELSE IF ~Crossed(kind, taker, maker) THEN [builder EXCEPT !.stage = "Done"]
    ELSE IF maker \in unavailable THEN builder
    ELSE IF Len(builder.fills) = MaxMakerOrders THEN [builder EXCEPT !.stage = "Done"]
    ELSE PushFill(builder, maker, makerFilled, taker, takerFilled)

\* The builder after each turn of the loop.
Turns(kind, makers, makerFilled, taker, takerFilled, unavailable) ==
    LET turn[k \in 0..Len(makers)] ==
            IF k = 0 THEN NewBuilder
            ELSE Consider(turn[k - 1], makers[k], makerFilled[makers[k]], kind,
                          taker, takerFilled, unavailable)
    IN  turn

NoMatch     == [outcome |-> "NoMatch"]
MatchFailed == [outcome |-> "Failed"]

\* What the taker pays, or is paid: the makers' prices decide, and for a mint
\* or a merge the taker settles the rest of the pair.
TakerActualCollateral(kind, builder) ==
    IF kind = "Direct" THEN builder.collateral ELSE builder.taken - builder.collateral

\* Faulty variant of WithinTakerPrice: no limit.
AnyPrice(taker, actual, limit) == TRUE

\* The taker never does worse than its own price.
WithinTakerPrice(taker, actual, limit) ==
    IF Terms[taker].side = "Buy" THEN actual <= limit ELSE actual >= limit

\* finish.
FinishPlan(builder, kind, taker, takerFilled) ==
    LET limit  == CollateralDelta(taker, takerFilled, builder.taken)
        actual == TakerActualCollateral(kind, builder)
    IN  IF builder.stage = "Failed" THEN MatchFailed
        ELSE IF builder.taken = 0 THEN NoMatch
        ELSE IF ~CanFill(taker, takerFilled, builder.taken) THEN MatchFailed
        ELSE IF kind # "Direct" /\ builder.collateral > builder.taken THEN NoMatch
        ELSE IF ~WithinTakerPrice(taker, actual, limit) THEN NoMatch
        ELSE [outcome |-> "Matched", kind |-> kind, taken |-> builder.taken,
              takerCollateral |-> actual, makerCollateral |-> builder.collateral,
              fills |-> builder.fills]

\* plan_direct, plan_mint_assisted, plan_merge_assisted.
PlanOfKind(kind, levels, makerFilled, taker, takerFilled, unavailable) ==
    LET makers == Priority(levels, Terms[taker].market,
                           MakerClaim(kind, taker), MakerSide(kind, taker))
        turns  == Turns(kind, makers, makerFilled, taker, takerFilled, unavailable)
    IN  FinishPlan(turns[Len(makers)], kind, taker, takerFilled)

\* plan_match.
PlanMatch(levels, makerFilled, taker, takerFilled, unavailable) ==
    LET direct   == PlanOfKind("Direct", levels, makerFilled, taker, takerFilled,
                               unavailable)
        assisted == IF Terms[taker].side = "Buy" THEN "MintAssisted" ELSE "MergeAssisted"
    IN  IF direct # NoMatch THEN direct
        ELSE PlanOfKind(assisted, levels, makerFilled, taker, takerFilled, unavailable)
=============================================================================
