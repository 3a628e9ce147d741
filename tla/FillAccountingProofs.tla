------------------------ MODULE FillAccountingProofs ------------------------
(***************************************************************************)
(* Proofs about the pricing of fills, for every order and every way to cut *)
(* it, and about the counter order that meets it, with amounts of any      *)
(* size.                                                                   *)
(***************************************************************************)
EXTENDS CounterFills, MatcherProofs, TLAPS

\* What has been paid is the price of what has been filled.
FillInv ==
    /\ order \in Orders /\ ValidBasic(order)
    /\ filled \in 0..MaxClaim(order)
    /\ paid = CumulativeCollateral(order, filled)
    /\ lastPrice \in [claim : Nat, collateral : Nat]
    /\ lastPrice.collateral <= lastPrice.claim
-----------------------------------------------------------------------------
(***************************************************************************)
(* The counter order.                                                      *)
(***************************************************************************)
\* All of an order that nothing has filled moves all of its collateral.
LEMMA WholePriced ==
    ASSUME NEW o \in Orders, ValidBasic(o)
    PROVE  /\ CollateralDelta(o, 0, MaxClaim(o)) = Collateral(o)
           /\ RemainingClaim(o, 0) = MaxClaim(o)
           /\ CanFill(o, 0, MaxClaim(o))
  <1> DEFINE M == MaxClaim(o)
             C == Collateral(o)
  <1>1. M \in Nat \ {0} /\ C \in Nat \ {0}
    BY OrderAmounts
  <1>2. CollateralDelta(o, 0, M) = ((0 + M) * C) \div M - (0 * C) \div M
    BY DEF CollateralDelta, CumulativeCollateral
  <1> HIDE DEF M, C
  <1>3. (0 + M) * C = C * M /\ 0 * C = 0
    BY <1>1
  <1>4. (C * M) \div M = C /\ 0 \div M = 0
    BY <1>1
  <1>5. CollateralDelta(o, 0, M) = C
    BY <1>1, <1>2, <1>3, <1>4
  <1>6. FitsOrder(o, 0, M)
    BY <1>1 DEF FitsOrder, M
  <1> QED  BY <1>1, <1>5, <1>6 DEF M, C, CanFill, RemainingClaim

\* A price asked of what makes up one unit with the buyer's own, rounded up:
\* it is more than nothing, not more than a unit per claim, and pays for all
\* that the buyer does not.
LEMMA ComplementPriced ==
    ASSUME NEW K \in Nat, NEW M \in Nat \ {0}, K < M,
           NEW p, p = (K * Wad) \div M,
           NEW C, C = MulDivCeil(Wad - p, M, Wad)
    PROVE  /\ p \in Nat /\ C \in 1..M
           /\ (C * Wad) \div M >= Wad - p
           /\ M - K <= C
  <1>1. Wad \in Nat \ {0}
    BY WadAssumption
  <1>2. K * Wad \in Nat /\ K * Wad < M * Wad
    BY <1>1
  <1>3. p \in Nat /\ p * M <= K * Wad
    BY <1>2, Quotient
  <1>4. p < Wad
    <2>1. p * M < Wad * M
      BY <1>1, <1>2, <1>3
    <2> QED  BY <1>1, <1>3, <2>1
  <1> DEFINE q == Wad - p
             n == q * M
  <1>5. q \in Nat \ {0} /\ q <= Wad
    BY <1>1, <1>3, <1>4
  <1>6. n \in Nat \ {0} /\ n <= Wad * M
    BY <1>1, <1>5
  <1>7. n >= Wad * M - K * Wad
    <2>1. n = Wad * M - p * M
      BY <1>1, <1>3
    <2> HIDE DEF n
    <2> QED  BY <1>1, <1>2, <1>3, <2>1
  <1>8. C = (n + Wad - 1) \div Wad
    BY DEF MulDivCeil
  <1> HIDE DEF n
  <1>9. n + Wad - 1 \in Nat
    BY <1>1, <1>6
  <1>10. C \in Nat /\ C * Wad <= n + Wad - 1 /\ n + Wad - 1 < (C + 1) * Wad
    BY <1>1, <1>8, <1>9, Quotient
  <1>11. C * Wad >= n
    <2>1. (C + 1) * Wad = C * Wad + Wad
      BY <1>1, <1>10
    <2> QED  BY <1>1, <1>6, <1>10, <2>1
  <1>12. C # 0
    BY <1>1, <1>6, <1>11
  <1>13. C <= M
    <2>1. C * Wad < (M + 1) * Wad
      <3>1. (M + 1) * Wad = Wad * M + Wad
        BY <1>1
      <3> QED  BY <1>1, <1>6, <1>10, <3>1
    <2> QED  BY <1>1, <1>10, <2>1
  <1>14. (C * Wad) \div M >= q
    <2>1. (q * M) \div M = q
      BY <1>5
    <2>2. C * Wad \in Nat
      BY <1>1, <1>10
    <2> QED  BY <1>5, <1>6, <1>11, <2>1, <2>2, QuotientMonotone DEF n
  <1>15. M - K <= C
    <2>1. C * Wad >= (M - K) * Wad
      <3>1. (M - K) * Wad = Wad * M - K * Wad
        BY <1>1
      <3> QED  BY <1>1, <1>2, <1>6, <1>7, <1>10, <1>11, <3>1
    <2> QED  BY <1>1, <1>10, <2>1
  <1> QED  BY <1>3, <1>10, <1>12, <1>13, <1>14, <1>15

\* On a book of one order, the makers are that order or none.
LEMMA BookOfOne ==
    ASSUME NEW maker \in Orders, ValidBasic(maker), NEW market, NEW claim, NEW side
    PROVE  Priority(LevelsOf(<<maker>>), market, claim, side) =
              IF /\ Terms[maker].market = market
                 /\ Terms[maker].claim = claim
                 /\ Terms[maker].side = side
              THEN <<maker>> ELSE <<>>
  <1> DEFINE q == <<maker>>
             makers == Priority(LevelsOf(q), market, claim, side)
             n == Len(makers)
  <1>1. /\ q \in Seq(Orders) /\ DOMAIN q = {1} /\ q[1] = maker
        /\ \A i \in DOMAIN q : ValidBasic(q[i])
        /\ \A i, j \in DOMAIN q : q[i] = q[j] => i = j
    OBVIOUS
  <1> HIDE DEF q
  <1>2. /\ makers \in Seq(Orders)
        /\ \E at \in [DOMAIN makers -> DOMAIN q] :
              PlacesOf(makers, at, q, market, claim, side)
    BY <1>1, PriorityProperties
  <1>3. PICK at \in [DOMAIN makers -> DOMAIN q] :
           PlacesOf(makers, at, q, market, claim, side)
    BY <1>2
  <1> HIDE DEF makers
  <1>4. n \in Nat /\ DOMAIN makers = 1..n
    BY <1>2
  <1>5. \A i \in 1..n : at[i] = 1 /\ makers[i] = maker /\ i = 1
    BY <1>1, <1>3, <1>4 DEF PlacesOf
  <1>6. CASE /\ Terms[maker].market = market
             /\ Terms[maker].claim = claim
             /\ Terms[maker].side = side
    <2>1. \E i \in DOMAIN makers : at[i] = 1
      BY <1>1, <1>3, <1>6 DEF PlacesOf
    <2>2. n = 1 /\ makers[1] = maker
      BY <1>4, <1>5, <2>1
    <2>3. makers = <<maker>>
      BY <1>2, <2>2
    <2> QED  BY <1>6, <2>3 DEF makers, q
  <1>7. CASE ~(/\ Terms[maker].market = market
               /\ Terms[maker].claim = claim
               /\ Terms[maker].side = side)
    <2>1. n = 0
      <3>1. \A i \in 1..n : FALSE
        BY <1>1, <1>3, <1>4, <1>5, <1>7 DEF PlacesOf
      <3> QED  BY <1>4, <3>1
    <2>2. makers = <<>>
      BY <1>2, <2>1
    <2> QED  BY <1>7, <2>2 DEF makers, q
  <1> QED  BY <1>6, <1>7

\* An order on the other side of all of it is filled whole by an order for as
\* much.
LEMMA WholeFill ==
    ASSUME NEW kind, NEW maker \in Orders, ValidBasic(maker),
           NEW taker \in Orders, ValidBasic(taker),
           NEW makerFilled \in [Orders -> Nat], makerFilled[maker] = 0,
           MaxClaim(taker) = MaxClaim(maker),
           Terms[maker].market = Terms[taker].market,
           Terms[maker].claim = MakerClaim(kind, taker),
           Terms[maker].side = MakerSide(kind, taker),
           Crossed(kind, taker, maker)
    PROVE  \E b \in Builder :
              /\ PlanOfKind(kind, LevelsOf(<<maker>>), makerFilled, taker, 0, {}) =
                    FinishPlan(b, kind, taker, 0)
              /\ b.taken = MaxClaim(taker) /\ b.collateral = Collateral(maker)
              /\ b.stage = "Matching"
  <1> DEFINE M == MaxClaim(taker)
             makers == Priority(LevelsOf(<<maker>>), Terms[taker].market, MakerClaim(kind, taker),
                                MakerSide(kind, taker))
             turn == Turns(kind, makers, makerFilled, taker, 0, {})
             b == AddFill(NewBuilder, maker, 0, M)
  <1>1. makers = <<maker>>
    BY BookOfOne
  <1>2. <<maker>> \in Seq(Orders) /\ Len(<<maker>>) = 1 /\ <<maker>>[1] = maker
    OBVIOUS
  <1>3. turn[0] = NewBuilder /\ turn[1] = Consider(NewBuilder, maker, 0, kind, taker, 0, {})
    <2>1. 1 \in 1..1 /\ 1 - 1 = 0
      OBVIOUS
    <2>2. 0 \in Nat /\ makers \in Seq(Orders)
      BY <1>1, <1>2
    <2> HIDE DEF makers
    <2>3. /\ turn[0] = NewBuilder
          /\ \A k \in 1..Len(makers) :
                turn[k] = Consider(turn[k - 1], makers[k], makerFilled[makers[k]],
                                   kind, taker, 0, {})
      BY <2>2, TurnsUnfold
    <2> HIDE DEF turn
    <2> QED  BY <1>1, <1>2, <2>1, <2>3
  <1>4. /\ M \in Nat \ {0} /\ RemainingClaim(taker, 0) = M /\ RemainingClaim(maker, 0) = M
        /\ CanFill(maker, 0, M)
        /\ CollateralDelta(maker, 0, M) = Collateral(maker)
    BY OrderAmounts, WholePriced
  <1>5. /\ NewBuilder.stage = "Matching" /\ NewBuilder.taken = 0
        /\ NewBuilder.collateral = 0 /\ NewBuilder.fills = <<>>
        /\ Len(NewBuilder.fills) = 0
    BY DEF NewBuilder
  <1> HIDE DEF M, turn
  <1>6. Consider(NewBuilder, maker, 0, kind, taker, 0, {}) = b
    <2>1. Consider(NewBuilder, maker, 0, kind, taker, 0, {}) =
             PushFill(NewBuilder, maker, 0, taker, 0)
      <3>1. maker \notin {}
        OBVIOUS
      <3>2. MaxMakerOrders # 0
        BY MakersAssumption
      <3>3. Len(NewBuilder.fills) # MaxMakerOrders
        BY <1>5, <3>2
      <3> QED  BY <1>5, <3>1, <3>3 DEF Consider
    <2>2. M - 0 = M /\ M # 0 /\ ~(M < M)
      BY <1>4
    <2>3. PushFill(NewBuilder, maker, 0, taker, 0) = b
      BY <1>4, <1>5, <2>2 DEF PushFill
    <2> QED  BY <2>1, <2>3
  <1>7. /\ b \in Builder /\ b.taken = M /\ b.collateral = Collateral(maker)
        /\ b.stage = "Matching"
    <2> DEFINE fill == [order |-> maker, amount |-> M]
    <2>1. OneMore(b, NewBuilder, fill, CollateralDelta(maker, 0, M))
      BY <1>4, AddFillEffect, NewBuilderType
    <2>2. fill.amount = M
      OBVIOUS
    <2> HIDE DEF fill, b
    <2>3. 0 + M = M /\ 0 + Collateral(maker) = Collateral(maker)
      BY <1>4, OrderAmounts
    <2> QED  BY <1>4, <1>5, <2>1, <2>2, <2>3 DEF OneMore
  <1>8. PlanOfKind(kind, LevelsOf(<<maker>>), makerFilled, taker, 0, {}) =
           FinishPlan(turn[Len(makers)], kind, taker, 0)
    BY DEF PlanOfKind, turn
  <1>9. turn[Len(makers)] = b
    BY <1>1, <1>2, <1>3, <1>6
  <1> HIDE DEF b, makers
  <1> QED  BY <1>7, <1>8, <1>9 DEF M

\* Without makers there is no match.
LEMMA NoMakerNoMatch ==
    ASSUME NEW kind, NEW q, NEW makerFilled \in [Orders -> Nat],
           NEW taker \in Orders, NEW makers \in Seq(Orders), Len(makers) = 0,
           makers = Priority(q, Terms[taker].market, MakerClaim(kind, taker),
                             MakerSide(kind, taker))
    PROVE  PlanOfKind(kind, q, makerFilled, taker, 0, {}) = NoMatch
  <1> DEFINE turn == Turns(kind, makers, makerFilled, taker, 0, {})
  <1>1. PlanOfKind(kind, q, makerFilled, taker, 0, {}) =
           FinishPlan(turn[Len(makers)], kind, taker, 0)
    BY DEF PlanOfKind
  <1>2. 0 \in Nat
    OBVIOUS
  <1>3. turn[0] = NewBuilder
    BY <1>2, TurnsUnfold
  <1>4. FinishPlan(NewBuilder, kind, taker, 0) = NoMatch
    BY DEF FinishPlan, NewBuilder
  <1> QED  BY <1>1, <1>3, <1>4

\* A plan that fills the taker whole is finished, if it is within its price.
LEMMA WholePlanFinished ==
    ASSUME NEW kind, NEW taker \in Orders, ValidBasic(taker), NEW b \in Builder,
           b.taken = MaxClaim(taker), b.stage = "Matching",
           kind # "Direct" => b.collateral <= b.taken,
           WithinTakerPrice(taker, TakerActualCollateral(kind, b), Collateral(taker))
    PROVE  LET plan == FinishPlan(b, kind, taker, 0)
           IN  /\ plan.outcome = "Matched" /\ plan.taken = MaxClaim(taker)
               /\ plan.takerCollateral = TakerActualCollateral(kind, b)
               /\ plan # NoMatch
  <1> DEFINE actual == TakerActualCollateral(kind, b)
             plan == [outcome |-> "Matched", kind |-> kind, taken |-> b.taken,
                      takerCollateral |-> actual, makerCollateral |-> b.collateral,
                      fills |-> b.fills]
  <1>1. /\ CollateralDelta(taker, 0, b.taken) = Collateral(taker)
        /\ CanFill(taker, 0, b.taken) /\ b.taken # 0
    BY WholePriced, OrderAmounts
  <1>2. ~(kind # "Direct" /\ b.collateral > b.taken)
    BY DEF Builder
  <1>3. FinishPlan(b, kind, taker, 0) = plan
    BY <1>1, <1>2 DEF FinishPlan
  <1>4. /\ plan.outcome = "Matched" /\ plan.taken = b.taken
        /\ plan.takerCollateral = actual
    OBVIOUS
  <1>5. NoMatch.outcome = "NoMatch"
    BY DEF NoMatch
  <1> HIDE DEF plan, actual
  <1> QED  BY <1>3, <1>4, <1>5 DEF actual

\* The counter order that answers an order that nothing has filled yet.
LEMMA FreshCounter ==
    ASSUME NEW o \in Orders, ValidBasic(o), Collateral(o) < MaxClaim(o),
           NEW c, c = CounterOf(o, 0, 1)
    PROVE  /\ c \in Orders /\ ValidBasic(c)
           /\ MaxClaim(c) = MaxClaim(o) /\ Collateral(c) = Terms[c].makerAmount
           /\ Terms[c].side = "Buy" /\ Terms[c].market = Terms[o].market
           /\ Terms[o].side = "Sell" =>
                 /\ Terms[c].claim = Terms[o].claim
                 /\ Terms[c].makerAmount = Collateral(o)
           /\ Terms[o].side = "Buy" =>
                 /\ Terms[c].claim = OppositeClaim(Terms[o].claim)
                 /\ Terms[c].makerAmount = MulDivCeil(Wad - Price(o), MaxClaim(o), Wad)
  <1> DEFINE M == MaxClaim(o)
             K == Collateral(o)
  <1>1. M \in Nat \ {0} /\ K \in Nat \ {0} /\ K < M
    BY OrderAmounts
  <1>2. RemainingClaim(o, 0) = M /\ CollateralDelta(o, 0, M) = K
    BY WholePriced
  <1>3. /\ Terms[o].market # 0 /\ Terms[o].side \in Sides
    BY TermsAssumption DEF ValidBasic, OrderTerms
  <1>4. c \in Orders /\ Terms[c] = CounterTerms(o, 0)
    BY CounterHashAssumption
  <1> DEFINE buying == Terms[o].side = "Buy"
             amount == IF buying THEN MulDivCeil(Wad - Price(o), M, Wad) ELSE K
  <1>5. CounterTerms(o, 0) =
           [maker |-> DemoMaker, market |-> Terms[o].market,
            claim |-> IF buying THEN OppositeClaim(Terms[o].claim) ELSE Terms[o].claim,
            side |-> "Buy", makerAmount |-> amount, takerAmount |-> M,
            expiration |-> 0, epoch |-> 0, maxFeeRate |-> 0]
    BY <1>2 DEF CounterTerms, Price
  <1>6. amount \in 1..M
    <2>1. MulDivCeil(Wad - Price(o), M, Wad) \in 1..M
      BY <1>1, ComplementPriced DEF Price
    <2> QED  BY <1>1, <2>1
  <1> HIDE DEF M, amount
  <1>7. /\ Terms[c].maker = DemoMaker /\ Terms[c].market = Terms[o].market
        /\ Terms[c].claim = IF buying THEN OppositeClaim(Terms[o].claim) ELSE Terms[o].claim
        /\ Terms[c].side = "Buy" /\ Terms[c].makerAmount = amount /\ Terms[c].takerAmount = M
    BY <1>4, <1>5
  <1>8. MaxClaim(c) = M /\ Collateral(c) = amount
    BY <1>7 DEF MaxClaim, Collateral
  <1>9. ValidBasic(c)
    BY <1>1, <1>3, <1>6, <1>7, <1>8, DemoMakerAssumption DEF ValidBasic
  <1> QED  BY <1>3, <1>4, <1>7, <1>8, <1>9 DEF Sides, M, amount

\* It is met by that order and takes all of it.
LEMMA FreshCountered ==
    ASSUME NEW o \in Orders, ValidBasic(o), Collateral(o) < MaxClaim(o),
           NEW c, c = CounterOf(o, 0, 1),
           NEW plan, plan = PlanMatch(LevelsOf(<<o>>), [m \in Orders |-> 0], c, 0, {})
    PROVE  /\ plan.outcome = "Matched" /\ plan.taken = MaxClaim(o)
           /\ plan.takerCollateral <= Terms[c].makerAmount
  <1> DEFINE none == [m \in Orders |-> 0]
             M == MaxClaim(o)
             K == Collateral(o)
             Of(kind) == PlanOfKind(kind, LevelsOf(<<o>>), none, c, 0, {})
  <1>1. /\ c \in Orders /\ ValidBasic(c) /\ MaxClaim(c) = M
        /\ Collateral(c) = Terms[c].makerAmount
        /\ Terms[c].side = "Buy" /\ Terms[c].market = Terms[o].market
    BY FreshCounter
  <1>2. /\ M \in Nat \ {0} /\ K \in Nat \ {0} /\ K < M
        /\ Collateral(c) \in Nat \ {0}
    BY <1>1, OrderAmounts
  <1>3. none \in [Orders -> Nat] /\ none[o] = 0
    OBVIOUS
  <1>4. plan = IF Of("Direct") # NoMatch THEN Of("Direct") ELSE Of("MintAssisted")
    BY <1>1 DEF PlanMatch
  <1>5. Terms[o].side \in Sides /\ Terms[o].claim \in Claims
    BY TermsAssumption DEF OrderTerms
  <1>6. CASE Terms[o].side = "Sell"
    <2>1. Terms[c].claim = Terms[o].claim /\ Collateral(c) = K
      BY <1>1, <1>6, FreshCounter
    <2>2. Price(c) = Price(o) /\ Price(o) \in Nat
      BY <1>1, <2>1, PriceType DEF Price
    <2>3. Crossed("Direct", c, o)
      BY <1>1, <2>2 DEF Crossed
    <2>4. Terms[o].claim = MakerClaim("Direct", c) /\ Terms[o].side = MakerSide("Direct", c)
      BY <1>1, <1>6, <2>1 DEF MakerClaim, MakerSide, OppositeSide
    <2> HIDE DEF none
    <2>5. PICK b \in Builder :
             /\ Of("Direct") = FinishPlan(b, "Direct", c, 0)
             /\ b.taken = MaxClaim(c) /\ b.collateral = K
             /\ b.stage = "Matching"
      BY <1>1, <1>3, <2>3, <2>4, WholeFill
    <2>6. TakerActualCollateral("Direct", b) = K
      BY <2>5 DEF TakerActualCollateral
    <2>7. WithinTakerPrice(c, K, Collateral(c))
      BY <1>1, <1>2, <2>1 DEF WithinTakerPrice
    <2>8. /\ Of("Direct").outcome = "Matched" /\ Of("Direct").taken = MaxClaim(c)
          /\ Of("Direct").takerCollateral = K /\ Of("Direct") # NoMatch
      BY <1>1, <2>5, <2>6, <2>7, WholePlanFinished
    <2> HIDE DEF Of
    <2> QED  BY <1>1, <1>2, <1>4, <2>1, <2>8
  <1>7. CASE Terms[o].side = "Buy"
    <2>1. /\ Terms[c].claim = OppositeClaim(Terms[o].claim)
          /\ Collateral(c) = MulDivCeil(Wad - Price(o), M, Wad)
      BY <1>1, <1>7, FreshCounter
    <2>2. /\ Price(o) \in Nat /\ Price(c) >= Wad - Price(o) /\ M - K <= Collateral(c)
      BY <1>1, <1>2, <2>1, ComplementPriced DEF Price
    <2>3. Of("Direct") = NoMatch
      <3>1. Terms[o].side # MakerSide("Direct", c)
        BY <1>1, <1>7 DEF MakerSide, OppositeSide
      <3>2. Priority(LevelsOf(<<o>>), Terms[c].market, MakerClaim("Direct", c),
                     MakerSide("Direct", c)) = <<>>
        BY <3>1, BookOfOne
      <3>3. <<>> \in Seq(Orders) /\ Len(<<>>) = 0
        OBVIOUS
      <3> HIDE DEF none
      <3> QED  BY <1>1, <1>3, <3>2, <3>3, NoMakerNoMatch
    <2>4. Crossed("MintAssisted", c, o)
      <3>1. Price(c) \in Nat /\ Wad \in Nat
        BY <1>1, PriceType, WadAssumption
      <3> QED  BY <2>2, <3>1 DEF Crossed
    <2>5. /\ Terms[o].claim = MakerClaim("MintAssisted", c)
          /\ Terms[o].side = MakerSide("MintAssisted", c)
      BY <1>1, <1>5, <1>7, <2>1 DEF MakerClaim, MakerSide, OppositeClaim, Claims
    <2> HIDE DEF none
    <2>6. PICK b \in Builder :
             /\ Of("MintAssisted") = FinishPlan(b, "MintAssisted", c, 0)
             /\ b.taken = MaxClaim(c) /\ b.collateral = K
             /\ b.stage = "Matching"
      BY <1>1, <1>3, <2>4, <2>5, WholeFill
    <2>7. TakerActualCollateral("MintAssisted", b) = M - K
      BY <1>1, <2>6 DEF TakerActualCollateral
    <2>8. WithinTakerPrice(c, M - K, Collateral(c))
      BY <1>1, <2>2 DEF WithinTakerPrice
    <2>9. b.collateral <= b.taken
      BY <1>1, <1>2, <2>6
    <2>10. /\ Of("MintAssisted").outcome = "Matched"
           /\ Of("MintAssisted").taken = MaxClaim(c)
           /\ Of("MintAssisted").takerCollateral = M - K
      BY <1>1, <2>6, <2>7, <2>8, <2>9, WholePlanFinished
    <2> HIDE DEF Of
    <2> QED  BY <1>1, <1>4, <2>2, <2>3, <2>10
  <1> QED  BY <1>5, <1>6, <1>7 DEF Sides
-----------------------------------------------------------------------------
LEMMA FillInvInit == Init => FillInv
  <1> SUFFICES ASSUME Init
               PROVE  FillInv
    OBVIOUS
  <1>1. order \in Orders /\ ValidBasic(order)
    BY DEF Init
  <1>2. MaxClaim(order) \in Nat \ {0} /\ Collateral(order) \in Nat \ {0}
    BY <1>1, OrderAmounts
  <1>3. CumulativeCollateral(order, 0) = 0
    BY <1>2 DEF CumulativeCollateral
  <1> QED  BY <1>1, <1>2, <1>3 DEF Init, FillInv

LEMMA FillInvStep == FillInv /\ [Next]_vars => FillInv'
  <1> SUFFICES ASSUME FillInv, [Next]_vars
               PROVE  FillInv'
    OBVIOUS
  <1>1. ASSUME NEW amount \in 1..MaxClaim(order), Fill(amount)
        PROVE  FillInv'
    <2>1. /\ order' = order /\ order \in Orders /\ ValidBasic(order)
          /\ MaxClaim(order) \in Nat /\ filled \in Nat /\ amount \in Nat
      BY <1>1, OrderAmounts DEF Fill, FillInv
    <2>2. filled' = filled + amount /\ filled' \in 0..MaxClaim(order)
      BY <1>1, <2>1 DEF Fill, CanFill, FitsOrder
    <2>3. /\ CollateralDelta(order, filled, amount) \in 0..amount
          /\ CumulativeCollateral(order, filled) \in Nat
          /\ CumulativeCollateral(order, filled + amount) \in Nat
      <3>1. /\ MaxClaim(order) \in Nat \ {0}
            /\ filled * Collateral(order) \in Nat
            /\ (filled + amount) * Collateral(order) \in Nat
        BY <2>1, OrderAmounts
      <3> QED  BY <2>1, <3>1, DeltaBounded, Quotient DEF CumulativeCollateral
    <2>4. paid' = CumulativeCollateral(order, filled + amount)
      BY <1>1, <2>3 DEF Fill, FillInv, CollateralDelta
    <2>5. lastPrice' = [claim |-> amount,
                        collateral |-> CollateralDelta(order, filled, amount)]
      BY <1>1, <2>3 DEF Fill, FillInv, CollateralDelta
    <2>6. paid' = CumulativeCollateral(order, filled)'
      BY <2>1, <2>2, <2>4 DEF CumulativeCollateral, MaxClaim, Collateral
    <2> QED  BY <2>1, <2>2, <2>3, <2>5, <2>6 DEF FillInv, ValidBasic, MaxClaim, Collateral
  <1>2. CASE UNCHANGED vars
    BY <1>2 DEF vars, FillInv, ValidBasic, MaxClaim, Collateral, CumulativeCollateral
  <1> QED  BY <1>1, <1>2 DEF Next

LEMMA FillInvMeans == FillInv => ExactPrice /\ RemainderFillable
  <1> SUFFICES ASSUME FillInv
               PROVE  ExactPrice /\ RemainderFillable
    OBVIOUS
  <1>1. /\ order \in Orders /\ ValidBasic(order) /\ filled \in 0..MaxClaim(order)
        /\ MaxClaim(order) \in Nat \ {0} /\ filled * Collateral(order) \in Nat
        /\ filled \in Nat
    BY OrderAmounts DEF FillInv
  <1>2. /\ paid * MaxClaim(order) <= filled * Collateral(order)
        /\ filled * Collateral(order) < (paid + 1) * MaxClaim(order)
    BY <1>1, Quotient DEF FillInv, CumulativeCollateral
  <1>3. ExactPrice
    BY <1>1, <1>2 DEF FillInv, ExactPrice
  <1>4. RemainderFillable
    BY <1>1, RemainderPriced DEF RemainderFillable
  <1> QED  BY <1>3, <1>4

(***************************************************************************)
(* The inductive invariant: what has been paid is the price of what has    *)
(* been filled, rounded down once (prepare_fill).                          *)
(***************************************************************************)
THEOREM FillInvariance == Spec => []FillInv
  BY FillInvInit, FillInvStep, PTL DEF Spec

(***************************************************************************)
(* However an order of any size is cut into fills, its owner has paid the  *)
(* exact price rounded down by less than one unit, and no fill costs more  *)
(* than one unit per claim token (cumulative_collateral,                   *)
(* collateral_delta_for_new_fill).                                         *)
(***************************************************************************)
THEOREM AlwaysExactPrice == Spec => []ExactPrice
  <1>1. FillInv => ExactPrice
    BY FillInvMeans
  <1> QED  BY <1>1, FillInvariance, PTL

(***************************************************************************)
(* The rest of a partly filled order of any size can always be filled at   *)
(* once: the ZeroFill rule strands nothing (prepare_fill).                 *)
(***************************************************************************)
THEOREM RemainderAlwaysFillable == Spec => []RemainderFillable
  <1>1. FillInv => RemainderFillable
    BY FillInvMeans
  <1> QED  BY <1>1, FillInvariance, PTL

(***************************************************************************)
(* The counter order of the demo market maker crosses every order that     *)
(* nothing has filled yet and takes all of it, whatever its amounts and    *)
(* however its price rounds (demo_counter_order_terms, mul_div_ceil).      *)
(***************************************************************************)
THEOREM FreshOrderAlwaysCountered == Spec => []FreshOrderCountered
  <1>1. FillInv => FreshOrderCountered
    <2> SUFFICES ASSUME FillInv, filled = 0, Collateral(order) < MaxClaim(order)
                 PROVE  /\ CounterPlan.outcome = "Matched"
                        /\ CounterPlan.taken = MaxClaim(order)
                        /\ CounterPlan.takerCollateral
                               <= Terms[CounterOf(order, filled, 1)].makerAmount
      BY DEF FreshOrderCountered
    <2>1. order \in Orders /\ ValidBasic(order)
      BY DEF FillInv
    <2>2. CounterPlan = PlanMatch(LevelsOf(<<order>>), [m \in Orders |-> 0],
                                  CounterOf(order, 0, 1), 0, {})
      BY DEF CounterPlan
    <2> QED  BY <2>1, <2>2, FreshCountered
  <1> QED  BY <1>1, FillInvariance, PTL
=============================================================================
