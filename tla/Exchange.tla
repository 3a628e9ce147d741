------------------------------ MODULE Exchange ------------------------------
(***************************************************************************)
(* The engine as it runs: Engine with its matcher and its order books in   *)
(* price-time priority (asceswap-orderbook), which a restart rebuilds from *)
(* the sequence numbers of the snapshot.                                   *)
(*                                                                         *)
(* The actions are those of Engine, each with what it does to the price    *)
(* levels of the books; a submission takes the plan of the matcher.        *)
(***************************************************************************)
EXTENDS Engine, Matcher

CONSTANT HashRank       \* the order of the order hashes as byte strings

ASSUME HashRankAssumption ==
    /\ HashRank \in [Orders -> Nat]
    /\ \A o, p \in Orders : HashRank[o] = HashRank[p] => o = p

VARIABLES
    levels,             \* PriceLevelBook: the hashes at each price level
    acceptedSequence,   \* RestingOrder: its place in its market's history
    nextSequence        \* MarketOrderBook: the next place

bookOrder == <<levels, acceptedSequence, nextSequence>>
allVars   == <<vars, bookOrder>>

Markets == {Terms[o].market : o \in Orders}

ExchangeInit ==
    /\ Init
    /\ levels = <<>>
    /\ acceptedSequence = [o \in Orders |-> 0]
    /\ nextSequence = [m \in Markets |-> 0]
-----------------------------------------------------------------------------
\* insert: the order goes to the back of its level, which is made if need be.
Insert(o) ==
    LET queue == IF LevelOf(o) \in DOMAIN levels THEN levels[LevelOf(o)] ELSE <<>>
    IN  /\ levels' = [l \in DOMAIN levels \cup {LevelOf(o)} |->
                         IF l = LevelOf(o) THEN Append(queue, o) ELSE levels[l]]
        /\ acceptedSequence' =
              [acceptedSequence EXCEPT ![o] = nextSequence[Terms[o].market]]
        /\ nextSequence' = [nextSequence EXCEPT ![Terms[o].market] = @ + 1]

\* Faulty variant: remove looks for the hash on the other side of the book.
LookUpAcross(o) == [LevelOf(o) EXCEPT !.side = OppositeSide(@)]

\* Where remove looks for the hash of an order.
LookUp(o) == LevelOf(o)

\* remove, for each of some orders: the first place of its hash goes from the
\* level it is looked for in, and the level goes when that leaves it empty.
Remove(S) ==
    LET left(l) == Without(levels[l], {o \in S : LookUp(o) = l})
        emptied == {l \in {LookUp(o) : o \in S} \cap DOMAIN levels : left(l) = <<>>}
    IN  /\ levels' = [l \in DOMAIN levels \ emptied |-> left(l)]
        /\ UNCHANGED <<acceptedSequence, nextSequence>>

\* Faulty variant: makers may have expired.
MatchForAnyAge(o, context) ==
    PlanMatch(levels, bookFilled, o, context.filled,
              {m \in Orders : state[m] \in LockedStates})

\* plan_for_submit.
MatchFor(o, context) ==
    PlanMatch(levels, bookFilled, o, context.filled,
        {m \in Orders : state[m] \in LockedStates \/ OrderExpired(m, context.now)})

\* A submission for which the matcher fails changes nothing, and the order
\* may be submitted again.
ExchangeSubmitOrder(o, command) ==
    /\ state[o] = "NoRecord"
    /\ IF Accepts(o, command.context)
       THEN LET match == MatchFor(o, command.context)
                plan  == IF match = NoMatch THEN NoPlan
                         ELSE [taken |-> match.taken, fills |-> match.fills]
            IN  /\ match # MatchFailed
                /\ AdmitOrder(o, command, plan)
       ELSE RejectOrder(o, command)
    /\ IF state'[o] = "Open" THEN Insert(o) ELSE UNCHANGED bookOrder

\* cancel_order takes a resting order off its book.
ExchangeCancelOrder(o) ==
    /\ CancelOrder(o)
    /\ IF resting[o] THEN Remove({o}) ELSE UNCHANGED bookOrder

\* apply_fill: the resting orders of which a commit leaves nothing on the book.
UsedUp(r) ==
    {o \in {legs[r][i].order : i \in AppliedLegs(r)} :
        resting[o] /\ bookFilled[o] + LegAmount(legs[r], o) = MaxClaim(o)}

\* Of the steps of a reservation only a commit touches the books.
ExchangeSettleReservation(r) ==
    /\ SettleReservation(r)
    /\ IF status'[r] = "Committed" THEN Remove(UsedUp(r)) ELSE UNCHANGED bookOrder

ExchangeExpireReservations(now) ==
    ExpireExpiredReservations(now) /\ UNCHANGED bookOrder

\* Faulty variant: the snapshot's own order.
HashBefore(o, p) == HashRank[o] < HashRank[p]

\* The order of two orders of the snapshot in the restored books.
RestoredBefore(o, p) ==
    \/ acceptedSequence[o] < acceptedSequence[p]
    \/ acceptedSequence[o] = acceptedSequence[p] /\ HashRank[o] < HashRank[p]

\* The orders that rest are put back in the order of their sequence numbers,
\* those with one number (of two markets) in the order of their hashes.  A
\* market continues after the highest number that still rests.
ExchangeRestart ==
    LET restored == {o \in Orders : resting[o]}
        SequencesOf(m) ==
            {0} \cup {acceptedSequence[o] + 1 : o \in {p \in restored : Terms[p].market = m}}
    IN  /\ Restart
        /\ levels' = LevelsOf(Ranked(restored,
                        {p \in restored \X restored : RestoredBefore(p[1], p[2])}))
        /\ nextSequence' = [m \in Markets |->
                CHOOSE next \in SequencesOf(m) : \A n \in SequencesOf(m) : n <= next]
        /\ UNCHANGED acceptedSequence

ExchangeNext ==
    \/ \E o \in Orders, command \in Commands : ExchangeSubmitOrder(o, command)
    \/ \E o \in Orders : ExchangeCancelOrder(o)
    \/ \E r \in Reservations : ExchangeSettleReservation(r)
    \/ \E now \in Times : ExchangeExpireReservations(now)
    \/ ExchangeRestart

ExchangeSpec == ExchangeInit /\ [][ExchangeNext]_allVars
-----------------------------------------------------------------------------
(***************************************************************************)
(* Correctness.                                                            *)
(***************************************************************************)
(***************************************************************************)
(* The engine with its real matcher and books is an Engine: every plan of  *)
(* the matcher is one that Engine allows, so whatever holds of Engine      *)
(* holds of it.                                                            *)
(***************************************************************************)
ImplementsEngine == Spec

(***************************************************************************)
(* The price levels and the map of resting orders agree after every call:  *)
(* each resting order stands at the level of its own side and price and    *)
(* nowhere else, once, no level holds a hash that is gone, which depth()   *)
(* fails on and a re-insertion would double, and no level is empty, which  *)
(* depth() would list (PriceLevelBook::remove passes a hash it does not    *)
(* find at the price in silence).                                          *)
(***************************************************************************)
LevelsMatchBook ==
    /\ \A l \in DOMAIN levels : levels[l] # <<>>
    /\ \A l \in DOMAIN levels : \A i \in DOMAIN levels[l] :
          /\ levels[l][i] \in inBook
          /\ LevelOf(levels[l][i]) = l
          /\ \A j \in DOMAIN levels[l] : levels[l][i] = levels[l][j] => i = j
    /\ \A o \in inBook :
          /\ LevelOf(o) \in DOMAIN levels
          /\ \E i \in DOMAIN levels[LevelOf(o)] : levels[LevelOf(o)][i] = o

\* Do the two orders stand at one level, the first ahead?
Ahead(ls, o, p) ==
    \E l \in DOMAIN ls : \E i, j \in DOMAIN ls[l] : i < j /\ ls[l][i] = o /\ ls[l][j] = p

(***************************************************************************)
(* Time priority is never lost: while two orders rest at one price, no     *)
(* match, partial fill, cancellation of others or restart ever swaps them  *)
(* (snapshot_recovery_preserves_same_price_fifo_priority tests one case).  *)
(***************************************************************************)
TimePriorityKept ==
    [][\A o, p \in inBook : Ahead(levels, o, p) => ~Ahead(levels', p, o)]_allVars

(***************************************************************************)
(* Every claim token a reservation takes from its makers goes to its       *)
(* taker: the legs balance, so that a settlement is neither short nor      *)
(* leaves a maker's tokens behind.                                         *)
(***************************************************************************)
LegsBalance ==
    \A r \in Reservations : legs[r] # <<>> =>
        legs[r][1].amount = Total(Amounts(Tail(legs[r])))

(***************************************************************************)
(* A settled reservation fills every one of its legs: "if settlement       *)
(* succeeds, the order becomes Filled or PartiallyFilled"                  *)
(* (docs/orderbook-flow-explainer.md:363).                                 *)
(***************************************************************************)
CommitFillsEveryLeg ==
    [][\A r \in Reservations : \A o \in LegOrders(legs[r]) :
          status[r] = "Submitted" /\ status'[r] = "Committed" =>
              /\ state'[o] \in {"Filled", "PartiallyFilled"}
              /\ filled'[o] = filled[o] + LegAmount(legs[r], o)]_allVars

(***************************************************************************)
(* "Only orders that do not cross should become visible resting liquidity" *)
(* (docs/orderbook-flow-explainer.md:258): of the orders that are free to  *)
(* match, no bid is as high as an ask of the same claim.                   *)
(***************************************************************************)
BookNeverCrossed ==
    \A o, p \in {x \in inBook : state[x] \in AvailableStates} :
        /\ Terms[o].market = Terms[p].market
        /\ Terms[o].claim = Terms[p].claim
        /\ Terms[o].side = "Buy" /\ Terms[p].side = "Sell"
        => Price(o) < Price(p)
=============================================================================
