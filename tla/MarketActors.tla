---------------------------- MODULE MarketActors ----------------------------
(***************************************************************************)
(* The router of the market actors (asceswap-market-actor, lib.rs) under   *)
(* the service.  Each market has an engine of its own behind an inbox; the *)
(* router finds the actor of an order by its market when it is submitted,  *)
(* and afterwards by the routes it noted for the order and for its         *)
(* reservation.  A call without a route is refused and changes nothing.    *)
(*                                                                         *)
(* The service awaits the answer to each message before it sends the next, *)
(* so a message and its answer are one step, and the engines of all        *)
(* markets are the Engine of Service.                                      *)
(***************************************************************************)
EXTENDS Service

VARIABLES
    actors,             \* the markets that have an actor
    orderRoute,         \* order_routes: the market noted for an order, or None
    reservationRoute    \* reservation_routes, likewise

routes     == <<actors, orderRoute, reservationRoute>>
routedVars == <<allVars, routes>>

Markets == {Terms[o].market : o \in Orders}

ActorsInit ==
    /\ ServiceInit
    /\ actors = {}
    /\ orderRoute = [o \in Orders |-> None]
    /\ reservationRoute = [r \in Reservations |-> None]
-----------------------------------------------------------------------------
\* A market gets its actor before the first submission to it (ensure_market).
EnsureMarket(o) == actors' = actors \cup {Terms[o].market}

\* Faulty variant: the reservation of a match gets no route.
IndexOrderOnly(o) ==
    /\ orderRoute' = [orderRoute EXCEPT ![o] = Terms[o].market]
    /\ UNCHANGED reservationRoute

\* index_submit_result.
IndexSubmission(o) ==
    /\ orderRoute' = [orderRoute EXCEPT ![o] = Terms[o].market]
    /\ reservationRoute' =
          IF status'[o] = "NoReservation" THEN reservationRoute
          ELSE [reservationRoute EXCEPT ![o] = Terms[o].market]

RoutedSubmit(o, command) ==
    EnsureMarket(o) /\ SubmitOrder(o, command) /\ IndexSubmission(o)

RoutedCancelRequest(o) ==
    /\ orderRoute[o] \in actors
    /\ CancelOrderRequest(o)
    /\ UNCHANGED routes

ReservationActor(r) == reservationRoute[r] \in actors

RoutedSettlementRequest(r, answer) ==
    /\ ReservationActor(r)
    /\ SettlementRequestFor(r, answer)
    /\ UNCHANGED routes
-----------------------------------------------------------------------------
StoredOrders == {o \in Orders : stored.state[o] # "NoRecord"}

\* split_snapshot_by_market accepts the rows of the store: every reservation
\* has a leg, and the orders of its legs have rows and share a market.
SplitAccepts ==
    \A r \in StoredReservations :
        /\ stored.legs[r] # <<>>
        /\ \A o \in LegOrders(stored.legs[r]) :
              /\ o \in StoredOrders
              /\ Terms[o].market = Terms[stored.legs[r][1].order].market

\* spawn_from_snapshot: an actor per market that has an order.
SpawnFromSnapshot == actors' = {Terms[o].market : o \in StoredOrders}

\* index_snapshot, for each actor's part of the snapshot.
IndexSnapshot ==
    /\ orderRoute' = [o \in Orders |-> IF o \in StoredOrders THEN Terms[o].market ELSE None]
    /\ reservationRoute' =
          [r \in Reservations |->
              IF r \in StoredReservations THEN Terms[stored.legs[r][1].order].market
              ELSE None]

RecoverActors == Recover /\ SplitAccepts /\ SpawnFromSnapshot /\ IndexSnapshot
-----------------------------------------------------------------------------
RoutesTypeOK ==
    /\ actors \subseteq Markets
    /\ orderRoute \in [Orders -> Markets \cup {None}]
    /\ reservationRoute \in [Reservations -> Markets \cup {None}]

(***************************************************************************)
(* Whatever an engine holds can be reached: every recorded order and every *)
(* reservation has a route to the actor of its market, after any number of *)
(* submissions, failed writes and restarts.  One without a route could be  *)
(* neither cancelled nor settled (MissingOrderRoute,                       *)
(* MissingReservationRoute).  And the rows of the store can at any moment  *)
(* be split by market: a restart, which makes these routes, is never       *)
(* refused with EmptyReservation, ReservationOrderMissing or               *)
(* ReservationSpansMarkets.                                                *)
(***************************************************************************)
RoutesComplete ==
    /\ \A o \in Orders : state[o] # "NoRecord" =>
          orderRoute[o] = Terms[o].market /\ orderRoute[o] \in actors
    /\ \A r \in Reservations : status[r] # "NoReservation" =>
          /\ reservationRoute[r] \in actors
          /\ \A o \in LegOrders(legs[r]) : Terms[o].market = reservationRoute[r]
    /\ SplitAccepts
=============================================================================
