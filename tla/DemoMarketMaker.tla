--------------------------- MODULE DemoMarketMaker --------------------------
(***************************************************************************)
(* The service with the demo market maker (asceswap-api, actor_service.rs  *)
(* and demo_market_maker.rs).  When the order of a client comes to rest,   *)
(* the same request submits the counter order, and if that is matched and  *)
(* auto_commit is set, marks and commits its reservation, before it writes *)
(* anything.  An error on the way ends the request and leaves the engine   *)
(* as it is.  Meanwhile no other request is served, but the process may    *)
(* stop.                                                                   *)
(***************************************************************************)
EXTENDS MarketActors, CounterOrder

CONSTANTS
    ClientOrders,       \* the orders that clients submit
    AutoCommit,         \* DemoMarketMaker::auto_commit
    DemoTtl,            \* DemoMarketMaker::reservation_ttl_secs
    MaxSalt             \* bound: the salts of counter orders

ASSUME DemoAssumption ==
    /\ ClientOrders \subseteq Orders
    /\ AutoCommit \in BOOLEAN
    /\ DemoTtl \in (Nat \ {0}) \cup {None}
    /\ MaxSalt \in Nat

VARIABLES
    stage,          \* what the request does next, or "Idle" between requests
    trigger,        \* the order that came to rest, its filled amount and time
    counter,        \* the counter order that was matched, or None
    nextSalt        \* DemoMarketMaker::next_salt

demoVars == <<stage, trigger, counter, nextSalt>>
apiVars  == <<routedVars, demoVars>>

Stages  == {"Idle", "Countering", "Marking", "Committing"}
Trigger == [order : ClientOrders, filled : Nat, now : Nat]

CounterOrders == Orders \ ClientOrders

\* The answers to the orders of clients that may rest are orders, and no
\* client submits them.
ASSUME CounterAssumption ==
    \A o \in ClientOrders, command \in Commands, salt \in 1..MaxSalt :
        Accepts(o, command.context) /\ Terms[o].maker # DemoMaker =>
            CounterOf(o, command.context.filled, salt) \in CounterOrders

ApiInit ==
    /\ ActorsInit
    /\ stage = "Idle"
    /\ trigger = None
    /\ counter = None
    /\ nextSalt = 1
-----------------------------------------------------------------------------
\* The request ends, with its answer or with an error.
EndRequest == stage' = "Idle" /\ trigger' = None /\ counter' = None

\* run_demo_market_maker_after_submit goes on: the order rests, may take, and
\* is not the demo market maker's own.
WantsCounter(o, command) ==
    /\ state'[o] = "Open"
    /\ ~command.postOnly
    /\ Terms[o].maker # DemoMaker

ClientSubmit(o, command) ==
    /\ stage = "Idle"
    /\ RoutedSubmit(o, command)
    /\ IF WantsCounter(o, command)
       THEN /\ nextSalt <= MaxSalt
            /\ stage' = "Countering"
            /\ trigger' = [order |-> o, filled |-> command.context.filled,
                           now |-> command.context.now]
            /\ UNCHANGED <<serviceVars, counter>>
       ELSE /\ \E answer \in Answers : Respond(answer, NoHash)
            /\ UNCHANGED <<stage, trigger, counter>>
    /\ UNCHANGED nextSalt

\* counter_order_for: a signed order that is not to rest.
CounterCommand(c) ==
    [context |-> [expectedHash |-> c, filled |-> 0, cancelled |-> FALSE,
                  makerEpoch |-> Terms[c].epoch, now |-> trigger.now, feeRate |-> 0,
                  signature |-> "Valid", requireSignature |-> TRUE],
     postOnly |-> FALSE, restOnNoMatch |-> FALSE, ttl |-> DemoTtl]

\* Faulty variants: the match is written before it is committed; the
\* reservation is committed without being submitted.
WriteMatchFirst(c) ==
    /\ RoutedSubmit(c, CounterCommand(c))
    /\ \E answer \in Answers : Respond(answer, NoHash)
    /\ IF AutoCommit /\ status'[c] # "NoReservation"
       THEN stage' = "Marking" /\ counter' = c /\ UNCHANGED trigger
       ELSE EndRequest

CommitUnmarked(c) ==
    /\ RoutedSubmit(c, CounterCommand(c))
    /\ IF AutoCommit /\ status'[c] # "NoReservation"
       THEN /\ stage' = "Committing" /\ counter' = c
            /\ UNCHANGED <<serviceVars, trigger>>
       ELSE (\E answer \in Answers : Respond(answer, NoHash)) /\ EndRequest

CounterAccepted(c) ==
    /\ RoutedSubmit(c, CounterCommand(c))
    /\ IF AutoCommit /\ status'[c] # "NoReservation"
       THEN /\ stage' = "Marking" /\ counter' = c
            /\ UNCHANGED <<serviceVars, trigger>>
       ELSE (\E answer \in Answers : Respond(answer, NoHash)) /\ EndRequest

\* The engine knows the hash already, or the match cannot be priced or made:
\* the request fails, and the client's order goes on resting.
CounterRefused(c) ==
    /\ \/ state[c] # "NoRecord"
       \/ Accepts(c, CounterCommand(c).context) /\ Candidates(c, trigger.now) # {}
    /\ EndRequest
    /\ UNCHANGED routedVars

SubmitCounter ==
    /\ stage = "Countering"
    /\ LET c == CounterOf(trigger.order, trigger.filled, nextSalt)
       IN  CounterAccepted(c) \/ CounterRefused(c)
    /\ nextSalt' = nextSalt + 1

\* append_mock_commit_events, at the time of the submission: the reservation
\* has just been made, and its time to live is positive.
MarkCounter ==
    /\ stage = "Marking"
    /\ MarkReservationSubmitted(counter, trigger.now)
    /\ stage' = "Committing"
    /\ UNCHANGED <<serviceVars, routes, trigger, counter, nextSalt>>

CommitCounter ==
    /\ stage = "Committing"
    /\ CommitReservation(counter)
    /\ \E answer \in Answers : Respond(answer, NoHash)
    /\ EndRequest
    /\ UNCHANGED <<routes, nextSalt>>

DemoStep == SubmitCounter \/ MarkCounter \/ CommitCounter

OtherClientRequest ==
    /\ stage = "Idle"
    /\ \/ \E o \in Orders : RoutedCancelRequest(o)
       \/ \E r \in Reservations, answer \in Answers : RoutedSettlementRequest(r, answer)
    /\ UNCHANGED demoVars

\* with_demo_market_maker: the salts go on from the number of the next event.
\* Failed requests use up salts without a number, so a salt used before may
\* come again; that salts may also be skipped makes no difference.
RestartApi ==
    /\ RecoverActors
    /\ EndRequest
    /\ nextSalt' \in 1..nextSalt

ApiNext ==
    \/ \E o \in ClientOrders, command \in Commands : ClientSubmit(o, command)
    \/ DemoStep
    \/ OtherClientRequest
    \/ RestartApi

ApiSpec == ApiInit /\ [][ApiNext]_apiVars
-----------------------------------------------------------------------------
ApiTypeOK ==
    /\ ServiceTypeOK
    /\ RoutesTypeOK
    /\ stage \in Stages
    /\ trigger \in Trigger \cup {None}
    /\ counter \in CounterOrders \cup {None}
    /\ nextSalt \in 1..MaxSalt + 1

(***************************************************************************)
(* With auto_commit, the market maker trades or leaves nothing: between    *)
(* requests no order is locked for a counter order and no counter order    *)
(* rests, whatever failed; and the store never has one half done, not even *)
(* after a stop in the middle of the request.                              *)
(***************************************************************************)
DemoTradesWhole ==
    AutoCommit =>
        \A c \in CounterOrders :
            /\ stage = "Idle" => ~Active(c) /\ c \notin inBook
            /\ stored.status[c] \notin ActiveStatuses /\ ~stored.resting[c]

(***************************************************************************)
(* The engine never refuses the market maker in the middle of its trade:   *)
(* the reservation it has just made can be marked, and then committed with *)
(* every one of its legs, whatever the order it trades with went through   *)
(* before (submit_reservation_at, commit_reservation and apply_fill in     *)
(* append_mock_commit_events).                                             *)
(***************************************************************************)
DemoNeverRefused ==
    /\ stage = "Marking" =>
          status[counter] = "Reserved" /\ ~IsExpired(counter, trigger.now)
    /\ stage = "Committing" =>
          status[counter] = "Submitted" /\ AppliedLegs(counter) = DOMAIN legs[counter]
=============================================================================
