------------------------------- MODULE Engine -------------------------------
(***************************************************************************)
(* The matching engine (asceswap-engine, engine.rs) with the reservation   *)
(* book (asceswap-state, reservation.rs): order records, the orders that   *)
(* rest on the books, and the reservations that lock claim amounts while a *)
(* match settles on chain.                                                 *)
(*                                                                         *)
(* The engine does not trust the matcher for custody: before it locks      *)
(* anything it checks that the makers are available and that no order is   *)
(* committed beyond its size.  This module therefore lets the matcher      *)
(* return any plan of the shape Plans describes; module Exchange adds      *)
(* price-time priority and the matcher itself, and implements this module. *)
(*                                                                         *)
(* Every method takes &mut self, so an action is a whole call.  A call     *)
(* that returns an error without having changed anything is no action; one *)
(* that returns an error after a change sets errored.                      *)
(***************************************************************************)
EXTENDS OrderValidation, OrderLifecycle, MatchConfig, Sequences

CONSTANTS
    Commands,           \* SubmitOrder requests
    Times               \* bound: the times callers pass as "now"

CommandType ==
    [context : ContextType, postOnly : BOOLEAN, restOnNoMatch : BOOLEAN,
     ttl : Nat \cup {None}]

ASSUME CommandsAssumption == Commands \subseteq CommandType
ASSUME TimesAssumption    == Times \subseteq Nat

VARIABLES
    state,          \* order record: its lifecycle state, or "NoRecord"
    filled,         \* order record: claim amount filled
    resting,        \* order record: is it meant to be on a book?
    inBook,         \* the orders on the books
    bookFilled,     \* the book's own copy of the filled amount
    status,         \* reservation: its status, or "NoReservation"
    legs,           \* reservation: the claim amount it locks per order
    expiresAt,      \* reservation: when it may expire, or None
    reserved,       \* reserved_by_order: claim amount locked per order
    errored         \* did the last call change something and then fail?

records      == <<state, filled, resting>>
books        == <<inBook, bookFilled>>
reservations == <<status, legs, expiresAt, reserved>>
vars         == <<records, books, reservations, errored>>

\* A reservation id hashes the taker's order hash, a sequence number and
\* the plan.  An order hash is accepted once, so the taker names its
\* reservation and the ids cannot collide.
Reservations == Orders

Statuses         == {"Reserved", "Submitted", "Released", "Expired", "Committed"}
ActiveStatuses   == {"Reserved", "Submitted"}
TerminalStatuses == Statuses \ ActiveStatuses

\* What one reservation locks of one order.
Leg == [order : Orders, amount : Nat \ {0}]

TypeOK ==
    /\ state \in [Orders -> OrderStates \cup {"NoRecord"}]
    /\ filled \in [Orders -> Nat]
    /\ resting \in [Orders -> BOOLEAN]
    /\ inBook \subseteq Orders
    /\ bookFilled \in [Orders -> Nat]
    /\ status \in [Reservations -> Statuses \cup {"NoReservation"}]
    /\ legs \in [Reservations -> Seq(Leg)]
    /\ expiresAt \in [Reservations -> Nat \cup {None}]
    /\ reserved \in [Orders -> Nat]
    /\ errored \in BOOLEAN

Init ==
    /\ state = [o \in Orders |-> "NoRecord"]
    /\ filled = [o \in Orders |-> 0]
    /\ resting = [o \in Orders |-> FALSE]
    /\ inBook = {}
    /\ bookFilled = [o \in Orders |-> 0]
    /\ status = [r \in Reservations |-> "NoReservation"]
    /\ legs = [r \in Reservations |-> <<>>]
    /\ expiresAt = [r \in Reservations |-> None]
    /\ reserved = [o \in Orders |-> 0]
    /\ errored = FALSE
-----------------------------------------------------------------------------
(***************************************************************************)
(* Reservation book.                                                       *)
(***************************************************************************)
Active(r) == status[r] \in ActiveStatuses

LegOrders(ls) == {ls[i].order : i \in DOMAIN ls}

\* aggregate_legs.  A plan fills a resting order once and never the taker
\* itself, so an order has at most one leg.
LegAmount(ls, o) ==
    IF o \in LegOrders(ls)
    THEN ls[CHOOSE i \in DOMAIN ls : ls[i].order = o].amount
    ELSE 0

\* Faulty variant: a reservation without an expiry is taken for expired.
IsExpiredByDefault(r, now) == IF expiresAt[r] = None THEN TRUE ELSE now >= expiresAt[r]

IsExpired(r, now) == expiresAt[r] # None /\ now >= expiresAt[r]

\* Faulty variant: what is filled is still available.
AvailableAtFullSize(o, alreadyFilled) == MaxClaim(o)

\* OrderAvailability::available_claim_amount.
Available(o, alreadyFilled) ==
    IF alreadyFilled > MaxClaim(o) THEN 0 ELSE MaxClaim(o) - alreadyFilled

\* Faulty variants: nothing is given back, and the whole order is.
ReservedForever(rs) == reserved

ReservedWithoutOrders(rs) ==
    [o \in Orders |->
        IF \E r \in rs : o \in LegOrders(legs[r]) THEN reserved[o] - MaxClaim(o)
                                                  ELSE reserved[o]]

\* The amount locked per order once the reservations rs, each of which holds
\* other orders than the rest, let go of their legs.
ReservedWithout(rs) ==
    [o \in Orders |->
        LET holders == {r \in rs : o \in LegOrders(legs[r])}
        IN  IF holders = {} THEN reserved[o]
            ELSE reserved[o] - LegAmount(legs[CHOOSE r \in holders : TRUE], o)]

\* Faulty variant: an order that rests nowhere is cancelled.
ReleasedOrCancelled(o) ==
    IF filled[o] > 0 THEN "PartiallyFilled"
    ELSE IF resting[o] THEN "Open" ELSE "Cancelled"

ReleasedState(o) ==
    IF filled[o] > 0 THEN "PartiallyFilled"
    ELSE IF resting[o] THEN "Open" ELSE "Inactive"

\* Faulty variant: the taker is not given back.
FreedMakers(rs) == {o \in Orders : \E r \in rs : o \in LegOrders(legs[r]) /\ o # r}

\* The orders that the reservations rs hold.
FreedOrders(rs) == {o \in Orders : \E r \in rs : o \in LegOrders(legs[r])}

\* Reservations rs end as "Released" or "Expired" and their orders go back
\* to where they were (restore_leg_states).
LetGo(rs, ending) ==
    /\ status' = [r \in Reservations |-> IF r \in rs THEN ending ELSE status[r]]
    /\ reserved' = ReservedWithout(rs)
    /\ state' = [o \in Orders |->
                    IF o \in FreedOrders(rs) THEN ReleasedState(o) ELSE state[o]]
    /\ UNCHANGED <<filled, resting, books, legs, expiresAt>>
-----------------------------------------------------------------------------
(***************************************************************************)
(* Submitting an order.                                                    *)
(***************************************************************************)

\* What the matcher may fill against: the orders of the taker's market that
\* rest on its book, less the locked and the expired ones (the filter of
\* plan_for_submit).
Candidates(o, now) ==
    {m \in inBook :
        /\ Terms[m].market = Terms[o].market
        /\ state[m] \notin LockedStates
        /\ ~OrderExpired(m, now)}

NoPlan == [taken |-> 0, fills |-> <<>>]

\* The matcher's promise: a fill that can be priced for the taker, and a few
\* distinct makers, each with a fill that can be priced on what the book
\* says it has left (PlanBuilder).
MakerFills(o, context) ==
    {fill \in [order : Candidates(o, context.now),
               amount : 1..RemainingClaim(o, context.filled)] :
        CanFill(fill.order, bookFilled[fill.order], fill.amount)}

Plans(o, context) ==
    [taken : {t \in 1..RemainingClaim(o, context.filled) :
                CanFill(o, context.filled, t)},
     fills : {fs \in UNION {[1..n -> MakerFills(o, context)] : n \in 1..MaxMakerOrders} :
                \A i, j \in DOMAIN fs : fs[i].order = fs[j].order => i = j}]

\* ensure_plan_makers_reservable and ReservationBook::ensure_available: the
\* taker is matched on the filled amount it came with, the makers on the
\* engine's own records.
Reservable(o, alreadyFilled, plan) ==
    /\ plan.taken <= Available(o, alreadyFilled) - reserved[o]
    /\ \A i \in DOMAIN plan.fills :
          LET m == plan.fills[i].order
          IN  /\ state[m] \in AvailableStates
              /\ plan.fills[i].amount <= Available(m, filled[m]) - reserved[m]

\* The record a submission leaves behind.  The lifecycle runs from Received
\* through Validating to newState within the call.
NewRecord(o, newState, alreadyFilled, rests) ==
    /\ filled' = [filled EXCEPT ![o] = alreadyFilled]
    /\ resting' = [resting EXCEPT ![o] = rests]
    /\ state' = [state EXCEPT ![o] = newState]

RejectOrder(o, command) ==
    /\ NewRecord(o, "Rejected", command.context.filled, FALSE)
    /\ errored' = FALSE
    /\ UNCHANGED <<books, reservations>>

\* A post-only order that would take liquidity, or an order that finds no
\* match and is not to rest.
LeaveInactive(o, command, plan) ==
    /\ IF plan = NoPlan THEN ~command.restOnNoMatch ELSE command.postOnly
    /\ NewRecord(o, "Inactive", command.context.filled, FALSE)
    /\ errored' = FALSE
    /\ UNCHANGED <<books, reservations>>

\* The book takes the order with nothing filled, whatever its record says.
RestOrder(o, command, plan) ==
    /\ plan = NoPlan
    /\ command.restOnNoMatch
    /\ NewRecord(o, "Open", command.context.filled, TRUE)
    /\ inBook' = inBook \cup {o}
    /\ bookFilled' = [bookFilled EXCEPT ![o] = 0]
    /\ errored' = FALSE
    /\ UNCHANGED reservations

\* Faulty variant: only the taker is locked.
LockTaker(ls) == state' = [state EXCEPT ![ls[1].order] = "Reserved"]

LockOrders(ls) ==
    state' = [x \in Orders |-> IF x \in LegOrders(ls) THEN "Reserved" ELSE state[x]]

\* The match is locked in a reservation: the taker's leg first, then one leg
\* per maker.  A time to live of zero is refused (InvalidReservationExpiry).
ReserveMatch(o, command, plan) ==
    /\ plan # NoPlan
    /\ ~command.postOnly
    /\ Reservable(o, command.context.filled, plan)
    /\ command.ttl # 0
    /\ status[o] = "NoReservation"
    /\ status' = [status EXCEPT ![o] = "Reserved"]
    /\ legs' = [legs EXCEPT ![o] =
                    <<[order |-> o, amount |-> plan.taken]>> \o plan.fills]
    /\ expiresAt' = [expiresAt EXCEPT ![o] =
                        IF command.ttl = None THEN None
                        ELSE command.context.now + command.ttl]
    /\ reserved' = [x \in Orders |-> reserved[x] + LegAmount(legs'[o], x)]
    /\ filled' = [filled EXCEPT ![o] = command.context.filled]
    /\ resting' = [resting EXCEPT ![o] = FALSE]
    /\ LockOrders(legs'[o])
    /\ errored' = FALSE
    /\ UNCHANGED books

\* A validated order with the plan the matcher found for it, or NoPlan.
AdmitOrder(o, command, plan) ==
    \/ LeaveInactive(o, command, plan)
    \/ RestOrder(o, command, plan)
    \/ ReserveMatch(o, command, plan)

\* Faulty variant: an order that is known is taken again.
SubmitOrderAgain(o, command) ==
    /\ Accepts(o, command.context)
    /\ \E plan \in Plans(o, command.context) \cup {NoPlan} : AdmitOrder(o, command, plan)

SubmitOrder(o, command) ==
    /\ state[o] = "NoRecord"
    /\ IF Accepts(o, command.context)
       THEN \E plan \in Plans(o, command.context) \cup {NoPlan} :
                AdmitOrder(o, command, plan)
       ELSE RejectOrder(o, command)
-----------------------------------------------------------------------------
(***************************************************************************)
(* Cancelling.  The order leaves the book before its lifecycle is asked, so *)
(* a refused cancellation has already taken the order off the book.        *)
(***************************************************************************)
\* Faulty variant: the record says it rests until the lifecycle has agreed.
CancelOrderLate(o) ==
    /\ state[o] # "NoRecord"
    /\ inBook' = IF resting[o] THEN inBook \ {o} ELSE inBook
    /\ bookFilled' = IF resting[o] THEN [bookFilled EXCEPT ![o] = 0] ELSE bookFilled
    /\ IF IsAllowedTransition(state[o], "Cancelled")
       THEN /\ state' = [state EXCEPT ![o] = "Cancelled"]
            /\ resting' = [resting EXCEPT ![o] = FALSE]
            /\ errored' = FALSE
       ELSE UNCHANGED <<state, resting>> /\ errored' = TRUE
    /\ UNCHANGED <<filled, reservations>>

CancelOrder(o) ==
    /\ state[o] # "NoRecord"
    /\ inBook' = IF resting[o] THEN inBook \ {o} ELSE inBook
    /\ bookFilled' = IF resting[o] THEN [bookFilled EXCEPT ![o] = 0] ELSE bookFilled
    /\ resting' = [resting EXCEPT ![o] = FALSE]
    /\ IF IsAllowedTransition(state[o], "Cancelled")
       THEN state' = [state EXCEPT ![o] = "Cancelled"] /\ errored' = FALSE
       ELSE UNCHANGED state /\ errored' = TRUE
    /\ UNCHANGED <<filled, reservations>>
-----------------------------------------------------------------------------
(***************************************************************************)
(* Settling a reservation.                                                 *)
(***************************************************************************)

\* A reservation found expired is let go, and the call fails with
\* ReservationExpired.
MarkExpiredReservation(r, now) ==
    /\ status[r] = "Reserved"
    /\ IsExpired(r, now)
    /\ LetGo({r}, "Expired")
    /\ errored' = TRUE

MarkReservationSubmitted(r, now) ==
    /\ status[r] = "Reserved"
    /\ ~IsExpired(r, now)
    /\ status' = [status EXCEPT ![r] = "Submitted"]
    /\ state' = [o \in Orders |->
                    IF o \in LegOrders(legs[r]) THEN "Submitted" ELSE state[o]]
    /\ errored' = FALSE
    /\ UNCHANGED <<filled, resting, books, legs, expiresAt, reserved>>

ReleaseReservation(r) ==
    /\ Active(r)
    /\ LetGo({r}, "Released")
    /\ errored' = FALSE

ExpireReservation(r, now) ==
    /\ status[r] = "Reserved"
    /\ IsExpired(r, now)
    /\ LetGo({r}, "Expired")
    /\ errored' = FALSE

ExpireExpiredReservations(now) ==
    /\ LetGo({r \in Reservations : status[r] = "Reserved" /\ IsExpired(r, now)},
             "Expired")
    /\ errored' = FALSE

\* apply_committed_fill succeeds on a leg: on the record and, for a resting
\* order, on the book's copy.
FillApplies(leg) ==
    /\ CanFill(leg.order, filled[leg.order], leg.amount)
    /\ resting[leg.order] =>
          /\ leg.order \in inBook
          /\ CanFill(leg.order, bookFilled[leg.order], leg.amount)

\* The legs a commit fills: all of them, or those before the first on which
\* apply_committed_fill fails.
AppliedLegs(r) ==
    {i \in DOMAIN legs[r] : \A j \in 1..i : FillApplies(legs[r][j])}

\* The reservation is committed and its amounts are let go before the fills
\* are applied leg by leg.
CommitReservation(r) ==
    /\ status[r] = "Submitted"
    /\ LET applied    == {legs[r][i].order : i \in AppliedLegs(r)}
           newFilled(o)   == filled[o] + LegAmount(legs[r], o)
           newBookFilled(o) == bookFilled[o] + LegAmount(legs[r], o)
           fullyFilled  == {o \in applied : newFilled(o) = MaxClaim(o)}
           leavesBook == {o \in applied : resting[o] /\ newBookFilled(o) = MaxClaim(o)}
       IN  /\ status' = [status EXCEPT ![r] = "Committed"]
           /\ reserved' = ReservedWithout({r})
           /\ filled' = [o \in Orders |->
                            IF o \in applied THEN newFilled(o) ELSE filled[o]]
           /\ resting' = [o \in Orders |-> resting[o] /\ o \notin fullyFilled]
           /\ state' = [o \in Orders |->
                            IF o \in fullyFilled THEN "Filled"
                            ELSE IF o \in applied THEN "PartiallyFilled"
                            ELSE state[o]]
           /\ inBook' = inBook \ leavesBook
           /\ bookFilled' = [o \in Orders |->
                                IF o \in leavesBook THEN 0
                                ELSE IF o \in applied /\ resting[o]
                                THEN newBookFilled(o) ELSE bookFilled[o]]
           /\ errored' = (AppliedLegs(r) # DOMAIN legs[r])
    /\ UNCHANGED <<legs, expiresAt>>
-----------------------------------------------------------------------------
(***************************************************************************)
(* Restarting from a snapshot of the engine.                               *)
(***************************************************************************)
ActiveHolders(o) == {r \in Reservations : Active(r) /\ o \in LegOrders(legs[r])}

\* What from_snapshot insists on.
SnapshotValid ==
    /\ \A o \in Orders :
          resting[o] =>
              /\ state[o] \in AvailableStates \cup LockedStates
              /\ ValidBasic(o)
              /\ RemainingClaim(o, filled[o]) > 0
    /\ \A r \in Reservations : status[r] # "NoReservation" =>
          \A i \in DOMAIN legs[r] :
              LET leg == legs[r][i]
              IN  /\ state[leg.order] # "NoRecord"
                  /\ Active(r) =>
                        /\ state[leg.order] \in LockedStates
                        /\ ValidBasic(leg.order)
                        /\ leg.amount <= RemainingClaim(leg.order, filled[leg.order])

\* The books are rebuilt from the records that rest, with the filled amounts
\* of the records, and the locked amounts from the active reservations.
Restart ==
    /\ SnapshotValid
    /\ inBook' = {o \in Orders : resting[o]}
    /\ bookFilled' = [o \in Orders |-> IF resting[o] THEN filled[o] ELSE 0]
    /\ reserved' = [o \in Orders |->
                      IF ActiveHolders(o) = {} THEN 0
                      ELSE LegAmount(legs[CHOOSE r \in ActiveHolders(o) : TRUE], o)]
    /\ errored' = FALSE
    /\ UNCHANGED <<records, status, legs, expiresAt>>
-----------------------------------------------------------------------------
SettleReservation(r) ==
    \/ \E now \in Times :
          \/ MarkExpiredReservation(r, now)
          \/ MarkReservationSubmitted(r, now)
          \/ ExpireReservation(r, now)
    \/ ReleaseReservation(r)
    \/ CommitReservation(r)

Next ==
    \/ \E o \in Orders, command \in Commands : SubmitOrder(o, command)
    \/ \E o \in Orders : CancelOrder(o)
    \/ \E r \in Reservations : SettleReservation(r)
    \/ \E now \in Times : ExpireExpiredReservations(now)
    \/ Restart

Spec == Init /\ [][Next]_vars
-----------------------------------------------------------------------------
(***************************************************************************)
(* Correctness.                                                            *)
(***************************************************************************)

\* An order that passed validation.
Admitted(o) == state[o] \notin {"NoRecord", "Rejected"}

(***************************************************************************)
(* No order is ever committed beyond its size: what it has filled and what *)
(* the reservations lock of it fit in it together, whatever the matcher    *)
(* proposes and in whatever order reservations are made, submitted,        *)
(* released, expired and committed (ensure_available, add_reserved,        *)
(* subtract_reserved, apply_committed_fill).                               *)
(***************************************************************************)
NoOvercommit ==
    \A o \in Orders : Admitted(o) => filled[o] + reserved[o] <= MaxClaim(o)

(***************************************************************************)
(* Liquidity is never matched twice: two reservations that are both still  *)
(* in flight share no order (unavailable_maker_hashes,                     *)
(* ensure_plan_makers_reservable).                                         *)
(***************************************************************************)
NoDoubleMatch ==
    \A r, s \in Reservations :
        Active(r) /\ Active(s) /\ r # s =>
            LegOrders(legs[r]) \cap LegOrders(legs[s]) = {}

(***************************************************************************)
(* Order records and reservations agree: the orders of a reservation in    *)
(* flight are in the state of that reservation, and an order in state      *)
(* Reserved belongs to a reservation in flight.  (A commit that fails at a *)
(* leg may leave the orders of the rest Submitted for nobody.)             *)
(***************************************************************************)
LocksAgree ==
    /\ \A r \in Reservations : Active(r) =>
          \A o \in LegOrders(legs[r]) : state[o] = status[r]
    /\ \A o \in Orders : state[o] = "Reserved" => ActiveHolders(o) # {}

(***************************************************************************)
(* The running totals of reserved_by_order are those that can be rebuilt   *)
(* from the reservations in flight, so that they are exact after any       *)
(* history and checked_sub never underflows.                               *)
(***************************************************************************)
ReservedExact ==
    \A o \in Orders :
        reserved[o] = IF ActiveHolders(o) = {} THEN 0
                      ELSE LegAmount(legs[CHOOSE r \in ActiveHolders(o) : TRUE], o)

(***************************************************************************)
(* A snapshot taken at any moment can be restarted from: from_snapshot     *)
(* never refuses what snapshot() wrote, even after a call that failed half *)
(* way.                                                                    *)
(***************************************************************************)
SnapshotAlwaysValid == SnapshotValid

(***************************************************************************)
(* An order whose record says it rests is on a book, and the book never    *)
(* thinks that more of it is filled than its record does.                  *)
(***************************************************************************)
RestingOnBook ==
    \A o \in Orders :
        resting[o] => o \in inBook /\ bookFilled[o] <= filled[o]

(***************************************************************************)
(* Only a commit fills an order that has a record, by the amount of its    *)
(* leg in a submitted reservation.  A release, an expiry, a cancellation,  *)
(* a restart or another submission never does, and no call undoes a fill.  *)
(***************************************************************************)
OnlyCommitFills ==
    [][\A o \in Orders :
          state[o] # "NoRecord" /\ filled'[o] # filled[o] =>
              \E r \in Reservations :
                  /\ status[r] = "Submitted" /\ status'[r] = "Committed"
                  /\ o \in LegOrders(legs[r])
                  /\ filled'[o] = filled[o] + LegAmount(legs[r], o)]_vars

(***************************************************************************)
(* Every change of state is one that OrderLifecycle allows.  So none of    *)
(* the transition_to calls in the middle of a loop over the legs of a      *)
(* reservation is ever refused, which would leave the loop half done.      *)
(***************************************************************************)
LifecycleRespected ==
    [][\A o \in Orders :
          state'[o] # state[o] =>
              IF state[o] = "NoRecord"
              THEN IsAllowedTransition("Validating", state'[o])
              ELSE IsAllowedTransition(state[o], state'[o])]_vars
=============================================================================
