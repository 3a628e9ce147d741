---------------------------- MODULE ServiceProofs ---------------------------
(***************************************************************************)
(* Proofs about the service, for any orders, commands and faults: first    *)
(* what the engine and its store owe each other, whoever makes the calls,  *)
(* then the service with the market actors and the demo market maker.      *)
(***************************************************************************)
EXTENDS DemoMarketMaker, EngineProofs

USE DEF Reservations

(***************************************************************************)
(* The engine and the store: no call of the engine takes anything back,    *)
(* the rows of the store are those of a sound engine, and a write copies   *)
(* the engine whole.  Stated for any call of the engine and any answer of  *)
(* the service, so that every composition of Service can use it.           *)
(***************************************************************************)
\* An order without a record has nothing filled, and a reservation that was
\* not made has no legs.
Blank ==
    /\ \A o \in Orders : state[o] = "NoRecord" => filled[o] = 0
    /\ \A r \in Reservations : status[r] = "NoReservation" =>
          legs[r] = <<>> /\ expiresAt[r] = None

\* A reservation starts with its taker's leg and stays in one market.
OneMarket ==
    \A r \in Reservations : status[r] # "NoReservation" =>
        /\ legs[r] # <<>> /\ legs[r][1].order = r
        /\ \A o \in LegOrders(legs[r]) : Terms[o].market = Terms[r].market

EngineInv == Inv /\ Blank /\ OneMarket

\* Any call of the engine, by whomever: a submission or another call.
OtherCall ==
    \/ \E o \in Orders : CancelOrder(o)
    \/ \E r \in Reservations, now \in Nat :
          \/ MarkExpiredReservation(r, now)
          \/ MarkReservationSubmitted(r, now)
          \/ ExpireReservation(r, now)
    \/ \E r \in Reservations : ReleaseReservation(r) \/ CommitReservation(r)

EngineCall ==
    \/ \E o \in Orders, command \in CommandType : SubmitOrder(o, command)
    \/ OtherCall

\* What a call other than a submission does to the reservations: it ends
\* active ones or moves one on, and leaves their legs alone.
MovesOn ==
    /\ UNCHANGED <<legs, expiresAt>>
    /\ inBook' \subseteq inBook
    /\ \A o \in Orders : resting'[o] => resting[o]
    /\ \A o \in Orders : state[o] = "NoRecord" <=> state'[o] = "NoRecord"
    /\ \A o \in Orders : filled'[o] >= filled[o]
    /\ \A o \in Orders : state[o] = "NoRecord" => filled'[o] = filled[o]
    /\ \A o \in Orders : state[o] \in {"Filled", "Cancelled", "Rejected"} =>
          state'[o] = state[o]
    /\ \A r \in Reservations : status'[r] # status[r] =>
          \/ status[r] = "Reserved" /\ status'[r] = "Submitted"
          \/ status[r] \in ActiveStatuses /\ status'[r] \in TerminalStatuses
\* What the submission of order o does: a record for it, and perhaps a
\* reservation under its name with the legs of orders that were free.
Submits(o) ==
    /\ state[o] = "NoRecord" /\ status[o] = "NoReservation"
    /\ state'[o] # "NoRecord"
    /\ \A x \in Orders \ {o} :
          /\ filled'[x] = filled[x]
          /\ resting'[x] = resting[x]
          /\ state'[x] # state[x] =>
                state[x] \in AvailableStates /\ state'[x] = "Reserved"
    /\ inBook' \subseteq inBook \cup {o}
    /\ \A r \in Reservations \ {o} :
          status'[r] = status[r] /\ legs'[r] = legs[r] /\ expiresAt'[r] = expiresAt[r]
    /\ \/ status'[o] = "NoReservation" /\ UNCHANGED <<legs, expiresAt>>
       \/ /\ status'[o] = "Reserved"
          /\ legs'[o] # <<>> /\ legs'[o][1].order = o
          /\ \A x \in LegOrders(legs'[o]) : Terms[x].market = Terms[o].market

(***************************************************************************)
(* What makes rows sound: an engine started from them is.  Every part is   *)
(* about the rows alone, without the running totals and the books, which   *)
(* a restart rebuilds.                                                     *)
(***************************************************************************)
InFlight(rows, r) == rows.status[r] \in ActiveStatuses

LegsSound(rows) ==
    \A r \in Reservations :
        /\ Distinct(rows.legs[r])
        /\ rows.status[r] = "NoReservation" =>
              rows.legs[r] = <<>> /\ rows.expiresAt[r] = None
        /\ rows.status[r] # "NoReservation" =>
              /\ rows.legs[r] # <<>> /\ rows.legs[r][1].order = r
              /\ \A o \in LegOrders(rows.legs[r]) :
                    rows.state[o] # "NoRecord" /\ Terms[o].market = Terms[r].market

LocksSound(rows) ==
    /\ \A r \in Reservations : InFlight(rows, r) =>
          \A o \in LegOrders(rows.legs[r]) :
              /\ rows.state[o] = rows.status[r]
              /\ rows.filled[o] + LegAmount(rows.legs[r], o) <= MaxClaim(o)
              /\ \A q \in Reservations \ {r} :
                    InFlight(rows, q) => o \notin LegOrders(rows.legs[q])
    /\ \A o \in Orders : rows.state[o] = "Reserved" =>
          \E r \in Reservations : InFlight(rows, r) /\ o \in LegOrders(rows.legs[r])

OrdersSound(rows) ==
    \A o \in Orders :
        /\ rows.state[o] = "NoRecord" =>
              /\ rows.filled[o] = 0 /\ ~rows.resting[o]
              /\ rows.status[o] = "NoReservation"
        /\ rows.state[o] \notin {"NoRecord", "Rejected"} =>
              ValidBasic(o) /\ rows.filled[o] <= MaxClaim(o)
        /\ rows.resting[o] =>
              /\ rows.state[o] \in AvailableStates \cup LockedStates
              /\ rows.filled[o] < MaxClaim(o)

RowsSound(rows) ==
    rows \in SnapshotType /\ LegsSound(rows) /\ LocksSound(rows) /\ OrdersSound(rows)

\* The service at any moment, between calls that were written and calls that
\* were not.
StoreInv ==
    /\ EngineInv
    /\ RowsSound(stored)
    /\ hashes \in [Reservations -> Nat \cup {None}]
    /\ eventCount \in Nat /\ nextEvent \in Nat
    /\ answered \in SnapshotType
    /\ AnsweredIsDurable

\* Any call of the service, whoever makes it: one call of the engine, and an
\* answer or none.  Only a reservation that is being marked gets a hash.
ServiceCall ==
    /\ EngineCall
    /\ \/ \E answer \in Answers, recorded \in HashWrites :
             /\ \A r \in DOMAIN recorded : status[r] = "Reserved"
             /\ RespondReservation(answer, recorded)
       \/ UNCHANGED serviceVars
-----------------------------------------------------------------------------
LEMMA CallInv ==
    ASSUME Inv, EngineCall
    PROVE  Inv'
  <1>1. CASE \E o \in Orders, command \in CommandType : SubmitOrder(o, command)
    BY <1>1, SubmitOrderInv
  <1>2. CASE \E o \in Orders : CancelOrder(o)
    BY <1>2, CancelOrderInv
  <1>3. ASSUME NEW r \in Reservations, NEW now,
               MarkExpiredReservation(r, now) \/ ExpireReservation(r, now)
        PROVE  Inv'
    BY <1>3, LetGoInv
    DEF MarkExpiredReservation, ExpireReservation, Active, ActiveStatuses
  <1>4. ASSUME NEW r \in Reservations, NEW now, MarkReservationSubmitted(r, now)
        PROVE  Inv'
    BY <1>4, MarkSubmittedInv
  <1>5. ASSUME NEW r \in Reservations, ReleaseReservation(r)
        PROVE  Inv'
    BY <1>5, LetGoInv DEF ReleaseReservation
  <1>6. ASSUME NEW r \in Reservations, CommitReservation(r)
        PROVE  Inv'
    BY <1>6, CommitInv
  <1> QED  BY <1>1, <1>2, <1>3, <1>4, <1>5, <1>6 DEF EngineCall, OtherCall

LEMMA LetGoMovesOn ==
    ASSUME Inv, NEW r \in Reservations, Active(r),
           NEW ending \in {"Released", "Expired"}, LetGo({r}, ending)
    PROVE  MovesOn
  <1>1. /\ UNCHANGED <<filled, resting, inBook, legs, expiresAt>>
        /\ \A s \in Reservations : status'[s] = IF s = r THEN ending ELSE status[s]
        /\ \A o \in Orders : state'[o] = IF o \in LegOrders(legs[r])
                                         THEN ReleasedState(o) ELSE state[o]
    BY DEF LetGo, FreedOrders, books
  <1>2. \A o \in LegOrders(legs[r]) : state[o] \in LockedStates
    BY DEF Inv, LocksAgree, Active, ActiveStatuses, LockedStates
  <1>3. \A o \in Orders : ReleasedState(o) # "NoRecord"
    BY DEF ReleasedState
  <1>4. filled \in [Orders -> Nat]
    BY DEF Inv, TypeOK
  <1> QED
    BY <1>1, <1>2, <1>3, <1>4
    DEF MovesOn, Active, LockedStates, ActiveStatuses, TerminalStatuses, Statuses

LEMMA CommitMovesOn ==
    ASSUME Inv, NEW r \in Reservations, CommitReservation(r)
    PROVE  MovesOn
  <1> DEFINE applied == {legs[r][i].order : i \in AppliedLegs(r)}
  <1>1. /\ UNCHANGED <<legs, expiresAt>>
        /\ inBook' \subseteq inBook
        /\ \A o \in Orders : resting'[o] => resting[o]
        /\ status[r] = "Submitted"
        /\ status' = [status EXCEPT ![r] = "Committed"]
        /\ \A o \in Orders :
              filled'[o] = IF o \in applied THEN filled[o] + LegAmount(legs[r], o)
                                            ELSE filled[o]
        /\ \A o \in Orders :
              IF o \in applied THEN state'[o] \in {"Filled", "PartiallyFilled"}
                               ELSE state'[o] = state[o]
    BY DEF CommitReservation
  <1>2. \A o \in applied : o \in LegOrders(legs[r])
    BY DEF AppliedLegs, LegOrders
  <1> HIDE DEF applied
  <1>3. \A o \in applied : state[o] = "Submitted"
    BY <1>1, <1>2 DEF Inv, LocksAgree, Active, ActiveStatuses
  <1>4. \A o \in Orders : filled[o] \in Nat /\ LegAmount(legs[r], o) \in Nat
    BY LegAmountType DEF Inv, TypeOK
  <1>5. status'[r] = "Committed" /\ \A s \in Reservations \ {r} : status'[s] = status[s]
    BY <1>1 DEF Inv, TypeOK
  <1>6. \A o \in Orders : filled'[o] >= filled[o]
    BY <1>1, <1>4
  <1>7. /\ \A o \in Orders : state[o] = "NoRecord" <=> state'[o] = "NoRecord"
        /\ \A o \in Orders : state[o] = "NoRecord" => filled'[o] = filled[o]
        /\ \A o \in Orders : state[o] \in {"Filled", "Cancelled", "Rejected"} =>
              state'[o] = state[o]
    BY <1>1, <1>3
  <1> QED
    BY <1>1, <1>5, <1>6, <1>7 DEF MovesOn, ActiveStatuses, TerminalStatuses, Statuses

LEMMA MarkMovesOn ==
    ASSUME Inv, NEW r \in Reservations, NEW now, MarkReservationSubmitted(r, now)
    PROVE  MovesOn
  <1>1. /\ UNCHANGED <<filled, resting, inBook, legs, expiresAt>>
        /\ status[r] = "Reserved"
        /\ status' = [status EXCEPT ![r] = "Submitted"]
        /\ \A o \in Orders : state'[o] = IF o \in LegOrders(legs[r])
                                         THEN "Submitted" ELSE state[o]
    BY DEF MarkReservationSubmitted, books
  <1>2. \A o \in LegOrders(legs[r]) : state[o] = "Reserved"
    BY <1>1 DEF Inv, LocksAgree, Active, ActiveStatuses
  <1>3. filled \in [Orders -> Nat] /\ status \in [Reservations -> Statuses \cup {"NoReservation"}]
    BY DEF Inv, TypeOK
  <1> QED
    BY <1>1, <1>2, <1>3 DEF MovesOn

LEMMA CancelMovesOn ==
    ASSUME Inv, NEW o \in Orders, CancelOrder(o)
    PROVE  MovesOn
  <1>1. /\ UNCHANGED <<filled, status, legs, expiresAt>>
        /\ state[o] # "NoRecord"
        /\ inBook' \subseteq inBook
        /\ resting' = [resting EXCEPT ![o] = FALSE]
        /\ \/ /\ IsAllowedTransition(state[o], "Cancelled")
              /\ state' = [state EXCEPT ![o] = "Cancelled"]
           \/ state' = state
    BY DEF CancelOrder, reservations
  <1>2. /\ state \in [Orders -> OrderStates \cup {"NoRecord"}]
        /\ filled \in [Orders -> Nat] /\ resting \in [Orders -> BOOLEAN]
    BY DEF Inv, TypeOK
  <1>3. IsAllowedTransition(state[o], "Cancelled") =>
            state[o] \notin {"Filled", "Cancelled", "Rejected"}
    BY DEF IsAllowedTransition, AllowedTransitions, AvailableStates, LockedStates
  <1> QED
    BY <1>1, <1>2, <1>3 DEF MovesOn

LEMMA ReserveSubmits ==
    ASSUME Inv, NEW o \in Orders, NEW command \in CommandType, state[o] = "NoRecord",
           Accepts(o, command.context),
           NEW plan \in Plans(o, command.context), ReserveMatch(o, command, plan)
    PROVE  Submits(o)
  <1>1. TypeOK /\ status[o] = "NoReservation"
    BY DEF Inv, ReserveMatch
  <1>2. /\ legs' = [legs EXCEPT ![o] = TakerFirst(o, plan.taken, plan.fills)]
        /\ status' = [status EXCEPT ![o] = "Reserved"]
        /\ filled' = [filled EXCEPT ![o] = command.context.filled]
        /\ resting' = [resting EXCEPT ![o] = FALSE]
        /\ UNCHANGED inBook
        /\ \A x \in Orders : state'[x] = IF x \in LegOrders(legs'[o]) THEN "Reserved"
                                                                     ELSE state[x]
        /\ \A i \in DOMAIN plan.fills : state[plan.fills[i].order] \in AvailableStates
    BY DEF ReserveMatch, LockOrders, Reservable, TakerFirst, books
  <1>3. \A r \in Reservations \ {o} : expiresAt'[r] = expiresAt[r]
    BY <1>1 DEF ReserveMatch, TypeOK
  <1>4. plan.taken \in Nat \ {0} /\ plan.fills \in Seq(Leg) /\ Distinct(plan.fills)
    BY AcceptedOrder, PlanType
  <1>5. \A i \in DOMAIN plan.fills : plan.fills[i].order # o
    BY <1>2 DEF AvailableStates
  <1> DEFINE ls == TakerFirst(o, plan.taken, plan.fills)
  <1>6. legs'[o] = ls /\ \A r \in Reservations \ {o} : legs'[r] = legs[r]
    BY <1>1, <1>2 DEF TypeOK
  <1>7. LegOrders(ls) = {o} \cup LegOrders(plan.fills)
    BY <1>4, <1>5, NewLegs
  <1>8. ls # <<>> /\ ls[1].order = o
    BY <1>4 DEF TakerFirst
  <1>9. \A i \in DOMAIN plan.fills : Terms[plan.fills[i].order].market = Terms[o].market
    BY DEF Plans, MakerFills, Candidates
  <1> HIDE DEF ls
  <1>10. \A x \in LegOrders(ls) : /\ Terms[x].market = Terms[o].market
                                 /\ (x = o \/ state[x] \in AvailableStates)
    <2> SUFFICES ASSUME NEW x \in LegOrders(plan.fills)
                 PROVE  Terms[x].market = Terms[o].market /\ state[x] \in AvailableStates
      BY <1>7
    <2>1. PICK i \in DOMAIN plan.fills : x = plan.fills[i].order
      BY DEF LegOrders
    <2> QED  BY <1>2, <1>9, <2>1
  <1>11. o \in LegOrders(legs'[o])
    BY <1>6, <1>7
  <1>12. /\ status'[o] = "Reserved"
         /\ \A r \in Reservations \ {o} : status'[r] = status[r]
         /\ \A x \in Orders \ {o} : filled'[x] = filled[x] /\ resting'[x] = resting[x]
    BY <1>1, <1>2 DEF TypeOK
  <1>13. \A x \in Orders \ {o} : state'[x] # state[x] =>
             state[x] \in AvailableStates /\ state'[x] = "Reserved"
    BY <1>2, <1>6, <1>10
  <1> QED
    BY <1>1, <1>2, <1>3, <1>6, <1>8, <1>10, <1>11, <1>12, <1>13 DEF Submits

LEMMA SubmitSubmits ==
    ASSUME Inv, NEW o \in Orders, NEW command \in CommandType, SubmitOrder(o, command)
    PROVE  Submits(o)
  <1>1. TypeOK /\ state[o] = "NoRecord" /\ status[o] = "NoReservation"
    BY DEF Inv, Unrecorded, SubmitOrder
  <1>2. ASSUME NEW newState \in {"Rejected", "Inactive", "Open"}, NEW rests,
               NewRecord(o, newState, command.context.filled, rests),
               inBook' \subseteq inBook \cup {o}, UNCHANGED reservations
        PROVE  Submits(o)
    BY <1>1, <1>2 DEF Submits, NewRecord, TypeOK, reservations
  <1>3. CASE RejectOrder(o, command)
    BY <1>2, <1>3 DEF RejectOrder, books
  <1>4. ASSUME NEW plan \in Plans(o, command.context) \cup {NoPlan},
               AdmitOrder(o, command, plan), Accepts(o, command.context)
        PROVE  Submits(o)
    <2>1. CASE LeaveInactive(o, command, plan)
      BY <1>2, <2>1 DEF LeaveInactive, books
    <2>2. CASE RestOrder(o, command, plan)
      BY <1>2, <2>2 DEF RestOrder
    <2>3. CASE ReserveMatch(o, command, plan)
      <3>1. plan \in Plans(o, command.context)
        BY <2>3 DEF ReserveMatch
      <3> QED  BY <1>1, <1>4, <2>3, <3>1, ReserveSubmits
    <2> QED  BY <1>4, <2>1, <2>2, <2>3 DEF AdmitOrder
  <1> QED  BY <1>3, <1>4 DEF SubmitOrder

LEMMA OtherCallMovesOn ==
    ASSUME Inv, OtherCall
    PROVE  MovesOn
  <1>1. CASE \E o \in Orders : CancelOrder(o)
    BY <1>1, CancelMovesOn
  <1>2. ASSUME NEW r \in Reservations, NEW now,
               MarkExpiredReservation(r, now) \/ ExpireReservation(r, now)
        PROVE  MovesOn
    BY <1>2, LetGoMovesOn
    DEF MarkExpiredReservation, ExpireReservation, Active, ActiveStatuses
  <1>3. ASSUME NEW r \in Reservations, NEW now, MarkReservationSubmitted(r, now)
        PROVE  MovesOn
    BY <1>3, MarkMovesOn
  <1>4. ASSUME NEW r \in Reservations, ReleaseReservation(r)
        PROVE  MovesOn
    BY <1>4, LetGoMovesOn DEF ReleaseReservation
  <1>5. ASSUME NEW r \in Reservations, CommitReservation(r)
        PROVE  MovesOn
    BY <1>5, CommitMovesOn
  <1> QED  BY <1>1, <1>2, <1>3, <1>4, <1>5 DEF OtherCall

\* Every call of the engine submits one order or moves reservations on.
LEMMA CallEffect ==
    ASSUME Inv, EngineCall
    PROVE  MovesOn \/ \E o \in Orders : Submits(o)
  BY SubmitSubmits, OtherCallMovesOn DEF EngineCall

LEMMA EngineInvInit == Init => EngineInv
  <1> SUFFICES ASSUME Init PROVE EngineInv
    OBVIOUS
  <1>1. Inv
    BY InitInv
  <1> QED  BY <1>1 DEF Init, EngineInv, Blank, OneMarket

LEMMA EngineInvStep ==
    ASSUME EngineInv, EngineCall
    PROVE  EngineInv'
  <1>1. Inv'
    BY CallInv DEF EngineInv
  <1>2. CASE MovesOn
    <2>1. \A r \in Reservations : status[r] = "NoReservation" <=> status'[r] = "NoReservation"
      BY <1>2 DEF MovesOn, ActiveStatuses, TerminalStatuses, Statuses
    <2>2. Blank'
      BY <1>2, <2>1 DEF MovesOn, EngineInv, Blank
    <2>3. OneMarket'
      BY <1>2, <2>1 DEF MovesOn, EngineInv, OneMarket
    <2> QED  BY <1>1, <2>2, <2>3 DEF EngineInv
  <1>3. ASSUME NEW o \in Orders, Submits(o)
        PROVE  EngineInv'
    <2>1. Blank'
      BY <1>3 DEF Submits, EngineInv, Blank, AvailableStates
    <2>2. OneMarket'
      BY <1>3 DEF Submits, EngineInv, OneMarket
    <2> QED  BY <1>1, <2>1, <2>2 DEF EngineInv
  <1> QED  BY <1>2, <1>3, CallEffect DEF EngineInv
-----------------------------------------------------------------------------
(***************************************************************************)
(* The snapshot of a sound engine is sound, and so is the engine that is   *)
(* made of sound rows.                                                     *)
(***************************************************************************)
LEMMA SnapshotSound == EngineInv => RowsSound(Snapshot)
  <1> SUFFICES ASSUME EngineInv PROVE RowsSound(Snapshot)
    OBVIOUS
  <1>1. TypeOK
    BY DEF EngineInv, Inv
  <1>2. /\ Snapshot.state = state /\ Snapshot.filled = filled
        /\ Snapshot.resting = resting /\ Snapshot.status = status
        /\ Snapshot.legs = legs /\ Snapshot.expiresAt = expiresAt
    BY DEF Snapshot
  <1>3. Snapshot \in SnapshotType
    BY <1>1 DEF TypeOK, Snapshot, SnapshotType
  <1>4. \A r \in Reservations : LegOrders(legs[r]) \subseteq Orders
    BY <1>1, LegOrdersType DEF TypeOK
  <1>5. LegsSound(Snapshot)
    <2> SUFFICES ASSUME NEW r \in Reservations
                 PROVE  /\ Distinct(legs[r])
                        /\ status[r] = "NoReservation" => legs[r] = <<>> /\ expiresAt[r] = None
                        /\ status[r] # "NoReservation" =>
                              /\ legs[r] # <<>> /\ legs[r][1].order = r
                              /\ \A o \in LegOrders(legs[r]) :
                                    state[o] # "NoRecord" /\ Terms[o].market = Terms[r].market
      BY <1>2 DEF LegsSound
    <2>1. Distinct(legs[r])
      BY DEF EngineInv, Inv, LegsDistinct
    <2>2. status[r] = "NoReservation" => legs[r] = <<>> /\ expiresAt[r] = None
      BY DEF EngineInv, Blank
    <2>3. status[r] # "NoReservation" =>
              /\ legs[r] # <<>> /\ legs[r][1].order = r
              /\ \A o \in LegOrders(legs[r]) : Terms[o].market = Terms[r].market
      BY DEF EngineInv, OneMarket
    <2>4. status[r] # "NoReservation" =>
              \A o \in LegOrders(legs[r]) : state[o] # "NoRecord"
      BY <1>4 DEF EngineInv, Inv, Unrecorded
    <2> QED  BY <2>1, <2>2, <2>3, <2>4
  <1>6. \A r \in Reservations : Active(r) =>
           \A o \in LegOrders(legs[r]) :
              /\ state[o] = status[r]
              /\ filled[o] + LegAmount(legs[r], o) <= MaxClaim(o)
    <2> SUFFICES ASSUME NEW r \in Reservations, Active(r), NEW o \in LegOrders(legs[r])
                 PROVE  state[o] = status[r] /\ filled[o] + LegAmount(legs[r], o) <= MaxClaim(o)
      OBVIOUS
    <2>1. state[o] = status[r] /\ reserved[o] = LegAmount(legs[r], o)
      BY DEF EngineInv, Inv, LocksAgree, HoldsExactly
    <2>2. Admitted(o)
      BY <2>1 DEF Admitted, Active, ActiveStatuses
    <2> QED  BY <1>4, <2>1, <2>2 DEF EngineInv, Inv, NoOvercommit
  <1>7. LocksSound(Snapshot)
    BY <1>2, <1>6 DEF LocksSound, InFlight, Active, ActiveHolders,
       EngineInv, Inv, NoDoubleMatch, LocksAgree
  <1>8. \A o \in Orders : Admitted(o) => ValidBasic(o) /\ filled[o] <= MaxClaim(o)
    <2>1. \A o \in Orders : filled[o] \in Nat /\ reserved[o] \in Nat /\ MaxClaim(o) \in Nat
      BY <1>1, MaxClaimType DEF TypeOK
    <2> QED  BY <2>1 DEF EngineInv, Inv, NoOvercommit, AdmittedValid
  <1>9. OrdersSound(Snapshot)
    BY <1>2, <1>8 DEF OrdersSound, Admitted, EngineInv, Inv, Blank, Unrecorded, RestingAlive
  <1> QED  BY <1>3, <1>5, <1>7, <1>9 DEF RowsSound

LEMMA RestoreInv ==
    ASSUME RowsSound(stored), RestoreEngine
    PROVE  EngineInv'
  <1>1. /\ state' = stored.state /\ filled' = stored.filled /\ resting' = stored.resting
        /\ status' = stored.status /\ legs' = stored.legs /\ expiresAt' = stored.expiresAt
        /\ inBook' = {o \in Orders : stored.resting[o]}
        /\ bookFilled' = [o \in Orders |-> IF stored.resting[o] THEN stored.filled[o] ELSE 0]
        /\ \A o \in Orders : reserved'[o] =
              IF StoredHolders(o) = {} THEN 0
              ELSE LegAmount(stored.legs[CHOOSE r \in StoredHolders(o) : TRUE], o)
        /\ reserved' = [o \in Orders |-> reserved'[o]]
        /\ errored' = FALSE
    BY DEF RestoreEngine
  <1>2. /\ stored.state \in [Orders -> OrderStates \cup {"NoRecord"}]
        /\ stored.filled \in [Orders -> Nat] /\ stored.resting \in [Orders -> BOOLEAN]
        /\ stored.status \in [Reservations -> Statuses \cup {"NoReservation"}]
        /\ stored.legs \in [Reservations -> Seq(Leg)]
        /\ stored.expiresAt \in [Reservations -> Nat \cup {None}]
    BY DEF RowsSound, SnapshotType
  <1>3. \A r \in Reservations : LegOrders(stored.legs[r]) \subseteq Orders
    BY <1>2, LegOrdersType
  <1>4. \A o \in Orders : \A r \in StoredHolders(o) :
           reserved'[o] = LegAmount(stored.legs[r], o)
    <2> SUFFICES ASSUME NEW o \in Orders, NEW r \in StoredHolders(o)
                 PROVE  reserved'[o] = LegAmount(stored.legs[r], o)
      OBVIOUS
    <2> DEFINE q == CHOOSE x \in StoredHolders(o) : TRUE
    <2>1. q \in StoredHolders(o) /\ reserved'[o] = LegAmount(stored.legs[q], o)
      BY <1>1
    <2>2. q = r
      BY <2>1 DEF StoredHolders, RowsSound, LocksSound, InFlight
    <2> QED  BY <2>1, <2>2
  <1>5. \A o \in Orders : StoredHolders(o) = {} => reserved'[o] = 0
    BY <1>1
  <1>6. \A o \in Orders : reserved'[o] \in Nat
    <2> SUFFICES ASSUME NEW o \in Orders PROVE reserved'[o] \in Nat
      OBVIOUS
    <2>1. CASE StoredHolders(o) = {}
      BY <1>5, <2>1
    <2>2. ASSUME NEW r \in StoredHolders(o) PROVE reserved'[o] \in Nat
      BY <1>2, <1>4, <2>2, LegAmountType DEF StoredHolders
    <2> QED  BY <2>1, <2>2
  <1>7. TypeOK'
    BY <1>1, <1>2, <1>6 DEF TypeOK
  <1>8. \A o \in Orders, r \in Reservations :
           r \in StoredHolders(o) <=> Active(r)' /\ o \in LegOrders(legs'[r])
    BY <1>1 DEF StoredHolders, Active
  <1>9. LegsDistinct' /\ Blank' /\ OneMarket'
    BY <1>1 DEF RowsSound, LegsSound, OrdersSound, LegsDistinct, Blank, OneMarket
  <1>10. NoDoubleMatch'
    BY <1>1, <1>3 DEF RowsSound, LocksSound, InFlight, NoDoubleMatch, Active
  <1>11. LocksAgree'
    BY <1>1 DEF RowsSound, LocksSound, InFlight, LocksAgree, Active, ActiveHolders
  <1>12. HoldsExactly'
    <2>1. \A r \in Reservations : Active(r)' =>
             \A o \in LegOrders(legs'[r]) : reserved'[o] = LegAmount(legs'[r], o)
      BY <1>1, <1>3, <1>4, <1>8
    <2>2. ASSUME NEW o \in Orders, reserved'[o] # 0
          PROVE  \E r \in Reservations : Active(r)' /\ o \in LegOrders(legs'[r])
      <3>1. PICK r : r \in StoredHolders(o)
        BY <1>5, <2>2
      <3> QED  BY <1>8, <3>1 DEF StoredHolders
    <2>3. \A r \in Reservations, o \in Orders :
             LegOrders(legs[r])' = LegOrders(legs'[r])
             /\ LegAmount(legs[r], o)' = LegAmount(legs'[r], o)
      BY DEF LegOrders, LegAmount
    <2> QED  BY <2>1, <2>2, <2>3 DEF HoldsExactly
  <1>13. NoOvercommit'
    <2> SUFFICES ASSUME NEW o \in Orders, Admitted(o)'
                 PROVE  filled'[o] + reserved'[o] <= MaxClaim(o)
      BY DEF NoOvercommit, MaxClaim
    <2>1. filled'[o] \in Nat /\ filled'[o] <= MaxClaim(o)
      BY <1>1, <1>2 DEF Admitted, RowsSound, OrdersSound
    <2>2. CASE StoredHolders(o) = {}
      BY <1>5, <2>1, <2>2
    <2>3. ASSUME NEW r \in StoredHolders(o)
          PROVE  filled'[o] + reserved'[o] <= MaxClaim(o)
      BY <1>1, <1>4, <2>3 DEF StoredHolders, RowsSound, LocksSound, InFlight
    <2> QED  BY <2>2, <2>3
  <1>14. Unrecorded'
    BY <1>1 DEF RowsSound, LegsSound, OrdersSound, Unrecorded
  <1>15. AdmittedValid'
    BY <1>1 DEF RowsSound, OrdersSound, AdmittedValid, Admitted, ValidBasic, Collateral, MaxClaim
  <1>16. RestingAlive'
    BY <1>1, <1>2 DEF RowsSound, OrdersSound, RestingAlive, MaxClaim
  <1> QED
    BY <1>7, <1>9, <1>10, <1>11, <1>12, <1>13, <1>14, <1>15, <1>16 DEF EngineInv, Inv
-----------------------------------------------------------------------------
(***************************************************************************)
(* Falling behind is an order on snapshots, and no call of the engine      *)
(* takes anything back.                                                    *)
(***************************************************************************)
LEMMA ProgressValue ==
    ASSUME NEW s \in Statuses \cup {"NoReservation"}
    PROVE  /\ Progress(s) \in 0..3
           /\ Progress(s) = 0 <=> s = "NoReservation"
           /\ s \in TerminalStatuses => Progress(s) = 3
  BY DEF Progress, Statuses, TerminalStatuses, ActiveStatuses

LEMMA NotBehindItself ==
    ASSUME NEW rows \in SnapshotType
    PROVE  NotBehind(rows, rows)
  <1>1. /\ \A o \in Orders : rows.filled[o] \in Nat
        /\ \A r \in Reservations : rows.status[r] \in Statuses \cup {"NoReservation"}
    BY DEF SnapshotType
  <1>2. \A r \in Reservations : Progress(rows.status[r]) \in 0..3
    BY <1>1, ProgressValue
  <1> QED  BY <1>1, <1>2 DEF NotBehind

LEMMA NotBehindTransitive ==
    ASSUME NEW new \in SnapshotType, NEW mid \in SnapshotType, NEW old \in SnapshotType,
           NotBehind(new, mid), NotBehind(mid, old)
    PROVE  NotBehind(new, old)
  <1>1. \A o \in Orders : /\ new.filled[o] \in Nat /\ mid.filled[o] \in Nat
                          /\ old.filled[o] \in Nat
    BY DEF SnapshotType
  <1>2. \A r \in Reservations : /\ new.status[r] \in Statuses \cup {"NoReservation"}
                                /\ mid.status[r] \in Statuses \cup {"NoReservation"}
                                /\ old.status[r] \in Statuses \cup {"NoReservation"}
    BY DEF SnapshotType
  <1>3. ASSUME NEW o \in Orders
        PROVE  /\ new.filled[o] >= old.filled[o]
               /\ old.state[o] # "NoRecord" => new.state[o] # "NoRecord"
               /\ old.state[o] \in {"Filled", "Cancelled", "Rejected"} =>
                     new.state[o] = old.state[o]
    BY <1>1 DEF NotBehind
  <1>4. ASSUME NEW r \in Reservations
        PROVE  /\ Progress(new.status[r]) >= Progress(old.status[r])
               /\ old.status[r] \in TerminalStatuses => new.status[r] = old.status[r]
               /\ old.status[r] # "NoReservation" => new.legs[r] = old.legs[r]
    <2>1. /\ Progress(new.status[r]) \in 0..3 /\ Progress(mid.status[r]) \in 0..3
          /\ Progress(old.status[r]) \in 0..3
          /\ Progress(mid.status[r]) = 0 <=> mid.status[r] = "NoReservation"
          /\ Progress(old.status[r]) = 0 <=> old.status[r] = "NoReservation"
      BY <1>2, ProgressValue
    <2>2. /\ Progress(new.status[r]) >= Progress(mid.status[r])
          /\ Progress(mid.status[r]) >= Progress(old.status[r])
          /\ old.status[r] \in TerminalStatuses => mid.status[r] = old.status[r]
          /\ mid.status[r] \in TerminalStatuses => new.status[r] = mid.status[r]
          /\ old.status[r] # "NoReservation" => mid.legs[r] = old.legs[r]
          /\ mid.status[r] # "NoReservation" => new.legs[r] = mid.legs[r]
      BY DEF NotBehind
    <2> QED  BY <2>1, <2>2
  <1> QED  BY <1>3, <1>4 DEF NotBehind

LEMMA CallAdvances ==
    ASSUME EngineInv, EngineCall
    PROVE  NotBehind(Snapshot', Snapshot)
  <1>1. EngineInv' /\ TypeOK /\ TypeOK'
    BY EngineInvStep DEF EngineInv, Inv
  <1>2. /\ \A o \in Orders : filled[o] \in Nat /\ filled'[o] \in Nat
        /\ \A r \in Reservations : /\ status[r] \in Statuses \cup {"NoReservation"}
                                    /\ status'[r] \in Statuses \cup {"NoReservation"}
    BY <1>1 DEF TypeOK
  <1>3. SUFFICES
          /\ \A o \in Orders :
                /\ filled'[o] >= filled[o]
                /\ state[o] # "NoRecord" => state'[o] # "NoRecord"
                /\ state[o] \in {"Filled", "Cancelled", "Rejected"} => state'[o] = state[o]
          /\ \A r \in Reservations :
                /\ Progress(status'[r]) >= Progress(status[r])
                /\ status[r] \in TerminalStatuses => status'[r] = status[r]
                /\ status[r] # "NoReservation" => legs'[r] = legs[r]
    BY DEF NotBehind, Snapshot
  <1>4. CASE MovesOn
    <2>1. \A r \in Reservations : Progress(status'[r]) >= Progress(status[r])
      BY <1>2, <1>4 DEF MovesOn, Progress, ActiveStatuses, TerminalStatuses, Statuses
    <2>2. \A r \in Reservations : status[r] \in TerminalStatuses => status'[r] = status[r]
      BY <1>4 DEF MovesOn, ActiveStatuses, TerminalStatuses, Statuses
    <2> QED  BY <1>4, <2>1, <2>2 DEF MovesOn
  <1>5. ASSUME NEW s \in Orders, Submits(s)
        PROVE  /\ \A o \in Orders :
                     /\ filled'[o] >= filled[o]
                     /\ state[o] # "NoRecord" => state'[o] # "NoRecord"
                     /\ state[o] \in {"Filled", "Cancelled", "Rejected"} =>
                           state'[o] = state[o]
               /\ \A r \in Reservations :
                     /\ Progress(status'[r]) >= Progress(status[r])
                     /\ status[r] \in TerminalStatuses => status'[r] = status[r]
                     /\ status[r] # "NoReservation" => legs'[r] = legs[r]
    <2>1. filled[s] = 0
      BY <1>5 DEF EngineInv, Blank, Submits
    <2>2. ASSUME NEW o \in Orders
          PROVE  /\ filled'[o] >= filled[o]
                 /\ state[o] # "NoRecord" => state'[o] # "NoRecord"
                 /\ state[o] \in {"Filled", "Cancelled", "Rejected"} => state'[o] = state[o]
      BY <1>2, <1>5, <2>1 DEF Submits, AvailableStates
    <2>3. \A r \in Reservations : status[r] # "NoReservation" =>
             status'[r] = status[r] /\ legs'[r] = legs[r]
      BY <1>5 DEF Submits
    <2>4. \A r \in Reservations : Progress(status'[r]) \in 0..3 /\ Progress(status[r]) \in 0..3
      BY <1>2, ProgressValue
    <2>5. \A r \in Reservations : Progress(status'[r]) >= Progress(status[r])
      BY <1>2, <2>3, <2>4, ProgressValue
    <2> QED  BY <2>2, <2>3, <2>5 DEF TerminalStatuses, Statuses
  <1> QED  BY <1>4, <1>5, CallEffect DEF EngineInv
-----------------------------------------------------------------------------
(***************************************************************************)
(* A write by an engine that is not behind the rows replaces them: the     *)
(* rows it leaves alone are of orders and reservations nobody knows.       *)
(***************************************************************************)
LEMMA WriteIsWhole ==
    ASSUME EngineInv', RowsSound(stored), NotBehind(Snapshot', stored),
           NEW recorded, WriteUpdate(recorded)
    PROVE  stored' = Snapshot'
  <1> DEFINE known == {r \in Reservations : status'[r] # "NoReservation"}
             knownOrders == {o \in Orders : state'[o] # "NoRecord"}
             Rows(from, mine, there) == [x \in Orders |-> IF x \in there THEN mine[x] ELSE from[x]]
  <1>1. stored' = [state     |-> Rows(stored.state, state', knownOrders),
                   filled    |-> Rows(stored.filled, filled', knownOrders),
                   resting   |-> Rows(stored.resting, resting', knownOrders),
                   status    |-> Rows(stored.status, status', known),
                   legs      |-> Rows(stored.legs, legs', known),
                   expiresAt |-> Rows(stored.expiresAt, expiresAt', known)]
    BY DEF WriteUpdate
  <1>2. TypeOK' /\ Blank' /\ Unrecorded'
    BY DEF EngineInv, Inv
  <1>3. /\ state' = [o \in Orders |-> state'[o]] /\ filled' = [o \in Orders |-> filled'[o]]
        /\ resting' = [o \in Orders |-> resting'[o]]
        /\ status' = [r \in Orders |-> status'[r]] /\ legs' = [r \in Orders |-> legs'[r]]
        /\ expiresAt' = [r \in Orders |-> expiresAt'[r]]
        /\ \A o \in Orders : resting'[o] \in BOOLEAN
    BY <1>2 DEF TypeOK
  <1>4. \A o \in Orders : stored.resting[o] \in BOOLEAN
    BY DEF RowsSound, SnapshotType
  <1>5. ASSUME NEW o \in Orders, state'[o] = "NoRecord"
        PROVE  /\ stored.state[o] = state'[o] /\ stored.filled[o] = filled'[o]
               /\ stored.resting[o] = resting'[o]
    <2>1. stored.state[o] = "NoRecord"
      BY <1>5 DEF NotBehind, Snapshot
    <2>2. stored.filled[o] = 0 /\ ~stored.resting[o]
      BY <2>1 DEF RowsSound, OrdersSound
    <2>3. filled'[o] = 0 /\ ~resting'[o]
      BY <1>2, <1>5 DEF Blank, Unrecorded
    <2> QED  BY <1>3, <1>4, <1>5, <2>1, <2>2, <2>3
  <1>6. ASSUME NEW r \in Reservations, status'[r] = "NoReservation"
        PROVE  /\ stored.status[r] = status'[r] /\ stored.legs[r] = legs'[r]
               /\ stored.expiresAt[r] = expiresAt'[r]
    <2>1. stored.status[r] \in Statuses \cup {"NoReservation"}
      BY DEF RowsSound, SnapshotType
    <2>2. Progress("NoReservation") >= Progress(stored.status[r])
      BY <1>6 DEF NotBehind, Snapshot
    <2>3. stored.status[r] = "NoReservation"
      BY <2>1, <2>2 DEF Progress, Statuses
    <2>4. stored.legs[r] = <<>> /\ stored.expiresAt[r] = None
      BY <2>3 DEF RowsSound, LegsSound
    <2>5. legs'[r] = <<>> /\ expiresAt'[r] = None
      BY <1>2, <1>6 DEF Blank
    <2> QED  BY <1>6, <2>3, <2>4, <2>5
  <1>7. /\ Rows(stored.state, state', knownOrders) = state'
        /\ Rows(stored.filled, filled', knownOrders) = filled'
        /\ Rows(stored.resting, resting', knownOrders) = resting'
    BY <1>3, <1>5
  <1>8. /\ Rows(stored.status, status', known) = status'
        /\ Rows(stored.legs, legs', known) = legs'
        /\ Rows(stored.expiresAt, expiresAt', known) = expiresAt'
    BY <1>3, <1>6
  <1> HIDE DEF Rows, known, knownOrders
  <1> QED  BY <1>1, <1>7, <1>8 DEF Snapshot
\* So is a write after any call of the engine.
LEMMA CallWritesWhole ==
    ASSUME StoreInv, EngineCall, NEW recorded, WriteUpdate(recorded)
    PROVE  stored' = Snapshot'
  <1>1. /\ EngineInv /\ RowsSound(stored) /\ NotBehind(Snapshot, stored)
    BY DEF StoreInv, AnsweredIsDurable
  <1>2. EngineInv' /\ NotBehind(Snapshot', Snapshot)
    BY <1>1, EngineInvStep, CallAdvances
  <1>3. Snapshot \in SnapshotType /\ Snapshot' \in SnapshotType /\ stored \in SnapshotType
    <2>1. (Snapshot \in SnapshotType)'
      BY <1>2, SnapshotSound, PTL DEF RowsSound
    <2> QED  BY <1>1, <2>1, SnapshotSound DEF RowsSound, SnapshotType, Leg
  <1>4. NotBehind(Snapshot', stored)
    BY <1>1, <1>2, <1>3, NotBehindTransitive
  <1> QED  BY <1>1, <1>2, <1>4, WriteIsWhole
-----------------------------------------------------------------------------
\* An answer writes the engine whole or leaves the rows alone, and only a
\* whole write is answered with success.
LEMMA AnswerWrites ==
    ASSUME NEW answer, NEW recorded \in HashWrites,
           hashes \in [Reservations -> Nat \cup {None}], eventCount \in Nat, nextEvent \in Nat,
           RespondReservation(answer, recorded)
    PROVE  /\ \/ WriteUpdate(recorded) /\ answered' \in {answered, Snapshot'}
              \/ UNCHANGED <<stored, answered>>
           /\ hashes' \in [Reservations -> Nat \cup {None}]
           /\ eventCount' \in Nat /\ nextEvent' \in Nat
           /\ \A r \in Reservations \ DOMAIN recorded : hashes'[r] = hashes[r]
  <1> DEFINE Right == /\ hashes' \in [Reservations -> Nat \cup {None}]
                      /\ \A r \in Reservations \ DOMAIN recorded : hashes'[r] = hashes[r]
  <1>1. hashes' = RowHashes(recorded) => Right
    BY DEF RowHashes, HashWrites
  <1>2. UNCHANGED hashes => Right
    OBVIOUS
  <1> HIDE DEF Right
  <1>3. WriteUpdate(recorded) => Right /\ eventCount' \in Nat
    BY <1>1 DEF WriteUpdate
  <1>4. CASE Acknowledge(recorded)
    BY <1>3, <1>4 DEF Acknowledge, Right
  <1>5. CASE FailToPersist(recorded)
    BY <1>1, <1>3, <1>5 DEF FailToPersist, Right
  <1>6. CASE UNCHANGED serviceVars
    BY <1>2, <1>6 DEF serviceVars, Right
  <1>7. CASE WriteUpdate(recorded) /\ nextEvent' = eventCount' /\ UNCHANGED answered
    BY <1>3, <1>7 DEF Right
  <1> QED  BY <1>4, <1>5, <1>6, <1>7 DEF RespondReservation, Respond

LEMMA RowsNext == RowsSound(stored)' <=> RowsSound(stored')
  BY DEF RowsSound, LegsSound, LocksSound, OrdersSound, InFlight, SnapshotType,
     MaxClaim, Collateral, ValidBasic, Leg, LegOrders, LegAmount, Distinct

LEMMA StoreInvInit == ServiceInit => StoreInv
  <1> SUFFICES ASSUME ServiceInit PROVE StoreInv
    OBVIOUS
  <1>1. EngineInv /\ RowsSound(Snapshot)
    BY EngineInvInit, SnapshotSound DEF ServiceInit
  <1>2. Snapshot \in SnapshotType /\ NotBehind(Snapshot, Snapshot)
    BY <1>1, NotBehindItself DEF RowsSound
  <1> QED  BY <1>1, <1>2 DEF ServiceInit, StoreInv, AnsweredIsDurable

LEMMA StoreInvCall ==
    ASSUME StoreInv, ServiceCall
    PROVE  StoreInv'
  <1>1. /\ EngineInv /\ RowsSound(stored) /\ hashes \in [Reservations -> Nat \cup {None}]
        /\ eventCount \in Nat /\ nextEvent \in Nat /\ answered \in SnapshotType
        /\ NotBehind(stored, answered) /\ NotBehind(Snapshot, stored)
    BY DEF StoreInv, AnsweredIsDurable
  <1>2. EngineInv' /\ NotBehind(Snapshot', Snapshot)
    BY <1>1, EngineInvStep, CallAdvances DEF ServiceCall
  <1>3. RowsSound(Snapshot) /\ RowsSound(Snapshot')
    <2>1. RowsSound(Snapshot)' <=> RowsSound(Snapshot')
      BY DEF RowsSound, LegsSound, LocksSound, OrdersSound, InFlight, SnapshotType, Snapshot,
         MaxClaim, Collateral, ValidBasic, Leg, LegOrders, LegAmount, Distinct
    <2>2. RowsSound(Snapshot)'
      BY <1>2, SnapshotSound, PTL
    <2> QED  BY <1>1, <2>1, <2>2, SnapshotSound
  <1>4. /\ Snapshot \in SnapshotType /\ Snapshot' \in SnapshotType
        /\ stored \in SnapshotType
    BY <1>1, <1>3 DEF RowsSound
  <1>5. NotBehind(Snapshot', stored) /\ NotBehind(Snapshot', Snapshot')
    BY <1>1, <1>2, <1>4, NotBehindTransitive, NotBehindItself
  <1>6. NotBehind(Snapshot', answered)
    BY <1>1, <1>4, <1>5, NotBehindTransitive
  <1>7. ASSUME \/ stored' = Snapshot' /\ answered' \in {answered, Snapshot'}
               \/ stored' = stored /\ answered' = answered,
               hashes' \in [Reservations -> Nat \cup {None}], eventCount' \in Nat, nextEvent' \in Nat
        PROVE  StoreInv'
    <2>1. RowsSound(stored)'
      BY <1>1, <1>3, <1>7, RowsNext
    <2>2. answered' \in SnapshotType
      BY <1>1, <1>4, <1>7
    <2>3. NotBehind(Snapshot', stored') /\ NotBehind(stored', answered')
      BY <1>1, <1>5, <1>6, <1>7
    <2>4. AnsweredIsDurable'
      BY <2>3 DEF AnsweredIsDurable, NotBehind, Progress, Snapshot
    <2> QED  BY <1>2, <1>7, <2>1, <2>2, <2>4 DEF StoreInv, SnapshotType, Leg
  <1>8. ASSUME NEW answer \in Answers, NEW recorded \in HashWrites,
               RespondReservation(answer, recorded)
        PROVE  StoreInv'
    <2>1. WriteUpdate(recorded) => stored' = Snapshot'
      BY <1>1, <1>2, <1>5, WriteIsWhole
    <2>2. /\ \/ stored' = Snapshot' /\ answered' \in {answered, Snapshot'}
             \/ stored' = stored /\ answered' = answered
          /\ hashes' \in [Reservations -> Nat \cup {None}] /\ eventCount' \in Nat /\ nextEvent' \in Nat
      BY <1>1, <1>8, <2>1, AnswerWrites
    <2> QED  BY <1>7, <2>2
  <1>9. CASE UNCHANGED serviceVars
    <2>1. /\ stored' = stored /\ answered' = answered /\ hashes' = hashes
          /\ eventCount' = eventCount /\ nextEvent' = nextEvent
      BY <1>9 DEF serviceVars
    <2> QED  BY <1>1, <1>7, <2>1
  <1> QED  BY <1>8, <1>9 DEF ServiceCall

\* The rows after a call are those before it or the engine's, and a row whose
\* reservation is not Reserved keeps its hash.
LEMMA CallStores ==
    ASSUME StoreInv, ServiceCall
    PROVE  /\ stored' \in {stored, Snapshot'}
           /\ \A r \in Reservations : status[r] # "Reserved" => hashes'[r] = hashes[r]
           /\ NotBehind(stored', stored)
  <1>1. /\ EngineInv /\ RowsSound(stored) /\ hashes \in [Reservations -> Nat \cup {None}]
        /\ eventCount \in Nat /\ nextEvent \in Nat
        /\ NotBehind(Snapshot, stored)
    BY DEF StoreInv, AnsweredIsDurable
  <1>2. EngineInv' /\ NotBehind(Snapshot', Snapshot)
    BY <1>1, EngineInvStep, CallAdvances DEF ServiceCall
  <1>3. /\ Snapshot \in SnapshotType /\ stored \in SnapshotType
        /\ Snapshot' \in SnapshotType
    <2>1. (Snapshot \in SnapshotType)'
      BY <1>2, SnapshotSound, PTL DEF RowsSound
    <2>2. Snapshot \in SnapshotType /\ stored \in SnapshotType
      BY <1>1, SnapshotSound DEF RowsSound
    <2> QED  BY <2>1, <2>2 DEF SnapshotType, Leg
  <1>4. NotBehind(Snapshot', stored) /\ NotBehind(stored, stored)
    BY <1>1, <1>2, <1>3, NotBehindTransitive, NotBehindItself
  <1>5. CASE UNCHANGED serviceVars
    <2>1. stored' = stored /\ hashes' = hashes
      BY <1>5 DEF serviceVars
    <2> QED  BY <1>4, <2>1
  <1>6. ASSUME NEW answer \in Answers, NEW recorded \in HashWrites,
               \A r \in DOMAIN recorded : status[r] = "Reserved",
               RespondReservation(answer, recorded)
        PROVE  /\ stored' \in {stored, Snapshot'}
               /\ \A r \in Reservations : status[r] # "Reserved" => hashes'[r] = hashes[r]
               /\ NotBehind(stored', stored)
    <2>1. WriteUpdate(recorded) => stored' = Snapshot'
      BY <1>1, <1>2, <1>4, WriteIsWhole
    <2>2. stored' \in {stored, Snapshot'}
      BY <1>1, <1>6, <2>1, AnswerWrites
    <2>3. \A r \in Reservations \ DOMAIN recorded : hashes'[r] = hashes[r]
      BY <1>1, <1>6, AnswerWrites
    <2> QED  BY <1>4, <1>6, <2>2, <2>3
  <1> QED  BY <1>5, <1>6 DEF ServiceCall

\* What a call of the service writes beside the rows: nothing, or the hash of
\* one reservation.
LEMMA HashWriteTypes ==
    /\ NoHash \in HashWrites /\ DOMAIN NoHash = {}
    /\ \A S \in SUBSET Reservations, hash \in Nat : [x \in S |-> hash] \in HashWrites
    /\ \A hash : [x \in {} |-> hash] \in HashWrites
  BY DEF HashWrites, NoHash

LEMMA UnhashedCall ==
    ASSUME EngineCall, NEW answer \in Answers, RespondReservation(answer, NoHash)
    PROVE  ServiceCall
  BY HashWriteTypes DEF ServiceCall

LEMMA MarkCall ==
    ASSUME NEW r \in Reservations, NEW now \in Times, NEW hash \in Nat \cup {None},
           NEW answer \in Answers, MarkReservationRequest(r, now, hash, answer)
    PROVE  ServiceCall /\ OtherCall
  <1> DEFINE row == IF hash = None THEN {} ELSE {r} \cap StoredReservations
             recorded == [x \in row |-> hash]
  <1>1. now \in Nat
    BY TimesAssumption
  <1>2. OtherCall /\ EngineCall
    BY <1>1 DEF MarkReservationRequest, OtherCall, EngineCall
  <1>3. recorded \in HashWrites /\ DOMAIN recorded \subseteq {r}
    <2>1. row \subseteq {r} /\ (hash \in Nat \/ row = {})
      OBVIOUS
    <2> HIDE DEF row
    <2>2. CASE hash \in Nat
      <3>1. row \in SUBSET Reservations
        BY <2>1
      <3>2. recorded \in HashWrites
        BY <2>2, <3>1, HashWriteTypes
      <3> QED  BY <2>1, <3>2
    <2>3. CASE row = {}
      BY <2>3, HashWriteTypes
    <2> QED  BY <2>1, <2>2, <2>3
  <1>4. CASE Respond(answer, NoHash)
    BY <1>2, <1>4, UnhashedCall DEF RespondReservation
  <1>5. CASE MarkReservationSubmitted(r, now) /\ RespondReservation(answer, recorded)
    <2>1. status[r] = "Reserved"
      BY <1>5 DEF MarkReservationSubmitted
    <2> HIDE DEF recorded
    <2> QED  BY <1>2, <1>3, <1>5, <2>1 DEF ServiceCall
  <1>6. CASE UNCHANGED serviceVars
    BY <1>2, <1>6 DEF ServiceCall
  <1> QED  BY <1>2, <1>4, <1>5, <1>6 DEF MarkReservationRequest

\* The requests of the settlement protocol are such calls.
LEMMA SettlementCalls ==
    ASSUME NEW r \in Reservations, NEW answer \in Answers, SettlementRequestFor(r, answer)
    PROVE  ServiceCall /\ OtherCall
  <1>1. ASSUME OtherCall, RespondReservation(answer, NoHash)
        PROVE  ServiceCall
    BY <1>1, UnhashedCall DEF EngineCall
  <1>2. ASSUME NEW now \in Times, NEW hash \in {None, 1},
               MarkReservationRequest(r, now, hash, answer)
        PROVE  ServiceCall /\ OtherCall
    BY <1>2, MarkCall
  <1>3. ASSUME NEW now \in Times, ExpireReservationRequest(r, now, answer)
        PROVE  ServiceCall /\ OtherCall
    <2>1. now \in Nat
      BY TimesAssumption
    <2>2. OtherCall
      BY <1>3, <2>1 DEF ExpireReservationRequest, OtherCall
    <2> QED  BY <1>1, <1>3, <2>2 DEF ExpireReservationRequest
  <1>4. CASE ReleaseReservationRequest(r, answer)
    BY <1>1, <1>4 DEF ReleaseReservationRequest, OtherCall
  <1>5. CASE CommitReservationRequest(r, answer)
    BY <1>1, <1>5 DEF CommitReservationRequest, OtherCall
  <1> QED  BY <1>2, <1>3, <1>4, <1>5 DEF SettlementRequestFor

LEMMA StoreInvRecover ==
    ASSUME StoreInv, Recover
    PROVE  StoreInv'
  <1>1. /\ RowsSound(stored) /\ hashes \in [Reservations -> Nat \cup {None}]
        /\ eventCount \in Nat /\ answered \in SnapshotType
        /\ NotBehind(stored, answered)
    BY DEF StoreInv, AnsweredIsDurable
  <1>2. EngineInv'
    BY <1>1, RestoreInv DEF Recover
  <1>3. stored' = stored /\ answered' = answered /\ hashes' = hashes /\ eventCount' = eventCount
        /\ nextEvent' = eventCount
    BY DEF Recover, NextSequence
  <1>4. /\ Snapshot'.state = stored.state /\ Snapshot'.filled = stored.filled
        /\ Snapshot'.status = stored.status /\ Snapshot'.legs = stored.legs
    BY DEF Recover, RestoreEngine, Snapshot
  <1>5. NotBehind(stored, stored)
    BY <1>1, NotBehindItself DEF RowsSound
  <1>6. AnsweredIsDurable'
    BY <1>1, <1>3, <1>4, <1>5 DEF AnsweredIsDurable, NotBehind, Progress
  <1>7. RowsSound(stored)'
    BY <1>1, <1>3, RowsNext
  <1> QED  BY <1>1, <1>2, <1>3, <1>6, <1>7 DEF StoreInv, SnapshotType, Leg

LEMMA StoreInvStutter ==
    ASSUME StoreInv, UNCHANGED allVars
    PROVE  StoreInv'
  <1>1. UNCHANGED vars /\ UNCHANGED serviceVars
    BY DEF allVars
  <1>2. Inv'
    BY <1>1, NextInv DEF StoreInv, EngineInv
  <1>3. /\ UNCHANGED <<state, filled, resting, status, legs, expiresAt>>
        /\ UNCHANGED <<stored, hashes, eventCount, nextEvent, answered>>
    BY <1>1 DEF vars, records, reservations, serviceVars
  <1>4. Blank' /\ OneMarket'
    BY <1>3 DEF StoreInv, EngineInv, Blank, OneMarket
  <1>5. RowsSound(stored)'
    BY <1>3, RowsNext DEF StoreInv
  <1>6. AnsweredIsDurable'
    BY <1>3 DEF StoreInv, AnsweredIsDurable, NotBehind, Snapshot, Progress
  <1> QED  BY <1>2, <1>3, <1>4, <1>5, <1>6 DEF StoreInv, EngineInv, SnapshotType, Leg
-----------------------------------------------------------------------------
(***************************************************************************)
(* What the invariant says of the rows, as the engine restored from them   *)
(* would say it.                                                           *)
(***************************************************************************)
LEMMA RowsConsistent ==
    ASSUME RowsSound(stored)
    PROVE  StoreConsistent
  <1> DEFINE locked(o) == IF StoredHolders(o) = {} THEN 0
                          ELSE LegAmount(stored.legs[CHOOSE r \in StoredHolders(o) : TRUE], o)
  <1>1. /\ stored.filled \in [Orders -> Nat]
        /\ stored.legs \in [Reservations -> Seq(Leg)]
    BY DEF RowsSound, SnapshotType
  <1>2. \A r \in Reservations : LegOrders(stored.legs[r]) \subseteq Orders
    BY <1>1, LegOrdersType
  <1>3. \A o \in Orders : stored.resting[o] =>
           /\ stored.state[o] \in AvailableStates \cup LockedStates
           /\ ValidBasic(o) /\ RemainingClaim(o, stored.filled[o]) > 0
    <2>1. \A o \in Orders : MaxClaim(o) \in Nat /\ stored.filled[o] \in Nat
      BY <1>1, MaxClaimType
    <2> QED
      BY <2>1 DEF RowsSound, OrdersSound, RemainingClaim, AvailableStates, LockedStates
  <1>4. ASSUME NEW r \in Reservations, stored.status[r] # "NoReservation",
               NEW i \in DOMAIN stored.legs[r]
        PROVE  LET leg == stored.legs[r][i]
               IN  /\ stored.state[leg.order] # "NoRecord"
                   /\ InFlight(stored, r) =>
                         /\ stored.state[leg.order] \in LockedStates
                         /\ ValidBasic(leg.order)
                         /\ leg.amount <= RemainingClaim(leg.order, stored.filled[leg.order])
    <2> DEFINE o == stored.legs[r][i].order
    <2>1. /\ o \in Orders /\ o \in LegOrders(stored.legs[r])
          /\ LegAmount(stored.legs[r], o) = stored.legs[r][i].amount
          /\ stored.legs[r][i].amount \in Nat
      BY <1>1, LegType, LegAmountOfEach DEF RowsSound, LegsSound
    <2> HIDE DEF o
    <2>2. stored.state[o] # "NoRecord"
      BY <1>4, <2>1 DEF RowsSound, LegsSound
    <2>3. ASSUME InFlight(stored, r)
          PROVE  /\ stored.state[o] \in LockedStates /\ ValidBasic(o)
                 /\ stored.legs[r][i].amount <= RemainingClaim(o, stored.filled[o])
      <3>1. /\ stored.state[o] \in LockedStates
            /\ stored.filled[o] + stored.legs[r][i].amount <= MaxClaim(o)
        BY <2>1, <2>3 DEF RowsSound, LocksSound, InFlight, ActiveStatuses, LockedStates
      <3>2. ValidBasic(o)
        BY <2>1, <3>1 DEF RowsSound, OrdersSound, LockedStates
      <3>3. MaxClaim(o) \in Nat /\ stored.filled[o] \in Nat
        BY <1>1, <2>1, MaxClaimType
      <3> QED  BY <2>1, <3>1, <3>2, <3>3 DEF RemainingClaim
    <2> QED  BY <2>2, <2>3 DEF o
  <1>5. \A r, s \in Reservations :
           InFlight(stored, r) /\ InFlight(stored, s) /\ r # s =>
              LegOrders(stored.legs[r]) \cap LegOrders(stored.legs[s]) = {}
    BY <1>2 DEF RowsSound, LocksSound
  <1>6. \A o \in Orders : stored.state[o] \notin {"NoRecord", "Rejected"} =>
           stored.filled[o] + locked(o) <= MaxClaim(o)
    <2> SUFFICES ASSUME NEW o \in Orders, stored.state[o] \notin {"NoRecord", "Rejected"}
                 PROVE  stored.filled[o] + locked(o) <= MaxClaim(o)
      OBVIOUS
    <2>1. stored.filled[o] \in Nat /\ stored.filled[o] <= MaxClaim(o)
      BY <1>1 DEF RowsSound, OrdersSound
    <2>2. CASE StoredHolders(o) = {}
      BY <2>1, <2>2
    <2>3. CASE StoredHolders(o) # {}
      <3> DEFINE r == CHOOSE x \in StoredHolders(o) : TRUE
      <3>1. r \in StoredHolders(o) /\ locked(o) = LegAmount(stored.legs[r], o)
        BY <2>3
      <3> QED  BY <3>1 DEF StoredHolders, RowsSound, LocksSound, InFlight
    <2> QED  BY <2>2, <2>3
  <1>7. /\ \A r \in Reservations : InFlight(stored, r) =>
              \A o \in LegOrders(stored.legs[r]) : stored.state[o] = stored.status[r]
        /\ \A o \in Orders : stored.state[o] = "Reserved" =>
              {r \in Reservations : InFlight(stored, r) /\ o \in LegOrders(stored.legs[r])} # {}
    BY DEF RowsSound, LocksSound
  <1> HIDE DEF locked
  \* The operators of the instance that do not depend on the rows are ours.
  <1>8. /\ Stored!Reservations = Reservations /\ Stored!ActiveStatuses = ActiveStatuses
        /\ Stored!AvailableStates = AvailableStates /\ Stored!LockedStates = LockedStates
        /\ \A o : Stored!ValidBasic(o) <=> ValidBasic(o)
        /\ \A o, alreadyFilled :
              Stored!RemainingClaim(o, alreadyFilled) = RemainingClaim(o, alreadyFilled)
        /\ \A ls : Stored!LegOrders(ls) = LegOrders(ls)
        /\ \A r : Stored!Active(r) <=> InFlight(stored, r)
    BY DEF Stored!Reservations, Stored!ActiveStatuses, Stored!AvailableStates,
       Stored!LockedStates, Stored!ValidBasic, Stored!Collateral, Stored!MaxClaim,
       Stored!RemainingClaim, Stored!LegOrders, Stored!Active, ActiveStatuses,
       AvailableStates, LockedStates, ValidBasic, Collateral, MaxClaim, RemainingClaim,
       LegOrders, InFlight
  <1>9. Stored!SnapshotValid
    BY <1>3, <1>4, <1>8 DEF Stored!SnapshotValid
  <1>10. Stored!NoDoubleMatch
    BY <1>5, <1>8 DEF Stored!NoDoubleMatch
  <1>11. Stored!LocksAgree
    BY <1>7, <1>8 DEF Stored!LocksAgree, Stored!ActiveHolders
  <1>12. Stored!NoOvercommit
    BY <1>6 DEF Stored!NoOvercommit, Stored!Admitted, Stored!MaxClaim, MaxClaim, locked
  <1> QED  BY <1>9, <1>10, <1>11, <1>12 DEF StoreConsistent

\* So the store is consistent, and what was answered is durable.
LEMMA StoreInvMeans ==
    ASSUME StoreInv
    PROVE  AnsweredIsDurable /\ StoreConsistent /\ ServiceTypeOK
  <1>1. TypeOK /\ RowsSound(stored)
    BY DEF StoreInv, EngineInv, Inv
  <1> QED  BY <1>1, RowsConsistent DEF StoreInv, ServiceTypeOK, RowsSound

-----------------------------------------------------------------------------
(***************************************************************************)
(* The market actors and the demo market maker: what the event log goes    *)
(* through.                                                                *)
(***************************************************************************)
\* The event log and the number the service will use next.
LogInv ==
    /\ eventCount \in Nat
    /\ EventLogAligned

\* The market maker is between requests, or has what its next step needs.
DemoInv ==
    /\ stage \in Stages
    /\ nextSalt \in 1..MaxSalt + 1
    /\ trigger \in Trigger \cup {None}
    /\ counter \in CounterOrders \cup {None}
    /\ stage # "Idle" => trigger \in Trigger
    /\ stage = "Countering" =>
          /\ nextSalt <= MaxSalt
          /\ Terms[trigger.order].maker # DemoMaker
          /\ \E command \in Commands : /\ trigger.filled = command.context.filled
                                      /\ Accepts(trigger.order, command.context)
    /\ stage \in {"Marking", "Committing"} => counter \in CounterOrders

\* Whatever has a record or a reservation has a route to the actor of its
\* market.
RoutesInv ==
    /\ RoutesTypeOK
    /\ \A o \in Orders : state[o] # "NoRecord" =>
          orderRoute[o] = Terms[o].market /\ orderRoute[o] \in actors
    /\ \A r \in Reservations : status[r] # "NoReservation" =>
          reservationRoute[r] = Terms[r].market /\ reservationRoute[r] \in actors

\* With auto_commit, the only reservation of a counter order in flight is the
\* one the market maker is working on, and the store never has it.
WholeInv ==
    AutoCommit =>
        \A c \in CounterOrders :
            /\ Active(c) => stage \in {"Marking", "Committing"} /\ counter = c
            /\ c \notin inBook /\ ~resting[c]
            /\ stored.status[c] \notin ActiveStatuses /\ ~stored.resting[c]

ApiInv == StoreInv /\ DemoInv /\ RoutesInv /\ WholeInv

\* What any step does to the store and its log.
StoreStep ==
    \/ UNCHANGED serviceVars
    \/ \E answer \in Answers, recorded \in HashWrites : Respond(answer, recorded)
    \/ \E answer \in Answers, recorded \in HashWrites : RespondReservation(answer, recorded)
    \/ Recover
-----------------------------------------------------------------------------
\* Every call of the settlement protocol ends in an answer, or leaves the
\* store alone.
LEMMA SettlementStores ==
    ASSUME NEW r \in Reservations, NEW answer \in Answers, SettlementRequestFor(r, answer)
    PROVE  StoreStep
  BY SettlementCalls DEF ServiceCall, StoreStep

LEMMA ApiStores == ApiNext => StoreStep
  <1> SUFFICES ASSUME ApiNext PROVE StoreStep
    OBVIOUS
  <1>1. NoHash \in HashWrites
    BY HashWriteTypes
  <1>2. CASE \E o \in ClientOrders, command \in Commands : ClientSubmit(o, command)
    BY <1>1, <1>2 DEF ClientSubmit, StoreStep
  <1>3. CASE SubmitCounter
    <2>1. PICK c : CounterAccepted(c) \/ CounterRefused(c)
      BY <1>3 DEF SubmitCounter
    <2>2. CASE CounterAccepted(c)
      BY <1>1, <2>2 DEF CounterAccepted, StoreStep
    <2>3. CASE CounterRefused(c)
      BY <2>3 DEF CounterRefused, routedVars, allVars, StoreStep
    <2> QED  BY <2>1, <2>2, <2>3
  <1>4. CASE MarkCounter
    BY <1>4 DEF MarkCounter, StoreStep
  <1>5. CASE CommitCounter
    BY <1>1, <1>5 DEF CommitCounter, StoreStep
  <1>6. CASE OtherClientRequest
    <2>1. CASE \E o \in Orders : RoutedCancelRequest(o)
      BY <1>1, <2>1 DEF RoutedCancelRequest, CancelOrderRequest, StoreStep
    <2>2. CASE \E r \in Reservations, answer \in Answers : RoutedSettlementRequest(r, answer)
      BY <2>2, SettlementStores DEF RoutedSettlementRequest
    <2> QED  BY <1>6, <2>1, <2>2 DEF OtherClientRequest
  <1>7. CASE RestartApi
    BY <1>7 DEF RestartApi, RecoverActors, StoreStep
  <1> QED  BY <1>2, <1>3, <1>4, <1>5, <1>6, <1>7 DEF ApiNext, DemoStep
-----------------------------------------------------------------------------
LEMMA LogAcknowledge ==
    ASSUME LogInv, NEW recorded, Acknowledge(recorded)
    PROVE  LogInv'
  BY DEF LogInv, EventLogAligned, Acknowledge, WriteUpdate

LEMMA LogFail ==
    ASSUME LogInv, NEW recorded, FailToPersist(recorded)
    PROVE  LogInv'
  BY DEF LogInv, EventLogAligned, FailToPersist, WriteUpdate

LEMMA LogRespond ==
    ASSUME LogInv, NEW answer, NEW recorded, Respond(answer, recorded)
    PROVE  LogInv'
  BY LogAcknowledge, LogFail DEF Respond, serviceVars, LogInv, EventLogAligned

LEMMA LogStep == LogInv /\ [ApiNext]_apiVars => LogInv'
  <1> SUFFICES ASSUME LogInv, [ApiNext]_apiVars PROVE LogInv'
    OBVIOUS
  <1>1. UNCHANGED serviceVars => LogInv'
    BY DEF serviceVars, LogInv, EventLogAligned
  <1>2. CASE UNCHANGED apiVars
    BY <1>1, <1>2 DEF apiVars, routedVars, allVars
  <1>3. ASSUME NEW answer, NEW recorded, RespondReservation(answer, recorded)
        PROVE  LogInv'
    BY <1>3, LogRespond DEF RespondReservation, WriteUpdate, LogInv, EventLogAligned
  <1>4. CASE Recover
    BY <1>4 DEF Recover, NextSequence, LogInv, EventLogAligned
  <1>5. CASE ApiNext
    BY <1>1, <1>3, <1>4, <1>5, ApiStores, LogRespond DEF StoreStep
  <1> QED  BY <1>2, <1>5

\* The number of the next event is free, or taken by one update that was
\* reported failed: the log has no gap and never two updates nobody knows of.
THEOREM EventLogAlwaysAligned == ApiSpec => []EventLogAligned
  <1>1. ApiInit => LogInv
    BY DEF ApiInit, ActorsInit, ServiceInit, LogInv, EventLogAligned
  <1>2. LogInv => EventLogAligned
    BY DEF LogInv
  <1> QED  BY <1>1, <1>2, LogStep, PTL DEF ApiSpec
-----------------------------------------------------------------------------
(***************************************************************************)
(* The market maker.                                                       *)
(***************************************************************************)
LEMMA CounterType ==
    ASSUME DemoInv, stage = "Countering"
    PROVE  /\ CounterOf(trigger.order, trigger.filled, nextSalt) \in CounterOrders
           /\ \A c \in Orders : CounterCommand(c) \in CommandType
  <1>1. trigger \in Trigger /\ nextSalt \in 1..MaxSalt
    BY DemoAssumption DEF DemoInv
  <1>2. /\ trigger.order \in ClientOrders /\ trigger.now \in Nat
        /\ Terms[trigger.order].maker # DemoMaker
    BY <1>1 DEF Trigger, DemoInv
  <1>3. PICK command \in Commands : /\ trigger.filled = command.context.filled
                                    /\ Accepts(trigger.order, command.context)
    BY DEF DemoInv
  <1>4. CounterOf(trigger.order, trigger.filled, nextSalt) \in CounterOrders
    BY <1>1, <1>2, <1>3, CounterAssumption
  <1>5. ASSUME NEW c \in Orders
        PROVE  CounterCommand(c) \in CommandType
    <2>1. Terms[c].epoch \in Nat
      BY TermsAssumption DEF OrderTerms
    <2>2. DemoTtl \in Nat \cup {None}
      BY DemoAssumption
    <2> QED  BY <1>2, <2>1, <2>2 DEF CounterCommand, CommandType, ContextType, SignatureChecks
  <1> QED  BY <1>4, <1>5

\* A step of the counter request submits an order that is not a client's.
LEMMA CounterSubmits ==
    ASSUME DemoInv, SubmitCounter
    PROVE  \E c \in CounterOrders :
               /\ CounterCommand(c) \in CommandType
               /\ CounterAccepted(c) \/ CounterRefused(c)
  <1> DEFINE c == CounterOf(trigger.order, trigger.filled, nextSalt)
  <1>1. stage = "Countering" /\ (CounterAccepted(c) \/ CounterRefused(c))
    BY DEF SubmitCounter
  <1>2. c \in CounterOrders /\ CounterCommand(c) \in CommandType
    BY <1>1, CounterType DEF CounterOrders
  <1> HIDE DEF c
  <1> QED  BY <1>1, <1>2

\* Every step of the service is one call, a restart, or nothing at all.
LEMMA ApiCalls ==
    ASSUME DemoInv, ApiNext
    PROVE  ServiceCall \/ Recover \/ UNCHANGED allVars
  <1>1. ASSUME NEW answer \in Answers, Respond(answer, NoHash), EngineCall
        PROVE  ServiceCall
    BY <1>1, UnhashedCall DEF RespondReservation
  <1>2. CASE \E o \in ClientOrders, command \in Commands : ClientSubmit(o, command)
    <2>1. PICK o \in ClientOrders, command \in Commands : ClientSubmit(o, command)
      BY <1>2
    <2>2. o \in Orders /\ command \in CommandType
      BY DemoAssumption, CommandsAssumption
    <2>3. EngineCall
      BY <2>1, <2>2 DEF ClientSubmit, RoutedSubmit, EngineCall
    <2> QED  BY <1>1, <2>1, <2>3 DEF ClientSubmit, ServiceCall
  <1>3. CASE SubmitCounter
    <2>1. PICK c \in CounterOrders : /\ CounterCommand(c) \in CommandType
                                     /\ CounterAccepted(c) \/ CounterRefused(c)
      BY <1>3, CounterSubmits
    <2>2. CASE CounterAccepted(c)
      <3>1. EngineCall
        BY <2>1, <2>2 DEF CounterAccepted, RoutedSubmit, EngineCall, CounterOrders
      <3> QED  BY <1>1, <2>2, <3>1 DEF CounterAccepted, ServiceCall
    <2>3. CASE CounterRefused(c)
      BY <2>3 DEF CounterRefused, routedVars
    <2> QED  BY <2>1, <2>2, <2>3
  <1>4. CASE MarkCounter
    <2>1. counter \in Reservations /\ trigger.now \in Nat
      BY <1>4 DEF MarkCounter, DemoInv, Trigger, CounterOrders
    <2> QED  BY <1>4, <2>1 DEF MarkCounter, ServiceCall, EngineCall, OtherCall
  <1>5. CASE CommitCounter
    <2>1. counter \in Reservations
      BY <1>5 DEF CommitCounter, DemoInv, CounterOrders
    <2>2. EngineCall
      BY <1>5, <2>1 DEF CommitCounter, EngineCall, OtherCall
    <2> QED  BY <1>1, <1>5, <2>2 DEF CommitCounter
  <1>6. CASE OtherClientRequest
    <2>1. ASSUME NEW o \in Orders, RoutedCancelRequest(o) PROVE ServiceCall
      BY <1>1, <2>1 DEF RoutedCancelRequest, CancelOrderRequest, EngineCall, OtherCall
    <2>2. ASSUME NEW r \in Reservations, NEW answer \in Answers, RoutedSettlementRequest(r, answer)
          PROVE  ServiceCall
      BY <2>2, SettlementCalls DEF RoutedSettlementRequest
    <2> QED  BY <1>6, <2>1, <2>2 DEF OtherClientRequest
  <1>7. CASE RestartApi
    BY <1>7 DEF RestartApi, RecoverActors
  <1> QED  BY <1>2, <1>3, <1>4, <1>5, <1>6, <1>7 DEF ApiNext, DemoStep

LEMMA DemoInvStep ==
    ASSUME ApiInv, [ApiNext]_apiVars
    PROVE  DemoInv'
  <1>1. DemoInv
    BY DEF ApiInv
  <1>2. CASE UNCHANGED apiVars
    BY <1>1, <1>2 DEF apiVars, demoVars, DemoInv, Trigger, CounterOrders, Stages, Accepts,
       ValidBasic, Collateral, MaxClaim, OrderExpired, RemainingClaim
  <1>3. ASSUME EndRequest, nextSalt' \in 1..MaxSalt + 1
        PROVE  DemoInv'
    BY <1>3 DEF EndRequest, DemoInv, Stages
  <1>4. CASE \E o \in ClientOrders, command \in Commands : ClientSubmit(o, command)
    <2>1. PICK o \in ClientOrders, command \in Commands : ClientSubmit(o, command)
      BY <1>4
    <2>2. CASE ~WantsCounter(o, command)
      BY <1>1, <2>1, <2>2 DEF ClientSubmit, DemoInv, Stages
    <2>3. CASE WantsCounter(o, command)
      <3>1. /\ nextSalt <= MaxSalt /\ nextSalt' = nextSalt
            /\ stage' = "Countering" /\ counter' = counter
            /\ trigger' = [order |-> o, filled |-> command.context.filled,
                           now |-> command.context.now]
            /\ SubmitOrder(o, command)
        BY <2>1, <2>3 DEF ClientSubmit, RoutedSubmit
      <3>2. Terms[o].maker # DemoMaker /\ state'[o] = "Open"
        BY <2>3 DEF WantsCounter
      <3>3. Accepts(o, command.context)
        <4>1. state \in [Orders -> OrderStates \cup {"NoRecord"}] /\ o \in Orders
          BY DemoAssumption DEF ApiInv, StoreInv, EngineInv, Inv, TypeOK
        <4>2. RejectOrder(o, command) => state'[o] = "Rejected"
          BY <4>1 DEF RejectOrder, NewRecord
        <4> QED  BY <3>1, <3>2, <4>2 DEF SubmitOrder
      <3>4. trigger' \in Trigger
        <4>1. command.context.filled \in Nat /\ command.context.now \in Nat
          BY CommandsAssumption DEF CommandType, ContextType
        <4> QED  BY <3>1, <4>1 DEF Trigger
      <3>5. /\ trigger'.order = o /\ trigger'.filled = command.context.filled
        BY <3>1
      <3> QED  BY <1>1, <3>1, <3>2, <3>3, <3>4, <3>5 DEF DemoInv, Stages
    <2> QED  BY <2>2, <2>3
  <1>5. CASE SubmitCounter
    <2>1. PICK c \in CounterOrders : CounterAccepted(c) \/ CounterRefused(c)
      BY <1>1, <1>5, CounterSubmits
    <2>2. stage = "Countering" /\ nextSalt' = nextSalt + 1
      BY <1>5 DEF SubmitCounter
    <2>3. nextSalt' \in 1..MaxSalt + 1
      BY <1>1, <2>2, DemoAssumption DEF DemoInv
    <2>4. CASE stage' = "Marking" /\ counter' = c /\ trigger' = trigger
      BY <1>1, <2>1, <2>2, <2>3, <2>4 DEF DemoInv, Stages
    <2>5. CASE EndRequest
      BY <1>3, <2>3, <2>5
    <2> QED  BY <2>1, <2>4, <2>5 DEF CounterAccepted, CounterRefused
  <1>6. CASE MarkCounter
    BY <1>1, <1>6 DEF MarkCounter, DemoInv, Stages
  <1>7. CASE CommitCounter
    BY <1>1, <1>3, <1>7 DEF CommitCounter, DemoInv
  <1>8. CASE OtherClientRequest
    BY <1>1, <1>8 DEF OtherClientRequest, demoVars, DemoInv, Stages
  <1>9. CASE RestartApi
    <2>1. nextSalt' \in 1..MaxSalt + 1
      BY <1>1, <1>9, DemoAssumption DEF RestartApi, DemoInv
    <2> QED  BY <1>3, <1>9, <2>1 DEF RestartApi
  <1> QED  BY <1>2, <1>4, <1>5, <1>6, <1>7, <1>8, <1>9 DEF ApiNext, DemoStep
-----------------------------------------------------------------------------
(***************************************************************************)
(* Routes.                                                                 *)
(***************************************************************************)

\* A call other than a submission adds nothing that would need a route.
LEMMA RoutesMoveOn ==
    ASSUME RoutesInv, EngineInv, MovesOn, UNCHANGED routes
    PROVE  RoutesInv'
  <1>1. UNCHANGED <<actors, orderRoute, reservationRoute>>
    BY DEF routes
  <1>2. \A r \in Reservations : status'[r] # "NoReservation" => status[r] # "NoReservation"
    BY DEF MovesOn, ActiveStatuses
  <1>3. \A o \in Orders : state'[o] # "NoRecord" => state[o] # "NoRecord"
    BY DEF MovesOn
  <1> QED  BY <1>1, <1>2, <1>3 DEF RoutesInv, RoutesTypeOK, Markets

LEMMA RoutesSubmit ==
    ASSUME RoutesInv, EngineInv, NEW o \in Orders, NEW command \in CommandType,
           RoutedSubmit(o, command)
    PROVE  RoutesInv'
  <1>1. Submits(o)
    BY SubmitSubmits DEF RoutedSubmit, EngineInv
  <1>2. /\ actors' = actors \cup {Terms[o].market}
        /\ orderRoute' = [orderRoute EXCEPT ![o] = Terms[o].market]
        /\ reservationRoute' =
              IF status'[o] = "NoReservation" THEN reservationRoute
              ELSE [reservationRoute EXCEPT ![o] = Terms[o].market]
    BY DEF RoutedSubmit, EnsureMarket, IndexSubmission
  <1>3. Terms[o].market \in Markets
    BY DEF Markets
  <1>4. RoutesTypeOK'
    BY <1>2, <1>3 DEF RoutesInv, RoutesTypeOK, Markets
  <1>5. ASSUME NEW x \in Orders, state'[x] # "NoRecord"
        PROVE  orderRoute'[x] = Terms[x].market /\ orderRoute'[x] \in actors'
    <2>1. x # o => state[x] # "NoRecord"
      BY <1>1, <1>5 DEF Submits, AvailableStates
    <2> QED  BY <1>2, <2>1 DEF RoutesInv, RoutesTypeOK
  <1>6. ASSUME NEW r \in Reservations, status'[r] # "NoReservation"
        PROVE  reservationRoute'[r] = Terms[r].market /\ reservationRoute'[r] \in actors'
    <2>1. r # o => status[r] # "NoReservation"
      BY <1>1, <1>6 DEF Submits
    <2> QED  BY <1>2, <1>6, <2>1 DEF RoutesInv, RoutesTypeOK
  <1> QED  BY <1>4, <1>5, <1>6 DEF RoutesInv

\* The routes that a restart makes of sound rows are complete.
LEMMA RoutesRecover ==
    ASSUME RowsSound(stored), RecoverActors
    PROVE  RoutesInv'
  <1>1. state' = stored.state /\ status' = stored.status
    BY DEF RecoverActors, Recover, RestoreEngine
  <1>2. /\ actors' = {Terms[o].market : o \in StoredOrders}
        /\ orderRoute' = [o \in Orders |-> IF o \in StoredOrders THEN Terms[o].market ELSE None]
        /\ reservationRoute' =
              [r \in Reservations |->
                  IF r \in StoredReservations THEN Terms[stored.legs[r][1].order].market
                  ELSE None]
    BY DEF RecoverActors, SpawnFromSnapshot, IndexSnapshot
  <1>3. \A r \in StoredReservations :
           stored.legs[r][1].order = r /\ r \in StoredOrders
    BY DEF StoredReservations, StoredOrders, RowsSound, LegsSound, OrdersSound
  <1>4. RoutesTypeOK'
    BY <1>2, <1>3 DEF RoutesTypeOK, Markets, StoredOrders, StoredReservations
  <1>5. \A o \in Orders : state'[o] # "NoRecord" =>
           orderRoute'[o] = Terms[o].market /\ orderRoute'[o] \in actors'
    BY <1>1, <1>2 DEF StoredOrders
  <1>6. \A r \in Reservations : status'[r] # "NoReservation" =>
           reservationRoute'[r] = Terms[r].market /\ reservationRoute'[r] \in actors'
    BY <1>1, <1>2, <1>3 DEF StoredReservations
  <1> QED  BY <1>4, <1>5, <1>6 DEF RoutesInv

LEMMA RoutesInvStep ==
    ASSUME ApiInv, [ApiNext]_apiVars
    PROVE  RoutesInv'
  <1>1. RoutesInv /\ EngineInv /\ Inv /\ RowsSound(stored) /\ DemoInv
    BY DEF ApiInv, StoreInv, EngineInv
  <1>2. CASE UNCHANGED <<state, status, routes>>
    BY <1>1, <1>2 DEF routes, RoutesInv, RoutesTypeOK, Markets
  <1>3. CASE \E o \in ClientOrders, command \in Commands : ClientSubmit(o, command)
    BY <1>1, <1>3, RoutesSubmit, DemoAssumption, CommandsAssumption DEF ClientSubmit
  <1>4. CASE SubmitCounter
    <2>1. PICK c \in CounterOrders : /\ CounterCommand(c) \in CommandType
                                     /\ CounterAccepted(c) \/ CounterRefused(c)
      BY <1>1, <1>4, CounterSubmits
    <2>2. CASE CounterAccepted(c)
      BY <1>1, <2>1, <2>2, RoutesSubmit DEF CounterAccepted, CounterOrders
    <2>3. CASE CounterRefused(c)
      BY <1>2, <2>3 DEF CounterRefused, routedVars, allVars, vars, records, reservations
    <2> QED  BY <2>1, <2>2, <2>3
  <1>5. CASE MarkCounter
    <2>1. counter \in Reservations /\ MarkReservationSubmitted(counter, trigger.now)
      BY <1>1, <1>5 DEF MarkCounter, DemoInv, CounterOrders
    <2> QED  BY <1>1, <1>5, <2>1, MarkMovesOn, RoutesMoveOn DEF MarkCounter, routes
  <1>6. CASE CommitCounter
    <2>1. counter \in Reservations /\ CommitReservation(counter)
      BY <1>1, <1>6 DEF CommitCounter, DemoInv, CounterOrders
    <2> QED  BY <1>1, <1>6, <2>1, CommitMovesOn, RoutesMoveOn DEF CommitCounter
  <1>7. CASE OtherClientRequest
    <2>1. ASSUME NEW o \in Orders, RoutedCancelRequest(o) PROVE RoutesInv'
      BY <1>1, <2>1, CancelMovesOn, RoutesMoveOn DEF RoutedCancelRequest, CancelOrderRequest
    <2>2. ASSUME NEW r \in Reservations, NEW answer \in Answers, RoutedSettlementRequest(r, answer)
          PROVE  RoutesInv'
      BY <1>1, <2>2, SettlementCalls, OtherCallMovesOn, RoutesMoveOn DEF RoutedSettlementRequest
    <2> QED  BY <1>7, <2>1, <2>2 DEF OtherClientRequest
  <1>8. CASE RestartApi
    BY <1>1, <1>8, RoutesRecover DEF RestartApi
  <1>9. CASE UNCHANGED apiVars
    BY <1>2, <1>9 DEF apiVars, routedVars, allVars, vars, records, reservations
  <1> QED  BY <1>3, <1>4, <1>5, <1>6, <1>7, <1>8, <1>9 DEF ApiNext, DemoStep
-----------------------------------------------------------------------------
(***************************************************************************)
(* The trades of the market maker.                                         *)
(***************************************************************************)
LEMMA WholeInvStep ==
    ASSUME ApiInv, [ApiNext]_apiVars
    PROVE  WholeInv'
  <1> SUFFICES ASSUME AutoCommit, NEW c \in CounterOrders
               PROVE  /\ Active(c)' => stage' \in {"Marking", "Committing"} /\ counter' = c
                      /\ c \notin inBook' /\ ~resting'[c]
                      /\ stored'.status[c] \notin ActiveStatuses /\ ~stored'.resting[c]
    BY DEF WholeInv, CounterOrders
  <1>1. /\ StoreInv /\ EngineInv /\ Inv /\ DemoInv
        /\ Active(c) => stage \in {"Marking", "Committing"} /\ counter = c
        /\ c \notin inBook /\ ~resting[c]
        /\ stored.status[c] \notin ActiveStatuses /\ ~stored.resting[c]
        /\ c \in Orders /\ c \notin ClientOrders
    BY DEF ApiInv, StoreInv, EngineInv, WholeInv, CounterOrders
  <1>2. Active(c)' <=> status'[c] \in ActiveStatuses
    BY DEF Active
  \* What the engine has of the counter order is sound, unless it is in flight.
  <1>3. ASSUME c \notin inBook', ~resting'[c],
               status'[c] \in ActiveStatuses =>
                  /\ stage' \in {"Marking", "Committing"} /\ counter' = c
                  /\ stored' = stored,
               stored' \in {stored, Snapshot'}
        PROVE  /\ Active(c)' => stage' \in {"Marking", "Committing"} /\ counter' = c
               /\ c \notin inBook' /\ ~resting'[c]
               /\ stored'.status[c] \notin ActiveStatuses /\ ~stored'.resting[c]
    BY <1>1, <1>2, <1>3 DEF Snapshot
  <1>4. ASSUME NEW o \in Orders \ {c}, Submits(o), status[c] \notin ActiveStatuses,
               stored' \in {stored, Snapshot'}
        PROVE  /\ Active(c)' => stage' \in {"Marking", "Committing"} /\ counter' = c
               /\ c \notin inBook' /\ ~resting'[c]
               /\ stored'.status[c] \notin ActiveStatuses /\ ~stored'.resting[c]
    BY <1>1, <1>3, <1>4 DEF Submits
  <1>5. ASSUME MovesOn, stored' \in {stored, Snapshot'},
               status'[c] \in ActiveStatuses =>
                  /\ stage' \in {"Marking", "Committing"} /\ counter' = c
                  /\ stored' = stored
        PROVE  /\ Active(c)' => stage' \in {"Marking", "Committing"} /\ counter' = c
               /\ c \notin inBook' /\ ~resting'[c]
               /\ stored'.status[c] \notin ActiveStatuses /\ ~stored'.resting[c]
    BY <1>1, <1>3, <1>5 DEF MovesOn
  <1>6. MovesOn /\ status[c] \notin ActiveStatuses => status'[c] \notin ActiveStatuses
    BY <1>1 DEF MovesOn, ActiveStatuses, TerminalStatuses, Statuses
  <1>7. ApiNext => stored' \in {stored, Snapshot'}
    BY <1>1, ApiCalls, CallStores DEF Recover, allVars, serviceVars
  <1>8. CASE \E o \in ClientOrders, command \in Commands : ClientSubmit(o, command)
    <2>1. PICK o \in ClientOrders, command \in Commands : ClientSubmit(o, command)
      BY <1>8
    <2>2. o \in Orders \ {c} /\ command \in CommandType
      BY <1>1, DemoAssumption, CommandsAssumption
    <2>3. Submits(o)
      BY <1>1, <2>1, <2>2, SubmitSubmits DEF ClientSubmit, RoutedSubmit
    <2>4. status[c] \notin ActiveStatuses
      BY <1>1, <2>1 DEF ClientSubmit, Active
    <2>5. ApiNext
      BY <1>8 DEF ApiNext
    <2> QED  BY <1>4, <1>7, <2>2, <2>3, <2>4, <2>5
  <1>9. CASE SubmitCounter
    <2>1. PICK d \in CounterOrders : /\ CounterCommand(d) \in CommandType
                                     /\ CounterAccepted(d) \/ CounterRefused(d)
      BY <1>1, <1>9, CounterSubmits
    <2>2. status[c] \notin ActiveStatuses /\ stored' \in {stored, Snapshot'}
      BY <1>1, <1>7, <1>9 DEF SubmitCounter, Active, ApiNext, DemoStep
    <2>3. CASE CounterRefused(d)
      BY <1>1, <1>3, <2>2, <2>3
      DEF CounterRefused, routedVars, allVars, vars, records, books, reservations, serviceVars
    <2>4. CASE CounterAccepted(d) /\ d # c
      <3>1. Submits(d)
        BY <1>1, <2>1, <2>4, SubmitSubmits DEF CounterAccepted, RoutedSubmit, CounterOrders
      <3> QED  BY <1>4, <2>1, <2>2, <2>4, <3>1 DEF CounterOrders
    <2>5. CASE CounterAccepted(c) /\ d = c
      <3>1. SubmitOrder(c, CounterCommand(c))
        BY <2>5 DEF CounterAccepted, RoutedSubmit
      <3>2. c \notin inBook' /\ ~resting'[c]
        <4>1. resting \in [Orders -> BOOLEAN]
          BY <1>1 DEF Inv, TypeOK
        <4>2. ~CounterCommand(c).restOnNoMatch
          BY DEF CounterCommand
        <4>3. RejectOrder(c, CounterCommand(c)) => c \notin inBook' /\ ~resting'[c]
          BY <1>1, <4>1 DEF RejectOrder, NewRecord, books
        <4>4. ASSUME NEW plan, AdmitOrder(c, CounterCommand(c), plan)
              PROVE  c \notin inBook' /\ ~resting'[c]
          BY <1>1, <4>1, <4>2, <4>4
          DEF AdmitOrder, LeaveInactive, RestOrder, ReserveMatch, NewRecord, books
        <4> QED  BY <3>1, <4>3, <4>4 DEF SubmitOrder
      <3>3. status'[c] \in ActiveStatuses => status'[c] # "NoReservation"
        BY DEF ActiveStatuses
      <3>4. status'[c] \in ActiveStatuses =>
               stage' = "Marking" /\ counter' = c /\ stored' = stored
        BY <2>5, <3>3 DEF CounterAccepted, serviceVars
      <3> QED  BY <1>3, <2>2, <3>2, <3>4
    <2> QED  BY <2>1, <2>3, <2>4, <2>5
  <1>10. CASE MarkCounter
    <2>1. counter \in Reservations /\ MarkReservationSubmitted(counter, trigger.now)
      BY <1>1, <1>10 DEF MarkCounter, DemoInv, CounterOrders
    <2>2. MovesOn /\ stage' = "Committing" /\ counter' = counter /\ stored' = stored
      BY <1>1, <1>10, <2>1, MarkMovesOn DEF MarkCounter, serviceVars
    <2>3. status'[c] \in ActiveStatuses => status[c] \in ActiveStatuses
      BY <1>6, <2>2
    <2> QED  BY <1>1, <1>5, <2>2, <2>3 DEF Active
  <1>11. CASE CommitCounter
    <2>1. counter \in Reservations /\ CommitReservation(counter)
      BY <1>1, <1>11 DEF CommitCounter, DemoInv, CounterOrders
    <2>2. MovesOn /\ stored' \in {stored, Snapshot'}
      BY <1>1, <1>7, <1>11, <2>1, CommitMovesOn DEF ApiNext, DemoStep
    <2>3. status'[c] \notin ActiveStatuses
      <3>1. status' = [status EXCEPT ![counter] = "Committed"]
            /\ status \in [Reservations -> Statuses \cup {"NoReservation"}]
        BY <1>1, <2>1 DEF CommitReservation, Inv, TypeOK
      <3> QED  BY <1>1, <1>6, <2>1, <2>2, <3>1 DEF Active, ActiveStatuses
    <2> QED  BY <1>5, <2>2, <2>3
  <1>12. CASE OtherClientRequest
    <2>1. stored' \in {stored, Snapshot'} /\ status[c] \notin ActiveStatuses
      BY <1>1, <1>7, <1>12 DEF ApiNext, OtherClientRequest, Active
    <2>2. MovesOn
      BY <1>1, <1>12, CancelMovesOn, SettlementCalls, OtherCallMovesOn
      DEF OtherClientRequest, RoutedCancelRequest, CancelOrderRequest, RoutedSettlementRequest
    <2> QED  BY <1>5, <1>6, <2>1, <2>2
  <1>13. CASE RestartApi
    <2>1. /\ status' = stored.status /\ resting' = stored.resting
          /\ inBook' = {o \in Orders : stored.resting[o]} /\ stored' = stored
      BY <1>13 DEF RestartApi, RecoverActors, Recover, RestoreEngine
    <2> QED  BY <1>1, <1>3, <2>1
  <1>14. CASE UNCHANGED apiVars
    BY <1>1, <1>2, <1>14
    DEF apiVars, routedVars, allVars, vars, records, books, reservations, serviceVars, demoVars,
        Active
  <1> QED
    BY <1>8, <1>9, <1>10, <1>11, <1>12, <1>13, <1>14 DEF ApiNext, DemoStep
-----------------------------------------------------------------------------
LEMMA ApiInvInit == ApiInit => ApiInv
  <1> SUFFICES ASSUME ApiInit PROVE ApiInv
    OBVIOUS
  <1>1. ServiceInit /\ Init
    BY DEF ApiInit, ActorsInit, ServiceInit
  <1>2. StoreInv
    BY <1>1, StoreInvInit
  <1>3. DemoInv
    BY DemoAssumption DEF ApiInit, DemoInv, Stages
  <1>4. /\ \A o \in Orders : state[o] = "NoRecord" /\ ~resting[o]
        /\ \A r \in Reservations : status[r] = "NoReservation"
        /\ inBook = {} /\ stored = Snapshot
    BY <1>1 DEF Init, ServiceInit
  <1>5. RoutesInv
    BY <1>4 DEF ApiInit, ActorsInit, RoutesInv, RoutesTypeOK, Markets
  <1>6. WholeInv
    BY <1>4 DEF WholeInv, Active, ActiveStatuses, Snapshot, CounterOrders
  <1> QED  BY <1>2, <1>3, <1>5, <1>6 DEF ApiInv

LEMMA ApiInvStep == ApiInv /\ [ApiNext]_apiVars => ApiInv'
  <1> SUFFICES ASSUME ApiInv, [ApiNext]_apiVars PROVE ApiInv'
    OBVIOUS
  <1>1. DemoInv' /\ RoutesInv' /\ WholeInv'
    BY DemoInvStep, RoutesInvStep, WholeInvStep
  <1>2. StoreInv /\ DemoInv
    BY DEF ApiInv
  <1>3. UNCHANGED allVars => StoreInv'
    BY <1>2, StoreInvStutter
  <1>4. ApiNext => StoreInv'
    BY <1>2, <1>3, ApiCalls, StoreInvCall, StoreInvRecover
  <1>5. StoreInv'
    BY <1>3, <1>4 DEF apiVars, routedVars
  <1> QED  BY <1>1, <1>5 DEF ApiInv

(***************************************************************************)
(* The service never leaves the inductive invariant, whatever the faults,  *)
(* the orders and the plans of the matcher.                                *)
(***************************************************************************)
THEOREM ApiInvariance == ApiSpec => []ApiInv
  BY ApiInvInit, ApiInvStep, PTL DEF ApiSpec

\* The variables of the service, its router and the market maker keep their
\* types.
THEOREM ApiTypeCorrect == ApiSpec => []ApiTypeOK
  <1>1. ASSUME ApiInv PROVE ApiTypeOK
    <2>1. StoreInv /\ DemoInv /\ RoutesInv
      BY <1>1 DEF ApiInv
    <2> QED  BY <2>1, StoreInvMeans DEF ApiTypeOK, DemoInv, RoutesInv
  <1> QED  BY <1>1, ApiInvariance, PTL

(***************************************************************************)
(* What a caller was told is in the store and in the engine for good,      *)
(* through failed and unheard transactions, errors and restarts.           *)
(***************************************************************************)
THEOREM AnsweredAlwaysDurable == ApiSpec => []AnsweredIsDurable
  <1>1. ApiInv => AnsweredIsDurable
    BY StoreInvMeans DEF ApiInv
  <1> QED  BY <1>1, ApiInvariance, PTL

(***************************************************************************)
(* The rows of the store are at any moment those of a sound engine, from   *)
(* which the service can start.                                            *)
(***************************************************************************)
THEOREM StoreAlwaysConsistent == ApiSpec => []StoreConsistent
  <1>1. ApiInv => StoreConsistent
    BY StoreInvMeans DEF ApiInv
  <1> QED  BY <1>1, ApiInvariance, PTL

(***************************************************************************)
(* Every record and every reservation can be reached through the router,   *)
(* and the rows of the store can be split by market.                       *)
(***************************************************************************)
THEOREM RoutesAlwaysComplete == ApiSpec => []RoutesComplete
  <1>1. ASSUME ApiInv PROVE RoutesComplete
    <2>1. RoutesInv /\ EngineInv /\ RowsSound(stored)
      BY <1>1 DEF ApiInv, StoreInv
    <2>2. ASSUME NEW r \in Reservations, status[r] # "NoReservation"
          PROVE  /\ reservationRoute[r] \in actors
                 /\ \A o \in LegOrders(legs[r]) : Terms[o].market = reservationRoute[r]
      BY <2>1, <2>2 DEF RoutesInv, EngineInv, OneMarket
    <2>3. SplitAccepts
      <3>1. \A r \in Reservations : LegOrders(stored.legs[r]) \subseteq Orders
        BY <2>1, LegOrdersType DEF RowsSound, SnapshotType
      <3> QED
        BY <2>1, <3>1 DEF SplitAccepts, StoredReservations, StoredOrders, RowsSound, LegsSound
    <2> QED  BY <2>1, <2>2, <2>3 DEF RoutesComplete, RoutesInv
  <1> QED  BY <1>1, ApiInvariance, PTL

(***************************************************************************)
(* With auto_commit the market maker trades or leaves nothing behind.      *)
(***************************************************************************)
THEOREM DemoAlwaysTradesWhole == ApiSpec => []DemoTradesWhole
  <1>1. ApiInv => DemoTradesWhole
    BY DEF ApiInv, WholeInv, DemoTradesWhole
  <1> QED  BY <1>1, ApiInvariance, PTL
-----------------------------------------------------------------------------
(***************************************************************************)
(* The market maker in the middle of its trade.                            *)
(***************************************************************************)
\* The reservation that the request has just made is where it left it.
ServingInv ==
    /\ stage = "Marking" =>
          status[counter] = "Reserved" /\ ~IsExpired(counter, trigger.now)
    /\ stage = "Committing" => status[counter] = "Submitted"

\* A counter order that was matched holds its makers for a while.
LEMMA CounterReserved ==
    ASSUME ApiInv, stage = "Countering", NEW c \in Orders, CounterAccepted(c),
           status'[c] # "NoReservation"
    PROVE  status'[c] = "Reserved" /\ (expiresAt'[c] = None \/ ~(trigger.now >= expiresAt'[c]))
  <1> DEFINE command == CounterCommand(c)
  <1>1. /\ SubmitOrder(c, command) /\ Inv /\ DemoInv
    BY DEF CounterAccepted, RoutedSubmit, ApiInv, StoreInv, EngineInv
  <1>2. status[c] = "NoReservation"
    BY <1>1 DEF SubmitOrder, Inv, Unrecorded
  <1>3. /\ status \in [Orders -> Statuses \cup {"NoReservation"}]
        /\ expiresAt \in [Orders -> Nat \cup {None}]
    BY <1>1 DEF Inv, TypeOK
  <1>4. ~UNCHANGED reservations
    BY <1>2 DEF reservations
  <1>5. \E plan : ReserveMatch(c, command, plan)
    BY <1>1, <1>4 DEF SubmitOrder, RejectOrder, AdmitOrder, LeaveInactive, RestOrder
  <1>6. /\ command.ttl = DemoTtl /\ command.context.now = trigger.now
    BY DEF CounterCommand
  <1> HIDE DEF command
  <1>7. /\ status'[c] = "Reserved"
        /\ expiresAt'[c] = IF DemoTtl = None THEN None ELSE trigger.now + DemoTtl
    BY <1>3, <1>5, <1>6 DEF ReserveMatch
  <1>8. trigger.now \in Nat /\ DemoTtl \in (Nat \ {0}) \cup {None}
    BY <1>1, DemoAssumption DEF DemoInv, Trigger
  <1>9. expiresAt'[c] # None => ~(trigger.now >= expiresAt'[c])
    BY <1>7, <1>8
  <1> QED  BY <1>7, <1>9

LEMMA ServingInvStep ==
    ASSUME ApiInv, ServingInv, [ApiNext]_apiVars
    PROVE  ServingInv'
  <1>1. ASSUME stage' \notin {"Marking", "Committing"}
        PROVE  ServingInv'
    BY <1>1 DEF ServingInv
  <1>2. CASE UNCHANGED apiVars
    BY <1>2 DEF ServingInv, IsExpired, apiVars, demoVars, routedVars, allVars, vars,
       reservations
  <1>3. CASE \E o \in ClientOrders, command \in Commands : ClientSubmit(o, command)
    BY <1>1, <1>3 DEF ClientSubmit
  <1>4. CASE SubmitCounter
    <2>1. stage = "Countering" /\ DemoInv
      BY <1>4 DEF SubmitCounter, ApiInv
    <2>2. PICK c \in CounterOrders : CounterAccepted(c) \/ CounterRefused(c)
      BY <1>4, <2>1, CounterSubmits
    <2>3. CASE EndRequest
      BY <1>1, <2>3 DEF EndRequest
    <2>4. CASE /\ CounterAccepted(c) /\ status'[c] # "NoReservation"
               /\ stage' = "Marking" /\ counter' = c /\ trigger' = trigger
      <3>1. /\ status'[c] = "Reserved"
            /\ expiresAt'[c] = None \/ ~(trigger.now >= expiresAt'[c])
        BY <2>1, <2>4, CounterReserved DEF CounterOrders
      <3> QED  BY <2>4, <3>1 DEF ServingInv, IsExpired
    <2> QED  BY <2>2, <2>3, <2>4 DEF CounterAccepted, CounterRefused
  <1>5. CASE MarkCounter
    <2>1. /\ counter \in Orders /\ status \in [Orders -> Statuses \cup {"NoReservation"}]
      BY <1>5 DEF MarkCounter, ApiInv, DemoInv, CounterOrders, StoreInv, EngineInv, Inv, TypeOK
    <2>2. /\ status' = [status EXCEPT ![counter] = "Submitted"]
          /\ stage' = "Committing" /\ counter' = counter
      BY <1>5 DEF MarkCounter, MarkReservationSubmitted
    <2> QED  BY <2>1, <2>2 DEF ServingInv
  <1>6. CASE CommitCounter \/ RestartApi
    BY <1>1, <1>6 DEF CommitCounter, RestartApi, EndRequest
  <1>7. CASE OtherClientRequest
    BY <1>1, <1>7 DEF OtherClientRequest, demoVars
  <1> QED  BY <1>2, <1>3, <1>4, <1>5, <1>6, <1>7 DEF ApiNext, DemoStep

(***************************************************************************)
(* The reservation that the market maker has made is still there, not      *)
(* expired and in the state it left it in, when it marks and when it       *)
(* commits it (append_mock_commit_events).                                 *)
(***************************************************************************)
THEOREM DemoAlwaysServed == ApiSpec => []ServingInv
  <1>1. ApiInit => ServingInv
    BY DEF ApiInit, ServingInv
  <1>2. ApiInv /\ ServingInv /\ [ApiNext]_apiVars => ServingInv'
    BY ServingInvStep
  <1> QED  BY <1>1, <1>2, ApiInvariance, PTL DEF ApiSpec

\* The legs of the rows can be filled after a restart.
RowsFillable(rows) ==
    \A r \in Reservations : InFlight(rows, r) =>
        \A i \in DOMAIN rows.legs[r] :
            CanFill(rows.legs[r][i].order, rows.filled[rows.legs[r][i].order],
                    rows.legs[r][i].amount)

FreshStore == FreshInv /\ RowsFillable(stored)

LEMMA OtherCallFresh ==
    ASSUME Inv, FreshInv, OtherCall
    PROVE  FreshInv'
  <1>1. CASE \E o \in Orders : CancelOrder(o)
    BY <1>1, CancelFresh
  <1>2. ASSUME NEW r \in Reservations, NEW now,
               \/ MarkExpiredReservation(r, now) \/ ExpireReservation(r, now)
               \/ ReleaseReservation(r)
        PROVE  FreshInv'
    BY <1>2, EndFresh
  <1>3. ASSUME NEW r \in Reservations, NEW now, MarkReservationSubmitted(r, now)
        PROVE  FreshInv'
    BY <1>3, MarkFresh
  <1>4. ASSUME NEW r \in Reservations, CommitReservation(r)
        PROVE  FreshInv'
    BY <1>4, CommitFresh
  <1> QED  BY <1>1, <1>2, <1>3, <1>4 DEF OtherCall

\* No step but a restart makes a leg that cannot be filled.
LEMMA ApiFresh ==
    ASSUME Fresh, ApiInv, FreshInv, ApiNext
    PROVE  FreshInv' \/ RestartApi
  <1>1. Inv /\ DemoInv
    BY DEF ApiInv, StoreInv, EngineInv
  <1>2. CASE UNCHANGED vars
    BY <1>2 DEF vars, records, books, reservations, FreshInv, BooksAgree, LegsFillable,
       Active
  <1>3. ASSUME NEW o \in ClientOrders, NEW command \in Commands, ClientSubmit(o, command)
        PROVE  FreshInv'
    <2>1. /\ o \in Orders /\ command \in CommandType /\ command.context.filled = 0
          /\ SubmitOrder(o, command)
      BY <1>3, DemoAssumption, CommandsAssumption DEF Fresh, ClientSubmit, RoutedSubmit
    <2> QED  BY <1>1, <2>1, SubmitFresh
  <1>4. CASE SubmitCounter
    <2>1. PICK c \in CounterOrders : /\ CounterCommand(c) \in CommandType
                                     /\ CounterAccepted(c) \/ CounterRefused(c)
      BY <1>1, <1>4, CounterSubmits
    <2>2. CASE CounterAccepted(c)
      <3>1. /\ c \in Orders /\ SubmitOrder(c, CounterCommand(c))
            /\ CounterCommand(c).context.filled = 0
        BY <2>2 DEF CounterAccepted, RoutedSubmit, CounterOrders, CounterCommand
      <3> QED  BY <1>1, <2>1, <3>1, SubmitFresh
    <2>3. CASE CounterRefused(c)
      BY <1>2, <2>3 DEF CounterRefused, routedVars, allVars
    <2> QED  BY <2>1, <2>2, <2>3
  <1>5. CASE MarkCounter \/ CommitCounter
    <2>1. counter \in Reservations
      BY <1>1, <1>5 DEF MarkCounter, CommitCounter, DemoInv, CounterOrders
    <2> QED  BY <1>1, <1>5, <2>1, MarkFresh, CommitFresh DEF MarkCounter, CommitCounter
  <1>6. CASE OtherClientRequest
    <2>1. OtherCall
      BY <1>6, SettlementCalls
      DEF OtherClientRequest, RoutedCancelRequest, CancelOrderRequest,
          RoutedSettlementRequest, OtherCall
    <2> QED  BY <1>1, <2>1, OtherCallFresh
  <1> QED  BY <1>3, <1>4, <1>5, <1>6 DEF ApiNext, DemoStep

LEMMA FreshStoreStep ==
    ASSUME Fresh, ApiInv, FreshStore, [ApiNext]_apiVars
    PROVE  FreshStore'
  <1>1. StoreInv /\ DemoInv /\ FreshInv /\ RowsFillable(stored)
    BY DEF ApiInv, FreshStore
  <1>2. RowsFillable(stored)' <=> RowsFillable(stored')
    BY DEF RowsFillable, InFlight, CanFill, FitsOrder, ValidBasic, MaxClaim, Collateral,
       CollateralDelta, CumulativeCollateral
  <1>3. CASE UNCHANGED apiVars
    <2>1. /\ stored' = stored
          /\ UNCHANGED <<filled, resting, status, legs, inBook, bookFilled>>
      BY <1>3 DEF apiVars, routedVars, allVars, vars, records, books, reservations, serviceVars
    <2>2. FreshInv'
      BY <1>1, <2>1 DEF FreshInv, BooksAgree, LegsFillable, Active
    <2> QED  BY <1>1, <1>2, <2>1, <2>2 DEF FreshStore
  <1>4. CASE RestartApi
    <2>1. /\ filled' = stored.filled /\ status' = stored.status /\ legs' = stored.legs
          /\ resting' = stored.resting /\ stored' = stored
          /\ inBook' = {o \in Orders : resting'[o]}
          /\ bookFilled' = [o \in Orders |-> IF resting'[o] THEN filled'[o] ELSE 0]
      BY <1>4 DEF RestartApi, RecoverActors, Recover, RestoreEngine
    <2>2. BooksAgree'
      BY <2>1 DEF BooksAgree
    <2>3. LegsFillable'
      BY <1>1, <2>1 DEF LegsFillable, Active, RowsFillable, InFlight
    <2> QED  BY <1>1, <1>2, <2>1, <2>2, <2>3 DEF FreshStore, FreshInv
  <1>5. CASE ApiNext /\ ~RestartApi
    <2>1. FreshInv'
      BY <1>1, <1>5, ApiFresh
    <2>2. stored' \in {stored, Snapshot'}
      BY <1>1, <1>5, ApiCalls, CallStores DEF Recover, allVars, serviceVars
    <2>3. RowsFillable(Snapshot')
      BY <2>1 DEF FreshInv, LegsFillable, Active, RowsFillable, InFlight, Snapshot
    <2>4. RowsFillable(stored')
      BY <1>1, <2>2, <2>3
    <2> QED  BY <1>2, <2>1, <2>4 DEF FreshStore
  <1> QED  BY <1>3, <1>4, <1>5

(***************************************************************************)
(* So the market maker is never refused in the middle of its trade, and    *)
(* its commit fills every leg, whatever writes fail and wherever a restart *)
(* falls, provided that no client's order comes with an amount already     *)
(* filled: a book takes such an order as unfilled (append_mock_commit_events, *)
(* commit_reservation, insert_order).                                      *)
(***************************************************************************)
THEOREM DemoIsNeverRefused == Fresh => (ApiSpec => []DemoNeverRefused)
  <1> SUFFICES ASSUME Fresh
               PROVE  ApiSpec => []DemoNeverRefused
    OBVIOUS
  <1>1. ApiInit => FreshStore
    <2> SUFFICES ASSUME ApiInit
                 PROVE  FreshStore
      OBVIOUS
    <2>1. ServiceInit /\ Init
      BY DEF ApiInit, ActorsInit, ServiceInit
    <2>2. FreshInv
      BY <2>1 DEF Init, FreshInv, BooksAgree, LegsFillable, Active, ActiveStatuses
    <2>3. RowsFillable(stored)
      BY <2>1 DEF Init, ServiceInit, Snapshot, RowsFillable, InFlight, ActiveStatuses
    <2> QED  BY <2>2, <2>3 DEF FreshStore
  <1>2. ApiInv /\ FreshStore /\ [ApiNext]_apiVars => FreshStore'
    BY FreshStoreStep
  <1>3. ApiInv /\ FreshStore /\ ServingInv => DemoNeverRefused
    <2> SUFFICES ASSUME ApiInv, FreshStore, ServingInv
                 PROVE  DemoNeverRefused
      OBVIOUS
    <2>1. ASSUME stage = "Committing"
          PROVE  AppliedLegs(counter) = DOMAIN legs[counter]
      <3>1. Inv /\ FreshInv /\ counter \in Reservations /\ status[counter] = "Submitted"
        BY <2>1 DEF ApiInv, StoreInv, EngineInv, DemoInv, CounterOrders, FreshStore, ServingInv
      <3> QED  BY <3>1, SubmittedFillsAll
    <2> QED  BY <2>1 DEF ServingInv, DemoNeverRefused
  <1> QED  BY <1>1, <1>2, <1>3, ApiInvariance, DemoAlwaysServed, PTL DEF ApiSpec
=============================================================================
