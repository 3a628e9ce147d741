---------------------------- MODULE EngineProofs ----------------------------
(***************************************************************************)
(* Proofs about Engine for any set of orders, any requests and any plan    *)
(* the matcher may return.                                                 *)
(***************************************************************************)
EXTENDS Engine, TLAPS

USE DEF Reservations

Distinct(ls) == \A i, j \in DOMAIN ls : ls[i].order = ls[j].order => i = j

\* A reservation never has two legs for one order.
LegsDistinct == \A r \in Reservations : Distinct(legs[r])

\* An active reservation has locked exactly its legs' amounts, and nothing is
\* locked of an order that no active reservation holds.
HoldsExactly ==
    /\ \A r \in Reservations : Active(r) =>
          \A o \in LegOrders(legs[r]) : reserved[o] = LegAmount(legs[r], o)
    /\ \A o \in Orders : reserved[o] # 0 =>
          \E r \in Reservations : Active(r) /\ o \in LegOrders(legs[r])

\* An order without a record is nowhere.
Unrecorded ==
    \A o \in Orders : state[o] = "NoRecord" =>
        /\ ~resting[o]
        /\ status[o] = "NoReservation"
        /\ \A r \in Reservations : status[r] # "NoReservation" => o \notin LegOrders(legs[r])

AdmittedValid == \A o \in Orders : Admitted(o) => ValidBasic(o)

\* A resting order is alive, unfinished and on its book.
RestingAlive ==
    \A o \in Orders : resting[o] =>
        /\ state[o] \in AvailableStates \cup LockedStates
        /\ filled[o] < MaxClaim(o)
        /\ o \in inBook
        /\ bookFilled[o] <= filled[o]

Inv ==
    /\ TypeOK
    /\ LegsDistinct
    /\ NoDoubleMatch
    /\ LocksAgree
    /\ HoldsExactly
    /\ NoOvercommit
    /\ Unrecorded
    /\ AdmittedValid
    /\ RestingAlive
-----------------------------------------------------------------------------
LEMMA MaxClaimType ==
    ASSUME NEW o \in Orders
    PROVE  MaxClaim(o) \in Nat /\ Collateral(o) \in Nat
  BY TermsAssumption DEF OrderTerms, MaxClaim, Collateral

\* The amount of an order's leg is that of one of the legs.
LEMMA LegAmountOfOne ==
    ASSUME NEW ls \in Seq(Leg), NEW o \in LegOrders(ls)
    PROVE  \E i \in DOMAIN ls : ls[i].order = o /\ LegAmount(ls, o) = ls[i].amount
  <1>1. \E i \in DOMAIN ls : ls[i].order = o
    BY DEF LegOrders
  <1> DEFINE k == CHOOSE i \in DOMAIN ls : ls[i].order = o
  <1>2. k \in DOMAIN ls /\ ls[k].order = o
    BY <1>1
  <1>3. LegAmount(ls, o) = ls[k].amount
    BY DEF LegAmount
  <1> QED  BY <1>2, <1>3

LEMMA LegType ==
    ASSUME NEW ls \in Seq(Leg), NEW i \in DOMAIN ls
    PROVE  ls[i].order \in Orders /\ ls[i].amount \in Nat /\ ls[i].amount # 0
  <1>1. ls[i] \in Leg
    OBVIOUS
  <1> QED  BY <1>1 DEF Leg

LEMMA LegOrdersType ==
    ASSUME NEW ls \in Seq(Leg)
    PROVE  LegOrders(ls) \subseteq Orders
  BY LegType, Zenon DEF LegOrders

LEMMA LegAmountType ==
    ASSUME NEW ls \in Seq(Leg), NEW o \in Orders
    PROVE  /\ LegAmount(ls, o) \in Nat
           /\ o \in LegOrders(ls) <=> LegAmount(ls, o) # 0
  <1>1. CASE o \in LegOrders(ls)
    BY <1>1, LegAmountOfOne, LegType
  <1>2. CASE o \notin LegOrders(ls)
    BY <1>2 DEF LegAmount
  <1> QED  BY <1>1, <1>2

LEMMA LegAmountOfEach ==
    ASSUME NEW ls \in Seq(Leg), Distinct(ls), NEW i \in DOMAIN ls
    PROVE  /\ ls[i].order \in LegOrders(ls)
           /\ LegAmount(ls, ls[i].order) = ls[i].amount
  <1>1. ls[i].order \in LegOrders(ls)
    BY DEF LegOrders
  <1>2. PICK j \in DOMAIN ls : /\ ls[j].order = ls[i].order
                               /\ LegAmount(ls, ls[i].order) = ls[j].amount
    BY <1>1, LegAmountOfOne
  <1> QED  BY <1>1, <1>2 DEF Distinct

LEMMA InitInv == Init => Inv
  <1> SUFFICES ASSUME Init PROVE Inv
    OBVIOUS
  <1>1. \A r \in Reservations : legs[r] = <<>> /\ ~Active(r)
    BY DEF Init, Active, ActiveStatuses
  <1>2. TypeOK
    <2>1. <<>> \in Seq(Leg)
      OBVIOUS
    <2> QED  BY <2>1 DEF Init, TypeOK, OrderStates
  <1>3. \A r \in Reservations : LegOrders(legs[r]) = {}
    <2>1. LegOrders(<<>>) = {}
      BY DEF LegOrders
    <2> QED  BY <1>1, <2>1
  <1>4. LegsDistinct
    BY <1>1 DEF LegsDistinct, Distinct
  <1>5. \A o \in Orders : /\ state[o] = "NoRecord" /\ ~resting[o]
                          /\ status[o] = "NoReservation" /\ reserved[o] = 0
    BY DEF Init
  <1>6. NoDoubleMatch
    BY <1>1 DEF NoDoubleMatch
  <1>7. LocksAgree
    BY <1>1, <1>5 DEF LocksAgree
  <1>8. HoldsExactly
    BY <1>1, <1>5 DEF HoldsExactly
  <1>9. NoOvercommit /\ AdmittedValid
    BY <1>5 DEF NoOvercommit, AdmittedValid, Admitted
  <1>10. Unrecorded /\ RestingAlive
    BY <1>3, <1>5 DEF Unrecorded, RestingAlive
  <1> QED
    BY <1>2, <1>4, <1>6, <1>7, <1>8, <1>9, <1>10 DEF Inv
-----------------------------------------------------------------------------
\* What LetGo and a commit do to the locked amounts: those of the released
\* reservations drop to zero, the rest are as they were.
LEMMA ReservedWithoutValue ==
    ASSUME Inv, NEW rs \in SUBSET Reservations, \A r \in rs : Active(r),
           NEW o \in Orders
    PROVE  /\ ReservedWithout(rs)[o] \in Nat
           /\ (\E r \in rs : o \in LegOrders(legs[r])) => ReservedWithout(rs)[o] = 0
           /\ ~(\E r \in rs : o \in LegOrders(legs[r])) =>
                  ReservedWithout(rs)[o] = reserved[o]
  <1> DEFINE holders == {r \in rs : o \in LegOrders(legs[r])}
             holder  == CHOOSE r \in holders : TRUE
  <1>0. reserved[o] \in Nat
    BY DEF Inv, TypeOK
  <1>1. ReservedWithout(rs)[o] =
          IF holders = {} THEN reserved[o]
          ELSE reserved[o] - LegAmount(legs[holder], o)
    BY DEF ReservedWithout
  <1>2. CASE holders = {}
    BY <1>0, <1>1, <1>2
  <1>3. CASE holders # {}
    <2>1. holder \in rs /\ o \in LegOrders(legs[holder])
      BY <1>3
    <2>2. reserved[o] = LegAmount(legs[holder], o)
      BY <2>1 DEF Inv, HoldsExactly
    <2> QED  BY <1>0, <1>1, <1>3, <2>1, <2>2
  <1> QED  BY <1>2, <1>3

\* Reservations that end in Released or Expired leave a consistent engine.
LEMMA LetGoInv ==
    ASSUME Inv, NEW rs \in SUBSET Reservations, \A r \in rs : Active(r),
           NEW ending \in {"Released", "Expired"},
           LetGo(rs, ending), errored' \in BOOLEAN
    PROVE  Inv'
  <1> DEFINE Freed(o) == \E r \in rs : o \in LegOrders(legs[r])
  <1>1. /\ UNCHANGED <<filled, resting, inBook, bookFilled, legs, expiresAt>>
        /\ \A r \in Reservations : status'[r] = IF r \in rs THEN ending ELSE status[r]
        /\ \A o \in Orders : state'[o] = IF Freed(o) THEN ReleasedState(o) ELSE state[o]
        /\ reserved' = ReservedWithout(rs)
    BY DEF LetGo, FreedOrders, books
  <1>2. \A o \in Orders : /\ Freed(o) => reserved'[o] = 0
                          /\ ~Freed(o) => reserved'[o] = reserved[o]
    BY <1>1, ReservedWithoutValue
  <1>3. \A o \in Orders : ReleasedState(o) \in {"Open", "PartiallyFilled", "Inactive"}
    BY DEF ReleasedState
  <1>4. \A r \in Reservations : Active(r)' <=> Active(r) /\ r \notin rs
    BY <1>1 DEF Active, ActiveStatuses
  <1>5. \A o \in Orders : Freed(o) => state[o] \in LockedStates
    BY DEF Inv, LocksAgree, Active, ActiveStatuses, LockedStates
  <1>6. TypeOK'
    <2>1. state' \in [Orders -> OrderStates \cup {"NoRecord"}]
      BY <1>1, <1>3 DEF LetGo, FreedOrders, Inv, TypeOK, OrderStates
    <2>2. status' \in [Reservations -> Statuses \cup {"NoReservation"}]
      BY DEF LetGo, Inv, TypeOK, Statuses
    <2>3. reserved' \in [Orders -> Nat]
      <3>1. \A o \in Orders : ReservedWithout(rs)[o] \in Nat
        BY ReservedWithoutValue
      <3> QED  BY <1>1, <3>1 DEF ReservedWithout
    <2> QED  BY <1>1, <2>1, <2>2, <2>3 DEF Inv, TypeOK
  <1>7. LegsDistinct'
    BY <1>1 DEF Inv, LegsDistinct, Distinct
  <1>8. NoDoubleMatch'
    <2>1. \A r, s \in Reservations : Active(r)' /\ Active(s)' /\ r # s =>
             LegOrders(legs[r]) \cap LegOrders(legs[s]) = {}
      BY <1>4 DEF Inv, NoDoubleMatch
    <2> QED  BY <1>1, <2>1 DEF NoDoubleMatch
  <1>9. \A r \in Reservations : Active(r)' =>
           \A o \in LegOrders(legs[r]) : o \in Orders /\ ~Freed(o)
    <2> SUFFICES ASSUME NEW r \in Reservations, Active(r), r \notin rs,
                        NEW o \in LegOrders(legs[r])
                 PROVE  o \in Orders /\ ~Freed(o)
      BY <1>4
    <2>1. o \in Orders
      BY LegOrdersType DEF Inv, TypeOK
    <2> QED  BY <2>1 DEF Inv, NoDoubleMatch
  <1>10. LocksAgree'
    <2>1. \A r \in Reservations : Active(r)' =>
             \A o \in LegOrders(legs[r]) : state'[o] = status'[r]
      BY <1>1, <1>4, <1>9 DEF Inv, LocksAgree
    <2>2. ASSUME NEW o \in Orders, state'[o] = "Reserved"
          PROVE  \E r \in Reservations : Active(r)' /\ o \in LegOrders(legs[r])
      <3>1. ~Freed(o) /\ state[o] = "Reserved"
        BY <1>1, <1>3, <2>2
      <3> QED  BY <1>4, <3>1 DEF Inv, LocksAgree, ActiveHolders
    <2> QED  BY <1>1, <2>1, <2>2 DEF LocksAgree, ActiveHolders
  <1>11. HoldsExactly'
    <2>1. \A r \in Reservations : Active(r)' =>
             \A o \in LegOrders(legs[r]) : reserved'[o] = LegAmount(legs[r], o)
      BY <1>2, <1>4, <1>9 DEF Inv, HoldsExactly
    <2>2. ASSUME NEW o \in Orders, reserved'[o] # 0
          PROVE  \E r \in Reservations : Active(r)' /\ o \in LegOrders(legs[r])
      BY <1>2, <1>4, <2>2 DEF Inv, HoldsExactly
    <2> QED  BY <1>1, <2>1, <2>2 DEF HoldsExactly
  <1>12. \A o \in Orders : Admitted(o)' <=> Admitted(o)
    BY <1>1, <1>3, <1>5 DEF Admitted, LockedStates
  <1>13. NoOvercommit'
    <2>1. \A o \in Orders : reserved[o] \in Nat
      BY DEF Inv, TypeOK
    <2>2. \A o \in Orders : reserved'[o] <= reserved[o]
      BY <1>2, <2>1
    <2> QED
      BY <1>1, <1>6, <1>12, <2>1, <2>2, MaxClaimType DEF Inv, NoOvercommit, TypeOK, MaxClaim
  <1>14. Unrecorded'
    BY <1>1, <1>3, <1>5 DEF Inv, Unrecorded, LockedStates, Active, ActiveStatuses, LegOrders
  <1>15. AdmittedValid'
    BY <1>12 DEF Inv, AdmittedValid, ValidBasic, MaxClaim, Collateral
  <1>16. RestingAlive'
    BY <1>1 DEF Inv, RestingAlive, ReleasedState, AvailableStates, MaxClaim
  <1> QED
    BY <1>6, <1>7, <1>8, <1>10, <1>11, <1>13, <1>14, <1>15, <1>16 DEF Inv
-----------------------------------------------------------------------------
\* A submission that takes no liquidity adds a record, and perhaps an order
\* to a book, and touches no reservation.
LEMMA NewRecordInv ==
    ASSUME Inv, NEW o \in Orders, state[o] = "NoRecord",
           NEW newState \in {"Rejected", "Inactive", "Open"},
           NEW alreadyFilled \in Nat, NEW rests \in BOOLEAN,
           NewRecord(o, newState, alreadyFilled, rests),
           newState # "Rejected" => ValidBasic(o) /\ alreadyFilled < MaxClaim(o),
           rests => newState = "Open",
           inBook' = IF rests THEN inBook \cup {o} ELSE inBook,
           bookFilled' = IF rests THEN [bookFilled EXCEPT ![o] = 0] ELSE bookFilled,
           UNCHANGED reservations, errored' \in BOOLEAN
    PROVE  Inv'
  <1>1. /\ UNCHANGED <<status, legs, expiresAt, reserved>>
        /\ filled' = [filled EXCEPT ![o] = alreadyFilled]
        /\ resting' = [resting EXCEPT ![o] = rests]
        /\ state' = [state EXCEPT ![o] = newState]
    BY DEF NewRecord, reservations
  <1>2. TypeOK
    BY DEF Inv
  <1>3. TypeOK'
    BY <1>1, <1>2 DEF TypeOK, OrderStates
  <1>4. \A r \in Reservations : Active(r)' <=> Active(r)
    BY <1>1 DEF Active
  <1>5. \A r \in Reservations : Active(r) => o \notin LegOrders(legs[r])
    BY DEF Inv, Unrecorded, Active, ActiveStatuses
  <1>6. \A x \in Orders \ {o} : /\ state'[x] = state[x] /\ filled'[x] = filled[x]
                                /\ resting'[x] = resting[x]
                                /\ bookFilled'[x] = bookFilled[x]
                                /\ (x \in inBook' <=> x \in inBook)
    BY <1>1, <1>2 DEF TypeOK
  <1>7. /\ state'[o] = newState /\ filled'[o] = alreadyFilled /\ resting'[o] = rests
        /\ rests => o \in inBook' /\ bookFilled'[o] = 0
    BY <1>1, <1>2 DEF TypeOK
  <1>8. reserved'[o] = 0
    BY <1>1, <1>5 DEF Inv, HoldsExactly
  <1>9. LegsDistinct'
    BY <1>1 DEF Inv, LegsDistinct
  <1>10. NoDoubleMatch'
    BY <1>1, <1>4 DEF Inv, NoDoubleMatch
  <1>11. LocksAgree'
    <2>1. \A r \in Reservations : Active(r) =>
             \A x \in LegOrders(legs[r]) : x \in Orders \ {o}
      BY <1>2, <1>5, LegOrdersType DEF TypeOK
    <2>2. \A x \in Orders : state'[x] = "Reserved" => x # o /\ state[x] = "Reserved"
      BY <1>6, <1>7
    <2> QED
      BY <1>1, <1>4, <1>6, <2>1, <2>2 DEF Inv, LocksAgree, ActiveHolders
  <1>12. HoldsExactly'
    BY <1>1, <1>4 DEF Inv, HoldsExactly
  <1>13. NoOvercommit'
    <2>1. ASSUME NEW x \in Orders, Admitted(x)'
          PROVE  filled'[x] + reserved'[x] <= MaxClaim(x)
      <3>1. CASE x = o
        BY <1>7, <1>8, <2>1, <3>1, MaxClaimType DEF Admitted
      <3>2. CASE x # o
        BY <1>1, <1>6, <2>1, <3>2 DEF Inv, NoOvercommit, Admitted
      <3> QED  BY <3>1, <3>2
    <2> QED  BY <2>1 DEF NoOvercommit, MaxClaim
  <1>14. Unrecorded'
    BY <1>1, <1>6, <1>7 DEF Inv, Unrecorded
  <1>15. AdmittedValid'
    <2>1. \A x \in Orders : Admitted(x)' => ValidBasic(x)
      BY <1>6, <1>7 DEF Inv, AdmittedValid, Admitted
    <2> QED  BY <2>1 DEF AdmittedValid, ValidBasic, MaxClaim, Collateral
  <1>16. RestingAlive'
    <2>1. ASSUME NEW x \in Orders, resting'[x]
          PROVE  /\ state'[x] \in AvailableStates \cup LockedStates
                 /\ filled'[x] < MaxClaim(x)
                 /\ x \in inBook'
                 /\ bookFilled'[x] <= filled'[x]
      BY <1>6, <1>7, <2>1 DEF Inv, RestingAlive, AvailableStates
    <2> QED  BY <2>1 DEF RestingAlive, MaxClaim
  <1> QED
    BY <1>3, <1>9, <1>10, <1>11, <1>12, <1>13, <1>14, <1>15, <1>16 DEF Inv

\* What validation establishes about an accepted order.
LEMMA AcceptedOrder ==
    ASSUME NEW o \in Orders, NEW command \in CommandType, Accepts(o, command.context)
    PROVE  /\ ValidBasic(o)
           /\ command.context.filled \in Nat
           /\ command.context.filled < MaxClaim(o)
  <1>1. command.context.filled \in Nat
    BY DEF CommandType, ContextType
  <1> QED  BY <1>1, MaxClaimType DEF Accepts, RemainingClaim

LEMMA CancelOrderInv ==
    ASSUME Inv, NEW o \in Orders, CancelOrder(o)
    PROVE  Inv'
  <1>1. /\ UNCHANGED <<filled, status, legs, expiresAt, reserved>>
        /\ state[o] # "NoRecord"
        /\ resting' = [resting EXCEPT ![o] = FALSE]
        /\ inBook' = IF resting[o] THEN inBook \ {o} ELSE inBook
        /\ bookFilled' = IF resting[o] THEN [bookFilled EXCEPT ![o] = 0] ELSE bookFilled
        /\ \/ IsAllowedTransition(state[o], "Cancelled")
              /\ state' = [state EXCEPT ![o] = "Cancelled"]
           \/ state' = state
        /\ errored' \in BOOLEAN
    BY DEF CancelOrder, reservations
  <1>2. TypeOK
    BY DEF Inv
  <1>3. TypeOK'
    <2>1. state' \in [Orders -> OrderStates \cup {"NoRecord"}]
      BY <1>1, <1>2 DEF TypeOK, OrderStates
    <2>2. inBook' \subseteq Orders /\ bookFilled' \in [Orders -> Nat]
      BY <1>1, <1>2 DEF TypeOK
    <2> QED  BY <1>1, <1>2, <2>1, <2>2 DEF TypeOK
  <1>4. \A r \in Reservations : Active(r)' <=> Active(r)
    BY <1>1 DEF Active
  <1>5. /\ \A x \in Orders \ {o} :
              /\ state'[x] = state[x] /\ resting'[x] = resting[x]
              /\ bookFilled'[x] = bookFilled[x] /\ (x \in inBook' <=> x \in inBook)
        /\ ~resting'[o]
    BY <1>1, <1>2 DEF TypeOK
  <1>6. state'[o] = state[o] \/ (state[o] \notin LockedStates /\ state'[o] = "Cancelled"
                                   /\ state[o] # "Rejected")
    BY <1>1, <1>2 DEF TypeOK, IsAllowedTransition, AllowedTransitions,
       AvailableStates, LockedStates
  <1>7. \A x \in Orders : state'[x] = state[x] \/ (x = o /\ state[o] \notin LockedStates
                              /\ state'[o] = "Cancelled" /\ state[o] # "Rejected")
    BY <1>5, <1>6
  <1>8. LegsDistinct' /\ NoDoubleMatch' /\ HoldsExactly'
    BY <1>1, <1>4 DEF Inv, LegsDistinct, NoDoubleMatch, HoldsExactly
  <1>9. LocksAgree'
    <2>1. \A r \in Reservations : Active(r) =>
             \A x \in LegOrders(legs[r]) : x \in Orders /\ state[x] \in LockedStates
      BY <1>2, LegOrdersType
      DEF Inv, TypeOK, LocksAgree, Active, ActiveStatuses, LockedStates
    <2>2. \A x \in Orders : state'[x] = "Reserved" => state[x] = "Reserved"
      BY <1>7
    <2> QED  BY <1>1, <1>4, <1>7, <2>1, <2>2 DEF Inv, LocksAgree, ActiveHolders
  <1>10. \A x \in Orders : Admitted(x)' => Admitted(x)
    BY <1>1, <1>7 DEF Admitted
  <1>11. NoOvercommit'
    BY <1>1, <1>10 DEF Inv, NoOvercommit, MaxClaim
  <1>12. Unrecorded'
    BY <1>1, <1>5, <1>7 DEF Inv, Unrecorded
  <1>13. AdmittedValid'
    BY <1>10 DEF Inv, AdmittedValid, ValidBasic, MaxClaim, Collateral
  <1>14. RestingAlive'
    BY <1>1, <1>5 DEF Inv, RestingAlive, MaxClaim
  <1> QED
    BY <1>3, <1>8, <1>9, <1>11, <1>12, <1>13, <1>14 DEF Inv
-----------------------------------------------------------------------------
LEMMA MarkSubmittedInv ==
    ASSUME Inv, NEW r \in Reservations, NEW now, MarkReservationSubmitted(r, now)
    PROVE  Inv'
  <1>1. /\ UNCHANGED <<filled, resting, inBook, bookFilled, legs, expiresAt, reserved>>
        /\ status[r] = "Reserved"
        /\ status' = [status EXCEPT ![r] = "Submitted"]
        /\ state' = [o \in Orders |->
                        IF o \in LegOrders(legs[r]) THEN "Submitted" ELSE state[o]]
        /\ errored' = FALSE
    BY DEF MarkReservationSubmitted, books
  <1>2. TypeOK
    BY DEF Inv
  <1>3. TypeOK'
    <2>1. status' \in [Reservations -> Statuses \cup {"NoReservation"}]
      BY <1>1, <1>2 DEF TypeOK, Statuses
    <2>2. state' \in [Orders -> OrderStates \cup {"NoRecord"}]
      BY <1>1, <1>2 DEF TypeOK, OrderStates
    <2> QED  BY <1>1, <1>2, <2>1, <2>2 DEF TypeOK
  <1>4. \A s \in Reservations : Active(s)' <=> Active(s)
    BY <1>1, <1>2 DEF Active, ActiveStatuses, TypeOK
  <1>5. Active(r)
    BY <1>1 DEF Active, ActiveStatuses
  <1>6. \A o \in LegOrders(legs[r]) : o \in Orders /\ state[o] = "Reserved"
    BY <1>1, <1>2, <1>5, LegOrdersType DEF Inv, TypeOK, LocksAgree
  <1>7. LegsDistinct' /\ NoDoubleMatch' /\ HoldsExactly'
    BY <1>1, <1>4 DEF Inv, LegsDistinct, NoDoubleMatch, HoldsExactly
  <1>8. LocksAgree'
    <2>1. ASSUME NEW s \in Reservations, Active(s), NEW o \in LegOrders(legs[s])
          PROVE  state'[o] = status'[s]
      <3>1. o \in Orders
        BY <1>2, LegOrdersType DEF TypeOK
      <3>2. CASE s = r
        BY <1>1, <1>2, <2>1, <3>1, <3>2 DEF TypeOK
      <3>3. CASE s # r
        <4>1. o \notin LegOrders(legs[r])
          BY <1>5, <2>1, <3>3 DEF Inv, NoDoubleMatch
        <4> QED  BY <1>1, <1>2, <2>1, <3>1, <3>3, <4>1 DEF Inv, LocksAgree, TypeOK
      <3> QED  BY <3>2, <3>3
    <2>2. \A o \in Orders : state'[o] = "Reserved" => state[o] = "Reserved"
      BY <1>1
    <2> QED  BY <1>1, <1>4, <2>1, <2>2 DEF Inv, LocksAgree, ActiveHolders
  <1>9. \A o \in Orders : state'[o] = state[o] \/
                          (state[o] = "Reserved" /\ state'[o] = "Submitted")
    BY <1>1, <1>6
  <1>10. NoOvercommit' /\ AdmittedValid'
    BY <1>1, <1>9
    DEF Inv, NoOvercommit, AdmittedValid, Admitted, ValidBasic, MaxClaim, Collateral
  <1>11. Unrecorded'
    BY <1>1, <1>2, <1>9 DEF Inv, Unrecorded, TypeOK
  <1>12. RestingAlive'
    BY <1>1, <1>9 DEF Inv, RestingAlive, LockedStates, MaxClaim
  <1> QED
    BY <1>3, <1>7, <1>8, <1>10, <1>11, <1>12 DEF Inv

\* The shape of a plan.
LEMMA PlanType ==
    ASSUME Inv, NEW o \in Orders, NEW context, context.filled \in Nat,
           NEW plan \in Plans(o, context)
    PROVE  /\ plan.taken \in Nat \ {0}
           /\ plan.fills \in Seq(Leg)
           /\ Distinct(plan.fills)
           /\ \A i \in DOMAIN plan.fills : plan.fills[i].order \in inBook
  <1>1. MaxClaim(o) \in Nat
    BY MaxClaimType
  <1>2. plan.taken \in Nat \ {0}
    BY <1>1 DEF Plans, RemainingClaim
  <1>3. MakerFills(o, context) \subseteq Leg
    <2>1. ASSUME NEW fill \in MakerFills(o, context) PROVE fill \in Leg
      <3>1. Candidates(o, context.now) \subseteq Orders
        BY DEF Candidates, Inv, TypeOK
      <3>2. fill \in [order : Candidates(o, context.now),
                      amount : 1..RemainingClaim(o, context.filled)]
        BY DEF MakerFills
      <3> QED  BY <1>1, <3>1, <3>2 DEF RemainingClaim, Leg
    <2> QED  BY <2>1
  <1>4. PICK n \in 1..MaxMakerOrders : plan.fills \in [1..n -> MakerFills(o, context)]
    BY DEF Plans
  <1>5. n \in Nat /\ DOMAIN plan.fills = 1..n
    BY <1>4, MakersAssumption
  <1>6. \A i \in 1..n : plan.fills[i] \in MakerFills(o, context)
    BY <1>4
  <1>7. \A i \in DOMAIN plan.fills : plan.fills[i].order \in inBook
    BY <1>5, <1>6 DEF MakerFills, Candidates
  <1>8. plan.fills \in Seq(Leg)
    <2>1. plan.fills \in [1..n -> Leg]
      BY <1>3, <1>4
    <2> QED  BY <1>5, <2>1
  <1>9. Distinct(plan.fills)
    BY DEF Plans, Distinct
  <1> QED  BY <1>2, <1>7, <1>8, <1>9

\* The legs of a reservation: the taker's, then the makers'.
TakerFirst(o, taken, fills) == <<[order |-> o, amount |-> taken]>> \o fills

LEMMA NewLegs ==
    ASSUME NEW o \in Orders, NEW taken \in Nat \ {0}, NEW fills \in Seq(Leg),
           Distinct(fills), \A i \in DOMAIN fills : fills[i].order # o
    PROVE  LET ls == TakerFirst(o, taken, fills)
           IN  /\ ls \in Seq(Leg)
               /\ Distinct(ls)
               /\ LegOrders(ls) = {o} \cup LegOrders(fills)
               /\ LegAmount(ls, o) = taken
               /\ \A i \in DOMAIN fills : LegAmount(ls, fills[i].order) = fills[i].amount
  <1> DEFINE ls == TakerFirst(o, taken, fills)
  <1>1. [order |-> o, amount |-> taken] \in Leg
    BY DEF Leg
  <1>2. <<[order |-> o, amount |-> taken]>> \in Seq(Leg)
    BY <1>1
  <1>3. /\ ls \in Seq(Leg)
        /\ Len(ls) = Len(fills) + 1
        /\ ls[1] = [order |-> o, amount |-> taken]
        /\ \A i \in 1..Len(fills) : ls[i + 1] = fills[i]
        /\ \A i \in 2..Len(ls) : i - 1 \in 1..Len(fills) /\ ls[i] = fills[i - 1]
    BY <1>2 DEF TakerFirst
  <1> HIDE DEF ls
  <1>4. /\ DOMAIN ls = 1..Len(ls) /\ DOMAIN fills = 1..Len(fills)
        /\ Len(ls) \in Nat /\ Len(fills) \in Nat
    BY <1>3
  <1>5. Distinct(ls)
    <2> SUFFICES ASSUME NEW i \in 1..Len(ls), NEW j \in 1..Len(ls),
                        ls[i].order = ls[j].order
                 PROVE  i = j
      BY <1>4 DEF Distinct
    <2>0. ASSUME NEW k \in 1..Len(ls), k # 1 PROVE ls[k].order # o
      <3>1. k - 1 \in DOMAIN fills /\ ls[k] = fills[k - 1]
        BY <1>3, <1>4, <2>0
      <3> QED  BY <3>1
    <2>1. CASE i = 1 /\ j # 1
      BY <1>3, <2>0, <2>1
    <2>2. CASE i # 1 /\ j = 1
      BY <1>3, <2>0, <2>2
    <2>3. CASE i # 1 /\ j # 1
      <3>1. /\ i - 1 \in DOMAIN fills /\ j - 1 \in DOMAIN fills
            /\ fills[i - 1].order = fills[j - 1].order
        BY <1>3, <1>4, <2>3
      <3>2. i - 1 = j - 1
        BY <3>1 DEF Distinct
      <3> QED  BY <1>4, <3>2
    <2> QED  BY <2>1, <2>2, <2>3
  <1>6. LegOrders(ls) = {o} \cup LegOrders(fills)
    <2>1. ASSUME NEW x \in LegOrders(ls) PROVE x \in {o} \cup LegOrders(fills)
      <3>1. PICK i \in 1..Len(ls) : ls[i].order = x
        BY <1>4 DEF LegOrders
      <3>2. CASE i = 1
        BY <1>3, <3>1, <3>2
      <3>3. CASE i # 1
        <4>1. i - 1 \in DOMAIN fills /\ fills[i - 1].order = x
          BY <1>3, <1>4, <3>1, <3>3
        <4> QED  BY <4>1 DEF LegOrders
      <3> QED  BY <3>2, <3>3
    <2>2. o \in LegOrders(ls)
      <3>1. 1 \in DOMAIN ls /\ ls[1].order = o
        BY <1>3, <1>4
      <3> QED  BY <3>1 DEF LegOrders
    <2>3. ASSUME NEW x \in LegOrders(fills) PROVE x \in LegOrders(ls)
      <3>1. PICK i \in 1..Len(fills) : fills[i].order = x
        BY <1>4 DEF LegOrders
      <3>2. i + 1 \in DOMAIN ls /\ ls[i + 1].order = x
        BY <1>3, <1>4, <3>1
      <3> QED  BY <3>2 DEF LegOrders
    <2> QED  BY <2>1, <2>2, <2>3
  <1>7. LegAmount(ls, o) = taken
    <2>1. 1 \in DOMAIN ls /\ ls[1].order = o /\ ls[1].amount = taken
      BY <1>3, <1>4
    <2> QED  BY <1>3, <1>5, <2>1, LegAmountOfEach
  <1>8. ASSUME NEW i \in DOMAIN fills
        PROVE  LegAmount(ls, fills[i].order) = fills[i].amount
    <2>1. i + 1 \in DOMAIN ls /\ ls[i + 1] = fills[i]
      BY <1>3, <1>4
    <2>2. LegAmount(ls, ls[i + 1].order) = ls[i + 1].amount
      BY <1>3, <1>5, <2>1, LegAmountOfEach
    <2> QED  BY <2>1, <2>2
  <1> QED  BY <1>3, <1>5, <1>6, <1>7, <1>8 DEF ls

\* A match that is reserved locks orders nobody else holds, within their sizes.
LEMMA ReserveMatchInv ==
    ASSUME Inv, NEW o \in Orders, NEW command \in CommandType, state[o] = "NoRecord",
           Accepts(o, command.context),
           NEW plan \in Plans(o, command.context),
           ReserveMatch(o, command, plan)
    PROVE  Inv'
  <1> DEFINE ls == legs'[o]
             ctx == command.context
  <1>1. TypeOK
    BY DEF Inv
  <1>2. /\ status[o] = "NoReservation"
        /\ status' = [status EXCEPT ![o] = "Reserved"]
        /\ legs' = [legs EXCEPT ![o] =
                        <<[order |-> o, amount |-> plan.taken]>> \o plan.fills]
        /\ reserved' = [x \in Orders |-> reserved[x] + LegAmount(ls, x)]
        /\ filled' = [filled EXCEPT ![o] = ctx.filled]
        /\ resting' = [resting EXCEPT ![o] = FALSE]
        /\ state' = [x \in Orders |->
                        IF x \in LegOrders(ls) THEN "Reserved" ELSE state[x]]
        /\ UNCHANGED <<inBook, bookFilled>>
        /\ errored' \in BOOLEAN
    BY DEF ReserveMatch, LockOrders, books
  <1>3. ctx.filled \in Nat /\ ctx.filled < MaxClaim(o) /\ ValidBasic(o)
    BY AcceptedOrder
  <1>4. /\ plan.taken \in Nat \ {0} /\ plan.fills \in Seq(Leg)
        /\ Distinct(plan.fills)
    BY <1>3, PlanType
  <1>5. /\ plan.taken <= Available(o, ctx.filled) - reserved[o]
        /\ \A i \in DOMAIN plan.fills :
              /\ state[plan.fills[i].order] \in AvailableStates
              /\ plan.fills[i].amount <=
                    Available(plan.fills[i].order, filled[plan.fills[i].order])
                        - reserved[plan.fills[i].order]
    BY DEF ReserveMatch, Reservable
  <1>6. \A i \in DOMAIN plan.fills : plan.fills[i].order # o
    BY <1>5 DEF AvailableStates
  <1>7. /\ ls \in Seq(Leg)
        /\ Distinct(ls)
        /\ LegOrders(ls) = {o} \cup LegOrders(plan.fills)
        /\ LegAmount(ls, o) = plan.taken
        /\ \A i \in DOMAIN plan.fills :
              LegAmount(ls, plan.fills[i].order) = plan.fills[i].amount
    <2>1. ls = TakerFirst(o, plan.taken, plan.fills)
      BY <1>1, <1>2 DEF TypeOK, TakerFirst
    <2>2. LET new == TakerFirst(o, plan.taken, plan.fills)
          IN  /\ new \in Seq(Leg)
              /\ Distinct(new)
              /\ LegOrders(new) = {o} \cup LegOrders(plan.fills)
              /\ LegAmount(new, o) = plan.taken
              /\ \A i \in DOMAIN plan.fills :
                    LegAmount(new, plan.fills[i].order) = plan.fills[i].amount
      <3> DEFINE fills == plan.fills
                 taken == plan.taken
      <3>1. /\ taken \in Nat \ {0} /\ fills \in Seq(Leg) /\ Distinct(fills)
            /\ \A i \in DOMAIN fills : fills[i].order # o
        BY <1>4, <1>6
      <3> HIDE DEF fills, taken
      <3>2. LET new == TakerFirst(o, taken, fills)
            IN  /\ new \in Seq(Leg)
                /\ Distinct(new)
                /\ LegOrders(new) = {o} \cup LegOrders(fills)
                /\ LegAmount(new, o) = taken
                /\ \A i \in DOMAIN fills :
                      LegAmount(new, fills[i].order) = fills[i].amount
        BY ONLY <3>1, NewLegs, o \in Orders
      <3> QED  BY <3>2 DEF fills, taken
    <2> HIDE DEF ls
    <2> QED  BY <2>1, <2>2
  <1>8. \A s \in Reservations \ {o} : legs'[s] = legs[s] /\ status'[s] = status[s]
    BY <1>1, <1>2 DEF TypeOK
  <1>9. status'[o] = "Reserved"
    BY <1>1, <1>2 DEF TypeOK
  <1>10. /\ \A s \in Reservations \ {o} : Active(s)' <=> Active(s)
         /\ Active(o)' /\ ~Active(o)
    BY <1>2, <1>8, <1>9 DEF Active, ActiveStatuses
  <1> HIDE DEF ls
  <1>11. ASSUME NEW x \in LegOrders(ls)
         PROVE  /\ x \in Orders
                /\ x = o \/ (state[x] \in AvailableStates /\ x # o)
    <2>1. x \in Orders
      BY <1>7, LegOrdersType
    <2>2. CASE x = o
      BY <2>1, <2>2
    <2>3. CASE x # o
      <3>1. PICK i \in DOMAIN plan.fills : plan.fills[i].order = x
        BY <1>7, <2>3 DEF LegOrders
      <3> QED  BY <1>5, <2>1, <2>3, <3>1
    <2> QED  BY <2>2, <2>3
  <1>12. ASSUME NEW x \in LegOrders(ls), NEW s \in Reservations, Active(s)
         PROVE  x \notin LegOrders(legs[s])
    BY <1>11, <1>12
    DEF Inv, Unrecorded, LocksAgree, Active, ActiveStatuses, AvailableStates
  <1>13. \A x \in LegOrders(ls) : reserved[x] = 0
    BY <1>11, <1>12 DEF Inv, HoldsExactly
  <1>14. \A x \in Orders : /\ reserved[x] \in Nat /\ LegAmount(ls, x) \in Nat
                           /\ x \notin LegOrders(ls) => LegAmount(ls, x) = 0
    BY <1>1, <1>7, LegAmountType DEF TypeOK
  <1>15. \A x \in Orders : reserved'[x] =
            IF x \in LegOrders(ls) THEN LegAmount(ls, x) ELSE reserved[x]
    BY <1>2, <1>13, <1>14
  <1>16. /\ filled'[o] = ctx.filled /\ ~resting'[o]
         /\ \A x \in Orders \ {o} : filled'[x] = filled[x] /\ resting'[x] = resting[x]
    BY <1>1, <1>2 DEF TypeOK
  <1>17. \A x \in Orders : state'[x] =
            IF x \in LegOrders(ls) THEN "Reserved" ELSE state[x]
    BY <1>2
  <1>18. TypeOK'
    <2>1. state' \in [Orders -> OrderStates \cup {"NoRecord"}]
      BY <1>1, <1>2 DEF TypeOK, OrderStates
    <2>2. status' \in [Reservations -> Statuses \cup {"NoReservation"}]
      BY <1>1, <1>2 DEF TypeOK, Statuses
    <2>3. legs' \in [Reservations -> Seq(Leg)]
      BY <1>1, <1>2, <1>7 DEF TypeOK, ls
    <2>4. expiresAt' \in [Reservations -> Nat \cup {None}]
      <3>1. command.ttl \in Nat \cup {None} /\ ctx.now \in Nat
        BY DEF CommandType, ContextType
      <3> QED  BY <1>1, <3>1 DEF ReserveMatch, TypeOK
    <2>5. reserved' \in [Orders -> Nat]
      BY <1>2, <1>14
    <2>6. filled' \in [Orders -> Nat] /\ resting' \in [Orders -> BOOLEAN]
      BY <1>1, <1>2, <1>3 DEF TypeOK
    <2> QED  BY <1>1, <1>2, <2>1, <2>2, <2>3, <2>4, <2>5, <2>6 DEF TypeOK
  <1>19. LegsDistinct'
    <2>1. \A r \in Reservations : Distinct(legs'[r])
      BY <1>7, <1>8 DEF Inv, LegsDistinct, ls
    <2> QED  BY <2>1 DEF LegsDistinct, Distinct
  <1>20. NoDoubleMatch'
    <2>1. ASSUME NEW r \in Reservations, NEW s \in Reservations,
                 Active(r)', Active(s)', r # s
          PROVE  LegOrders(legs'[r]) \cap LegOrders(legs'[s]) = {}
      <3>1. CASE r = o
        <4>1. legs'[r] = ls /\ legs'[s] = legs[s] /\ Active(s)
          BY <1>8, <1>10, <2>1, <3>1 DEF ls
        <4> QED  BY <1>12, <4>1
      <3>2. CASE s = o
        <4>1. legs'[s] = ls /\ legs'[r] = legs[r] /\ Active(r)
          BY <1>8, <1>10, <2>1, <3>2 DEF ls
        <4> QED  BY <1>12, <4>1
      <3>3. CASE r # o /\ s # o
        <4>1. legs'[s] = legs[s] /\ legs'[r] = legs[r] /\ Active(r) /\ Active(s)
          BY <1>8, <1>10, <2>1, <3>3
        <4> QED  BY <2>1, <4>1 DEF Inv, NoDoubleMatch
      <3> QED  BY <3>1, <3>2, <3>3
    <2> QED  BY <2>1 DEF NoDoubleMatch, LegOrders
  <1>21. \A s \in Reservations \ {o} : Active(s) =>
            \A x \in LegOrders(legs[s]) : x \in Orders /\ x \notin LegOrders(ls)
    BY <1>1, <1>12, LegOrdersType DEF TypeOK
  <1>22. LocksAgree'
    <2>1. ASSUME NEW s \in Reservations, Active(s)', NEW x \in LegOrders(legs'[s])
          PROVE  state'[x] = status'[s]
      <3>1. CASE s = o
        <4>1. x \in LegOrders(ls) /\ x \in Orders
          BY <1>11, <2>1, <3>1 DEF ls
        <4> QED  BY <1>9, <1>17, <3>1, <4>1
      <3>2. CASE s # o
        <4>1. Active(s) /\ x \in LegOrders(legs[s]) /\ status'[s] = status[s]
          BY <1>8, <1>10, <2>1, <3>2
        <4>2. x \in Orders /\ x \notin LegOrders(ls)
          BY <1>21, <3>2, <4>1
        <4> QED  BY <1>17, <4>1, <4>2 DEF Inv, LocksAgree
      <3> QED  BY <3>1, <3>2
    <2>2. ASSUME NEW x \in Orders, state'[x] = "Reserved"
          PROVE  \E s \in Reservations : Active(s)' /\ x \in LegOrders(legs'[s])
      <3>1. CASE x \in LegOrders(ls)
        BY <1>10, <3>1 DEF ls
      <3>2. CASE x \notin LegOrders(ls)
        <4>1. PICK s \in Reservations : Active(s) /\ x \in LegOrders(legs[s])
          BY <1>17, <2>2, <3>2 DEF Inv, LocksAgree, ActiveHolders
        <4>2. s # o
          BY <1>10, <4>1
        <4> QED  BY <1>8, <1>10, <4>1, <4>2
      <3> QED  BY <3>1, <3>2
    <2> QED  BY <2>1, <2>2 DEF LocksAgree, ActiveHolders, LegOrders
  <1>23. HoldsExactly'
    <2>1. ASSUME NEW s \in Reservations, Active(s)', NEW x \in LegOrders(legs'[s])
          PROVE  reserved'[x] = LegAmount(legs'[s], x)
      <3>1. CASE s = o
        <4>1. x \in LegOrders(ls) /\ x \in Orders /\ legs'[s] = ls
          BY <1>11, <2>1, <3>1 DEF ls
        <4> QED  BY <1>15, <4>1
      <3>2. CASE s # o
        <4>1. Active(s) /\ x \in LegOrders(legs[s]) /\ legs'[s] = legs[s]
          BY <1>8, <1>10, <2>1, <3>2
        <4>2. x \in Orders /\ x \notin LegOrders(ls)
          BY <1>21, <3>2, <4>1
        <4> QED  BY <1>15, <4>1, <4>2 DEF Inv, HoldsExactly
      <3> QED  BY <3>1, <3>2
    <2>2. ASSUME NEW x \in Orders, reserved'[x] # 0
          PROVE  \E s \in Reservations : Active(s)' /\ x \in LegOrders(legs'[s])
      <3>1. CASE x \in LegOrders(ls)
        BY <1>10, <3>1 DEF ls
      <3>2. CASE x \notin LegOrders(ls)
        <4>1. PICK s \in Reservations : Active(s) /\ x \in LegOrders(legs[s])
          BY <1>15, <2>2, <3>2 DEF Inv, HoldsExactly
        <4>2. s # o
          BY <1>10, <4>1
        <4> QED  BY <1>8, <1>10, <4>1, <4>2
      <3> QED  BY <3>1, <3>2
    <2> QED  BY <2>1, <2>2 DEF HoldsExactly, LegOrders, LegAmount
  <1>24. NoOvercommit'
    <2>1. ASSUME NEW x \in LegOrders(ls)
          PROVE  filled'[x] + LegAmount(ls, x) <= MaxClaim(x)
      <3>1. x \in Orders /\ MaxClaim(x) \in Nat
        BY <1>11, MaxClaimType
      <3>2. CASE x = o
        <4>1. plan.taken <= Available(o, ctx.filled)
          BY <1>3, <1>4, <1>5, <1>7, <1>13, <3>1, <3>2 DEF Available
        <4> QED  BY <1>3, <1>4, <1>7, <1>16, <3>1, <3>2, <4>1 DEF Available
      <3>3. CASE x # o
        <4>1. PICK i \in DOMAIN plan.fills : plan.fills[i].order = x
          BY <1>7, <3>3 DEF LegOrders
        <4>2. plan.fills[i].amount \in Nat /\ plan.fills[i].amount # 0
          BY <1>4, LegType
        <4>3. LegAmount(ls, x) = plan.fills[i].amount
          BY <1>7, <4>1
        <4>4. plan.fills[i].amount <= Available(x, filled[x]) - reserved[x]
          BY <1>5, <4>1
        <4>5. filled[x] \in Nat /\ reserved[x] = 0 /\ filled'[x] = filled[x]
          BY <1>1, <1>13, <1>16, <3>1, <3>3 DEF TypeOK
        <4> QED  BY <3>1, <4>2, <4>3, <4>4, <4>5 DEF Available
      <3> QED  BY <3>2, <3>3
    <2>2. ASSUME NEW x \in Orders, Admitted(x)'
          PROVE  filled'[x] + reserved'[x] <= MaxClaim(x)
      <3>1. CASE x \in LegOrders(ls)
        BY <1>15, <2>1, <3>1
      <3>2. CASE x \notin LegOrders(ls)
        <4>1. x # o
          BY <1>7, <3>2
        <4>2. Admitted(x)
          BY <1>17, <2>2, <3>2 DEF Admitted
        <4> QED  BY <1>15, <1>16, <3>2, <4>1, <4>2 DEF Inv, NoOvercommit
      <3> QED  BY <3>1, <3>2
    <2> QED  BY <2>2 DEF NoOvercommit, MaxClaim
  <1>25. Unrecorded'
    <2>1. ASSUME NEW x \in Orders, state'[x] = "NoRecord"
          PROVE  /\ x \notin LegOrders(ls) /\ x # o /\ state[x] = "NoRecord"
                 /\ ~resting'[x] /\ status'[x] = "NoReservation"
      <3>1. x \notin LegOrders(ls) /\ state[x] = "NoRecord"
        BY <1>17, <2>1
      <3>2. x # o
        BY <1>7, <3>1
      <3> QED  BY <1>8, <1>16, <3>1, <3>2 DEF Inv, Unrecorded
    <2>2. ASSUME NEW x \in Orders, state'[x] = "NoRecord", NEW s \in Reservations,
                 status'[s] # "NoReservation"
          PROVE  x \notin LegOrders(legs'[s])
      <3>1. CASE s = o
        BY <2>1, <2>2, <3>1 DEF ls
      <3>2. CASE s # o
        BY <1>8, <2>1, <2>2, <3>2 DEF Inv, Unrecorded
      <3> QED  BY <3>1, <3>2
    <2> QED  BY <2>1, <2>2 DEF Unrecorded, LegOrders
  <1>26. AdmittedValid'
    <2>1. ASSUME NEW x \in Orders, Admitted(x)' PROVE ValidBasic(x)
      <3>1. x = o \/ Admitted(x)
        BY <1>11, <1>17, <2>1 DEF Admitted, AvailableStates
      <3> QED  BY <1>3, <3>1 DEF Inv, AdmittedValid
    <2> QED  BY <2>1 DEF AdmittedValid, ValidBasic, MaxClaim, Collateral
  <1>27. RestingAlive'
    <2>1. ASSUME NEW x \in Orders, resting'[x]
          PROVE  /\ state'[x] \in AvailableStates \cup LockedStates
                 /\ filled'[x] < MaxClaim(x)
                 /\ x \in inBook
                 /\ bookFilled[x] <= filled'[x]
      <3>1. x # o
        BY <1>16, <2>1
      <3> QED  BY <1>16, <1>17, <2>1, <3>1 DEF Inv, RestingAlive, LockedStates
    <2> QED  BY <1>2, <2>1 DEF RestingAlive, MaxClaim
  <1> QED
    BY <1>18, <1>19, <1>20, <1>22, <1>23, <1>24, <1>25, <1>26, <1>27 DEF Inv
-----------------------------------------------------------------------------
\* A commit turns what the reservation locked into fills.
LEMMA CommitInv ==
    ASSUME Inv, NEW r \in Reservations, CommitReservation(r)
    PROVE  Inv'
  <1> DEFINE held     == LegOrders(legs[r])
             applied  == {legs[r][i].order : i \in AppliedLegs(r)}
             newFilled(o)     == filled[o] + LegAmount(legs[r], o)
             newBookFilled(o) == bookFilled[o] + LegAmount(legs[r], o)
             fullyFilled == {o \in applied : newFilled(o) = MaxClaim(o)}
             leavesBook == {o \in applied : resting[o] /\ newBookFilled(o) = MaxClaim(o)}
  <1>1. /\ status[r] = "Submitted"
        /\ status' = [status EXCEPT ![r] = "Committed"]
        /\ reserved' = ReservedWithout({r})
        /\ filled' = [o \in Orders |-> IF o \in applied THEN newFilled(o) ELSE filled[o]]
        /\ resting' = [o \in Orders |-> resting[o] /\ o \notin fullyFilled]
        /\ state' = [o \in Orders |->
                        IF o \in fullyFilled THEN "Filled"
                        ELSE IF o \in applied THEN "PartiallyFilled"
                        ELSE state[o]]
        /\ inBook' = inBook \ leavesBook
        /\ bookFilled' = [o \in Orders |->
                            IF o \in leavesBook THEN 0
                            ELSE IF o \in applied /\ resting[o]
                            THEN newBookFilled(o) ELSE bookFilled[o]]
        /\ errored' \in BOOLEAN
        /\ UNCHANGED <<legs, expiresAt>>
    BY DEF CommitReservation
  <1>2. TypeOK
    BY DEF Inv
  <1>3. Active(r)
    BY <1>1 DEF Active, ActiveStatuses
  <1>4. applied \subseteq held /\ held \subseteq Orders
    BY <1>2, LegOrdersType DEF AppliedLegs, LegOrders, TypeOK
  <1> HIDE DEF applied
  <1>5. \A o \in held : state[o] = "Submitted"
    BY <1>1, <1>3 DEF Inv, LocksAgree
  <1>6. \A o \in Orders :
           /\ filled[o] \in Nat /\ bookFilled[o] \in Nat /\ reserved[o] \in Nat
           /\ LegAmount(legs[r], o) \in Nat /\ MaxClaim(o) \in Nat
    BY <1>2, LegAmountType, MaxClaimType DEF TypeOK
  <1>7. \A o \in Orders : reserved'[o] = IF o \in held THEN 0 ELSE reserved[o]
    <2>1. \A o \in Orders :
             /\ o \in held => ReservedWithout({r})[o] = 0
             /\ o \notin held => ReservedWithout({r})[o] = reserved[o]
      BY <1>3, ReservedWithoutValue
    <2> QED  BY <1>1, <2>1
  <1>8. \A s \in Reservations : /\ Active(s)' <=> Active(s) /\ s # r
                                /\ s # r => status'[s] = status[s]
    BY <1>1, <1>2 DEF Active, ActiveStatuses, TypeOK
  <1>9. \A o \in held : /\ newFilled(o) <= MaxClaim(o)
                        /\ reserved[o] = LegAmount(legs[r], o)
    <2> SUFFICES ASSUME NEW o \in held
                 PROVE  /\ newFilled(o) <= MaxClaim(o)
                        /\ reserved[o] = LegAmount(legs[r], o)
      OBVIOUS
    <2>1. reserved[o] = LegAmount(legs[r], o)
      BY <1>3 DEF Inv, HoldsExactly
    <2>2. filled[o] + reserved[o] <= MaxClaim(o)
      BY <1>4, <1>5 DEF Inv, NoOvercommit, Admitted
    <2> QED  BY <2>1, <2>2
  <1>10. TypeOK'
    <2>1. state' \in [Orders -> OrderStates \cup {"NoRecord"}]
      BY <1>1, <1>2 DEF TypeOK, OrderStates
    <2>2. status' \in [Reservations -> Statuses \cup {"NoReservation"}]
      BY <1>1, <1>2 DEF TypeOK, Statuses
    <2>3. reserved' \in [Orders -> Nat]
      <3>1. reserved' = [o \in Orders |-> reserved'[o]]
        BY <1>1 DEF ReservedWithout
      <3> QED  BY <1>6, <1>7, <3>1
    <2>4. filled' \in [Orders -> Nat] /\ bookFilled' \in [Orders -> Nat]
      BY <1>1, <1>6
    <2>5. resting' \in [Orders -> BOOLEAN]
      BY <1>1, <1>2 DEF TypeOK
    <2> QED  BY <1>1, <1>2, <2>1, <2>2, <2>3, <2>4, <2>5 DEF TypeOK
  <1>11. LegsDistinct'
    BY <1>1 DEF Inv, LegsDistinct
  <1>12. NoDoubleMatch'
    BY <1>1, <1>8 DEF Inv, NoDoubleMatch
  <1>13. \A s \in Reservations : Active(s) /\ s # r =>
            \A o \in LegOrders(legs[s]) : o \in Orders /\ o \notin held
    BY <1>2, <1>3, LegOrdersType DEF Inv, TypeOK, NoDoubleMatch
  <1>14. \A o \in Orders : o \notin applied =>
            state'[o] = state[o] /\ filled'[o] = filled[o]
    BY <1>1
  <1>15. LocksAgree'
    <2>1. \A s \in Reservations : Active(s) /\ s # r =>
             \A o \in LegOrders(legs[s]) : state'[o] = status'[s]
      BY <1>4, <1>8, <1>13, <1>14 DEF Inv, LocksAgree
    <2>2. ASSUME NEW o \in Orders, state'[o] = "Reserved"
          PROVE  \E s \in Reservations : Active(s) /\ s # r /\ o \in LegOrders(legs[s])
      <3>1. state[o] = "Reserved"
        BY <1>1, <2>2
      <3>2. PICK s \in Reservations : Active(s) /\ o \in LegOrders(legs[s])
        BY <3>1 DEF Inv, LocksAgree, ActiveHolders
      <3> QED  BY <1>5, <3>1, <3>2
    <2> QED  BY <1>1, <1>8, <2>1, <2>2 DEF LocksAgree, ActiveHolders
  <1>16. HoldsExactly'
    <2>1. \A s \in Reservations : Active(s) /\ s # r =>
             \A o \in LegOrders(legs[s]) : reserved'[o] = LegAmount(legs[s], o)
      BY <1>7, <1>13 DEF Inv, HoldsExactly
    <2>2. ASSUME NEW o \in Orders, reserved'[o] # 0
          PROVE  \E s \in Reservations : Active(s) /\ s # r /\ o \in LegOrders(legs[s])
      BY <1>7, <2>2 DEF Inv, HoldsExactly
    <2> QED  BY <1>1, <1>8, <2>1, <2>2 DEF HoldsExactly
  <1>17. \A o \in Orders : Admitted(o)' <=> Admitted(o)
    BY <1>1, <1>4, <1>5 DEF Admitted
  <1>18. NoOvercommit'
    <2>1. ASSUME NEW o \in Orders, Admitted(o)'
          PROVE  filled'[o] + reserved'[o] <= MaxClaim(o)
      <3>1. filled[o] + reserved[o] <= MaxClaim(o)
        BY <1>17, <2>1 DEF Inv, NoOvercommit
      <3>2. CASE o \in applied
        <4>1. filled'[o] = newFilled(o) /\ reserved'[o] = 0
          BY <1>1, <1>4, <1>7, <3>2
        <4>2. newFilled(o) \in Nat /\ newFilled(o) <= MaxClaim(o)
          BY <1>4, <1>6, <1>9, <3>2
        <4> HIDE DEF newFilled
        <4> QED  BY <4>1, <4>2
      <3>3. CASE o \notin applied
        BY <1>6, <1>7, <1>14, <3>1, <3>3
      <3> QED  BY <3>2, <3>3
    <2> QED  BY <2>1 DEF NoOvercommit, MaxClaim
  <1>19. Unrecorded'
    <2>1. \A o \in Orders : state'[o] = "NoRecord" =>
             state[o] = "NoRecord" /\ o \notin held /\ o # r
      <3>1. \A o \in Orders : state'[o] = "NoRecord" =>
               state[o] = "NoRecord" /\ o \notin held
        BY <1>1, <1>4, <1>5, <1>14
      <3>2. status[r] # "NoReservation"
        BY <1>1
      <3> QED  BY <3>1, <3>2 DEF Inv, Unrecorded
    <2> QED  BY <1>1, <1>2, <1>8, <2>1 DEF Inv, Unrecorded
  <1>20. AdmittedValid'
    BY <1>17 DEF Inv, AdmittedValid, ValidBasic, MaxClaim, Collateral
  <1>21. RestingAlive'
    <2>1. ASSUME NEW o \in Orders, resting'[o]
          PROVE  /\ state'[o] \in AvailableStates \cup LockedStates
                 /\ filled'[o] < MaxClaim(o)
                 /\ o \in inBook'
                 /\ bookFilled'[o] <= filled'[o]
      <3>1. /\ resting[o] /\ o \notin fullyFilled
            /\ state[o] \in AvailableStates \cup LockedStates
            /\ filled[o] < MaxClaim(o) /\ o \in inBook /\ bookFilled[o] <= filled[o]
        BY <1>1, <2>1 DEF Inv, RestingAlive
      <3>2. CASE o \in applied
        <4>1. newFilled(o) < MaxClaim(o) /\ newBookFilled(o) <= newFilled(o)
          BY <1>4, <1>6, <1>9, <3>1, <3>2
        <4>2. o \notin leavesBook
          BY <1>6, <4>1
        <4> QED  BY <1>1, <3>1, <3>2, <4>1, <4>2 DEF AvailableStates
      <3>3. CASE o \notin applied
        BY <1>1, <3>1, <3>3
      <3> QED  BY <3>2, <3>3
    <2> QED  BY <2>1 DEF RestingAlive, MaxClaim
  <1> QED
    BY <1>10, <1>11, <1>12, <1>15, <1>16, <1>18, <1>19, <1>20, <1>21 DEF Inv
-----------------------------------------------------------------------------
\* The running totals are those of the active reservations, whichever of the
\* (at most one) holders is chosen.
LEMMA InvReservedExact == Inv => ReservedExact
  <1> SUFFICES ASSUME Inv, NEW o \in Orders
               PROVE  reserved[o] = IF ActiveHolders(o) = {} THEN 0
                        ELSE LegAmount(legs[CHOOSE r \in ActiveHolders(o) : TRUE], o)
    BY DEF ReservedExact
  <1>1. CASE ActiveHolders(o) = {}
    BY <1>1 DEF Inv, HoldsExactly, ActiveHolders
  <1>2. CASE ActiveHolders(o) # {}
    <2> DEFINE r == CHOOSE s \in ActiveHolders(o) : TRUE
    <2>1. r \in Reservations /\ Active(r) /\ o \in LegOrders(legs[r])
      BY <1>2 DEF ActiveHolders
    <2> QED  BY <1>2, <2>1 DEF Inv, HoldsExactly
  <1> QED  BY <1>1, <1>2

\* A restart from a snapshot rebuilds the same locked amounts and books that
\* agree with the records.
LEMMA RestartInv ==
    ASSUME Inv, Restart
    PROVE  Inv'
  <1>1. /\ inBook' = {o \in Orders : resting[o]}
        /\ bookFilled' = [o \in Orders |-> IF resting[o] THEN filled[o] ELSE 0]
        /\ UNCHANGED <<state, filled, resting, status, legs, expiresAt>>
        /\ errored' \in BOOLEAN
    BY DEF Restart, records
  <1>2. TypeOK
    BY DEF Inv
  <1>3. reserved' = reserved
    <2>1. reserved' = [o \in Orders |-> reserved[o]]
      BY InvReservedExact DEF Restart, ReservedExact
    <2> QED  BY <1>2, <2>1 DEF TypeOK
  <1>4. TypeOK'
    BY <1>1, <1>2, <1>3 DEF TypeOK
  <1>5. LegsDistinct' /\ NoDoubleMatch' /\ LocksAgree' /\ HoldsExactly'
    BY <1>1, <1>3 DEF Inv, LegsDistinct, NoDoubleMatch, LocksAgree, HoldsExactly,
       Active, ActiveHolders
  <1>6. NoOvercommit' /\ Unrecorded' /\ AdmittedValid'
    BY <1>1, <1>3 DEF Inv, NoOvercommit, Unrecorded, AdmittedValid, Admitted,
       ValidBasic, MaxClaim, Collateral
  <1>7. RestingAlive'
    BY <1>1, <1>2 DEF Inv, RestingAlive, MaxClaim, TypeOK
  <1> QED  BY <1>4, <1>5, <1>6, <1>7 DEF Inv
-----------------------------------------------------------------------------
LEMMA SubmitOrderInv ==
    ASSUME Inv, NEW o \in Orders, NEW command \in CommandType, SubmitOrder(o, command)
    PROVE  Inv'
  <1> DEFINE context == command.context
  <1>1. state[o] = "NoRecord" /\ context.filled \in Nat
    BY DEF SubmitOrder, CommandType, ContextType
  <1>2. CASE ~Accepts(o, context)
    <2>1. RejectOrder(o, command)
      BY <1>2 DEF SubmitOrder
    <2> QED  BY <1>1, <2>1, NewRecordInv DEF RejectOrder, books
  <1>3. CASE Accepts(o, context)
    <2>1. PICK plan \in Plans(o, context) \cup {NoPlan} : AdmitOrder(o, command, plan)
      BY <1>3 DEF SubmitOrder
    <2>2. ValidBasic(o) /\ context.filled < MaxClaim(o)
      BY <1>3, AcceptedOrder
    <2>3. CASE LeaveInactive(o, command, plan)
      BY <1>1, <2>2, <2>3, NewRecordInv DEF LeaveInactive, books
    <2>4. CASE RestOrder(o, command, plan)
      <3>1. /\ NewRecord(o, "Open", context.filled, TRUE)
            /\ inBook' = inBook \cup {o}
            /\ bookFilled' = [bookFilled EXCEPT ![o] = 0]
            /\ UNCHANGED reservations /\ errored' \in BOOLEAN
        BY <2>4 DEF RestOrder
      <3> QED  BY <1>1, <2>2, <3>1, NewRecordInv
    <2>5. CASE ReserveMatch(o, command, plan)
      <3>1. plan \in Plans(o, context)
        BY <2>5 DEF ReserveMatch
      <3> QED  BY <1>1, <1>3, <2>5, <3>1, ReserveMatchInv
    <2> QED  BY <2>1, <2>3, <2>4, <2>5 DEF AdmitOrder
  <1> QED  BY <1>2, <1>3

LEMMA NextInv ==
    ASSUME Inv, [Next]_vars
    PROVE  Inv'
  <1>1. CASE \E o \in Orders, command \in Commands : SubmitOrder(o, command)
    BY <1>1, SubmitOrderInv, CommandsAssumption
  <1>2. CASE \E o \in Orders : CancelOrder(o)
    BY <1>2, CancelOrderInv
  <1>3. ASSUME NEW r \in Reservations, SettleReservation(r)
        PROVE  Inv'
    <2>1. ASSUME NEW now \in Times, MarkExpiredReservation(r, now) PROVE Inv'
      BY <2>1, LetGoInv DEF MarkExpiredReservation, Active, ActiveStatuses
    <2>2. ASSUME NEW now \in Times, MarkReservationSubmitted(r, now) PROVE Inv'
      BY <2>2, MarkSubmittedInv
    <2>3. ASSUME NEW now \in Times, ExpireReservation(r, now) PROVE Inv'
      BY <2>3, LetGoInv DEF ExpireReservation, Active, ActiveStatuses
    <2>4. CASE ReleaseReservation(r)
      BY <2>4, LetGoInv DEF ReleaseReservation
    <2>5. CASE CommitReservation(r)
      BY <2>5, CommitInv
    <2> QED  BY <1>3, <2>1, <2>2, <2>3, <2>4, <2>5 DEF SettleReservation
  <1>4. ASSUME NEW now \in Times, ExpireExpiredReservations(now)
        PROVE  Inv'
    <2> DEFINE rs == {r \in Reservations : status[r] = "Reserved" /\ IsExpired(r, now)}
    <2>1. LetGo(rs, "Expired") /\ errored' \in BOOLEAN
      BY <1>4 DEF ExpireExpiredReservations
    <2>2. rs \in SUBSET Reservations /\ \A r \in rs : Active(r)
      BY DEF Active, ActiveStatuses
    <2> HIDE DEF rs
    <2> QED  BY <2>1, <2>2, LetGoInv
  <1>5. CASE Restart
    BY <1>5, RestartInv
  <1>6. CASE UNCHANGED vars
    BY <1>6 DEF vars, records, books, reservations, Inv, TypeOK, LegsDistinct,
       NoDoubleMatch, LocksAgree, HoldsExactly, NoOvercommit, Unrecorded,
       AdmittedValid, RestingAlive, Active, ActiveHolders, Admitted, ValidBasic,
       MaxClaim, Collateral
  <1> QED  BY <1>1, <1>2, <1>3, <1>4, <1>5, <1>6 DEF Next

(***************************************************************************)
(* The engine never leaves the inductive invariant, whatever orders are    *)
(* submitted and whatever plans the matcher returns for them.              *)
(***************************************************************************)
THEOREM Invariance == Spec => []Inv
  <1>1. Inv /\ [Next]_vars => Inv'
    BY NextInv
  <1> QED  BY <1>1, InitInv, PTL DEF Spec

\* The variables of the engine keep their types.
THEOREM TypeCorrect == Spec => []TypeOK
  <1>1. Inv => TypeOK
    BY DEF Inv
  <1> QED  BY <1>1, Invariance, PTL

(***************************************************************************)
(* No order is ever filled and locked beyond its size.                     *)
(***************************************************************************)
THEOREM NeverOvercommitted == Spec => []NoOvercommit
  <1>1. Inv => NoOvercommit
    BY DEF Inv
  <1> QED  BY <1>1, Invariance, PTL

(***************************************************************************)
(* Two reservations in flight never share an order.                        *)
(***************************************************************************)
THEOREM NeverDoubleMatched == Spec => []NoDoubleMatch
  <1>1. Inv => NoDoubleMatch
    BY DEF Inv
  <1> QED  BY <1>1, Invariance, PTL

(***************************************************************************)
(* The orders of a reservation in flight are in its state, and an order in *)
(* state Reserved belongs to a reservation in flight.                      *)
(***************************************************************************)
THEOREM LocksAlwaysAgree == Spec => []LocksAgree
  <1>1. Inv => LocksAgree
    BY DEF Inv
  <1> QED  BY <1>1, Invariance, PTL

(***************************************************************************)
(* The running totals of locked amounts are exact.                         *)
(***************************************************************************)
THEOREM TotalsExact == Spec => []ReservedExact
  BY InvReservedExact, Invariance, PTL

(***************************************************************************)
(* The engine can be restarted from a snapshot taken at any moment.        *)
(***************************************************************************)
THEOREM AlwaysRestartable == Spec => []SnapshotAlwaysValid
  <1>1. ASSUME Inv PROVE SnapshotAlwaysValid
    <2>1. ASSUME NEW o \in Orders, resting[o]
          PROVE  /\ state[o] \in AvailableStates \cup LockedStates
                 /\ ValidBasic(o)
                 /\ RemainingClaim(o, filled[o]) > 0
      <3>1. state[o] \in AvailableStates \cup LockedStates /\ filled[o] < MaxClaim(o)
        BY <1>1, <2>1 DEF Inv, RestingAlive
      <3>2. Admitted(o)
        BY <3>1 DEF Admitted, AvailableStates, LockedStates
      <3>3. MaxClaim(o) \in Nat /\ filled[o] \in Nat
        BY <1>1, MaxClaimType DEF Inv, TypeOK
      <3> QED  BY <1>1, <3>1, <3>2, <3>3 DEF Inv, AdmittedValid, RemainingClaim
    <2>2. ASSUME NEW r \in Reservations, status[r] # "NoReservation",
                 NEW i \in DOMAIN legs[r]
          PROVE  LET leg == legs[r][i]
                 IN  /\ state[leg.order] # "NoRecord"
                     /\ Active(r) =>
                           /\ state[leg.order] \in LockedStates
                           /\ ValidBasic(leg.order)
                           /\ leg.amount <= RemainingClaim(leg.order, filled[leg.order])
      <3> DEFINE o == legs[r][i].order
      <3>1. /\ o \in Orders /\ o \in LegOrders(legs[r])
            /\ LegAmount(legs[r], o) = legs[r][i].amount
            /\ legs[r][i].amount \in Nat
        BY <1>1, LegType, LegAmountOfEach DEF Inv, TypeOK, LegsDistinct
      <3> HIDE DEF o
      <3>2. state[o] # "NoRecord"
        BY <1>1, <2>2, <3>1 DEF Inv, Unrecorded
      <3>3. ASSUME Active(r)
            PROVE  /\ state[o] \in LockedStates
                   /\ ValidBasic(o)
                   /\ legs[r][i].amount <= RemainingClaim(o, filled[o])
        <4>1. state[o] \in LockedStates
          BY <1>1, <3>1, <3>3 DEF Inv, LocksAgree, Active, ActiveStatuses, LockedStates
        <4>2. Admitted(o)
          BY <4>1 DEF Admitted, LockedStates
        <4>3. ValidBasic(o) /\ filled[o] + reserved[o] <= MaxClaim(o)
          BY <1>1, <3>1, <4>2 DEF Inv, AdmittedValid, NoOvercommit
        <4>4. reserved[o] = legs[r][i].amount
          BY <1>1, <3>1, <3>3 DEF Inv, HoldsExactly
        <4>5. MaxClaim(o) \in Nat /\ filled[o] \in Nat
          BY <1>1, <3>1, MaxClaimType DEF Inv, TypeOK
        <4> QED  BY <3>1, <4>1, <4>3, <4>4, <4>5 DEF RemainingClaim
      <3> QED  BY <3>2, <3>3 DEF o
    <2> QED  BY <2>1, <2>2 DEF SnapshotAlwaysValid, SnapshotValid
  <1> QED  BY <1>1, Invariance, PTL

(***************************************************************************)
(* A resting order is on a book, which never thinks more of it is filled   *)
(* than its record does.                                                   *)
(***************************************************************************)
THEOREM RestingAlwaysOnBook == Spec => []RestingOnBook
  <1>1. Inv => RestingOnBook
    BY DEF Inv, RestingAlive, RestingOnBook
  <1> QED  BY <1>1, Invariance, PTL
-----------------------------------------------------------------------------
\* A commit fills the legs it applies and nothing else.
LEMMA CommitFills ==
    ASSUME Inv, NEW r \in Reservations, CommitReservation(r),
           NEW o \in Orders, filled'[o] # filled[o]
    PROVE  /\ status[r] = "Submitted" /\ status'[r] = "Committed"
           /\ o \in LegOrders(legs[r])
           /\ filled'[o] = filled[o] + LegAmount(legs[r], o)
  <1> DEFINE applied == {legs[r][i].order : i \in AppliedLegs(r)}
  <1>1. filled' = [x \in Orders |-> IF x \in applied
                                    THEN filled[x] + LegAmount(legs[r], x)
                                    ELSE filled[x]]
    BY DEF CommitReservation
  <1>2. o \in applied => o \in LegOrders(legs[r])
    BY DEF AppliedLegs, LegOrders
  <1>3. status[r] = "Submitted" /\ status'[r] = "Committed"
    BY DEF CommitReservation, Inv, TypeOK
  <1> QED  BY <1>1, <1>2, <1>3

\* No call but a commit and the submission of the order itself touches what
\* an order has filled.
LEMMA SubmitFillsOnlyItself ==
    ASSUME Inv, NEW o \in Orders, NEW command, SubmitOrder(o, command),
           NEW x \in Orders, x # o
    PROVE  filled'[x] = filled[x]
  <1>1. filled' = [filled EXCEPT ![o] = command.context.filled]
    BY DEF SubmitOrder, AdmitOrder, RejectOrder, LeaveInactive, RestOrder,
       ReserveMatch, NewRecord
  <1> QED  BY <1>1 DEF Inv, TypeOK

(***************************************************************************)
(* Only the commit of a submitted reservation fills an order that has a    *)
(* record, by the amount of its leg.                                       *)
(***************************************************************************)
THEOREM FillsOnlyByCommit == Spec => OnlyCommitFills
  <1> DEFINE A == \A o \in Orders :
                    state[o] # "NoRecord" /\ filled'[o] # filled[o] =>
                      \E r \in Reservations :
                        /\ status[r] = "Submitted" /\ status'[r] = "Committed"
                        /\ o \in LegOrders(legs[r])
                        /\ filled'[o] = filled[o] + LegAmount(legs[r], o)
  <1>1. Inv /\ [Next]_vars => [A]_vars
    <2> SUFFICES ASSUME Inv, Next, NEW o \in Orders,
                        state[o] # "NoRecord", filled'[o] # filled[o]
                 PROVE  \E r \in Reservations :
                          /\ status[r] = "Submitted" /\ status'[r] = "Committed"
                          /\ o \in LegOrders(legs[r])
                          /\ filled'[o] = filled[o] + LegAmount(legs[r], o)
      OBVIOUS
    <2>1. ASSUME NEW x \in Orders, NEW command \in Commands, SubmitOrder(x, command)
          PROVE  FALSE
      <3>1. state[x] = "NoRecord"
        BY <2>1 DEF SubmitOrder
      <3> QED  BY <2>1, <3>1, SubmitFillsOnlyItself
    <2>2. ASSUME NEW r \in Reservations, SettleReservation(r)
          PROVE  CommitReservation(r)
      BY <2>2 DEF SettleReservation, MarkExpiredReservation, LetGo,
         MarkReservationSubmitted, ExpireReservation, ReleaseReservation
    <2>3. ~(\E now \in Times : ExpireExpiredReservations(now))
      BY DEF ExpireExpiredReservations, LetGo
    <2>4. ~(\E x \in Orders : CancelOrder(x)) /\ ~Restart
      BY DEF CancelOrder, Restart, records
    <2>5. PICK r \in Reservations : CommitReservation(r)
      BY <2>1, <2>2, <2>3, <2>4 DEF Next
    <2> QED  BY <2>5, CommitFills
  <1> QED  BY <1>1, Invariance, PTL DEF Spec, OnlyCommitFills

\* Orders that a reservation lets go of move along the lifecycle.
LEMMA LetGoLifecycle ==
    ASSUME Inv, NEW rs \in SUBSET Reservations, \A r \in rs : Active(r),
           NEW ending, LetGo(rs, ending),
           NEW o \in Orders, state'[o] # state[o]
    PROVE  state[o] # "NoRecord" /\ IsAllowedTransition(state[o], state'[o])
  <1>1. PICK r \in rs : o \in LegOrders(legs[r])
    BY DEF LetGo, FreedOrders
  <1>2. state[o] \in LockedStates
    BY <1>1 DEF Inv, LocksAgree, Active, ActiveStatuses, LockedStates
  <1>3. state'[o] \in {"Open", "PartiallyFilled", "Inactive"}
    BY <1>1 DEF LetGo, ReleasedState
  <1> QED  BY <1>2, <1>3 DEF IsAllowedTransition, AllowedTransitions, LockedStates

\* The taker and the makers of a submission move along the lifecycle.
LEMMA SubmitLifecycle ==
    ASSUME Inv, NEW x \in Orders, NEW command \in CommandType, SubmitOrder(x, command),
           NEW o \in Orders, state'[o] # state[o]
    PROVE  IF state[o] = "NoRecord"
           THEN IsAllowedTransition("Validating", state'[o])
           ELSE IsAllowedTransition(state[o], state'[o])
  <1>1. state[x] = "NoRecord"
    BY DEF SubmitOrder
  <1>2. ASSUME NEW newState \in {"Rejected", "Inactive", "Open"},
               state' = [state EXCEPT ![x] = newState]
        PROVE  state[o] = "NoRecord" /\ IsAllowedTransition("Validating", state'[o])
    BY <1>1, <1>2 DEF Inv, TypeOK, IsAllowedTransition, AllowedTransitions
  <1>3. CASE RejectOrder(x, command)
    BY <1>2, <1>3 DEF RejectOrder, NewRecord
  <1>4. ASSUME NEW plan \in Plans(x, command.context) \cup {NoPlan},
               AdmitOrder(x, command, plan), Accepts(x, command.context)
        PROVE  IF state[o] = "NoRecord"
               THEN IsAllowedTransition("Validating", state'[o])
               ELSE IsAllowedTransition(state[o], state'[o])
    <2>1. CASE LeaveInactive(x, command, plan)
      BY <1>2, <2>1 DEF LeaveInactive, NewRecord
    <2>2. CASE RestOrder(x, command, plan)
      BY <1>2, <2>2 DEF RestOrder, NewRecord
    <2>3. CASE ReserveMatch(x, command, plan)
      <3>1. /\ plan \in Plans(x, command.context)
            /\ legs'[x] = TakerFirst(x, plan.taken, plan.fills)
            /\ \A i \in DOMAIN plan.fills : state[plan.fills[i].order] \in AvailableStates
            /\ state'[o] = "Reserved"
            /\ o \in LegOrders(legs'[x])
        BY <2>3 DEF ReserveMatch, LockOrders, Reservable, Inv, TypeOK, TakerFirst
      <3>2. plan.taken \in Nat \ {0} /\ plan.fills \in Seq(Leg) /\ Distinct(plan.fills)
        BY <1>4, <3>1, AcceptedOrder, PlanType
      <3>3. \A i \in DOMAIN plan.fills : plan.fills[i].order # x
        BY <1>1, <3>1 DEF AvailableStates
      <3>4. LegOrders(legs'[x]) = {x} \cup LegOrders(plan.fills)
        BY <3>1, <3>2, <3>3, NewLegs
      <3>5. o = x \/ state[o] \in AvailableStates
        BY <3>1, <3>4 DEF LegOrders
      <3> QED
        BY <1>1, <3>1, <3>5
        DEF IsAllowedTransition, AllowedTransitions, AvailableStates
    <2> QED  BY <1>4, <2>1, <2>2, <2>3 DEF AdmitOrder
  <1> QED  BY <1>3, <1>4 DEF SubmitOrder

(***************************************************************************)
(* Every change of an order's state is one that its lifecycle allows.      *)
(***************************************************************************)
THEOREM LifecycleAlwaysRespected == Spec => LifecycleRespected
  <1> DEFINE Allowed(o) == IF state[o] = "NoRecord"
                           THEN IsAllowedTransition("Validating", state'[o])
                           ELSE IsAllowedTransition(state[o], state'[o])
             A == \A o \in Orders : state'[o] # state[o] => Allowed(o)
  <1>1. Inv /\ [Next]_vars => [A]_vars
    <2> SUFFICES ASSUME Inv, Next, NEW o \in Orders, state'[o] # state[o]
                 PROVE  Allowed(o)
      OBVIOUS
    <2>1. ASSUME NEW x \in Orders, NEW command \in Commands, SubmitOrder(x, command)
          PROVE  Allowed(o)
      BY <2>1, SubmitLifecycle, CommandsAssumption
    <2>2. ASSUME NEW x \in Orders, CancelOrder(x)
          PROVE  Allowed(o)
      BY <2>2 DEF CancelOrder, Inv, TypeOK
    <2>3. ASSUME NEW r \in Reservations, SettleReservation(r)
          PROVE  Allowed(o)
      <3>1. ASSUME NEW now \in Times, MarkReservationSubmitted(r, now)
            PROVE  Allowed(o)
        <4>1. /\ o \in LegOrders(legs[r]) /\ state'[o] = "Submitted"
              /\ status[r] = "Reserved"
          BY <3>1 DEF MarkReservationSubmitted
        <4>2. state[o] = "Reserved"
          BY <4>1 DEF Inv, LocksAgree, Active, ActiveStatuses
        <4> QED  BY <4>1, <4>2 DEF IsAllowedTransition, AllowedTransitions
      <3>2. CASE \/ \E now \in Times :
                      MarkExpiredReservation(r, now) \/ ExpireReservation(r, now)
                 \/ ReleaseReservation(r)
        <4>1. Active(r) /\ \E ending \in {"Released", "Expired"} : LetGo({r}, ending)
          BY <3>2 DEF MarkExpiredReservation, ExpireReservation, ReleaseReservation,
             Active, ActiveStatuses
        <4> QED  BY <4>1, LetGoLifecycle
      <3>3. CASE CommitReservation(r)
        <4> DEFINE applied == {legs[r][i].order : i \in AppliedLegs(r)}
        <4>1. /\ status[r] = "Submitted"
              /\ o \in applied /\ state'[o] \in {"Filled", "PartiallyFilled"}
          BY <3>3 DEF CommitReservation
        <4>2. o \in LegOrders(legs[r])
          BY <4>1 DEF AppliedLegs, LegOrders
        <4>3. state[o] = "Submitted"
          BY <4>1, <4>2 DEF Inv, LocksAgree, Active, ActiveStatuses
        <4> QED
          BY <4>1, <4>3 DEF IsAllowedTransition, AllowedTransitions, LockedStates
      <3> QED  BY <2>3, <3>1, <3>2, <3>3 DEF SettleReservation
    <2>4. ASSUME NEW now \in Times, ExpireExpiredReservations(now)
          PROVE  Allowed(o)
      <3> DEFINE rs == {r \in Reservations : status[r] = "Reserved" /\ IsExpired(r, now)}
      <3>1. LetGo(rs, "Expired")
        BY <2>4 DEF ExpireExpiredReservations
      <3>2. rs \in SUBSET Reservations /\ \A r \in rs : Active(r)
        BY DEF Active, ActiveStatuses
      <3> HIDE DEF rs
      <3> QED  BY <3>1, <3>2, LetGoLifecycle
    <2>5. ~Restart
      BY DEF Restart, records
    <2> QED  BY <2>1, <2>2, <2>3, <2>4, <2>5 DEF Next
  <1> QED  BY <1>1, Invariance, PTL DEF Spec, LifecycleRespected
-----------------------------------------------------------------------------
(***************************************************************************)
(* Commits.  When no order comes with an amount already filled, the books  *)
(* and the records always agree, so a leg that could be filled when it was *)
(* locked still can be when it is committed.                               *)
(***************************************************************************)
Fresh == \A command \in Commands : command.context.filled = 0

BooksAgree ==
    \A o \in Orders :
        /\ o \in inBook <=> resting[o]
        /\ resting[o] => bookFilled[o] = filled[o]

LegsFillable ==
    \A r \in Reservations : Active(r) =>
        \A i \in DOMAIN legs[r] :
            CanFill(legs[r][i].order, filled[legs[r][i].order], legs[r][i].amount)

FreshInv == BooksAgree /\ LegsFillable

\* The orders that no reservation in flight holds may change what they have
\* filled.
LEMMA LegsStayFillable ==
    ASSUME Inv, LegsFillable, UNCHANGED legs,
           \A r \in Reservations : Active(r)' => Active(r),
           \A r \in Reservations : Active(r)' =>
              \A o \in LegOrders(legs[r]) : filled'[o] = filled[o]
    PROVE  LegsFillable'
  <1> SUFFICES ASSUME NEW r \in Reservations, Active(r)', NEW i \in DOMAIN legs'[r]
               PROVE  CanFill(legs'[r][i].order, filled'[legs'[r][i].order], legs'[r][i].amount)
    BY DEF LegsFillable
  <1>1. legs'[r] = legs[r] /\ legs[r][i].order \in LegOrders(legs[r]) /\ Active(r)
    BY DEF LegOrders
  <1>2. filled'[legs[r][i].order] = filled[legs[r][i].order]
    BY <1>1
  <1> QED  BY <1>1, <1>2 DEF LegsFillable

\* The legs of a new reservation can be filled, on the records as on the
\* books.
LEMMA NewLegsFillable ==
    ASSUME Inv, FreshInv, NEW o \in Orders, NEW command \in CommandType,
           state[o] = "NoRecord", NEW plan \in Plans(o, command.context),
           ReserveMatch(o, command, plan)
    PROVE  LegsFillable'
  <1> DEFINE first == [order |-> o, amount |-> plan.taken]
  <1>1. /\ legs \in [Orders -> Seq(Leg)] /\ filled \in [Orders -> Nat]
        /\ status \in [Orders -> Statuses \cup {"NoReservation"}]
    BY DEF Inv, TypeOK
  <1>2. /\ legs' = [legs EXCEPT ![o] = <<first>> \o plan.fills]
        /\ filled' = [filled EXCEPT ![o] = command.context.filled]
        /\ status' = [status EXCEPT ![o] = "Reserved"]
    BY DEF ReserveMatch
  <1>3. first.order = o /\ first.amount = plan.taken
    OBVIOUS
  <1>4. CanFill(o, command.context.filled, plan.taken) /\ plan.fills \in Seq(Leg)
    <2>1. command.context.filled \in Nat
      BY DEF CommandType, ContextType
    <2> QED  BY <2>1, PlanType DEF Plans
  <1>5. ASSUME NEW i \in DOMAIN plan.fills
        PROVE  /\ plan.fills[i].order \in Orders
               /\ plan.fills[i].order # o
               /\ CanFill(plan.fills[i].order, filled[plan.fills[i].order],
                          plan.fills[i].amount)
    <2>1. plan.fills[i] \in MakerFills(o, command.context)
      BY DEF Plans
    <2>2. /\ plan.fills[i].order \in inBook
          /\ CanFill(plan.fills[i].order, bookFilled[plan.fills[i].order],
                     plan.fills[i].amount)
      BY <2>1 DEF MakerFills, Candidates
    <2>3. inBook \subseteq Orders
      BY DEF Inv, TypeOK
    <2>4. resting[plan.fills[i].order]
      BY <2>2, <2>3 DEF FreshInv, BooksAgree
    <2> QED  BY <2>2, <2>3, <2>4 DEF FreshInv, BooksAgree, Inv, Unrecorded
  <1> HIDE DEF first
  <1>6. ASSUME NEW r \in Orders, Active(r)', NEW i \in DOMAIN legs'[r]
        PROVE  CanFill(legs'[r][i].order, filled'[legs'[r][i].order], legs'[r][i].amount)
    <2>1. CASE r = o
      <3>1. legs'[r] = <<first>> \o plan.fills
        BY <1>1, <1>2, <2>1
      <3>2. \/ i = 1 /\ legs'[r][i] = first
            \/ i - 1 \in DOMAIN plan.fills /\ legs'[r][i] = plan.fills[i - 1]
        BY <1>4, <3>1
      <3>3. filled'[o] = command.context.filled
        BY <1>1, <1>2
      <3>4. \A x \in Orders : x # o => filled'[x] = filled[x]
        BY <1>1, <1>2
      <3> QED  BY <1>3, <1>4, <1>5, <3>2, <3>3, <3>4
    <2>2. CASE r # o
      <3>1. legs'[r] = legs[r] /\ Active(r)
        BY <1>1, <1>2, <1>6, <2>2 DEF Active
      <3>2. legs[r][i].order \in LegOrders(legs[r]) /\ legs[r][i].order \in Orders
        BY <1>1, <3>1, LegType DEF LegOrders
      <3>3. legs[r][i].order # o
        BY <3>1, <3>2 DEF Inv, Unrecorded, Active, ActiveStatuses
      <3>4. filled'[legs[r][i].order] = filled[legs[r][i].order]
        BY <1>1, <1>2, <3>2, <3>3
      <3> QED  BY <3>1, <3>4 DEF FreshInv, LegsFillable
    <2> QED  BY <2>1, <2>2
  <1> QED  BY <1>6 DEF LegsFillable

LEMMA SubmitFresh ==
    ASSUME Inv, FreshInv, NEW o \in Orders, NEW command \in CommandType,
           command.context.filled = 0, SubmitOrder(o, command)
    PROVE  FreshInv'
  <1>1. state[o] = "NoRecord"
    BY DEF SubmitOrder
  <1>2. /\ ~resting[o] /\ o \notin inBook
        /\ \A r \in Reservations : Active(r) => o \notin LegOrders(legs[r])
    BY <1>1 DEF Inv, Unrecorded, FreshInv, BooksAgree, Active, ActiveStatuses
  <1>3. /\ filled \in [Orders -> Nat] /\ resting \in [Orders -> BOOLEAN]
        /\ bookFilled \in [Orders -> Nat] /\ legs \in [Orders -> Seq(Leg)]
    BY <1>1 DEF Inv, TypeOK
  <1>4. ASSUME NEW newState, NEW rests \in BOOLEAN,
               NewRecord(o, newState, command.context.filled, rests),
               UNCHANGED reservations
        PROVE  LegsFillable'
    <2>1. \A x \in Orders : x # o => filled'[x] = filled[x]
      BY <1>3, <1>4 DEF NewRecord
    <2>2. \A r \in Reservations : \A x \in LegOrders(legs[r]) : x \in Orders
      BY <1>3, LegOrdersType
    <2>3. UNCHANGED legs /\ \A r \in Reservations : Active(r)' => Active(r)
      BY <1>4 DEF reservations, Active
    <2> QED  BY <1>1, <1>2, <2>1, <2>2, <2>3, LegsStayFillable DEF FreshInv
  <1>5. CASE \E newState : /\ NewRecord(o, newState, command.context.filled, FALSE)
                           /\ UNCHANGED <<books, reservations>>
    <2>1. LegsFillable'
      BY <1>4, <1>5
    <2>2. BooksAgree'
      BY <1>2, <1>3, <1>5 DEF FreshInv, BooksAgree, NewRecord, books
    <2> QED  BY <2>1, <2>2 DEF FreshInv
  <1>6. CASE \E plan : RestOrder(o, command, plan)
    <2>1. /\ NewRecord(o, "Open", command.context.filled, TRUE) /\ UNCHANGED reservations
          /\ inBook' = inBook \cup {o} /\ bookFilled' = [bookFilled EXCEPT ![o] = 0]
      BY <1>6 DEF RestOrder
    <2>2. LegsFillable'
      BY <1>4, <2>1
    <2>3. BooksAgree'
      BY <1>1, <1>3, <2>1 DEF FreshInv, BooksAgree, NewRecord
    <2> QED  BY <2>2, <2>3 DEF FreshInv
  <1>7. CASE \E plan \in Plans(o, command.context) : ReserveMatch(o, command, plan)
    <2>1. LegsFillable'
      BY <1>1, <1>7, NewLegsFillable
    <2>2. /\ filled' = [filled EXCEPT ![o] = command.context.filled]
          /\ resting' = [resting EXCEPT ![o] = FALSE] /\ UNCHANGED books
      BY <1>7 DEF ReserveMatch
    <2>3. BooksAgree'
      BY <1>2, <1>3, <2>2 DEF FreshInv, BooksAgree, books
    <2> QED  BY <2>1, <2>3 DEF FreshInv
  <1>8. RejectOrder(o, command) =>
          \E newState : /\ NewRecord(o, newState, command.context.filled, FALSE)
                        /\ UNCHANGED <<books, reservations>>
    BY DEF RejectOrder
  <1>9. \A plan : LeaveInactive(o, command, plan) =>
          \E newState : /\ NewRecord(o, newState, command.context.filled, FALSE)
                        /\ UNCHANGED <<books, reservations>>
    BY DEF LeaveInactive
  <1>10. \A plan : ReserveMatch(o, command, plan) => plan # NoPlan
    BY DEF ReserveMatch
  <1> QED
    BY <1>5, <1>6, <1>7, <1>8, <1>9, <1>10 DEF SubmitOrder, AdmitOrder

\* Then a commit fills every leg of its reservation.
LEMMA SubmittedFillsAll ==
    ASSUME Inv, FreshInv, NEW r \in Reservations, status[r] = "Submitted"
    PROVE  AppliedLegs(r) = DOMAIN legs[r]
  <1>1. Active(r) /\ legs[r] \in Seq(Leg)
    BY DEF Active, ActiveStatuses, Inv, TypeOK
  <1>2. ASSUME NEW i \in DOMAIN legs[r]
        PROVE  FillApplies(legs[r][i])
    <2>1. legs[r][i].order \in Orders
      BY <1>1, LegType
    <2> QED  BY <1>1, <2>1 DEF FreshInv, BooksAgree, LegsFillable, FillApplies
  <1>3. \A i \in DOMAIN legs[r] : \A j \in 1..i : j \in DOMAIN legs[r]
    BY <1>1
  <1> QED  BY <1>2, <1>3 DEF AppliedLegs

LEMMA CommitFillsAll ==
    ASSUME Inv, FreshInv, NEW r \in Reservations, CommitReservation(r)
    PROVE  /\ AppliedLegs(r) = DOMAIN legs[r]
           /\ {legs[r][i].order : i \in AppliedLegs(r)} = LegOrders(legs[r])
  <1>1. AppliedLegs(r) = DOMAIN legs[r]
    BY SubmittedFillsAll DEF CommitReservation
  <1> QED  BY <1>1 DEF LegOrders

\* What a commit makes of the records and the books, when all its legs are
\* filled.
LEMMA CommitFresh ==
    ASSUME Inv, FreshInv, NEW r \in Reservations, CommitReservation(r)
    PROVE  /\ FreshInv'
           /\ \A o \in LegOrders(legs[r]) :
                 /\ state'[o] \in {"Filled", "PartiallyFilled"}
                 /\ filled'[o] = filled[o] + LegAmount(legs[r], o)
           /\ \A s \in Reservations : s # r => status'[s] = status[s]
  <1> DEFINE held == LegOrders(legs[r])
             newFilled(o) == filled[o] + LegAmount(legs[r], o)
             newBookFilled(o) == bookFilled[o] + LegAmount(legs[r], o)
             full == {o \in held : newFilled(o) = MaxClaim(o)}
             leaves == {o \in held : resting[o] /\ newBookFilled(o) = MaxClaim(o)}
  <1>1. /\ status' = [status EXCEPT ![r] = "Committed"]
        /\ filled' = [o \in Orders |-> IF o \in held THEN newFilled(o) ELSE filled[o]]
        /\ resting' = [o \in Orders |-> resting[o] /\ o \notin full]
        /\ state' = [o \in Orders |-> IF o \in full THEN "Filled"
                                      ELSE IF o \in held THEN "PartiallyFilled"
                                      ELSE state[o]]
        /\ inBook' = inBook \ leaves
        /\ bookFilled' = [o \in Orders |-> IF o \in leaves THEN 0
                                           ELSE IF o \in held /\ resting[o]
                                           THEN newBookFilled(o) ELSE bookFilled[o]]
        /\ UNCHANGED legs
    BY CommitFillsAll DEF CommitReservation
  <1>2. /\ legs \in [Orders -> Seq(Leg)] /\ inBook \subseteq Orders
        /\ status \in [Orders -> Statuses \cup {"NoReservation"}]
    BY DEF Inv, TypeOK
  <1>3. held \subseteq Orders /\ full \subseteq held /\ leaves \subseteq held
    BY <1>2, LegOrdersType
  <1>4. \A o \in Orders : /\ o \in inBook <=> resting[o]
                          /\ resting[o] => newBookFilled(o) = newFilled(o)
                          /\ resting[o] => bookFilled[o] = filled[o]
    BY DEF FreshInv, BooksAgree
  <1>5. \A o \in held : resting[o] => (o \in full <=> o \in leaves)
    BY <1>3, <1>4
  <1>6. \A o \in held : filled'[o] = newFilled(o)
    BY <1>1, <1>3
  <1>7. \A o \in held : state'[o] \in {"Filled", "PartiallyFilled"}
    BY <1>1, <1>3
  <1>8. leaves \subseteq {o \in Orders : resting[o]}
    BY <1>3
  <1> HIDE DEF newFilled, newBookFilled, full, leaves, held
  <1>9. BooksAgree'
    <2> SUFFICES ASSUME NEW o \in Orders
                 PROVE  /\ o \in inBook' <=> resting'[o]
                        /\ resting'[o] => bookFilled'[o] = filled'[o]
      BY DEF BooksAgree
    <2>1. resting'[o] <=> resting[o] /\ o \notin full
      BY <1>1
    <2>2. o \in inBook' <=> o \in inBook /\ o \notin leaves
      BY <1>1
    <2>3. o \in inBook' <=> resting'[o]
      BY <1>3, <1>4, <1>5, <2>1, <2>2
    <2>4. CASE resting'[o]
      <3>1. resting[o] /\ o \notin leaves
        BY <1>3, <1>5, <2>1, <2>4
      <3>2. bookFilled'[o] = IF o \in held THEN newBookFilled(o) ELSE bookFilled[o]
        BY <1>1, <3>1
      <3>3. filled'[o] = IF o \in held THEN newFilled(o) ELSE filled[o]
        BY <1>1
      <3> QED  BY <1>4, <2>3, <3>1, <3>2, <3>3
    <2> QED  BY <2>3, <2>4
  <1>10. \A s \in Orders : s # r => status'[s] = status[s]
    BY <1>1, <1>2
  <1>11. LegsFillable'
    <2>1. \A s \in Orders : Active(s)' => s # r /\ Active(s)
      BY <1>1, <1>2, <1>10 DEF Active, ActiveStatuses
    <2>2. Active(r)
      BY DEF CommitReservation, Active, ActiveStatuses
    <2>3. ASSUME NEW s \in Orders, Active(s)', NEW o \in LegOrders(legs[s])
          PROVE  filled'[o] = filled[o]
      <3>1. o \notin held
        BY <2>1, <2>2, <2>3 DEF Inv, NoDoubleMatch, held
      <3>2. o \in Orders
        BY <1>2, LegOrdersType
      <3> QED  BY <1>1, <3>1, <3>2
    <2> QED  BY <1>1, <2>1, <2>3, LegsStayFillable DEF FreshInv
  <1> QED  BY <1>6, <1>7, <1>9, <1>10, <1>11 DEF FreshInv, held, newFilled

\* A cancellation, a release or an expiry fills nothing.
LEMMA CancelFresh ==
    ASSUME Inv, FreshInv, NEW o \in Orders, CancelOrder(o)
    PROVE  FreshInv' /\ UNCHANGED status
  <1>1. /\ inBook' = IF resting[o] THEN inBook \ {o} ELSE inBook
        /\ bookFilled' = IF resting[o] THEN [bookFilled EXCEPT ![o] = 0] ELSE bookFilled
        /\ resting' = [resting EXCEPT ![o] = FALSE]
        /\ UNCHANGED <<filled, status, legs>>
    BY DEF CancelOrder, reservations
  <1>2. LegsFillable'
    BY <1>1 DEF FreshInv, LegsFillable, Active
  <1>3. BooksAgree'
    BY <1>1 DEF FreshInv, BooksAgree, Inv, TypeOK
  <1> QED  BY <1>1, <1>2, <1>3 DEF FreshInv

LEMMA LetGoFresh ==
    ASSUME FreshInv, NEW rs, \A r \in rs : Active(r), NEW ending \in {"Released", "Expired"},
           LetGo(rs, ending)
    PROVE  FreshInv' /\ \A r \in Reservations : status'[r] = "Committed" => status[r] = "Committed"
  <1>1. /\ status' = [r \in Reservations |-> IF r \in rs THEN ending ELSE status[r]]
        /\ UNCHANGED <<filled, resting, inBook, bookFilled, legs>>
    BY DEF LetGo, books
  <1>2. \A r \in Reservations : Active(r)' => Active(r)
    BY <1>1 DEF Active, ActiveStatuses
  <1>3. LegsFillable' /\ BooksAgree'
    BY <1>1, <1>2 DEF FreshInv, LegsFillable, BooksAgree
  <1> QED  BY <1>1, <1>3 DEF FreshInv

LEMMA EndFresh ==
    ASSUME FreshInv, NEW r \in Reservations, NEW now,
           \/ MarkExpiredReservation(r, now) \/ ExpireReservation(r, now)
           \/ ReleaseReservation(r)
    PROVE  FreshInv' /\ \A s \in Reservations : status'[s] = "Committed" => status[s] = "Committed"
  <1>1. \E ending \in {"Released", "Expired"} : LetGo({r}, ending) /\ Active(r)
    BY DEF MarkExpiredReservation, ExpireReservation, ReleaseReservation, Active,
       ActiveStatuses
  <1>2. \A s \in {r} : Active(r) => Active(s)
    OBVIOUS
  <1> QED  BY <1>1, <1>2, LetGoFresh

LEMMA MarkFresh ==
    ASSUME Inv, FreshInv, NEW r \in Reservations, NEW now, MarkReservationSubmitted(r, now)
    PROVE  FreshInv' /\ \A s \in Reservations : status'[s] = "Committed" => status[s] = "Committed"
  <1>1. /\ status' = [status EXCEPT ![r] = "Submitted"] /\ status[r] = "Reserved"
        /\ UNCHANGED <<filled, resting, inBook, bookFilled, legs>>
    BY DEF MarkReservationSubmitted, books
  <1>2. status \in [Orders -> Statuses \cup {"NoReservation"}]
    BY DEF Inv, TypeOK
  <1>3. \A s \in Reservations : Active(s)' => Active(s)
    BY <1>1, <1>2 DEF Active, ActiveStatuses
  <1>4. LegsFillable' /\ BooksAgree'
    BY <1>1, <1>3 DEF FreshInv, LegsFillable, BooksAgree
  <1> QED  BY <1>1, <1>2, <1>4 DEF FreshInv

LEMMA SettleFresh ==
    ASSUME Inv, FreshInv, NEW r \in Reservations, SettleReservation(r)
    PROVE  /\ FreshInv'
           /\ \/ CommitReservation(r)
              \/ \A s \in Reservations : status'[s] = "Committed" => status[s] = "Committed"
  <1>1. ASSUME NEW now, \/ MarkExpiredReservation(r, now) \/ ExpireReservation(r, now)
                        \/ ReleaseReservation(r)
        PROVE  /\ FreshInv'
               /\ \A s \in Reservations : status'[s] = "Committed" => status[s] = "Committed"
    BY <1>1, EndFresh
  <1>2. ASSUME NEW now, MarkReservationSubmitted(r, now)
        PROVE  /\ FreshInv'
               /\ \A s \in Reservations : status'[s] = "Committed" => status[s] = "Committed"
    BY <1>2, MarkFresh
  <1>3. CASE CommitReservation(r)
    BY <1>3, CommitFresh
  <1> QED  BY <1>1, <1>2, <1>3 DEF SettleReservation
=============================================================================
