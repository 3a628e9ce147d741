--------------------------- MODULE ExchangeProofs ---------------------------
(***************************************************************************)
(* Proofs about the engine with its matcher and its books: whatever holds  *)
(* of Engine holds of it, and the price levels of the books are what they  *)
(* should be.                                                              *)
(***************************************************************************)
EXTENDS Exchange, EngineProofs, MatcherProofs

USE DEF Reservations

(***************************************************************************)
(* The inductive invariant.                                                *)
(***************************************************************************)
\* The orders on the books have a record and passed validation.
BookKnown == \A o \in inBook : state[o] # "NoRecord" /\ ValidBasic(o)

\* What LevelsMatchBook says, of any levels and any book.
LevelsMatch(ls, book) ==
    /\ \A l \in DOMAIN ls : ls[l] # <<>>
    /\ \A l \in DOMAIN ls : \A i \in DOMAIN ls[l] :
          /\ ls[l][i] \in book
          /\ LevelOf(ls[l][i]) = l
          /\ \A j \in DOMAIN ls[l] : ls[l][i] = ls[l][j] => i = j
    /\ \A o \in book :
          /\ LevelOf(o) \in DOMAIN ls
          /\ \E i \in DOMAIN ls[LevelOf(o)] : ls[LevelOf(o)][i] = o

LEMMA LevelsMatchBookMeans ==
    /\ LevelsMatchBook <=> LevelsMatch(levels, inBook)
    /\ LevelsMatchBook' <=> LevelsMatch(levels', inBook')
  <1>1. LevelsMatchBook <=> LevelsMatch(levels, inBook)
    BY DEF LevelsMatchBook, LevelsMatch
  <1>2. LevelsMatchBook' <=> LevelsMatch(levels', inBook')
    BY DEF LevelsMatchBook, LevelsMatch, LevelOf, Price, Collateral, MaxClaim
  <1> QED  BY <1>1, <1>2

\* Each level is in the order of the sequence numbers, no two orders of a
\* market that rest have one number, and the next number of a market is above
\* them.
SequencesOrdered ==
    /\ acceptedSequence \in [Orders -> Nat]
    /\ nextSequence \in [Markets -> Nat]
    /\ \A l \in DOMAIN levels : \A i, j \in DOMAIN levels[l] :
          i < j => acceptedSequence[levels[l][i]] < acceptedSequence[levels[l][j]]
    /\ \A o, p \in inBook :
          Terms[o].market = Terms[p].market /\ acceptedSequence[o] = acceptedSequence[p]
          => o = p
    /\ \A o \in inBook : acceptedSequence[o] < nextSequence[Terms[o].market]

LevelsInv ==
    /\ IsFiniteSet(DOMAIN levels)
    /\ \A l \in DOMAIN levels : levels[l] \in Seq(Orders)
    /\ LevelsMatchBook
    /\ BookKnown
    /\ SequencesOrdered

ExchangeInv == Inv /\ LevelsInv /\ LegsBalance

LEMMA ExchangeInvInit == ExchangeInit => ExchangeInv
  <1> SUFFICES ASSUME ExchangeInit
               PROVE  ExchangeInv
    OBVIOUS
  <1>1. Inv
    BY InitInv DEF ExchangeInit
  <1>2. levels = <<>> /\ inBook = {} /\ \A r \in Orders : legs[r] = <<>>
    BY DEF ExchangeInit, Init
  <1>3. DOMAIN levels = {} /\ IsFiniteSet(DOMAIN levels)
    BY <1>2, FS_EmptySet
  <1>4. LevelsMatchBook /\ BookKnown
    BY <1>2, <1>3 DEF LevelsMatchBook, BookKnown
  <1>5. SequencesOrdered
    BY <1>2, <1>3 DEF SequencesOrdered, ExchangeInit
  <1>6. LegsBalance
    BY <1>2 DEF LegsBalance
  <1> QED  BY <1>1, <1>3, <1>4, <1>5, <1>6 DEF ExchangeInv, LevelsInv
-----------------------------------------------------------------------------
(***************************************************************************)
(* The matcher keeps its promise: what it returns is a plan that Engine    *)
(* allows.                                                                 *)
(***************************************************************************)
LEMMA LevelsSound ==
    ASSUME LevelsInv
    PROVE  SoundLevels(levels, inBook)
  <1>1. ASSUME NEW l \in DOMAIN levels
        PROVE  levels[l] \in Seq(inBook)
    <2> DEFINE list == levels[l]
    <2>1. list \in Seq(Orders) /\ \A i \in DOMAIN list : list[i] \in inBook
      BY DEF LevelsInv, LevelsMatchBook
    <2> HIDE DEF list
    <2>2. list \in Seq(inBook)
      BY <2>1
    <2> QED  BY <2>2 DEF list
  <1> QED  BY <1>1 DEF SoundLevels, LevelsInv, LevelsMatchBook

LEMMA MatchIsPlan ==
    ASSUME LevelsInv, TypeOK, NEW o \in Orders, NEW command \in CommandType,
           NEW match, match = MatchFor(o, command.context),
           match # NoMatch, match # MatchFailed,
           NEW plan, plan = [taken |-> match.taken, fills |-> match.fills]
    PROVE  /\ plan \in Plans(o, command.context)
           /\ plan.fills \in Seq(FillType)
           /\ plan.taken = Total(Amounts(plan.fills))
  <1> DEFINE context == command.context
             unavailable == {m \in Orders : state[m] \in LockedStates
                                             \/ OrderExpired(m, context.now)}
             left == RemainingClaim(o, context.filled)
  <1>1. context.filled \in Nat
    BY DEF CommandType, ContextType
  <1>2. /\ SoundLevels(levels, inBook) /\ inBook \in SUBSET Orders
        /\ \A m \in inBook : ValidBasic(m)
        /\ bookFilled \in [Orders -> Nat]
    BY LevelsSound DEF TypeOK, LevelsInv, BookKnown
  <1>3. match = PlanMatch(levels, bookFilled, o, context.filled, unavailable)
    BY DEF MatchFor
  <1> HIDE DEF unavailable, context, left
  <1>4. PICK kind : SoundMatch(match, kind, inBook, bookFilled, o, context.filled, unavailable)
    BY <1>1, <1>2, <1>3, PlanMatchSound
  <1>5. /\ match.taken \in 1..left
        /\ CanFill(o, context.filled, match.taken)
        /\ match.fills \in Seq(FillType)
        /\ Len(match.fills) \in 1..MaxMakerOrders
        /\ match.taken = Total(Amounts(match.fills))
        /\ \A i, j \in DOMAIN match.fills :
              match.fills[i].order = match.fills[j].order => i = j
    BY <1>4 DEF SoundMatch, left
  <1>6. ASSUME NEW i \in DOMAIN match.fills
        PROVE  match.fills[i] \in MakerFills(o, context)
    <2> DEFINE fill == match.fills[i]
    <2>1. fill \in FillType
      BY <1>5
    <2> HIDE DEF fill
    <2>2. fill = [order |-> fill.order, amount |-> fill.amount]
      BY <2>1, SMTT(30) DEF FillType
    <2>3. /\ fill.order \in inBook
          /\ fill.order \notin unavailable
          /\ Terms[fill.order].market = Terms[o].market
          /\ fill.amount \in 1..left
          /\ CanFill(fill.order, bookFilled[fill.order], fill.amount)
      BY <1>4 DEF SoundMatch, left, fill
    <2>4. fill.order \in inBook /\ fill.order \in Orders
      BY <2>1, <2>3 DEF FillType
    <2>5. fill.order \in Candidates(o, context.now)
      BY <2>3, <2>4 DEF Candidates, unavailable
    <2>6. fill \in [order : Candidates(o, context.now), amount : 1..left]
      BY <2>2, <2>3, <2>5
    <2> QED  BY <2>3, <2>6 DEF MakerFills, left, fill
  <1>7. match.fills \in UNION {[1..n -> MakerFills(o, context)] : n \in 1..MaxMakerOrders}
    <2>1. match.fills \in [1..Len(match.fills) -> MakerFills(o, context)]
      <3>1. DOMAIN match.fills = 1..Len(match.fills)
        BY <1>5
      <3>2. match.fills = [i \in 1..Len(match.fills) |-> match.fills[i]]
        BY <1>5
      <3> QED  BY <1>6, <3>1, <3>2
    <2> QED  BY <1>5, <2>1
  <1>8. plan.taken = match.taken /\ plan.fills = match.fills
    OBVIOUS
  <1>9. plan \in Plans(o, context)
    BY <1>5, <1>7 DEF Plans, left
  <1> QED  BY <1>5, <1>8, <1>9 DEF context

\* So a submission is one of Engine's, with the plan that it takes.
LEMMA SubmitIsSubmit ==
    ASSUME ExchangeInv, NEW o \in Orders, NEW command \in Commands,
           ExchangeSubmitOrder(o, command)
    PROVE  /\ SubmitOrder(o, command)
           /\ \/ RejectOrder(o, command)
              \/ /\ ValidBasic(o)
                 /\ \E plan : /\ AdmitOrder(o, command, plan)
                              /\ \/ plan = NoPlan
                                 \/ /\ plan \in Plans(o, command.context)
                                    /\ plan.fills \in Seq(FillType)
                                    /\ plan.taken = Total(Amounts(plan.fills))
  <1>1. command \in CommandType
    BY CommandsAssumption
  <1>2. state[o] = "NoRecord"
    BY DEF ExchangeSubmitOrder
  <1>3. CASE ~Accepts(o, command.context)
    BY <1>2, <1>3 DEF ExchangeSubmitOrder, SubmitOrder
  <1>4. CASE Accepts(o, command.context)
    <2> DEFINE match == MatchFor(o, command.context)
               plan == IF match = NoMatch THEN NoPlan
                       ELSE [taken |-> match.taken, fills |-> match.fills]
    <2>1. match # MatchFailed /\ AdmitOrder(o, command, plan)
      BY <1>4 DEF ExchangeSubmitOrder
    <2>2. ValidBasic(o)
      BY <1>4 DEF Accepts
    <2> HIDE DEF match
    <2>3. CASE match = NoMatch
      BY <1>2, <1>4, <2>1, <2>2, <2>3 DEF SubmitOrder
    <2>4. CASE match # NoMatch
      <3>1. /\ plan \in Plans(o, command.context)
            /\ plan.fills \in Seq(FillType)
            /\ plan.taken = Total(Amounts(plan.fills))
        BY <1>1, <2>1, <2>4, MatchIsPlan DEF ExchangeInv, Inv, match
      <3> HIDE DEF plan
      <3> QED  BY <1>2, <1>4, <2>1, <2>2, <3>1 DEF SubmitOrder
    <2> QED  BY <2>3, <2>4
  <1> QED  BY <1>3, <1>4

\* So are the other calls, which may take orders off the books, and off their
\* levels, but put none there.
OrdersLeave ==
    \E S \in SUBSET inBook : Remove(S) /\ inBook' = inBook \ S

RecordsStay == \A o \in Orders : state[o] # "NoRecord" => state'[o] # "NoRecord"

LEMMA CallIsCall ==
    ASSUME ExchangeInv, ExchangeNext
    PROVE  \/ \E o \in Orders, command \in Commands : ExchangeSubmitOrder(o, command)
           \/ /\ Next /\ UNCHANGED legs /\ RecordsStay
              /\ OrdersLeave \/ UNCHANGED <<inBook, bookOrder>>
           \/ ExchangeRestart
  <1>1. \A o \in Orders : resting[o] => o \in inBook
    BY DEF ExchangeInv, Inv, RestingAlive
  <1>2. ASSUME NEW o \in Orders, ExchangeCancelOrder(o)
        PROVE  /\ Next /\ UNCHANGED legs /\ RecordsStay
               /\ OrdersLeave \/ UNCHANGED <<inBook, bookOrder>>
    <2>1. CancelOrder(o)
      BY <1>2 DEF ExchangeCancelOrder
    <2>2. Next /\ UNCHANGED legs
      BY <2>1 DEF Next, CancelOrder, reservations
    <2>3. RecordsStay
      BY <2>1 DEF CancelOrder, RecordsStay, ExchangeInv, Inv, TypeOK
    <2>4. CASE resting[o]
      <3>1. Remove({o}) /\ inBook' = inBook \ {o} /\ {o} \in SUBSET inBook
        BY <1>1, <1>2, <2>4 DEF ExchangeCancelOrder, CancelOrder
      <3> QED  BY <2>2, <2>3, <3>1 DEF OrdersLeave
    <2>5. CASE ~resting[o]
      BY <1>2, <2>2, <2>3, <2>5 DEF ExchangeCancelOrder, CancelOrder
    <2> QED  BY <2>4, <2>5
  <1>3. ASSUME NEW rs \in SUBSET Orders, NEW ending, LetGo(rs, ending)
        PROVE  UNCHANGED <<inBook, legs>> /\ RecordsStay
    BY <1>3 DEF LetGo, ReleasedState, books, RecordsStay
  <1>4. ASSUME NEW r \in Orders, ExchangeSettleReservation(r)
        PROVE  /\ Next /\ UNCHANGED legs /\ RecordsStay
               /\ OrdersLeave \/ UNCHANGED <<inBook, bookOrder>>
    <2>1. /\ SettleReservation(r)
          /\ IF status'[r] = "Committed" THEN Remove(UsedUp(r)) ELSE UNCHANGED bookOrder
      BY <1>4 DEF ExchangeSettleReservation
    <2>2. Next /\ status \in [Orders -> Statuses \cup {"NoReservation"}]
      BY <2>1 DEF Next, ExchangeInv, Inv, TypeOK
    <2>3. CASE \/ \E now \in Times : MarkExpiredReservation(r, now) \/ ExpireReservation(r, now)
               \/ ReleaseReservation(r)
      <3>1. PICK ending \in {"Expired", "Released"} : LetGo({r}, ending)
        BY <2>3 DEF MarkExpiredReservation, ExpireReservation, ReleaseReservation
      <3>2. status'[r] = ending
        BY <2>2, <3>1 DEF LetGo
      <3>3. UNCHANGED bookOrder
        BY <2>1, <3>2
      <3> QED  BY <1>3, <2>2, <3>1, <3>3
    <2>4. CASE \E now \in Times : MarkReservationSubmitted(r, now)
      <3>1. status'[r] = "Submitted"
        BY <2>2, <2>4 DEF MarkReservationSubmitted
      <3>2. UNCHANGED bookOrder
        BY <2>1, <3>1
      <3> QED  BY <2>2, <2>4, <3>2 DEF MarkReservationSubmitted, books, RecordsStay
    <2>5. CASE CommitReservation(r)
      <3>1. status'[r] = "Committed"
        BY <2>2, <2>5 DEF CommitReservation
      <3>2. inBook' = inBook \ UsedUp(r) /\ UNCHANGED legs
        BY <2>5 DEF CommitReservation, UsedUp
      <3>3. UsedUp(r) \in SUBSET inBook
        <4>1. legs[r] \in Seq(Leg)
          BY DEF ExchangeInv, Inv, TypeOK
        <4>2. \A i \in DOMAIN legs[r] : legs[r][i].order \in Orders
          <5> SUFFICES ASSUME NEW i \in DOMAIN legs[r]
                       PROVE  legs[r][i].order \in Orders
            OBVIOUS
          <5>1. legs[r][i] \in Leg
            BY <4>1
          <5> QED  BY <5>1 DEF Leg
        <4>3. AppliedLegs(r) \subseteq DOMAIN legs[r]
          BY DEF AppliedLegs
        <4> QED  BY <1>1, <4>2, <4>3 DEF UsedUp
      <3>4. RecordsStay
        BY <2>5 DEF CommitReservation, RecordsStay
      <3> QED  BY <2>1, <2>2, <3>1, <3>2, <3>3, <3>4 DEF OrdersLeave
    <2> QED  BY <2>1, <2>3, <2>4, <2>5 DEF SettleReservation
  <1>5. ASSUME NEW now \in Times, ExchangeExpireReservations(now)
        PROVE  /\ Next /\ UNCHANGED legs /\ RecordsStay
               /\ OrdersLeave \/ UNCHANGED <<inBook, bookOrder>>
    <2>1. ExpireExpiredReservations(now) /\ UNCHANGED bookOrder
      BY <1>5 DEF ExchangeExpireReservations
    <2>2. Next
      BY <2>1 DEF Next
    <2>3. \E rs \in SUBSET Orders : LetGo(rs, "Expired")
      BY <2>1 DEF ExpireExpiredReservations
    <2> QED  BY <1>3, <2>1, <2>2, <2>3
  <1> QED  BY <1>2, <1>4, <1>5 DEF ExchangeNext

(***************************************************************************)
(* Refinement: every step of the exchange is a step of the engine.         *)
(***************************************************************************)
LEMMA StepIsStep == ExchangeInv /\ [ExchangeNext]_allVars => [Next]_vars
  <1> SUFFICES ASSUME ExchangeInv, [ExchangeNext]_allVars
               PROVE  [Next]_vars
    OBVIOUS
  <1>1. CASE ExchangeNext
    <2>1. ASSUME NEW o \in Orders, NEW command \in Commands, ExchangeSubmitOrder(o, command)
          PROVE  Next
      BY <2>1, SubmitIsSubmit DEF Next
    <2>2. ExchangeRestart => Next
      BY DEF ExchangeRestart, Next
    <2> QED  BY <1>1, <2>1, <2>2, CallIsCall
  <1>2. CASE UNCHANGED allVars
    BY <1>2 DEF allVars
  <1> QED  BY <1>1, <1>2
-----------------------------------------------------------------------------
(***************************************************************************)
(* The levels after each kind of step.                                     *)
(***************************************************************************)
\* Taking orders off the levels leaves the others, in their order, and no
\* level empty.
LEMMA LevelsWithout ==
    ASSUME LevelsInv, inBook \subseteq Orders, NEW S \in SUBSET inBook, Remove(S)
    PROVE  /\ DOMAIN levels' \subseteq DOMAIN levels
           /\ \A l \in DOMAIN levels' :
                 /\ levels'[l] \in Seq(Orders) /\ levels'[l] # <<>>
                 /\ \E at : Places(at, levels'[l], levels[l],
                                   {i \in DOMAIN levels[l] : levels[l][i] \notin S})
           /\ \A o \in inBook \ S : LevelOf(o) \in DOMAIN levels'
  <1> DEFINE looked == {LookUp(o) : o \in S}
             here(l) == {o \in S : LookUp(o) = l}
             left(l) == Without(levels[l], here(l))
             kept(l) == {i \in DOMAIN levels[l] : levels[l][i] \notin S}
             emptied == {l \in looked \cap DOMAIN levels : left(l) = <<>>}
  <1>1. levels' = [l \in DOMAIN levels \ emptied |-> left(l)]
    BY DEF Remove
  <1>2. ASSUME NEW l \in DOMAIN levels
        PROVE  /\ left(l) \in Seq(Orders)
               /\ Places(Ascending(kept(l)), left(l), levels[l], kept(l))
               /\ l \notin looked => left(l) # <<>>
    <2> DEFINE list == levels[l]
    <2>1. /\ list \in Seq(Orders) /\ list # <<>>
          /\ \A i \in DOMAIN list : LookUp(list[i]) = l
          /\ \A i, j \in DOMAIN list : list[i] = list[j] => i = j
      BY DEF LevelsInv, LevelsMatchBook, LookUp
    <2>2. \A i \in DOMAIN list : list[i] \in here(l) <=> list[i] \in S
      BY <2>1
    <2>3. \A i \in DOMAIN list : ~\E j \in 1..(i - 1) : list[j] = list[i]
      <3> SUFFICES ASSUME NEW i \in DOMAIN list, NEW j \in 1..(i - 1), list[j] = list[i]
                   PROVE  FALSE
        OBVIOUS
      <3>1. i \in 1..Len(list) /\ Len(list) \in Nat
        BY <2>1
      <3>2. j \in DOMAIN list /\ j < i
        BY <2>1, <3>1
      <3> QED  BY <2>1, <3>1, <3>2
    <2>4. left(l) = Sublist(list, kept(l))
      <3>1. {i \in DOMAIN list :
                list[i] \in here(l) => \E j \in 1..(i - 1) : list[j] = list[i]} = kept(l)
        BY <2>2, <2>3
      <3> HIDE DEF here, kept
      <3> QED  BY <3>1 DEF Without
    <2>5. kept(l) \in SUBSET DOMAIN list
      OBVIOUS
    <2>6. l \notin looked => 1 \in kept(l)
      <3>1. 1 \in DOMAIN list
        BY <2>1
      <3> QED  BY <2>1, <3>1
    <2> HIDE DEF kept, left, looked
    <2>7. left(l) \in Seq(Orders) /\ Places(Ascending(kept(l)), left(l), list, kept(l))
      BY <2>1, <2>4, <2>5, SublistProperties
    <2>8. l \notin looked => left(l) # <<>>
      BY <2>6, <2>7 DEF Places
    <2> QED  BY <2>7, <2>8
  <1>3. /\ DOMAIN levels' = DOMAIN levels \ emptied
        /\ \A l \in DOMAIN levels' : levels'[l] = left(l)
    BY <1>1
  <1>4. \A l \in DOMAIN levels \ emptied : left(l) # <<>>
    BY <1>2
  <1>5. ASSUME NEW o \in inBook \ S
        PROVE  LevelOf(o) \in DOMAIN levels'
    <2> DEFINE l == LevelOf(o)
    <2>1. l \in DOMAIN levels /\ \E i \in DOMAIN levels[l] : levels[l][i] = o
      BY DEF LevelsInv, LevelsMatchBook
    <2>2. \E i \in kept(l) : TRUE
      BY <2>1
    <2> HIDE DEF l, kept, left
    <2>3. left(l) # <<>>
      BY <1>2, <2>1, <2>2 DEF Places
    <2>4. l \notin emptied
      BY <2>3
    <2> QED  BY <1>3, <2>1, <2>4 DEF l
  <1>6. ASSUME NEW l \in DOMAIN levels'
        PROVE  /\ levels'[l] \in Seq(Orders) /\ levels'[l] # <<>>
               /\ \E at : Places(at, levels'[l], levels[l], kept(l))
    <2>1. l \in DOMAIN levels \ emptied /\ levels'[l] = left(l)
      BY <1>3
    <2> HIDE DEF kept, left, emptied
    <2> QED  BY <1>2, <1>4, <2>1
  <1> HIDE DEF emptied, left
  <1> QED  BY <1>3, <1>5, <1>6

\* Orders that leave the books leave their levels, which stay in order.
LEMMA RemoveInv ==
    ASSUME LevelsInv, NEW S \in SUBSET inBook, Remove(S), inBook' = inBook \ S,
           RecordsStay, inBook \subseteq Orders
    PROVE  LevelsInv'
  <1>1. /\ DOMAIN levels' \subseteq DOMAIN levels
        /\ \A l \in DOMAIN levels' :
              /\ levels'[l] \in Seq(Orders) /\ levels'[l] # <<>>
              /\ \E at : Places(at, levels'[l], levels[l],
                                {i \in DOMAIN levels[l] : levels[l][i] \notin S})
        /\ \A o \in inBook \ S : LevelOf(o) \in DOMAIN levels'
    BY LevelsWithout
  <1>2. UNCHANGED <<acceptedSequence, nextSequence>>
    BY DEF Remove
  <1>3. IsFiniteSet(DOMAIN levels')
    BY <1>1, FS_Subset DEF LevelsInv
  <1>4. LevelsMatch(levels, inBook)
    BY LevelsMatchBookMeans DEF LevelsInv
  <1>5. ASSUME NEW l \in DOMAIN levels'
        PROVE  /\ \A i \in DOMAIN levels'[l] :
                     /\ levels'[l][i] \in inBook' /\ LevelOf(levels'[l][i]) = l
                     /\ \A j \in DOMAIN levels'[l] :
                           /\ levels'[l][i] = levels'[l][j] => i = j
                           /\ i < j => acceptedSequence[levels'[l][i]]
                                          < acceptedSequence[levels'[l][j]]
               /\ \A i \in DOMAIN levels[l] : levels[l][i] \notin S =>
                     \E j \in DOMAIN levels'[l] : levels'[l][j] = levels[l][i]
    <2> DEFINE old == levels[l]
               new == levels'[l]
               kept == {i \in DOMAIN old : old[i] \notin S}
    <2>1. PICK at : Places(at, new, old, kept)
      BY <1>1
    <2>2. \A i \in DOMAIN old :
             /\ old[i] \in inBook /\ LevelOf(old[i]) = l
             /\ \A j \in DOMAIN old :
                   /\ old[i] = old[j] => i = j
                   /\ i < j => acceptedSequence[old[i]] < acceptedSequence[old[j]]
      BY <1>1, <1>4 DEF LevelsMatch, LevelsInv, SequencesOrdered
    <2>3. \A i \in DOMAIN new :
             at[i] \in DOMAIN old /\ new[i] = old[at[i]] /\ old[at[i]] \notin S
      BY <2>1 DEF Places
    <2>4. /\ DOMAIN new \subseteq Nat /\ DOMAIN old \subseteq Nat
      <3>1. new \in Seq(Orders) /\ old \in Seq(Orders)
        BY <1>1 DEF LevelsInv
      <3> HIDE DEF new, old
      <3> QED  BY <3>1
    <2>5. \A i \in DOMAIN old : old[i] \notin S => \E j \in DOMAIN new : new[j] = old[i]
      <3> SUFFICES ASSUME NEW i \in DOMAIN old, old[i] \notin S
                   PROVE  \E j \in DOMAIN new : new[j] = old[i]
        OBVIOUS
      <3>1. i \in kept
        OBVIOUS
      <3> QED  BY <2>1, <2>3, <3>1 DEF Places
    <2> HIDE DEF old, new
    <2>6. ASSUME NEW i \in DOMAIN new, NEW j \in DOMAIN new
          PROVE  /\ new[i] = new[j] => i = j
                 /\ i < j => acceptedSequence[new[i]] < acceptedSequence[new[j]]
      <3>1. i < j <=> at[i] < at[j]
        BY <2>1 DEF Places
      <3>2. j < i <=> at[j] < at[i]
        BY <2>1 DEF Places
      <3>3. i \in Nat /\ j \in Nat /\ at[i] \in Nat /\ at[j] \in Nat
        BY <2>3, <2>4
      <3>4. new[i] = new[j] => at[i] = at[j]
        BY <2>2, <2>3
      <3> QED  BY <2>2, <2>3, <3>1, <3>2, <3>3, <3>4
    <2>7. \A i \in DOMAIN new : new[i] \in inBook' /\ LevelOf(new[i]) = l
      BY <2>2, <2>3
    <2> QED  BY <2>5, <2>6, <2>7 DEF new, old
  <1>6. LevelsMatchBook'
    <2>1. ASSUME NEW o \in inBook'
          PROVE  \E i \in DOMAIN levels'[LevelOf(o)] : levels'[LevelOf(o)][i] = o
      <3>1. LevelOf(o) \in DOMAIN levels'
        BY <1>1
      <3>2. PICK i \in DOMAIN levels[LevelOf(o)] : levels[LevelOf(o)][i] = o
        BY <1>4 DEF LevelsMatch
      <3> QED  BY <1>5, <3>1, <3>2
    <2>2. LevelsMatch(levels', inBook')
      BY <1>1, <1>5, <2>1 DEF LevelsMatch
    <2> QED  BY <2>2, LevelsMatchBookMeans
  <1>7. BookKnown'
    BY DEF LevelsInv, BookKnown, ValidBasic, MaxClaim, Collateral, RecordsStay
  <1>8. SequencesOrdered'
    BY <1>2, <1>5 DEF LevelsInv, SequencesOrdered, Markets
  <1> QED  BY <1>1, <1>3, <1>6, <1>7, <1>8 DEF LevelsInv

\* An order that comes to rest goes to the back of its level, with a number
\* above those of its market that rest.
LEMMA InsertInv ==
    ASSUME LevelsInv, NEW o \in Orders, o \notin inBook, ValidBasic(o), Insert(o),
           inBook' = inBook \cup {o}, inBook \subseteq Orders,
           \A x \in inBook' : state'[x] # "NoRecord"
    PROVE  LevelsInv'
  <1> DEFINE own == LevelOf(o)
             m == Terms[o].market
             queue == IF own \in DOMAIN levels THEN levels[own] ELSE <<>>
             n == Len(queue)
  <1>1. /\ levels' = [l \in DOMAIN levels \cup {own} |->
                        IF l = own THEN Append(queue, o) ELSE levels[l]]
        /\ acceptedSequence' = [acceptedSequence EXCEPT ![o] = nextSequence[m]]
        /\ nextSequence' = [nextSequence EXCEPT ![m] = @ + 1]
        /\ acceptedSequence \in [Orders -> Nat] /\ nextSequence \in [Markets -> Nat]
    BY DEF Insert, LevelsInv, SequencesOrdered
  <1>2. m \in Markets
    BY DEF Markets
  <1>3. LevelsMatch(levels, inBook)
    BY LevelsMatchBookMeans DEF LevelsInv
  <1>4. queue \in Seq(Orders) /\ n \in Nat /\ DOMAIN queue = 1..n
    BY DEF LevelsInv
  <1>5. \A i \in 1..n : /\ own \in DOMAIN levels /\ i \in DOMAIN levels[own]
                        /\ queue[i] = levels[own][i]
    BY <1>4
  <1>6. \A i \in 1..n :
           /\ queue[i] \in inBook /\ LevelOf(queue[i]) = own
           /\ \A j \in 1..n :
                 /\ queue[i] = queue[j] => i = j
                 /\ i < j => acceptedSequence[queue[i]] < acceptedSequence[queue[j]]
    BY <1>3, <1>5 DEF LevelsMatch, LevelsInv, SequencesOrdered
  <1>7. own \in DOMAIN levels =>
           \A i \in DOMAIN levels[own] : i \in 1..n /\ queue[i] = levels[own][i]
    BY <1>4
  <1>8. DOMAIN levels' = DOMAIN levels \cup {own} /\ levels'[own] = Append(queue, o)
        /\ \A l \in DOMAIN levels : l # own => levels'[l] = levels[l]
    BY <1>1
  <1> HIDE DEF queue, n
  <1> DEFINE new == levels'[own]
  <1>9. /\ new \in Seq(Orders) /\ DOMAIN new = 1..(n + 1) /\ new[n + 1] = o
        /\ \A i \in 1..n : new[i] = queue[i]
    <2>1. n = Len(queue)
      BY DEF n
    <2> QED  BY <1>4, <1>8, <2>1
  <1>10. \A i \in 1..(n + 1) : i \in 1..n \/ i = n + 1
    BY <1>4
  <1>11. n + 1 \in 1..(n + 1) /\ 1..n \subseteq 1..(n + 1)
    BY <1>4
  <1> HIDE DEF new
  <1>12. /\ \A x \in inBook : acceptedSequence'[x] = acceptedSequence[x]
         /\ acceptedSequence'[o] = nextSequence[m]
         /\ \A x \in inBook : Terms[x].market = m => acceptedSequence[x] < nextSequence[m]
    BY <1>1 DEF LevelsInv, SequencesOrdered
  <1>13. \A x \in Orders : LevelOf(x) = own => Terms[x].market = m
    <2> SUFFICES ASSUME NEW x \in Orders, LevelOf(x) = own
                 PROVE  Terms[x].market = m
      OBVIOUS
    <2>1. LevelOf(x).market = Terms[x].market /\ own.market = m
      BY DEF LevelOf
    <2> QED  BY <2>1
  <1> HIDE DEF own, m
  <1>14. /\ own = LevelOf(o) /\ m = Terms[o].market
    BY DEF own, m
  <1>15. ASSUME NEW i \in DOMAIN new, NEW j \in DOMAIN new
         PROVE  /\ new[i] \in inBook' /\ LevelOf(new[i]) = own
                /\ new[i] = new[j] => i = j
                /\ i < j => acceptedSequence'[new[i]] < acceptedSequence'[new[j]]
    <2>1. \A k \in 1..n : new[k] \in inBook /\ new[k] # o /\ LevelOf(new[k]) = own
      BY <1>6, <1>9
    <2>2. new[i] \in inBook' /\ LevelOf(new[i]) = own
      BY <1>9, <1>10, <1>14, <2>1
    <2>3. new[i] = new[j] => i = j
      BY <1>6, <1>9, <1>10, <2>1
    <2>4. ASSUME i < j
          PROVE  acceptedSequence'[new[i]] < acceptedSequence'[new[j]]
      <3>1. i \in 1..n
        BY <1>4, <1>9, <2>4
      <3>2. CASE j = n + 1
        BY <1>9, <1>12, <1>13, <2>1, <3>1, <3>2
      <3>3. CASE j \in 1..n
        BY <1>6, <1>9, <1>12, <2>4, <3>1, <3>3
      <3> QED  BY <1>9, <1>10, <3>2, <3>3
    <2> QED  BY <2>2, <2>3, <2>4
  <1>16. IsFiniteSet(DOMAIN levels') /\ \A l \in DOMAIN levels' : levels'[l] \in Seq(Orders)
    <2>1. IsFiniteSet(DOMAIN levels')
      BY <1>8, FS_AddElement DEF LevelsInv
    <2>2. levels'[own] \in Seq(Orders)
      BY <1>9 DEF new
    <2> QED  BY <1>8, <2>1, <2>2 DEF LevelsInv
  <1>17. LevelsMatchBook'
    <2>1. ASSUME NEW l \in DOMAIN levels'
          PROVE  /\ levels'[l] # <<>>
                 /\ \A i \in DOMAIN levels'[l] :
                       /\ levels'[l][i] \in inBook' /\ LevelOf(levels'[l][i]) = l
                       /\ \A j \in DOMAIN levels'[l] :
                             levels'[l][i] = levels'[l][j] => i = j
      <3>1. CASE l = own
        <4>1. new # <<>>
          BY <1>9, <1>11
        <4> QED  BY <1>15, <3>1, <4>1 DEF new
      <3>2. CASE l # own
        BY <1>3, <1>8, <3>2 DEF LevelsMatch
      <3> QED  BY <3>1, <3>2
    <2>2. ASSUME NEW x \in inBook'
          PROVE  /\ LevelOf(x) \in DOMAIN levels'
                 /\ \E i \in DOMAIN levels'[LevelOf(x)] : levels'[LevelOf(x)][i] = x
      <3>1. CASE x = o
        <4>1. LevelOf(x) = own /\ n + 1 \in DOMAIN new /\ new[n + 1] = x
          BY <1>9, <1>11, <1>14, <3>1
        <4> QED  BY <1>8, <4>1 DEF new
      <3>2. CASE x # o
        <4>1. /\ LevelOf(x) \in DOMAIN levels
              /\ \E i \in DOMAIN levels[LevelOf(x)] : levels[LevelOf(x)][i] = x
          BY <1>3, <3>2 DEF LevelsMatch
        <4>2. CASE LevelOf(x) = own
          <5>1. PICK i \in DOMAIN levels[own] : levels[own][i] = x
            BY <4>1, <4>2
          <5>2. i \in 1..n /\ queue[i] = x
            BY <1>7, <4>1, <4>2, <5>1
          <5>3. i \in DOMAIN new /\ new[i] = x
            BY <1>9, <1>11, <5>2
          <5> QED  BY <1>8, <4>2, <5>3 DEF new
        <4>3. CASE LevelOf(x) # own
          BY <1>8, <4>1, <4>3
        <4> QED  BY <4>2, <4>3
      <3> QED  BY <3>1, <3>2
    <2>3. LevelsMatch(levels', inBook')
      BY <2>1, <2>2 DEF LevelsMatch
    <2> QED  BY <2>3, LevelsMatchBookMeans
  <1>18. BookKnown'
    BY DEF LevelsInv, BookKnown, ValidBasic, MaxClaim, Collateral
  <1>19. SequencesOrdered'
    <2>1. acceptedSequence' \in [Orders -> Nat] /\ nextSequence' \in [Markets -> Nat]
      BY <1>1, <1>2
    <2>2. ASSUME NEW l \in DOMAIN levels', NEW i \in DOMAIN levels'[l],
                 NEW j \in DOMAIN levels'[l], i < j
          PROVE  acceptedSequence'[levels'[l][i]] < acceptedSequence'[levels'[l][j]]
      <3>1. CASE l = own
        BY <1>15, <2>2, <3>1 DEF new
      <3>2. CASE l # own
        <4>1. l \in DOMAIN levels /\ levels'[l] = levels[l]
          BY <1>8, <3>2
        <4>2. levels[l][i] \in inBook /\ levels[l][j] \in inBook
          BY <1>3, <4>1 DEF LevelsMatch
        <4>3. acceptedSequence[levels[l][i]] < acceptedSequence[levels[l][j]]
          BY <2>2, <4>1 DEF LevelsInv, SequencesOrdered
        <4> QED  BY <1>12, <4>1, <4>2, <4>3
      <3> QED  BY <3>1, <3>2
    <2>3. ASSUME NEW x \in inBook', NEW y \in inBook', Terms[x].market = Terms[y].market,
                 acceptedSequence'[x] = acceptedSequence'[y]
          PROVE  x = y
      <3>1. nextSequence[m] \in Nat /\ \A z \in inBook : acceptedSequence[z] \in Nat
        BY <1>1, <1>2
      <3>2. CASE x \in inBook /\ y \in inBook
        BY <1>12, <2>3, <3>2 DEF LevelsInv, SequencesOrdered
      <3>3. CASE x = o \/ y = o
        BY <1>12, <1>14, <2>3, <3>1, <3>3
      <3> QED  BY <3>2, <3>3
    <2>4. ASSUME NEW x \in inBook'
          PROVE  acceptedSequence'[x] < nextSequence'[Terms[x].market]
      <3>1. Terms[x].market \in Markets
        BY DEF Markets
      <3>2. nextSequence[m] \in Nat
        BY <1>1, <1>2
      <3>3. CASE x = o
        BY <1>1, <1>2, <1>12, <1>14, <3>2, <3>3
      <3>4. CASE x # o
        <4>1. /\ acceptedSequence[x] < nextSequence[Terms[x].market] /\ x \in Orders
              /\ acceptedSequence'[x] = acceptedSequence[x]
          BY <1>12, <3>4 DEF LevelsInv, SequencesOrdered
        <4>2. nextSequence[Terms[x].market] \in Nat /\ acceptedSequence[x] \in Nat
          BY <1>1, <3>1, <4>1
        <4>3. nextSequence'[Terms[x].market] >= nextSequence[Terms[x].market]
          BY <1>1, <3>1, <4>2
        <4>4. nextSequence'[Terms[x].market] \in Nat
          BY <2>1, <3>1
        <4> QED  BY <4>1, <4>2, <4>3, <4>4
      <3> QED  BY <3>3, <3>4
    <2> QED  BY <2>1, <2>2, <2>3, <2>4 DEF SequencesOrdered
  <1> QED  BY <1>16, <1>17, <1>18, <1>19 DEF LevelsInv
-----------------------------------------------------------------------------
(***************************************************************************)
(* The levels after a restart.                                             *)
(***************************************************************************)
\* A finite set of numbers that is not empty has a greatest member.
LEMMA Greatest ==
    ASSUME NEW S \in SUBSET Nat, IsFiniteSet(S), NEW z \in S
    PROVE  \E m \in S : \A k \in S : k <= m
  <1> DEFINE R == {p \in S \X S : p[1] > p[2]}
             s == Ranked(S, R)
  <1>1. \A x, y \in S : <<x, y>> \in R <=> x > y
    OBVIOUS
  <1> HIDE DEF R
  <1>2. StrictOrder(S, R)
    BY <1>1 DEF StrictOrder
  <1>3. /\ s \in Seq(S)
        /\ \A x \in S : \E k \in DOMAIN s : s[k] = x
        /\ \A i, j \in DOMAIN s : <<s[i], s[j]>> \in R <=> i < j
    BY <1>2, RankedProperties
  <1> HIDE DEF s
  <1>4. DOMAIN s = 1..Len(s) /\ Len(s) \in Nat
    BY <1>3
  <1>5. 1 \in DOMAIN s /\ \A i \in DOMAIN s : s[i] \in S
    BY <1>3, <1>4
  <1>6. ASSUME NEW k \in S
        PROVE  k <= s[1]
    <2>1. PICK i \in DOMAIN s : s[i] = k
      BY <1>3
    <2>2. i = 1 \/ 1 < i
      BY <1>4
    <2>3. s[1] \in S /\ s[1] \in Nat /\ k \in Nat
      BY <1>5
    <2>4. CASE 1 < i
      <3>1. <<s[1], s[i]>> \in R
        BY <1>3, <1>5, <2>4
      <3> QED  BY <1>1, <2>1, <2>3, <3>1
    <2> QED  BY <2>1, <2>2, <2>3, <2>4
  <1> QED  BY <1>5, <1>6

LEMMA BookFinite ==
    ASSUME LevelsInv
    PROVE  IsFiniteSet(inBook)
  <1> DEFINE At(l) == {levels[l][i] : i \in DOMAIN levels[l]}
             sets == {At(l) : l \in DOMAIN levels}
             f == [l \in DOMAIN levels |-> At(l)]
  <1>1. f \in [DOMAIN levels -> sets] /\ \A T \in sets : \E l \in DOMAIN levels : f[l] = T
    OBVIOUS
  <1>2. IsFiniteSet(DOMAIN levels)
    BY DEF LevelsInv
  <1>3. ASSUME NEW T \in sets
        PROVE  IsFiniteSet(T)
    <2>1. PICK l \in DOMAIN levels : T = {levels[l][i] : i \in DOMAIN levels[l]}
      OBVIOUS
    <2> DEFINE list == levels[l]
               g == [i \in DOMAIN list |-> list[i]]
    <2>2. list \in Seq(Orders)
      BY DEF LevelsInv
    <2>3. g \in [DOMAIN list -> T] /\ \A o \in T : \E i \in DOMAIN list : g[i] = o
      BY <2>1
    <2> HIDE DEF g, list
    <2>4. IsFiniteSet(DOMAIN list)
      <3>1. DOMAIN list = 1..Len(list) /\ Len(list) \in Nat
        BY <2>2
      <3> QED  BY <3>1, FS_Interval
    <2> HIDE DEF f, sets
    <2> QED  BY <2>3, <2>4, FiniteImage
  <1>4. inBook \subseteq UNION sets
    <2> SUFFICES ASSUME NEW o \in inBook
                 PROVE  \E l \in DOMAIN levels : o \in At(l)
      OBVIOUS
    <2>1. LevelOf(o) \in DOMAIN levels /\ o \in At(LevelOf(o))
      BY DEF LevelsInv, LevelsMatchBook
    <2> QED  BY <2>1
  <1> HIDE DEF f, sets
  <1>5. IsFiniteSet(sets)
    BY <1>1, <1>2, FiniteImage
  <1>6. IsFiniteSet(UNION sets)
    BY <1>3, <1>5, FS_UNION
  <1> QED  BY <1>4, <1>6, FS_Subset

LEMMA RestartLevelsInv ==
    ASSUME ExchangeInv, ExchangeRestart
    PROVE  LevelsInv'
  <1> DEFINE restored == {o \in Orders : resting[o]}
             R == {p \in restored \X restored : RestoredBefore(p[1], p[2])}
             SequencesOf(m) ==
                {0} \cup {acceptedSequence[o] + 1 :
                            o \in {p \in restored : Terms[p].market = m}}
  <1>1. /\ inBook' = restored /\ UNCHANGED <<state, acceptedSequence>>
        /\ levels' = LevelsOf(Ranked(restored, R))
        /\ nextSequence' = [m \in Markets |->
                CHOOSE next \in SequencesOf(m) : \A n \in SequencesOf(m) : n <= next]
    BY DEF ExchangeRestart, Restart, records
  <1>2. LevelsInv /\ restored \subseteq inBook /\ restored \subseteq Orders
    BY DEF ExchangeInv, Inv, RestingAlive
  <1>3. acceptedSequence \in [Orders -> Nat] /\ \A o \in restored : acceptedSequence[o] \in Nat
    BY <1>2 DEF LevelsInv, SequencesOrdered
  <1>4. IsFiniteSet(restored)
    BY <1>2, BookFinite, FS_Subset
  <1>5. \A o, p \in restored :
           <<o, p>> \in R <=>
              \/ acceptedSequence[o] < acceptedSequence[p]
              \/ acceptedSequence[o] = acceptedSequence[p] /\ HashRank[o] < HashRank[p]
    BY DEF RestoredBefore
  <1>6. \A o \in restored : HashRank[o] \in Nat
    BY HashRankAssumption, <1>2
  <1>7. \A o, p \in restored : HashRank[o] = HashRank[p] => o = p
    BY HashRankAssumption, <1>2
  <1>8. \A m : SequencesOf(m) \subseteq Nat /\ 0 \in SequencesOf(m)
    BY <1>3
  <1>9. \A o \in restored : acceptedSequence[o] + 1 \in SequencesOf(Terms[o].market)
    OBVIOUS
  <1>10. ASSUME NEW m
         PROVE  IsFiniteSet(SequencesOf(m))
    <2> DEFINE ofMarket == {p \in restored : Terms[p].market = m}
               numbers == {acceptedSequence[o] + 1 : o \in ofMarket}
               f == [o \in ofMarket |-> acceptedSequence[o] + 1]
    <2>1. IsFiniteSet(ofMarket)
      BY <1>4, FS_Subset
    <2>2. f \in [ofMarket -> numbers] /\ \A y \in numbers : \E x \in ofMarket : f[x] = y
      OBVIOUS
    <2>3. SequencesOf(m) = numbers \cup {0}
      OBVIOUS
    <2> HIDE DEF ofMarket, numbers, f, SequencesOf
    <2>4. IsFiniteSet(numbers)
      BY <2>1, <2>2, FiniteImage
    <2> QED  BY <2>3, <2>4, FS_AddElement
  <1> HIDE DEF restored, R, SequencesOf
  <1>11. StrictOrder(restored, R)
    BY <1>3, <1>5, <1>6, <1>7 DEF StrictOrder
  <1> DEFINE q == Ranked(restored, R)
  <1>12. /\ q \in Seq(restored)
         /\ \A o \in restored : \E k \in DOMAIN q : q[k] = o
         /\ \A i, j \in DOMAIN q :
               /\ <<q[i], q[j]>> \in R <=> i < j
               /\ q[i] = q[j] => i = j
    BY <1>4, <1>11, RankedProperties
  <1> HIDE DEF q
  <1>13. q \in Seq(Orders) /\ restored = {q[i] : i \in DOMAIN q}
    BY <1>2, <1>12
  <1> DEFINE At(l) == {i \in DOMAIN q : LevelOf(q[i]) = l}
             ls == LevelsOf(q)
  <1>14. /\ SoundLevels(ls, restored)
         /\ DOMAIN ls = {LevelOf(q[i]) : i \in DOMAIN q}
         /\ \A l \in DOMAIN ls : Places(Ascending(At(l)), ls[l], q, At(l))
    BY <1>12, <1>13, LevelsOfSound
  <1>15. levels' = ls
    BY <1>1 DEF q
  <1> HIDE DEF ls
  <1>16. ASSUME NEW l \in DOMAIN ls
         PROVE  /\ ls[l] \in Seq(Orders) /\ ls[l] # <<>>
                /\ \A i \in DOMAIN ls[l] : ls[l][i] \in restored
                /\ \A i, j \in DOMAIN ls[l] : i < j => <<ls[l][i], ls[l][j]>> \in R
    <2> DEFINE list == ls[l]
               at == Ascending(At(l))
    <2>1. list \in Seq(restored) /\ Places(at, list, q, At(l))
      BY <1>14 DEF SoundLevels
    <2>2. \E i \in DOMAIN q : i \in At(l)
      BY <1>14
    <2>3. \A i \in At(l) : i \in DOMAIN q
      OBVIOUS
    <2> HIDE DEF list, at, At
    <2>4. list \in Seq(Orders) /\ \A i \in DOMAIN list : list[i] \in restored
      BY <1>2, <2>1
    <2>5. list # <<>>
      BY <2>1, <2>2 DEF Places
    <2>6. ASSUME NEW i \in DOMAIN list, NEW j \in DOMAIN list, i < j
          PROVE  <<list[i], list[j]>> \in R
      <3>1. at[i] < at[j] /\ at[i] \in DOMAIN q /\ at[j] \in DOMAIN q
        BY <2>1, <2>3, <2>6 DEF Places
      <3>2. list[i] = q[at[i]] /\ list[j] = q[at[j]]
        BY <2>1 DEF Places
      <3> QED  BY <1>12, <3>1, <3>2
    <2> QED  BY <2>4, <2>5, <2>6 DEF list
  <1>17. LevelsMatchBook'
    <2>1. ASSUME NEW o \in restored
          PROVE  /\ LevelOf(o) \in DOMAIN ls
                 /\ \E i \in DOMAIN ls[LevelOf(o)] : ls[LevelOf(o)][i] = o
      <3>1. PICK k \in DOMAIN q : q[k] = o
        BY <1>12
      <3>2. LevelOf(o) \in DOMAIN ls /\ k \in At(LevelOf(o))
        BY <1>14, <3>1
      <3> HIDE DEF At
      <3> QED  BY <1>14, <3>1, <3>2 DEF Places
    <2>2. LevelsMatch(ls, restored)
      BY <1>14, <1>16, <2>1 DEF LevelsMatch, SoundLevels
    <2> QED  BY <1>1, <1>15, <2>2, LevelsMatchBookMeans
  <1>18. BookKnown'
    BY <1>1, <1>2 DEF LevelsInv, BookKnown, ValidBasic, MaxClaim, Collateral
  <1>19. ASSUME NEW m \in Markets
         PROVE  /\ nextSequence'[m] \in SequencesOf(m)
                /\ \A n \in SequencesOf(m) : n <= nextSequence'[m]
    <2>1. \E next \in SequencesOf(m) : \A n \in SequencesOf(m) : n <= next
      BY <1>8, <1>10, Greatest
    <2> QED  BY <1>1, <2>1
  <1>20. SequencesOrdered'
    <2>1. acceptedSequence' \in [Orders -> Nat]
      BY <1>1, <1>3
    <2>2. nextSequence' \in [Markets -> Nat]
      BY <1>1, <1>8, <1>19 DEF Markets
    <2>3. ASSUME NEW l \in DOMAIN ls, NEW i \in DOMAIN ls[l], NEW j \in DOMAIN ls[l], i < j
          PROVE  acceptedSequence[ls[l][i]] < acceptedSequence[ls[l][j]]
      <3> DEFINE o == ls[l][i]
                 p == ls[l][j]
      <3>1. o \in restored /\ p \in restored /\ <<o, p>> \in R
        BY <1>16, <2>3
      <3>2. o # p
        BY <1>11, <3>1 DEF StrictOrder
      <3>3. Terms[o].market = Terms[p].market
        <4>1. LevelOf(o) = LevelOf(p)
          BY <1>14 DEF SoundLevels
        <4>2. LevelOf(o).market = Terms[o].market /\ LevelOf(p).market = Terms[p].market
          BY DEF LevelOf
        <4> QED  BY <4>1, <4>2
      <3>4. acceptedSequence[o] # acceptedSequence[p]
        BY <1>2, <3>1, <3>2, <3>3 DEF LevelsInv, SequencesOrdered
      <3> HIDE DEF o, p
      <3>5. acceptedSequence[o] < acceptedSequence[p]
        BY <1>5, <3>1, <3>4
      <3> QED  BY <3>5 DEF o, p
    <2>4. \A o, p \in inBook' :
             Terms[o].market = Terms[p].market /\ acceptedSequence'[o] = acceptedSequence'[p]
             => o = p
      BY <1>1, <1>2 DEF LevelsInv, SequencesOrdered
    <2>5. ASSUME NEW o \in inBook'
          PROVE  acceptedSequence'[o] < nextSequence'[Terms[o].market]
      <3>1. Terms[o].market \in Markets /\ o \in restored
        BY <1>1, <1>2 DEF Markets
      <3>2. acceptedSequence[o] + 1 <= nextSequence'[Terms[o].market]
        BY <1>9, <1>19, <3>1
      <3>3. nextSequence'[Terms[o].market] \in Nat
        BY <2>2, <3>1
      <3> QED  BY <1>1, <1>3, <3>1, <3>2, <3>3
    <2> QED  BY <1>1, <1>15, <2>1, <2>2, <2>3, <2>4, <2>5 DEF SequencesOrdered
  <1>21. IsFiniteSet(DOMAIN levels') /\ \A l \in DOMAIN levels' : levels'[l] \in Seq(Orders)
    BY <1>14, <1>15, <1>16 DEF SoundLevels
  <1> QED  BY <1>17, <1>18, <1>20, <1>21 DEF LevelsInv
-----------------------------------------------------------------------------
(***************************************************************************)
(* The invariant after a submission, and after any step.                   *)
(***************************************************************************)
LEMMA SameLevelsInv ==
    ASSUME LevelsInv, UNCHANGED <<inBook, bookOrder>>, inBook \subseteq Orders, RecordsStay
    PROVE  LevelsInv'
  <1>1. UNCHANGED <<levels, acceptedSequence, nextSequence>>
    BY DEF bookOrder
  <1>2. LevelsMatchBook'
    BY <1>1, LevelsMatchBookMeans DEF LevelsInv, LevelsMatch
  <1>3. BookKnown' /\ SequencesOrdered'
    BY <1>1 DEF LevelsInv, BookKnown, RecordsStay, SequencesOrdered, Markets, ValidBasic,
       MaxClaim, Collateral
  <1> QED  BY <1>1, <1>2, <1>3 DEF LevelsInv

\* What a submission does to the books and the records.
LEMMA SubmitEffect ==
    ASSUME ExchangeInv, NEW o \in Orders, NEW command \in Commands,
           ExchangeSubmitOrder(o, command)
    PROVE  /\ o \notin inBook
           /\ \A x \in Orders : x = o \/ state[x] # "NoRecord" => state'[x] # "NoRecord"
           /\ \/ UNCHANGED inBook /\ state'[o] # "Open"
              \/ inBook' = inBook \cup {o} /\ ValidBasic(o) /\ state'[o] = "Open"
  <1>1. o \notin inBook
    BY DEF ExchangeInv, LevelsInv, BookKnown, ExchangeSubmitOrder
  <1>2. state \in [Orders -> OrderStates \cup {"NoRecord"}]
    BY DEF ExchangeInv, Inv, TypeOK
  <1>3. CASE RejectOrder(o, command)
    BY <1>1, <1>2, <1>3 DEF RejectOrder, NewRecord, books
  <1>4. CASE /\ ValidBasic(o)
             /\ \E plan : /\ AdmitOrder(o, command, plan)
                          /\ plan = NoPlan \/ plan.fills \in Seq(FillType)
    <2>1. PICK plan : /\ AdmitOrder(o, command, plan)
                      /\ plan = NoPlan \/ plan.fills \in Seq(FillType)
      BY <1>4
    <2>2. CASE LeaveInactive(o, command, plan)
      BY <1>1, <1>2, <2>2 DEF LeaveInactive, NewRecord, books
    <2>3. CASE RestOrder(o, command, plan)
      BY <1>1, <1>2, <1>4, <2>3 DEF RestOrder, NewRecord
    <2>4. CASE ReserveMatch(o, command, plan)
      <3>1. UNCHANGED inBook
        BY <2>4 DEF ReserveMatch, books
      <3>2. o \in LegOrders(legs'[o])
        <4> DEFINE first == [order |-> o, amount |-> plan.taken]
        <4>1. legs \in [Orders -> Seq(Leg)] /\ plan.fills \in Seq(FillType)
          BY <2>1, <2>4 DEF ReserveMatch, ExchangeInv, Inv, TypeOK
        <4>2. legs'[o] = <<first>> \o plan.fills
          BY <2>4, <4>1 DEF ReserveMatch
        <4>3. first.order = o
          OBVIOUS
        <4> HIDE DEF first
        <4>4. 1 \in DOMAIN legs'[o] /\ legs'[o][1] = first
          BY <4>1, <4>2
        <4> QED  BY <4>3, <4>4 DEF LegOrders
      <3>3. \A x \in Orders : x = o \/ state[x] # "NoRecord" => state'[x] # "NoRecord"
        BY <2>4, <3>2 DEF ReserveMatch, LockOrders
      <3>4. state'[o] = "Reserved"
        BY <2>4, <3>2 DEF ReserveMatch, LockOrders
      <3> QED  BY <1>1, <3>1, <3>3, <3>4
    <2> QED  BY <2>1, <2>2, <2>3, <2>4 DEF AdmitOrder
  <1> QED  BY <1>3, <1>4, SubmitIsSubmit

LEMMA SubmitLevelsInv ==
    ASSUME ExchangeInv, NEW o \in Orders, NEW command \in Commands,
           ExchangeSubmitOrder(o, command)
    PROVE  LevelsInv'
  <1>1. LevelsInv /\ inBook \subseteq Orders
    BY DEF ExchangeInv, Inv, TypeOK
  <1>2. /\ o \notin inBook
        /\ \A x \in Orders : x = o \/ state[x] # "NoRecord" => state'[x] # "NoRecord"
    BY SubmitEffect
  <1>3. CASE UNCHANGED inBook /\ state'[o] # "Open"
    <2>1. UNCHANGED bookOrder
      BY <1>3 DEF ExchangeSubmitOrder
    <2> QED  BY <1>1, <1>2, <1>3, <2>1, SameLevelsInv DEF RecordsStay
  <1>4. CASE inBook' = inBook \cup {o} /\ ValidBasic(o) /\ state'[o] = "Open"
    <2>1. Insert(o)
      BY <1>4 DEF ExchangeSubmitOrder
    <2>2. \A x \in inBook' : state'[x] # "NoRecord"
      BY <1>1, <1>2, <1>4 DEF LevelsInv, BookKnown
    <2> QED  BY <1>1, <1>2, <1>4, <2>1, <2>2, InsertInv
  <1> QED  BY <1>3, <1>4, SubmitEffect

\* A reservation takes from its makers what it gives to its taker.
LEMMA SubmitLegsBalance ==
    ASSUME ExchangeInv, NEW o \in Orders, NEW command \in Commands,
           ExchangeSubmitOrder(o, command)
    PROVE  LegsBalance'
  <1>1. LegsBalance /\ legs \in [Orders -> Seq(Leg)]
    BY DEF ExchangeInv, Inv, TypeOK
  <1>2. CASE UNCHANGED legs
    BY <1>1, <1>2 DEF LegsBalance
  <1>3. CASE \E plan : /\ ReserveMatch(o, command, plan)
                       /\ plan.fills \in Seq(FillType)
                       /\ plan.taken = Total(Amounts(plan.fills))
    <2>1. PICK plan : /\ ReserveMatch(o, command, plan)
                      /\ plan.fills \in Seq(FillType)
                      /\ plan.taken = Total(Amounts(plan.fills))
      BY <1>3
    <2> DEFINE first == [order |-> o, amount |-> plan.taken]
    <2>2. legs' = [legs EXCEPT ![o] = <<first>> \o plan.fills]
      BY <2>1 DEF ReserveMatch
    <2>3. \A r \in Orders : r # o => legs'[r] = legs[r]
      BY <1>1, <2>2
    <2>4. legs'[o] = <<first>> \o plan.fills
      BY <1>1, <2>2
    <2>5. first.amount = plan.taken
      OBVIOUS
    <2> HIDE DEF first
    <2>6. legs'[o][1] = first /\ Tail(legs'[o]) = plan.fills
      BY <2>1, <2>4
    <2> QED  BY <1>1, <2>1, <2>3, <2>5, <2>6 DEF LegsBalance
  <1>4. CASE RejectOrder(o, command)
    BY <1>2, <1>4 DEF RejectOrder, reservations
  <1>5. CASE \E plan : AdmitOrder(o, command, plan) /\ ~ReserveMatch(o, command, plan)
    <2>1. UNCHANGED legs
      BY <1>5 DEF AdmitOrder, LeaveInactive, RestOrder, reservations
    <2> QED  BY <1>2, <2>1
  <1>6. \A plan : ReserveMatch(o, command, plan) => plan # NoPlan
    BY DEF ReserveMatch
  <1> QED  BY <1>3, <1>4, <1>5, <1>6, SubmitIsSubmit

LEMMA ExchangeNextInv == ExchangeInv /\ [ExchangeNext]_allVars => ExchangeInv'
  <1> SUFFICES ASSUME ExchangeInv, [ExchangeNext]_allVars
               PROVE  ExchangeInv'
    OBVIOUS
  <1>1. Inv'
    BY StepIsStep, NextInv DEF ExchangeInv
  <1>2. LevelsInv /\ LegsBalance /\ inBook \subseteq Orders
    BY DEF ExchangeInv, Inv, TypeOK
  <1>3. CASE ExchangeNext
    <2>1. CASE \E o \in Orders, command \in Commands : ExchangeSubmitOrder(o, command)
      BY <1>1, <2>1, SubmitLevelsInv, SubmitLegsBalance DEF ExchangeInv
    <2>2. CASE UNCHANGED legs /\ RecordsStay /\ OrdersLeave
      <3>1. PICK S \in SUBSET inBook : Remove(S) /\ inBook' = inBook \ S
        BY <2>2 DEF OrdersLeave
      <3>2. LevelsInv'
        BY <1>2, <2>2, <3>1, RemoveInv
      <3> QED  BY <1>1, <1>2, <2>2, <3>2 DEF ExchangeInv, LegsBalance
    <2>3. CASE UNCHANGED legs /\ RecordsStay /\ UNCHANGED <<inBook, bookOrder>>
      <3>1. LevelsInv'
        BY <1>2, <2>3, SameLevelsInv
      <3> QED  BY <1>1, <1>2, <2>3, <3>1 DEF ExchangeInv, LegsBalance
    <2>4. CASE ExchangeRestart
      <3>1. UNCHANGED legs
        BY <2>4 DEF ExchangeRestart, Restart
      <3> QED  BY <1>1, <1>2, <2>4, <3>1, RestartLevelsInv DEF ExchangeInv, LegsBalance
    <2> QED  BY <1>3, <2>1, <2>2, <2>3, <2>4, CallIsCall
  <1>4. CASE UNCHANGED allVars
    <2>1. UNCHANGED <<inBook, bookOrder, legs>> /\ RecordsStay
      BY <1>4 DEF allVars, vars, records, books, reservations, RecordsStay
    <2> QED  BY <1>1, <1>2, <2>1, SameLevelsInv DEF ExchangeInv, LegsBalance
  <1> QED  BY <1>3, <1>4

\* The engine with its matcher and books never leaves the invariant.
THEOREM ExchangeInvariance == ExchangeSpec => []ExchangeInv
  <1> QED  BY ExchangeInvInit, ExchangeNextInv, PTL DEF ExchangeSpec
-----------------------------------------------------------------------------
(***************************************************************************)
(* Every plan of the matcher is one that Engine allows, for any orders,    *)
(* prices and amounts: the engine with its matcher and books implements    *)
(* Engine, so every theorem about Engine holds of it.                      *)
(***************************************************************************)
THEOREM ExchangeImplementsEngine == ExchangeSpec => ImplementsEngine
  <1>1. ExchangeInit => Init
    BY DEF ExchangeInit
  <1> QED
    BY <1>1, ExchangeInvariance, StepIsStep, PTL DEF ExchangeSpec, ImplementsEngine, Spec

(***************************************************************************)
(* Every order on the books stands at the level of its own side and price, *)
(* once and nowhere else, no level holds an order that is gone, and no     *)
(* level is empty, whatever is submitted, cancelled, settled or restarted. *)
(***************************************************************************)
THEOREM LevelsAlwaysMatchBook == ExchangeSpec => []LevelsMatchBook
  <1>1. ExchangeInv => LevelsMatchBook
    BY DEF ExchangeInv, LevelsInv
  <1> QED  BY <1>1, ExchangeInvariance, PTL

(***************************************************************************)
(* What a reservation takes from its makers is what its taker gets, for    *)
(* any number of makers and any amounts.                                   *)
(***************************************************************************)
THEOREM LegsAlwaysBalance == ExchangeSpec => []LegsBalance
  <1>1. ExchangeInv => LegsBalance
    BY DEF ExchangeInv
  <1> QED  BY <1>1, ExchangeInvariance, PTL

\* An order keeps its number while it is on the books.
LEMMA SequenceStays ==
    ASSUME ExchangeInv, [ExchangeNext]_allVars, NEW o \in inBook
    PROVE  acceptedSequence'[o] = acceptedSequence[o]
  <1>1. CASE \E x \in Orders, command \in Commands : ExchangeSubmitOrder(x, command)
    <2>1. PICK x \in Orders, command \in Commands : ExchangeSubmitOrder(x, command)
      BY <1>1
    <2>2. x # o
      BY <2>1, SubmitEffect
    <2>3. Insert(x) \/ UNCHANGED bookOrder
      BY <2>1 DEF ExchangeSubmitOrder
    <2>4. acceptedSequence \in [Orders -> Nat] /\ o \in Orders
      BY DEF ExchangeInv, LevelsInv, SequencesOrdered, Inv, TypeOK
    <2> QED  BY <2>2, <2>3, <2>4 DEF Insert, bookOrder
  <1>2. CASE OrdersLeave \/ UNCHANGED bookOrder \/ ExchangeRestart \/ UNCHANGED allVars
    BY <1>2 DEF OrdersLeave, Remove, ExchangeRestart, allVars, bookOrder
  <1> QED  BY <1>1, <1>2, CallIsCall

(***************************************************************************)
(* Two orders of one price level never change places while both rest,      *)
(* through any matches, partial fills, cancellations and restarts.         *)
(***************************************************************************)
THEOREM TimePriorityAlwaysKept == ExchangeSpec => TimePriorityKept
  <1>1. ASSUME ExchangeInv, ExchangeInv', [ExchangeNext]_allVars
        PROVE  [\A o, p \in inBook :
                  Ahead(levels, o, p) => ~Ahead(levels', p, o)]_allVars
    <2> SUFFICES ASSUME NEW o \in inBook, NEW p \in inBook,
                        Ahead(levels, o, p), Ahead(levels', p, o)
                 PROVE  FALSE
      OBVIOUS
    <2>1. acceptedSequence[o] < acceptedSequence[p]
      BY <1>1 DEF Ahead, ExchangeInv, LevelsInv, SequencesOrdered
    <2>2. acceptedSequence'[p] < acceptedSequence'[o]
      BY <1>1 DEF Ahead, ExchangeInv, LevelsInv, SequencesOrdered
    <2>3. /\ acceptedSequence'[o] = acceptedSequence[o]
          /\ acceptedSequence'[p] = acceptedSequence[p]
      BY <1>1, SequenceStays
    <2>4. acceptedSequence[o] \in Nat /\ acceptedSequence[p] \in Nat
      BY <1>1 DEF ExchangeInv, LevelsInv, SequencesOrdered, Inv, TypeOK
    <2> QED  BY <2>1, <2>2, <2>3, <2>4
  <1> QED  BY <1>1, ExchangeInvariance, PTL DEF ExchangeSpec, TimePriorityKept
-----------------------------------------------------------------------------
(***************************************************************************)
(* Commits, when no order comes with an amount already filled.             *)
(***************************************************************************)
\* The orders whose reservation a step commits, and the invariant after it.
LEMMA StepFresh ==
    ASSUME Fresh, ExchangeInv, FreshInv, [ExchangeNext]_allVars
    PROVE  /\ FreshInv'
           /\ \A r \in Reservations :
                 status[r] = "Submitted" /\ status'[r] = "Committed" => CommitReservation(r)
  <1>1. Inv /\ status \in [Orders -> Statuses \cup {"NoReservation"}]
    BY DEF ExchangeInv, Inv, TypeOK
  <1>2. ASSUME NEW o \in Orders, NEW command \in Commands, ExchangeSubmitOrder(o, command)
        PROVE  /\ FreshInv'
               /\ \A r \in Reservations : status'[r] = "Committed" => status[r] = "Committed"
    <2>1. \/ UNCHANGED status
          \/ status' = [status EXCEPT ![o] = "Reserved"]
      BY <1>2 DEF ExchangeSubmitOrder, RejectOrder, AdmitOrder, LeaveInactive,
         RestOrder, ReserveMatch, reservations
    <2>2. /\ SubmitOrder(o, command) /\ command \in CommandType
          /\ command.context.filled = 0
      BY <1>2, SubmitIsSubmit, CommandsAssumption DEF Fresh
    <2>3. FreshInv'
      BY <1>1, <2>2, SubmitFresh
    <2> QED  BY <1>1, <2>1, <2>3
  <1>3. ASSUME NEW o \in Orders, ExchangeCancelOrder(o)
        PROVE  FreshInv' /\ UNCHANGED status
    BY <1>1, <1>3, CancelFresh DEF ExchangeCancelOrder
  <1>4. ASSUME NEW r \in Orders, ExchangeSettleReservation(r)
        PROVE  /\ FreshInv'
               /\ \A s \in Reservations :
                    status[s] = "Submitted" /\ status'[s] = "Committed" => CommitReservation(s)
    <2>1. SettleReservation(r)
      BY <1>4 DEF ExchangeSettleReservation
    <2>2. CASE CommitReservation(r)
      <3>1. \A s \in Reservations : s # r => status'[s] = status[s]
        BY <1>1, <2>2, CommitFresh
      <3> QED  BY <1>1, <2>1, <2>2, <3>1, SettleFresh
    <2>3. CASE \A s \in Reservations : status'[s] = "Committed" => status[s] = "Committed"
      BY <1>1, <2>1, <2>3, SettleFresh
    <2> QED  BY <1>1, <2>1, <2>2, <2>3, SettleFresh
  <1>5. ASSUME NEW now \in Times, ExchangeExpireReservations(now)
        PROVE  /\ FreshInv'
               /\ \A r \in Reservations : status'[r] = "Committed" => status[r] = "Committed"
    <2> DEFINE rs == {r \in Reservations : status[r] = "Reserved" /\ IsExpired(r, now)}
    <2>1. LetGo(rs, "Expired")
      BY <1>5 DEF ExchangeExpireReservations, ExpireExpiredReservations
    <2>2. \A r \in rs : Active(r)
      BY DEF Active, ActiveStatuses
    <2> HIDE DEF rs
    <2> QED  BY <2>1, <2>2, LetGoFresh
  <1>6. CASE ExchangeRestart
    <2>1. /\ inBook' = {o \in Orders : resting[o]}
          /\ bookFilled' = [o \in Orders |-> IF resting[o] THEN filled[o] ELSE 0]
          /\ UNCHANGED <<filled, resting, status, legs>>
      BY <1>6 DEF ExchangeRestart, Restart, records
    <2>2. LegsFillable' /\ BooksAgree'
      BY <2>1 DEF FreshInv, LegsFillable, BooksAgree, Active
    <2> QED  BY <2>1, <2>2 DEF FreshInv
  <1>7. CASE UNCHANGED allVars
    <2>1. UNCHANGED <<filled, resting, status, legs, inBook, bookFilled>>
      BY <1>7 DEF allVars, vars, records, books, reservations
    <2>2. LegsFillable' /\ BooksAgree'
      BY <2>1 DEF FreshInv, LegsFillable, BooksAgree, Active
    <2> QED  BY <2>1, <2>2 DEF FreshInv
  <1> QED  BY <1>1, <1>2, <1>3, <1>4, <1>5, <1>6, <1>7 DEF ExchangeNext

(***************************************************************************)
(* A settled reservation fills every one of its legs, provided that no     *)
(* order is submitted with an amount already filled: the run CommitFailure *)
(* shows that it need not otherwise, because a book takes an order as if   *)
(* nothing of it were filled.                                              *)
(***************************************************************************)
THEOREM FreshOrdersCommitInFull == Fresh => (ExchangeSpec => CommitFillsEveryLeg)
  <1> SUFFICES ASSUME Fresh
               PROVE  ExchangeSpec => CommitFillsEveryLeg
    OBVIOUS
  <1>1. ExchangeInit => FreshInv
    BY DEF ExchangeInit, Init, FreshInv, BooksAgree, LegsFillable, Active, ActiveStatuses
  <1>2. ExchangeInv /\ FreshInv /\ [ExchangeNext]_allVars => FreshInv'
    BY StepFresh
  <1>3. ASSUME ExchangeInv, FreshInv, [ExchangeNext]_allVars
        PROVE  [\A r \in Reservations : \A o \in LegOrders(legs[r]) :
                  status[r] = "Submitted" /\ status'[r] = "Committed" =>
                      /\ state'[o] \in {"Filled", "PartiallyFilled"}
                      /\ filled'[o] = filled[o] + LegAmount(legs[r], o)]_allVars
    BY <1>3, StepFresh, CommitFresh DEF ExchangeInv
  <1> QED
    BY <1>1, <1>2, <1>3, ExchangeInvariance, PTL DEF ExchangeSpec, CommitFillsEveryLeg
=============================================================================
