------------------------ MODULE MatchPlanningProofs -------------------------
(***************************************************************************)
(* What a match is, for any book, any taker and amounts of any size: it    *)
(* can be settled, it takes the best makers first, and it takes all it     *)
(* can; and a submission fails only on dust.                               *)
(*                                                                         *)
(* MatcherProofs shows that the loop of the matcher builds a sound plan;   *)
(* here it is shown to be greedy: a maker is passed over only when it is   *)
(* used up, locked or does not cross.                                      *)
(***************************************************************************)
EXTENDS MatchPlanning, MatcherProofs

\* A book and a taker that has something left.
Started ==
    /\ queue \in Seq(Orders)
    /\ \A i, j \in DOMAIN queue : queue[i] = queue[j] => i = j
    /\ \A i \in DOMAIN queue : ValidBasic(queue[i])
    /\ makerFilled \in [Orders -> Nat]
    /\ \A i \in DOMAIN queue : makerFilled[queue[i]] < MaxClaim(queue[i])
    /\ taker \in Orders /\ ValidBasic(taker)
    /\ takerFilled \in Nat /\ takerFilled < MaxClaim(taker)

\* The orders of the book.
Book == {queue[i] : i \in DOMAIN queue}

Planned == PlanMatch(LevelsOf(queue), makerFilled, taker, takerFilled, unavailable)

PlanningInv == Started /\ plan \in {Pending, Planned}

LEMMA InitStarted == Init => Started
  <1> SUFFICES ASSUME Init
               PROVE  Started
    OBVIOUS
  <1>1. PICK n \in 0..MaxBook : queue \in [1..n -> Makers]
    BY DEF Init
  <1>2. \A i, j \in DOMAIN queue : queue[i] = queue[j] => i = j
    BY DEF Init
  <1>3. n \in Nat /\ queue = [i \in 1..n |-> queue[i]] /\ DOMAIN queue = 1..n
    BY <1>1, BookAssumption
  <1>4. \A i \in 1..n : queue[i] \in Orders /\ ValidBasic(queue[i])
    BY <1>1, BookAssumption
  <1>5. queue \in Seq(Orders)
    BY <1>3, <1>4
  <1> DEFINE listed == {queue[i] : i \in DOMAIN queue}
  <1>6. PICK f \in [listed -> 0..MaxFilled] :
          /\ \A m \in listed : f[m] < MaxClaim(m)
          /\ makerFilled = [m \in Orders |-> IF m \in listed THEN f[m] ELSE 0]
    BY DEF Init
  <1>7. \A i \in DOMAIN queue : queue[i] \in listed
    OBVIOUS
  <1> HIDE DEF listed
  <1>8. \A m \in listed : f[m] \in Nat
    <2>1. 0..MaxFilled \subseteq Nat
      BY BookAssumption
    <2> QED  BY <1>6, <2>1
  <1>9. makerFilled \in [Orders -> Nat]
    BY <1>6, <1>8
  <1>10. \A i \in DOMAIN queue : makerFilled[queue[i]] < MaxClaim(queue[i])
    BY <1>3, <1>4, <1>6, <1>7
  <1>11. /\ taker \in Orders /\ ValidBasic(taker)
         /\ takerFilled \in Nat /\ takerFilled < MaxClaim(taker)
    BY BookAssumption DEF Init
  <1> QED  BY <1>2, <1>3, <1>4, <1>5, <1>9, <1>10, <1>11 DEF Started

\* Whatever the plan is, it is the matcher's.
LEMMA PlanningInvariance == Spec => []PlanningInv
  <1>1. Init => PlanningInv
    BY InitStarted DEF Init, PlanningInv
  <1>2. PlanningInv /\ [Next]_vars => PlanningInv'
    BY DEF PlanningInv, Started, Planned, Next, Plan, vars, ValidBasic, MaxClaim, Collateral
  <1> QED  BY <1>1, <1>2, PTL DEF Spec
-----------------------------------------------------------------------------
(***************************************************************************)
(* Settlement.                                                             *)
(***************************************************************************)
\* A list of amounts that are not negative adds up to one that is not.
LEMMA TotalNotNegative ==
    ASSUME NEW list \in Seq(Int), \A i \in DOMAIN list : list[i] >= 0
    PROVE  Total(list) >= 0
  <1> DEFINE n == Len(list)
  <1>1. PICK sum \in [0..n -> Int] :
          /\ sum[0] = 0
          /\ \A k \in 1..n : sum[k] = sum[k - 1] + list[k]
          /\ Total(list) = sum[n]
    BY PartialSums
  <1>2. n \in Nat /\ DOMAIN list = 1..n /\ \A i \in 1..n : list[i] \in Int
    OBVIOUS
  <1> HIDE DEF n
  <1> DEFINE G == {k \in 0..n : sum[k] >= 0}
  <1>3. 0 \in G
    BY <1>1, <1>2
  <1>4. ASSUME NEW k \in 1..n, k - 1 \in G
        PROVE  k \in G
    <2>1. sum[k - 1] >= 0 /\ sum[k - 1] \in Int /\ list[k] >= 0 /\ list[k] \in Int
      BY <1>1, <1>2, <1>4
    <2> QED  BY <1>1, <1>2, <2>1
  <1>5. 0..n \subseteq G
    <2> HIDE DEF G
    <2> QED  BY <1>2, <1>3, <1>4, UpTo
  <1> QED  BY <1>1, <1>2, <1>5

\* A fill that can be priced moves collateral.
LEMMA FillsMove ==
    ASSUME Started, NEW kind,
           SoundMatch(plan, kind, Book, makerFilled, taker, takerFilled, unavailable)
    PROVE  /\ Collaterals(plan.fills, makerFilled) \in Seq(Int)
           /\ \A k \in DOMAIN Collaterals(plan.fills, makerFilled) :
                 Collaterals(plan.fills, makerFilled)[k] > 0
  <1> DEFINE moved == Collaterals(plan.fills, makerFilled)
             n == Len(plan.fills)
  <1>1. plan.fills \in Seq(FillType) /\ n \in Nat /\ DOMAIN plan.fills = 1..n
    BY DEF SoundMatch
  <1>2. moved = [k \in 1..n |->
            CollateralDelta(plan.fills[k].order, makerFilled[plan.fills[k].order],
                            plan.fills[k].amount)]
    BY <1>1 DEF Collaterals
  <1> HIDE DEF moved, n
  <1>3. ASSUME NEW k \in 1..n
        PROVE  moved[k] \in Int /\ moved[k] > 0
    <2> DEFINE o == plan.fills[k].order
               a == plan.fills[k].amount
    <2>1. plan.fills[k] \in FillType
      BY <1>1
    <2>2. o \in Orders /\ a \in Int
      BY <2>1 DEF FillType
    <2>3. CanFill(o, makerFilled[o], a)
      BY <1>1, <1>3 DEF SoundMatch
    <2> HIDE DEF o, a
    <2>4. ValidBasic(o) /\ a \in Nat /\ CollateralDelta(o, makerFilled[o], a) > 0
      BY <2>2, <2>3 DEF CanFill, FitsOrder
    <2>5. makerFilled[o] \in Nat
      BY <2>2 DEF Started
    <2>6. CollateralDelta(o, makerFilled[o], a) \in Int
      BY <2>2, <2>4, <2>5, DeltaType
    <2>7. moved[k] = CollateralDelta(o, makerFilled[o], a)
      BY <1>2 DEF o, a
    <2> QED  BY <2>4, <2>6, <2>7
  <1>4. moved \in Seq(Int) /\ DOMAIN moved = 1..n
    BY <1>1, <1>2, <1>3
  <1> QED  BY <1>3, <1>4 DEF moved

\* The plan, when there is one.
LEMMA MatchedIsSound ==
    ASSUME PlanningInv, Matched
    PROVE  /\ plan = Planned
           /\ \E kind \in {"Direct", "MintAssisted", "MergeAssisted"} :
                 SoundMatch(plan, kind, Book, makerFilled, taker, takerFilled, unavailable)
  <1>1. plan = Planned /\ plan # NoMatch /\ plan # MatchFailed
    BY DEF PlanningInv, Matched, Pending, NoMatch, MatchFailed
  <1>2. /\ queue \in Seq(Orders) /\ \A i, j \in DOMAIN queue : queue[i] = queue[j] => i = j
        /\ Book \in SUBSET Orders /\ \A o \in Book : ValidBasic(o)
        /\ makerFilled \in [Orders -> Nat]
        /\ taker \in Orders /\ takerFilled \in Nat
    BY DEF PlanningInv, Started, Book
  <1> DEFINE levels == LevelsOf(queue)
  <1>3. SoundLevels(levels, Book)
    BY <1>2, LevelsOfSound DEF Book
  <1>4. plan = PlanMatch(levels, makerFilled, taker, takerFilled, unavailable)
    BY <1>1 DEF Planned
  <1> HIDE DEF levels
  <1>5. \E kind \in {"Direct", "MintAssisted", "MergeAssisted"} :
           SoundMatch(plan, kind, Book, makerFilled, taker, takerFilled, unavailable)
    BY <1>1, <1>2, <1>4, <1>3, PlanMatchSound
  <1> QED  BY <1>1, <1>5

(***************************************************************************)
(* A plan can be settled, for any book, taker and amounts: what the makers *)
(* give is what the taker gets, every fill moves collateral, a mint or a   *)
(* merge adds up, and the taker never does worse than the price it signed. *)
(***************************************************************************)
THEOREM PlanAlwaysSettles == Spec => []PlanSettles
  <1>1. ASSUME PlanningInv, Matched
        PROVE  PlanSettles
    <2>1. PICK kind :
            SoundMatch(plan, kind, Book, makerFilled, taker, takerFilled, unavailable)
      BY <1>1, MatchedIsSound
    <2> DEFINE paid == Collaterals(plan.fills, makerFilled)
               signed == CollateralDelta(taker, takerFilled, plan.taken)
    <2>2. paid \in Seq(Int) /\ \A k \in DOMAIN paid : paid[k] > 0
      BY <1>1, <2>1, FillsMove DEF PlanningInv
    <2>3. /\ plan.kind = kind /\ plan.taken = Total(Amounts(plan.fills))
          /\ plan.makerCollateral = Total(paid)
          /\ plan.takerCollateral = IF kind = "Direct" THEN plan.makerCollateral
                                    ELSE plan.taken - plan.makerCollateral
          /\ kind # "Direct" => plan.makerCollateral <= plan.taken
          /\ WithinTakerPrice(taker, plan.takerCollateral, signed)
          /\ plan.taken \in 1..RemainingClaim(taker, takerFilled)
      BY <2>1 DEF SoundMatch
    <2> HIDE DEF paid, signed
    <2>4. Total(paid) \in Int /\ Total(paid) >= 0
      <3>1. \A k \in DOMAIN paid : paid[k] >= 0
        BY <2>2
      <3> QED  BY <2>2, <3>1, TotalType, TotalNotNegative
    <2>5. plan.taken \in Int
      BY <2>3
    <2>6. plan.takerCollateral >= 0
      BY <2>3, <2>4, <2>5
    <2>7. IF plan.kind = "Direct" THEN plan.takerCollateral = plan.makerCollateral
          ELSE plan.takerCollateral + plan.makerCollateral = plan.taken
      BY <2>3, <2>4, <2>5
    <2>8. IF Terms[taker].side = "Buy" THEN plan.takerCollateral <= signed
          ELSE plan.takerCollateral >= signed
      BY <2>3 DEF WithinTakerPrice
    <2> QED  BY <2>2, <2>3, <2>6, <2>7, <2>8 DEF PlanSettles, paid, signed
  <1>2. PlanningInv => PlanSettles
    BY <1>1 DEF PlanSettles
  <1> QED  BY <1>2, PlanningInvariance, PTL
-----------------------------------------------------------------------------
(***************************************************************************)
(* The amount of a maker's fill.                                           *)
(***************************************************************************)
FilledBy(fills, m) ==
    IF \E k \in DOMAIN fills : fills[k].order = m
    THEN fills[CHOOSE k \in DOMAIN fills : fills[k].order = m].amount
    ELSE 0

EachOnce(fills) == \A i, j \in DOMAIN fills : fills[i].order = fills[j].order => i = j

LEMMA FilledByOne ==
    ASSUME NEW fills, EachOnce(fills), NEW i \in DOMAIN fills
    PROVE  FilledBy(fills, fills[i].order) = fills[i].amount
  <1> DEFINE k == CHOOSE j \in DOMAIN fills : fills[j].order = fills[i].order
  <1>1. k \in DOMAIN fills /\ fills[k].order = fills[i].order
    OBVIOUS
  <1>2. k = i
    BY <1>1 DEF EachOnce
  <1> QED  BY <1>2 DEF FilledBy

\* One fill more does not change those that are there.
LEMMA FilledByMore ==
    ASSUME NEW fills \in Seq(FillType), NEW fill \in FillType,
           EachOnce(Append(fills, fill))
    PROVE  /\ FilledBy(Append(fills, fill), fill.order) = fill.amount
           /\ \A m : m # fill.order =>
                 FilledBy(Append(fills, fill), m) = FilledBy(fills, m)
  <1> DEFINE more == Append(fills, fill)
             n == Len(fills)
  <1>1. /\ n \in Nat /\ DOMAIN fills = 1..n /\ DOMAIN more = 1..(n + 1)
        /\ more[n + 1] = fill /\ \A i \in 1..n : more[i] = fills[i]
    OBVIOUS
  <1>2. EachOnce(more)
    OBVIOUS
  <1> HIDE DEF more, n
  <1>3. n + 1 \in DOMAIN more /\ \A i \in 1..n : i \in DOMAIN more
    BY <1>1
  <1>4. FilledBy(more, fill.order) = fill.amount
    BY <1>1, <1>2, <1>3, FilledByOne
  <1>5. EachOnce(fills)
    BY <1>1, <1>2, <1>3 DEF EachOnce
  <1>6. ASSUME NEW m, m # fill.order
        PROVE  FilledBy(more, m) = FilledBy(fills, m)
    <2>1. CASE \E i \in 1..n : fills[i].order = m
      <3>1. PICK i \in 1..n : fills[i].order = m
        BY <2>1
      <3>2. FilledBy(fills, m) = fills[i].amount
        BY <1>1, <1>5, <3>1, FilledByOne
      <3>3. FilledBy(more, m) = more[i].amount
        BY <1>1, <1>2, <1>3, <3>1, FilledByOne
      <3> QED  BY <1>1, <3>2, <3>3
    <2>2. CASE ~\E i \in 1..n : fills[i].order = m
      <3>1. ~\E i \in DOMAIN more : more[i].order = m
        <4>1. \A i \in DOMAIN more : i \in 1..n \/ i = n + 1
          BY <1>1
        <4> QED  BY <1>1, <1>6, <2>2, <4>1
      <3> QED  BY <1>1, <2>2, <3>1 DEF FilledBy
    <2> QED  BY <2>1, <2>2
  <1> QED  BY <1>4, <1>6 DEF more
-----------------------------------------------------------------------------
(***************************************************************************)
(* The loop is greedy.                                                     *)
(***************************************************************************)
Left == RemainingClaim(taker, takerFilled)

LeftOfMaker(m) == RemainingClaim(m, makerFilled[m])

Open(kind, m) == Crossed(kind, taker, m) /\ m \notin unavailable

\* The first k makers have nothing more to give.
UsedUp(k, fills, kind, makers) ==
    \A a \in 1..k :
        Open(kind, makers[a]) => FilledBy(fills, makers[a]) = LeftOfMaker(makers[a])

\* After the first k makers: as long as the taker wants more, they are used
\* up; a maker is filled only when those before it are; and the loop ends
\* early at the limit of makers or at one that does not cross.
Greedy(k, b, kind, makers) ==
    /\ b.taken < Left /\ b.stage = "Matching" => UsedUp(k, b.fills, kind, makers)
    /\ \A a \in 1..k :
          FilledBy(b.fills, makers[a]) > 0 => UsedUp(a - 1, b.fills, kind, makers)
    /\ b.taken < Left =>
          \A i \in DOMAIN b.fills : b.fills[i].amount = LeftOfMaker(b.fills[i].order)
    /\ b.taken < Left /\ b.stage = "Done" =>
          \/ Len(b.fills) = MaxMakerOrders
          \/ \E a \in 1..k : /\ ~Crossed(kind, taker, makers[a])
                             /\ UsedUp(a - 1, b.fills, kind, makers)

\* LoopInv for this taker and book.
Sound(k, b, kind, makers) ==
    LoopInv(k, b, kind, makers, makerFilled, taker, takerFilled, unavailable)

\* A maker that has not had its turn has no fill.
LEMMA NotYetFilled ==
    ASSUME NEW kind, NEW makers \in Seq(Orders),
           \A i, j \in DOMAIN makers : makers[i] = makers[j] => i = j,
           NEW k \in 1..Len(makers), NEW b, Sound(k - 1, b, kind, makers)
    PROVE  FilledBy(b.fills, makers[k]) = 0
  <1>1. ASSUME NEW i \in DOMAIN b.fills
        PROVE  b.fills[i].order # makers[k]
    <2>1. PICK j \in 1..(k - 1) : b.fills[i].order = makers[j]
      BY DEF Sound, LoopInv, GoodFill
    <2>2. j \in DOMAIN makers /\ k \in DOMAIN makers /\ j # k
      OBVIOUS
    <2> QED  BY <2>1, <2>2
  <1> QED  BY <1>1 DEF FilledBy

LEMMA GreedyFill ==
    ASSUME Started, NEW kind, NEW makers \in Seq(Orders),
           \A i, j \in DOMAIN makers : makers[i] = makers[j] => i = j,
           NEW k \in 1..Len(makers), NEW b, NEW c,
           Sound(k - 1, b, kind, makers), Sound(k, c, kind, makers),
           Greedy(k - 1, b, kind, makers), b.stage = "Matching",
           NEW amount \in Nat \ {0},
           amount = LeftOfMaker(makers[k]) \/ amount = Left - b.taken,
           amount <= Left - b.taken,
           c.taken = b.taken + amount, c.stage = b.stage,
           c.fills = Append(b.fills, [order |-> makers[k], amount |-> amount])
    PROVE  Greedy(k, c, kind, makers)
  <1> DEFINE fill == [order |-> makers[k], amount |-> amount]
             n == Len(b.fills)
  <1>1. /\ b.fills \in Seq(FillType) /\ b.taken \in Int /\ c.taken \in Int
        /\ EachOnce(c.fills)
    BY DEF Sound, LoopInv, Builder, EachOnce
  <1>2. Left \in Int
    BY ClaimType DEF Started, Left, RemainingClaim
  <1>3. fill \in FillType /\ fill.order = makers[k] /\ fill.amount = amount
    BY DEF FillType
  <1>4. c.fills = Append(b.fills, fill)
    OBVIOUS
  <1>5. b.taken < Left
    BY <1>1, <1>2
  <1>6. c.taken < Left => amount = LeftOfMaker(makers[k])
    BY <1>1, <1>2
  <1> HIDE DEF fill
  <1>7. /\ FilledBy(c.fills, makers[k]) = amount
        /\ \A m : m # makers[k] => FilledBy(c.fills, m) = FilledBy(b.fills, m)
    BY <1>1, <1>3, <1>4, FilledByMore
  <1>8. \A a \in 1..(k - 1) : a \in DOMAIN makers /\ makers[a] # makers[k]
    OBVIOUS
  <1>9. \A a \in 0..(k - 1) :
           UsedUp(a, b.fills, kind, makers) => UsedUp(a, c.fills, kind, makers)
    <2> SUFFICES ASSUME NEW a \in 0..(k - 1), UsedUp(a, b.fills, kind, makers), NEW e \in 1..a,
                        Open(kind, makers[e])
                 PROVE  FilledBy(c.fills, makers[e]) = LeftOfMaker(makers[e])
      BY DEF UsedUp
    <2>1. e \in 1..(k - 1)
      OBVIOUS
    <2> QED  BY <1>7, <1>8, <2>1 DEF UsedUp
  <1>10. UsedUp(k - 1, c.fills, kind, makers)
    BY <1>5, <1>9 DEF Greedy
  <1>11. \A a \in 1..k : a \in 1..(k - 1) \/ a = k
    OBVIOUS
  <1>12. c.taken < Left => UsedUp(k, c.fills, kind, makers)
    BY <1>6, <1>7, <1>10, <1>11 DEF UsedUp
  <1>13. ASSUME NEW a \in 1..k, FilledBy(c.fills, makers[a]) > 0
         PROVE  UsedUp(a - 1, c.fills, kind, makers)
    <2>1. CASE a \in 1..(k - 1)
      <3>1. UsedUp(a - 1, b.fills, kind, makers)
        BY <1>7, <1>8, <1>13, <2>1 DEF Greedy
      <3>2. a - 1 \in 0..(k - 1)
        BY <2>1
      <3> QED  BY <1>9, <3>1, <3>2
    <2> QED  BY <1>10, <1>11, <2>1
  <1>14. ASSUME c.taken < Left, NEW i \in DOMAIN c.fills
         PROVE  c.fills[i].amount = LeftOfMaker(c.fills[i].order)
    <2>1. /\ n \in Nat /\ DOMAIN b.fills = 1..n /\ DOMAIN c.fills = 1..(n + 1)
          /\ c.fills[n + 1] = fill /\ \A j \in 1..n : c.fills[j] = b.fills[j]
      BY <1>1, <1>3, <1>4, SMTT(30)
    <2>2. i \in 1..n \/ i = n + 1
      BY <2>1
    <2>3. CASE i = n + 1
      <3>1. amount = LeftOfMaker(makers[k])
        BY <1>6, <1>14
      <3> QED  BY <1>3, <2>1, <2>3, <3>1
    <2>4. CASE i \in 1..n
      <3>1. b.taken < Left
        BY <1>5, <1>14
      <3>2. b.fills[i].amount = LeftOfMaker(b.fills[i].order)
        BY <2>1, <2>4, <3>1 DEF Greedy
      <3> QED  BY <2>1, <2>4, <3>2
    <2> QED  BY <2>2, <2>3, <2>4
  <1> QED  BY <1>12, <1>13, <1>14 DEF Greedy

LEMMA GreedySame ==
    ASSUME NEW kind, NEW makers \in Seq(Orders),
           \A i, j \in DOMAIN makers : makers[i] = makers[j] => i = j,
           NEW k \in 1..Len(makers), NEW b, NEW c,
           Sound(k - 1, b, kind, makers), Greedy(k - 1, b, kind, makers),
           c.taken = b.taken, c.fills = b.fills,
           c.taken < Left /\ c.stage = "Matching" =>
              b.stage = "Matching" /\ (Open(kind, makers[k]) => LeftOfMaker(makers[k]) = 0),
           c.taken < Left /\ c.stage = "Done" =>
              \/ b.stage = "Done" \/ Len(c.fills) = MaxMakerOrders
              \/ b.stage = "Matching" /\ ~Crossed(kind, taker, makers[k])
    PROVE  Greedy(k, c, kind, makers)
  <1>1. FilledBy(b.fills, makers[k]) = 0
    BY NotYetFilled
  <1>2. \A a \in 1..k : a \in 1..(k - 1) \/ a = k
    OBVIOUS
  <1>3. c.taken < Left /\ c.stage = "Matching" => UsedUp(k, c.fills, kind, makers)
    BY <1>1, <1>2 DEF Greedy, UsedUp
  <1>4. \A a \in 1..k :
           FilledBy(c.fills, makers[a]) > 0 => UsedUp(a - 1, c.fills, kind, makers)
    BY <1>1, <1>2 DEF Greedy
  <1>5. c.taken < Left =>
           \A i \in DOMAIN c.fills : c.fills[i].amount = LeftOfMaker(c.fills[i].order)
    BY DEF Greedy
  <1>6. ASSUME c.taken < Left, c.stage = "Done", Len(c.fills) # MaxMakerOrders
        PROVE  \E a \in 1..k : /\ ~Crossed(kind, taker, makers[a])
                                /\ UsedUp(a - 1, c.fills, kind, makers)
    <2>1. CASE b.stage = "Done"
      <3>1. PICK a \in 1..(k - 1) : /\ ~Crossed(kind, taker, makers[a])
                                    /\ UsedUp(a - 1, b.fills, kind, makers)
        BY <1>6, <2>1 DEF Greedy
      <3>2. a \in 1..k
        OBVIOUS
      <3> QED  BY <3>1, <3>2
    <2>2. CASE b.stage = "Matching" /\ ~Crossed(kind, taker, makers[k])
      <3>1. UsedUp(k - 1, c.fills, kind, makers) /\ k \in 1..k
        BY <1>6, <2>2 DEF Greedy
      <3> QED  BY <2>2, <3>1
    <2> QED  BY <1>6, <2>1, <2>2
  <1> QED  BY <1>3, <1>4, <1>5, <1>6 DEF Greedy

LEMMA GreedyStep ==
    ASSUME Started, NEW kind, NEW makers \in Seq(Orders),
           \A i, j \in DOMAIN makers : makers[i] = makers[j] => i = j,
           NEW k \in 1..Len(makers), NEW b, NEW c,
           c = Consider(b, makers[k], makerFilled[makers[k]], kind, taker, takerFilled,
                        unavailable),
           Sound(k - 1, b, kind, makers), Sound(k, c, kind, makers),
           Greedy(k - 1, b, kind, makers)
    PROVE  Greedy(k, c, kind, makers)
  <1> DEFINE maker == makers[k]
             takerAvailable == Left - b.taken
             makerAvailable == LeftOfMaker(maker)
             amount == IF takerAvailable < makerAvailable THEN takerAvailable
                                                          ELSE makerAvailable
  <1>1. b \in Builder /\ maker \in Orders /\ makerFilled[maker] \in Nat
    BY DEF Sound, LoopInv, Started
  <1>2. takerAvailable \in Int /\ makerAvailable \in Int /\ b.taken \in Int /\ Left \in Int
    <2>1. Left \in Int /\ makerAvailable \in Int
      BY <1>1, ClaimType, SMTT(30) DEF Started, Left, LeftOfMaker, RemainingClaim
    <2>2. b.taken \in Int
      BY <1>1 DEF Builder
    <2> QED  BY <2>1, <2>2
  <1>3. ASSUME NEW stage \in {"Done", "Failed"}, c = [b EXCEPT !.stage = stage]
        PROVE  c.taken = b.taken /\ c.fills = b.fills /\ c.stage = stage
    BY <1>1, <1>3 DEF Builder
  <1>4. CASE b.stage # "Matching"
    <2>1. c = b
      BY <1>4 DEF Consider
    <2> QED  BY <1>4, <2>1, GreedySame
  <1>5. CASE b.stage = "Matching" /\ ~Crossed(kind, taker, maker)
    <2>1. c = [b EXCEPT !.stage = "Done"]
      BY <1>5 DEF Consider
    <2>2. c.taken = b.taken /\ c.fills = b.fills /\ c.stage = "Done"
      BY <1>3, <2>1
    <2> HIDE DEF maker
    <2> QED  BY <1>5, <2>2, GreedySame DEF maker
  <1>6. CASE b.stage = "Matching" /\ Crossed(kind, taker, maker) /\ maker \in unavailable
    <2>1. c = b
      BY <1>6 DEF Consider
    <2>2. ~Open(kind, maker)
      BY <1>6 DEF Open
    <2> QED  BY <1>6, <2>1, <2>2, GreedySame
  <1>7. CASE /\ b.stage = "Matching" /\ Open(kind, maker)
             /\ Len(b.fills) = MaxMakerOrders
    <2>1. c = [b EXCEPT !.stage = "Done"]
      BY <1>7 DEF Consider, Open
    <2>2. c.taken = b.taken /\ c.fills = b.fills /\ c.stage = "Done"
      BY <1>3, <2>1
    <2> QED  BY <1>7, <2>2, GreedySame
  <1>8. CASE /\ b.stage = "Matching" /\ Open(kind, maker)
             /\ Len(b.fills) # MaxMakerOrders
    <2>1. c = PushFill(b, maker, makerFilled[maker], taker, takerFilled)
      BY <1>8 DEF Consider, Open
    <2>2. CASE takerAvailable = 0
      <3>1. c = [b EXCEPT !.stage = "Done"]
        BY <2>1, <2>2 DEF PushFill, Left
      <3>2. c.taken = b.taken /\ c.fills = b.fills
        BY <1>3, <3>1
      <3>3. ~(c.taken < Left)
        BY <1>2, <2>2, <3>2
      <3> QED  BY <3>2, <3>3, GreedySame
    <2>3. CASE takerAvailable # 0 /\ makerAvailable = 0
      <3>1. c = b
        BY <2>1, <2>3 DEF PushFill, Left, LeftOfMaker
      <3> QED  BY <1>8, <2>3, <3>1, GreedySame
    <2>4. CASE /\ takerAvailable # 0 /\ makerAvailable # 0
               /\ ~CanFill(maker, makerFilled[maker], amount)
      <3>1. c = [b EXCEPT !.stage = "Failed"]
        BY <2>1, <2>4 DEF PushFill, Left, LeftOfMaker
      <3>2. c.taken = b.taken /\ c.fills = b.fills /\ c.stage = "Failed"
        BY <1>3, <3>1
      <3> QED  BY <3>2, GreedySame
    <2>5. CASE /\ takerAvailable # 0 /\ makerAvailable # 0
               /\ CanFill(maker, makerFilled[maker], amount)
      <3>1. c = AddFill(b, maker, makerFilled[maker], amount)
        BY <2>1, <2>5 DEF PushFill, Left, LeftOfMaker
      <3>2. amount \in Nat \ {0} /\ ValidBasic(maker)
        BY <1>2, <2>5 DEF CanFill, FitsOrder
      <3>3. amount <= takerAvailable /\ (amount = makerAvailable \/ amount = takerAvailable)
        BY <1>2
      <3> HIDE DEF amount, maker
      <3>4. OneMore(c, b, [order |-> maker, amount |-> amount],
                    CollateralDelta(maker, makerFilled[maker], amount))
        BY <1>1, <3>1, <3>2, AddFillEffect
      <3>5. /\ c.taken = b.taken + amount /\ c.stage = b.stage
            /\ c.fills = Append(b.fills, [order |-> maker, amount |-> amount])
        BY <3>4 DEF OneMore
      <3> QED  BY <1>8, <3>2, <3>3, <3>5, GreedyFill DEF maker
    <2> QED  BY <2>2, <2>3, <2>4, <2>5
  <1> QED  BY <1>4, <1>5, <1>6, <1>7, <1>8 DEF Open
-----------------------------------------------------------------------------
(***************************************************************************)
(* The end of the loop.                                                    *)
(***************************************************************************)
LEMMA GreedyEnds ==
    ASSUME Started, NEW kind, NEW makers \in Seq(Orders),
           \A i, j \in DOMAIN makers : makers[i] = makers[j] => i = j,
           NEW b, b = Turns(kind, makers, makerFilled, taker, takerFilled,
                            unavailable)[Len(makers)]
    PROVE  Sound(Len(makers), b, kind, makers) /\ Greedy(Len(makers), b, kind, makers)
  <1> DEFINE turn == Turns(kind, makers, makerFilled, taker, takerFilled, unavailable)
             n == Len(makers)
             G == {k \in 0..n : Greedy(k, turn[k], kind, makers)}
  <1>0. /\ makerFilled \in [Orders -> Nat] /\ taker \in Orders
        /\ takerFilled \in Nat
    BY DEF Started
  <1>1. n \in Nat
    OBVIOUS
  <1>2. /\ turn[0] = NewBuilder
        /\ \A k \in 1..n :
              turn[k] = Consider(turn[k - 1], makers[k], makerFilled[makers[k]],
                                 kind, taker, takerFilled, unavailable)
    BY <1>0, TurnsUnfold, SMTT(30)
  <1>3. \A k \in 0..n : Sound(k, turn[k], kind, makers)
    BY LoopEnds DEF Sound, Started
  <1> HIDE DEF turn
  <1>4. Greedy(0, NewBuilder, kind, makers)
    BY DEF Greedy, NewBuilder, UsedUp
  <1>5. ASSUME NEW k \in 1..n, Greedy(k - 1, turn[k - 1], kind, makers)
        PROVE  Greedy(k, turn[k], kind, makers)
    <2>1. k - 1 \in 0..n /\ k \in 0..n
      BY <1>1
    <2>2. /\ Sound(k - 1, turn[k - 1], kind, makers) /\ Sound(k, turn[k], kind, makers)
          /\ turn[k] = Consider(turn[k - 1], makers[k], makerFilled[makers[k]],
                                kind, taker, takerFilled, unavailable)
      BY <1>2, <1>3, <2>1
    <2> QED  BY <1>5, <2>2, GreedyStep
  <1>6. 0..n \subseteq G
    <2>1. 0 \in G
      BY <1>1, <1>2, <1>4
    <2>2. \A k \in 1..n : k - 1 \in G => k \in G
      BY <1>1, <1>5
    <2> HIDE DEF G, n
    <2> QED  BY <1>1, <2>1, <2>2, UpTo
  <1>7. n \in 0..n
    BY <1>1
  <1> QED  BY <1>3, <1>6, <1>7 DEF turn

\* The kinds of match that a taker can have.
KindOf(kind) ==
    \/ kind = "Direct"
    \/ kind = "MintAssisted" /\ Terms[taker].side = "Buy"
    \/ kind = "MergeAssisted" /\ Terms[taker].side = "Sell"

\* Where a maker crosses the taker, so does one that goes before it.
LEMMA CrossedBefore ==
    ASSUME Started, NEW kind, KindOf(kind),
           NEW p \in Orders, NEW q \in Orders, ValidBasic(p), ValidBasic(q),
           BetterPrice(MakerSide(kind, taker), Price(p), Price(q)) \/ Price(p) = Price(q),
           Crossed(kind, taker, q)
    PROVE  Crossed(kind, taker, p)
  <1>1. Price(p) \in Nat /\ Price(q) \in Nat /\ Price(taker) \in Nat /\ Wad \in Nat
    BY PriceType, WadAssumption DEF Started
  <1>2. Terms[taker].side \in {"Buy", "Sell"}
    BY TermsAssumption DEF Started, OrderTerms, Sides
  <1>3. CASE kind = "Direct"
    BY <1>1, <1>2, <1>3 DEF Crossed, BetterPrice, MakerSide, OppositeSide
  <1>4. CASE kind = "MintAssisted" /\ Terms[taker].side = "Buy"
    BY <1>1, <1>4 DEF Crossed, BetterPrice, MakerSide
  <1>5. CASE kind = "MergeAssisted" /\ Terms[taker].side = "Sell"
    BY <1>1, <1>5 DEF Crossed, BetterPrice, MakerSide
  <1> QED  BY <1>3, <1>4, <1>5 DEF KindOf

\* The makers of a kind, where they stand in the queue, and the builder that
\* their loop ends in.
EndOfLoop(kind, makers, at, b) ==
    /\ makers \in Seq(Orders) /\ at \in [DOMAIN makers -> DOMAIN queue]
    /\ PlacesOf(makers, at, queue, Terms[taker].market,
                MakerClaim(kind, taker), MakerSide(kind, taker))
    /\ b = Turns(kind, makers, makerFilled, taker, takerFilled, unavailable)[Len(makers)]
    /\ Sound(Len(makers), b, kind, makers)
    /\ Greedy(Len(makers), b, kind, makers)

LEMMA PlanEndsLoop ==
    ASSUME Started, NEW kind
    PROVE  \E makers, at, b :
              /\ EndOfLoop(kind, makers, at, b)
              /\ PlanOfKind(kind, LevelsOf(queue), makerFilled, taker, takerFilled, unavailable)
                    = FinishPlan(b, kind, taker, takerFilled)
  <1> DEFINE market == Terms[taker].market
             claim == MakerClaim(kind, taker)
             side == MakerSide(kind, taker)
             makers == Priority(LevelsOf(queue), market, claim, side)
             b == Turns(kind, makers, makerFilled, taker, takerFilled,
                        unavailable)[Len(makers)]
  <1>1. PlanOfKind(kind, LevelsOf(queue), makerFilled, taker, takerFilled, unavailable)
            = FinishPlan(b, kind, taker, takerFilled)
    BY DEF PlanOfKind
  <1>2. /\ makers \in Seq(Orders)
        /\ \E at \in [DOMAIN makers -> DOMAIN queue] :
              PlacesOf(makers, at, queue, market, claim, side)
    <2> HIDE DEF market, claim, side
    <2> QED  BY PriorityProperties DEF Started
  <1>3. PICK at \in [DOMAIN makers -> DOMAIN queue] :
          PlacesOf(makers, at, queue, market, claim, side)
    BY <1>2
  <1> HIDE DEF makers
  <1>4. \A i, j \in DOMAIN makers : makers[i] = makers[j] => i = j
    BY <1>3 DEF PlacesOf, Started
  <1>5. Sound(Len(makers), b, kind, makers) /\ Greedy(Len(makers), b, kind, makers)
    BY <1>2, <1>4, GreedyEnds
  <1>6. EndOfLoop(kind, makers, at, b)
    BY <1>2, <1>3, <1>5 DEF EndOfLoop
  <1> QED  BY <1>1, <1>6

\* The makers that a match may use are the open ones of its kind.
LEMMA EligibleMakers ==
    ASSUME Started, NEW kind, NEW makers, NEW at, NEW b, EndOfLoop(kind, makers, at, b),
           NEW i \in Eligible(kind)
    PROVE  \E a \in 1..Len(makers) :
              at[a] = i /\ makers[a] = queue[i] /\ Open(kind, makers[a])
  <1>1. PICK a \in DOMAIN makers : at[a] = i
    BY DEF EndOfLoop, PlacesOf, Eligible, Positions
  <1>2. makers[a] = queue[i] /\ a \in 1..Len(makers)
    BY <1>1 DEF EndOfLoop, PlacesOf
  <1> QED  BY <1>1, <1>2 DEF Eligible, Open

\* A taker that wants more, where there may be more makers, has used up all
\* that it may use.
LEMMA AllUsedUp ==
    ASSUME Started, NEW kind, KindOf(kind), NEW makers, NEW at, NEW b,
           EndOfLoop(kind, makers, at, b),
           b.stage # "Failed", b.taken < Left, Len(b.fills) # MaxMakerOrders,
           NEW i \in Eligible(kind)
    PROVE  FilledBy(b.fills, queue[i]) = LeftOf(i)
  <1> DEFINE n == Len(makers)
  <1>1. /\ b.stage \in {"Matching", "Done"} /\ makers \in Seq(Orders) /\ n \in Nat
        /\ DOMAIN makers = 1..n
    BY DEF EndOfLoop, Sound, LoopInv, Builder
  <1>2. PICK a \in 1..n : at[a] = i /\ makers[a] = queue[i] /\ Open(kind, makers[a])
    BY EligibleMakers
  <1>3. LeftOfMaker(makers[a]) = LeftOf(i)
    BY <1>2 DEF LeftOf, LeftOfMaker
  <1> HIDE DEF n
  <1>4. CASE UsedUp(n, b.fills, kind, makers)
    BY <1>2, <1>3, <1>4 DEF UsedUp
  <1>5. CASE \E e \in 1..n : /\ ~Crossed(kind, taker, makers[e])
                             /\ UsedUp(e - 1, b.fills, kind, makers)
    <2>1. PICK e \in 1..n : /\ ~Crossed(kind, taker, makers[e])
                           /\ UsedUp(e - 1, b.fills, kind, makers)
      BY <1>5
    <2>2. CASE a < e
      <3>1. a \in 1..(e - 1)
        BY <1>1, <2>2
      <3> QED  BY <1>2, <1>3, <2>1, <3>1 DEF UsedUp
    <2>3. CASE ~(a < e)
      <3>1. a # e
        BY <1>2, <2>1 DEF Open
      <3>2. e < a
        BY <1>1, <2>3, <3>1
      <3>3. /\ makers[e] = queue[at[e]] /\ makers[a] = queue[at[a]]
            /\ at[e] \in DOMAIN queue /\ at[a] \in DOMAIN queue
            /\ \/ BetterPrice(MakerSide(kind, taker), Price(queue[at[e]]), Price(queue[at[a]]))
               \/ Price(queue[at[e]]) = Price(queue[at[a]])
        BY <1>1, <3>2 DEF EndOfLoop, PlacesOf
      <3>4. /\ makers[e] \in Orders /\ makers[a] \in Orders
            /\ ValidBasic(makers[e]) /\ ValidBasic(makers[a])
        BY <1>1, <3>3, SMTT(30) DEF Started
      <3>5. /\ Crossed(kind, taker, makers[a])
            /\ \/ BetterPrice(MakerSide(kind, taker), Price(makers[e]), Price(makers[a]))
               \/ Price(makers[e]) = Price(makers[a])
        BY <1>2, <3>3 DEF Open
      <3>6. Crossed(kind, taker, makers[e])
        BY <3>4, <3>5, CrossedBefore
      <3> QED  BY <2>1, <3>6
    <2> QED  BY <2>2, <2>3
  <1> QED  BY <1>1, <1>4, <1>5 DEF EndOfLoop, Greedy, n

\* The plan that is returned, and the loop that it comes from.
LEMMA MatchedEndsLoop ==
    ASSUME PlanningInv, Matched
    PROVE  \E makers, at, b :
              /\ KindOf(plan.kind) /\ EndOfLoop(plan.kind, makers, at, b)
              /\ b.stage # "Failed" /\ plan.taken = b.taken /\ plan.fills = b.fills
  <1>1. plan = Planned /\ plan # NoMatch /\ plan # MatchFailed /\ Started
    BY MatchedIsSound DEF PlanningInv, Matched, NoMatch, MatchFailed
  <1>2. Terms[taker].side \in {"Buy", "Sell"}
    BY <1>1, TermsAssumption DEF Started, OrderTerms, Sides
  <1>3. PICK kind : /\ KindOf(kind)
                    /\ plan = PlanOfKind(kind, LevelsOf(queue), makerFilled, taker, takerFilled,
                                         unavailable)
    BY <1>1, <1>2 DEF Planned, PlanMatch, KindOf
  <1>4. PICK makers, at, b :
          /\ EndOfLoop(kind, makers, at, b)
          /\ plan = FinishPlan(b, kind, taker, takerFilled)
    BY <1>1, <1>3, PlanEndsLoop
  <1> DEFINE actual == TakerActualCollateral(kind, b)
  <1>5. /\ b.stage # "Failed"
        /\ plan = [outcome |-> "Matched", kind |-> kind, taken |-> b.taken,
                   takerCollateral |-> actual, makerCollateral |-> b.collateral,
                   fills |-> b.fills]
    BY <1>1, <1>4 DEF FinishPlan
  <1> HIDE DEF actual
  <1>6. plan.kind = kind /\ plan.taken = b.taken /\ plan.fills = b.fills
    BY <1>5
  <1> QED  BY <1>3, <1>4, <1>5, <1>6

(***************************************************************************)
(* Price-time priority, for any book, taker and amounts: a maker trades    *)
(* only once every open maker that goes before it is used up, and none     *)
(* trades that is locked or does not cross.                                *)
(***************************************************************************)
THEOREM BestMakersAlwaysFirst == Spec => []BestMakersFirst
  <1>1. ASSUME PlanningInv, Matched, NEW k \in DOMAIN plan.fills
        PROVE  \E i \in Eligible(plan.kind) : queue[i] = plan.fills[k].order
    <2>1. PICK kind :
            SoundMatch(plan, kind, Book, makerFilled, taker, takerFilled, unavailable)
      BY <1>1, MatchedIsSound
    <2>2. PICK i \in DOMAIN queue : queue[i] = plan.fills[k].order
      BY <1>1, <2>1 DEF SoundMatch, Book
    <2>3. i \in Eligible(plan.kind)
      BY <1>1, <2>1, <2>2 DEF SoundMatch, Eligible, Positions
    <2> QED  BY <2>2, <2>3
  <1>2. ASSUME PlanningInv, Matched,
               NEW i \in Eligible(plan.kind), NEW j \in Eligible(plan.kind),
               GoesBefore(plan.kind, i, j), FilledOf(j) > 0
        PROVE  FilledOf(i) = LeftOf(i)
    <2> DEFINE kind == plan.kind
    <2>1. PICK makers, at, b :
            /\ KindOf(kind) /\ EndOfLoop(kind, makers, at, b)
            /\ plan.fills = b.fills
      BY <1>2, MatchedEndsLoop
    <2>2. Started
      BY <1>2 DEF PlanningInv
    <2> HIDE DEF kind
    <2>3. PICK c \in 1..Len(makers) :
            at[c] = i /\ makers[c] = queue[i] /\ Open(kind, makers[c])
      BY <2>1, <2>2, EligibleMakers DEF kind
    <2>4. PICK d \in 1..Len(makers) :
            at[d] = j /\ makers[d] = queue[j] /\ Open(kind, makers[d])
      BY <2>1, <2>2, EligibleMakers DEF kind
    <2>5. makers \in Seq(Orders) /\ DOMAIN makers = 1..Len(makers) /\ Len(makers) \in Nat
      BY <2>1 DEF EndOfLoop
    <2>6. MakerSide(kind, taker) \in {"Buy", "Sell"}
      <3>1. Terms[taker].side \in {"Buy", "Sell"}
        BY <2>2, TermsAssumption DEF Started, OrderTerms, Sides
      <3> QED  BY <3>1 DEF MakerSide, OppositeSide
    <2>7. \/ BetterPrice(MakerSide(kind, taker), Price(queue[i]), Price(queue[j]))
          \/ Price(queue[i]) = Price(queue[j]) /\ i < j
      BY <1>2, <2>6 DEF GoesBefore, BetterPrice, kind
    <2>8. c < d
      BY <2>1, <2>3, <2>4, <2>5, <2>7 DEF EndOfLoop, PlacesOf
    <2>9. /\ FilledOf(i) = FilledBy(b.fills, makers[c])
          /\ FilledOf(j) = FilledBy(b.fills, makers[d])
          /\ LeftOf(i) = LeftOfMaker(makers[c])
      BY <2>1, <2>3, <2>4 DEF FilledOf, FilledBy, LeftOf, LeftOfMaker
    <2>10. UsedUp(d - 1, b.fills, kind, makers)
      BY <1>2, <2>1, <2>9 DEF EndOfLoop, Greedy
    <2>11. c \in 1..(d - 1)
      BY <2>5, <2>8
    <2> QED  BY <2>3, <2>9, <2>10, <2>11 DEF UsedUp
  <1>3. PlanningInv => BestMakersFirst
    BY <1>1, <1>2 DEF BestMakersFirst
  <1> QED  BY <1>3, PlanningInvariance, PTL
-----------------------------------------------------------------------------
(***************************************************************************)
(* A taker that is turned away.                                            *)
(***************************************************************************)
LEMMA TotalOfOne ==
    ASSUME NEW x \in Int
    PROVE  Total(<<x>>) = x
  <1> DEFINE none == <<>>
  <1>1. none \in Seq(Int) /\ Append(none, x) = <<x>>
    OBVIOUS
  <1>2. Total(none) = 0
    BY TotalOfNone
  <1> HIDE DEF none
  <1>3. Total(Append(none, x)) = Total(none) + x
    BY <1>1, TotalOfMore
  <1> QED  BY <1>1, <1>2, <1>3

\* What the loop makes of a single open maker.
LEMMA SingleFill ==
    ASSUME Started, NEW makers, NEW at, NEW b, EndOfLoop("Direct", makers, at, b),
           NEW i \in Eligible("Direct"), Eligible("Direct") = {i},
           b.taken # 0
    PROVE  /\ b.taken = IF Left < LeftOf(i) THEN Left ELSE LeftOf(i)
           /\ b.collateral = CollateralDelta(queue[i], makerFilled[queue[i]], b.taken)
           /\ b.collateral \in Int
  <1> DEFINE n == Len(b.fills)
             f == b.fills[1]
  <1>1. /\ b.fills \in Seq(FillType) /\ b.taken \in Int /\ b.collateral \in Int
        /\ n \in Nat /\ DOMAIN b.fills = 1..n
        /\ b.taken = Total(Amounts(b.fills))
        /\ b.collateral = Total(Collaterals(b.fills, makerFilled))
        /\ b.fills # <<>> /\ b.taken >= 0
        /\ b.taken > 0 => b.taken <= Left
        /\ \A k, l \in DOMAIN b.fills : b.fills[k].order = b.fills[l].order => k = l
    BY DEF EndOfLoop, Sound, LoopInv, Builder, Left
  <1>2. ASSUME NEW k \in DOMAIN b.fills
        PROVE  /\ b.fills[k].order = queue[i]
               /\ b.fills[k].amount <= LeftOf(i)
    <2>1. PICK j \in 1..Len(makers) :
            /\ b.fills[k].order = makers[j]
            /\ Crossed("Direct", taker, makers[j])
            /\ makers[j] \notin unavailable
            /\ b.fills[k].amount <= RemainingClaim(makers[j], makerFilled[makers[j]])
      BY DEF EndOfLoop, Sound, LoopInv, GoodFill
    <2>2. j \in DOMAIN makers
      BY DEF EndOfLoop
    <2>3. /\ at[j] \in DOMAIN queue /\ makers[j] = queue[at[j]]
          /\ Terms[makers[j]].market = Terms[taker].market
          /\ Terms[makers[j]].claim = MakerClaim("Direct", taker)
          /\ Terms[makers[j]].side = MakerSide("Direct", taker)
      BY <2>2 DEF EndOfLoop, PlacesOf
    <2>4. at[j] \in Eligible("Direct")
      BY <2>1, <2>3 DEF Eligible, Positions
    <2> QED  BY <2>1, <2>3, <2>4 DEF LeftOf
  <1>3. n = 1
    <2>1. n # 0
      BY <1>1
    <2>2. 1 \in 1..n /\ n \in 1..n
      BY <1>1, <2>1
    <2>3. b.fills[1].order = queue[i] /\ b.fills[n].order = queue[i]
      BY <1>1, <1>2, <2>2
    <2> QED  BY <1>1, <2>2, <2>3
  <1>4. /\ b.fills = <<f>> /\ f \in FillType /\ f.order = queue[i]
        /\ f.amount <= LeftOf(i) /\ f.amount \in Int /\ 1 \in DOMAIN b.fills
    <2>1. 1 \in DOMAIN b.fills
      BY <1>1, <1>3
    <2>2. f \in FillType
      BY <1>1, <1>3
    <2>3. b.fills = <<f>>
      BY <1>1, <1>3
    <2>4. f.order = queue[i] /\ f.amount <= LeftOf(i)
      BY <1>2, <2>1
    <2>5. f.amount \in Int
      BY <2>2 DEF FillType
    <2> QED  BY <2>1, <2>2, <2>3, <2>4, <2>5
  <1> HIDE DEF f, n
  <1>5. Amounts(b.fills) = <<f.amount>>
    BY <1>4 DEF Amounts
  <1>6. b.taken = f.amount
    BY <1>1, <1>4, <1>5, TotalOfOne
  <1>7. /\ Collaterals(b.fills, makerFilled) =
              <<CollateralDelta(f.order, makerFilled[f.order], f.amount)>>
    BY <1>4 DEF Collaterals
  <1>8. CollateralDelta(f.order, makerFilled[f.order], f.amount) \in Int
    <2>1. i \in DOMAIN queue /\ queue[i] \in Orders /\ ValidBasic(queue[i])
      BY DEF Eligible, Positions, Started
    <2>2. f.amount \in Nat /\ makerFilled[queue[i]] \in Nat
      BY <1>1, <1>4, <1>6, <2>1 DEF Started
    <2> QED  BY <1>4, <2>1, <2>2, DeltaType
  <1>9. b.collateral = CollateralDelta(queue[i], makerFilled[queue[i]], b.taken)
    BY <1>1, <1>4, <1>6, <1>7, <1>8, TotalOfOne
  <1>10. Left \in Int /\ LeftOf(i) \in Int
    <2>1. queue[i] \in Orders
      BY DEF Eligible, Positions, Started
    <2> QED  BY <2>1, ClaimType DEF Started, Left, LeftOf, RemainingClaim
  <1>11. b.taken < Left => f.amount = LeftOf(i)
    <2>1. LeftOfMaker(queue[i]) = LeftOf(i)
      BY DEF LeftOfMaker, LeftOf
    <2>2. b.taken < Left => b.fills[1].amount = LeftOfMaker(b.fills[1].order)
      BY <1>4 DEF EndOfLoop, Greedy
    <2> QED  BY <1>4, <2>1, <2>2 DEF f
  <1>12. b.taken <= Left
    BY <1>1
  <1>13. b.taken = IF Left < LeftOf(i) THEN Left ELSE LeftOf(i)
    BY <1>1, <1>4, <1>6, <1>10, <1>11, <1>12
  <1> QED  BY <1>1, <1>9, <1>13

(***************************************************************************)
(* A match takes all it can, for any book, taker and amounts; and a taker  *)
(* with a single open maker is turned away only by its own price.          *)
(***************************************************************************)
THEOREM AlwaysTakesAllItCan == Spec => []TakesAllItCan
  <1>1. ASSUME PlanningInv, Matched, plan.taken < RemainingClaim(taker, takerFilled),
               Len(plan.fills) # MaxMakerOrders, NEW i \in Eligible(plan.kind)
        PROVE  FilledOf(i) = LeftOf(i)
    <2>1. PICK makers, at, b :
            /\ KindOf(plan.kind) /\ EndOfLoop(plan.kind, makers, at, b)
            /\ b.stage # "Failed" /\ plan.taken = b.taken /\ plan.fills = b.fills
      BY <1>1, MatchedEndsLoop
    <2>2. FilledBy(b.fills, queue[i]) = LeftOf(i)
      BY <1>1, <2>1, AllUsedUp DEF PlanningInv, Left
    <2> QED  BY <2>1, <2>2 DEF FilledOf, FilledBy
  <1>2. ASSUME PlanningInv, plan = NoMatch, NEW i \in Eligible("Direct"),
               Eligible("Direct") = {i}
        PROVE  LET left == RemainingClaim(taker, takerFilled)
                   amount == IF left < LeftOf(i) THEN left ELSE LeftOf(i)
                   cost   == CollateralDelta(queue[i], makerFilled[queue[i]], amount)
                   limit  == CollateralDelta(taker, takerFilled, amount)
               IN  IF Terms[taker].side = "Buy" THEN cost > limit ELSE cost < limit
    <2>1. Started /\ plan = Planned
      BY <1>2 DEF PlanningInv, Pending, NoMatch
    <2>2. PlanOfKind("Direct", LevelsOf(queue), makerFilled, taker, takerFilled, unavailable) = NoMatch
      BY <1>2, <2>1 DEF Planned, PlanMatch
    <2>3. PICK makers, at, b :
            /\ EndOfLoop("Direct", makers, at, b)
            /\ NoMatch = FinishPlan(b, "Direct", taker, takerFilled)
      BY <2>1, <2>2, PlanEndsLoop
    <2> DEFINE limit == CollateralDelta(taker, takerFilled, b.taken)
               actual == TakerActualCollateral("Direct", b)
    <2>4. /\ b.stage # "Failed"
          /\ b.taken = 0 \/ ~WithinTakerPrice(taker, actual, limit)
      BY <2>3 DEF FinishPlan, NoMatch, MatchFailed
    <2>5. actual = b.collateral
      BY DEF TakerActualCollateral
    <2> HIDE DEF actual, limit
    <2>6. /\ i \in DOMAIN queue /\ queue[i] \in Orders
          /\ Left \in Nat \ {0} /\ LeftOf(i) \in Nat \ {0}
      <3>1. i \in DOMAIN queue /\ queue[i] \in Orders
        BY <2>1 DEF Started, Eligible, Positions
      <3>2. MaxClaim(queue[i]) \in Nat /\ MaxClaim(taker) \in Nat
        BY <2>1, <3>1, ClaimType DEF Started
      <3>3. makerFilled[queue[i]] \in Nat /\ makerFilled[queue[i]] < MaxClaim(queue[i])
        BY <2>1, <3>1 DEF Started
      <3>4. takerFilled \in Nat /\ takerFilled < MaxClaim(taker)
        BY <2>1 DEF Started
      <3> QED  BY <3>1, <3>2, <3>3, <3>4 DEF Left, LeftOf, RemainingClaim
    <2>7. b.taken # 0
      <3> SUFFICES ASSUME b.taken = 0
                   PROVE  FALSE
        OBVIOUS
      <3>1. b.fills = <<>>
        BY <2>3 DEF EndOfLoop, Sound, LoopInv
      <3>2. b.taken < Left /\ Len(b.fills) # MaxMakerOrders
        BY <2>6, <3>1, MakersAssumption
      <3>3. FilledBy(b.fills, queue[i]) = LeftOf(i)
        BY <2>1, <2>3, <2>4, <3>2, AllUsedUp DEF KindOf
      <3>4. FilledBy(<<>>, queue[i]) = 0
        BY DEF FilledBy
      <3> QED  BY <2>6, <3>1, <3>3, <3>4
    <2>8. /\ b.taken = IF Left < LeftOf(i) THEN Left ELSE LeftOf(i)
          /\ b.collateral = CollateralDelta(queue[i], makerFilled[queue[i]], b.taken)
          /\ b.collateral \in Int
      BY <1>2, <2>1, <2>3, <2>7, SingleFill
    <2>9. limit \in Int
      <3>1. b.taken \in Nat
        BY <2>6, <2>8
      <3> QED  BY <2>1, <3>1, DeltaType DEF Started, limit
    <2>10. IF Terms[taker].side = "Buy" THEN b.collateral > limit ELSE b.collateral < limit
      BY <2>4, <2>5, <2>7, <2>8, <2>9 DEF WithinTakerPrice
    <2> QED  BY <2>8, <2>10 DEF Left, limit
  <1>3. PlanningInv => TakesAllItCan
    BY <1>1, <1>2 DEF TakesAllItCan
  <1> QED  BY <1>3, PlanningInvariance, PTL
-----------------------------------------------------------------------------
(***************************************************************************)
(* A submission that fails.                                                *)
(***************************************************************************)
\* The makers of a kind, as the loop sees them.
Listed(kind, makers, at) ==
    /\ makers \in Seq(Orders) /\ at \in [DOMAIN makers -> DOMAIN queue]
    /\ PlacesOf(makers, at, queue, Terms[taker].market,
                MakerClaim(kind, taker), MakerSide(kind, taker))

\* The positions of the first k makers that a match may use.
Reached(k, kind, makers, at) == {at[a] : a \in {c \in 1..k : Open(kind, makers[c])}}

Turn(kind, S) == {p \in S \X S : GoesBefore(kind, p[1], p[2])}

\* What the makers at these positions have left in all.
SumOf(kind, S) ==
    Total([k \in DOMAIN Ranked(S, Turn(kind, S)) |-> LeftOf(Ranked(S, Turn(kind, S))[k])])

LEMMA TurnOrder ==
    ASSUME Started, NEW kind, NEW S \in SUBSET Positions
    PROVE  StrictOrder(S, Turn(kind, S)) /\ IsFiniteSet(S)
  <1>1. \A i \in S : i \in Nat /\ Price(queue[i]) \in Nat
    BY PriceType DEF Started, Positions
  <1>2. \A i, j \in S : <<i, j>> \in Turn(kind, S) <=> GoesBefore(kind, i, j)
    BY DEF Turn
  <1>3. \A i \in S : ~GoesBefore(kind, i, i)
    BY <1>1 DEF GoesBefore
  <1>4. \A i, j \in S : i = j \/ GoesBefore(kind, i, j) \/ GoesBefore(kind, j, i)
    BY <1>1 DEF GoesBefore
  <1>5. \A i, j, k \in S :
           GoesBefore(kind, i, j) /\ GoesBefore(kind, j, k) => GoesBefore(kind, i, k)
    BY <1>1 DEF GoesBefore
  <1>6. IsFiniteSet(S)
    <2>1. Positions = 1..Len(queue) /\ Len(queue) \in Nat
      BY DEF Started, Positions
    <2>2. IsFiniteSet(Positions)
      BY <2>1, FS_Interval
    <2> QED  BY <2>2, FS_Subset
  <1> QED  BY <1>2, <1>3, <1>4, <1>5, <1>6 DEF StrictOrder

LEMMA LeftOfType ==
    ASSUME Started, NEW i \in Positions
    PROVE  /\ LeftOf(i) \in Nat \ {0} /\ Left \in Nat \ {0}
           /\ queue[i] \in Orders /\ ValidBasic(queue[i])
           /\ makerFilled[queue[i]] \in Nat /\ makerFilled[queue[i]] < MaxClaim(queue[i])
  <1>1. queue[i] \in Orders /\ ValidBasic(queue[i])
    BY DEF Started, Positions
  <1>2. MaxClaim(queue[i]) \in Nat /\ MaxClaim(taker) \in Nat
    BY <1>1, ClaimType DEF Started
  <1>3. makerFilled[queue[i]] \in Nat /\ makerFilled[queue[i]] < MaxClaim(queue[i])
    BY <1>1 DEF Started, Positions
  <1>4. takerFilled \in Nat /\ takerFilled < MaxClaim(taker)
    BY DEF Started
  <1> QED  BY <1>1, <1>2, <1>3, <1>4 DEF Left, LeftOf, RemainingClaim

\* One more maker, after the others, adds what it has left.
LEMMA SumOfMore ==
    ASSUME Started, NEW kind, NEW S \in SUBSET Positions, NEW i \in Positions, i \notin S,
           \A j \in S : GoesBefore(kind, j, i)
    PROVE  /\ SumOf(kind, S) \in Int
           /\ SumOf(kind, S \cup {i}) = SumOf(kind, S) + LeftOf(i)
           /\ Len(Ranked(S, Turn(kind, S))) = Cardinality(S)
           /\ Cardinality(S \cup {i}) = Cardinality(S) + 1
           /\ Cardinality(S) \in Nat
  <1> DEFINE T == S \cup {i}
             s == Ranked(S, Turn(kind, S))
             t == Ranked(T, Turn(kind, T))
             amounts == [k \in DOMAIN s |-> LeftOf(s[k])]
             n == Cardinality(S)
  <1>1. /\ T \in SUBSET Positions
        /\ StrictOrder(S, Turn(kind, S)) /\ IsFiniteSet(S)
        /\ StrictOrder(T, Turn(kind, T))
    BY TurnOrder
  <1>2. /\ s \in Seq(S) /\ Len(s) = n /\ n \in Nat
    BY <1>1, RankedProperties
  <1>3. Cardinality(T) = n + 1
    BY <1>1, FS_AddElement
  <1>4. t = Append(s, i)
    <2>1. \A y \in S : <<y, i>> \in Turn(kind, T)
      BY DEF Turn
    <2>2. \A y, z \in S : <<y, z>> \in Turn(kind, S) <=> <<y, z>> \in Turn(kind, T)
      BY DEF Turn
    <2> QED  BY <1>1, <2>1, <2>2, RankedAppend
  <1> HIDE DEF s, t, n
  <1>5. DOMAIN s = 1..n /\ \A k \in 1..n : s[k] \in S /\ LeftOf(s[k]) \in Int
    BY <1>2, LeftOfType
  <1>6. amounts \in Seq(Int) /\ Len(amounts) = n /\ LeftOf(i) \in Int
    BY <1>2, <1>5, LeftOfType
  <1>7. [k \in DOMAIN t |-> LeftOf(t[k])] = Append(amounts, LeftOf(i))
    <2>1. /\ DOMAIN t = 1..(n + 1) /\ t[n + 1] = i
          /\ \A k \in 1..n : t[k] = s[k]
      BY <1>2, <1>4
    <2> DEFINE more == Append(amounts, LeftOf(i))
    <2>2. /\ more = [k \in 1..(n + 1) |-> more[k]]
          /\ more[n + 1] = LeftOf(i)
          /\ \A k \in 1..n : more[k] = amounts[k]
      BY <1>6, AppendParts
    <2>3. \A k \in 1..n : amounts[k] = LeftOf(s[k])
      BY <1>5
    <2> HIDE DEF amounts, more
    <2>4. \A k \in 1..(n + 1) : LeftOf(t[k]) = more[k]
      <3>1. \A k \in 1..(n + 1) : k \in 1..n \/ k = n + 1
        BY <1>2
      <3> QED  BY <2>1, <2>2, <2>3, <3>1
    <2> QED  BY <2>1, <2>2, <2>4 DEF more
  <1>8. Total(Append(amounts, LeftOf(i))) = Total(amounts) + LeftOf(i) /\ Total(amounts) \in Int
    <2> HIDE DEF amounts
    <2> QED  BY <1>6, TotalOfMore, TotalType
  <1> QED  BY <1>2, <1>3, <1>7, <1>8 DEF SumOf, s, t, n

LEMMA SumOfNone ==
    ASSUME Started, NEW kind
    PROVE  SumOf(kind, {}) = 0 /\ Cardinality({}) = 0
  <1>1. Cardinality({}) = 0
    BY FS_EmptySet
  <1>2. Len(Ranked({}, Turn(kind, {}))) = 0 /\ Ranked({}, Turn(kind, {})) \in Seq({})
    <2>1. {} \in SUBSET Positions
      OBVIOUS
    <2> QED  BY <1>1, <2>1, TurnOrder, RankedProperties
  <1>3. [k \in DOMAIN Ranked({}, Turn(kind, {})) |->
            LeftOf(Ranked({}, Turn(kind, {}))[k])] = <<>>
    BY <1>2
  <1> QED  BY <1>1, <1>3, TotalOfNone DEF SumOf

\* A maker that takes its turn is added after those that have had theirs; any
\* other changes nothing.
LEMMA ReachedMore ==
    ASSUME Started, NEW kind, NEW makers, NEW at, Listed(kind, makers, at),
           NEW k \in 1..Len(makers)
    PROVE  LET before == Reached(k - 1, kind, makers, at)
           IN  /\ before \in SUBSET Positions /\ at[k] \in Positions
               /\ makers[k] = queue[at[k]]
               /\ at[k] \notin before /\ \A j \in before : GoesBefore(kind, j, at[k])
               /\ Reached(k, kind, makers, at) =
                     IF Open(kind, makers[k]) THEN before \cup {at[k]} ELSE before
  <1> DEFINE n == Len(makers)
             before == Reached(k - 1, kind, makers, at)
             side == MakerSide(kind, taker)
  <1>1. /\ n \in Nat /\ DOMAIN makers = 1..n
        /\ \A a \in 1..n : at[a] \in Positions /\ makers[a] = queue[at[a]]
        /\ \A a, c \in 1..n : at[a] = at[c] => a = c
        /\ \A a, c \in 1..n :
              a < c => \/ BetterPrice(side, Price(queue[at[a]]), Price(queue[at[c]]))
                       \/ Price(queue[at[a]]) = Price(queue[at[c]]) /\ at[a] < at[c]
    BY DEF Listed, PlacesOf, Positions
  <1>2. side \in {"Buy", "Sell"}
    <2>1. Terms[taker].side \in {"Buy", "Sell"}
      BY TermsAssumption DEF Started, OrderTerms, Sides
    <2> QED  BY <2>1 DEF MakerSide, OppositeSide
  <1> HIDE DEF n
  <1>3. \A a \in 1..(k - 1) : a \in 1..n /\ a < k /\ k \in 1..n
    BY <1>1 DEF n
  <1>4. \A a \in 1..(k - 1) : at[a] # at[k] /\ GoesBefore(kind, at[a], at[k])
    BY <1>1, <1>2, <1>3 DEF GoesBefore, BetterPrice
  <1>5. before \in SUBSET Positions
    BY <1>1, <1>3 DEF Reached
  <1>6. at[k] \notin before /\ \A j \in before : GoesBefore(kind, j, at[k])
    BY <1>4 DEF Reached
  <1>7. \A a : a \in 1..k <=> a \in 1..(k - 1) \/ a = k
    OBVIOUS
  <1>8. Reached(k, kind, makers, at) =
           IF Open(kind, makers[k]) THEN before \cup {at[k]} ELSE before
    <2>1. {c \in 1..k : Open(kind, makers[c])} =
             {c \in 1..(k - 1) : Open(kind, makers[c])} \cup
                (IF Open(kind, makers[k]) THEN {k} ELSE {})
      BY <1>7
    <2> QED  BY <2>1 DEF Reached
  <1>9. at[k] \in Positions /\ makers[k] = queue[at[k]]
    BY <1>1 DEF n
  <1> QED  BY <1>5, <1>6, <1>8, <1>9

\* The makers that a match may use are those reached at the end; of these,
\* those that go before a maker are those reached before it.
LEMMA ReachedAll ==
    ASSUME Started, NEW kind, NEW makers, NEW at, Listed(kind, makers, at)
    PROVE  /\ Eligible(kind) = Reached(Len(makers), kind, makers, at)
           /\ \A k \in 1..Len(makers) :
                 {j \in Eligible(kind) : GoesBefore(kind, j, at[k])} =
                     Reached(k - 1, kind, makers, at)
  <1> DEFINE n == Len(makers)
             side == MakerSide(kind, taker)
  <1>1. /\ n \in Nat /\ DOMAIN makers = 1..n
        /\ \A a \in 1..n :
              /\ at[a] \in Positions /\ makers[a] = queue[at[a]]
              /\ Terms[makers[a]].market = Terms[taker].market
              /\ Terms[makers[a]].claim = MakerClaim(kind, taker)
              /\ Terms[makers[a]].side = side
        /\ \A a, c \in 1..n :
              a < c <=> \/ BetterPrice(side, Price(queue[at[a]]), Price(queue[at[c]]))
                        \/ Price(queue[at[a]]) = Price(queue[at[c]]) /\ at[a] < at[c]
        /\ \A p \in Positions :
              /\ Terms[queue[p]].market = Terms[taker].market
              /\ Terms[queue[p]].claim = MakerClaim(kind, taker)
              /\ Terms[queue[p]].side = side
              => \E a \in 1..n : at[a] = p
    BY DEF Listed, PlacesOf, Positions
  <1>2. side \in {"Buy", "Sell"}
    <2>1. Terms[taker].side \in {"Buy", "Sell"}
      BY TermsAssumption DEF Started, OrderTerms, Sides
    <2> QED  BY <2>1 DEF MakerSide, OppositeSide
  <1>3. Eligible(kind) = Reached(n, kind, makers, at)
    <2>1. ASSUME NEW i \in Eligible(kind)
          PROVE  i \in Reached(n, kind, makers, at)
      <3>1. PICK a \in 1..n : at[a] = i
        BY <1>1 DEF Eligible
      <3>2. Open(kind, makers[a])
        BY <1>1, <3>1 DEF Eligible, Open
      <3> QED  BY <3>1, <3>2 DEF Reached
    <2>2. ASSUME NEW a \in 1..n, Open(kind, makers[a])
          PROVE  at[a] \in Eligible(kind)
      BY <1>1, <2>2 DEF Eligible, Open
    <2> QED  BY <2>1, <2>2 DEF Reached
  <1>4. \A a, c \in 1..n : a < c <=> GoesBefore(kind, at[a], at[c])
    BY <1>1, <1>2 DEF GoesBefore, BetterPrice
  <1> HIDE DEF n
  <1>5. ASSUME NEW k \in 1..n
        PROVE  {j \in Reached(n, kind, makers, at) : GoesBefore(kind, j, at[k])} =
                   Reached(k - 1, kind, makers, at)
    <2>1. \A a : a \in 1..(k - 1) <=> a \in 1..n /\ a < k
      BY <1>1
    <2>2. \A a \in 1..n : a \in 1..(k - 1) <=> GoesBefore(kind, at[a], at[k])
      BY <1>4, <2>1
    <2> QED  BY <2>1, <2>2 DEF Reached
  <1> QED  BY <1>3, <1>5 DEF n

\* A maker that does not cross is behind all that a match may use.
LEMMA NoneAfter ==
    ASSUME Started, NEW kind, KindOf(kind), NEW makers, NEW at, Listed(kind, makers, at),
           NEW k \in 1..Len(makers), ~Crossed(kind, taker, makers[k])
    PROVE  Eligible(kind) = Reached(k - 1, kind, makers, at)
  <1> DEFINE n == Len(makers)
  <1>1. /\ n \in Nat /\ DOMAIN makers = 1..n
        /\ \A a \in 1..n : at[a] \in Positions /\ makers[a] = queue[at[a]]
        /\ \A a, c \in 1..n :
              a < c => \/ BetterPrice(MakerSide(kind, taker), Price(queue[at[a]]), Price(queue[at[c]]))
                       \/ Price(queue[at[a]]) = Price(queue[at[c]])
    BY DEF Listed, PlacesOf, Positions
  <1> HIDE DEF n
  <1>2. k \in 1..n
    BY DEF n
  <1>3. ASSUME NEW a \in 1..n, Open(kind, makers[a])
        PROVE  a \in 1..(k - 1)
    <2> SUFFICES ASSUME k < a
                 PROVE  FALSE
      <3>1. a # k
        BY <1>3 DEF Open
      <3> QED  BY <1>1, <1>2, <3>1
    <2>1. /\ makers[k] \in Orders /\ makers[a] \in Orders
          /\ ValidBasic(makers[k]) /\ ValidBasic(makers[a])
      BY <1>1, <1>2, LeftOfType
    <2>2. \/ BetterPrice(MakerSide(kind, taker), Price(makers[k]), Price(makers[a]))
          \/ Price(makers[k]) = Price(makers[a])
      BY <1>1, <1>2
    <2>3. Crossed(kind, taker, makers[a])
      BY <1>3 DEF Open
    <2> QED  BY <2>1, <2>2, <2>3, CrossedBefore
  <1>4. \A a \in 1..(k - 1) : a \in 1..n
    BY <1>1, <1>2
  <1>5. Eligible(kind) = Reached(n, kind, makers, at)
    BY ReachedAll DEF n
  <1> QED  BY <1>3, <1>4, <1>5 DEF Reached

\* The plan is for all that the first k makers have left, and no more.
Summed(k, b, kind, makers, at) ==
    /\ b.taken = SumOf(kind, Reached(k, kind, makers, at))
    /\ Len(b.fills) = Cardinality(Reached(k, kind, makers, at))

\* The plan fails at the k-th maker, of which the taker would take dust.
FailsAt(k, kind, makers, at) ==
    LET before == Reached(k - 1, kind, makers, at)
        left == Left - SumOf(kind, before)
    IN  /\ Open(kind, makers[k])
        /\ left > 0 /\ left < LeftOf(at[k])
        /\ CollateralDelta(queue[at[k]], makerFilled[queue[at[k]]], left) = 0
        /\ Cardinality(before) < MaxMakerOrders

\* After the first k makers: a taker that wants more has taken all they have,
\* and where the loop has ended there is no more for it; or the plan has
\* failed on dust.
Dust(k, b, kind, makers, at) ==
    /\ b.stage = "Matching" /\ b.taken < Left => Summed(k, b, kind, makers, at)
    /\ b.stage = "Done" /\ b.taken < Left =>
          \E m \in 0..k : /\ Summed(m, b, kind, makers, at)
                          /\ \/ Len(b.fills) = MaxMakerOrders
                             \/ Eligible(kind) = Reached(m, kind, makers, at)
    /\ b.stage = "Failed" => \E m \in 1..k : FailsAt(m, kind, makers, at)

\* Where the fill of a maker is refused, it is dust that the taker would leave
\* no more of.
LEMMA RefusedFill ==
    ASSUME Started, NEW i \in Positions, NEW left \in Nat \ {0},
           NEW amount, amount = IF left < LeftOf(i) THEN left ELSE LeftOf(i),
           ~CanFill(queue[i], makerFilled[queue[i]], amount)
    PROVE  /\ left < LeftOf(i)
           /\ CollateralDelta(queue[i], makerFilled[queue[i]], left) = 0
  <1> DEFINE m == queue[i]
             f == makerFilled[m]
             M == MaxClaim(m)
  <1>1. /\ LeftOf(i) \in Nat \ {0} /\ m \in Orders /\ ValidBasic(m)
        /\ f \in Nat /\ f < M
    BY LeftOfType
  <1>2. LeftOf(i) = M - f /\ M \in Nat
    BY <1>1, ClaimType DEF LeftOf, RemainingClaim
  <1>3. CanFill(m, f, LeftOf(i))
    BY <1>1, RemainderPriced DEF LeftOf
  <1> HIDE DEF m, f, M
  <1>4. left < LeftOf(i) /\ amount = left
    BY <1>1, <1>3 DEF m, f
  <1>5. FitsOrder(m, f, left)
    BY <1>1, <1>2, <1>4 DEF FitsOrder, M
  <1>6. ~(CollateralDelta(m, f, left) > 0)
    BY <1>1, <1>4, <1>5 DEF CanFill, m, f
  <1>7. CollateralDelta(m, f, left) \in 0..left
    BY <1>1, DeltaBounded
  <1>8. CollateralDelta(m, f, left) = 0
    BY <1>6, <1>7
  <1> QED  BY <1>4, <1>8 DEF m, f

LEMMA DustStep ==
    ASSUME Started, NEW kind, KindOf(kind), NEW makers, NEW at, Listed(kind, makers, at),
           NEW k \in 1..Len(makers), NEW b, NEW c,
           c = Consider(b, makers[k], makerFilled[makers[k]], kind, taker, takerFilled,
                        unavailable),
           Sound(k - 1, b, kind, makers), Sound(k, c, kind, makers),
           Dust(k - 1, b, kind, makers, at)
    PROVE  Dust(k, c, kind, makers, at)
  <1> DEFINE maker == makers[k]
             i == at[k]
             before == Reached(k - 1, kind, makers, at)
             takerAvailable == Left - b.taken
             amount == IF takerAvailable < LeftOf(i) THEN takerAvailable ELSE LeftOf(i)
  <1>1. /\ b \in Builder /\ maker \in Orders /\ makerFilled[maker] \in Nat
        /\ k - 1 \in Nat /\ k \in 1..k /\ k - 1 \in 0..k
    BY SMTT(30) DEF Sound, LoopInv, Started, Listed
  <1>2. /\ before \in SUBSET Positions /\ i \in Positions /\ maker = queue[i]
        /\ i \notin before /\ \A j \in before : GoesBefore(kind, j, i)
        /\ Reached(k, kind, makers, at) =
              IF Open(kind, maker) THEN before \cup {i} ELSE before
    BY ReachedMore
  <1>3. /\ LeftOf(i) \in Nat \ {0} /\ Left \in Nat \ {0}
        /\ LeftOf(i) = RemainingClaim(maker, makerFilled[maker])
        /\ b.taken \in Nat /\ b.taken <= Left /\ Len(b.fills) \in Nat
        /\ Len(b.fills) <= MaxMakerOrders
    <2>1. LeftOf(i) \in Nat \ {0} /\ Left \in Nat \ {0}
      BY <1>2, LeftOfType
    <2>2. LeftOf(i) = RemainingClaim(maker, makerFilled[maker])
      BY <1>2 DEF LeftOf
    <2>3. /\ b.taken \in Int /\ b.taken >= 0
          /\ b.taken > 0 => b.taken <= Left
          /\ Len(b.fills) \in Nat /\ Len(b.fills) <= MaxMakerOrders
      BY SMTT(30) DEF Sound, LoopInv, Builder, Left
    <2>4. b.taken \in Nat /\ b.taken <= Left
      BY <2>1, <2>3
    <2> HIDE DEF maker, i
    <2> QED  BY <2>1, <2>2, <2>3, <2>4
  <1>4. ASSUME NEW stage \in {"Done", "Failed"}, c = [b EXCEPT !.stage = stage]
        PROVE  c.taken = b.taken /\ c.fills = b.fills /\ c.stage = stage
    BY <1>1, <1>4 DEF Builder
  <1>5. ASSUME b.stage = "Matching", b.taken < Left
        PROVE  Summed(k - 1, b, kind, makers, at)
    BY <1>5 DEF Dust
  <1> HIDE DEF maker, i, before
  <1>6. CASE b.stage # "Matching"
    <2>1. c = b
      BY <1>6 DEF Consider
    <2>2. \A m : (m \in 0..(k - 1) => m \in 0..k) /\ (m \in 1..(k - 1) => m \in 1..k)
      BY <1>1
    <2> QED  BY <1>6, <2>1, <2>2 DEF Dust
  <1>7. CASE b.stage = "Matching" /\ ~Crossed(kind, taker, maker)
    <2>1. c = [b EXCEPT !.stage = "Done"]
      BY <1>7 DEF Consider, maker
    <2>2. c.taken = b.taken /\ c.fills = b.fills /\ c.stage = "Done"
      BY <1>4, <2>1
    <2>3. Eligible(kind) = Reached(k - 1, kind, makers, at)
      BY <1>7, NoneAfter DEF maker
    <2>4. c.taken < Left => Summed(k - 1, c, kind, makers, at)
      BY <1>5, <1>7, <2>2 DEF Summed
    <2> QED  BY <1>1, <2>2, <2>3, <2>4 DEF Dust
  <1>8. CASE b.stage = "Matching" /\ Crossed(kind, taker, maker) /\ maker \in unavailable
    <2>1. c = b
      BY <1>8 DEF Consider, maker
    <2>2. Reached(k, kind, makers, at) = before
      BY <1>2, <1>8 DEF Open
    <2> QED  BY <1>5, <1>8, <2>1, <2>2 DEF Dust, Summed, before
  <1>9. CASE /\ b.stage = "Matching" /\ Open(kind, maker)
             /\ Len(b.fills) = MaxMakerOrders
    <2>1. c = [b EXCEPT !.stage = "Done"]
      BY <1>9 DEF Consider, Open, maker
    <2>2. c.taken = b.taken /\ c.fills = b.fills /\ c.stage = "Done"
      BY <1>4, <2>1
    <2>3. c.taken < Left => Summed(k - 1, c, kind, makers, at)
      BY <1>5, <1>9, <2>2 DEF Summed
    <2> QED  BY <1>1, <1>9, <2>2, <2>3 DEF Dust
  <1>10. CASE /\ b.stage = "Matching" /\ Open(kind, maker)
              /\ Len(b.fills) # MaxMakerOrders
    <2>1. c = PushFill(b, maker, makerFilled[maker], taker, takerFilled)
      BY <1>10 DEF Consider, Open, maker
    <2>2. CASE takerAvailable = 0
      <3>1. c = [b EXCEPT !.stage = "Done"]
        BY <2>1, <2>2 DEF PushFill, Left
      <3>2. c.taken = b.taken /\ c.stage = "Done"
        BY <1>4, <3>1
      <3>3. ~(c.taken < Left)
        BY <1>3, <2>2, <3>2
      <3> QED  BY <3>2, <3>3 DEF Dust
    <2>3. CASE takerAvailable # 0 /\ ~CanFill(maker, makerFilled[maker], amount)
      <3>1. c = [b EXCEPT !.stage = "Failed"]
        BY <1>3, <2>1, <2>3 DEF PushFill, Left
      <3>2. c.stage = "Failed"
        BY <1>4, <3>1
      <3>3. takerAvailable \in Nat \ {0} /\ b.taken < Left
        BY <1>3, <2>3
      <3>4. /\ takerAvailable < LeftOf(i)
            /\ CollateralDelta(queue[i], makerFilled[queue[i]], takerAvailable) = 0
        <4> HIDE DEF takerAvailable
        <4> QED  BY <1>2, <2>3, <3>3, RefusedFill
      <3>5. Summed(k - 1, b, kind, makers, at)
        BY <1>5, <1>10, <3>3
      <3>6. takerAvailable = Left - SumOf(kind, before)
        BY <3>5 DEF Summed, before
      <3>7. Cardinality(before) < MaxMakerOrders
        BY <1>3, <1>10, <3>5, MakersAssumption DEF Summed, before
      <3> HIDE DEF takerAvailable
      <3>8. takerAvailable > 0
        BY <3>3
      <3>9. FailsAt(k, kind, makers, at)
        BY <1>10, <3>4, <3>6, <3>7, <3>8 DEF FailsAt, before, i, maker
      <3> QED  BY <1>1, <3>2, <3>9 DEF Dust
    <2>4. CASE takerAvailable # 0 /\ CanFill(maker, makerFilled[maker], amount)
      <3>1. c = AddFill(b, maker, makerFilled[maker], amount)
        BY <1>3, <2>1, <2>4 DEF PushFill, Left
      <3>2. amount \in Nat \ {0} /\ ValidBasic(maker)
        BY <1>3, <2>4 DEF CanFill, FitsOrder
      <3> HIDE DEF amount
      <3>3. OneMore(c, b, [order |-> maker, amount |-> amount],
                    CollateralDelta(maker, makerFilled[maker], amount))
        BY <1>1, <3>1, <3>2, AddFillEffect
      <3>4. /\ c.taken = b.taken + amount /\ c.stage = b.stage
            /\ c.fills = Append(b.fills, [order |-> maker, amount |-> amount])
        BY <3>3 DEF OneMore
      <3>5. Len(c.fills) = Len(b.fills) + 1
        BY <1>1, <3>4 DEF Builder
      <3>6. ASSUME c.taken < Left
            PROVE  Summed(k, c, kind, makers, at)
        <4>1. amount = LeftOf(i) /\ b.taken < Left
          BY <1>3, <3>2, <3>4, <3>6 DEF amount
        <4>2. b.taken = SumOf(kind, before) /\ Len(b.fills) = Cardinality(before)
          BY <1>5, <1>10, <4>1 DEF Summed, before
        <4>3. /\ SumOf(kind, before \cup {i}) = SumOf(kind, before) + LeftOf(i)
              /\ Cardinality(before \cup {i}) = Cardinality(before) + 1
          <5>1. /\ before \in SUBSET Positions /\ i \in Positions /\ i \notin before
                /\ \A j \in before : GoesBefore(kind, j, i)
            BY <1>2
          <5>2. /\ SumOf(kind, before) \in Int
                /\ SumOf(kind, before \cup {i}) = SumOf(kind, before) + LeftOf(i)
                /\ Len(Ranked(before, Turn(kind, before))) = Cardinality(before)
                /\ Cardinality(before \cup {i}) = Cardinality(before) + 1
                /\ Cardinality(before) \in Nat
            BY <5>1, SumOfMore
          <5> QED  BY <5>2
        <4>4. Reached(k, kind, makers, at) = before \cup {i}
          BY <1>2, <1>10
        <4> QED  BY <3>4, <3>5, <4>1, <4>2, <4>3, <4>4 DEF Summed
      <3> QED  BY <1>10, <3>4, <3>6 DEF Dust
    <2> QED  BY <2>2, <2>3, <2>4
  <1> QED  BY <1>6, <1>7, <1>8, <1>9, <1>10 DEF Open

LEMMA DustEnds ==
    ASSUME Started, NEW kind, KindOf(kind), NEW makers, NEW at, NEW b,
           EndOfLoop(kind, makers, at, b)
    PROVE  Listed(kind, makers, at) /\ Dust(Len(makers), b, kind, makers, at)
  <1> DEFINE turn == Turns(kind, makers, makerFilled, taker, takerFilled, unavailable)
             n == Len(makers)
             G == {k \in 0..n : Dust(k, turn[k], kind, makers, at)}
  <1>1. Listed(kind, makers, at) /\ b = turn[n]
    BY DEF EndOfLoop, Listed
  <1>2. /\ makers \in Seq(Orders) /\ n \in Nat
        /\ \A i, j \in DOMAIN makers : makers[i] = makers[j] => i = j
        /\ makerFilled \in [Orders -> Nat] /\ taker \in Orders /\ takerFilled \in Nat
    BY <1>1 DEF Listed, PlacesOf, Started
  <1>3. /\ turn[0] = NewBuilder
        /\ \A k \in 1..n :
              turn[k] = Consider(turn[k - 1], makers[k], makerFilled[makers[k]],
                                 kind, taker, takerFilled, unavailable)
    BY <1>2, TurnsUnfold
  <1>4. \A k \in 0..n : Sound(k, turn[k], kind, makers)
    BY <1>2, LoopEnds DEF Sound, Started
  <1> HIDE DEF turn
  <1>5. Dust(0, NewBuilder, kind, makers, at)
    <2>1. Reached(0, kind, makers, at) = {}
      BY DEF Reached
    <2>2. NewBuilder.taken = 0 /\ Len(NewBuilder.fills) = 0 /\ NewBuilder.stage = "Matching"
      BY DEF NewBuilder
    <2> QED  BY <2>1, <2>2, SumOfNone DEF Dust, Summed
  <1>6. ASSUME NEW k \in 1..n, Dust(k - 1, turn[k - 1], kind, makers, at)
        PROVE  Dust(k, turn[k], kind, makers, at)
    <2>1. k - 1 \in 0..n /\ k \in 0..n
      BY <1>2
    <2>2. /\ Sound(k - 1, turn[k - 1], kind, makers) /\ Sound(k, turn[k], kind, makers)
          /\ turn[k] = Consider(turn[k - 1], makers[k], makerFilled[makers[k]],
                                kind, taker, takerFilled, unavailable)
      BY <1>3, <1>4, <2>1
    <2> QED  BY <1>1, <1>6, <2>2, DustStep
  <1>7. 0..n \subseteq G
    <2>1. 0 \in G
      BY <1>2, <1>3, <1>5
    <2>2. \A k \in 1..n : k - 1 \in G => k \in G
      BY <1>2, <1>6
    <2> HIDE DEF G, n
    <2> QED  BY <1>2, <2>1, <2>2, UpTo
  <1>8. n \in 0..n
    BY <1>2
  <1> QED  BY <1>1, <1>7, <1>8

\* Of the makers that are reached, one is the last.
LEMMA LastReached ==
    ASSUME Started, NEW kind, NEW makers, NEW at, Listed(kind, makers, at),
           NEW m \in 0..Len(makers), Reached(m, kind, makers, at) # {}
    PROVE  \E k \in 1..Len(makers) :
              /\ Open(kind, makers[k])
              /\ Reached(m, kind, makers, at) =
                    Reached(k - 1, kind, makers, at) \cup {at[k]}
  <1> DEFINE n == Len(makers)
             Last(j) == \E k \in 1..n :
                           /\ Open(kind, makers[k])
                           /\ Reached(j, kind, makers, at) =
                                 Reached(k - 1, kind, makers, at) \cup {at[k]}
             G == {j \in 0..n : Reached(j, kind, makers, at) = {} \/ Last(j)}
  <1>1. n \in Nat
    BY DEF Listed
  <1>2. 0 \in G
    BY <1>1 DEF Reached
  <1>3. ASSUME NEW k \in 1..n, k - 1 \in G
        PROVE  k \in G
    <2>1. Reached(k, kind, makers, at) =
             IF Open(kind, makers[k]) THEN Reached(k - 1, kind, makers, at) \cup {at[k]}
             ELSE Reached(k - 1, kind, makers, at)
      BY ReachedMore
    <2>2. CASE Open(kind, makers[k])
      <3>1. Last(k)
        BY <2>1, <2>2
      <3> QED  BY <1>1, <3>1
    <2>3. CASE ~Open(kind, makers[k])
      BY <1>1, <1>3, <2>1, <2>3
    <2> QED  BY <2>2, <2>3
  <1>4. 0..n \subseteq G
    <2> HIDE DEF G, n
    <2> QED  BY <1>1, <1>2, <1>3, UpTo
  <1> QED  BY <1>4

\* What is left of the taker for the k-th maker, and what the makers have left
\* with it.
InTurn(k, kind, makers, at) ==
    LET before == Reached(k - 1, kind, makers, at)
    IN  /\ at[k] \in Eligible(kind)
        /\ LeftFor(kind, at[k]) = Left - SumOf(kind, before)
        /\ Len(Before(kind, at[k])) = Cardinality(before)
        /\ SumOf(kind, before) \in Int /\ Cardinality(before) \in Nat
        /\ SumOf(kind, before \cup {at[k]}) = SumOf(kind, before) + LeftOf(at[k])
        /\ Cardinality(before \cup {at[k]}) = Cardinality(before) + 1

LEMMA EachInTurn ==
    ASSUME Started, NEW kind, NEW makers, NEW at, Listed(kind, makers, at),
           NEW k \in 1..Len(makers), Open(kind, makers[k])
    PROVE  InTurn(k, kind, makers, at)
  <1> DEFINE before == Reached(k - 1, kind, makers, at)
             i == at[k]
  <1>1. at[k] \in Eligible(kind)
    <2>1. at[k] \in Reached(Len(makers), kind, makers, at)
      BY DEF Reached
    <2> QED  BY <2>1, ReachedAll
  <1>2. Before(kind, i) = Ranked(before, Turn(kind, before))
    <2>1. {j \in Eligible(kind) : GoesBefore(kind, j, i)} = before
      BY ReachedAll
    <2> HIDE DEF before, i
    <2> QED  BY <2>1 DEF Before, Turn
  <1>3. /\ before \in SUBSET Positions /\ i \in Positions /\ i \notin before
        /\ \A j \in before : GoesBefore(kind, j, i)
    BY ReachedMore
  <1> HIDE DEF before, i
  <1>4. /\ SumOf(kind, before) \in Int
        /\ SumOf(kind, before \cup {i}) = SumOf(kind, before) + LeftOf(i)
        /\ Len(Ranked(before, Turn(kind, before))) = Cardinality(before)
        /\ Cardinality(before \cup {i}) = Cardinality(before) + 1
        /\ Cardinality(before) \in Nat
    BY <1>3, SumOfMore
  <1>5. LeftFor(kind, i) = Left - SumOf(kind, before)
    BY <1>2 DEF LeftFor, Left, SumOf
  <1> QED  BY <1>1, <1>2, <1>4, <1>5 DEF before, i, InTurn

\* The submission failed on the maker at position i.
FailedOn(kind, i) ==
    LET left == LeftFor(kind, i)
        makers == Len(Before(kind, i)) + 1
        taken == RemainingClaim(taker, takerFilled) - left + LeftOf(i)
    IN  /\ left > 0 /\ makers <= MaxMakerOrders
        /\ \/ /\ left < LeftOf(i)
              /\ CollateralDelta(queue[i], makerFilled[queue[i]], left) = 0
           \/ /\ left > LeftOf(i)
              /\ \/ makers = MaxMakerOrders
                 \/ \A j \in Eligible(kind) : ~GoesBefore(kind, i, j)
              /\ CollateralDelta(taker, takerFilled, taken) = 0

LEMMA FailedInLoop ==
    ASSUME Started, NEW kind, NEW makers, NEW at, Listed(kind, makers, at),
           NEW k \in 1..Len(makers), FailsAt(k, kind, makers, at)
    PROVE  \E i \in Eligible(kind) : FailedOn(kind, i)
  <1> DEFINE before == Reached(k - 1, kind, makers, at)
             i == at[k]
             left == Left - SumOf(kind, before)
             size == Cardinality(before)
  <1>1. /\ Open(kind, makers[k])
        /\ left > 0 /\ left < LeftOf(i)
        /\ CollateralDelta(queue[i], makerFilled[queue[i]], left) = 0
        /\ size < MaxMakerOrders
    BY DEF FailsAt
  <1>2. InTurn(k, kind, makers, at)
    BY <1>1, EachInTurn
  <1>3. /\ i \in Eligible(kind) /\ LeftFor(kind, i) = left
        /\ Len(Before(kind, i)) = size /\ size \in Nat
    BY <1>2 DEF InTurn
  <1> HIDE DEF before, i, left, size
  <1>4. size + 1 <= MaxMakerOrders
    <2>1. size \in Nat /\ size < MaxMakerOrders
      BY <1>1, <1>3
    <2>2. MaxMakerOrders \in Int
      BY MakersAssumption
    <2> QED  BY <2>1, <2>2
  <1>5. FailedOn(kind, i)
    BY <1>1, <1>3, <1>4 DEF FailedOn
  <1> QED  BY <1>3, <1>5

\* A plan that is all dust for the taker ends at one maker as well.
LEMMA FailedForTaker ==
    ASSUME Started, NEW kind, NEW makers, NEW at, Listed(kind, makers, at),
           NEW b, NEW m \in 0..Len(makers), Summed(m, b, kind, makers, at),
           b.taken \in Nat, b.taken > 0, b.taken < Left, Len(b.fills) <= MaxMakerOrders,
           \/ Len(b.fills) = MaxMakerOrders
           \/ Eligible(kind) = Reached(m, kind, makers, at),
           CollateralDelta(taker, takerFilled, b.taken) = 0
    PROVE  \E i \in Eligible(kind) : FailedOn(kind, i)
  <1> DEFINE reached == Reached(m, kind, makers, at)
  <1>1. b.taken = SumOf(kind, reached) /\ Len(b.fills) = Cardinality(reached)
    BY DEF Summed
  <1>2. reached # {}
    <2> SUFFICES ASSUME reached = {}
                 PROVE  FALSE
      OBVIOUS
    <2> HIDE DEF reached
    <2>1. SumOf(kind, reached) = 0
      BY SumOfNone
    <2> QED  BY <1>1, <2>1
  <1>3. PICK k \in 1..Len(makers) :
          /\ Open(kind, makers[k])
          /\ Reached(m, kind, makers, at) = Reached(k - 1, kind, makers, at) \cup {at[k]}
    BY <1>2, LastReached
  <1> DEFINE before == Reached(k - 1, kind, makers, at)
             i == at[k]
             size == Cardinality(before)
             sum == SumOf(kind, before)
  <1>4. InTurn(k, kind, makers, at)
    BY <1>3, EachInTurn
  <1>5. reached = before \cup {i}
    BY <1>3
  <1>6. /\ i \in Eligible(kind) /\ LeftFor(kind, i) = Left - sum
        /\ Len(Before(kind, i)) = size /\ sum \in Int /\ size \in Nat
        /\ b.taken = sum + LeftOf(i) /\ Len(b.fills) = size + 1
    <2>1. /\ i \in Eligible(kind) /\ LeftFor(kind, i) = Left - sum
          /\ Len(Before(kind, i)) = size /\ sum \in Int /\ size \in Nat
          /\ SumOf(kind, before \cup {i}) = sum + LeftOf(i)
          /\ Cardinality(before \cup {i}) = size + 1
      BY <1>4 DEF InTurn
    <2> HIDE DEF before, i, sum, size, reached
    <2> QED  BY <1>1, <1>5, <2>1
  <1>7. Eligible(kind) = reached => \A j \in Eligible(kind) : ~GoesBefore(kind, i, j)
    <2>1. /\ before \in SUBSET Positions /\ at[k] \in Positions
          /\ \A j \in before : GoesBefore(kind, j, at[k])
      BY ReachedMore
    <2>2. reached \in SUBSET Positions
      BY <1>5, <2>1
    <2>3. ASSUME NEW j \in reached
          PROVE  ~GoesBefore(kind, i, j)
      <3>1. /\ j \in Positions /\ i \in Positions
            /\ j = i \/ GoesBefore(kind, j, i)
        BY <1>5, <2>1
      <3> HIDE DEF i, reached
      <3>2. /\ j \in Nat /\ i \in Nat
            /\ queue[i] \in Orders /\ queue[j] \in Orders
            /\ ValidBasic(queue[i]) /\ ValidBasic(queue[j])
        BY <3>1, SMTT(30) DEF Started, Positions
      <3>3. Price(queue[i]) \in Nat /\ Price(queue[j]) \in Nat
        BY <3>2, PriceType
      <3> QED  BY <3>1, <3>2, <3>3 DEF GoesBefore
    <2> QED  BY <2>3
  <1>8. LeftOf(i) \in Nat /\ Left \in Nat
    <2>1. i \in Positions
      BY <1>6 DEF Eligible
    <2> QED  BY <2>1, LeftOfType
  <1> HIDE DEF before, i, size, sum, reached
  <1>9. /\ Left - sum > 0 /\ Left - sum > LeftOf(i)
         /\ Left - (Left - sum) + LeftOf(i) = b.taken
    BY <1>6, <1>8
  <1>10. size + 1 <= MaxMakerOrders
    BY <1>6
  <1>11. size + 1 = MaxMakerOrders \/ \A j \in Eligible(kind) : ~GoesBefore(kind, i, j)
    BY <1>6, <1>7 DEF reached
  <1>12. FailedOn(kind, i)
    BY <1>6, <1>9, <1>10, <1>11 DEF FailedOn, Left
  <1> QED  BY <1>6, <1>12

\* A plan that fails at the end of the loop does so on dust.
LEMMA FailedAtEnd ==
    ASSUME Started, NEW kind, KindOf(kind), NEW makers, NEW at, NEW b,
           EndOfLoop(kind, makers, at, b),
           FinishPlan(b, kind, taker, takerFilled) = MatchFailed
    PROVE  \E i \in Eligible(kind) : FailedOn(kind, i)
  <1> DEFINE n == Len(makers)
  <1>1. Listed(kind, makers, at) /\ Dust(n, b, kind, makers, at)
    BY DustEnds
  <1>2. /\ b \in Builder /\ b.taken >= 0
        /\ b.taken > 0 => b.taken <= Left
        /\ Len(b.fills) <= MaxMakerOrders
    BY DEF EndOfLoop, Sound, LoopInv, Left
  <1>3. b.stage \in {"Matching", "Done", "Failed"} /\ b.taken \in Int
    BY <1>2 DEF Builder
  <1>4. n \in Nat
    BY DEF EndOfLoop
  <1>5. CASE b.stage = "Failed"
    <2>1. PICK m \in 1..n : FailsAt(m, kind, makers, at)
      BY <1>1, <1>5 DEF Dust
    <2> QED  BY <1>1, <2>1, FailedInLoop
  <1>6. CASE b.stage # "Failed"
    <2>1. b.taken # 0 /\ ~CanFill(taker, takerFilled, b.taken)
      BY <1>6 DEF FinishPlan, MatchFailed, NoMatch
    <2>2. b.taken \in Nat /\ b.taken > 0 /\ b.taken <= Left
      BY <1>2, <1>3, <2>1
    <2>3. /\ taker \in Orders /\ ValidBasic(taker)
          /\ takerFilled \in Nat /\ takerFilled < MaxClaim(taker)
          /\ MaxClaim(taker) \in Nat /\ Left = MaxClaim(taker) - takerFilled
      BY ClaimType DEF Started, Left, RemainingClaim
    <2>4. CanFill(taker, takerFilled, Left)
      BY <2>3, RemainderPriced DEF Left
    <2>5. b.taken < Left
      <3>1. b.taken # Left
        BY <2>1, <2>4
      <3> QED  BY <2>2, <2>3, <3>1
    <2>6. CollateralDelta(taker, takerFilled, b.taken) = 0
      <3>1. FitsOrder(taker, takerFilled, b.taken)
        BY <2>2, <2>3 DEF FitsOrder
      <3>2. CollateralDelta(taker, takerFilled, b.taken) \in 0..b.taken
        BY <2>2, <2>3, DeltaBounded
      <3>3. ~(CollateralDelta(taker, takerFilled, b.taken) > 0)
        BY <2>1, <2>3, <3>1 DEF CanFill
      <3> QED  BY <2>2, <3>2, <3>3
    <2>7. PICK m \in 0..n :
            /\ Summed(m, b, kind, makers, at)
            /\ \/ Len(b.fills) = MaxMakerOrders
               \/ Eligible(kind) = Reached(m, kind, makers, at)
      <3>1. CASE b.stage = "Matching"
        <4>1. Summed(n, b, kind, makers, at)
          BY <1>1, <2>5, <3>1 DEF Dust
        <4>2. Eligible(kind) = Reached(n, kind, makers, at)
          BY <1>1, ReachedAll
        <4> QED  BY <1>4, <4>1, <4>2
      <3>2. CASE b.stage = "Done"
        BY <1>1, <2>5, <3>2 DEF Dust
      <3> QED  BY <1>3, <1>6, <3>1, <3>2
    <2> QED  BY <1>1, <1>2, <2>2, <2>5, <2>6, <2>7, FailedForTaker
  <1> QED  BY <1>5, <1>6

(***************************************************************************)
(* A submission fails only on dust, for any book, taker and amounts: what  *)
(* the makers before the last leave of the taker moves no unit of that     *)
(* maker's collateral, or all the taker can get moves none of its own.  A  *)
(* maker that is used up whole never fails the taker.                      *)
(***************************************************************************)
THEOREM FailsAlwaysOnlyOnDust == Spec => []FailsOnlyOnDust
  <1>1. ASSUME PlanningInv, plan = MatchFailed
        PROVE  \E kind \in TriedKinds : \E i \in Eligible(kind) : FailedOn(kind, i)
    <2>1. Started /\ Planned = MatchFailed
      BY <1>1 DEF PlanningInv, Pending, MatchFailed
    <2>2. Terms[taker].side \in {"Buy", "Sell"}
      BY <2>1, TermsAssumption DEF Started, OrderTerms, Sides
    <2>3. PICK kind \in TriedKinds :
            /\ KindOf(kind)
            /\ PlanOfKind(kind, LevelsOf(queue), makerFilled, taker, takerFilled, unavailable)
                  = MatchFailed
      BY <2>1, <2>2 DEF Planned, PlanMatch, KindOf, TriedKinds
    <2>4. PICK makers, at, b :
            /\ EndOfLoop(kind, makers, at, b)
            /\ FinishPlan(b, kind, taker, takerFilled) = MatchFailed
      BY <2>1, <2>3, PlanEndsLoop
    <2>5. \E i \in Eligible(kind) : FailedOn(kind, i)
      BY <2>1, <2>3, <2>4, FailedAtEnd
    <2> QED  BY <2>5
  <1>2. PlanningInv => FailsOnlyOnDust
    BY <1>1 DEF FailsOnlyOnDust, FailedOn
  <1> QED  BY <1>2, PlanningInvariance, PTL
=============================================================================
