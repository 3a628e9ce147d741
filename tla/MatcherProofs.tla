---------------------------- MODULE MatcherProofs ----------------------------
(***************************************************************************)
(* What the matcher returns, for any book, any taker and amounts of any    *)
(* size: lemmas about lists, about the priority of makers and about the    *)
(* loop that builds a plan.                                                *)
(***************************************************************************)
EXTENDS Matcher, FiniteSetTheorems, FunctionTheorems, TLAPS

(***************************************************************************)
(* Numbers: a set of them has a least, and what holds of 0 and passes from *)
(* each number to the next holds up to n.  Both are stated of sets, so     *)
(* that they can be cited.                                                 *)
(***************************************************************************)
\* A set of natural numbers that is not empty has a least member.
LEMMA NatMin ==
    ASSUME NEW T \in SUBSET Nat, T # {}
    PROVE  \E m \in T : \A k \in T : m <= k
  <1> DEFINE R == OpToRel(<, Nat)
  <1>1. IsWellFoundedOn(R, Nat)
    BY NatLessThanWellFounded
  <1>2. \A x, y \in Nat : <<x, y>> \in R <=> x < y
    BY DEF OpToRel
  <1> HIDE DEF R
  <1>3. PICK m \in T : \A k \in T : ~ (<<k, m>> \in R)
    BY <1>1, WFMin
  <1>4. ASSUME NEW k \in T
        PROVE  m <= k
    <2>1. ~(k < m) /\ k \in Nat /\ m \in Nat
      BY <1>2, <1>3
    <2> QED  BY <2>1
  <1> QED BY <1>4

\* Induction, for the members of a set of numbers.
LEMMA UpTo ==
    ASSUME NEW n \in Nat, NEW G, 0 \in G,
           \A k \in 1..n : k - 1 \in G => k \in G
    PROVE  0..n \subseteq G
  <1> DEFINE T == (0..n) \ G
  <1> SUFFICES ASSUME T # {}
               PROVE  FALSE
    OBVIOUS
  <1>1. PICK m \in T : \A k \in T : m <= k
    <2>1. T \in SUBSET Nat
      OBVIOUS
    <2> HIDE DEF T
    <2> QED  BY <2>1, NatMin
  <1>2. m \in 1..n /\ m - 1 \in 0..n
    BY <1>1
  <1>3. m - 1 \in G
    <2>1. ~(m <= m - 1)
      BY <1>2
    <2> QED  BY <1>1, <1>2, <2>1
  <1> QED  BY <1>1, <1>2, <1>3

\* The value of f at each number is what g makes of the one before.
Iterates(f, n, b, g) == f[0] = b /\ \A k \in 1..n : f[k] = g[<<k, f[k - 1]>>]

\* A recursive definition has a solution.
LEMMA Recursion ==
    ASSUME NEW S, NEW n \in Nat, NEW b \in S, NEW g \in [(1..n) \X S -> S]
    PROVE  \E f \in [0..n -> S] : Iterates(f, n, b, g)
  <1> DEFINE Upto(m) == \E f \in [0..m -> S] :
                           f[0] = b /\ \A k \in 1..m : f[k] = g[<<k, f[k - 1]>>]
             G == {m \in 0..n : Upto(m)}
  <1>1. 0 \in G
    <2> DEFINE f == [k \in 0..0 |-> b]
    <2>1. f \in [0..0 -> S] /\ f[0] = b /\ 1..0 = {}
      OBVIOUS
    <2> HIDE DEF f
    <2>2. Upto(0)
      BY <2>1
    <2> QED  BY <2>2
  <1>2. ASSUME NEW m \in 1..n, m - 1 \in G
        PROVE  m \in G
    <2>1. PICK f \in [0..(m - 1) -> S] :
             f[0] = b /\ \A k \in 1..(m - 1) : f[k] = g[<<k, f[k - 1]>>]
      BY <1>2
    <2> DEFINE h == [k \in 0..m |-> IF k = m THEN g[<<m, f[m - 1]>>] ELSE f[k]]
    <2>2. f[m - 1] \in S /\ g[<<m, f[m - 1]>>] \in S
      <3>1. m - 1 \in 0..(m - 1)
        OBVIOUS
      <3>2. f[m - 1] \in S
        BY <3>1
      <3>3. <<m, f[m - 1]>> \in (1..n) \X S
        BY <3>2
      <3> QED  BY <3>2, <3>3
    <2>3. \A k \in 0..m : k # m => k \in 0..(m - 1) /\ f[k] \in S
      OBVIOUS
    <2>4. h \in [0..m -> S]
      BY <2>2, <2>3
    <2>5. h[0] = b
      BY <2>1
    <2>6. ASSUME NEW k \in 1..m
          PROVE  h[k] = g[<<k, h[k - 1]>>]
      <3>1. k - 1 \in 0..m /\ k - 1 # m /\ h[k - 1] = f[k - 1]
        OBVIOUS
      <3>2. CASE k = m
        BY <3>1, <3>2
      <3>3. CASE k # m
        <4>1. k \in 1..(m - 1) /\ h[k] = f[k]
          BY <3>3
        <4> QED  BY <2>1, <3>1, <4>1
      <3> QED  BY <3>2, <3>3
    <2> HIDE DEF h
    <2>7. Upto(m)
      BY <2>4, <2>5, <2>6
    <2> QED  BY <2>7
  <1>3. 0..n \subseteq G
    <2> HIDE DEF G
    <2> QED  BY <1>1, <1>2, UpTo
  <1> QED  BY <1>3 DEF Iterates
-----------------------------------------------------------------------------
(***************************************************************************)
(* The members of a set in order.                                          *)
(***************************************************************************)
StrictOrder(S, R) ==
    /\ \A x \in S : <<x, x>> \notin R
    /\ \A x, y \in S : x = y \/ <<x, y>> \in R \/ <<y, x>> \in R
    /\ \A x, y, z \in S : <<x, y>> \in R /\ <<y, z>> \in R => <<x, z>> \in R

LEMMA RankGrows ==
    ASSUME NEW S, IsFiniteSet(S), NEW R, StrictOrder(S, R),
           NEW x \in S, NEW y \in S, <<x, y>> \in R
    PROVE  Cardinality(Preceding(x, S, R)) < Cardinality(Preceding(y, S, R))
  <1> DEFINE P == Preceding(x, S, R)
             Q == Preceding(y, S, R)
  <1>1. P \cup {x} \subseteq Q /\ x \notin P /\ Q \subseteq S /\ P \subseteq S
    BY DEF StrictOrder, Preceding
  <1> HIDE DEF P, Q
  <1>2. IsFiniteSet(P) /\ IsFiniteSet(Q)
    BY <1>1, FS_Subset
  <1>3. Cardinality(P \cup {x}) = Cardinality(P) + 1
    BY <1>1, <1>2, FS_AddElement
  <1>4. Cardinality(P \cup {x}) <= Cardinality(Q)
    BY <1>1, <1>2, FS_Subset
  <1>5. Cardinality(P) \in Nat /\ Cardinality(Q) \in Nat
    BY <1>2, FS_CardinalityType
  <1> QED  BY <1>3, <1>4, <1>5 DEF P, Q

LEMMA RankBelow ==
    ASSUME NEW S, IsFiniteSet(S), NEW R, StrictOrder(S, R), NEW x \in S
    PROVE  Cardinality(Preceding(x, S, R)) \in 0..Cardinality(S) - 1
  <1> DEFINE P == Preceding(x, S, R)
  <1>1. P \cup {x} \subseteq S /\ x \notin P /\ P \subseteq S
    BY DEF StrictOrder, Preceding
  <1> HIDE DEF P
  <1>2. IsFiniteSet(P)
    BY <1>1, FS_Subset
  <1>3. Cardinality(P \cup {x}) = Cardinality(P) + 1
    BY <1>1, <1>2, FS_AddElement
  <1>4. Cardinality(P \cup {x}) <= Cardinality(S)
    BY <1>1, FS_Subset
  <1>5. Cardinality(P) \in Nat /\ Cardinality(S) \in Nat
    BY <1>2, FS_CardinalityType
  <1> QED  BY <1>3, <1>4, <1>5 DEF P

LEMMA RankedProperties ==
    ASSUME NEW S, IsFiniteSet(S), NEW R, StrictOrder(S, R)
    PROVE  /\ Ranked(S, R) \in Seq(S) /\ Len(Ranked(S, R)) = Cardinality(S)
           /\ Cardinality(S) \in Nat
           /\ \A x \in S : \E k \in DOMAIN Ranked(S, R) : Ranked(S, R)[k] = x
           /\ \A i, j \in DOMAIN Ranked(S, R) :
                 /\ <<Ranked(S, R)[i], Ranked(S, R)[j]>> \in R <=> i < j
                 /\ Ranked(S, R)[i] = Ranked(S, R)[j] => i = j
           /\ \A k \in DOMAIN Ranked(S, R) :
                 Cardinality(Preceding(Ranked(S, R)[k], S, R)) = k - 1
  <1> DEFINE n == Cardinality(S)
             rank == [x \in S |-> Cardinality(Preceding(x, S, R)) + 1]
             s == Ranked(S, R)
  <1>1. n \in Nat
    BY FS_CardinalityType
  <1>2. rank \in [S -> 1..n]
    BY <1>1, RankBelow
  <1>3. \A x, y \in S : <<x, y>> \in R => rank[x] < rank[y]
    BY RankGrows, RankBelow, <1>1
  <1> HIDE DEF n
  <1>4. \A x, y \in S : rank[x] = rank[y] => x = y
    <2> SUFFICES ASSUME NEW x \in S, NEW y \in S, rank[x] = rank[y], x # y
                 PROVE  FALSE
      OBVIOUS
    <2>1. <<x, y>> \in R \/ <<y, x>> \in R
      BY DEF StrictOrder
    <2>2. rank[x] \in Nat /\ rank[y] \in Nat
      BY <1>2
    <2> HIDE DEF rank
    <2> QED  BY <1>3, <2>1, <2>2
  <1>5. \A k \in 1..n : \E x \in S : rank[x] = k
    <2>1. rank \in Injection(S, 1..n)
      BY <1>2, <1>4, Fun_IsInj
    <2>2. IsFiniteSet(1..n) /\ Cardinality(1..n) = n
      BY <1>1, FS_Interval
    <2>3. rank \in Surjection(S, 1..n)
      BY <2>1, <2>2, FS_Injection DEF n
    <2> HIDE DEF rank
    <2> QED  BY <2>3, Fun_SurjectionProperties
  <1>6. \A x \in S : rank[x] = Cardinality(Preceding(x, S, R)) + 1 /\ Cardinality(Preceding(x, S, R)) \in Nat
    BY RankBelow, <1>1 DEF n
  <1> HIDE DEF rank
  <1>7. DOMAIN s = 1..n /\ \A k \in 1..n : s[k] \in S /\ rank[s[k]] = k
    <2>1. DOMAIN s = 1..n
      BY DEF Ranked, n
    <2>2. ASSUME NEW k \in 1..n
          PROVE  s[k] \in S /\ rank[s[k]] = k
      <3>1. s[k] = CHOOSE x \in S : Cardinality(Preceding(x, S, R)) = k - 1
        BY <2>1 DEF Ranked, n
      <3>2. PICK x \in S : rank[x] = k
        BY <1>5
      <3>3. Cardinality(Preceding(x, S, R)) = k - 1
        BY <1>6, <3>2
      <3>4. s[k] \in S /\ Cardinality(Preceding(s[k], S, R)) = k - 1
        BY <3>1, <3>3
      <3> QED  BY <1>6, <3>4
    <2> QED  BY <2>1, <2>2
  <1>8. s \in Seq(S) /\ Len(s) = n
    <2>1. s = [k \in 1..n |-> s[k]]
      BY <1>7 DEF Ranked, n
    <2> HIDE DEF s
    <2> QED  BY <1>1, <1>7, <2>1
  <1> HIDE DEF s
  <1>9. \A x \in S : s[rank[x]] = x /\ rank[x] \in 1..n
    BY <1>2, <1>4, <1>7
  <1>10. ASSUME NEW i \in 1..n, NEW j \in 1..n
         PROVE  (<<s[i], s[j]>> \in R <=> i < j) /\ (s[i] = s[j] => i = j)
    <2>1. s[i] \in S /\ s[j] \in S /\ rank[s[i]] = i /\ rank[s[j]] = j /\ i \in Nat /\ j \in Nat
      BY <1>7
    <2>2. <<s[i], s[j]>> \in R => i < j
      BY <1>3, <2>1
    <2>3. <<s[j], s[i]>> \in R => j < i
      BY <1>3, <2>1
    <2>4. s[i] = s[j] \/ <<s[i], s[j]>> \in R \/ <<s[j], s[i]>> \in R
      BY <2>1 DEF StrictOrder
    <2>5. s[i] = s[j] => i = j
      BY <2>1
    <2> QED  BY <2>1, <2>2, <2>3, <2>4, <2>5
  <1>11. \A k \in 1..n : Cardinality(Preceding(s[k], S, R)) = k - 1
    BY <1>6, <1>7
  <1> QED  BY <1>1, <1>7, <1>8, <1>9, <1>10, <1>11 DEF n, s

\* One that comes after all of them is the last.
LEMMA RankedAppend ==
    ASSUME NEW S, IsFiniteSet(S), NEW x, x \notin S, NEW R, NEW Q,
           StrictOrder(S \cup {x}, Q), \A y \in S : <<y, x>> \in Q,
           \A y, z \in S : <<y, z>> \in R <=> <<y, z>> \in Q
    PROVE  /\ Ranked(S \cup {x}, Q) = Append(Ranked(S, R), x)
           /\ StrictOrder(S, R)
  <1> DEFINE T == S \cup {x}
             n == Cardinality(S)
             s == Ranked(S, R)
             t == Ranked(T, Q)
  <1>1. StrictOrder(S, R)
    <2> USE DEF StrictOrder
    <2>1. \A y \in S : <<y, y>> \notin R
      OBVIOUS
    <2>2. \A y, z \in S : y = z \/ <<y, z>> \in R \/ <<z, y>> \in R
      OBVIOUS
    <2>3. \A w, y, z \in S : <<w, y>> \in R /\ <<y, z>> \in R => <<w, z>> \in R
      OBVIOUS
    <2> QED  BY <2>1, <2>2, <2>3
  <1>2. IsFiniteSet(T) /\ Cardinality(T) = n + 1 /\ n \in Nat
    BY FS_AddElement, FS_CardinalityType
  <1>3. /\ s \in Seq(S) /\ Len(s) = n
        /\ \A k \in DOMAIN s : Cardinality(Preceding(s[k], S, R)) = k - 1
    BY <1>1, RankedProperties
  <1>4. StrictOrder(T, Q)
    OBVIOUS
  <1>5. \A y \in S : Preceding(y, S, R) = Preceding(y, T, Q)
    <2> SUFFICES ASSUME NEW y \in S
                 PROVE  Preceding(y, S, R) = Preceding(y, T, Q)
      OBVIOUS
    <2>1. <<x, y>> \notin Q
      BY DEF StrictOrder
    <2> QED  BY <2>1 DEF Preceding
  <1>6. Preceding(x, T, Q) = S
    BY DEF StrictOrder, Preceding
  <1> HIDE DEF T, n, s, t
  <1>7. /\ t \in Seq(T) /\ Len(t) = n + 1
        /\ \A k \in DOMAIN t : Cardinality(Preceding(t[k], T, Q)) = k - 1
    BY <1>2, <1>4, RankedProperties DEF t
  <1>8. /\ DOMAIN s = 1..n /\ DOMAIN t = 1..(n + 1)
        /\ \A k \in 1..n : s[k] \in S
        /\ \A k \in 1..(n + 1) : t[k] \in T
    BY <1>2, <1>3, <1>7
  <1>9. \A y, z \in T : Cardinality(Preceding(y, T, Q)) = Cardinality(Preceding(z, T, Q))
                          => y = z
    <2> SUFFICES ASSUME NEW y \in T, NEW z \in T, y # z
                 PROVE  Cardinality(Preceding(y, T, Q)) # Cardinality(Preceding(z, T, Q))
      OBVIOUS
    <2>1. <<y, z>> \in Q \/ <<z, y>> \in Q
      BY <1>4 DEF StrictOrder
    <2>2. /\ Cardinality(Preceding(y, T, Q)) \in Nat
          /\ Cardinality(Preceding(z, T, Q)) \in Nat
      BY <1>2, <1>4, RankBelow
    <2>3. \/ Cardinality(Preceding(y, T, Q)) < Cardinality(Preceding(z, T, Q))
          \/ Cardinality(Preceding(z, T, Q)) < Cardinality(Preceding(y, T, Q))
      BY <1>2, <1>4, <2>1, RankGrows
    <2> QED  BY <2>2, <2>3
  <1>10. ASSUME NEW k \in 1..n
         PROVE  t[k] = s[k]
    <2>1. k \in 1..(n + 1) /\ s[k] \in S /\ s[k] \in T /\ t[k] \in T
      BY <1>2, <1>8 DEF T
    <2>2. Cardinality(Preceding(s[k], T, Q)) = k - 1
      BY <1>3, <1>5, <1>8, <2>1
    <2>3. Cardinality(Preceding(t[k], T, Q)) = k - 1
      BY <1>7, <1>8, <2>1
    <2> QED  BY <1>9, <2>1, <2>2, <2>3
  <1>11. t[n + 1] = x
    <2> DEFINE last == n + 1
    <2>1. last \in 1..(n + 1) /\ last - 1 = n /\ x \in T
      BY <1>2 DEF T
    <2> HIDE DEF last
    <2>2. Cardinality(Preceding(x, T, Q)) = n
      BY <1>6 DEF n
    <2>3. Cardinality(Preceding(t[last], T, Q)) = n /\ t[last] \in T
      BY <1>7, <1>8, <2>1
    <2>4. t[last] = x
      BY <1>9, <2>1, <2>2, <2>3
    <2> QED  BY <2>4 DEF last
  <1>12. t = Append(s, x)
    BY <1>2, <1>3, <1>7, <1>8, <1>10, <1>11
  <1> QED  BY <1>1, <1>12 DEF s, t, T

\* The members of sub are those at some places of the list, in its order: at
\* says where they stand in the list.
Places(at, sub, list, places) ==
    /\ at \in [DOMAIN sub -> places]
    /\ \A i \in DOMAIN sub : sub[i] = list[at[i]]
    /\ \A i, j \in DOMAIN sub : i < j <=> at[i] < at[j]
    /\ \A p \in places : \E i \in DOMAIN sub : at[i] = p

LEMMA SublistProperties ==
    ASSUME NEW U, NEW list \in Seq(U), NEW places \in SUBSET DOMAIN list
    PROVE  /\ Sublist(list, places) \in Seq(U)
           /\ Places(Ascending(places), Sublist(list, places), list, places)
  <1> DEFINE R == {p \in places \X places : p[1] < p[2]}
             at == Ascending(places)
             sub == Sublist(list, places)
  <1>1. places \subseteq 1..Len(list) /\ Len(list) \in Nat /\ DOMAIN list = 1..Len(list)
    OBVIOUS
  <1>2. IsFiniteSet(places)
    <2>1. IsFiniteSet(1..Len(list))
      BY <1>1, FS_Interval
    <2> QED  BY <1>1, <2>1, FS_Subset
  <1>3. \A i, j \in places : <<i, j>> \in R <=> i < j
    OBVIOUS
  <1>4. \A i \in places : list[i] \in U
    OBVIOUS
  <1>5. sub = [k \in 1..Cardinality(places) |-> list[at[k]]] /\ at = Ranked(places, R)
    BY DEF Sublist, Ascending
  <1> HIDE DEF R, at, sub
  <1>6. StrictOrder(places, R)
    <2>1. \A i \in places : i \in Nat
      BY <1>1
    <2> QED  BY <1>3, <2>1 DEF StrictOrder
  <1>7. /\ at \in Seq(places)
        /\ Len(at) = Cardinality(places) /\ Cardinality(places) \in Nat
        /\ \A x \in places : \E k \in DOMAIN at : at[k] = x
        /\ \A i, j \in DOMAIN at : <<at[i], at[j]>> \in R <=> i < j
    <2> DEFINE s == Ranked(places, R)
    <2>1. s \in Seq(places) /\ Len(s) = Cardinality(places) /\ Cardinality(places) \in Nat
      BY <1>2, <1>6, RankedProperties
    <2>2. \A x \in places : \E k \in DOMAIN s : s[k] = x
      BY <1>2, <1>6, RankedProperties
    <2>3. \A i, j \in DOMAIN s : <<s[i], s[j]>> \in R <=> i < j
      BY <1>2, <1>6, RankedProperties
    <2> HIDE DEF s
    <2>4. at = s
      BY <1>5 DEF s
    <2> QED  BY <2>1, <2>2, <2>3, <2>4
  <1>8. DOMAIN at = 1..Cardinality(places) /\ DOMAIN sub = DOMAIN at
    BY <1>5, <1>7
  <1>9. \A i \in DOMAIN at : at[i] \in places
    BY <1>7
  <1>10. \A i \in DOMAIN sub : sub[i] = list[at[i]] /\ list[at[i]] \in U
    BY <1>4, <1>5, <1>8, <1>9
  <1>11. sub \in Seq(U)
    <2> DEFINE n == Cardinality(places)
    <2>1. n \in Nat /\ sub = [k \in 1..n |-> sub[k]]
      BY <1>5, <1>7
    <2>2. \A k \in 1..n : sub[k] \in U
      BY <1>8, <1>10
    <2> HIDE DEF n
    <2> QED  BY <2>1, <2>2
  <1>12. \A i, j \in DOMAIN sub : i < j <=> at[i] < at[j]
    BY <1>3, <1>7, <1>8, <1>9
  <1>13. at \in [DOMAIN sub -> places]
    <2>1. at = [k \in DOMAIN sub |-> at[k]]
      BY <1>7, <1>8
    <2> QED  BY <1>8, <1>9, <2>1
  <1>14. \A p \in places : \E i \in DOMAIN sub : at[i] = p
    BY <1>7, <1>8
  <1>15. Places(at, sub, list, places)
    BY <1>10, <1>12, <1>13, <1>14 DEF Places
  <1> QED  BY <1>11, <1>15 DEF sub, at
-----------------------------------------------------------------------------
(***************************************************************************)
(* Sums.                                                                   *)
(***************************************************************************)
\* The total of a list is the last of its partial sums.
LEMMA PartialSums ==
    ASSUME NEW list \in Seq(Int)
    PROVE  \E sum \in [0..Len(list) -> Int] :
              /\ sum[0] = 0
              /\ \A k \in 1..Len(list) : sum[k] = sum[k - 1] + list[k]
              /\ Total(list) = sum[Len(list)]
  <1> DEFINE n == Len(list)
             IsSum(f) == f = [k \in 0..n |-> IF k = 0 THEN 0 ELSE f[k - 1] + list[k]]
             g == [p \in (1..n) \X Int |-> p[2] + list[p[1]]]
             sum == CHOOSE f : IsSum(f)
  <1>1. n \in Nat /\ g \in [(1..n) \X Int -> Int]
    OBVIOUS
  <1>2. PICK f \in [0..n -> Int] : Iterates(f, n, 0, g)
    <2>1. 0 \in Int
      OBVIOUS
    <2> HIDE DEF n, g, IsSum, sum
    <2> QED  BY <1>1, <2>1, Recursion
  <1>3. \A k \in 1..n : f[k] = f[k - 1] + list[k]
    <2> SUFFICES ASSUME NEW k \in 1..n
                 PROVE  f[k] = f[k - 1] + list[k]
      OBVIOUS
    <2>1. k - 1 \in 0..n
      BY <1>1
    <2>2. f[k - 1] \in Int
      <3> HIDE DEF n
      <3> QED  BY <2>1
    <2>3. <<k, f[k - 1]>> \in (1..n) \X Int
      BY <2>2
    <2> QED  BY <1>2, <2>3 DEF Iterates
  <1>4. IsSum(f)
    BY <1>1, <1>2, <1>3 DEF Iterates
  <1>5. IsSum(sum)
    BY <1>4
  <1>6. Total(list) = sum[n]
    BY SMTT(30) DEF Total
  <1> HIDE DEF sum
  <1>7. /\ DOMAIN sum = 0..n /\ sum[0] = 0
        /\ \A k \in 1..n : sum[k] = sum[k - 1] + list[k]
    BY <1>1, <1>5, SMTT(30)
  <1>8. \A k \in 0..n : sum[k] \in Int
    <2> DEFINE G == {k \in 0..n : sum[k] \in Int}
    <2>1. 0 \in G
      BY <1>1, <1>7
    <2>2. \A k \in 1..n : k - 1 \in G => k \in G
      BY <1>1, <1>7
    <2>3. 0..n \subseteq G
      <3> HIDE DEF G, n
      <3> QED  BY <1>1, <2>1, <2>2, UpTo
    <2> QED  BY <2>3
  <1>9. sum \in [0..n -> Int]
    <2>1. sum = [k \in 0..n |-> sum[k]]
      <3> DEFINE next(k) == IF k = 0 THEN 0 ELSE sum[k - 1] + list[k]
      <3>1. sum = [k \in 0..n |-> next(k)]
        BY <1>5
      <3> HIDE DEF next, n
      <3> QED  BY <3>1
    <2> HIDE DEF IsSum, n
    <2> QED  BY <1>8, <2>1
  <1> QED  BY <1>6, <1>7, <1>9

LEMMA TotalType ==
    ASSUME NEW list \in Seq(Int)
    PROVE  Total(list) \in Int
  <1>1. PICK sum \in [0..Len(list) -> Int] : Total(list) = sum[Len(list)]
    BY PartialSums
  <1> QED  BY <1>1

LEMMA TotalOfNone == Total(<<>>) = 0
  <1>1. <<>> \in Seq(Int) /\ Len(<<>>) = 0
    OBVIOUS
  <1> QED  BY <1>1, PartialSums

LEMMA TotalOfMore ==
    ASSUME NEW list \in Seq(Int), NEW x \in Int
    PROVE  Total(Append(list, x)) = Total(list) + x
  <1> DEFINE n == Len(list)
             more == Append(list, x)
  <1>1. /\ n \in Nat /\ more \in Seq(Int) /\ Len(more) = n + 1 /\ more[n + 1] = x
        /\ \A k \in 1..n : more[k] = list[k]
    OBVIOUS
  <1>2. PICK f \in [0..n -> Int] :
          /\ f[0] = 0
          /\ \A k \in 1..n : f[k] = f[k - 1] + list[k]
          /\ Total(list) = f[n]
    BY PartialSums
  <1> HIDE DEF more
  <1>3. PICK h \in [0..(n + 1) -> Int] :
          /\ h[0] = 0
          /\ \A k \in 1..(n + 1) : h[k] = h[k - 1] + more[k]
          /\ Total(more) = h[n + 1]
    BY <1>1, PartialSums
  <1> HIDE DEF n
  <1>4. f[n] = h[n]
    <2> DEFINE G == {k \in 0..n : f[k] = h[k]}
    <2>1. 0 \in G
      BY <1>1, <1>2, <1>3
    <2>2. ASSUME NEW k \in 1..n, k - 1 \in G
          PROVE  k \in G
      <3>1. k \in 1..(n + 1) /\ k \in 0..n
        BY <1>1
      <3>2. h[k] = h[k - 1] + list[k] /\ f[k] = f[k - 1] + list[k]
        BY <1>1, <1>2, <1>3, <3>1
      <3>3. f[k - 1] = h[k - 1]
        BY <2>2
      <3> QED  BY <3>1, <3>2, <3>3
    <2>3. 0..n \subseteq G
      <3> HIDE DEF G
      <3> QED  BY <1>1, <2>1, <2>2, UpTo
    <2> QED  BY <1>1, <2>3
  <1>5. h[n + 1] = h[n] + x
    <2>1. n + 1 \in 1..(n + 1) /\ (n + 1) - 1 = n
      BY <1>1
    <2>2. h[n + 1] = h[(n + 1) - 1] + more[n + 1]
      BY <1>3, <2>1
    <2> QED  BY <1>1, <2>1, <2>2
  <1> QED  BY <1>2, <1>3, <1>4, <1>5 DEF more
-----------------------------------------------------------------------------
(***************************************************************************)
(* Orders: their amounts and their prices.                                 *)
(***************************************************************************)
LEMMA Quotient ==
    ASSUME NEW n \in Nat, NEW d \in Nat \ {0}
    PROVE  /\ n \div d \in Nat
           /\ (n \div d) * d <= n
           /\ n < (n \div d + 1) * d
  OBVIOUS

LEMMA QuotientMonotone ==
    ASSUME NEW m \in Nat, NEW n \in Nat, NEW d \in Nat \ {0}, m <= n
    PROVE  m \div d <= n \div d
  BY Quotient

LEMMA QuotientShift ==
    ASSUME NEW n \in Nat, NEW d \in Nat \ {0}, NEW k \in Nat
    PROVE  (n + k * d) \div d = n \div d + k
  BY Quotient

LEMMA OrderAmounts ==
    ASSUME NEW o \in Orders, ValidBasic(o)
    PROVE  /\ MaxClaim(o) \in Nat \ {0} /\ Collateral(o) \in Nat \ {0}
           /\ Collateral(o) <= MaxClaim(o)
  <1>1. /\ Terms[o].makerAmount \in Nat /\ Terms[o].takerAmount \in Nat
    BY TermsAssumption DEF OrderTerms
  <1> QED  BY <1>1 DEF ValidBasic, MaxClaim, Collateral

LEMMA ClaimType ==
    ASSUME NEW o \in Orders
    PROVE  MaxClaim(o) \in Nat
  BY TermsAssumption DEF OrderTerms, MaxClaim

LEMMA PriceType ==
    ASSUME NEW o \in Orders, ValidBasic(o)
    PROVE  Price(o) \in Nat
  <1>1. Collateral(o) * Wad \in Nat /\ MaxClaim(o) \in Nat \ {0}
    BY OrderAmounts, WadAssumption
  <1> HIDE DEF MaxClaim, Collateral
  <1> QED  BY <1>1, Quotient DEF Price

\* A fill never costs more than one unit of collateral per claim token.
LEMMA DeltaBounded ==
    ASSUME NEW o \in Orders, ValidBasic(o), NEW f \in Nat, NEW amount \in Nat
    PROVE  CollateralDelta(o, f, amount) \in 0..amount
  <1> DEFINE M == MaxClaim(o)
             C == Collateral(o)
  <1>1. M \in Nat \ {0} /\ C \in Nat \ {0} /\ C <= M
    BY OrderAmounts
  <1> HIDE DEF M, C
  <1>2. /\ f * C \in Nat /\ (f + amount) * C \in Nat /\ f * C + amount * M \in Nat
        /\ f * C <= (f + amount) * C
        /\ (f + amount) * C <= f * C + amount * M
    <2>1. /\ f * C \in Nat /\ amount * C \in Nat /\ amount * M \in Nat
          /\ amount * C <= amount * M
      BY <1>1
    <2>2. (f + amount) * C = f * C + amount * C
      BY <1>1
    <2> QED  BY <2>1, <2>2
  <1>3. /\ (f * C) \div M <= ((f + amount) * C) \div M
        /\ ((f + amount) * C) \div M <= (f * C + amount * M) \div M
    BY <1>1, <1>2, QuotientMonotone
  <1>4. (f * C + amount * M) \div M = (f * C) \div M + amount
    BY <1>1, <1>2, QuotientShift
  <1>5. (f * C) \div M \in Nat /\ ((f + amount) * C) \div M \in Nat
    BY <1>1, <1>2, Quotient
  <1>6. CollateralDelta(o, f, amount) = ((f + amount) * C) \div M - (f * C) \div M
    BY DEF CollateralDelta, CumulativeCollateral, M, C
  <1> QED  BY <1>3, <1>4, <1>5, <1>6

\* The whole order costs its collateral, and less than the whole costs less:
\* the last fill always moves something.
LEMMA RemainderPriced ==
    ASSUME NEW o \in Orders, ValidBasic(o), NEW f \in Nat, f < MaxClaim(o)
    PROVE  CanFill(o, f, RemainingClaim(o, f))
  <1> DEFINE M == MaxClaim(o)
             C == Collateral(o)
             q == (f * C) \div M
  <1>1. M \in Nat \ {0} /\ C \in Nat \ {0}
    BY OrderAmounts
  <1>2. f * C \in Nat /\ M * C \in Nat /\ f * C < M * C
    BY <1>1
  <1>3. q \in Nat /\ q * M <= f * C
    BY <1>1, <1>2, Quotient
  <1>4. (M * C) \div M = C
    BY <1>1
  <1>5. q < C
    <2>1. q * M < C * M
      BY <1>1, <1>2, <1>3
    <2> QED  BY <1>1, <1>3, <2>1
  <1>6. CollateralDelta(o, f, M - f) = (M * C) \div M - q
    <2>1. f + (M - f) = M
      BY <1>1
    <2> QED  BY <2>1 DEF CollateralDelta, CumulativeCollateral
  <1>7. CollateralDelta(o, f, M - f) > 0
    BY <1>1, <1>3, <1>4, <1>5, <1>6
  <1>8. FitsOrder(o, f, M - f)
    BY <1>1 DEF FitsOrder
  <1> QED  BY <1>7, <1>8 DEF CanFill, RemainingClaim

LEMMA DeltaType ==
    ASSUME NEW o \in Orders, ValidBasic(o), NEW f \in Nat, NEW amount \in Nat
    PROVE  CollateralDelta(o, f, amount) \in Int
  BY DeltaBounded
-----------------------------------------------------------------------------
(***************************************************************************)
(* The makers come out of the levels best price first and, at one level,   *)
(* from the front; none is missing and none comes twice.                   *)
(***************************************************************************)
\* Every level holds orders of the book, each once, and only its own.
SoundLevels(levels, book) ==
    /\ IsFiniteSet(DOMAIN levels)
    /\ \A l \in DOMAIN levels :
          /\ levels[l] \in Seq(book)
          /\ \A i \in DOMAIN levels[l] : LevelOf(levels[l][i]) = l
          /\ \A i, j \in DOMAIN levels[l] : levels[l][i] = levels[l][j] => i = j

\* The order at a place of the levels.
OrderAt(levels, place) == levels[place[1]][place[2]]

\* The k-th maker stands at place at[k] of the levels.
Walk(at, makers, levels, market, claim, side) ==
    /\ at \in [DOMAIN makers -> PlacesAt(levels, market, claim, side)]
    /\ \A i \in DOMAIN makers : makers[i] = OrderAt(levels, at[i])
    /\ \A i, j \in DOMAIN makers :
          i < j <=> \/ BetterPrice(side, at[i][1].price, at[j][1].price)
                    \/ at[i][1] = at[j][1] /\ at[i][2] < at[j][2]
    /\ \A i, j \in DOMAIN makers : at[i] = at[j] => i = j
    /\ \A p \in PlacesAt(levels, market, claim, side) : \E i \in DOMAIN makers : at[i] = p

\* What stands at a place belongs there.
LEMMA PlaceProperties ==
    ASSUME NEW levels, NEW book \in SUBSET Orders, SoundLevels(levels, book),
           \A o \in book : ValidBasic(o),
           NEW market, NEW claim, NEW side,
           NEW p \in PlacesAt(levels, market, claim, side)
    PROVE  /\ p[1] \in DOMAIN levels /\ p[2] \in DOMAIN levels[p[1]]
           /\ p[2] \in Nat /\ p = <<p[1], p[2]>>
           /\ OrderAt(levels, p) \in book
           /\ p[1] = LevelOf(OrderAt(levels, p))
           /\ p[1].price = Price(OrderAt(levels, p)) /\ p[1].price \in Nat
           /\ Terms[OrderAt(levels, p)].market = market
           /\ Terms[OrderAt(levels, p)].claim = claim
           /\ Terms[OrderAt(levels, p)].side = side
  <1>1. PICK l \in DOMAIN levels : /\ p \in {l} \X DOMAIN levels[l]
                                   /\ l.market = market /\ l.claim = claim /\ l.side = side
    BY DEF PlacesAt
  <1>2. p[1] = l /\ p[2] \in DOMAIN levels[l] /\ p = <<p[1], p[2]>>
    BY <1>1
  <1> DEFINE o == OrderAt(levels, p)
  <1>3. levels[l] \in Seq(book) /\ LevelOf(levels[l][p[2]]) = l
    BY <1>2 DEF SoundLevels
  <1>4. o = levels[l][p[2]] /\ o \in book /\ p[2] \in Nat
    BY <1>2, <1>3 DEF OrderAt
  <1> HIDE DEF o
  <1>5. l = LevelOf(o)
    BY <1>3, <1>4
  <1>6. /\ l.market = Terms[o].market /\ l.claim = Terms[o].claim
        /\ l.side = Terms[o].side /\ l.price = Price(o)
    BY <1>5 DEF LevelOf
  <1>7. Price(o) \in Nat
    BY <1>4, PriceType
  <1> QED  BY <1>1, <1>2, <1>4, <1>5, <1>6, <1>7 DEF o

\* Orders of one side of the book at one price are at one level.
LEMMA OneLevel ==
    ASSUME NEW o \in Orders, NEW p \in Orders, Terms[o].market = Terms[p].market,
           Terms[o].claim = Terms[p].claim, Terms[o].side = Terms[p].side,
           Price(o) = Price(p)
    PROVE  LevelOf(o) = LevelOf(p)
  BY DEF LevelOf

\* The image of a finite set is finite.
LEMMA FiniteImage ==
    ASSUME NEW S, IsFiniteSet(S), NEW T, NEW f \in [S -> T],
           \A y \in T : \E x \in S : f[x] = y
    PROVE  IsFiniteSet(T)
  <1>1. f \in Surjection(S, T)
    BY DEF Surjection
  <1> QED  BY <1>1, FS_Surjection

LEMMA PlacesFinite ==
    ASSUME NEW levels, NEW book, SoundLevels(levels, book), NEW market, NEW claim, NEW side
    PROVE  IsFiniteSet(PlacesAt(levels, market, claim, side))
  <1> DEFINE listed == {k \in DOMAIN levels :
                          k.market = market /\ k.claim = claim /\ k.side = side}
             pairs == {{l} \X DOMAIN levels[l] : l \in listed}
             f == [l \in listed |-> {l} \X DOMAIN levels[l]]
  <1>1. IsFiniteSet(listed)
    BY FS_Subset DEF SoundLevels
  <1>2. f \in [listed -> pairs] /\ \A y \in pairs : \E x \in listed : f[x] = y
    OBVIOUS
  <1>3. ASSUME NEW T \in pairs
        PROVE  IsFiniteSet(T)
    <2>1. PICK l \in listed : T = {l} \X DOMAIN levels[l]
      OBVIOUS
    <2>2. levels[l] \in Seq(book)
      BY DEF SoundLevels
    <2>3. DOMAIN levels[l] = 1..Len(levels[l]) /\ Len(levels[l]) \in Nat
      BY <2>2
    <2> HIDE DEF listed, pairs, f
    <2>4. IsFiniteSet(DOMAIN levels[l])
      BY <2>3, FS_Interval
    <2>5. IsFiniteSet({l})
      BY FS_Singleton
    <2> QED  BY <2>1, <2>4, <2>5, FS_Product
  <1>4. PlacesAt(levels, market, claim, side) = UNION pairs
    BY DEF PlacesAt
  <1> HIDE DEF listed, pairs, f
  <1>5. IsFiniteSet(pairs)
    BY <1>1, <1>2, FiniteImage
  <1> QED  BY <1>3, <1>4, <1>5, FS_UNION

LEMMA PriorityWalks ==
    ASSUME NEW levels, NEW book \in SUBSET Orders, SoundLevels(levels, book),
           \A o \in book : ValidBasic(o),
           NEW market, NEW claim, NEW side
    PROVE  LET makers == Priority(levels, market, claim, side)
           IN  /\ makers \in Seq(book)
               /\ \E at : Walk(at, makers, levels, market, claim, side)
  <1> DEFINE places == PlacesAt(levels, market, claim, side)
             Before(p, q) == \/ BetterPrice(side, p[1].price, q[1].price)
                             \/ p[1] = q[1] /\ p[2] < q[2]
             R == {p \in places \X places : Before(p[1], p[2])}
             at == Ranked(places, R)
             makers == Priority(levels, market, claim, side)
  <1>1. IsFiniteSet(places)
    BY PlacesFinite
  <1>2. \A p, q \in places : <<p, q>> \in R <=> Before(p, q)
    OBVIOUS
  <1>3. \A p \in places : /\ p[2] \in Nat /\ p = <<p[1], p[2]>>
                          /\ OrderAt(levels, p) \in book
                          /\ p[1] = LevelOf(OrderAt(levels, p))
                          /\ p[1].price = Price(OrderAt(levels, p)) /\ p[1].price \in Nat
                          /\ Terms[OrderAt(levels, p)].market = market
                          /\ Terms[OrderAt(levels, p)].claim = claim
                          /\ Terms[OrderAt(levels, p)].side = side
    <2> HIDE DEF places
    <2> SUFFICES ASSUME NEW p \in places
                 PROVE  /\ p[2] \in Nat /\ p = <<p[1], p[2]>>
                        /\ OrderAt(levels, p) \in book
                        /\ p[1] = LevelOf(OrderAt(levels, p))
                        /\ p[1].price = Price(OrderAt(levels, p)) /\ p[1].price \in Nat
                        /\ Terms[OrderAt(levels, p)].market = market
                        /\ Terms[OrderAt(levels, p)].claim = claim
                        /\ Terms[OrderAt(levels, p)].side = side
      OBVIOUS
    <2> QED  BY PlaceProperties DEF places
  <1>4. makers = [k \in 1..Cardinality(places) |-> OrderAt(levels, at[k])]
    BY DEF Priority, OrderAt
  <1> HIDE DEF places, R, at, makers
  <1>5. \A p, q \in places : p[1].price = q[1].price => p[1] = q[1]
    BY <1>3, OneLevel
  <1>6. StrictOrder(places, R)
    <2>1. \A p \in places : ~Before(p, p)
      BY <1>3 DEF BetterPrice
    <2>2. \A p, q \in places : p = q \/ Before(p, q) \/ Before(q, p)
      <3> SUFFICES ASSUME NEW p \in places, NEW q \in places, ~Before(p, q), ~Before(q, p)
                   PROVE  p = q
        OBVIOUS
      <3>1. p[1].price \in Nat /\ q[1].price \in Nat /\ p[2] \in Nat /\ q[2] \in Nat
        BY <1>3
      <3>2. p[1].price = q[1].price
        BY <3>1 DEF BetterPrice
      <3>3. p[1] = q[1]
        BY <1>5, <3>2
      <3>4. p[2] = q[2]
        BY <3>1, <3>3
      <3>5. p = <<p[1], p[2]>> /\ q = <<q[1], q[2]>>
        BY <1>3
      <3> QED  BY <3>3, <3>4, <3>5
    <2>3. \A p, q, r \in places : Before(p, q) /\ Before(q, r) => Before(p, r)
      <3> SUFFICES ASSUME NEW p \in places, NEW q \in places, NEW r \in places,
                          Before(p, q), Before(q, r)
                   PROVE  Before(p, r)
        OBVIOUS
      <3>1. /\ p[1].price \in Nat /\ q[1].price \in Nat /\ r[1].price \in Nat
            /\ p[2] \in Nat /\ q[2] \in Nat /\ r[2] \in Nat
        BY <1>3
      <3> QED  BY <3>1 DEF BetterPrice
    <2> HIDE DEF Before
    <2> QED  BY <1>2, <2>1, <2>2, <2>3 DEF StrictOrder
  <1>7. /\ at \in Seq(places) /\ Len(at) = Cardinality(places) /\ Cardinality(places) \in Nat
        /\ \A p \in places : \E k \in DOMAIN at : at[k] = p
        /\ \A i, j \in DOMAIN at : /\ <<at[i], at[j]>> \in R <=> i < j
                                   /\ at[i] = at[j] => i = j
    <2> DEFINE s == Ranked(places, R)
    <2>1. s \in Seq(places) /\ Len(s) = Cardinality(places) /\ Cardinality(places) \in Nat
      BY <1>1, <1>6, RankedProperties
    <2>2. \A p \in places : \E k \in DOMAIN s : s[k] = p
      BY <1>1, <1>6, RankedProperties
    <2>3. \A i, j \in DOMAIN s : /\ <<s[i], s[j]>> \in R <=> i < j
                                 /\ s[i] = s[j] => i = j
      BY <1>1, <1>6, RankedProperties
    <2> HIDE DEF s
    <2>4. at = s
      BY DEF at, s
    <2> QED  BY <2>1, <2>2, <2>3, <2>4
  <1>8. DOMAIN at = 1..Cardinality(places) /\ DOMAIN makers = DOMAIN at
    BY <1>4, <1>7
  <1>9. \A i \in DOMAIN makers : at[i] \in places /\ makers[i] = OrderAt(levels, at[i])
    BY <1>4, <1>7, <1>8
  <1>10. makers \in Seq(book)
    <2> DEFINE n == Cardinality(places)
    <2>1. n \in Nat /\ makers = [k \in 1..n |-> makers[k]]
      BY <1>4, <1>7
    <2>2. \A k \in 1..n : makers[k] \in book
      BY <1>3, <1>8, <1>9
    <2> HIDE DEF n
    <2> QED  BY <2>1, <2>2
  <1>11. at \in [DOMAIN makers -> places]
    <2>1. at = [k \in DOMAIN makers |-> at[k]]
      BY <1>7, <1>8
    <2> QED  BY <1>9, <2>1
  <1>12. \A i, j \in DOMAIN makers : (i < j <=> Before(at[i], at[j])) /\ (at[i] = at[j] => i = j)
    BY <1>2, <1>7, <1>8, <1>9
  <1>13. \A p \in places : \E i \in DOMAIN makers : at[i] = p
    BY <1>7, <1>8
  <1>14. Walk(at, makers, levels, market, claim, side)
    BY <1>9, <1>11, <1>12, <1>13 DEF Walk, places
  <1> QED  BY <1>10, <1>14 DEF makers

\* So the makers are orders of the book and of the side asked for, each once.
LEMMA MakersProperties ==
    ASSUME NEW levels, NEW book \in SUBSET Orders, SoundLevels(levels, book),
           \A o \in book : ValidBasic(o),
           NEW market, NEW claim, NEW side
    PROVE  LET makers == Priority(levels, market, claim, side)
           IN  /\ makers \in Seq(Orders)
               /\ \A i \in DOMAIN makers :
                     /\ makers[i] \in book
                     /\ Terms[makers[i]].market = market
                     /\ Terms[makers[i]].claim = claim
                     /\ Terms[makers[i]].side = side
               /\ \A i, j \in DOMAIN makers : makers[i] = makers[j] => i = j
  <1> DEFINE makers == Priority(levels, market, claim, side)
  <1>1. makers \in Seq(book) /\ \E at : Walk(at, makers, levels, market, claim, side)
    BY PriorityWalks
  <1>2. PICK at : Walk(at, makers, levels, market, claim, side)
    BY <1>1
  <1> HIDE DEF makers
  <1>3. \A i \in DOMAIN makers : /\ makers[i] = OrderAt(levels, at[i])
                                 /\ at[i] \in PlacesAt(levels, market, claim, side)
    BY <1>2 DEF Walk
  <1>4. \A i \in DOMAIN makers : /\ at[i][1] \in DOMAIN levels
                                 /\ at[i][2] \in DOMAIN levels[at[i][1]]
                                 /\ at[i] = <<at[i][1], at[i][2]>>
                                 /\ at[i][1] = LevelOf(makers[i])
                                 /\ Terms[makers[i]].market = market
                                 /\ Terms[makers[i]].claim = claim
                                 /\ Terms[makers[i]].side = side
    BY <1>3, PlaceProperties
  <1>5. ASSUME NEW i \in DOMAIN makers, NEW j \in DOMAIN makers, makers[i] = makers[j]
        PROVE  i = j
    <2>1. at[i][1] = at[j][1]
      BY <1>4, <1>5
    <2>2. levels[at[i][1]][at[i][2]] = levels[at[i][1]][at[j][2]]
      BY <1>3, <1>5, <2>1 DEF OrderAt
    <2>3. at[i][2] = at[j][2]
      BY <1>4, <2>1, <2>2 DEF SoundLevels
    <2>4. at[i] = at[j]
      BY <1>4, <2>1, <2>3
    <2> QED  BY <1>2, <2>4 DEF Walk
  <1>6. makers \in Seq(Orders) /\ \A i \in DOMAIN makers : makers[i] \in book
    BY <1>1
  <1> QED  BY <1>4, <1>5, <1>6 DEF makers

(***************************************************************************)
(* Levels that were filled from a list.                                    *)
(***************************************************************************)
LEMMA LevelsOfSound ==
    ASSUME NEW q \in Seq(Orders), \A i, j \in DOMAIN q : q[i] = q[j] => i = j,
           NEW book, book = {q[i] : i \in DOMAIN q}
    PROVE  /\ SoundLevels(LevelsOf(q), book)
           /\ DOMAIN LevelsOf(q) = {LevelOf(q[i]) : i \in DOMAIN q}
           /\ \A l \in DOMAIN LevelsOf(q) :
                 Places(Ascending({i \in DOMAIN q : LevelOf(q[i]) = l}), LevelsOf(q)[l], q,
                        {i \in DOMAIN q : LevelOf(q[i]) = l})
  <1> DEFINE levels == LevelsOf(q)
             At(l) == {i \in DOMAIN q : LevelOf(q[i]) = l}
             f == [i \in DOMAIN q |-> LevelOf(q[i])]
  <1>1. q \in Seq(book) /\ DOMAIN q = 1..Len(q) /\ Len(q) \in Nat
    OBVIOUS
  <1>2. /\ DOMAIN levels = {LevelOf(q[i]) : i \in DOMAIN q}
        /\ \A l \in DOMAIN levels : levels[l] = Sublist(q, At(l))
    BY DEF LevelsOf
  <1>3. IsFiniteSet(DOMAIN levels)
    <2>1. f \in [DOMAIN q -> DOMAIN levels] /\ \A l \in DOMAIN levels : \E i \in DOMAIN q : f[i] = l
      BY <1>2
    <2>2. IsFiniteSet(DOMAIN q)
      BY <1>1, FS_Interval
    <2> HIDE DEF f, levels
    <2> QED  BY <2>1, <2>2, FiniteImage
  <1> HIDE DEF levels
  <1>4. ASSUME NEW l \in DOMAIN levels
        PROVE  /\ levels[l] \in Seq(book)
               /\ Places(Ascending(At(l)), levels[l], q, At(l))
               /\ \A i \in DOMAIN levels[l] : LevelOf(levels[l][i]) = l
               /\ \A i, j \in DOMAIN levels[l] : levels[l][i] = levels[l][j] => i = j
    <2> DEFINE at == Ascending(At(l))
    <2>1. At(l) \in SUBSET DOMAIN q /\ \A i \in At(l) : LevelOf(q[i]) = l /\ i \in Nat
      BY <1>1
    <2> HIDE DEF At
    <2>2. levels[l] \in Seq(book) /\ Places(at, levels[l], q, At(l))
      BY <1>1, <1>2, <2>1, SublistProperties
    <2> HIDE DEF at
    <2>3. \A i \in DOMAIN levels[l] : at[i] \in At(l) /\ levels[l][i] = q[at[i]]
      BY <2>2 DEF Places
    <2>4. \A i \in DOMAIN levels[l] : LevelOf(levels[l][i]) = l
      BY <2>1, <2>3
    <2>5. ASSUME NEW i \in DOMAIN levels[l], NEW j \in DOMAIN levels[l],
                 levels[l][i] = levels[l][j]
          PROVE  i = j
      <3>1. at[i] = at[j] /\ at[i] \in Nat
        BY <2>1, <2>3, <2>5
      <3>2. ~(i < j) /\ ~(j < i)
        BY <2>2, <3>1 DEF Places
      <3>3. i \in Nat /\ j \in Nat
        BY <2>2
      <3> QED  BY <3>2, <3>3
    <2> QED  BY <2>2, <2>4, <2>5 DEF at
  <1>5. SoundLevels(levels, book)
    BY <1>3, <1>4 DEF SoundLevels
  <1> QED  BY <1>2, <1>4, <1>5 DEF levels

\* The k-th maker stands at place at[k] of the list.
PlacesOf(makers, at, q, market, claim, side) ==
    /\ \A i \in DOMAIN makers :
          /\ makers[i] = q[at[i]]
          /\ Terms[makers[i]].market = market
          /\ Terms[makers[i]].claim = claim
          /\ Terms[makers[i]].side = side
    /\ \A i, j \in DOMAIN makers :
          i < j <=> \/ BetterPrice(side, Price(q[at[i]]), Price(q[at[j]]))
                    \/ Price(q[at[i]]) = Price(q[at[j]]) /\ at[i] < at[j]
    /\ \A i, j \in DOMAIN makers : at[i] = at[j] => i = j
    /\ \A p \in DOMAIN q :
          /\ Terms[q[p]].market = market
          /\ Terms[q[p]].claim = claim
          /\ Terms[q[p]].side = side
          => \E i \in DOMAIN makers : at[i] = p

\* The makers of levels filled from a list come best price first and, at one
\* price, in the order of the list.
LEMMA PriorityProperties ==
    ASSUME NEW q \in Seq(Orders), \A i \in DOMAIN q : ValidBasic(q[i]),
           \A i, j \in DOMAIN q : q[i] = q[j] => i = j,
           NEW market, NEW claim, NEW side
    PROVE  LET makers == Priority(LevelsOf(q), market, claim, side)
           IN  /\ makers \in Seq(Orders)
               /\ \E at \in [DOMAIN makers -> DOMAIN q] :
                     PlacesOf(makers, at, q, market, claim, side)
  <1> DEFINE levels == LevelsOf(q)
             book == {q[i] : i \in DOMAIN q}
             At(l) == {i \in DOMAIN q : LevelOf(q[i]) = l}
             makers == Priority(levels, market, claim, side)
  <1>1. book \in SUBSET Orders /\ \A o \in book : o \in Orders /\ ValidBasic(o)
    OBVIOUS
  <1>2. /\ SoundLevels(levels, book)
        /\ \A i \in DOMAIN q : LevelOf(q[i]) \in DOMAIN levels
        /\ \A l \in DOMAIN levels : Places(Ascending(At(l)), levels[l], q, At(l))
    <2>1. book = {q[i] : i \in DOMAIN q}
      OBVIOUS
    <2> HIDE DEF book
    <2>2. /\ SoundLevels(levels, book)
          /\ DOMAIN levels = {LevelOf(q[i]) : i \in DOMAIN q}
          /\ \A l \in DOMAIN levels : Places(Ascending(At(l)), levels[l], q, At(l))
      BY <2>1, LevelsOfSound
    <2> HIDE DEF levels
    <2> QED  BY <2>2
  <1>3. \A l : At(l) \in SUBSET DOMAIN q /\ \A i \in At(l) : LevelOf(q[i]) = l /\ i \in Nat
    OBVIOUS
  <1>4. \A i \in DOMAIN q : i \in At(LevelOf(q[i]))
    OBVIOUS
  <1> HIDE DEF book, levels, At
  <1>5. makers \in Seq(book) /\ \E at : Walk(at, makers, levels, market, claim, side)
    BY <1>1, <1>2, PriorityWalks
  <1>6. PICK walk : Walk(walk, makers, levels, market, claim, side)
    BY <1>5
  <1> HIDE DEF makers
  <1> DEFINE l(k) == walk[k][1]
             i(k) == walk[k][2]
             at == [k \in DOMAIN makers |-> Ascending(At(l(k)))[i(k)]]
  <1>7. ASSUME NEW k \in DOMAIN makers
        PROVE  /\ l(k) \in DOMAIN levels /\ i(k) \in DOMAIN levels[l(k)] /\ i(k) \in Nat
               /\ walk[k] = <<l(k), i(k)>>
               /\ makers[k] = levels[l(k)][i(k)] /\ makers[k] \in Orders
               /\ l(k) = LevelOf(makers[k])
               /\ l(k).price = Price(makers[k]) /\ Price(makers[k]) \in Nat
               /\ Terms[makers[k]].market = market
               /\ Terms[makers[k]].claim = claim
               /\ Terms[makers[k]].side = side
    <2>1. walk[k] \in PlacesAt(levels, market, claim, side) /\ makers[k] = OrderAt(levels, walk[k])
      BY <1>6 DEF Walk
    <2> QED  BY <1>1, <1>2, <2>1, PlaceProperties DEF OrderAt
  <1>8. ASSUME NEW k \in DOMAIN makers
        PROVE  at[k] \in At(l(k)) /\ at[k] \in DOMAIN q /\ at[k] \in Nat /\ makers[k] = q[at[k]]
    <2>1. Places(Ascending(At(l(k))), levels[l(k)], q, At(l(k)))
      BY <1>2, <1>7
    <2>2. at[k] = Ascending(At(l(k)))[i(k)]
      OBVIOUS
    <2> HIDE DEF l, i, at
    <2>3. at[k] \in At(l(k)) /\ levels[l(k)][i(k)] = q[at[k]]
      BY <1>7, <2>1, <2>2 DEF Places
    <2> QED  BY <1>3, <1>7, <2>3
  <1>9. at \in [DOMAIN makers -> DOMAIN q]
    BY <1>8
  <1>10. ASSUME NEW j \in DOMAIN makers, NEW k \in DOMAIN makers, l(j) = l(k)
         PROVE  i(j) < i(k) <=> at[j] < at[k]
    <2>1. Places(Ascending(At(l(j))), levels[l(j)], q, At(l(j)))
      BY <1>2, <1>7
    <2>2. at[j] = Ascending(At(l(j)))[i(j)] /\ at[k] = Ascending(At(l(j)))[i(k)]
      BY <1>10
    <2>3. i(j) \in DOMAIN levels[l(j)] /\ i(k) \in DOMAIN levels[l(j)]
      BY <1>7, <1>10
    <2> HIDE DEF l, i, at
    <2> QED  BY <2>1, <2>2, <2>3 DEF Places
  <1>11. ASSUME NEW j \in DOMAIN makers, NEW k \in DOMAIN makers
         PROVE  l(j) = l(k) <=> Price(makers[j]) = Price(makers[k])
    <2>1. Price(makers[j]) = Price(makers[k]) => l(j) = l(k)
      BY <1>7, OneLevel
    <2>2. l(j) = l(k) => Price(makers[j]) = Price(makers[k])
      <3>1. l(j).price = Price(makers[j]) /\ l(k).price = Price(makers[k])
        BY <1>7
      <3> QED  BY <3>1
    <2> QED  BY <2>1, <2>2
  <1>12. ASSUME NEW j \in DOMAIN makers, NEW k \in DOMAIN makers
         PROVE  j < k <=> \/ BetterPrice(side, Price(q[at[j]]), Price(q[at[k]]))
                          \/ Price(q[at[j]]) = Price(q[at[k]]) /\ at[j] < at[k]
    <2>1. j < k <=> \/ BetterPrice(side, l(j).price, l(k).price)
                    \/ l(j) = l(k) /\ i(j) < i(k)
      BY <1>6 DEF Walk
    <2>2. /\ l(j).price = Price(makers[j]) /\ l(k).price = Price(makers[k])
          /\ makers[j] = q[at[j]] /\ makers[k] = q[at[k]]
      BY <1>7, <1>8
    <2> HIDE DEF l, i, at
    <2> QED  BY <1>10, <1>11, <2>1, <2>2
  <1>13. ASSUME NEW j \in DOMAIN makers, NEW k \in DOMAIN makers, at[j] = at[k]
         PROVE  j = k
    <2>1. makers[j] = makers[k]
      BY <1>8, <1>13
    <2>2. l(j) = l(k)
      BY <1>7, <2>1
    <2>3. i(j) = i(k)
      <3>1. at[j] \in Nat /\ i(j) \in Nat /\ i(k) \in Nat
        BY <1>7, <1>8
      <3>2. ~(i(j) < i(k)) /\ ~(i(k) < i(j))
        BY <1>10, <1>13, <2>2, <3>1
      <3> HIDE DEF l, i, at
      <3> QED  BY <3>1, <3>2
    <2>4. walk[j] = walk[k]
      BY <1>7, <2>2, <2>3
    <2> QED  BY <1>6, <2>4 DEF Walk
  <1>14. ASSUME NEW p \in DOMAIN q, Terms[q[p]].market = market,
                Terms[q[p]].claim = claim, Terms[q[p]].side = side
         PROVE  \E k \in DOMAIN makers : at[k] = p
    <2> DEFINE m == LevelOf(q[p])
    <2>1. m \in DOMAIN levels /\ p \in At(m)
      BY <1>2, <1>4
    <2>2. m.market = market /\ m.claim = claim /\ m.side = side
      BY <1>14 DEF LevelOf
    <2> HIDE DEF m
    <2>3. PICK x \in DOMAIN levels[m] : Ascending(At(m))[x] = p
      BY <1>2, <2>1 DEF Places
    <2>4. <<m, x>> \in PlacesAt(levels, market, claim, side)
      BY <2>1, <2>2, <2>3 DEF PlacesAt
    <2>5. PICK k \in DOMAIN makers : walk[k] = <<m, x>>
      BY <1>6, <2>4 DEF Walk
    <2>6. l(k) = m /\ i(k) = x
      BY <2>5
    <2>7. at[k] = Ascending(At(l(k)))[i(k)]
      OBVIOUS
    <2> HIDE DEF l, i, at
    <2> QED  BY <2>3, <2>6, <2>7
  <1>15. PlacesOf(makers, at, q, market, claim, side)
    <2> HIDE DEF l, i, at
    <2> QED  BY <1>7, <1>8, <1>12, <1>13, <1>14 DEF PlacesOf
  <1>16. makers \in Seq(Orders)
    BY <1>1, <1>5
  <1> QED  BY <1>9, <1>15, <1>16 DEF makers, levels
-----------------------------------------------------------------------------
(***************************************************************************)
(* The loop over the makers.                                               *)
(***************************************************************************)
FillType == [order : Orders, amount : Int]

Builder ==
    [taken : Int, collateral : Int, fills : Seq(FillType),
     stage : {"Matching", "Done", "Failed"}]

\* The plan c is the plan b with one fill more, which moves delta.
OneMore(c, b, fill, delta) ==
    /\ c \in Builder /\ delta \in Int /\ fill \in FillType
    /\ c.taken = b.taken + fill.amount
    /\ c.collateral = b.collateral + delta
    /\ c.fills = Append(b.fills, fill)
    /\ c.stage = b.stage

LEMMA AddFillEffect ==
    ASSUME NEW b \in Builder, NEW maker \in Orders, NEW makerFilled \in Nat,
           NEW amount \in Nat, ValidBasic(maker)
    PROVE  OneMore(AddFill(b, maker, makerFilled, amount), b,
                   [order |-> maker, amount |-> amount],
                   CollateralDelta(maker, makerFilled, amount))
  <1> DEFINE delta == CollateralDelta(maker, makerFilled, amount)
             fill  == [order |-> maker, amount |-> amount]
             c == AddFill(b, maker, makerFilled, amount)
  <1>1. delta \in Int
    BY DeltaType
  <1>2. fill \in FillType
    BY DEF FillType
  <1>8. fill.amount = amount
    OBVIOUS
  <1>3. c = [b EXCEPT !.taken = @ + amount, !.collateral = @ + delta,
                      !.fills = Append(@, fill)]
    BY DEF AddFill
  <1> HIDE DEF delta, fill, c
  <1>4. /\ b.taken \in Int /\ b.collateral \in Int /\ b.fills \in Seq(FillType)
        /\ b.stage \in {"Matching", "Done", "Failed"}
        /\ b = [taken |-> b.taken, collateral |-> b.collateral, fills |-> b.fills,
                stage |-> b.stage]
    BY DEF Builder
  <1>5. c = [taken |-> b.taken + amount, collateral |-> b.collateral + delta,
             fills |-> Append(b.fills, fill), stage |-> b.stage]
    BY <1>3, <1>4
  <1>6. Append(b.fills, fill) \in Seq(FillType)
    BY <1>2, <1>4
  <1>7. c \in Builder
    BY <1>1, <1>4, <1>5, <1>6 DEF Builder
  <1>9. OneMore(c, b, fill, delta)
    BY <1>1, <1>2, <1>4, <1>5, <1>7, <1>8 DEF OneMore
  <1> QED  BY <1>9 DEF delta, fill, c

LEMMA PushFillType ==
    ASSUME NEW b \in Builder, NEW maker \in Orders, NEW makerFilled \in Nat,
           NEW taker \in Orders, NEW takerFilled \in Nat
    PROVE  PushFill(b, maker, makerFilled, taker, takerFilled) \in Builder
  <1> DEFINE takerAvailable == RemainingClaim(taker, takerFilled) - b.taken
             makerAvailable == RemainingClaim(maker, makerFilled)
             amount == IF takerAvailable < makerAvailable THEN takerAvailable
                                                          ELSE makerAvailable
  <1>1. takerAvailable \in Int /\ makerAvailable \in Int /\ amount \in Int
    BY ClaimType DEF RemainingClaim, Builder
  <1> HIDE DEF amount
  <1>2. ASSUME NEW stage \in {"Matching", "Done", "Failed"}
        PROVE  [b EXCEPT !.stage = stage] \in Builder
    BY DEF Builder
  <1>3. CASE CanFill(maker, makerFilled, amount)
    <2>1. ValidBasic(maker) /\ amount \in Nat
      BY <1>1, <1>3 DEF CanFill, FitsOrder
    <2>2. AddFill(b, maker, makerFilled, amount) \in Builder
      BY <2>1, AddFillEffect DEF OneMore
    <2> QED  BY <1>2, <2>2 DEF PushFill, amount
  <1>4. CASE ~CanFill(maker, makerFilled, amount)
    BY <1>2, <1>4 DEF PushFill, amount
  <1> QED  BY <1>3, <1>4

LEMMA ConsiderType ==
    ASSUME NEW b \in Builder, NEW maker \in Orders, NEW makerFilled \in Nat, NEW kind,
           NEW taker \in Orders, NEW takerFilled \in Nat, NEW unavailable
    PROVE  Consider(b, maker, makerFilled, kind, taker, takerFilled, unavailable)
               \in Builder
  <1>1. [b EXCEPT !.stage = "Done"] \in Builder
    BY DEF Builder
  <1> QED  BY <1>1, PushFillType DEF Consider

LEMMA NewBuilderType == NewBuilder \in Builder
  <1>1. <<>> \in Seq(FillType)
    OBVIOUS
  <1> QED  BY <1>1 DEF NewBuilder, Builder

\* The turns of the loop are what the definition says they are.
LEMMA TurnsUnfold ==
    ASSUME NEW kind, NEW makers \in Seq(Orders), NEW makerFilled \in [Orders -> Nat],
           NEW taker \in Orders, NEW takerFilled \in Nat, NEW unavailable
    PROVE  LET turn == Turns(kind, makers, makerFilled, taker, takerFilled, unavailable)
           IN  /\ turn[0] = NewBuilder
               /\ \A k \in 1..Len(makers) :
                     turn[k] = Consider(turn[k - 1], makers[k], makerFilled[makers[k]],
                                        kind, taker, takerFilled, unavailable)
  <1> DEFINE n == Len(makers)
             After(k, b) == Consider(b, makers[k], makerFilled[makers[k]], kind,
                                     taker, takerFilled, unavailable)
             IsTurns(f) == f = [k \in 0..n |-> IF k = 0 THEN NewBuilder
                                               ELSE After(k, f[k - 1])]
             g == [p \in (1..n) \X Builder |-> After(p[1], p[2])]
             turn == Turns(kind, makers, makerFilled, taker, takerFilled, unavailable)
  <1>1. n \in Nat /\ \A k \in 1..n : makers[k] \in Orders /\ makerFilled[makers[k]] \in Nat
    OBVIOUS
  <1>2. \A k \in 1..n : \A b \in Builder : After(k, b) \in Builder
    BY <1>1, ConsiderType
  <1> HIDE DEF After
  <1>3. g \in [(1..n) \X Builder -> Builder]
    BY <1>2
  <1>4. \A k \in 1..n : \A b \in Builder : g[<<k, b>>] = After(k, b)
    OBVIOUS
  <1>5. PICK f \in [0..n -> Builder] : Iterates(f, n, NewBuilder, g)
    <2> HIDE DEF n, g, IsTurns, turn
    <2> QED  BY <1>1, <1>3, NewBuilderType, Recursion
  <1>6. \A k \in 1..n : f[k] = After(k, f[k - 1])
    <2> SUFFICES ASSUME NEW k \in 1..n
                 PROVE  f[k] = After(k, f[k - 1])
      OBVIOUS
    <2>1. k - 1 \in 0..n
      BY <1>1
    <2>2. f[k - 1] \in Builder
      BY <2>1
    <2>3. f[k] = g[<<k, f[k - 1]>>]
      BY <1>5 DEF Iterates
    <2> HIDE DEF g
    <2> QED  BY <1>4, <2>2, <2>3
  <1>7. f[0] = NewBuilder
    BY <1>5 DEF Iterates
  <1>8. IsTurns(f)
    BY <1>1, <1>6, <1>7
  <1>9. turn = CHOOSE h : IsTurns(h)
    BY DEF Turns, After
  <1>10. IsTurns(turn)
    BY <1>8, <1>9
  <1> HIDE DEF turn
  <1>11. /\ turn[0] = NewBuilder
         /\ \A k \in 1..n : turn[k] = After(k, turn[k - 1])
    <2>1. turn = [k \in 0..n |-> IF k = 0 THEN NewBuilder ELSE After(k, turn[k - 1])]
      BY <1>10
    <2>2. 0 \in 0..n /\ \A k \in 1..n : k \in 0..n /\ k # 0
      BY <1>1
    <2> QED  BY <2>1, <2>2, Zenon
  <1> QED  BY <1>11 DEF turn, After

LEMMA AppendParts ==
    ASSUME NEW T, NEW list \in Seq(T), NEW x \in T
    PROVE  LET more == Append(list, x)
               n == Len(list)
           IN  /\ n \in Nat /\ DOMAIN list = 1..n
               /\ more \in Seq(T) /\ Len(more) = n + 1 /\ DOMAIN more = 1..(n + 1)
               /\ more[n + 1] = x /\ \A i \in 1..n : more[i] = list[i]
               /\ more = [i \in 1..(n + 1) |-> more[i]]
  <1> DEFINE more == Append(list, x)
             n == Len(list)
  <1>1. /\ n \in Nat /\ DOMAIN list = 1..n
        /\ more \in Seq(T) /\ Len(more) = n + 1
        /\ more[n + 1] = x /\ \A i \in 1..n : more[i] = list[i]
    OBVIOUS
  <1> HIDE DEF more, n
  <1>2. DOMAIN more = 1..(n + 1) /\ more = [i \in 1..(n + 1) |-> more[i]]
    BY <1>1
  <1> QED  BY <1>1, <1>2 DEF more, n

LEMMA AmountsOfMore ==
    ASSUME NEW fills \in Seq(FillType), NEW fill \in FillType
    PROVE  /\ Amounts(fills) \in Seq(Int)
           /\ Amounts(Append(fills, fill)) = Append(Amounts(fills), fill.amount)
  <1> DEFINE n == Len(fills)
             more == Append(fills, fill)
             amounts == Amounts(fills)
  <1>1. /\ n \in Nat /\ DOMAIN fills = 1..n
        /\ \A i \in 1..n : fills[i] \in FillType
        /\ DOMAIN more = 1..(n + 1) /\ more[n + 1] = fill
        /\ \A i \in 1..n : more[i] = fills[i]
    OBVIOUS
  <1>2. amounts = [i \in 1..n |-> fills[i].amount]
    BY <1>1 DEF Amounts
  <1>3. amounts \in Seq(Int) /\ Len(amounts) = n
    BY <1>1, <1>2 DEF FillType
  <1>4. fill.amount \in Int
    BY DEF FillType
  <1>5. Amounts(more) = [i \in 1..(n + 1) |-> more[i].amount]
    BY <1>1 DEF Amounts
  <1> HIDE DEF more, amounts
  <1>6. \A i \in 1..(n + 1) : more[i].amount = Append(amounts, fill.amount)[i]
    <2>1. \A i \in 1..n : Append(amounts, fill.amount)[i] = fills[i].amount
      BY <1>2, <1>3, <1>4
    <2>2. Append(amounts, fill.amount)[n + 1] = fill.amount
      BY <1>3, <1>4
    <2>3. \A i \in 1..(n + 1) : i \in 1..n \/ i = n + 1
      BY <1>1
    <2> QED  BY <1>1, <2>1, <2>2, <2>3
  <1>7. Append(amounts, fill.amount) \in Seq(Int) /\ Len(Append(amounts, fill.amount)) = n + 1
    BY <1>3, <1>4
  <1>8. Append(amounts, fill.amount) = [i \in 1..(n + 1) |-> Append(amounts, fill.amount)[i]]
    BY <1>7
  <1> QED  BY <1>3, <1>5, <1>6, <1>8 DEF more, amounts

LEMMA CollateralsOfMore ==
    ASSUME NEW fills \in Seq(FillType), NEW fill \in FillType, NEW makerFilled,
           \A i \in DOMAIN fills :
              CollateralDelta(fills[i].order, makerFilled[fills[i].order], fills[i].amount)
                  \in Int,
           CollateralDelta(fill.order, makerFilled[fill.order], fill.amount) \in Int
    PROVE  /\ Collaterals(fills, makerFilled) \in Seq(Int)
           /\ Collaterals(Append(fills, fill), makerFilled) =
                Append(Collaterals(fills, makerFilled),
                       CollateralDelta(fill.order, makerFilled[fill.order], fill.amount))
  <1> DEFINE n == Len(fills)
             more == Append(fills, fill)
             D(f) == CollateralDelta(f.order, makerFilled[f.order], f.amount)
             moved == Collaterals(fills, makerFilled)
             d == D(fill)
  <1>1. /\ n \in Nat /\ DOMAIN fills = 1..n
        /\ DOMAIN more = 1..(n + 1) /\ more[n + 1] = fill
        /\ \A i \in 1..n : more[i] = fills[i]
    OBVIOUS
  <1>2. moved = [i \in 1..n |-> D(fills[i])]
    BY <1>1 DEF Collaterals
  <1>3. d \in Int /\ \A i \in 1..n : D(fills[i]) \in Int
    BY <1>1
  <1>4. Collaterals(more, makerFilled) = [i \in 1..(n + 1) |-> D(more[i])]
    BY <1>1 DEF Collaterals
  <1>5. D(more[n + 1]) = d /\ \A i \in 1..n : D(more[i]) = D(fills[i])
    BY <1>1
  <1> HIDE DEF more, moved, D, d
  <1>6. moved \in Seq(Int) /\ Len(moved) = n
    BY <1>1, <1>2, <1>3
  <1>7. \A i \in 1..(n + 1) : D(more[i]) = Append(moved, d)[i]
    <2>1. \A i \in 1..n : Append(moved, d)[i] = D(fills[i])
      BY <1>2, <1>3, <1>6
    <2>2. Append(moved, d)[n + 1] = d
      BY <1>3, <1>6
    <2>3. \A i \in 1..(n + 1) : i \in 1..n \/ i = n + 1
      BY <1>1
    <2> QED  BY <1>5, <2>1, <2>2, <2>3
  <1>8. Append(moved, d) \in Seq(Int) /\ Len(Append(moved, d)) = n + 1
    BY <1>3, <1>6
  <1>9. Append(moved, d) = [i \in 1..(n + 1) |-> Append(moved, d)[i]]
    <2> DEFINE S == Int
    <2>1. moved \in Seq(S) /\ d \in S
      BY <1>3, <1>6
    <2> HIDE DEF S, n
    <2>2. Append(moved, d) = [i \in 1..(Len(moved) + 1) |-> Append(moved, d)[i]]
      BY <2>1, AppendParts
    <2> QED  BY <1>6, <2>2
  <1> QED  BY <1>4, <1>6, <1>7, <1>9 DEF more, moved, D, d

\* A fill of one of the first k makers, which crosses the taker and is not
\* locked, and for which both have enough left.
GoodFill(fill, k, kind, makers, makerFilled, taker, takerFilled, unavailable) ==
    \E j \in 1..k :
        /\ fill.order = makers[j]
        /\ Crossed(kind, taker, makers[j])
        /\ makers[j] \notin unavailable
        /\ fill.amount \in 1..RemainingClaim(taker, takerFilled)
        /\ fill.amount <= RemainingClaim(makers[j], makerFilled[makers[j]])
        /\ CanFill(makers[j], makerFilled[makers[j]], fill.amount)

\* The plan as far as the first k makers have made it.
LoopInv(k, b, kind, makers, makerFilled, taker, takerFilled, unavailable) ==
    /\ b \in Builder
    /\ b.taken = Total(Amounts(b.fills))
    /\ b.collateral = Total(Collaterals(b.fills, makerFilled))
    /\ b.taken >= 0
    /\ b.taken > 0 => b.taken <= RemainingClaim(taker, takerFilled)
    /\ b.fills = <<>> <=> b.taken = 0
    /\ Len(b.fills) <= MaxMakerOrders
    /\ \A i \in DOMAIN b.fills :
          GoodFill(b.fills[i], k, kind, makers, makerFilled, taker, takerFilled, unavailable)
    /\ \A i, j \in DOMAIN b.fills : b.fills[i].order = b.fills[j].order => i = j

LEMMA LoopInvStart ==
    ASSUME NEW kind, NEW makers, NEW makerFilled, NEW taker \in Orders,
           NEW takerFilled \in Nat, NEW unavailable
    PROVE  LoopInv(0, NewBuilder, kind, makers, makerFilled, taker, takerFilled, unavailable)
  <1>1. Amounts(<<>>) = <<>> /\ Collaterals(<<>>, makerFilled) = <<>>
    BY DEF Amounts, Collaterals
  <1>2. /\ NewBuilder.taken = 0 /\ NewBuilder.collateral = 0
        /\ NewBuilder.fills = <<>> /\ Len(<<>>) = 0 /\ DOMAIN <<>> = {}
    BY DEF NewBuilder
  <1> QED  BY <1>1, <1>2, TotalOfNone, NewBuilderType, MakersAssumption DEF LoopInv

\* A maker that is filled is the last of the fills.
LEMMA LoopInvFill ==
    ASSUME NEW kind, NEW makers \in Seq(Orders), NEW makerFilled \in [Orders -> Nat],
           NEW taker \in Orders, NEW takerFilled \in Nat, NEW unavailable,
           \A i, j \in DOMAIN makers : makers[i] = makers[j] => i = j,
           NEW k \in 1..Len(makers), NEW b,
           LoopInv(k - 1, b, kind, makers, makerFilled, taker, takerFilled, unavailable),
           Len(b.fills) # MaxMakerOrders,
           Crossed(kind, taker, makers[k]), makers[k] \notin unavailable,
           NEW amount \in Int,
           amount <= RemainingClaim(taker, takerFilled) - b.taken,
           amount <= RemainingClaim(makers[k], makerFilled[makers[k]]),
           CanFill(makers[k], makerFilled[makers[k]], amount)
    PROVE  LoopInv(k, AddFill(b, makers[k], makerFilled[makers[k]], amount),
                   kind, makers, makerFilled, taker, takerFilled, unavailable)
  <1> DEFINE maker == makers[k]
             delta == CollateralDelta(maker, makerFilled[maker], amount)
             fill  == [order |-> maker, amount |-> amount]
             c     == AddFill(b, maker, makerFilled[maker], amount)
             left  == RemainingClaim(taker, takerFilled)
             Good(f, n) == GoodFill(f, n, kind, makers, makerFilled, taker, takerFilled,
                                    unavailable)
             n == Len(b.fills)
  <1>0. /\ b \in Builder
        /\ b.taken = Total(Amounts(b.fills))
        /\ b.collateral = Total(Collaterals(b.fills, makerFilled))
        /\ b.taken >= 0
        /\ n <= MaxMakerOrders /\ n # MaxMakerOrders
        /\ \A i \in DOMAIN b.fills : Good(b.fills[i], k - 1)
        /\ \A i, j \in DOMAIN b.fills : b.fills[i].order = b.fills[j].order => i = j
    BY DEF LoopInv
  <1> HIDE DEF delta, Good, n
  <1>1. /\ maker \in Orders /\ makerFilled[maker] \in Nat /\ k \in Nat /\ k \in DOMAIN makers
        /\ ValidBasic(maker) /\ amount \in Nat \ {0} /\ left \in Int
        /\ b.taken \in Nat /\ b.fills \in Seq(FillType)
    <2>1. maker \in Orders /\ makerFilled[maker] \in Nat /\ k \in Nat /\ k \in DOMAIN makers
      OBVIOUS
    <2>2. ValidBasic(maker) /\ amount > 0
      BY DEF CanFill, FitsOrder
    <2>3. left \in Int
      BY ClaimType DEF RemainingClaim
    <2>4. b.taken \in Int /\ b.fills \in Seq(FillType)
      BY <1>0 DEF Builder
    <2> HIDE DEF left, maker
    <2> QED  BY <1>0, <2>1, <2>2, <2>3, <2>4
  <1>18. /\ amount <= left - b.taken
        /\ amount <= RemainingClaim(maker, makerFilled[maker])
        /\ CanFill(maker, makerFilled[maker], amount)
        /\ Crossed(kind, taker, maker) /\ maker \notin unavailable
    OBVIOUS
  <1> HIDE DEF left, maker, c, fill
  <1>2. /\ c \in Builder /\ delta \in Int /\ fill \in FillType
        /\ c.taken = b.taken + amount
        /\ c.collateral = b.collateral + delta
        /\ c.fills = Append(b.fills, fill)
    <2>1. b \in Builder /\ amount \in Nat
      BY <1>0, <1>1
    <2>2. maker \in Orders /\ makerFilled[maker] \in Nat /\ ValidBasic(maker)
      BY <1>1
    <2>3. PICK mf \in Nat : mf = makerFilled[maker]
      BY <2>2
    <2>4. OneMore(AddFill(b, maker, mf, amount), b,
                  [order |-> maker, amount |-> amount], CollateralDelta(maker, mf, amount))
      BY <2>1, <2>2, AddFillEffect
    <2>5. OneMore(c, b, fill, delta)
      BY <2>3, <2>4 DEF c, fill, delta
    <2>6. fill.amount = amount
      BY DEF fill
    <2> QED  BY <2>5, <2>6 DEF OneMore
  <1>3. /\ n \in Nat /\ DOMAIN b.fills = 1..n /\ DOMAIN c.fills = 1..(n + 1)
        /\ Len(c.fills) = n + 1
        /\ c.fills[n + 1] = fill /\ \A i \in 1..n : c.fills[i] = b.fills[i]
    <2>1. b.fills \in Seq(FillType) /\ fill \in FillType
      BY <1>1, <1>2
    <2>2. c.fills = Append(b.fills, fill)
      BY <1>2
    <2> QED  BY <2>1, <2>2, AppendParts, SMTT(30) DEF n
  <1>4. fill.order = maker /\ fill.amount = amount
    BY DEF fill
  <1>5. Good(fill, k)
    <2>1. k \in 1..k /\ amount \in 1..left
      BY <1>1, <1>18
    <2> QED  BY <1>4, <1>18, <2>1 DEF Good, GoodFill, left, maker
  <1>6. \A i \in 1..n : Good(b.fills[i], k - 1)
    BY <1>0, <1>3
  <1>7. \A i \in 1..n : Good(b.fills[i], k)
    <2>1. \A j \in 1..(k - 1) : j \in 1..k
      BY <1>1
    <2> QED  BY <1>6, <2>1 DEF Good, GoodFill
  <1>8. \A i \in 1..n : b.fills[i].order # maker
    <2> SUFFICES ASSUME NEW i \in 1..n
                 PROVE  b.fills[i].order # maker
      OBVIOUS
    <2>1. PICK j \in 1..(k - 1) : b.fills[i].order = makers[j]
      BY <1>6 DEF Good, GoodFill
    <2>2. j \in DOMAIN makers /\ j # k
      BY <1>1, SMTT(30)
    <2> QED  BY <1>1, <2>1, <2>2 DEF maker
  <1>9. \A i \in 1..(n + 1) : i \in 1..n \/ i = n + 1
    BY <1>3
  <1>10. \A i \in DOMAIN c.fills : Good(c.fills[i], k)
    BY <1>3, <1>5, <1>7, <1>9
  <1>11. \A i, j \in DOMAIN c.fills : c.fills[i].order = c.fills[j].order => i = j
    BY <1>0, <1>3, <1>4, <1>8, <1>9
  <1>12. c.taken = Total(Amounts(c.fills))
    <2>1. /\ Amounts(b.fills) \in Seq(Int)
          /\ Amounts(c.fills) = Append(Amounts(b.fills), amount)
      BY <1>1, <1>2, <1>4, AmountsOfMore
    <2> QED  BY <1>0, <1>1, <1>2, <2>1, TotalOfMore
  <1>13. c.collateral = Total(Collaterals(c.fills, makerFilled))
    <2>1. \A i \in DOMAIN b.fills :
             CollateralDelta(b.fills[i].order, makerFilled[b.fills[i].order], b.fills[i].amount)
                 \in Int
      <3> SUFFICES ASSUME NEW i \in 1..n
                   PROVE  CollateralDelta(b.fills[i].order, makerFilled[b.fills[i].order],
                                          b.fills[i].amount) \in Int
        BY <1>3
      <3>1. PICK j \in 1..(k - 1) :
              /\ b.fills[i].order = makers[j]
              /\ b.fills[i].amount \in 1..left
              /\ CanFill(makers[j], makerFilled[makers[j]], b.fills[i].amount)
        BY <1>6 DEF Good, GoodFill, left
      <3>2. j \in DOMAIN makers /\ makers[j] \in Orders /\ makerFilled[makers[j]] \in Nat
        BY <1>1, SMTT(30)
      <3>3. ValidBasic(makers[j])
        BY <3>1 DEF CanFill
      <3>4. b.fills[i].amount \in Nat
        <4>1. \A a \in 1..left : a \in Nat
          BY <1>1
        <4> QED  BY <3>1, <4>1
      <3> QED  BY <3>1, <3>2, <3>3, <3>4, DeltaType
    <2>2. CollateralDelta(fill.order, makerFilled[fill.order], fill.amount) = delta
      BY <1>4 DEF delta
    <2>3. /\ Collaterals(b.fills, makerFilled) \in Seq(Int)
          /\ Collaterals(c.fills, makerFilled) =
               Append(Collaterals(b.fills, makerFilled), delta)
      <3>1. CollateralDelta(fill.order, makerFilled[fill.order], fill.amount) \in Int
        BY <1>2, <2>2
      <3>2. b.fills \in Seq(FillType) /\ fill \in FillType
        BY <1>1, <1>2
      <3>3. /\ Collaterals(b.fills, makerFilled) \in Seq(Int)
            /\ Collaterals(Append(b.fills, fill), makerFilled) =
                 Append(Collaterals(b.fills, makerFilled),
                        CollateralDelta(fill.order, makerFilled[fill.order], fill.amount))
        BY <2>1, <3>1, <3>2, CollateralsOfMore
      <3> QED  BY <1>2, <2>2, <3>3
    <2> QED  BY <1>0, <1>2, <2>3, TotalOfMore
  <1>14. c.taken > 0 /\ c.taken <= left /\ c.fills # <<>>
    <2>1. Len(<<>>) = 0 /\ n + 1 # 0
      BY <1>3
    <2>2. c.fills # <<>>
      BY <1>3, <2>1
    <2>3. c.taken > 0 /\ c.taken <= left
      <3>1. amount \in Nat \ {0} /\ left \in Int /\ b.taken \in Nat
        BY <1>1
      <3>2. c.taken = b.taken + amount
        BY <1>2
      <3>3. amount <= left - b.taken
        BY <1>18
      <3> QED  BY <3>1, <3>2, <3>3, SMTT(30)
    <2> QED  BY <2>2, <2>3
  <1>15. Len(c.fills) <= MaxMakerOrders
    BY <1>0, <1>3, MakersAssumption
  <1>16. c.taken \in Int
    BY <1>1, <1>2, SMTT(30)
  <1>17. LoopInv(k, c, kind, makers, makerFilled, taker, takerFilled, unavailable)
    <2>1. /\ c.taken >= 0 /\ (c.fills = <<>> <=> c.taken = 0)
          /\ c.taken > 0 => c.taken <= RemainingClaim(taker, takerFilled)
      BY <1>14, <1>16 DEF left
    <2>2. \A i \in DOMAIN c.fills :
             GoodFill(c.fills[i], k, kind, makers, makerFilled, taker, takerFilled, unavailable)
      BY <1>10 DEF Good
    <2> QED  BY <1>2, <1>11, <1>12, <1>13, <1>15, <2>1, <2>2 DEF LoopInv
  <1> QED  BY <1>17 DEF c, maker

\* A maker that is passed over leaves the plan as it was.
LEMMA LoopInvSame ==
    ASSUME NEW kind, NEW makers, NEW makerFilled, NEW taker, NEW takerFilled,
           NEW unavailable, NEW k \in Nat \ {0}, NEW b, NEW c \in Builder,
           LoopInv(k - 1, b, kind, makers, makerFilled, taker, takerFilled, unavailable),
           c.taken = b.taken, c.collateral = b.collateral, c.fills = b.fills
    PROVE  LoopInv(k, c, kind, makers, makerFilled, taker, takerFilled, unavailable)
  <1>1. \A j \in 1..(k - 1) : j \in 1..k
    OBVIOUS
  <1>2. \A i \in DOMAIN c.fills :
           GoodFill(c.fills[i], k, kind, makers, makerFilled, taker, takerFilled, unavailable)
    BY <1>1 DEF LoopInv, GoodFill
  <1> QED  BY <1>2 DEF LoopInv

\* Every turn of the loop keeps the plan sound.
LEMMA LoopInvStep ==
    ASSUME NEW kind, NEW makers \in Seq(Orders), NEW makerFilled \in [Orders -> Nat],
           NEW taker \in Orders, NEW takerFilled \in Nat, NEW unavailable,
           \A i, j \in DOMAIN makers : makers[i] = makers[j] => i = j,
           NEW k \in 1..Len(makers), NEW b,
           LoopInv(k - 1, b, kind, makers, makerFilled, taker, takerFilled, unavailable)
    PROVE  LoopInv(k, Consider(b, makers[k], makerFilled[makers[k]], kind, taker,
                               takerFilled, unavailable),
                   kind, makers, makerFilled, taker, takerFilled, unavailable)
  <1> DEFINE maker == makers[k]
             mf == makerFilled[maker]
             c == Consider(b, maker, mf, kind, taker, takerFilled, unavailable)
             takerAvailable == RemainingClaim(taker, takerFilled) - b.taken
             makerAvailable == RemainingClaim(maker, mf)
             amount == IF takerAvailable < makerAvailable THEN takerAvailable
                                                          ELSE makerAvailable
             Inv(n, d) == LoopInv(n, d, kind, makers, makerFilled, taker, takerFilled,
                                  unavailable)
  <1>1. k \in Nat \ {0} /\ maker \in Orders /\ mf \in Nat
    OBVIOUS
  <1>2. b \in Builder
    BY DEF LoopInv
  <1>3. /\ takerAvailable \in Int /\ makerAvailable \in Int /\ amount \in Int
        /\ amount <= takerAvailable /\ amount <= makerAvailable
    <2>1. RemainingClaim(taker, takerFilled) \in Int /\ makerAvailable \in Int
      BY <1>1, ClaimType DEF RemainingClaim
    <2>2. b.taken \in Int
      BY <1>2 DEF Builder
    <2> HIDE DEF makerAvailable
    <2> QED  BY <2>1, <2>2, SMTT(30)
  <1>4. Inv(k, b)
    BY <1>1, <1>2, LoopInvSame
  <1>5. ASSUME NEW stage \in {"Matching", "Done", "Failed"}
        PROVE  Inv(k, [b EXCEPT !.stage = stage])
    <2> DEFINE d == [b EXCEPT !.stage = stage]
    <2>1. d \in Builder /\ d.taken = b.taken /\ d.collateral = b.collateral /\ d.fills = b.fills
      BY <1>2 DEF Builder
    <2> HIDE DEF d
    <2>2. Inv(k, d)
      BY <1>1, <2>1, LoopInvSame
    <2> QED  BY <2>2 DEF d
  <1>6. CASE \/ b.stage # "Matching" \/ ~Crossed(kind, taker, maker)
             \/ maker \in unavailable \/ Len(b.fills) = MaxMakerOrders
    BY <1>4, <1>5, <1>6 DEF Consider
  <1>7. CASE /\ b.stage = "Matching" /\ Crossed(kind, taker, maker)
             /\ maker \notin unavailable /\ Len(b.fills) # MaxMakerOrders
    <2>1. c = PushFill(b, maker, mf, taker, takerFilled)
      BY <1>7 DEF Consider
    <2>2. CASE takerAvailable = 0 \/ makerAvailable = 0 \/ ~CanFill(maker, mf, amount)
      BY <1>4, <1>5, <2>1, <2>2 DEF PushFill
    <2>3. CASE takerAvailable # 0 /\ makerAvailable # 0 /\ CanFill(maker, mf, amount)
      <3>1. c = AddFill(b, maker, mf, amount)
        BY <2>1, <2>3 DEF PushFill
      <3> HIDE DEF amount
      <3>2. Inv(k, AddFill(b, maker, mf, amount))
        BY <1>3, <1>7, <2>3, LoopInvFill
      <3> QED  BY <3>1, <3>2
    <2> QED  BY <2>2, <2>3
  <1> QED  BY <1>6, <1>7

\* So the loop ends in a sound plan.
LEMMA LoopEnds ==
    ASSUME NEW kind, NEW makers \in Seq(Orders), NEW makerFilled \in [Orders -> Nat],
           NEW taker \in Orders, NEW takerFilled \in Nat, NEW unavailable,
           \A i, j \in DOMAIN makers : makers[i] = makers[j] => i = j
    PROVE  \A k \in 0..Len(makers) :
              LoopInv(k, Turns(kind, makers, makerFilled, taker, takerFilled, unavailable)[k],
                      kind, makers, makerFilled, taker, takerFilled, unavailable)
  <1> DEFINE turn == Turns(kind, makers, makerFilled, taker, takerFilled, unavailable)
             Inv(k) == LoopInv(k, turn[k], kind, makers, makerFilled, taker, takerFilled,
                               unavailable)
             n == Len(makers)
             G == {k \in 0..n : Inv(k)}
  <1>1. /\ turn[0] = NewBuilder
        /\ \A k \in 1..n :
              turn[k] = Consider(turn[k - 1], makers[k], makerFilled[makers[k]],
                                 kind, taker, takerFilled, unavailable)
    BY TurnsUnfold
  <1> HIDE DEF turn
  <1>2. n \in Nat
    OBVIOUS
  <1>3. 0 \in G
    BY <1>1, <1>2, LoopInvStart
  <1>4. ASSUME NEW k \in 1..n, k - 1 \in G
        PROVE  k \in G
    <2>1. LoopInv(k - 1, turn[k - 1], kind, makers, makerFilled, taker, takerFilled,
                  unavailable)
      BY <1>4
    <2>2. Inv(k)
      BY <1>1, <2>1, LoopInvStep, SMTT(30)
    <2> QED  BY <1>2, <2>2
  <1>5. 0..n \subseteq G
    <2> HIDE DEF G, n
    <2> QED  BY <1>2, <1>3, <1>4, UpTo
  <1> QED  BY <1>5 DEF turn
-----------------------------------------------------------------------------
(***************************************************************************)
(* What the matcher returns.                                               *)
(***************************************************************************)
\* A match of some kind: a fill of the taker and fills of a few distinct
\* makers of the book, of the market, claim and side that the kind asks for,
\* which add up and are priced.
SoundMatch(p, kind, book, makerFilled, taker, takerFilled, unavailable) ==
    /\ p.outcome = "Matched"
    /\ p.kind = kind
    /\ p.taken \in 1..RemainingClaim(taker, takerFilled)
    /\ CanFill(taker, takerFilled, p.taken)
    /\ p.fills \in Seq(FillType)
    /\ Len(p.fills) \in 1..MaxMakerOrders
    /\ p.taken = Total(Amounts(p.fills))
    /\ p.makerCollateral = Total(Collaterals(p.fills, makerFilled))
    /\ p.takerCollateral = IF kind = "Direct" THEN p.makerCollateral
                           ELSE p.taken - p.makerCollateral
    /\ kind # "Direct" => p.makerCollateral <= p.taken
    /\ WithinTakerPrice(taker, p.takerCollateral,
                        CollateralDelta(taker, takerFilled, p.taken))
    /\ \A i \in DOMAIN p.fills :
          /\ p.fills[i].order \in book
          /\ p.fills[i].order \notin unavailable
          /\ Terms[p.fills[i].order].market = Terms[taker].market
          /\ Terms[p.fills[i].order].claim = MakerClaim(kind, taker)
          /\ Terms[p.fills[i].order].side = MakerSide(kind, taker)
          /\ Crossed(kind, taker, p.fills[i].order)
          /\ p.fills[i].amount \in 1..RemainingClaim(taker, takerFilled)
          /\ p.fills[i].amount <=
                RemainingClaim(p.fills[i].order, makerFilled[p.fills[i].order])
          /\ CanFill(p.fills[i].order, makerFilled[p.fills[i].order], p.fills[i].amount)
    /\ \A i, j \in DOMAIN p.fills : p.fills[i].order = p.fills[j].order => i = j

LEMMA PlanOfKindSound ==
    ASSUME NEW kind, NEW levels, NEW book \in SUBSET Orders, SoundLevels(levels, book),
           \A o \in book : ValidBasic(o),
           NEW makerFilled \in [Orders -> Nat],
           NEW taker \in Orders, NEW takerFilled \in Nat, NEW unavailable,
           NEW p, p = PlanOfKind(kind, levels, makerFilled, taker, takerFilled, unavailable)
    PROVE  \/ p = NoMatch
           \/ p = MatchFailed
           \/ SoundMatch(p, kind, book, makerFilled, taker, takerFilled, unavailable)
  <1> DEFINE market == Terms[taker].market
             claim  == MakerClaim(kind, taker)
             side   == MakerSide(kind, taker)
             makers == Priority(levels, market, claim, side)
             n == Len(makers)
             b == Turns(kind, makers, makerFilled, taker, takerFilled, unavailable)[n]
             limit  == CollateralDelta(taker, takerFilled, b.taken)
             actual == TakerActualCollateral(kind, b)
  <1>1. p = FinishPlan(b, kind, taker, takerFilled)
    BY DEF PlanOfKind
  <1>2. /\ makers \in Seq(Orders)
        /\ \A i \in DOMAIN makers :
              /\ makers[i] \in book
              /\ Terms[makers[i]].market = market
              /\ Terms[makers[i]].claim = claim
              /\ Terms[makers[i]].side = side
        /\ \A i, j \in DOMAIN makers : makers[i] = makers[j] => i = j
    <2> HIDE DEF market, claim, side
    <2> QED  BY MakersProperties
  <1> HIDE DEF makers
  <1>3. n \in Nat /\ DOMAIN makers = 1..n
    BY <1>2
  <1>7. LoopInv(n, b, kind, makers, makerFilled, taker, takerFilled, unavailable)
    <2>1. n \in 0..n
      BY <1>3
    <2> QED  BY <1>2, <2>1, LoopEnds
  <1> HIDE DEF n, b, market, claim, side
  <1>8. CASE \/ b.stage = "Failed" \/ b.taken = 0
             \/ ~CanFill(taker, takerFilled, b.taken)
             \/ kind # "Direct" /\ b.collateral > b.taken
             \/ ~WithinTakerPrice(taker, actual, limit)
    BY <1>1, <1>8 DEF FinishPlan
  <1>9. CASE /\ b.stage # "Failed" /\ b.taken # 0
             /\ CanFill(taker, takerFilled, b.taken)
             /\ ~(kind # "Direct" /\ b.collateral > b.taken)
             /\ WithinTakerPrice(taker, actual, limit)
    <2>1. p = [outcome |-> "Matched", kind |-> kind, taken |-> b.taken,
               takerCollateral |-> actual, makerCollateral |-> b.collateral,
               fills |-> b.fills]
      BY <1>1, <1>9 DEF FinishPlan
    <2> HIDE DEF actual, limit
    <2>2. /\ p.outcome = "Matched" /\ p.kind = kind /\ p.taken = b.taken
          /\ p.takerCollateral = actual /\ p.makerCollateral = b.collateral
          /\ p.fills = b.fills
      BY <2>1
    <2>3. /\ b.taken \in Int /\ b.collateral \in Int /\ b.fills \in Seq(FillType)
          /\ b.taken >= 0
          /\ b.taken > 0 => b.taken <= RemainingClaim(taker, takerFilled)
          /\ b.fills = <<>> <=> b.taken = 0
          /\ Len(b.fills) <= MaxMakerOrders
          /\ b.taken = Total(Amounts(b.fills))
          /\ b.collateral = Total(Collaterals(b.fills, makerFilled))
      BY <1>7 DEF LoopInv, Builder
    <2>4. RemainingClaim(taker, takerFilled) \in Int
      BY ClaimType DEF RemainingClaim
    <2>5. p.taken \in 1..RemainingClaim(taker, takerFilled)
      BY <1>9, <2>2, <2>3, <2>4
    <2>6. p.fills \in Seq(FillType) /\ Len(p.fills) \in 1..MaxMakerOrders
      <3>1. b.fills # <<>>
        BY <1>9, <2>3
      <3>2. Len(b.fills) \in Nat /\ Len(b.fills) # 0
        BY <2>3, <3>1
      <3> QED  BY <2>2, <2>3, <3>2, MakersAssumption
    <2>7. p.takerCollateral = IF kind = "Direct" THEN p.makerCollateral
                              ELSE p.taken - p.makerCollateral
      BY <2>2 DEF actual, TakerActualCollateral
    <2>8. kind # "Direct" => p.makerCollateral <= p.taken
      BY <1>9, <2>2, <2>3
    <2>9. \A i \in DOMAIN p.fills :
             /\ p.fills[i].order \in book
             /\ p.fills[i].order \notin unavailable
             /\ Terms[p.fills[i].order].market = market
             /\ Terms[p.fills[i].order].claim = claim
             /\ Terms[p.fills[i].order].side = side
             /\ Crossed(kind, taker, p.fills[i].order)
             /\ p.fills[i].amount \in 1..RemainingClaim(taker, takerFilled)
             /\ p.fills[i].amount <=
                   RemainingClaim(p.fills[i].order, makerFilled[p.fills[i].order])
             /\ CanFill(p.fills[i].order, makerFilled[p.fills[i].order], p.fills[i].amount)
      <3> SUFFICES ASSUME NEW i \in DOMAIN p.fills
                   PROVE  /\ p.fills[i].order \in book
                          /\ p.fills[i].order \notin unavailable
                          /\ Terms[p.fills[i].order].market = market
                          /\ Terms[p.fills[i].order].claim = claim
                          /\ Terms[p.fills[i].order].side = side
                          /\ Crossed(kind, taker, p.fills[i].order)
                          /\ p.fills[i].amount \in 1..RemainingClaim(taker, takerFilled)
                          /\ p.fills[i].amount <=
                                RemainingClaim(p.fills[i].order, makerFilled[p.fills[i].order])
                          /\ CanFill(p.fills[i].order, makerFilled[p.fills[i].order],
                                     p.fills[i].amount)
        OBVIOUS
      <3>1. GoodFill(b.fills[i], n, kind, makers, makerFilled, taker, takerFilled, unavailable)
        BY <1>7, <2>2 DEF LoopInv
      <3>2. PICK j \in 1..n :
              /\ b.fills[i].order = makers[j]
              /\ Crossed(kind, taker, makers[j])
              /\ makers[j] \notin unavailable
              /\ b.fills[i].amount \in 1..RemainingClaim(taker, takerFilled)
              /\ b.fills[i].amount <= RemainingClaim(makers[j], makerFilled[makers[j]])
              /\ CanFill(makers[j], makerFilled[makers[j]], b.fills[i].amount)
        BY <3>1 DEF GoodFill
      <3> QED  BY <1>2, <1>3, <2>2, <3>2
    <2>10. \A i, j \in DOMAIN p.fills : p.fills[i].order = p.fills[j].order => i = j
      BY <1>7, <2>2 DEF LoopInv
    <2>11. /\ CanFill(taker, takerFilled, p.taken)
           /\ WithinTakerPrice(taker, p.takerCollateral,
                               CollateralDelta(taker, takerFilled, p.taken))
      BY <1>9, <2>2 DEF limit
    <2>12. /\ p.taken = Total(Amounts(p.fills))
           /\ p.makerCollateral = Total(Collaterals(p.fills, makerFilled))
      BY <2>2, <2>3
    <2> QED
      BY <2>2, <2>5, <2>6, <2>7, <2>8, <2>9, <2>10, <2>11, <2>12
      DEF SoundMatch, market, claim, side
  <1> QED  BY <1>8, <1>9

\* Every match that the matcher returns, of whatever kind, is sound.
LEMMA PlanMatchSound ==
    ASSUME NEW levels, NEW book \in SUBSET Orders, SoundLevels(levels, book),
           \A o \in book : ValidBasic(o),
           NEW makerFilled \in [Orders -> Nat],
           NEW taker \in Orders, NEW takerFilled \in Nat, NEW unavailable,
           NEW p, p = PlanMatch(levels, makerFilled, taker, takerFilled, unavailable)
    PROVE  \/ p = NoMatch
           \/ p = MatchFailed
           \/ \E kind \in {"Direct", "MintAssisted", "MergeAssisted"} :
                 SoundMatch(p, kind, book, makerFilled, taker, takerFilled, unavailable)
  <1>1. PICK kind \in {"Direct", "MintAssisted", "MergeAssisted"} :
          p = PlanOfKind(kind, levels, makerFilled, taker, takerFilled, unavailable)
    BY DEF PlanMatch
  <1> QED  BY <1>1, PlanOfKindSound
=============================================================================
