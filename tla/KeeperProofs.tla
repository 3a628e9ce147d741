---------------------------- MODULE KeeperProofs ----------------------------
(***************************************************************************)
(* Proofs about Keeper for any list of targets and any intervals.          *)
(***************************************************************************)
EXTENDS Keeper, TLAPS

\* A target that is being poked had not ended when the cycle began.
AttemptsLive == at \in {"Send", "Await"} => current \in Targets /\ ~Ended(current, cycleNow)

\* There is a receipt only while the keeper waits, and a good one means that
\* the target was poked.
ReceiptAwaited ==
    /\ at # "Await" => receipt = "NoReceipt"
    /\ receipt = "Success" => current \in poked

\* While no failure is counted, the targets passed have ended or were poked;
\* a long sleep comes after the whole list and no failure.
FailuresKept ==
    /\ ~dryRun /\ ~failed =>
          \A t \in Targets : t < current => Ended(t, cycleNow) \/ t \in poked
    /\ at = "Sleep" /\ sleep > RetryInterval => ~failed /\ current = Len(EndOf) + 1

\* A target that was poked late will not be sent to in this cycle again, and
\* the next one will find that it has ended.
LateOnce ==
    \A t \in Targets :
        \/ late[t] = 0
        \/ /\ late[t] = 1
           /\ Ended(t, clock)
           /\ \/ Ended(t, cycleNow)
              \/ at = "Sleep"
              \/ t < current
              \/ t = current /\ at = "Await"

KeeperInv ==
    KeeperTypeOK /\ AttemptsLive /\ ReceiptAwaited /\ FailuresKept /\ LateOnce
-----------------------------------------------------------------------------
LEMMA TargetsAreNumbers ==
    /\ Len(EndOf) \in Nat \ {0}
    /\ Targets = 1..Len(EndOf)
    /\ \A t \in Targets : EndOf[t] \in Nat \cup {None}
  BY KeeperAssumption DEF Targets

LEMMA KeeperInitInv == KeeperInit => KeeperInv
  <1> SUFFICES ASSUME KeeperInit PROVE KeeperInv
    OBVIOUS
  <1> USE KeeperAssumption, TargetsAreNumbers DEF KeeperInit
  <1>1. dryRun \in BOOLEAN /\ failed \in BOOLEAN
    OBVIOUS
  <1>2. KeeperTypeOK
    BY <1>1 DEF KeeperTypeOK
  <1>3. AttemptsLive /\ ReceiptAwaited /\ FailuresKept /\ LateOnce
    BY DEF AttemptsLive, ReceiptAwaited, FailuresKept, LateOnce
  <1> QED  BY <1>2, <1>3 DEF KeeperInv

\* Ending is for good.
LEMMA EndedStays ==
    ASSUME NEW t \in Targets, NEW i \in Nat, NEW j \in Nat, i <= j, Ended(t, i)
    PROVE  Ended(t, j)
  BY TargetsAreNumbers DEF Ended

LEMMA StartCycleInv == KeeperInv /\ StartCycle => KeeperInv'
  <1> SUFFICES ASSUME KeeperInv, StartCycle PROVE KeeperInv'
    OBVIOUS
  <1> USE KeeperAssumption, TargetsAreNumbers DEF KeeperInv, StartCycle, config
  <1>1. KeeperTypeOK'
    <2>1. dryRun' \in BOOLEAN /\ failed' \in BOOLEAN
      BY DEF KeeperTypeOK
    <2>2. current' \in 1..Len(EndOf) + 1
      BY DEF KeeperTypeOK
    <2> QED  BY <2>1, <2>2 DEF KeeperTypeOK
  <1>2. AttemptsLive' /\ ReceiptAwaited' /\ FailuresKept'
    BY DEF KeeperTypeOK, AttemptsLive, ReceiptAwaited, FailuresKept
  <1>3. LateOnce'
    BY DEF LateOnce, Ended
  <1> QED  BY <1>1, <1>2, <1>3

LEMMA SkipEndedInv == KeeperInv /\ SkipEnded => KeeperInv'
  <1> SUFFICES ASSUME KeeperInv, SkipEnded PROVE KeeperInv'
    OBVIOUS
  <1> USE KeeperAssumption, TargetsAreNumbers DEF KeeperInv, SkipEnded, config
  <1>1. KeeperTypeOK'
    BY DEF KeeperTypeOK
  <1>2. AttemptsLive' /\ ReceiptAwaited'
    BY DEF AttemptsLive, ReceiptAwaited
  <1>3. FailuresKept'
    BY DEF KeeperTypeOK, FailuresKept, Ended
  <1>4. LateOnce'
    BY DEF KeeperTypeOK, LateOnce, Ended
  <1> QED  BY <1>1, <1>2, <1>3, <1>4

LEMMA SimulateInv == KeeperInv /\ Simulate => KeeperInv'
  <1> SUFFICES ASSUME KeeperInv, Simulate PROVE KeeperInv'
    OBVIOUS
  <1> USE KeeperAssumption, TargetsAreNumbers
      DEF KeeperInv, Simulate, Attempting, Fail, Succeed, config
  <1>1. KeeperTypeOK'
    <2>1. dryRun' \in BOOLEAN /\ failed' \in BOOLEAN
      BY DEF KeeperTypeOK
    <2>2. current' \in 1..Len(EndOf) + 1
      BY DEF KeeperTypeOK
    <2> QED  BY <2>1, <2>2 DEF KeeperTypeOK
  <1>2. AttemptsLive' /\ ReceiptAwaited'
    BY DEF AttemptsLive, ReceiptAwaited, Ended
  <1>3. FailuresKept'
    BY DEF KeeperTypeOK, FailuresKept, Ended
  <1>4. LateOnce'
    BY DEF KeeperTypeOK, LateOnce, Ended
  <1> QED  BY <1>1, <1>2, <1>3, <1>4

LEMMA SendInv == KeeperInv /\ Send => KeeperInv'
  <1> SUFFICES ASSUME KeeperInv, Send PROVE KeeperInv'
    OBVIOUS
  <1> USE KeeperAssumption, TargetsAreNumbers DEF KeeperInv, Send, Fail, config
  <1>1. current \in Targets /\ ~Ended(current, cycleNow) /\ late[current] = 0
    BY DEF KeeperTypeOK, AttemptsLive, LateOnce
  <1>2. KeeperTypeOK'
    <2>1. dryRun' \in BOOLEAN /\ failed' \in BOOLEAN
      BY DEF KeeperTypeOK
    <2>2. current' \in 1..Len(EndOf) + 1
      BY <1>1 DEF KeeperTypeOK
    <2> QED  BY <2>1, <2>2, <1>1 DEF KeeperTypeOK
  <1>3. AttemptsLive' /\ ReceiptAwaited'
    BY <1>1 DEF AttemptsLive, ReceiptAwaited, Ended
  <1>4. FailuresKept'
    BY DEF KeeperTypeOK, FailuresKept, Ended
  <1>5. ASSUME NEW t \in Targets
        PROVE  \/ late'[t] = 0
               \/ /\ late'[t] = 1
                  /\ Ended(t, clock)
                  /\ \/ Ended(t, cycleNow)
                     \/ t < current'
                     \/ t = current' /\ at' = "Await"
    <2>1. CASE t = current
      BY <1>1, <2>1 DEF KeeperTypeOK
    <2>2. CASE t # current
      <3>1. late'[t] = late[t]
        BY <2>2 DEF KeeperTypeOK
      <3> QED  BY <2>2, <3>1 DEF KeeperTypeOK, LateOnce
    <2> QED  BY <2>1, <2>2
  <1>6. LateOnce'
    BY <1>5 DEF LateOnce, Ended
  <1> QED  BY <1>2, <1>3, <1>4, <1>6

LEMMA AwaitInv == KeeperInv /\ Await => KeeperInv'
  <1> SUFFICES ASSUME KeeperInv, Await PROVE KeeperInv'
    OBVIOUS
  <1> USE KeeperAssumption, TargetsAreNumbers DEF KeeperInv, Await, Fail, Succeed, config
  <1>1. KeeperTypeOK'
    <2>1. dryRun' \in BOOLEAN /\ failed' \in BOOLEAN
      BY DEF KeeperTypeOK
    <2>2. current' \in 1..Len(EndOf) + 1
      BY DEF KeeperTypeOK, AttemptsLive
    <2> QED  BY <2>1, <2>2 DEF KeeperTypeOK, AttemptsLive
  <1>2. AttemptsLive' /\ ReceiptAwaited'
    BY DEF AttemptsLive, ReceiptAwaited
  <1>3. FailuresKept'
    BY DEF KeeperTypeOK, ReceiptAwaited, FailuresKept, Ended
  <1>4. LateOnce'
    BY DEF KeeperTypeOK, LateOnce, Ended
  <1> QED  BY <1>1, <1>2, <1>3, <1>4

LEMMA EndCycleInv == KeeperInv /\ EndCycle => KeeperInv'
  <1> SUFFICES ASSUME KeeperInv, EndCycle PROVE KeeperInv'
    OBVIOUS
  <1> USE KeeperAssumption, TargetsAreNumbers DEF KeeperInv, EndCycle, config
  <1>1. KeeperTypeOK'
    BY DEF KeeperTypeOK
  <1>2. AttemptsLive' /\ ReceiptAwaited'
    BY DEF AttemptsLive, ReceiptAwaited
  <1>3. FailuresKept'
    BY DEF KeeperTypeOK, FailuresKept, Ended
  <1>4. LateOnce'
    BY DEF LateOnce, Ended
  <1> QED  BY <1>1, <1>2, <1>3, <1>4

LEMMA MineInv == KeeperInv /\ Mine => KeeperInv'
  <1> SUFFICES ASSUME KeeperInv, Mine PROVE KeeperInv'
    OBVIOUS
  <1> USE KeeperAssumption, TargetsAreNumbers DEF KeeperInv, Mine, config, report
  <1>1. at = "Await" /\ current \in Targets
    BY KeeperAssumption DEF ReceiptAwaited, AttemptsLive
  <1>2. KeeperTypeOK'
    BY <1>1 DEF KeeperTypeOK
  <1>3. AttemptsLive' /\ ReceiptAwaited'
    BY <1>1 DEF AttemptsLive, ReceiptAwaited, Ended
  <1>4. FailuresKept'
    BY DEF FailuresKept, Ended
  <1>5. LateOnce'
    BY DEF LateOnce, Ended
  <1> QED  BY <1>2, <1>3, <1>4, <1>5

LEMMA TickInv == KeeperInv /\ Tick => KeeperInv'
  <1> SUFFICES ASSUME KeeperInv, Tick PROVE KeeperInv'
    OBVIOUS
  <1> USE KeeperAssumption, TargetsAreNumbers DEF KeeperInv, Tick, config
  <1>1. KeeperTypeOK'
    BY DEF KeeperTypeOK
  <1>2. AttemptsLive' /\ ReceiptAwaited'
    BY DEF AttemptsLive, ReceiptAwaited, Ended
  <1>3. FailuresKept'
    BY DEF KeeperTypeOK, FailuresKept, Ended
  <1>4. \A t \in Targets : Ended(t, clock) => Ended(t, clock')
    BY EndedStays DEF KeeperTypeOK
  <1>5. LateOnce'
    BY <1>4 DEF LateOnce, Ended
  <1> QED  BY <1>1, <1>2, <1>3, <1>5

LEMMA KeeperNextInv == KeeperInv /\ [KeeperNext]_vars => KeeperInv'
  <1> SUFFICES ASSUME KeeperInv, [KeeperNext]_vars PROVE KeeperInv'
    OBVIOUS
  <1>1. CASE KeeperNext
    BY <1>1, StartCycleInv, SkipEndedInv, SimulateInv, SendInv, AwaitInv, EndCycleInv,
       MineInv, TickInv DEF KeeperNext, KeeperStep
  <1>2. CASE UNCHANGED vars
    BY <1>2 DEF vars, config, report, KeeperInv, KeeperTypeOK, AttemptsLive,
       ReceiptAwaited, FailuresKept, LateOnce, Ended
  <1> QED  BY <1>1, <1>2

\* The inductive invariant, from which the others follow.
THEOREM KeeperInvariance == KeeperSpec => []KeeperInv
  BY KeeperInitInv, KeeperNextInv, PTL DEF KeeperSpec

\* The keeper's state has its types.
THEOREM KeeperTypeCorrect == KeeperSpec => []KeeperTypeOK
  <1>1. KeeperInv => KeeperTypeOK
    BY DEF KeeperInv
  <1> QED  BY <1>1, KeeperInvariance, PTL

\* A target is poked at most once after its market has ended, however long a
\* cycle takes and whatever fails in it.
THEOREM NeverPokedTwiceAfterEnd == KeeperSpec => []PokedOnceAfterEnd
  <1>1. KeeperInv => PokedOnceAfterEnd
    BY DEF KeeperInv, LateOnce, PokedOnceAfterEnd
  <1> QED  BY <1>1, KeeperInvariance, PTL

\* No failure is forgotten: a long sleep means that every target which had not
\* ended was poked.
THEOREM NoFailureForgotten == KeeperSpec => []LongSleepWhenAllPoked
  <1>1. KeeperInv => LongSleepWhenAllPoked
    BY TargetsAreNumbers DEF KeeperInv, FailuresKept, LongSleepWhenAllPoked
  <1> QED  BY <1>1, KeeperInvariance, PTL
=============================================================================
