------------------------------- MODULE Keeper -------------------------------
(***************************************************************************)
(* The adapter keeper (asceswap-adapter-keeper, lib.rs).  In a loop it     *)
(* simulates, sends and awaits one poke transaction per target, one target *)
(* after the other; an error is counted and the loop goes on.  A cycle     *)
(* with an error is followed by a shorter sleep.  The clock is read once   *)
(* per cycle and a target whose market has ended by then is skipped.       *)
(*                                                                         *)
(* A target is its place in the configuration.  Requests for, and          *)
(* transactions to, a broken target may fail; what is broken does not      *)
(* change.  A clock before the epoch, which ends the program, is left out. *)
(***************************************************************************)
EXTENDS Integers, Sequences

CONSTANTS
    None,
    EndOf,              \* the end_timestamp of each target, or None
    Interval,           \* KeeperConfig::interval, in ticks
    RetryInterval,      \* KeeperConfig::retry_interval
    MaxTime             \* bound: the time at which the clock stands still

Targets == DOMAIN EndOf

ASSUME KeeperAssumption ==
    /\ EndOf \in Seq(Nat \cup {None}) /\ EndOf # <<>>
    /\ None \notin Nat
    /\ Interval \in Nat /\ RetryInterval \in Nat /\ MaxTime \in Nat

VARIABLES
    broken, dryRun,     \* the broken targets; KeeperConfig::dry_run
    clock,
    cycleNow,           \* run_once's now
    current,            \* the target run_once is at
    at,                 \* what the keeper does next
    receipt,            \* of the transaction the keeper waits for
    failed,             \* whether report.failed is above zero
    sleep,              \* what is left of the sleep, in ticks
    poked,              \* history: the targets poked on chain in this cycle
    late                \* history: the pokes sent after a target's end

config == <<broken, dryRun>>
report == <<cycleNow, current, at, failed, sleep>>
vars   == <<config, report, clock, receipt, poked, late>>

\* target_expired
Ended(t, now) == EndOf[t] # None /\ now >= EndOf[t]

KeeperInit ==
    /\ broken \in SUBSET Targets /\ dryRun \in BOOLEAN
    /\ clock = 0 /\ cycleNow = 0
    /\ current = 1 /\ at = "Sleep" /\ sleep = 0
    /\ receipt = "NoReceipt" /\ failed = FALSE
    /\ poked = {} /\ late = [t \in Targets |-> 0]
-----------------------------------------------------------------------------
\* Faulty variants: the clock is read once for ever; the first target is at
\* place zero.
StartCycleAtOldTime ==
    /\ at = "Sleep" /\ sleep = 0
    /\ current' = 1 /\ at' = "Target" /\ failed' = FALSE /\ poked' = {}
    /\ UNCHANGED <<config, clock, cycleNow, receipt, sleep, late>>

StartCycleAtZero ==
    /\ at = "Sleep" /\ sleep = 0
    /\ cycleNow' = clock
    /\ current' = 0 /\ at' = "Target" /\ failed' = FALSE /\ poked' = {}
    /\ UNCHANGED <<config, clock, receipt, sleep, late>>

StartCycle ==
    /\ at = "Sleep" /\ sleep = 0
    /\ cycleNow' = clock
    /\ current' = 1 /\ at' = "Target" /\ failed' = FALSE /\ poked' = {}
    /\ UNCHANGED <<config, clock, receipt, sleep, late>>

Attempting == at = "Target" /\ current \in Targets /\ ~Ended(current, cycleNow)

SkipEnded ==
    /\ at = "Target" /\ current \in Targets /\ Ended(current, cycleNow)
    /\ current' = current + 1
    /\ UNCHANGED <<config, clock, cycleNow, at, receipt, failed, sleep, poked, late>>

\* Faulty variant: the next success makes up for a failure.
ForgetFailure ==
    /\ current' = current + 1 /\ at' = "Target" /\ receipt' = "NoReceipt"
    /\ failed' = FALSE
    /\ UNCHANGED <<cycleNow, sleep>>

\* poke_target returns, to the loop of run_once.
Succeed ==
    /\ current' = current + 1 /\ at' = "Target" /\ receipt' = "NoReceipt"
    /\ UNCHANGED <<cycleNow, failed, sleep>>

\* Faulty variant: an error ends the cycle.
FailCycle ==
    /\ current \in broken
    /\ at' = "Sleep" /\ sleep' = RetryInterval /\ receipt' = "NoReceipt"
    /\ failed' = TRUE
    /\ UNCHANGED <<cycleNow, current>>

Fail ==
    /\ current \in broken
    /\ current' = current + 1 /\ at' = "Target" /\ receipt' = "NoReceipt"
    /\ failed' = TRUE
    /\ UNCHANGED <<cycleNow, sleep>>

Simulate ==
    /\ Attempting
    /\ \/ Fail
       \/ dryRun /\ Succeed
       \/ ~dryRun /\ at' = "Send"
          /\ UNCHANGED <<cycleNow, current, receipt, failed, sleep>>
    /\ UNCHANGED <<config, clock, poked, late>>

Send ==
    /\ at = "Send"
    /\ late' = IF Ended(current, clock) THEN [late EXCEPT ![current] = @ + 1] ELSE late
    /\ \/ Fail
       \/ at' = "Await" /\ receipt' = "Pending"
          /\ UNCHANGED <<cycleNow, current, failed, sleep>>
    /\ UNCHANGED <<config, clock, poked>>

\* Dropped, reverted, or a request that fails while the transaction may still
\* be pending: each is an error, and the transaction is not looked at again.
Await ==
    /\ at = "Await"
    /\ Fail \/ (receipt = "Success" /\ Succeed)
    /\ UNCHANGED <<config, clock, poked, late>>

\* The report of the cycle decides the delay (run_forever).
EndCycle ==
    /\ at = "Target" /\ current = Len(EndOf) + 1
    /\ at' = "Sleep" /\ sleep' = IF failed THEN RetryInterval ELSE Interval
    /\ UNCHANGED <<config, clock, cycleNow, current, receipt, failed, poked, late>>

\* The chain.
Mine ==
    /\ receipt = "Pending"
    /\ \/ receipt' = "Success" /\ poked' = poked \cup {current}
       \/ current \in broken /\ receipt' \in {"Reverted", "Dropped"} /\ UNCHANGED poked
    /\ UNCHANGED <<config, report, clock, late>>

Tick ==
    /\ clock < MaxTime \/ sleep > 0
    /\ clock' = IF clock < MaxTime THEN clock + 1 ELSE clock
    /\ sleep' = IF sleep > 0 THEN sleep - 1 ELSE 0
    /\ UNCHANGED <<config, cycleNow, current, at, receipt, failed, poked, late>>

KeeperStep ==
    StartCycle \/ SkipEnded \/ Simulate \/ Send \/ Await \/ EndCycle

KeeperNext == KeeperStep \/ Mine \/ Tick

\* The keeper's loop goes on, a transaction is mined or dropped some time, and
\* time passes.
KeeperSpec ==
    KeeperInit /\ [][KeeperNext]_vars
    /\ WF_vars(KeeperStep) /\ WF_vars(Mine) /\ WF_vars(Tick)
-----------------------------------------------------------------------------
KeeperTypeOK ==
    /\ broken \subseteq Targets /\ dryRun \in BOOLEAN
    /\ clock \in 0..MaxTime /\ cycleNow \in 0..MaxTime
    /\ current \in 1..Len(EndOf) + 1
    /\ at \in {"Sleep", "Target", "Send", "Await"}
    /\ receipt \in {"NoReceipt", "Pending", "Success", "Reverted", "Dropped"}
    /\ failed \in BOOLEAN
    /\ sleep \in Nat
    /\ poked \subseteq Targets
    /\ late \in [Targets -> Nat]

(***************************************************************************)
(* A target is poked at most once after its market has ended: the cycle    *)
(* that began before the end still works with its old time, no later one   *)
(* touches the target (run_once, target_expired).                          *)
(***************************************************************************)
PokedOnceAfterEnd == \A t \in Targets : late[t] <= 1

(***************************************************************************)
(* The keeper sleeps longer than the retry interval only when every target *)
(* that had not ended has been poked on the chain in the cycle: no failure *)
(* of any kind, at any place in the list, is forgotten by what follows it. *)
(***************************************************************************)
LongSleepWhenAllPoked ==
    at = "Sleep" /\ sleep > RetryInterval /\ ~dryRun =>
        \A t \in Targets : Ended(t, cycleNow) \/ t \in poked

(***************************************************************************)
(* A target that works and does not end is poked again and again, whatever *)
(* goes wrong with the others (the loop of run_once logs and goes on).     *)
(***************************************************************************)
HealthyKeepBeingPoked ==
    \A t \in Targets :
        [](~dryRun /\ t \notin broken /\ EndOf[t] = None)
            => []<>(current = t /\ receipt = "Success")
=============================================================================
