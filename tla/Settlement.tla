----------------------------- MODULE Settlement -----------------------------
(***************************************************************************)
(* The executor (asceswap-executor) between the service and the chain.  It *)
(* lists the reservations that the store has as Reserved and takes them    *)
(* one after another: it simulates the match, sends the transaction, marks *)
(* the reservation submitted, waits for the receipt and then commits or    *)
(* releases the reservation.  Each of these is a request of its own, and   *)
(* between them the service serves clients, the chain goes on, and any of  *)
(* the processes may fail.  Whatever fails, the executor goes on to the    *)
(* next reservation and forgets this one.                                  *)
(*                                                                         *)
(* The chain is external: matchOrders succeeds only if no order of the     *)
(* match is filled beyond its size, and may be refused for other reasons   *)
(* (balances, allowances, epochs).  All orders are new to the chain, and   *)
(* only the executor marks, commits and releases.                          *)
(***************************************************************************)
EXTENDS Service, FiniteSets

CONSTANTS
    DryRun,                         \* ExecutorConfig::dry_run
    ReleaseOnSimulationFailure,     \* ExecutorConfig::release_on_simulation_failure
    ListLimit,                      \* ExecutorConfig::reservation_limit
    Unsigned,                       \* the orders submitted without a signature
    MaxTransactions                 \* bound: the transactions ever sent

ASSUME ExecutorAssumption ==
    /\ DryRun \in BOOLEAN
    /\ ReleaseOnSimulationFailure \in BOOLEAN
    /\ ListLimit \in Nat \ {0}
    /\ Unsigned \subseteq Orders
    /\ MaxTransactions \in Nat

\* Orders are new to the chain when they come.
ASSUME FreshAssumption == \A command \in Commands : command.context.filled = 0

VARIABLES
    todo,           \* the listed reservations not tried yet
    step,           \* what the executor does next
    current,        \* the reservation it works on, or None
    sent,           \* the transaction it waits for, or 0
    transactions,   \* the transactions sent, with what became of them
    chainFilled     \* the claim amount of each order filled on chain

executorVars == <<todo, step, current, sent>>
chainVars    == <<transactions, chainFilled>>
systemVars   == <<allVars, executorVars, chainVars>>

Steps    == {"Idle", "Sending", "Marking", "Waiting", "Committing", "Releasing"}
Outcomes == {"Pending", "Succeeded", "Reverted", "Dropped"}

Transaction == [reservation : Reservations, outcome : Outcomes]

SystemInit ==
    /\ ServiceInit
    /\ todo = {}
    /\ step = "Idle"
    /\ current = None
    /\ sent = 0
    /\ transactions = <<>>
    /\ chainFilled = [o \in Orders |-> 0]
-----------------------------------------------------------------------------
\* The match of reservation r fits what its orders have left on chain.
FitsChain(r) ==
    \A o \in LegOrders(legs[r]) :
        chainFilled[o] + LegAmount(legs[r], o) <= MaxClaim(o)

\* The executor drops what it is doing and takes the next reservation.
GiveUp == step' = "Idle" /\ sent' = 0

\* Faulty variant: an error of the service is not looked at.
HearNothing(answer, next) == step' = next /\ UNCHANGED sent

\* What the executor does after a request that the service answered, or that
\* was not answered.
Hear(answer, next) ==
    \/ answer = "Ok" /\ step' = next /\ UNCHANGED sent
    \/ (answer = "Error" \/ "HttpError" \in Faults) /\ GiveUp

\* A request that does not reach the service, or that the engine refuses
\* without a change.
NotServed(refused) ==
    /\ refused \/ "HttpError" \in Faults
    /\ Hear("Error", "Idle")
    /\ UNCHANGED allVars

\* list_reservations_from_store: the first ListLimit of the reservations in
\* the order of their last updates, at times that the callers name.
Listings ==
    LET due == {r \in Reservations : stored.status[r] = "Reserved"}
    IN  {listing \in SUBSET due :
            \/ listing = due /\ Cardinality(due) <= ListLimit
            \/ Cardinality(listing) = ListLimit}

\* run_once: GET /reservations?status=reserved&limit=...
Poll ==
    /\ step = "Idle" /\ todo = {}
    /\ todo' \in Listings
    /\ UNCHANGED <<step, current, sent, allVars, chainVars>>

\* The engine's settlement_payload: the status does not matter.
PayloadServed(r) ==
    status[r] # "NoReservation" /\ LegOrders(legs[r]) \cap Unsigned = {}

\* GET /reservations/{id}/settlement and eth_call.
Simulate(r) ==
    /\ step = "Idle" /\ r \in todo
    /\ todo' = todo \ {r}
    /\ current' = r
    /\ \/ /\ PayloadServed(r) /\ FitsChain(r)
          /\ step' = IF DryRun THEN "Idle" ELSE "Sending"
       \/ /\ PayloadServed(r)
          /\ ~FitsChain(r) \/ {"RpcError", "Revert"} \cap Faults # {}
          /\ step' = IF ReleaseOnSimulationFailure THEN "Releasing" ELSE "Idle"
       \/ /\ ~PayloadServed(r) \/ "HttpError" \in Faults
          /\ step' = "Idle"
    /\ UNCHANGED <<sent, allVars, chainVars>>

\* Sending estimates the gas first; an error may come after the transaction
\* is out.
Send ==
    /\ step = "Sending"
    /\ \/ /\ Len(transactions) < MaxTransactions
          /\ transactions' =
                Append(transactions, [reservation |-> current, outcome |-> "Pending"])
          /\ \/ step' = "Marking" /\ sent' = Len(transactions')
             \/ "RpcError" \in Faults /\ GiveUp
       \/ /\ ~FitsChain(current) \/ "RpcError" \in Faults
          /\ GiveUp
          /\ UNCHANGED transactions
    /\ UNCHANGED <<todo, current, chainFilled, allVars>>

\* POST /reservations/{id}/submitted, with the hash of the transaction.
Mark ==
    /\ step = "Marking"
    /\ \/ \E now \in Times, answer \in Answers :
            /\ MarkReservationRequest(current, now, sent, answer)
            /\ Hear(answer, "Waiting")
       \/ NotServed(status[current] # "Reserved")
    /\ UNCHANGED <<todo, current, chainVars>>

\* Faulty variant: any receipt counts as success.
AwaitAnyReceipt ==
    /\ step = "Waiting"
    /\ transactions[sent].outcome \in {"Succeeded", "Reverted"}
    /\ step' = "Committing" /\ UNCHANGED sent
    /\ UNCHANGED <<todo, current, allVars, chainVars>>

\* Faulty variant: a transaction that reverted is forgotten.
AwaitSuccess ==
    /\ step = "Waiting"
    /\ \/ /\ transactions[sent].outcome = "Succeeded"
          /\ step' = "Committing" /\ UNCHANGED sent
       \/ transactions[sent].outcome \in {"Reverted", "Dropped"} /\ GiveUp
    /\ UNCHANGED <<todo, current, allVars, chainVars>>

AwaitReceipt ==
    /\ step = "Waiting"
    /\ \/ /\ transactions[sent].outcome = "Succeeded"
          /\ step' = "Committing" /\ UNCHANGED sent
       \/ /\ transactions[sent].outcome = "Reverted"
          /\ step' = "Releasing" /\ UNCHANGED sent
       \/ /\ transactions[sent].outcome = "Dropped" \/ "RpcError" \in Faults
          /\ GiveUp
    /\ UNCHANGED <<todo, current, allVars, chainVars>>

\* POST /reservations/{id}/commit.
Commit ==
    /\ step = "Committing"
    /\ \/ \E answer \in Answers :
            CommitReservationRequest(current, answer) /\ GiveUp
       \/ NotServed(status[current] # "Submitted")
    /\ UNCHANGED <<todo, current, chainVars>>

\* POST /reservations/{id}/release.
Release ==
    /\ step = "Releasing"
    /\ \/ \E answer \in Answers :
            ReleaseReservationRequest(current, answer) /\ GiveUp
       \/ NotServed(~Active(current))
    /\ UNCHANGED <<todo, current, chainVars>>

ExecutorStep ==
    \/ Poll
    \/ \E r \in todo : Simulate(r)
    \/ Send \/ Mark \/ AwaitReceipt \/ Commit \/ Release

ExecutorCrash ==
    /\ "ExecutorCrash" \in Faults
    /\ GiveUp
    /\ todo' = {} /\ current' = None
    /\ UNCHANGED <<allVars, chainVars>>
-----------------------------------------------------------------------------
\* External: the chain decides transaction i.
Decide(i) ==
    LET r == transactions[i].reservation
        Ends(outcome) == transactions' = [transactions EXCEPT ![i].outcome = outcome]
    IN  /\ transactions[i].outcome = "Pending"
        /\ \/ /\ FitsChain(r)
              /\ Ends("Succeeded")
              /\ chainFilled' = [o \in Orders |-> chainFilled[o] + LegAmount(legs[r], o)]
           \/ /\ ~FitsChain(r) \/ "Revert" \in Faults
              /\ Ends("Reverted") /\ UNCHANGED chainFilled
           \/ /\ "Drop" \in Faults
              /\ Ends("Dropped") /\ UNCHANGED chainFilled
        /\ UNCHANGED <<executorVars, allVars>>

\* Requests of others: orders, cancellations, and the expiry of reservations.
OtherRequest ==
    /\ \/ ClientRequest
       \/ \E r \in Reservations, now \in Times, answer \in Answers :
            ExpireReservationRequest(r, now, answer)
    /\ UNCHANGED <<executorVars, chainVars>>

ServiceCrash == Recover /\ UNCHANGED <<executorVars, chainVars>>

SystemNext ==
    \/ OtherRequest
    \/ ServiceCrash
    \/ ExecutorStep
    \/ ExecutorCrash
    \/ \E i \in DOMAIN transactions : Decide(i)

SystemSpec == SystemInit /\ [][SystemNext]_systemVars

\* The executor's loop and the chain go on.  Clients owe nothing, and no
\* fault has to happen.
Fairness ==
    /\ WF_systemVars(ExecutorStep)
    /\ \A i \in 1..MaxTransactions :
          WF_systemVars(i \in DOMAIN transactions /\ Decide(i))

FairSystemSpec == SystemSpec /\ Fairness
-----------------------------------------------------------------------------
SystemTypeOK ==
    /\ ServiceTypeOK
    /\ todo \subseteq Reservations
    /\ step \in Steps
    /\ current \in Reservations \cup {None}
    /\ sent \in 0..MaxTransactions
    /\ transactions \in Seq(Transaction) /\ Len(transactions) <= MaxTransactions
    /\ chainFilled \in [Orders -> Nat]

TransactionsOf(r) == {i \in DOMAIN transactions : transactions[i].reservation = r}

(***************************************************************************)
(* A reservation is Committed, in the engine or in the store, only if a    *)
(* transaction of it succeeded on chain, whatever requests, answers and    *)
(* processes were lost on the way (execute_reservation).                   *)
(***************************************************************************)
CommittedOnChain ==
    \A r \in Reservations :
        "Committed" \in {status[r], stored.status[r]} =>
            \E i \in TransactionsOf(r) : transactions[i].outcome = "Succeeded"

(***************************************************************************)
(* The engine and the store never count more of an order as filled than    *)
(* the chain has filled: a transaction is counted once at most, even if    *)
(* its reservation is marked or committed again after a lost answer or a   *)
(* restart.                                                                *)
(***************************************************************************)
FilledOnChain ==
    \A o \in Orders :
        filled[o] <= chainFilled[o] /\ stored.filled[o] <= chainFilled[o]

(***************************************************************************)
(* While the executor waits for a receipt or commits, its reservation is   *)
(* Submitted in the engine and in the store, so that neither an expiry nor *)
(* a restart of the service can free the orders of the match under way;    *)
(* and its row has the hash of the very transaction that is awaited, not   *)
(* that of an earlier attempt (record_reservation_tx_hash).                *)
(***************************************************************************)
WaitingIsHeld ==
    step \in {"Waiting", "Committing"} =>
        /\ status[current] = "Submitted" /\ stored.status[current] = "Submitted"
        /\ hashes[current] = sent

(***************************************************************************)
(* The row of a settled reservation has the hash of the transaction that   *)
(* settled it: one sent for this reservation, and one that succeeded.  An  *)
(* earlier attempt may have left the hash of a dropped transaction in the  *)
(* row before a restart made the reservation due again; the write of the   *)
(* engine's reservations, which have no hash, and every later write keep   *)
(* the hash there is (record_reservation_tx_hash, UPSERT_RESERVATION_SQL). *)
(***************************************************************************)
CommittedHashSucceeded ==
    \A r \in Reservations :
        "Committed" \in {status[r], stored.status[r]} =>
            /\ hashes[r] \in TransactionsOf(r)
            /\ transactions[hashes[r]].outcome = "Succeeded"

(***************************************************************************)
(* A match that is on its way to the chain, or there, holds its orders     *)
(* until it is committed.  (For reservations that do not expire, and an    *)
(* executor that is not interrupted.)                                      *)
(***************************************************************************)
InFlightIsHeld ==
    \A i \in DOMAIN transactions :
        transactions[i].outcome \in {"Pending", "Succeeded"} =>
            status[transactions[i].reservation] \in ActiveStatuses \cup {"Committed"}

(***************************************************************************)
(* When the executor is between two reservations, what the engine counts   *)
(* as filled is what the chain has filled.  (Under the same conditions.)   *)
(***************************************************************************)
FilledAgreesWhenIdle ==
    step = "Idle" => filled = chainFilled /\ stored.filled = chainFilled

(***************************************************************************)
(* A match of signed orders does not lock them for ever: the executor      *)
(* takes it up and the chain's answer ends it, although the matches of     *)
(* unsigned orders are listed again in every poll and never end.  (As long *)
(* as these are fewer than the limit on the listing.)                      *)
(***************************************************************************)
EveryReservationEnds ==
    \A r \in Reservations :
        (status[r] = "Reserved" /\ LegOrders(legs[r]) \cap Unsigned = {})
            ~> (status[r] \in TerminalStatuses)

(***************************************************************************)
(* The documentation promises one matchOrders transaction per reservation. *)
(***************************************************************************)
OneTransactionPerReservation ==
    \A i, j \in DOMAIN transactions :
        transactions[i].reservation = transactions[j].reservation => i = j

(***************************************************************************)
(* The documentation of the executor's loop releases a reservation whose   *)
(* transaction fails: one that was dropped does not stay locked.           *)
(***************************************************************************)
FailedTransactionReleases ==
    \A r \in Reservations :
        (\E i \in TransactionsOf(r) : transactions[i].outcome = "Dropped") ~> ~Active(r)
=============================================================================
