-------------------------- MODULE SettlementProofs --------------------------
(***************************************************************************)
(* Proofs about the executor, the service and the chain together, for any  *)
(* orders, listings and faults: what the engine and the store say has been *)
(* committed and filled is never more than the chain has done.             *)
(***************************************************************************)
EXTENDS Settlement, ServiceProofs

USE DEF Reservations

\* The executor is between two reservations, or at work on one that the store
\* has and, once sent, on the transaction of that one.
ExecutorInv ==
    /\ todo \subseteq StoredReservations
    /\ step \in Steps
    /\ current \in Reservations \cup {None}
    /\ step # "Idle" => current \in StoredReservations
    /\ sent \in 0..Len(transactions)
    /\ step \in {"Marking", "Waiting", "Committing"} =>
          sent # 0 /\ transactions[sent].reservation = current
    /\ step = "Committing" => transactions[sent].outcome = "Succeeded"

\* Only what the store has is ever sent.
ChainInv ==
    /\ transactions \in Seq(Transaction)
    /\ Len(transactions) <= MaxTransactions
    /\ \A i \in DOMAIN transactions : transactions[i].reservation \in StoredReservations
    /\ chainFilled \in [Orders -> Nat]

\* The chain has executed the match of reservation r.
Executed(r) == \E i \in TransactionsOf(r) : transactions[i].outcome = "Succeeded"

\* What the rows count as filled, and what they still have to count for a
\* match that the chain has executed, is filled on chain.
OnChain(rows) ==
    \A o \in Orders :
        /\ rows.filled[o] <= chainFilled[o]
        /\ \A r \in Reservations :
              InFlight(rows, r) /\ o \in LegOrders(rows.legs[r]) /\ Executed(r) =>
                  rows.filled[o] + LegAmount(rows.legs[r], o) <= chainFilled[o]

SystemInv ==
    /\ StoreInv
    /\ ExecutorInv
    /\ ChainInv
    /\ WaitingIsHeld
    /\ CommittedOnChain
    /\ CommittedHashSucceeded
    /\ OnChain(Snapshot)
    /\ OnChain(stored)

\* A call that fills nothing, commits nothing and does not touch what it does
\* not end.
Quiet ==
    /\ \A o \in Orders : filled'[o] = filled[o]
    /\ \A r \in Reservations :
          /\ status'[r] = "Committed" => status[r] = "Committed"
          /\ status'[r] \in ActiveStatuses =>
                status[r] = "NoReservation" \/ (status[r] \in ActiveStatuses /\ legs'[r] = legs[r])
-----------------------------------------------------------------------------
(***************************************************************************)
(* The service under the executor.                                         *)
(***************************************************************************)
LEMMA SystemCalls ==
    ASSUME ExecutorInv, SystemNext
    PROVE  ServiceCall \/ Recover \/ UNCHANGED allVars
  <1>1. step # "Idle" => current \in Reservations
    BY DEF ExecutorInv, StoredReservations
  <1>2. ASSUME NEW o \in Orders, NEW command \in Commands, SubmitOrderRequest(o, command)
        PROVE  ServiceCall
    BY <1>2, CommandsAssumption, UnhashedCall
    DEF SubmitOrderRequest, EngineCall, RespondReservation
  <1>3. ASSUME NEW o \in Orders, CancelOrderRequest(o)
        PROVE  ServiceCall
    BY <1>3, UnhashedCall DEF CancelOrderRequest, EngineCall, OtherCall, RespondReservation
  <1>4. CASE OtherRequest
    BY <1>2, <1>3, <1>4, SettlementCalls DEF OtherRequest, ClientRequest, SettlementRequestFor
  <1>5. CASE Mark
    <2>1. sent \in Nat
      BY DEF ExecutorInv
    <2> QED  BY <1>1, <1>5, <2>1, MarkCall DEF Mark, NotServed
  <1>6. CASE Commit
    BY <1>1, <1>6, SettlementCalls DEF Commit, NotServed, SettlementRequestFor
  <1>7. CASE Release
    BY <1>1, <1>7, SettlementCalls DEF Release, NotServed, SettlementRequestFor
  <1>8. CASE ServiceCrash
    BY <1>8 DEF ServiceCrash
  <1>9. CASE Poll \/ (\E r \in todo : Simulate(r)) \/ Send \/ AwaitReceipt \/ ExecutorCrash
    BY <1>9 DEF Poll, Simulate, Send, AwaitReceipt, ExecutorCrash
  <1>10. CASE \E i \in DOMAIN transactions : Decide(i)
    BY <1>10 DEF Decide
  <1> QED
    BY <1>4, <1>5, <1>6, <1>7, <1>8, <1>9, <1>10 DEF SystemNext, ExecutorStep

\* Whatever happens, the store stays sound and does not go back.
LEMMA SystemStores ==
    ASSUME StoreInv, ExecutorInv, [SystemNext]_systemVars
    PROVE  /\ StoreInv'
           /\ stored' \in {stored, Snapshot'}
           /\ \A r \in Reservations : status[r] # "Reserved" => hashes'[r] = hashes[r]
           /\ StoredReservations \subseteq StoredReservations'
  <1>1. RowsSound(stored)
    BY DEF StoreInv
  <1>2. CASE UNCHANGED allVars
    <2>1. UNCHANGED <<stored, hashes>>
      BY <1>2 DEF allVars, serviceVars
    <2> QED  BY <1>2, <2>1, StoreInvStutter DEF StoredReservations
  <1>3. CASE Recover
    <2>1. UNCHANGED <<stored, hashes>>
      BY <1>3 DEF Recover
    <2> QED  BY <1>3, <2>1, StoreInvRecover DEF StoredReservations
  <1>4. CASE ServiceCall
    <2>1. /\ StoreInv' /\ stored' \in {stored, Snapshot'}
          /\ \A r \in Reservations : status[r] # "Reserved" => hashes'[r] = hashes[r]
          /\ NotBehind(stored', stored)
      BY <1>4, StoreInvCall, CallStores
    <2>2. RowsSound(stored')
      BY <2>1, RowsNext DEF StoreInv
    <2>3. \A r \in Reservations : stored.status[r] # "NoReservation" =>
             stored'.status[r] # "NoReservation"
      <3>1. \A r \in Reservations : /\ stored.status[r] \in Statuses \cup {"NoReservation"}
                                   /\ stored'.status[r] \in Statuses \cup {"NoReservation"}
        BY <1>1, <2>2 DEF RowsSound, SnapshotType
      <3>2. \A r \in Reservations : Progress(stored'.status[r]) >= Progress(stored.status[r])
        BY <2>1 DEF NotBehind
      <3> QED
        <4> SUFFICES ASSUME NEW r \in Reservations, stored.status[r] # "NoReservation"
                     PROVE  stored'.status[r] # "NoReservation"
          OBVIOUS
        <4>1. /\ Progress(stored.status[r]) \in 0..3 /\ Progress(stored.status[r]) # 0
              /\ Progress(stored'.status[r]) = 0 <=> stored'.status[r] = "NoReservation"
          BY <3>1, ProgressValue
        <4> QED  BY <3>2, <4>1
    <2> QED  BY <2>1, <2>3 DEF StoredReservations
  <1>5. UNCHANGED systemVars => UNCHANGED allVars
    BY DEF systemVars
  <1> QED  BY <1>2, <1>3, <1>4, <1>5, SystemCalls

\* A reservation that the store has is the one that the engine has.
LEMMA StoredLegs ==
    ASSUME StoreInv, NEW r \in StoredReservations
    PROVE  /\ r \in Reservations /\ legs[r] = stored.legs[r] /\ status[r] # "NoReservation"
           /\ legs[r] \in Seq(Leg)
  <1>1. /\ r \in Reservations /\ stored.status[r] # "NoReservation"
        /\ NotBehind(Snapshot, stored) /\ RowsSound(stored) /\ TypeOK
    BY DEF StoreInv, AnsweredIsDurable, StoredReservations, EngineInv, Inv
  <1>2. legs[r] = stored.legs[r] /\ Progress(status[r]) >= Progress(stored.status[r])
    BY <1>1 DEF NotBehind, Snapshot
  <1>3. /\ stored.status[r] \in Statuses \cup {"NoReservation"}
        /\ status[r] \in Statuses \cup {"NoReservation"} /\ legs[r] \in Seq(Leg)
    BY <1>1 DEF RowsSound, SnapshotType, TypeOK
  <1>4. Progress(stored.status[r]) \in 0..3 /\ Progress(stored.status[r]) # 0
    BY <1>1, <1>3, ProgressValue
  <1>5. Progress(status[r]) = 0 <=> status[r] = "NoReservation"
    BY <1>3, ProgressValue
  <1> QED  BY <1>1, <1>2, <1>3, <1>4, <1>5
-----------------------------------------------------------------------------
(***************************************************************************)
(* Which calls are quiet: all but a commit, since what is submitted is new *)
(* to the chain.                                                           *)
(***************************************************************************)
LEMMA SubmitQuiet ==
    ASSUME EngineInv, NEW o \in Orders, NEW command \in Commands, SubmitOrder(o, command)
    PROVE  Quiet /\ (\A r \in Reservations : status[r] # "NoReservation" => status'[r] = status[r])
  <1>1. Submits(o) /\ Inv /\ Blank
    BY SubmitSubmits, CommandsAssumption DEF EngineInv
  <1>2. filled' = [filled EXCEPT ![o] = command.context.filled]
    BY DEF SubmitOrder, AdmitOrder, RejectOrder, LeaveInactive, RestOrder,
       ReserveMatch, NewRecord
  <1>3. filled[o] = 0 /\ command.context.filled = 0
    BY <1>1, FreshAssumption DEF Submits, Blank
  <1>4. \A x \in Orders : filled'[x] = filled[x]
    BY <1>1, <1>2, <1>3 DEF Inv, TypeOK
  <1> QED  BY <1>1, <1>4 DEF Quiet, Submits, ActiveStatuses

LEMMA LetGoQuiet ==
    ASSUME Inv, NEW r \in Reservations, NEW ending \in {"Released", "Expired"},
           LetGo({r}, ending)
    PROVE  Quiet /\ (\A q \in Reservations \ {r} : status'[q] = status[q])
  <1>1. /\ UNCHANGED <<filled, legs>>
        /\ \A q \in Reservations : status'[q] = IF q = r THEN ending ELSE status[q]
    BY DEF LetGo
  <1> QED  BY <1>1 DEF Quiet, ActiveStatuses

LEMMA MarkQuiet ==
    ASSUME Inv, NEW r \in Reservations, NEW now, MarkReservationSubmitted(r, now)
    PROVE  Quiet /\ status'[r] = "Submitted"
  <1>1. /\ UNCHANGED <<filled, legs>> /\ status[r] = "Reserved"
        /\ status' = [status EXCEPT ![r] = "Submitted"]
        /\ status \in [Reservations -> Statuses \cup {"NoReservation"}]
    BY DEF MarkReservationSubmitted, Inv, TypeOK
  <1> QED  BY <1>1 DEF Quiet, ActiveStatuses

LEMMA CancelQuiet ==
    ASSUME NEW o \in Orders, CancelOrder(o)
    PROVE  Quiet /\ UNCHANGED status
  BY DEF CancelOrder, reservations, Quiet, ActiveStatuses
-----------------------------------------------------------------------------
(***************************************************************************)
(* The executor and the transactions.                                      *)
(***************************************************************************)
LEMMA ChainInvStep ==
    ASSUME ExecutorInv, ChainInv, StoreInv, [SystemNext]_systemVars
    PROVE  ChainInv'
  <1>1. StoredReservations \subseteq StoredReservations'
    BY SystemStores
  <1>2. CASE UNCHANGED chainVars
    BY <1>1, <1>2 DEF chainVars, ChainInv, Transaction, Outcomes
  <1>3. CASE Send
    <2>1. current \in StoredReservations /\ current \in Reservations
      BY <1>3 DEF Send, ExecutorInv, StoredReservations
    <2>2. chainFilled' = chainFilled
      BY <1>3 DEF Send
    <2>3. CASE UNCHANGED transactions
      BY <1>2, <2>2, <2>3 DEF chainVars
    <2>4. CASE /\ Len(transactions) < MaxTransactions
               /\ transactions' =
                     Append(transactions, [reservation |-> current, outcome |-> "Pending"])
      <3> DEFINE t == [reservation |-> current, outcome |-> "Pending"]
      <3>1. t \in Transaction
        BY <2>1 DEF Transaction, Outcomes
      <3>2. transactions \in Seq(Transaction) /\ MaxTransactions \in Nat
        BY ExecutorAssumption DEF ChainInv
      <3>3. /\ transactions' \in Seq(Transaction)
            /\ Len(transactions') = Len(transactions) + 1
            /\ \A i \in DOMAIN transactions' :
                  IF i = Len(transactions) + 1 THEN transactions'[i] = t
                  ELSE i \in DOMAIN transactions /\ transactions'[i] = transactions[i]
        BY <2>4, <3>1, <3>2
      <3>4. Len(transactions') <= MaxTransactions
        BY <2>4, <3>2, <3>3
      <3>5. t.reservation \in StoredReservations
        BY <2>1
      <3>6. \A i \in DOMAIN transactions' : transactions'[i].reservation \in StoredReservations'
        BY <1>1, <3>3, <3>5 DEF ChainInv
      <3> QED  BY <2>2, <3>3, <3>4, <3>6 DEF ChainInv, Transaction, Outcomes
    <2> QED  BY <1>3, <2>3, <2>4 DEF Send
  <1>4. ASSUME NEW i \in DOMAIN transactions, Decide(i)
        PROVE  ChainInv'
    <2>1. /\ i \in 1..Len(transactions)
          /\ transactions[i].reservation \in StoredReservations
          /\ transactions \in Seq(Transaction)
      BY DEF ChainInv
    <2>2. PICK outcome \in {"Succeeded", "Reverted", "Dropped"} :
             transactions' = [transactions EXCEPT ![i].outcome = outcome]
      BY <1>4 DEF Decide
    <2>3. /\ transactions' \in Seq(Transaction) /\ Len(transactions') = Len(transactions)
          /\ \A j \in DOMAIN transactions' :
                j \in DOMAIN transactions
                /\ transactions'[j].reservation = transactions[j].reservation
      <3> DEFINE t == [transactions[i] EXCEPT !.outcome = outcome]
      <3>1. transactions' = [transactions EXCEPT ![i] = t]
        BY <2>2
      <3>2. transactions[i] \in Transaction
        BY <2>1
      <3>3. t \in Transaction /\ t.reservation = transactions[i].reservation
        BY <3>2 DEF Transaction, Outcomes
      <3> HIDE DEF t
      <3> QED  BY <2>1, <3>1, <3>3
    <2>4. chainFilled' \in [Orders -> Nat]
      <3>1. legs[transactions[i].reservation] \in Seq(Leg)
        BY <2>1, StoredLegs
      <3>2. \A o \in Orders : LegAmount(legs[transactions[i].reservation], o) \in Nat
        BY <3>1, LegAmountType
      <3>3. \A o \in Orders : chainFilled[o] + LegAmount(legs[transactions[i].reservation], o) \in Nat
        BY <3>2 DEF ChainInv
      <3> QED  BY <1>4, <3>3 DEF Decide, ChainInv
    <2>5. \A j \in DOMAIN transactions' : transactions'[j].reservation \in StoredReservations'
      BY <1>1, <2>3 DEF ChainInv
    <2> QED  BY <2>3, <2>4, <2>5 DEF ChainInv, Transaction, Outcomes
  <1>5. CASE \/ OtherRequest \/ ServiceCrash \/ Poll \/ (\E r \in todo : Simulate(r))
             \/ Mark \/ AwaitReceipt \/ Commit \/ Release \/ ExecutorCrash
             \/ UNCHANGED systemVars
    BY <1>2, <1>5
    DEF OtherRequest, ServiceCrash, Poll, Simulate, Mark, AwaitReceipt, Commit, Release,
        ExecutorCrash, systemVars
  <1> QED  BY <1>3, <1>4, <1>5 DEF SystemNext, ExecutorStep

\* The record of the transactions only grows, and what is decided stays.
LEMMA TransactionsKept ==
    ASSUME ChainInv, [SystemNext]_systemVars, NEW i \in DOMAIN transactions
    PROVE  /\ i \in DOMAIN transactions'
           /\ transactions'[i].reservation = transactions[i].reservation
           /\ transactions[i].outcome # "Pending" => transactions'[i] = transactions[i]
           /\ Len(transactions') >= Len(transactions)
  <1>1. transactions \in Seq(Transaction) /\ i \in 1..Len(transactions)
    BY DEF ChainInv
  <1>2. CASE UNCHANGED transactions
    BY <1>1, <1>2
  <1>3. CASE transactions' =
                Append(transactions, [reservation |-> current, outcome |-> "Pending"])
    BY <1>1, <1>3
  <1>4. ASSUME NEW j \in DOMAIN transactions, NEW outcome,
               transactions[j].outcome = "Pending",
               transactions' = [transactions EXCEPT ![j].outcome = outcome]
        PROVE  /\ i \in DOMAIN transactions'
               /\ transactions'[i].reservation = transactions[i].reservation
               /\ transactions[i].outcome # "Pending" => transactions'[i] = transactions[i]
               /\ Len(transactions') >= Len(transactions)
    BY <1>1, <1>4 DEF Transaction
  <1>5. CASE \E j \in DOMAIN transactions : Decide(j)
    BY <1>4, <1>5 DEF Decide
  <1>6. CASE Send
    BY <1>2, <1>3, <1>6 DEF Send
  <1>7. CASE \/ OtherRequest \/ ServiceCrash \/ Poll \/ (\E r \in todo : Simulate(r))
             \/ Mark \/ AwaitReceipt \/ Commit \/ Release \/ ExecutorCrash
             \/ UNCHANGED systemVars
    BY <1>2, <1>7
    DEF OtherRequest, ServiceCrash, Poll, Simulate, Mark, AwaitReceipt, Commit, Release,
        ExecutorCrash, systemVars, chainVars
  <1> QED  BY <1>5, <1>6, <1>7 DEF SystemNext, ExecutorStep

LEMMA ExecutedKept ==
    ASSUME ChainInv, [SystemNext]_systemVars, NEW r, Executed(r)
    PROVE  Executed(r)'
  <1>1. PICK i \in DOMAIN transactions :
           transactions[i].reservation = r /\ transactions[i].outcome = "Succeeded"
    BY DEF Executed, TransactionsOf
  <1>2. /\ i \in DOMAIN transactions' /\ transactions'[i] = transactions[i]
    BY <1>1, TransactionsKept
  <1> QED  BY <1>1, <1>2 DEF Executed, TransactionsOf

LEMMA ExecutorInvStep ==
    ASSUME ExecutorInv, ChainInv, StoreInv, [SystemNext]_systemVars
    PROVE  ExecutorInv'
  <1>1. /\ StoredReservations \subseteq StoredReservations'
        /\ todo \subseteq StoredReservations'
        /\ step # "Idle" => current \in StoredReservations'
    BY SystemStores DEF ExecutorInv
  <1>2. transactions \in Seq(Transaction)
    BY DEF ChainInv
  <1>3. /\ sent \in Nat /\ sent <= Len(transactions) /\ 0 \in 0..Len(transactions')
        /\ Len(transactions') \in Nat
    <2>1. transactions' \in Seq(Transaction)
      BY ChainInvStep DEF ChainInv, Transaction, Outcomes
    <2> QED  BY <1>2, <2>1 DEF ExecutorInv
  <1>4. /\ sent \in 0..Len(transactions')
        /\ sent # 0 => /\ sent \in DOMAIN transactions
                       /\ transactions'[sent].reservation = transactions[sent].reservation
                       /\ transactions[sent].outcome # "Pending" =>
                             transactions'[sent] = transactions[sent]
    <2>1. CASE sent = 0
      BY <1>3, <2>1
    <2>2. CASE sent # 0
      <3>1. sent \in DOMAIN transactions
        BY <1>2, <1>3, <2>2
      <3> QED  BY <1>3, <3>1, TransactionsKept
    <2> QED  BY <2>1, <2>2
  <1>5. CASE UNCHANGED executorVars
    BY <1>1, <1>4, <1>5 DEF executorVars, ExecutorInv
  <1>6. CASE GiveUp /\ todo' \subseteq todo /\ current' \in {current, None}
    BY <1>1, <1>3, <1>6 DEF GiveUp, ExecutorInv, Steps
  <1>7. CASE OtherRequest \/ ServiceCrash \/ (\E i \in DOMAIN transactions : Decide(i))
             \/ UNCHANGED systemVars
    BY <1>5, <1>7 DEF OtherRequest, ServiceCrash, Decide, systemVars
  <1>8. CASE Poll
    BY <1>1, <1>4, <1>8 DEF Poll, Listings, ExecutorInv, StoredReservations
  <1>9. ASSUME NEW r \in todo, Simulate(r)
        PROVE  ExecutorInv'
    <2>1. /\ todo' = todo \ {r} /\ current' = r /\ sent' = sent
          /\ step' \in {"Idle", "Sending", "Releasing"}
      BY <1>9 DEF Simulate
    <2> QED  BY <1>1, <1>4, <2>1 DEF ExecutorInv, Steps, StoredReservations
  <1>10. CASE Send
    <2>1. UNCHANGED <<todo, current>> /\ step = "Sending"
      BY <1>10 DEF Send
    <2>2. CASE GiveUp
      BY <1>6, <2>1, <2>2
    <2>3. CASE /\ transactions' =
                     Append(transactions, [reservation |-> current, outcome |-> "Pending"])
               /\ step' = "Marking" /\ sent' = Len(transactions')
      <3>1. /\ sent' = Len(transactions) + 1 /\ Len(transactions') = Len(transactions) + 1
            /\ transactions'[sent'] = [reservation |-> current, outcome |-> "Pending"]
        BY <1>2, <2>3
      <3> QED  BY <1>1, <1>3, <2>1, <2>3, <3>1 DEF ExecutorInv, Steps
    <2> QED  BY <1>10, <2>2, <2>3 DEF Send
  <1>11. CASE Mark
    <2>1. UNCHANGED <<todo, current>> /\ step = "Marking"
      BY <1>11 DEF Mark
    <2>2. GiveUp \/ (step' = "Waiting" /\ UNCHANGED sent)
      BY <1>11 DEF Mark, NotServed, Hear
    <2> QED  BY <1>1, <1>4, <1>6, <2>1, <2>2 DEF ExecutorInv, Steps
  <1>12. CASE AwaitReceipt
    <2>1. UNCHANGED <<todo, current, transactions>> /\ step = "Waiting"
      BY <1>12 DEF AwaitReceipt, chainVars
    <2>2. \/ GiveUp
          \/ /\ UNCHANGED sent
             /\ \/ step' = "Committing" /\ transactions[sent].outcome = "Succeeded"
                \/ step' = "Releasing"
      BY <1>12 DEF AwaitReceipt
    <2> QED  BY <1>1, <1>4, <1>6, <2>1, <2>2 DEF ExecutorInv, Steps
  <1>13. CASE Commit \/ Release \/ ExecutorCrash
    BY <1>6, <1>13 DEF Commit, Release, ExecutorCrash, NotServed, Hear
  <1> QED
    BY <1>7, <1>8, <1>9, <1>10, <1>11, <1>12, <1>13 DEF SystemNext, ExecutorStep
-----------------------------------------------------------------------------
(***************************************************************************)
(* The matches under way.                                                  *)
(***************************************************************************)

\* A call answered with success has been written.
LEMMA MarkHeard ==
    ASSUME StoreInv, NEW now, current \in StoredReservations, sent # None,
           MarkReservationRequest(current, now, sent, "Ok")
    PROVE  /\ status'[current] = "Submitted" /\ stored'.status[current] = "Submitted"
           /\ hashes'[current] = sent
  <1>1. /\ EngineInv /\ Inv /\ RowsSound(stored) /\ NotBehind(Snapshot, stored)
        /\ current \in Reservations
    BY DEF StoreInv, EngineInv, AnsweredIsDurable, StoredReservations
  <1>2. ~MarkExpiredReservation(current, now) \/ ~Respond("Ok", NoHash)
    BY DEF MarkExpiredReservation, Respond
  <1> DEFINE row == IF sent = None THEN {} ELSE {current} \cap StoredReservations
             recorded == [x \in row |-> sent]
  <1>3. MarkReservationSubmitted(current, now) /\ RespondReservation("Ok", recorded)
    BY <1>2 DEF MarkReservationRequest
  <1>4. current \in DOMAIN recorded /\ recorded[current] = sent
    OBVIOUS
  <1> HIDE DEF recorded
  <1>5. WriteUpdate(recorded)
    BY <1>3 DEF RespondReservation, Respond, Acknowledge
  <1>6. status'[current] = "Submitted"
    BY <1>1, <1>3, MarkQuiet
  <1>7. stored'.status[current] = status'[current]
    BY <1>1, <1>5, <1>6 DEF WriteUpdate
  <1>8. hashes'[current] = sent
    BY <1>1, <1>4, <1>5 DEF WriteUpdate, RowHashes
  <1> QED  BY <1>6, <1>7, <1>8

LEMMA HeldStep ==
    ASSUME StoreInv, ExecutorInv, WaitingIsHeld, [SystemNext]_systemVars
    PROVE  WaitingIsHeld'
  <1>1. /\ EngineInv /\ Inv /\ stored' \in {stored, Snapshot'}
        /\ \A r \in Reservations : status[r] # "Reserved" => hashes'[r] = hashes[r]
        /\ step # "Idle" => current \in Reservations
    BY SystemStores DEF StoreInv, EngineInv, ExecutorInv, StoredReservations
  <1>2. Snapshot'.status = status'
    BY DEF Snapshot
  <1>3. CASE step' \notin {"Waiting", "Committing"}
    BY <1>3 DEF WaitingIsHeld
  <1>4. ASSUME current' = current, sent' = sent, step \in {"Waiting", "Committing"},
               status'[current] = status[current]
        PROVE  WaitingIsHeld'
    BY <1>1, <1>2, <1>4 DEF WaitingIsHeld
  <1>5. CASE UNCHANGED <<executorVars, allVars>>
    BY <1>5 DEF executorVars, allVars, vars, serviceVars, reservations, WaitingIsHeld
  <1>6. CASE OtherRequest
    <2>1. UNCHANGED <<step, current, sent>>
      BY <1>6 DEF OtherRequest, executorVars
    <2>2. ASSUME step \in {"Waiting", "Committing"}
          PROVE  status'[current] = status[current]
      <3>1. status[current] = "Submitted" /\ current \in Reservations
        BY <1>1, <2>2 DEF WaitingIsHeld
      <3>2. ASSUME NEW o \in Orders, NEW command \in Commands, SubmitOrder(o, command)
            PROVE  status'[current] = status[current]
        BY <1>1, <3>1, <3>2, SubmitQuiet
      <3>3. ASSUME NEW o \in Orders, CancelOrder(o)
            PROVE  status'[current] = status[current]
        BY <3>3, CancelQuiet
      <3>4. ASSUME NEW r \in Reservations, NEW now, ExpireReservation(r, now)
            PROVE  status'[current] = status[current]
        <4>1. status[r] = "Reserved" /\ LetGo({r}, "Expired")
          BY <3>4 DEF ExpireReservation
        <4> QED  BY <1>1, <3>1, <4>1, LetGoQuiet
      <3> QED
        BY <1>6, <3>2, <3>3, <3>4
        DEF OtherRequest, ClientRequest, SubmitOrderRequest, CancelOrderRequest,
            ExpireReservationRequest
    <2> QED  BY <1>3, <1>4, <2>1, <2>2
  <1>7. CASE ServiceCrash
    <2>1. status' = stored.status /\ UNCHANGED <<step, current, sent, stored, hashes>>
      BY <1>7 DEF ServiceCrash, Recover, RestoreEngine, executorVars
    <2> QED  BY <2>1 DEF WaitingIsHeld
  <1>8. CASE Mark
    <2>1. step = "Marking" /\ current' = current /\ current \in StoredReservations
      BY <1>8 DEF Mark, ExecutorInv
    <2>2. ASSUME NEW now \in Times, MarkReservationRequest(current, now, sent, "Ok"),
                 UNCHANGED sent
          PROVE  WaitingIsHeld'
      <3>1. sent # None
        BY NoneAssumption DEF ExecutorInv
      <3> QED  BY <2>1, <2>2, <3>1, MarkHeard DEF WaitingIsHeld
    <2>3. CASE GiveUp
      BY <1>3, <2>3 DEF GiveUp
    <2> QED  BY <1>8, <2>2, <2>3 DEF Mark, Hear, NotServed
  <1>9. CASE AwaitReceipt
    <2>1. UNCHANGED <<current, allVars>> /\ step = "Waiting"
      BY <1>9 DEF AwaitReceipt
    <2>2. sent' = sent \/ step' = "Idle"
      BY <1>9 DEF AwaitReceipt, GiveUp
    <2> QED  BY <1>3, <1>4, <2>1, <2>2 DEF allVars, vars, reservations
  <1>10. CASE Poll \/ (\E r \in todo : Simulate(r)) \/ Send \/ Commit \/ Release
              \/ ExecutorCrash
    BY <1>3, <1>10
    DEF Poll, Simulate, Send, Commit, Release, ExecutorCrash, GiveUp, NotServed, Hear
  <1>11. CASE \/ \E i \in DOMAIN transactions : Decide(i)
              \/ UNCHANGED systemVars
    BY <1>5, <1>11 DEF Decide, systemVars
  <1> QED
    BY <1>6, <1>7, <1>8, <1>9, <1>10, <1>11 DEF SystemNext, ExecutorStep
-----------------------------------------------------------------------------
(***************************************************************************)
(* What the engine and the store count, against the chain.                 *)
(***************************************************************************)

\* All steps but a commit are quiet for the engine, or make it what the store
\* says.
LEMMA QuietSteps ==
    ASSUME StoreInv, ExecutorInv, [SystemNext]_systemVars, ~Commit
    PROVE  Quiet \/ Recover
  <1>1. EngineInv /\ Inv /\ (step # "Idle" => current \in Reservations)
    BY DEF StoreInv, EngineInv, ExecutorInv, StoredReservations
  <1>2. ASSUME NEW r \in Reservations, NEW now,
               MarkExpiredReservation(r, now) \/ ExpireReservation(r, now)
        PROVE  Quiet
    BY <1>1, <1>2, LetGoQuiet DEF MarkExpiredReservation, ExpireReservation
  <1>3. CASE UNCHANGED allVars
    BY <1>3 DEF allVars, vars, records, reservations, Quiet
  <1>4. CASE OtherRequest
    BY <1>1, <1>2, <1>4, SubmitQuiet, CancelQuiet
    DEF OtherRequest, ClientRequest, SubmitOrderRequest, CancelOrderRequest,
        ExpireReservationRequest
  <1>5. CASE Mark
    BY <1>1, <1>2, <1>3, <1>5, MarkQuiet DEF Mark, NotServed, MarkReservationRequest
  <1>6. CASE Release
    BY <1>1, <1>3, <1>6, LetGoQuiet
    DEF Release, NotServed, ReleaseReservationRequest, ReleaseReservation
  <1>7. CASE ServiceCrash
    BY <1>7 DEF ServiceCrash
  <1>8. CASE \/ Poll \/ (\E r \in todo : Simulate(r)) \/ Send \/ AwaitReceipt \/ ExecutorCrash
             \/ (\E i \in DOMAIN transactions : Decide(i)) \/ UNCHANGED systemVars
    BY <1>3, <1>8 DEF Poll, Simulate, Send, AwaitReceipt, ExecutorCrash, Decide, systemVars
  <1> QED
    BY <1>4, <1>5, <1>6, <1>7, <1>8 DEF SystemNext, ExecutorStep

\* The executor commits only what has succeeded on chain.
LEMMA CommitExecuted ==
    ASSUME StoreInv, ExecutorInv, Commit
    PROVE  /\ current \in Reservations /\ Executed(current)
           /\ CommitReservation(current) \/ UNCHANGED allVars
           /\ UNCHANGED chainVars
  <1>1. /\ current \in Reservations /\ sent # 0 /\ sent \in 0..Len(transactions)
        /\ transactions[sent].reservation = current
        /\ transactions[sent].outcome = "Succeeded"
    BY DEF Commit, ExecutorInv, StoredReservations
  <1>2. CommitReservation(current) \/ UNCHANGED allVars
    BY DEF Commit, NotServed, CommitReservationRequest
  <1>3. UNCHANGED chainVars
    BY DEF Commit
  <1> QED  BY <1>1, <1>2, <1>3 DEF Executed, TransactionsOf

LEMMA CommittedStep ==
    ASSUME StoreInv, ExecutorInv, ChainInv, CommittedOnChain, [SystemNext]_systemVars
    PROVE  CommittedOnChain'
  <1>1. /\ EngineInv /\ Inv /\ stored' \in {stored, Snapshot'}
    BY SystemStores DEF StoreInv, EngineInv
  <1>2. \A r \in Reservations : Executed(r) => Executed(r)'
    BY ExecutedKept
  <1>3. \A r \in Reservations : "Committed" \in {status[r], stored.status[r]} => Executed(r)
    BY DEF CommittedOnChain, Executed
  <1>4. ASSUME NEW r \in Reservations, status'[r] = "Committed"
        PROVE  Executed(r)
    <2>1. CASE Quiet
      BY <1>3, <1>4, <2>1 DEF Quiet
    <2>2. CASE Recover
      BY <1>3, <1>4, <2>2 DEF Recover, RestoreEngine
    <2>3. CASE Commit
      <3>1. CASE UNCHANGED allVars
        BY <1>3, <1>4, <3>1 DEF allVars, vars, reservations
      <3>2. CASE CommitReservation(current)
        <4>1. \A q \in Reservations \ {current} : status'[q] = status[q]
          BY <1>1, <3>2 DEF CommitReservation, Inv, TypeOK
        <4> QED  BY <1>3, <1>4, <2>3, <4>1, CommitExecuted
      <3> QED  BY <2>3, <3>1, <3>2, CommitExecuted
    <2> QED  BY <2>1, <2>2, <2>3, QuietSteps
  <1>5. \A r \in Reservations : "Committed" \in {status'[r], stored'.status[r]} => Executed(r)'
    BY <1>1, <1>2, <1>3, <1>4 DEF Snapshot
  <1> QED  BY <1>5 DEF CommittedOnChain, Executed

\* A row is settled with the hash of the transaction that was awaited, and no
\* later mark can reach it.
LEMMA CommittedHashStep ==
    ASSUME StoreInv, ExecutorInv, ChainInv, WaitingIsHeld, CommittedHashSucceeded,
           [SystemNext]_systemVars
    PROVE  CommittedHashSucceeded'
  <1> DEFINE Right(r) == /\ hashes[r] \in TransactionsOf(r)
                         /\ transactions[hashes[r]].outcome = "Succeeded"
  <1>1. /\ EngineInv /\ Inv /\ stored' \in {stored, Snapshot'}
        /\ NotBehind(Snapshot, stored)
        /\ \A r \in Reservations : status[r] # "Reserved" => hashes'[r] = hashes[r]
    BY SystemStores DEF StoreInv, EngineInv, AnsweredIsDurable
  <1>2. \A r \in Reservations : stored.status[r] = "Committed" => status[r] = "Committed"
    BY <1>1 DEF NotBehind, Snapshot, TerminalStatuses, Statuses, ActiveStatuses
  <1>3. ASSUME NEW r \in Reservations, status[r] # "Reserved", Right(r)
        PROVE  Right(r)'
    <2>1. hashes'[r] = hashes[r]
      BY <1>1, <1>3
    <2>2. hashes[r] \in DOMAIN transactions
      BY <1>3 DEF TransactionsOf
    <2>3. /\ hashes[r] \in DOMAIN transactions'
          /\ transactions'[hashes[r]] = transactions[hashes[r]]
      BY <1>3, <2>2, TransactionsKept
    <2> QED  BY <1>3, <2>1, <2>3 DEF TransactionsOf
  <1>4. ASSUME NEW r \in Reservations, status[r] = "Committed"
        PROVE  Right(r)'
    <2>1. Right(r)
      BY <1>4 DEF CommittedHashSucceeded
    <2> QED  BY <1>3, <1>4, <2>1
  <1>5. ASSUME NEW r \in Reservations, status'[r] = "Committed", status[r] # "Committed"
        PROVE  Right(r)'
    <2>1. ~Quiet /\ ~Recover /\ ~UNCHANGED allVars
      BY <1>2, <1>5 DEF Quiet, Recover, RestoreEngine, allVars, vars, reservations
    <2>2. Commit /\ CommitReservation(current)
      BY <2>1, QuietSteps, CommitExecuted
    <2>3. /\ step = "Committing" /\ current \in Reservations /\ r = current
      BY <1>1, <1>5, <2>2, CommitExecuted DEF Commit, CommitReservation, Inv, TypeOK
    <2>4. status[r] = "Submitted" /\ hashes[r] = sent
      BY <2>3 DEF WaitingIsHeld
    <2>5. /\ sent # 0 /\ sent \in 0..Len(transactions)
          /\ transactions[sent].reservation = r /\ transactions[sent].outcome = "Succeeded"
      BY <2>3 DEF ExecutorInv
    <2>6. sent \in DOMAIN transactions
      BY <2>5 DEF ChainInv
    <2>7. Right(r)
      BY <2>4, <2>5, <2>6 DEF TransactionsOf
    <2> QED  BY <1>3, <2>4, <2>7
  <1>6. ASSUME NEW r \in Reservations, "Committed" \in {status'[r], stored'.status[r]}
        PROVE  Right(r)'
    <2>1. status'[r] = "Committed" \/ status[r] = "Committed"
      BY <1>1, <1>2, <1>6 DEF Snapshot
    <2> QED  BY <1>4, <1>5, <2>1
  <1> QED  BY <1>6 DEF CommittedHashSucceeded

\* As long as the chain stands still.
LEMMA OnChainStill ==
    ASSUME SystemInv, [SystemNext]_systemVars, chainFilled' = chainFilled,
           \A r \in Reservations : Executed(r)' => Executed(r)
    PROVE  OnChain(Snapshot)' /\ OnChain(stored)'
  <1>1. /\ StoreInv /\ ExecutorInv /\ ChainInv /\ EngineInv /\ Inv
        /\ stored' \in {stored, Snapshot'} /\ TypeOK
    BY SystemStores DEF SystemInv, StoreInv, EngineInv, Inv
  <1>2. /\ \A o \in Orders : filled[o] <= chainFilled[o]
        /\ \A o \in Orders, r \in Reservations :
              Active(r) /\ o \in LegOrders(legs[r]) /\ Executed(r) =>
                  filled[o] + LegAmount(legs[r], o) <= chainFilled[o]
    BY DEF SystemInv, OnChain, Snapshot, InFlight, Active
  <1>3. /\ \A o \in Orders : stored.filled[o] <= chainFilled[o]
        /\ \A o \in Orders, r \in Reservations :
              InFlight(stored, r) /\ o \in LegOrders(stored.legs[r]) /\ Executed(r) =>
                  stored.filled[o] + LegAmount(stored.legs[r], o) <= chainFilled[o]
    BY DEF SystemInv, OnChain
  \* A reservation that is made in this step has no transaction.
  <1>4. \A r \in Reservations : status[r] = "NoReservation" => ~Executed(r)
    <2>1. \A r \in Reservations : status[r] = "NoReservation" => r \notin StoredReservations
      BY <1>1, StoredLegs
    <2> QED  BY <1>1, <2>1 DEF Executed, TransactionsOf, ChainInv
  <1>5. /\ \A o \in Orders : filled'[o] <= chainFilled[o]
        /\ \A o \in Orders, r \in Reservations :
              status'[r] \in ActiveStatuses /\ o \in LegOrders(legs'[r]) /\ Executed(r) =>
                  filled'[o] + LegAmount(legs'[r], o) <= chainFilled[o]
    <2>1. CASE Quiet
      BY <1>2, <1>4, <2>1 DEF Quiet, Active
    <2>2. CASE Recover
      BY <1>3, <2>2 DEF Recover, RestoreEngine, InFlight
    <2>3. CASE Commit
      <3>1. CASE UNCHANGED allVars
        BY <1>2, <3>1 DEF allVars, vars, records, reservations, Active
      <3>2. CASE CommitReservation(current)
        <4>1. /\ current \in Reservations /\ Executed(current)
              /\ status[current] = "Submitted" /\ Active(current)
              /\ UNCHANGED legs
              /\ status' = [status EXCEPT ![current] = "Committed"]
          BY <1>1, <2>3, <3>2, CommitExecuted DEF CommitReservation, Active, ActiveStatuses
        <4>2. \A o \in Orders : filled'[o] # filled[o] =>
                 /\ o \in LegOrders(legs[current])
                 /\ filled'[o] = filled[o] + LegAmount(legs[current], o)
          BY <1>1, <3>2, <4>1, CommitFills
        <4>3. \A o \in Orders : filled'[o] <= chainFilled[o]
          BY <1>2, <4>1, <4>2
        <4>4. ASSUME NEW o \in Orders, NEW r \in Reservations,
                     status'[r] \in ActiveStatuses, o \in LegOrders(legs'[r]), Executed(r)
              PROVE  filled'[o] + LegAmount(legs'[r], o) <= chainFilled[o]
          <5>1. r # current /\ Active(r)
            BY <1>1, <4>1, <4>4 DEF Active, ActiveStatuses, TypeOK
          <5>2. o \notin LegOrders(legs[current])
            BY <1>1, <4>1, <4>4, <5>1 DEF Inv, NoDoubleMatch
          <5> QED  BY <1>2, <4>1, <4>2, <4>4, <5>1, <5>2
        <4> QED  BY <4>3, <4>4
      <3> QED  BY <1>1, <2>3, <3>1, <3>2, CommitExecuted
    <2> QED  BY <1>1, <2>1, <2>2, <2>3, QuietSteps
  <1>6. OnChain(Snapshot)'
    BY <1>5 DEF OnChain, Snapshot, InFlight, LegAmount, LegOrders
  <1>7. OnChain(stored)'
    <2>1. CASE stored' = stored
      BY <1>3, <2>1 DEF OnChain, InFlight
    <2>2. CASE stored' = Snapshot'
      BY <1>6, <2>2 DEF OnChain, InFlight, Snapshot, LegAmount, LegOrders
    <2> QED  BY <1>1, <2>1, <2>2
  <1> QED  BY <1>6, <1>7

\* When the chain decides, it fills what the match of the transaction locks.
LEMMA OnChainDecide ==
    ASSUME SystemInv, NEW i \in DOMAIN transactions, Decide(i)
    PROVE  OnChain(Snapshot)' /\ OnChain(stored)'
  <1> DEFINE m == transactions[i].reservation
  <1>1. /\ StoreInv /\ ChainInv /\ TypeOK /\ RowsSound(stored)
        /\ UNCHANGED <<filled, status, legs, stored>>
    BY DEF SystemInv, StoreInv, EngineInv, Inv, Decide, allVars, vars, records, reservations,
       serviceVars
  <1>2. /\ m \in StoredReservations /\ m \in Reservations
        /\ legs[m] = stored.legs[m] /\ legs[m] \in Seq(Leg)
    BY <1>1, StoredLegs DEF ChainInv
  <1>3. \A o \in Orders : chainFilled[o] \in Nat /\ LegAmount(legs[m], o) \in Nat
    BY <1>1, <1>2, LegAmountType DEF ChainInv
  <1>4. /\ transactions \in Seq(Transaction)
        /\ \E outcome \in {"Succeeded", "Reverted", "Dropped"} :
              /\ transactions' = [transactions EXCEPT ![i].outcome = outcome]
              /\ IF outcome = "Succeeded"
                 THEN chainFilled' = [o \in Orders |-> chainFilled[o] + LegAmount(legs[m], o)]
                 ELSE chainFilled' = chainFilled
    BY <1>1 DEF Decide, ChainInv
  <1>5. \A o \in Orders : chainFilled'[o] \in Nat /\ chainFilled'[o] >= chainFilled[o]
    BY <1>3, <1>4
  <1>6. \A r \in Reservations : Executed(r)' =>
           \/ Executed(r)
           \/ r = m /\ \A o \in Orders :
                 chainFilled'[o] = chainFilled[o] + LegAmount(legs[m], o)
    <2> SUFFICES ASSUME NEW r \in Reservations, Executed(r)', ~Executed(r)
                 PROVE  r = m /\ \A o \in Orders :
                           chainFilled'[o] = chainFilled[o] + LegAmount(legs[m], o)
      OBVIOUS
    <2>1. PICK j \in DOMAIN transactions' :
             transactions'[j].reservation = r /\ transactions'[j].outcome = "Succeeded"
      BY DEF Executed, TransactionsOf
    <2>2. PICK outcome \in {"Succeeded", "Reverted", "Dropped"} :
             /\ transactions' = [transactions EXCEPT ![i].outcome = outcome]
             /\ IF outcome = "Succeeded"
                THEN chainFilled' = [o \in Orders |-> chainFilled[o] + LegAmount(legs[m], o)]
                ELSE chainFilled' = chainFilled
      BY <1>4
    <2>3. j \in DOMAIN transactions /\ (j # i => transactions'[j] = transactions[j])
      BY <2>1, <2>2
    <2>4. j = i
      BY <2>1, <2>3 DEF Executed, TransactionsOf
    <2>5. transactions[i] \in Transaction
      BY <1>4
    <2>6. /\ transactions'[i].outcome = outcome
          /\ transactions'[i].reservation = m
      BY <1>4, <2>2, <2>5 DEF Transaction
    <2> QED  BY <2>1, <2>2, <2>4, <2>6
  <1> HIDE DEF m
  <1>7. ASSUME NEW rows, OnChain(rows), rows.legs[m] = legs[m],
               \A o \in Orders : rows.filled[o] \in Nat,
               \A r \in Reservations : rows.legs[r] \in Seq(Leg)
        PROVE  /\ \A o \in Orders : rows.filled[o] <= chainFilled'[o]
               /\ \A o \in Orders, r \in Reservations :
                     InFlight(rows, r) /\ o \in LegOrders(rows.legs[r]) /\ Executed(r)' =>
                         rows.filled[o] + LegAmount(rows.legs[r], o) <= chainFilled'[o]
    <2>1. ASSUME NEW o \in Orders
          PROVE  rows.filled[o] <= chainFilled[o] /\ rows.filled[o] <= chainFilled'[o]
      <3>1. rows.filled[o] \in Nat /\ rows.filled[o] <= chainFilled[o]
        BY <1>7 DEF OnChain
      <3>2. chainFilled[o] \in Nat /\ chainFilled'[o] \in Nat /\ chainFilled'[o] >= chainFilled[o]
        BY <1>3, <1>5
      <3> QED  BY <3>1, <3>2
    <2>2. ASSUME NEW o \in Orders, NEW r \in Reservations,
                 InFlight(rows, r), o \in LegOrders(rows.legs[r]), Executed(r)'
          PROVE  rows.filled[o] + LegAmount(rows.legs[r], o) <= chainFilled'[o]
      <3>1. LegAmount(rows.legs[r], o) \in Nat
        BY <1>7, LegAmountType
      <3>2. CASE Executed(r)
        <4>1. rows.filled[o] + LegAmount(rows.legs[r], o) <= chainFilled[o]
          BY <1>7, <2>2, <3>2 DEF OnChain
        <4>2. rows.filled[o] \in Nat
          BY <1>7
        <4>3. chainFilled[o] \in Nat /\ chainFilled'[o] \in Nat /\ chainFilled'[o] >= chainFilled[o]
          BY <1>3, <1>5
        <4> QED  BY <3>1, <4>1, <4>2, <4>3
      <3>3. CASE r = m /\ chainFilled'[o] = chainFilled[o] + LegAmount(legs[m], o)
        BY <1>3, <1>7, <2>1, <3>1, <3>3
      <3> QED  BY <1>6, <2>2, <3>2, <3>3
    <2> QED  BY <2>1, <2>2
  <1>8. OnChain(Snapshot)'
    <2>1. /\ Snapshot.legs = legs /\ Snapshot.filled = filled /\ Snapshot.status = status
          /\ OnChain(Snapshot)
      BY DEF Snapshot, SystemInv
    <2>2. /\ \A o \in Orders : Snapshot.filled[o] \in Nat
          /\ \A r \in Reservations : Snapshot.legs[r] \in Seq(Leg)
      BY <1>1, <2>1 DEF TypeOK
    <2>3. /\ \A o \in Orders : Snapshot.filled[o] <= chainFilled'[o]
          /\ \A o \in Orders, r \in Reservations :
                InFlight(Snapshot, r) /\ o \in LegOrders(Snapshot.legs[r]) /\ Executed(r)' =>
                    Snapshot.filled[o] + LegAmount(Snapshot.legs[r], o) <= chainFilled'[o]
      BY <1>7, <2>1, <2>2
    <2>4. /\ \A o \in Orders : filled'[o] <= chainFilled'[o]
          /\ \A o \in Orders, r \in Reservations :
                status'[r] \in ActiveStatuses /\ o \in LegOrders(legs'[r]) /\ Executed(r)' =>
                    filled'[o] + LegAmount(legs'[r], o) <= chainFilled'[o]
      BY <1>1, <2>1, <2>3 DEF InFlight
    <2> QED  BY <2>4 DEF OnChain, Snapshot, InFlight, LegAmount, LegOrders
  <1>9. OnChain(stored)'
    <2>1. OnChain(stored) /\ stored.legs[m] = legs[m]
      BY <1>2 DEF SystemInv
    <2>2. /\ \A o \in Orders : stored.filled[o] \in Nat
          /\ \A r \in Reservations : stored.legs[r] \in Seq(Leg)
      BY <1>1 DEF RowsSound, SnapshotType
    <2>3. /\ \A o \in Orders : stored.filled[o] <= chainFilled'[o]
          /\ \A o \in Orders, r \in Reservations :
                InFlight(stored, r) /\ o \in LegOrders(stored.legs[r]) /\ Executed(r)' =>
                    stored.filled[o] + LegAmount(stored.legs[r], o) <= chainFilled'[o]
      BY <1>7, <2>1, <2>2
    <2> QED  BY <1>1, <2>3 DEF OnChain, InFlight, LegAmount, LegOrders
  <1> QED  BY <1>8, <1>9

LEMMA OnChainStep ==
    ASSUME SystemInv, [SystemNext]_systemVars
    PROVE  OnChain(Snapshot)' /\ OnChain(stored)'
  <1>1. CASE \E i \in DOMAIN transactions : Decide(i)
    BY <1>1, OnChainDecide
  <1>2. CASE UNCHANGED chainVars
    <2>1. chainFilled' = chainFilled /\ transactions' = transactions
      BY <1>2 DEF chainVars
    <2>2. \A r \in Reservations : Executed(r)' => Executed(r)
      BY <2>1 DEF Executed, TransactionsOf
    <2> QED  BY <2>1, <2>2, OnChainStill
  <1>3. CASE Send
    <2>1. chainFilled' = chainFilled
      BY <1>3 DEF Send
    <2>2. transactions \in Seq(Transaction)
      BY DEF SystemInv, ChainInv
    <2>3. ASSUME transactions' = Append(transactions, [reservation |-> current, outcome |-> "Pending"]),
                 NEW j \in DOMAIN transactions', transactions'[j].outcome = "Succeeded"
          PROVE  j \in DOMAIN transactions /\ transactions'[j] = transactions[j]
      BY <2>2, <2>3
    <2>4. \A r \in Reservations : Executed(r)' => Executed(r)
      BY <1>3, <2>3 DEF Send, Executed, TransactionsOf
    <2> QED  BY <2>1, <2>4, OnChainStill
  <1>4. CASE \/ OtherRequest \/ ServiceCrash \/ Poll \/ (\E r \in todo : Simulate(r))
             \/ Mark \/ AwaitReceipt \/ Commit \/ Release \/ ExecutorCrash
             \/ UNCHANGED systemVars
    BY <1>2, <1>4
    DEF OtherRequest, ServiceCrash, Poll, Simulate, Mark, AwaitReceipt, Commit, Release,
        ExecutorCrash, systemVars
  <1> QED  BY <1>1, <1>3, <1>4 DEF SystemNext, ExecutorStep
-----------------------------------------------------------------------------
(***************************************************************************)
(* The system.                                                             *)
(***************************************************************************)
LEMMA SystemInvInit ==
    ASSUME SystemInit
    PROVE  SystemInv
  <1>1. /\ StoreInv /\ EngineInv /\ TypeOK
        /\ \A o \in Orders : filled[o] = 0
        /\ \A r \in Reservations : status[r] = "NoReservation"
        /\ stored = Snapshot
    BY StoreInvInit, EngineInvInit DEF SystemInit, ServiceInit, Init, EngineInv, Inv
  <1>2. ExecutorInv
    BY DEF SystemInit, ExecutorInv, Steps
  <1>3. ChainInv
    BY ExecutorAssumption DEF SystemInit, ChainInv
  <1>4. WaitingIsHeld /\ CommittedOnChain /\ CommittedHashSucceeded
    BY <1>1 DEF SystemInit, WaitingIsHeld, CommittedOnChain, CommittedHashSucceeded, Snapshot
  <1>5. OnChain(Snapshot)
    <2>1. \A r \in Reservations : ~Executed(r)
      BY DEF SystemInit, Executed, TransactionsOf
    <2>2. \A o \in Orders : Snapshot.filled[o] = 0 /\ chainFilled[o] = 0
      BY <1>1 DEF SystemInit, Snapshot
    <2>3. ASSUME NEW o \in Orders
          PROVE  Snapshot.filled[o] <= chainFilled[o]
      <3>1. 0 <= 0
        OBVIOUS
      <3>2. Snapshot.filled[o] = 0 /\ chainFilled[o] = 0
        BY <2>2
      <3> QED  BY <3>1, <3>2
    <2> QED  BY <2>1, <2>3 DEF OnChain
  <1> QED  BY <1>1, <1>2, <1>3, <1>4, <1>5 DEF SystemInv

LEMMA SystemInvStep ==
    ASSUME SystemInv, [SystemNext]_systemVars
    PROVE  SystemInv'
  <1>1. /\ StoreInv /\ ExecutorInv /\ ChainInv
        /\ WaitingIsHeld /\ CommittedOnChain /\ CommittedHashSucceeded
    BY DEF SystemInv
  <1>2. StoreInv'
    BY <1>1, SystemStores
  <1>3. ExecutorInv' /\ ChainInv'
    BY <1>1, ExecutorInvStep, ChainInvStep
  <1>4. WaitingIsHeld' /\ CommittedOnChain' /\ CommittedHashSucceeded'
    BY <1>1, HeldStep, CommittedStep, CommittedHashStep
  <1>5. OnChain(Snapshot)' /\ OnChain(stored)'
    BY OnChainStep
  <1> QED  BY <1>2, <1>3, <1>4, <1>5 DEF SystemInv

(***************************************************************************)
(* The inductive invariant holds of every behaviour of the service, the    *)
(* executor and the chain, with any faults (service.rs, executor lib.rs).  *)
(***************************************************************************)
THEOREM SystemInvariance == SystemSpec => []SystemInv
  <1>1. SystemInit => SystemInv
    BY SystemInvInit
  <1>2. SystemInv /\ [SystemNext]_systemVars => SystemInv'
    BY SystemInvStep
  <1> QED  BY <1>1, <1>2, PTL DEF SystemSpec

(***************************************************************************)
(* Every variable keeps its type: the executor has listed and works on     *)
(* reservations that exist, and no more transactions than the bound.       *)
(***************************************************************************)
THEOREM SystemTypeCorrect == SystemSpec => []SystemTypeOK
  <1>1. SystemInv => SystemTypeOK
    <2> SUFFICES ASSUME SystemInv
                 PROVE  SystemTypeOK
      OBVIOUS
    <2>1. ServiceTypeOK
      BY StoreInvMeans DEF SystemInv
    <2>2. /\ todo \subseteq Reservations /\ step \in Steps
          /\ current \in Reservations \cup {None}
      BY DEF SystemInv, ExecutorInv, StoredReservations
    <2>3. sent \in 0..MaxTransactions
      BY ExecutorAssumption DEF SystemInv, ExecutorInv, ChainInv
    <2> QED  BY <2>1, <2>2, <2>3 DEF SystemTypeOK, SystemInv, ChainInv
  <1> QED  BY <1>1, SystemInvariance, PTL

(***************************************************************************)
(* What the engine or the store says is committed has been executed on     *)
(* chain, whatever requests, answers and processes were lost               *)
(* (execute_reservation, commit_reservation).                              *)
(***************************************************************************)
THEOREM CommittedAlwaysOnChain == SystemSpec => []CommittedOnChain
  <1>1. SystemInv => CommittedOnChain
    BY DEF SystemInv
  <1> QED  BY <1>1, SystemInvariance, PTL

(***************************************************************************)
(* The engine and the store never count more of an order as filled than    *)
(* the chain has filled, through retries, lost answers and restarts        *)
(* (commit_reservation, restore).                                          *)
(***************************************************************************)
THEOREM FilledAlwaysOnChain == SystemSpec => []FilledOnChain
  <1>1. SystemInv => FilledOnChain
    BY DEF SystemInv, OnChain, Snapshot, FilledOnChain
  <1> QED  BY <1>1, SystemInvariance, PTL

(***************************************************************************)
(* The reservation whose receipt the executor waits for is Submitted, in   *)
(* the engine and in the store, so that neither an expiry nor a restart    *)
(* frees its orders; and its row has the hash of the awaited transaction   *)
(* (mark_submitted, execute_reservation).                                  *)
(***************************************************************************)
THEOREM WaitingIsAlwaysHeld == SystemSpec => []WaitingIsHeld
  <1>1. SystemInv => WaitingIsHeld
    BY DEF SystemInv
  <1> QED  BY <1>1, SystemInvariance, PTL

(***************************************************************************)
(* The hash in the row of a settled reservation is that of a transaction   *)
(* of it that succeeded on chain, whatever hashes of earlier attempts were *)
(* in the row before (record_reservation_tx_hash, UPSERT_RESERVATION_SQL). *)
(***************************************************************************)
THEOREM CommittedHashAlwaysSucceeded == SystemSpec => []CommittedHashSucceeded
  <1>1. SystemInv => CommittedHashSucceeded
    BY DEF SystemInv
  <1> QED  BY <1>1, SystemInvariance, PTL
-----------------------------------------------------------------------------
(***************************************************************************)
(* A system that is not disturbed: the store and the executor do not fail, *)
(* no request or transaction is lost, and no reservation expires.  The     *)
(* service may still stop and start again, the chain may refuse a match,   *)
(* and clients may submit and cancel at any moment.                        *)
(***************************************************************************)
Calm ==
    /\ Faults \subseteq {"Crash", "Revert"}
    /\ \A command \in Commands : command.ttl = None

\* Every call that fills or settles is written before it is answered, so the
\* rows agree with the engine in all but what a refused cancellation takes off
\* the book; and every leg can be filled.
CalmStore ==
    /\ nextEvent = eventCount
    /\ \A r \in Reservations : expiresAt[r] = None /\ stored.expiresAt[r] = None
    /\ stored.filled = filled /\ stored.status = status /\ stored.legs = legs
    /\ FreshInv

\* Where the executor is says how far its reservation is.
CalmExecutor ==
    /\ \A r \in todo : status[r] = "Reserved"
    /\ step # "Idle" => current \notin todo
    /\ step \in {"Idle", "Sending"} => sent = 0
    /\ step \in {"Sending", "Marking"} => status[current] = "Reserved"
    /\ step \in {"Waiting", "Committing"} => status[current] = "Submitted"
    /\ step = "Releasing" =>
          /\ Active(current)
          /\ sent # 0 => transactions[sent].outcome = "Reverted"

\* A transaction is the one the executor waits for, or has been dealt with.
CalmChain ==
    \A i \in DOMAIN transactions :
        \/ i = sent /\ transactions[i].outcome # "Dropped"
        \/ /\ transactions[i].outcome = "Succeeded"
           /\ status[transactions[i].reservation] = "Committed"
        \/ transactions[i].outcome = "Reverted"

\* What the chain has filled of an order and the engine has not yet.
UnderWay(o) ==
    IF sent # 0 /\ transactions[sent].outcome = "Succeeded"
    THEN LegAmount(legs[current], o) ELSE 0

ChainAhead == \A o \in Orders : chainFilled[o] = filled[o] + UnderWay(o)

CalmInv == CalmStore /\ CalmExecutor /\ CalmChain /\ ChainAhead

\* A call that does not touch the reservations that there are.
LeavesAlone ==
    /\ \A o \in Orders : filled'[o] = filled[o]
    /\ \A r \in Reservations : status[r] # "NoReservation" =>
          status'[r] = status[r] /\ legs'[r] = legs[r]
-----------------------------------------------------------------------------
\* An answer is an error exactly if the engine's call was, and then nothing
\* is written.
LEMMA CalmAnswer ==
    ASSUME Calm, nextEvent = eventCount, NEW answer, NEW recorded,
           RespondReservation(answer, recorded)
    PROVE  \/ /\ answer = "Ok" /\ ~errored'
              /\ WriteUpdate(recorded) /\ nextEvent' = eventCount'
           \/ answer = "Error" /\ errored' /\ UNCHANGED serviceVars
  BY DEF Calm, RespondReservation, Respond, Acknowledge, FailToPersist

LEMMA CalmServed ==
    ASSUME Calm, StoreInv, CalmStore, EngineCall, NEW answer, NEW recorded,
           RespondReservation(answer, recorded),
           FreshInv', \A r \in Reservations : expiresAt'[r] = None,
           errored' => UNCHANGED <<filled, status, legs>>
    PROVE  CalmStore' /\ (~errored' => answer = "Ok")
  <1>1. CASE /\ answer = "Ok" /\ ~errored'
             /\ WriteUpdate(recorded) /\ nextEvent' = eventCount'
    <2>1. stored' = Snapshot'
      BY <1>1, CallWritesWhole
    <2>2. /\ Snapshot'.filled = filled' /\ Snapshot'.status = status'
          /\ Snapshot'.legs = legs' /\ Snapshot'.expiresAt = expiresAt'
      BY DEF Snapshot
    <2> QED  BY <1>1, <2>1, <2>2 DEF CalmStore
  <1>2. CASE answer = "Error" /\ errored' /\ UNCHANGED serviceVars
    <2>1. UNCHANGED <<stored, eventCount, nextEvent, filled, status, legs>>
      BY <1>2 DEF serviceVars
    <2> QED  BY <1>2, <2>1 DEF CalmStore
  <1> QED  BY <1>1, <1>2, CalmAnswer DEF CalmStore

LEMMA CalmSubmit ==
    ASSUME Calm, StoreInv, CalmStore, NEW o \in Orders, NEW command \in Commands,
           SubmitOrderRequest(o, command)
    PROVE  CalmStore' /\ LeavesAlone
  <1>1. /\ SubmitOrder(o, command) /\ command \in CommandType
        /\ EngineInv /\ Inv /\ EngineCall
        /\ command.context.filled = 0 /\ command.ttl = None
    BY CommandsAssumption, FreshAssumption
    DEF SubmitOrderRequest, StoreInv, EngineInv, EngineCall, Calm
  <1>2. FreshInv'
    BY <1>1, SubmitFresh DEF CalmStore
  <1>3. /\ Quiet /\ Submits(o)
        /\ \A r \in Reservations : status[r] # "NoReservation" => status'[r] = status[r]
    BY <1>1, SubmitQuiet, SubmitSubmits
  <1>4. LeavesAlone
    BY <1>3 DEF LeavesAlone, Quiet, Submits
  <1>5. expiresAt \in [Reservations -> Nat \cup {None}]
    BY <1>1 DEF Inv, TypeOK
  <1>6. ~errored' /\ \A r \in Reservations : expiresAt'[r] = None
    <2>1. ASSUME UNCHANGED reservations, errored' = FALSE
          PROVE  ~errored' /\ \A r \in Reservations : expiresAt'[r] = None
      BY <2>1 DEF reservations, CalmStore
    <2>2. ASSUME NEW plan, ReserveMatch(o, command, plan)
          PROVE  ~errored' /\ \A r \in Reservations : expiresAt'[r] = None
      <3>1. /\ expiresAt' = [expiresAt EXCEPT ![o] = None] /\ errored' = FALSE
        BY <1>1, <2>2 DEF ReserveMatch
      <3> QED  BY <1>5, <3>1 DEF CalmStore
    <2> QED
      BY <1>1, <2>1, <2>2
      DEF SubmitOrder, RejectOrder, AdmitOrder, LeaveInactive, RestOrder
  <1>7. \E answer \in Answers : RespondReservation(answer, NoHash)
    BY DEF SubmitOrderRequest, RespondReservation
  <1> QED  BY <1>1, <1>2, <1>4, <1>6, <1>7, CalmServed

LEMMA CalmCancel ==
    ASSUME Calm, StoreInv, CalmStore, NEW o \in Orders, CancelOrderRequest(o)
    PROVE  CalmStore' /\ LeavesAlone
  <1>1. CancelOrder(o) /\ Inv /\ EngineCall
    BY DEF CancelOrderRequest, StoreInv, EngineInv, EngineCall, OtherCall
  <1>2. FreshInv'
    BY <1>1, CancelFresh DEF CalmStore
  <1>3. UNCHANGED <<filled, status, legs, expiresAt>>
    BY <1>1 DEF CancelOrder, reservations
  <1>4. \E answer \in Answers : RespondReservation(answer, NoHash)
    BY DEF CancelOrderRequest, RespondReservation
  <1>5. \A r \in Reservations : expiresAt'[r] = None
    BY <1>3 DEF CalmStore
  <1> QED  BY <1>1, <1>2, <1>3, <1>4, <1>5, CalmServed DEF LeavesAlone

\* Nothing expires.
LEMMA CalmNeverExpires ==
    ASSUME CalmStore, NEW r \in Reservations, NEW now
    PROVE  ~IsExpired(r, now) /\ ~MarkExpiredReservation(r, now) /\ ~ExpireReservation(r, now)
  BY DEF CalmStore, IsExpired, MarkExpiredReservation, ExpireReservation

LEMMA CalmMark ==
    ASSUME Calm, StoreInv, CalmStore, NEW r \in Reservations, NEW now \in Times,
           NEW hash, NEW answer, MarkReservationRequest(r, now, hash, answer)
    PROVE  /\ CalmStore' /\ answer = "Ok" /\ status[r] = "Reserved"
           /\ status' = [status EXCEPT ![r] = "Submitted"]
           /\ UNCHANGED <<filled, legs>>
  <1>1. /\ MarkReservationSubmitted(r, now)
        /\ \E recorded : RespondReservation(answer, recorded)
    BY CalmNeverExpires DEF MarkReservationRequest, Calm
  <1>2. Inv /\ EngineCall /\ now \in Nat
    <2>1. now \in Nat
      BY TimesAssumption
    <2> QED  BY <1>1, <2>1 DEF EngineCall, OtherCall, StoreInv, EngineInv
  <1>3. SettleReservation(r)
    BY <1>1 DEF SettleReservation
  <1>4. FreshInv'
    BY <1>2, <1>3, SettleFresh DEF CalmStore
  <1>5. /\ status[r] = "Reserved" /\ errored' = FALSE
        /\ status' = [status EXCEPT ![r] = "Submitted"]
        /\ UNCHANGED <<filled, legs, expiresAt>>
    BY <1>1 DEF MarkReservationSubmitted
  <1>6. \A x \in Reservations : expiresAt'[x] = None
    BY <1>5 DEF CalmStore
  <1> QED  BY <1>1, <1>2, <1>4, <1>5, <1>6, CalmServed

LEMMA CalmRelease ==
    ASSUME Calm, StoreInv, CalmStore, NEW r \in Reservations,
           NEW answer, ReleaseReservationRequest(r, answer)
    PROVE  /\ CalmStore' /\ Active(r)
           /\ \A q \in Reservations \ {r} : status'[q] = status[q]
           /\ UNCHANGED <<filled, legs>>
  <1>1. ReleaseReservation(r) /\ RespondReservation(answer, NoHash) /\ Inv /\ EngineCall
    BY DEF ReleaseReservationRequest, EngineCall, OtherCall, StoreInv, EngineInv
  <1>2. FreshInv'
    BY <1>1, SettleFresh DEF CalmStore, SettleReservation
  <1>3. Active(r) /\ LetGo({r}, "Released") /\ errored' = FALSE
    BY <1>1 DEF ReleaseReservation
  <1>4. /\ UNCHANGED <<filled, legs, expiresAt>>
        /\ \A q \in Reservations \ {r} : status'[q] = status[q]
    BY <1>3 DEF LetGo
  <1>5. \A x \in Reservations : expiresAt'[x] = None
    BY <1>4 DEF CalmStore
  <1> QED  BY <1>1, <1>2, <1>3, <1>4, <1>5, CalmServed

LEMMA CalmCommit ==
    ASSUME Calm, StoreInv, CalmStore, NEW r \in Reservations,
           NEW answer, CommitReservationRequest(r, answer)
    PROVE  /\ CalmStore' /\ status[r] = "Submitted"
           /\ status' = [status EXCEPT ![r] = "Committed"]
           /\ UNCHANGED legs
           /\ \A o \in Orders : filled'[o] = filled[o] + LegAmount(legs[r], o)
  <1>1. /\ CommitReservation(r) /\ RespondReservation(answer, NoHash) /\ Inv /\ EngineCall
        /\ FreshInv /\ TypeOK
    BY DEF CommitReservationRequest, EngineCall, OtherCall, StoreInv, EngineInv, Inv, CalmStore
  <1>2. FreshInv' /\ AppliedLegs(r) = DOMAIN legs[r]
    BY <1>1, CommitFresh, CommitFillsAll
  <1>3. /\ status[r] = "Submitted" /\ status' = [status EXCEPT ![r] = "Committed"]
        /\ UNCHANGED <<legs, expiresAt>>
    BY <1>1 DEF CommitReservation
  <1>4. ~errored'
    BY <1>1, <1>2 DEF CommitReservation
  <1>5. ASSUME NEW o \in Orders
        PROVE  filled'[o] = filled[o] + LegAmount(legs[r], o)
    <2>1. CASE o \in LegOrders(legs[r])
      BY <1>1, <2>1, CommitFresh
    <2>2. CASE o \notin LegOrders(legs[r])
      <3>1. filled'[o] = filled[o]
        BY <1>1, <2>2, CommitFillsAll DEF CommitReservation
      <3>2. LegAmount(legs[r], o) = 0 /\ filled[o] \in Nat
        BY <1>1, <2>2 DEF LegAmount, TypeOK
      <3> QED  BY <3>1, <3>2
    <2> QED  BY <2>1, <2>2
  <1>6. \A x \in Reservations : expiresAt'[x] = None
    BY <1>3 DEF CalmStore
  <1> QED  BY <1>1, <1>2, <1>3, <1>4, <1>5, <1>6, CalmServed

\* A restart gives the engine nothing it did not have, and takes nothing but
\* orders off the book.
LEMMA CalmRecover ==
    ASSUME StoreInv, CalmStore, Recover
    PROVE  CalmStore' /\ LeavesAlone
  <1>1. /\ filled' = filled /\ status' = status /\ legs' = legs
        /\ resting' = stored.resting /\ expiresAt' = stored.expiresAt
        /\ inBook' = {o \in Orders : resting'[o]}
        /\ bookFilled' = [o \in Orders |-> IF resting'[o] THEN filled'[o] ELSE 0]
        /\ stored' = stored /\ nextEvent' = eventCount /\ eventCount' = eventCount
    BY DEF Recover, RestoreEngine, NextSequence, CalmStore
  <1>2. FreshInv'
    <2>1. BooksAgree'
      BY <1>1 DEF BooksAgree
    <2>2. LegsFillable'
      BY <1>1 DEF CalmStore, FreshInv, LegsFillable, Active
    <2> QED  BY <2>1, <2>2 DEF FreshInv
  <1> QED  BY <1>1, <1>2 DEF CalmStore, LeavesAlone

-----------------------------------------------------------------------------
LEMMA CalmStutter ==
    ASSUME CalmStore, UNCHANGED allVars
    PROVE  CalmStore' /\ LeavesAlone
  <1>1. /\ UNCHANGED <<filled, resting, inBook, bookFilled, status, legs, expiresAt>>
        /\ UNCHANGED <<stored, eventCount, nextEvent>>
    BY DEF allVars, vars, records, books, reservations, serviceVars
  <1>2. FreshInv'
    BY <1>1 DEF CalmStore, FreshInv, BooksAgree, LegsFillable, Active
  <1> QED  BY <1>1, <1>2 DEF CalmStore, LeavesAlone

\* The reservation at work, and those of the transactions.
LEMMA AtWork ==
    ASSUME SystemInv
    PROVE  /\ step # "Idle" => current \in Reservations /\ status[current] # "NoReservation"
           /\ \A i \in DOMAIN transactions :
                 /\ transactions[i].reservation \in Reservations
                 /\ status[transactions[i].reservation] # "NoReservation"
           /\ todo \subseteq Reservations
           /\ TypeOK
           /\ transactions \in Seq(Transaction) /\ sent \in 0..Len(transactions)
           /\ sent # 0 => sent \in DOMAIN transactions
           /\ \A o \in Orders : filled[o] \in Nat /\ chainFilled[o] \in Nat
  <1>1. StoreInv /\ ExecutorInv /\ ChainInv /\ TypeOK
    BY DEF SystemInv, StoreInv, EngineInv, Inv
  <1>2. \A r \in StoredReservations : r \in Reservations /\ status[r] # "NoReservation"
    BY <1>1, StoredLegs
  <1>3. transactions \in Seq(Transaction) /\ sent \in 0..Len(transactions)
    BY <1>1 DEF ExecutorInv, ChainInv
  <1>4. sent # 0 => sent \in DOMAIN transactions
    BY <1>3
  <1> QED  BY <1>1, <1>2, <1>3, <1>4 DEF ExecutorInv, ChainInv, TypeOK, StoredReservations

\* While the executor and the chain stand still.
LEMMA CalmStill ==
    ASSUME SystemInv, CalmExecutor, CalmChain, ChainAhead, LeavesAlone,
           UNCHANGED <<executorVars, chainVars>>
    PROVE  CalmExecutor' /\ CalmChain' /\ ChainAhead'
  <1>1. UNCHANGED <<todo, step, current, sent, transactions, chainFilled>>
    BY DEF executorVars, chainVars
  <1>2. step # "Idle" => status'[current] = status[current] /\ legs'[current] = legs[current]
    BY AtWork DEF LeavesAlone
  <1>3. CalmExecutor'
    <2>1. \A r \in todo : status'[r] = "Reserved"
      BY AtWork DEF LeavesAlone, CalmExecutor
    <2> QED  BY <1>1, <1>2, <2>1 DEF CalmExecutor, Active
  <1>4. CalmChain'
    BY <1>1, AtWork DEF CalmChain, LeavesAlone
  <1>5. ChainAhead'
    <2>1. sent # 0 => step # "Idle"
      BY DEF CalmExecutor
    <2>2. \A o \in Orders : UnderWay(o)' = UnderWay(o)
      <3>1. sent' = sent /\ transactions' = transactions /\ current' = current
        BY <1>1
      <3>2. CASE sent = 0
        BY <3>1, <3>2 DEF UnderWay
      <3>3. CASE sent # 0
        <4>1. legs'[current] = legs[current]
          BY <1>2, <2>1, <3>3
        <4> QED  BY <3>1, <4>1 DEF UnderWay, LegAmount, LegOrders
      <3> QED  BY <3>2, <3>3
    <2> QED  BY <1>1, <2>2 DEF ChainAhead, LeavesAlone
  <1> QED  BY <1>3, <1>4, <1>5

LEMMA CalmOther ==
    ASSUME Calm, SystemInv, CalmInv, OtherRequest \/ ServiceCrash \/ UNCHANGED systemVars
    PROVE  CalmInv'
  <1>1. StoreInv /\ CalmStore /\ CalmExecutor /\ CalmChain /\ ChainAhead
    BY DEF SystemInv, CalmInv
  <1>2. UNCHANGED <<executorVars, chainVars>>
    BY DEF OtherRequest, ServiceCrash, systemVars
  <1>3. CalmStore' /\ LeavesAlone
    <2>1. CASE OtherRequest
      BY <1>1, <2>1, CalmSubmit, CalmCancel, CalmNeverExpires
      DEF OtherRequest, ClientRequest, ExpireReservationRequest
    <2>2. CASE ServiceCrash
      BY <1>1, <2>2, CalmRecover DEF ServiceCrash
    <2>3. CASE UNCHANGED systemVars
      BY <1>1, <2>3, CalmStutter DEF systemVars
    <2> QED  BY <2>1, <2>2, <2>3
  <1>4. CalmExecutor' /\ CalmChain' /\ ChainAhead'
    BY <1>1, <1>2, <1>3, CalmStill
  <1> QED  BY <1>3, <1>4 DEF CalmInv

\* The steps of the executor before it sends anything.
LEMMA CalmTake ==
    ASSUME Calm, SystemInv, CalmInv, Poll \/ \E r \in todo : Simulate(r)
    PROVE  CalmInv'
  <1>1. /\ CalmStore' /\ LeavesAlone
        /\ UNCHANGED <<sent, transactions, chainFilled, status, filled, legs>>
        /\ step = "Idle" /\ sent = 0
    BY CalmStutter
    DEF CalmInv, CalmExecutor, Poll, Simulate, chainVars, allVars, vars, records, reservations
  <1>2. CalmExecutor'
    <2>1. CASE Poll
      <3>1. /\ \A r \in todo' : r \in Reservations /\ stored.status[r] = "Reserved"
            /\ UNCHANGED step
        BY <2>1 DEF Poll, Listings
      <3>2. \A r \in todo' : status'[r] = "Reserved"
        BY <1>1, <3>1 DEF CalmInv, CalmStore
      <3> QED  BY <1>1, <3>1, <3>2 DEF CalmExecutor
    <2>2. ASSUME NEW r \in todo, Simulate(r)
          PROVE  CalmExecutor'
      <3>1. /\ todo' = todo \ {r} /\ current' = r
            /\ step' \in {"Idle", "Sending", "Releasing"}
        BY <2>2 DEF Simulate
      <3>2. status[r] = "Reserved" /\ \A q \in todo : status[q] = "Reserved"
        BY DEF CalmInv, CalmExecutor
      <3> QED  BY <1>1, <3>1, <3>2 DEF CalmExecutor, Active, ActiveStatuses
    <2> QED  BY <2>1, <2>2
  <1>3. CalmChain'
    BY <1>1 DEF CalmInv, CalmChain
  <1>4. ChainAhead'
    BY <1>1 DEF CalmInv, ChainAhead, UnderWay
  <1> QED  BY <1>1, <1>2, <1>3, <1>4 DEF CalmInv

\* A new transaction is the executor's.
LEMMA CalmSend ==
    ASSUME Calm, SystemInv, CalmInv, Send
    PROVE  CalmInv'
  <1>1. /\ CalmStore' /\ UNCHANGED <<todo, current, chainFilled, status, filled, legs>>
        /\ step = "Sending" /\ sent = 0 /\ current \notin todo
        /\ status[current] = "Reserved" /\ \A r \in todo : status[r] = "Reserved"
    BY CalmStutter DEF CalmInv, CalmExecutor, Send, allVars, vars, records, reservations
  <1>2. transactions \in Seq(Transaction)
    BY AtWork
  <1>3. CASE /\ transactions' =
                   Append(transactions, [reservation |-> current, outcome |-> "Pending"])
             /\ step' = "Marking" /\ sent' = Len(transactions')
    <2>1. /\ sent' = Len(transactions) + 1
          /\ transactions'[sent'] = [reservation |-> current, outcome |-> "Pending"]
          /\ \A i \in DOMAIN transactions' :
                i = sent' \/ (i \in DOMAIN transactions /\ transactions'[i] = transactions[i])
      BY <1>2, <1>3
    <2>2. transactions'[sent'].outcome = "Pending"
      BY <2>1
    <2>3. \A i \in DOMAIN transactions : i # sent
      BY <1>1, <1>2
    <2>4. CalmExecutor'
      BY <1>1, <1>3 DEF CalmExecutor
    <2>5. CalmChain'
      BY <1>1, <2>1, <2>2, <2>3 DEF CalmInv, CalmChain
    <2>6. ChainAhead'
      BY <1>1, <2>2 DEF CalmInv, ChainAhead, UnderWay
    <2> QED  BY <1>1, <2>4, <2>5, <2>6 DEF CalmInv
  <1>4. CASE GiveUp /\ UNCHANGED transactions
    <2>1. CalmExecutor' /\ CalmChain' /\ ChainAhead'
      BY <1>1, <1>4 DEF GiveUp, CalmInv, CalmExecutor, CalmChain, ChainAhead, UnderWay
    <2> QED  BY <1>1, <2>1 DEF CalmInv
  <1> QED  BY <1>3, <1>4 DEF Send, Calm

\* The request reaches the service, and the executor's reservation is still
\* Reserved.
LEMMA CalmMarking ==
    ASSUME Calm, SystemInv, CalmInv, Mark
    PROVE  CalmInv'
  <1>1. /\ step = "Marking" /\ current \in Reservations /\ current \notin todo
        /\ status[current] = "Reserved" /\ StoreInv /\ TypeOK /\ todo \subseteq Reservations
        /\ UNCHANGED <<todo, current, transactions, chainFilled>>
    BY AtWork DEF Mark, CalmInv, CalmExecutor, SystemInv, chainVars
  <1>2. PICK now \in Times, answer \in Answers :
           MarkReservationRequest(current, now, sent, answer) /\ Hear(answer, "Waiting")
    BY <1>1 DEF Mark, NotServed, Calm
  <1>3. /\ CalmStore' /\ answer = "Ok"
        /\ status' = [status EXCEPT ![current] = "Submitted"]
        /\ UNCHANGED <<filled, legs>>
    BY <1>1, <1>2, CalmMark DEF CalmInv
  <1>4. step' = "Waiting" /\ UNCHANGED sent
    BY <1>2, <1>3 DEF Hear, Calm
  <1>5. /\ status'[current] = "Submitted"
        /\ \A r \in Reservations \ {current} : status'[r] = status[r]
    BY <1>1, <1>3 DEF TypeOK
  <1>6. CalmExecutor'
    BY <1>1, <1>4, <1>5 DEF CalmInv, CalmExecutor
  <1>7. CalmChain'
    BY <1>1, <1>4, <1>5, AtWork DEF CalmInv, CalmChain
  <1>8. ChainAhead'
    BY <1>1, <1>3, <1>4 DEF CalmInv, ChainAhead, UnderWay
  <1> QED  BY <1>3, <1>6, <1>7, <1>8 DEF CalmInv

LEMMA CalmAwait ==
    ASSUME Calm, SystemInv, CalmInv, AwaitReceipt
    PROVE  CalmInv'
  <1>1. /\ CalmStore'
        /\ UNCHANGED <<todo, current, transactions, chainFilled, status, filled, legs>>
        /\ step = "Waiting" /\ current \notin todo /\ status[current] = "Submitted"
        /\ \A r \in todo : status[r] = "Reserved"
    BY CalmStutter
    DEF CalmInv, CalmExecutor, AwaitReceipt, chainVars, allVars, vars, records, reservations
  <1>2. sent # 0 /\ sent \in DOMAIN transactions
    BY <1>1, AtWork DEF SystemInv, ExecutorInv
  <1>3. transactions[sent].outcome # "Dropped"
    BY <1>2 DEF CalmInv, CalmChain
  <1>4. /\ UNCHANGED sent
        /\ \/ step' = "Committing"
           \/ step' = "Releasing" /\ transactions[sent].outcome = "Reverted"
    BY <1>3 DEF AwaitReceipt, Calm
  <1>5. CalmExecutor' /\ CalmChain' /\ ChainAhead'
    BY <1>1, <1>4
    DEF CalmInv, CalmExecutor, CalmChain, ChainAhead, UnderWay, Active, ActiveStatuses
  <1> QED  BY <1>1, <1>5 DEF CalmInv

\* The engine catches up with the chain.
LEMMA CalmCommitting ==
    ASSUME Calm, SystemInv, CalmInv, Commit
    PROVE  CalmInv'
  <1>1. /\ step = "Committing" /\ current \in Reservations /\ current \notin todo
        /\ status[current] = "Submitted" /\ StoreInv /\ TypeOK
        /\ todo \subseteq Reservations /\ \A r \in todo : status[r] = "Reserved"
        /\ UNCHANGED <<todo, current, transactions, chainFilled>>
        /\ sent # 0 /\ transactions[sent].outcome = "Succeeded"
        /\ transactions[sent].reservation = current
    BY AtWork DEF Commit, CalmInv, CalmExecutor, SystemInv, ExecutorInv, chainVars
  <1>2. PICK answer \in Answers : CommitReservationRequest(current, answer) /\ GiveUp
    BY <1>1 DEF Commit, NotServed, Calm
  <1>3. /\ CalmStore'
        /\ status' = [status EXCEPT ![current] = "Committed"]
        /\ UNCHANGED legs
        /\ \A o \in Orders : filled'[o] = filled[o] + LegAmount(legs[current], o)
    BY <1>1, <1>2, CalmCommit DEF CalmInv
  <1>4. step' = "Idle" /\ sent' = 0
    BY <1>2 DEF GiveUp
  <1>5. /\ status'[current] = "Committed"
        /\ \A r \in Reservations \ {current} : status'[r] = status[r]
    BY <1>1, <1>3 DEF TypeOK
  <1>6. CalmExecutor'
    BY <1>1, <1>4, <1>5 DEF CalmExecutor
  <1>7. CalmChain'
    <2> SUFFICES ASSUME NEW i \in DOMAIN transactions
                 PROVE  \/ /\ transactions[i].outcome = "Succeeded"
                           /\ status'[transactions[i].reservation] = "Committed"
                        \/ transactions[i].outcome = "Reverted"
      BY <1>1 DEF CalmChain
    <2> QED  BY <1>1, <1>5, AtWork DEF CalmInv, CalmChain
  <1>8. ChainAhead'
    <2> SUFFICES ASSUME NEW o \in Orders
                 PROVE  chainFilled[o] = filled'[o] + 0
      BY <1>1, <1>4 DEF ChainAhead, UnderWay
    <2>1. /\ chainFilled[o] = filled[o] + LegAmount(legs[current], o)
          /\ filled'[o] = filled[o] + LegAmount(legs[current], o)
          /\ chainFilled[o] \in Nat
      BY <1>1, <1>3, AtWork DEF CalmInv, ChainAhead, UnderWay
    <2> QED  BY <2>1
  <1> QED  BY <1>3, <1>6, <1>7, <1>8 DEF CalmInv

\* Only a match that cannot happen on chain any more is let go.
LEMMA CalmReleasing ==
    ASSUME Calm, SystemInv, CalmInv, Release
    PROVE  CalmInv'
  <1>1. /\ step = "Releasing" /\ current \in Reservations /\ current \notin todo
        /\ Active(current) /\ StoreInv /\ TypeOK
        /\ todo \subseteq Reservations /\ \A r \in todo : status[r] = "Reserved"
        /\ UNCHANGED <<todo, current, transactions, chainFilled>>
        /\ sent # 0 => transactions[sent].outcome = "Reverted"
    BY AtWork DEF Release, CalmInv, CalmExecutor, SystemInv, chainVars
  <1>2. PICK answer \in Answers : ReleaseReservationRequest(current, answer) /\ GiveUp
    BY <1>1 DEF Release, NotServed, Calm
  <1>3. /\ CalmStore' /\ UNCHANGED <<filled, legs>>
        /\ \A r \in Reservations \ {current} : status'[r] = status[r]
    BY <1>1, <1>2, CalmRelease DEF CalmInv
  <1>4. step' = "Idle" /\ sent' = 0
    BY <1>2 DEF GiveUp
  <1>5. CalmExecutor'
    BY <1>1, <1>3, <1>4 DEF CalmExecutor
  <1>6. CalmChain'
    <2> SUFFICES ASSUME NEW i \in DOMAIN transactions
                 PROVE  \/ /\ transactions[i].outcome = "Succeeded"
                           /\ status'[transactions[i].reservation] = "Committed"
                        \/ transactions[i].outcome = "Reverted"
      BY <1>1 DEF CalmChain
    <2>1. i # 0
      BY AtWork
    <2> QED  BY <1>1, <1>3, <2>1, AtWork DEF CalmInv, CalmChain, Active, ActiveStatuses
  <1>7. ChainAhead'
    BY <1>1, <1>3, <1>4 DEF CalmInv, ChainAhead, UnderWay
  <1> QED  BY <1>3, <1>5, <1>6, <1>7 DEF CalmInv

\* The chain decides the one transaction that is under way.
LEMMA CalmDecide ==
    ASSUME Calm, SystemInv, CalmInv, NEW i \in DOMAIN transactions, Decide(i)
    PROVE  CalmInv'
  <1>1. /\ CalmStore' /\ UNCHANGED <<todo, step, current, sent, status, filled, legs>>
        /\ transactions[i].outcome = "Pending"
    BY CalmStutter
    DEF CalmInv, Decide, executorVars, allVars, vars, records, reservations
  <1>2. /\ i = sent /\ i # 0 /\ transactions \in Seq(Transaction)
    BY <1>1, AtWork DEF CalmInv, CalmChain
  <1>3. step \in {"Marking", "Waiting"}
    <2>1. step \in Steps /\ (step = "Committing" => transactions[sent].outcome = "Succeeded")
      BY DEF SystemInv, ExecutorInv
    <2> QED  BY <1>1, <1>2, <2>1 DEF CalmInv, CalmExecutor, Steps
  <1>4. transactions[i].reservation = current
    BY <1>2, <1>3 DEF SystemInv, ExecutorInv
  <1>5. PICK outcome \in {"Succeeded", "Reverted"} :
           /\ transactions' = [transactions EXCEPT ![i].outcome = outcome]
           /\ IF outcome = "Succeeded"
              THEN chainFilled' = [o \in Orders |-> chainFilled[o] + LegAmount(legs[current], o)]
              ELSE chainFilled' = chainFilled
    BY <1>4 DEF Decide, Calm
  <1>6. /\ DOMAIN transactions' = DOMAIN transactions
        /\ transactions'[i].outcome = outcome
        /\ \A j \in DOMAIN transactions : j # i => transactions'[j] = transactions[j]
    <2> DEFINE t == [transactions[i] EXCEPT !.outcome = outcome]
    <2>1. transactions[i] \in Transaction /\ i \in DOMAIN transactions
      BY <1>2
    <2>2. t.outcome = outcome
      BY <2>1 DEF Transaction
    <2>3. transactions' = [transactions EXCEPT ![i] = t]
      BY <1>5
    <2> HIDE DEF t
    <2> QED  BY <2>1, <2>2, <2>3
  <1>7. CalmExecutor'
    BY <1>1, <1>3 DEF CalmInv, CalmExecutor
  <1>8. CalmChain'
    BY <1>1, <1>2, <1>6 DEF CalmInv, CalmChain
  <1>9. ChainAhead'
    <2> SUFFICES ASSUME NEW o \in Orders
                 PROVE  chainFilled'[o] = filled[o] +
                           (IF outcome = "Succeeded" THEN LegAmount(legs[current], o) ELSE 0)
      <3>1. UNCHANGED <<filled, sent, current, legs>>
        BY <1>1
      <3>2. \A o \in Orders : UnderWay(o)' =
                 IF outcome = "Succeeded" THEN LegAmount(legs[current], o) ELSE 0
        BY <1>2, <1>6, <3>1, SMTT(30) DEF UnderWay, LegAmount, LegOrders
      <3> QED  BY <3>1, <3>2 DEF ChainAhead
    <2>1. chainFilled[o] = filled[o] + 0 /\ filled[o] \in Nat
      BY <1>1, <1>2, AtWork DEF CalmInv, ChainAhead, UnderWay
    <2> QED  BY <1>5, <2>1
  <1> QED  BY <1>1, <1>7, <1>8, <1>9 DEF CalmInv
-----------------------------------------------------------------------------
LEMMA CalmInvInit ==
    ASSUME Calm, SystemInit
    PROVE  CalmInv
  <1>1. /\ Init /\ stored = Snapshot /\ nextEvent = eventCount
        /\ step = "Idle" /\ todo = {} /\ sent = 0 /\ transactions = <<>>
        /\ \A o \in Orders : chainFilled[o] = 0
    BY DEF SystemInit, ServiceInit
  <1>2. /\ \A r \in Reservations : expiresAt[r] = None /\ status[r] = "NoReservation"
        /\ \A o \in Orders : filled[o] = 0 /\ ~resting[o]
        /\ inBook = {}
    BY <1>1 DEF Init
  <1>3. CalmStore
    BY <1>1, <1>2
    DEF CalmStore, Snapshot, FreshInv, BooksAgree, LegsFillable, Active, ActiveStatuses
  <1>4. CalmExecutor /\ CalmChain
    BY <1>1 DEF CalmExecutor, CalmChain
  <1>5. ChainAhead
    <2> SUFFICES ASSUME NEW o \in Orders
                 PROVE  chainFilled[o] = filled[o] + UnderWay(o)
      BY DEF ChainAhead
    <2>1. UnderWay(o) = 0
      BY <1>1 DEF UnderWay
    <2>2. chainFilled[o] = 0 /\ filled[o] = 0
      BY <1>1, <1>2
    <2>3. 0 = 0 + 0
      OBVIOUS
    <2> QED  BY <2>1, <2>2, <2>3
  <1> QED  BY <1>3, <1>4, <1>5 DEF CalmInv

LEMMA CalmInvStep ==
    ASSUME Calm, SystemInv, CalmInv, [SystemNext]_systemVars
    PROVE  CalmInv'
  <1>1. ~ExecutorCrash
    BY DEF ExecutorCrash, Calm
  <1> QED
    BY <1>1, CalmOther, CalmTake, CalmSend, CalmMarking, CalmAwait, CalmCommitting,
       CalmReleasing, CalmDecide
    DEF SystemNext, ExecutorStep

(***************************************************************************)
(* An executor that nothing disturbs is always at one transaction: all     *)
(* others have been dealt with, whatever clients submit and cancel in the  *)
(* meantime and however often the service starts again                     *)
(* (execute_reservation, recover_from_store).                              *)
(***************************************************************************)
THEOREM CalmInvariance == Calm => (SystemSpec => []CalmInv)
  <1> SUFFICES ASSUME Calm
               PROVE  SystemSpec => []CalmInv
    OBVIOUS
  <1>1. SystemInit => CalmInv
    BY CalmInvInit
  <1>2. SystemInv /\ CalmInv /\ [SystemNext]_systemVars => CalmInv'
    BY CalmInvStep
  <1> QED  BY <1>1, <1>2, SystemInvariance, PTL DEF SystemSpec

(***************************************************************************)
(* Then a match that is on its way to the chain, or has happened there,    *)
(* holds its orders until it is committed (mark_submitted before the wait  *)
(* for the receipt, release only after a revert).                          *)
(***************************************************************************)
THEOREM InFlightIsAlwaysHeld == Calm => (SystemSpec => []InFlightIsHeld)
  <1> SUFFICES ASSUME Calm
               PROVE  SystemSpec => []InFlightIsHeld
    OBVIOUS
  <1>1. SystemInv /\ CalmInv => InFlightIsHeld
    <2> SUFFICES ASSUME SystemInv, CalmInv, NEW i \in DOMAIN transactions,
                        transactions[i].outcome \in {"Pending", "Succeeded"}
                 PROVE  status[transactions[i].reservation] \in ActiveStatuses \cup {"Committed"}
      BY DEF InFlightIsHeld
    <2>1. CASE i # sent
      BY <2>1 DEF CalmInv, CalmChain
    <2>2. CASE i = sent
      <3>1. sent # 0 /\ step \in Steps
        BY <2>2, AtWork DEF SystemInv, ExecutorInv
      <3>2. step \in {"Marking", "Waiting", "Committing"}
        BY <2>2, <3>1 DEF CalmInv, CalmExecutor, Steps
      <3>3. transactions[i].reservation = current
        BY <2>2, <3>2 DEF SystemInv, ExecutorInv
      <3> QED  BY <3>2, <3>3 DEF CalmInv, CalmExecutor, ActiveStatuses
    <2> QED  BY <2>1, <2>2
  <1> QED  BY <1>1, SystemInvariance, CalmInvariance, PTL

(***************************************************************************)
(* And between two reservations the engine and the store count exactly     *)
(* what the chain has filled: nothing is lost either (commit_reservation,  *)
(* persist_engine_update).                                                 *)
(***************************************************************************)
THEOREM FilledAlwaysAgreesWhenIdle == Calm => (SystemSpec => []FilledAgreesWhenIdle)
  <1> SUFFICES ASSUME Calm
               PROVE  SystemSpec => []FilledAgreesWhenIdle
    OBVIOUS
  <1>1. SystemInv /\ CalmInv => FilledAgreesWhenIdle
    <2> SUFFICES ASSUME SystemInv, CalmInv, step = "Idle"
                 PROVE  filled = chainFilled /\ stored.filled = chainFilled
      BY DEF FilledAgreesWhenIdle
    <2>1. sent = 0 /\ stored.filled = filled
      BY DEF CalmInv, CalmExecutor, CalmStore
    <2>2. \A o \in Orders : filled[o] \in Nat /\ chainFilled[o] = filled[o] + 0
      BY <2>1, AtWork DEF CalmInv, ChainAhead, UnderWay
    <2>3. filled \in [Orders -> Nat] /\ chainFilled \in [Orders -> Nat]
      BY AtWork DEF TypeOK, SystemInv, ChainInv
    <2> QED  BY <2>1, <2>2, <2>3
  <1> QED  BY <1>1, SystemInvariance, CalmInvariance, PTL
=============================================================================
