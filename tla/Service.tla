------------------------------ MODULE Service -------------------------------
(***************************************************************************)
(* The API service (asceswap-api) over the engine and the store            *)
(* (asceswap-storage, asceswap-postgres).  The service takes one request   *)
(* at a time: it calls the engine, writes the events of the call and the   *)
(* snapshot of the engine in one transaction, and answers.  The service    *)
(* over one engine (service.rs) and the one over market actors             *)
(* (actor_service.rs, see MarketActors) do the same with what the engine   *)
(* returns.                                                                *)
(*                                                                         *)
(* A call that the engine fails is answered with an error and not written, *)
(* even if it changed the engine.  The store may fail the transaction, or  *)
(* run it and lose the acknowledgement: then it connects again, repeats    *)
(* the transaction and fails on the events that are there already.  The    *)
(* process may stop and start again from the store.                        *)
(*                                                                         *)
(* The market actors hold one engine each; Engine stands for all of them,  *)
(* since a match never leaves its market.  The events of a call are        *)
(* written together and count as one.                                      *)
(***************************************************************************)
EXTENDS Engine

CONSTANT Faults     \* the faults the environment may show, of FaultKinds

FaultKinds ==
    {"WriteFails",      \* a statement or transaction of the store fails
     "CommitUnheard",   \* a transaction of the store runs and is reported failed
     "Crash",           \* the service stops and starts again
     "ExecutorCrash", "HttpError", "RpcError",
     "Revert", "Drop"}  \* of the executor and the chain, see Settlement

ASSUME FaultsAssumption == Faults \subseteq FaultKinds

VARIABLES
    stored,         \* the rows of the tables orders, reservations and legs
    hashes,         \* the transaction hash in the row of each reservation, or None
    eventCount,     \* the updates in the table engine_events
    nextEvent,      \* the service's next_event_sequence
    answered        \* history: the engine at the last call answered with success

serviceVars == <<stored, hashes, eventCount, nextEvent, answered>>
allVars     == <<vars, serviceVars>>

Answers == {"Ok", "Error"}

\* AsceSwapEngine::snapshot, of all markets (snapshot_all).
Snapshot ==
    [state |-> state, filled |-> filled, resting |-> resting,
     status |-> status, legs |-> legs, expiresAt |-> expiresAt]

SnapshotType ==
    [state : [Orders -> OrderStates \cup {"NoRecord"}], filled : [Orders -> Nat],
     resting : [Orders -> BOOLEAN],
     status : [Reservations -> Statuses \cup {"NoReservation"}],
     legs : [Reservations -> Seq(Leg)], expiresAt : [Reservations -> Nat \cup {None}]]

StoredHolders(o) ==
    {r \in Reservations :
        stored.status[r] \in ActiveStatuses /\ o \in LegOrders(stored.legs[r])}

\* The engine that from_snapshot makes of the rows of the store.
Stored ==
    INSTANCE Engine WITH
        state <- stored.state, filled <- stored.filled, resting <- stored.resting,
        inBook <- {o \in Orders : stored.resting[o]},
        bookFilled <- [o \in Orders |-> IF stored.resting[o] THEN stored.filled[o] ELSE 0],
        status <- stored.status, legs <- stored.legs, expiresAt <- stored.expiresAt,
        reserved <- [o \in Orders |->
                        IF StoredHolders(o) = {} THEN 0
                        ELSE LegAmount(stored.legs[CHOOSE r \in StoredHolders(o) : TRUE], o)],
        errored <- FALSE

StoredReservations == {r \in Reservations : stored.status[r] # "NoReservation"}

ServiceInit ==
    /\ Init
    /\ stored = Snapshot
    /\ hashes = [r \in Reservations |-> None]
    /\ eventCount = 0
    /\ nextEvent = 0
    /\ answered = Snapshot
-----------------------------------------------------------------------------
(***************************************************************************)
(* The store.                                                              *)
(***************************************************************************)

\* The hashes that one request writes: at most one, of a reservation being
\* marked.
HashWrites == UNION {[S -> Nat] : S \in SUBSET Reservations}
NoHash     == [r \in {} |-> 0]

\* Faulty variant: the arguments of COALESCE are swapped, so that the first
\* hash stays.
FirstHashes(recorded) ==
    [r \in Reservations |->
        IF hashes[r] = None /\ r \in DOMAIN recorded THEN recorded[r] ELSE hashes[r]]

\* UPSERT_RESERVATION_SQL: a row takes the hash it is given, in place of one
\* it has, and keeps its own if it is given none.
RowHashes(recorded) ==
    [r \in Reservations |-> IF r \in DOMAIN recorded THEN recorded[r] ELSE hashes[r]]

\* Faulty variant: the reservations are not written.
WriteOrdersOnly(recorded) ==
    /\ stored' = [stored EXCEPT !.state = state', !.filled = filled', !.resting = resting']
    /\ hashes' = RowHashes(recorded)
    /\ eventCount' = eventCount + 1

\* write_engine_update_transaction: the events, and a row for each order and
\* reservation the engine knows.  The engine's reservations have no hash;
\* recorded is the one that was written just before, if any.
WriteUpdate(recorded) ==
    LET known == {r \in Reservations : status'[r] # "NoReservation"}
        Rows(from, mine, there) == [x \in Orders |-> IF x \in there THEN mine[x] ELSE from[x]]
        knownOrders == {o \in Orders : state'[o] # "NoRecord"}
    IN  /\ stored' =
              [state     |-> Rows(stored.state, state', knownOrders),
               filled    |-> Rows(stored.filled, filled', knownOrders),
               resting   |-> Rows(stored.resting, resting', knownOrders),
               status    |-> Rows(stored.status, status', known),
               legs      |-> Rows(stored.legs, legs', known),
               expiresAt |-> Rows(stored.expiresAt, expiresAt', known)]
        /\ hashes' = RowHashes(recorded)
        /\ eventCount' = eventCount + 1

\* Events whose sequence number is taken fail the transaction
\* (DuplicateEventSequence).
Acknowledge(recorded) ==
    /\ nextEvent = eventCount
    /\ WriteUpdate(recorded)
    /\ nextEvent' = eventCount'
    /\ answered' = Snapshot'

\* Faulty variant: the sequence number advances although the write failed.
FailAndCount(recorded) ==
    /\ "WriteFails" \in Faults
    /\ nextEvent' = nextEvent + 1
    /\ hashes' = RowHashes(recorded)
    /\ UNCHANGED <<stored, eventCount, answered>>

\* The transaction does not run, because it fails or because its first event
\* is there already; or it runs, the connection is lost, and the second
\* attempt (operation_with_reconnect) finds the first event there already.
\* A transaction hash is written by a statement of its own before that.
FailToPersist(recorded) ==
    /\ \/ /\ nextEvent # eventCount \/ "WriteFails" \in Faults
          /\ hashes' = RowHashes(recorded)
          /\ UNCHANGED <<stored, eventCount>>
       \/ /\ "CommitUnheard" \in Faults
          /\ nextEvent = eventCount
          /\ WriteUpdate(recorded)
    /\ UNCHANGED <<nextEvent, answered>>

\* persist_and_project_events, which a call the engine failed does not reach.
Respond(answer, recorded) ==
    \/ answer = "Ok" /\ ~errored' /\ Acknowledge(recorded)
    \/ answer = "Error" /\ ~errored' /\ FailToPersist(recorded)
    \/ answer = "Error" /\ errored' /\ UNCHANGED serviceVars

\* reservation_response reads the reservations once more before it answers.
RespondReservation(answer, recorded) ==
    \/ Respond(answer, recorded)
    \/ /\ answer = "Error" /\ ~errored'
       /\ "WriteFails" \in Faults
       /\ nextEvent = eventCount
       /\ WriteUpdate(recorded)
       /\ nextEvent' = eventCount'
       /\ UNCHANGED answered
-----------------------------------------------------------------------------
(***************************************************************************)
(* Requests.  A request that the engine refuses without a change is no     *)
(* action.                                                                 *)
(***************************************************************************)
SubmitOrderRequest(o, command) ==
    /\ SubmitOrder(o, command)
    /\ \E answer \in Answers : Respond(answer, NoHash)

CancelOrderRequest(o) ==
    /\ CancelOrder(o)
    /\ \E answer \in Answers : Respond(answer, NoHash)

\* With the hash of the transaction, or None.  record_reservation_tx_hash
\* writes it by a statement of its own, if the store has the reservation.
MarkReservationRequest(r, now, hash, answer) ==
    \/ MarkExpiredReservation(r, now) /\ Respond(answer, NoHash)
    \/ /\ MarkReservationSubmitted(r, now)
       /\ \/ LET row == IF hash = None THEN {} ELSE {r} \cap StoredReservations
             IN  RespondReservation(answer, [x \in row |-> hash])
          \/ /\ hash # None
             /\ "WriteFails" \in Faults
             /\ answer = "Error"
             /\ UNCHANGED serviceVars

ReleaseReservationRequest(r, answer) ==
    ReleaseReservation(r) /\ RespondReservation(answer, NoHash)

ExpireReservationRequest(r, now, answer) ==
    ExpireReservation(r, now) /\ RespondReservation(answer, NoHash)

CommitReservationRequest(r, answer) ==
    CommitReservation(r) /\ RespondReservation(answer, NoHash)

\* Faulty variants: the next event takes the number of the last one; the
\* engine starts without the reservations.
LastSequence == eventCount - 1

ForgetReservations ==
    /\ state' = stored.state /\ filled' = stored.filled /\ resting' = stored.resting
    /\ inBook' = {o \in Orders : stored.resting[o]}
    /\ bookFilled' = [o \in Orders |-> IF stored.resting[o] THEN stored.filled[o] ELSE 0]
    /\ status' = [r \in Reservations |-> "NoReservation"]
    /\ legs' = [r \in Reservations |-> <<>>]
    /\ expiresAt' = [r \in Reservations |-> None]
    /\ reserved' = [o \in Orders |-> 0]
    /\ errored' = FALSE

\* last_event_sequence + 1.
NextSequence == eventCount

\* load_snapshot, split_snapshot_by_market and from_snapshot.
RestoreEngine ==
    /\ Stored!SnapshotValid
    /\ state' = stored.state /\ filled' = stored.filled /\ resting' = stored.resting
    /\ status' = stored.status /\ legs' = stored.legs /\ expiresAt' = stored.expiresAt
    /\ inBook' = {o \in Orders : stored.resting[o]}
    /\ bookFilled' = [o \in Orders |-> IF stored.resting[o] THEN stored.filled[o] ELSE 0]
    /\ reserved' = [o \in Orders |->
                      IF StoredHolders(o) = {} THEN 0
                      ELSE LegAmount(stored.legs[CHOOSE r \in StoredHolders(o) : TRUE], o)]
    /\ errored' = FALSE

\* The process stops, whatever it was doing, and starts from the store
\* (recover_from_store).
Recover ==
    /\ "Crash" \in Faults
    /\ RestoreEngine
    /\ nextEvent' = NextSequence
    /\ UNCHANGED <<stored, hashes, eventCount, answered>>

ClientRequest ==
    \/ \E o \in Orders, command \in Commands : SubmitOrderRequest(o, command)
    \/ \E o \in Orders : CancelOrderRequest(o)

SettlementRequestFor(r, answer) ==
    \/ \E now \in Times :
          \/ \E hash \in {None, 1} : MarkReservationRequest(r, now, hash, answer)
          \/ ExpireReservationRequest(r, now, answer)
    \/ ReleaseReservationRequest(r, answer)
    \/ CommitReservationRequest(r, answer)

SettlementRequest ==
    \E r \in Reservations, answer \in Answers : SettlementRequestFor(r, answer)

ServiceNext == ClientRequest \/ SettlementRequest \/ Recover

ServiceSpec == ServiceInit /\ [][ServiceNext]_allVars
-----------------------------------------------------------------------------
ServiceTypeOK ==
    /\ TypeOK
    /\ stored \in SnapshotType
    /\ hashes \in [Reservations -> Nat \cup {None}]
    /\ eventCount \in Nat /\ nextEvent \in Nat
    /\ answered \in SnapshotType

Progress(reservationStatus) ==
    CASE reservationStatus = "NoReservation" -> 0
      [] reservationStatus = "Reserved"      -> 1
      [] reservationStatus = "Submitted"     -> 2
      [] OTHER                               -> 3

\* Nothing that snapshot "old" says has been taken back in snapshot "new".
NotBehind(new, old) ==
    /\ \A o \in Orders :
          /\ new.filled[o] >= old.filled[o]
          /\ old.state[o] # "NoRecord" => new.state[o] # "NoRecord"
          /\ old.state[o] \in {"Filled", "Cancelled", "Rejected"} =>
                new.state[o] = old.state[o]
    /\ \A r \in Reservations :
          /\ Progress(new.status[r]) >= Progress(old.status[r])
          /\ old.status[r] \in TerminalStatuses => new.status[r] = old.status[r]
          /\ old.status[r] # "NoReservation" => new.legs[r] = old.legs[r]

(***************************************************************************)
(* What a caller was told stays true: neither the store nor the engine     *)
(* ever falls behind the last call that was answered with success, through *)
(* failed and unheard transactions, errors and restarts; and a restart     *)
(* never takes the engine behind the store (persist_engine_update before   *)
(* the answer, recover_from_store).                                        *)
(***************************************************************************)
AnsweredIsDurable ==
    /\ NotBehind(stored, answered)
    /\ NotBehind(Snapshot, stored)

(***************************************************************************)
(* The rows of the store are at any moment those of a sound engine: a      *)
(* restart accepts them, no order in them is committed beyond its size or  *)
(* twice, and the locks on the orders are those of the reservations.  The  *)
(* store is written whole, also after calls that were not written.         *)
(***************************************************************************)
StoreConsistent ==
    Stored!SnapshotValid /\ Stored!NoOvercommit /\ Stored!NoDoubleMatch /\ Stored!LocksAgree

(***************************************************************************)
(* The sequence number the service will use next is free, or taken by one  *)
(* update that the service was told had failed.  So the log has no gaps,   *)
(* and never more than one update nobody was told of.                      *)
(***************************************************************************)
EventLogAligned == nextEvent \in {eventCount - 1, eventCount}
=============================================================================
