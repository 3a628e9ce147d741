# AsceSwap order book: specifications, model checking and proofs

A verification development for the AsceSwap off-chain order book
(`src/crates`), a Rust workspace that takes signed orders, matches them, locks
each match in a reservation until it settles on chain, and recovers from its
store. It consists of TLA+ modules translated from the Rust sources, TLC
configurations that check them on small instances, and TLAPS proofs, for every
instance, about the arithmetic, the matcher, the engine with its books, the
service with its store, settlement and the keeper.

`PROJECT.json` lists the runs, the source lines each definition stands for, the
hazards the properties are aimed at, and for each property a *faulty variant*
of a definition (a comment says "Faulty variant") with which TLC finds the
property violated.

## 1. The system

| component (crate) | state | operations | talks to |
|---|---|---|---|
| order types, arithmetic (`asceswap-types`, `asceswap-math`) | none | `validate_basic`, price, `prepare_fill` | called by every other part |
| validation (`asceswap-validation`) | none | `validate_order`, hashing, signatures | the engine |
| lifecycle, reservation book (`asceswap-state`) | order states; reservations, `reserved_by_order` | `transition_to`; create, submit, release, expire, commit, rebuild | the engine |
| order book (`asceswap-orderbook`) | price levels, resting orders with their own filled amounts, sequence numbers | insert, restore, remove, `apply_fill`, iterate, depth | engine, matcher |
| matcher (`asceswap-matcher`) | none | plan a direct, mint or merge match | engine; reads the book |
| engine (`asceswap-engine`) | records, books, reservations | submit, cancel, five reservation calls, snapshot, recovery | market actor |
| market actors, router (`asceswap-market-actor`) | one engine per market, routes | the engine's calls as messages, snapshot of all markets | api service |
| api service (`asceswap-api`) | next event sequence | one request at a time: engine call, then persist, then answer | router, store, HTTP server |
| store (`asceswap-storage`, `asceswap-postgres`) | tables of orders, reservations, events, snapshots | persist an update in a transaction, reconnect and repeat, load | api service |
| executor (`asceswap-executor`) | the batch it listed, the transaction it waits for | poll, simulate, send, mark submitted, confirm, commit or release | HTTP API, chain |
| demo market maker (`asceswap-api`) | next salt | counter order, automatic commit | inside `submit_order` of the service |
| HTTP server (`asceswap-server`) | event channel | routes | service |
| adapter keeper (`asceswap-adapter-keeper`) | the target it is at, the time of the cycle, its failures | per cycle and target: simulate, send and await a poke | chain |

An order travels like this. The service validates nothing itself; it hands the
order to the engine of its market. The engine validates it, asks the matcher
for a plan over the book, and either lets it rest, drops it, or locks the
plan's claim amounts in a *reservation*. The service writes the events and the
whole snapshot in one transaction and answers. The executor polls the store for
reservations in state Reserved, sends each match to the chain, marks it
Submitted, and commits or releases it by the receipt. Only a commit fills
orders.

What is hard here:

* **Locks over time.** A resting order may be in one reservation at a time; the
  amounts locked per order are running totals over any sequence of creations,
  releases, expiries and commits, and every way a reservation ends must put its
  orders back where they were.
* **Two copies of one fact.** The record and the book each keep an order's
  filled amount; the price levels and the map of the book each keep the resting
  orders; the engine and the store each keep everything.
* **Errors after changes.** `cancel_order`, `mark_reservation_submitted` and
  `commit_reservation` can change the engine and then fail, and a failed call is
  not persisted.
* **Restarts.** The engine is rebuilt from a snapshot that may have been taken
  at any moment, or be older than the engine that stopped.
* **The executor.** Five requests to two other systems, none of them retried,
  with the rest of the system moving in between, over a listing that is cut at a
  limit.
* **The demo market maker.** Four engine calls inside one client request, any of
  which may be refused, with one write at the end.
* **The keeper.** One loop over targets that fail independently, with a clock
  that is read once per cycle.
* **Rounding.** Fills are priced by differences of floors; a mint's taker pays
  what its makers leave.

What makes each part correct: the arithmetic prices any sequence of fills
exactly; the matcher computes the price-time-priority match; the engine never
overcommits or double-matches and can always be restarted; the books keep time
priority; the service's answers are durable; the executor commits what the
chain settled and nothing else, and ends every reservation; the market maker
trades whole or not at all; the keeper keeps poking what can be poked.

## 2. Modules

| module | models | remarks |
|---|---|---|
| `OrderLifecycle` | `lifecycle.rs` | the states and the transition relation |
| `OrderMath` | `order.rs`, `price.rs`, `fill_accounting.rs` | exact integers: products are taken in U512 and `ValidBasic` keeps every quotient below its operands, so the widths do not bite |
| `OrderValidation` | `validator.rs`, `context.rs` | hashing and signature recovery are inputs |
| `FillAccounting` | `prepare_fill` over the life of one order | |
| `CounterOrder` | `demo_market_maker.rs`: the terms of a counter order | operators |
| `CounterFills` | a counter order meets the order of `FillAccounting` | composes `FillAccounting`, `CounterOrder` and `Matcher` |
| `Lists` | sorting, the queue of a price level and removal from it, the sum of a list | operators |
| `MatchConfig` | `MatchConfig::max_maker_orders` | shared by `Matcher` and `Engine` |
| `Matcher` | `direct.rs`, `assisted.rs`, `plan.rs`, and the price levels they walk (`iter_priority`) | operators; `MatchPlanning` runs them on every small book |
| `MatchPlanning` | `plan_match` on one book and taker | over `Matcher` |
| `Engine` | `engine.rs`, `reservation.rs` | **the abstract specification of the engine**: one action per call, any plan of the right shape |
| `Exchange` | `Engine` with `Matcher` and `asceswap-orderbook` | **implements** `Engine` (property `ImplementsEngine`, an identity mapping on the engine's variables) |
| `Service` | `service.rs`, `actor_service.rs`, the stores | over `Engine` |
| `MarketActors` | `asceswap-market-actor`: actors and routes, and their recovery | over `Service` |
| `DemoMarketMaker` | the market maker's part of `actor_service.rs` | over `MarketActors` with `CounterOrder` |
| `Settlement` | `asceswap-executor` and, external, the chain | over `Service` |
| `Keeper` | `asceswap-adapter-keeper` and, external, its chain and clock | |
| `FillAccountingProofs`, `EngineProofs`, `ExchangeProofs`, `MatchPlanningProofs`, `SettlementProofs`, `KeeperProofs` | | theorems about the module each is named after |
| `MatcherProofs` | | lemmas about `Lists` and `Matcher`, for `ExchangeProofs`, `MatchPlanningProofs` and `FillAccountingProofs` (which is also about `CounterFills`) |
| `ServiceProofs` | | lemmas about `Service`, for every composition of it; theorems about `DemoMarketMaker`, the service with its actors and market maker |
| `MC*` | | instances for TLC |

**State.** `state`, `filled`, `resting` are the fields of an `OrderRecord`;
`inBook` and `bookFilled` what `MarketOrderBook` holds; `status`, `legs`,
`expiresAt` a `Reservation`; `reserved` is `reserved_by_order`. A reservation is
named by its taker, since an order hash is accepted once. `errored` records
that the last call changed something and then returned an error. `Exchange`
adds the price levels, each a queue of the hashes that stand at one price of one
side of a market's book, and the sequence numbers. Each call does to the levels
what it does in the code: a submission that rests inserts, a cancellation removes
its order, a commit removes the orders it uses up on the book, a restart inserts
all again, and a removal looks the hash up by the order's side and price. That
the levels then hold the orders of the map, `inBook`, is a property, not a
definition. `Service` adds the rows of the store, the transaction hash in each
reservation's row, the event log's length and `next_event_sequence`; the store as
an engine is an INSTANCE of `Engine` on the rows (`Stored`), so "the store is
sound" is the engine's own invariants. `MarketActors` adds the markets that have an actor and
the two maps of routes; `DemoMarketMaker` what the request in progress does
next, the order it answers, and `next_salt`; `Settlement` the executor's program
counter and the transactions. `Keeper` has the loop's place and the transaction
it waits for.

**Atomicity.** An engine method runs with `&mut self` in its actor, the service
takes one request at a time and awaits each answer, so a request is one step
with its write and answer; where the write fails, is unheard, or the process
stops, the step says so (`FailToPersist`, `Recover`). `Crash` at any moment
covers a stop between the engine's call and the write, because the lost memory
is then simply not in the store. A submission that the demo market maker
answers is up to four steps, one per engine call, because the process may stop
between them; no other request is served meanwhile. An actor's message and its
answer are one step, since the service awaits each answer before it sends the
next message: an inbox never holds more than one. The executor's and the
keeper's requests are separate steps.

**Simplifications.** Orders, markets and hashes are names. Events of a call are
one entry of the log. One `Engine` stands for the engines of all markets: a
match never leaves its market (`Candidates`), and nothing else is shared;
`RoutesComplete` checks what that relies on. The listing of the executor is
ordered by times that callers supply, so its first `ListLimit` reservations are any. The chain refuses a match that would fill an order beyond
its size, and may refuse any other (`Revert`). After a restart the salts of
counter orders continue from the event sequence; failed requests use salts
without events, so the model continues from any salt used before.

## 3. Runs

Passing runs:

| run | question | instance |
|---|---|---|
| `fills` | Is collateral priced exactly however an order is cut? Does the counter order take the whole of a fresh order? | every order with amounts up to `MaxAmount`, invalid ones included, both sides, every sequence of fills |
| `planning` | Is the plan the price-time-priority match? Can it settle? Does planning fail only on a fill too small to price? | every ordered choice of makers from six up to `MaxBook`, every filled amount and lock, two takers; the makers include equal prices, different prices, and both assisted kinds |
| `engine` | Is custody safe for *any* matcher? | three orders, either taker or maker, prior fills, expiry, cancelled, post-only and immediate-or-cancel submissions |
| `exchange` | Does the real matcher with its books implement `Engine`? Do the price levels and the map of a book stay in agreement? Is time priority kept? | four orders: two asks at one price whose hash order and arrival disagree, a bid that takes one and a half of them, and a mint partner |
| `service` | Are answers durable, is everything routed, does the market maker trade whole? | a seller and a buyer whom the market maker answers, an order of its own on a second market, every store fault, and restarts between any two engine calls |
| `settlement_faults` | Is anything committed that the chain did not settle? Whose hash does a settled match end up with? | two matches that compete for one order, expiring reservations, two transactions, every other fault |
| `settlement_calm` | When nobody is interrupted, do locks hold, fills agree and reservations end? | two matches that follow each other on one order, a third with an unsigned order that is listed for ever, reverts and service restarts |
| `keeper` | Which targets are poked, how often after their end, and how soon after a failure? | three targets, one of which ends; any of them broken; dry run or not |

Violation runs check what a document says of the program and the code does not
do; each is a finding in `PROJECT.json`:

| run | what TLC finds |
|---|---|
| `crossed_book` | An order that crosses only *locked* makers rests. When they are released the book is crossed and nothing matches the two. |
| `commit_failure` | An order submitted with an amount already filled rests on the book as unfilled, so the book's copy is behind the record. A fill that the matcher sized by the copy may move no unit of collateral on the record's amount; the commit then fails after its reservation has become Committed: the maker stays Submitted for ever and its fill is not counted. |
| `one_transaction` | The executor sends first and marks afterwards. A reservation that expires in between is let go in memory only; the store still lists it and it is sent again. |
| `dropped_transaction` | A dropped transaction leaves its reservation Submitted, which the executor no longer lists and nobody may expire. |

A related behaviour is modelled without a run of its own: a refused cancellation
(or the mark of an expired reservation) has already changed the engine and is
not written by that call, only by the next one that succeeds; a restart before
that takes it back. `docs/orderbook-flow-explainer.md:722` says that every
engine update is persisted. `AnsweredIsDurable` holds because the caller was
given an error.

**Bounds.** `fills` takes every order with amounts up to twelve (`MaxAmount`) at
a unit of seven (`Wad`), so that prices are rounded at almost every amount; the
other runs take amounts of one to six units: the smallest at which a price does
not divide evenly, an order can be taken in two parts, and a remainder exists.
`planning` has books of up to three orders (`MaxBook`), one more than a match
takes (`MaxMakerOrders = 2`), with up to two units of each already filled
(`MaxFilled`), so that the limit, a locked maker and a used-up maker meet.
Three orders are the least with which two reservations can want one order; a
fourth is needed for time priority and a mint at once. Times need one value
before and one after an expiry. An order record is created once and moves
forward, so the engine, the service and the event log are finite without
further bounds; `MaxTransactions` bounds the transactions, and two are the
least with which one reservation can be sent twice or two can compete.
In `settlement_faults` unheard commits are left to `service`, which has them
with every other fault of the store. In `settlement_calm` the limit of the
listing (`ListLimit`) is two, one more than the reservations that cannot be
settled; with a limit of one the unsigned match starves the others and
`EveryReservationEnds` fails. `service` has one salt (`MaxSalt`): a
restart brings it back, so that a counter order the engine knows and one it has
forgotten are both submitted again. In `keeper` the clock runs to `MaxTime`, one
tick past the end of the second target, and the two delays are one and two
ticks; a cycle can begin before, at and after the end, and can be as long as
the clock.
The buyers of `settlement_faults` are interchangeable, so symmetry is sound. The
views of `service` and `settlement_faults` leave out the length of the event
log, of which only the comparison with `next_event_sequence` matters (and, in
`settlement_faults`, the history variable `answered`, which no action reads and
no property of that run but the type invariant names).

**Deadlock** is allowed where all orders are used up. It is checked in `keeper`,
whose loop never ends.

**Fairness** is assumed in `settlement_calm`, `dropped_transaction` and `keeper`:
weak fairness of the executor and of the keeper, whose loops run for ever and
log and skip every error, of the chain on each pending transaction, which a
node decides eventually (neither program limits its wait, so one that was never
decided would stop it), and of the keeper's clock. Clients owe nothing and faults
never have to happen.
`EveryReservationEnds` is checked without drops, because with them it is false
(`dropped_transaction`), and without expiries, failed writes and interruptions
of the executor for the reason `one_transaction` shows.

## 4. Proofs

`EngineProofs` proves, for every set of orders with every terms, every set of
submissions and times, and every maker limit from 1 to 32:

* `TypeCorrect`, `NeverOvercommitted`, `NeverDoubleMatched`, `LocksAlwaysAgree`,
  `TotalsExact`, `AlwaysRestartable`, `RestingAlwaysOnBook`: the invariants that
  run `engine` checks;
* `FillsOnlyByCommit`, `LifecycleAlwaysRespected`: its action properties.

The assumptions are those of the modules: the types of the constants, and what
`OrderMath` assumes of the terms. The argument rests on one inductive
invariant, `Inv`. None of the properties is inductive by itself: that a commit
stays within an order's size needs to know that the amount was locked, that the
totals add up needs that no other reservation locks the same order, and that in
turn needs that a locked order has a locked state, which is what keeps the
matcher away from it. `Inv` is the conjunction of `TypeOK`, `NoDoubleMatch`,
`LocksAgree`, `NoOvercommit` and

* `LegsDistinct`: a reservation has at most one leg per order;
* `HoldsExactly`: an order's total is its leg in the one active reservation
  that holds it, or zero;
* `Unrecorded`: an order without a record does not rest, has no reservation
  and is in no reservation's legs;
* `AdmittedValid`: an order that passed validation is valid;
* `RestingAlive`: an order that rests is not in a final state, has something left,
  and is on its book, which counts no more filled than the record.

`NextInv` has one lemma per action: the ways a reservation ends share
`LetGoInv`, the ways a record is created without a match share `NewRecordInv`,
and the two long ones are `ReserveMatchInv` (locking a plan) and `CommitInv`
(filling leg by leg, stopping where a leg fails).

`FillAccountingProofs` proves `AlwaysExactPrice` and `RemainderAlwaysFillable`
for orders of any size. The inductive invariant `FillInv` says that what has been
paid is the price of what has been filled, rounded down *once*; that this is
kept, and that no remainder is stranded by the `ZeroFill` rule, are facts about
differences of floors (`Quotient` and `QuotientShift` in `MatcherProofs`).
`FreshOrderAlwaysCountered` is about the market maker's counter order, whose price
is rounded up from a price that was rounded down: both orders are alone on their
books, so the plan is one fill (`WholePlanFinished`), and each order, filled whole,
moves exactly the collateral of its own terms (`WholePriced`), which differ from
the other's by what rounding up adds (`ComplementPriced`).

`MatcherProofs` is about the operators. The loop of the matcher and the sum of a
list are recursive functions: that they have a solution, which their equations
then determine, is proved by the least number for which there is none, and the
facts about them likewise, since the library's induction theorems cannot be
instantiated here. `Ranked` is shown to list a finite set in the order given,
`Sublist` to keep the order of what stands at the places it takes, from which the
queue after a removal (`Without`) and the levels after a restart (`LevelsOf`) get
theirs, and `Priority` to walk every order of a side once, from the best level down
and each level from the front; for the levels of a list that is by arrival within
one price. The loop invariant is `LoopInv`: after the
first k makers the plan adds up, is within what the taker and each maker have
left, names no maker twice, and every fill in it can be priced (`GoodFill`).

`ExchangeProofs` proves, for any orders, books, commands and maker limit:

* `ExchangeImplementsEngine`: the refinement of `Engine`, step by step. The one
  step that is not `Engine`'s own is a submission, where `MatchIsPlan` takes from
  `MatcherProofs` that what the matcher returns is in `Plans`. So every theorem
  of `EngineProofs` speaks about the engine as it runs;
* `LevelsAlwaysMatchBook`, `LegsAlwaysBalance`, `TimePriorityAlwaysKept`;
* `FreshOrdersCommitInFull`: *if* every order is submitted with nothing filled,
  every commit fills every leg. Run `commit_failure` shows that the hypothesis is
  needed, run `exchange` checks the property where it holds.

The inductive invariant `ExchangeInv` adds to the engine's `Inv` that the levels
hold the orders on the books, each once and at its own level, and that none is
empty (`LevelsMatchBook`), that these orders passed validation, and that each level
is in the order of the sequence numbers, which are different within a market and
lie below the market's next one (`SequencesOrdered`): a restart sorts by these
numbers, and without the last part an order that arrives after it could get a
number again. A removal from the levels is shown to be one from the map because
the level an order is looked for at is the one it stands at, once (`LevelsWithout`,
`RemoveInv`); that a commit removes just what it uses up on the book needs that an
order recorded as resting is on it.
The conditional theorem needs `FreshInv` besides: the books count what the
records count (`BooksAgree`), and every leg of a reservation in flight can be
priced from what its order has filled (`LegsFillable`).

`MatchPlanningProofs` proves, for any book, taker, locks and prior fills,
`PlanAlwaysSettles`, `BestMakersAlwaysFirst`, `AlwaysTakesAllItCan` and
`FailsAlwaysOnlyOnDust`. The first follows from `LoopInv` and the checks at the end
of a plan. The next two need a second loop invariant, `Greedy`: while the taker wants more, each open maker so far
is used up; a maker is filled only if the open ones before it are used up; and the
loop stops early only at the maker limit or at a maker that does not cross, after
which, by the order of `Priority`, none crosses. The last needs a third, `Dust`:
a taker that still wants more has been given all that the open makers so far have
left together, and a loop that has failed did so at an open maker of which less
than it has was wanted, too little to price. That this is the sum over the
makers that go before, as the property states it, is `SumOfMore` and `EachInTurn`:
one more maker comes last in the ranked list of positions.

`ServiceProofs` proves, for the service with its actors and market maker, any
orders, commands and faults: `ApiTypeCorrect`, `AnsweredAlwaysDurable`,
`StoreAlwaysConsistent`, `RoutesAlwaysComplete`, `DemoAlwaysTradesWhole` and
`EventLogAlwaysAligned`. The first part of the module is
about any caller of the engine: no call takes anything back (`EngineCall`), a write
copies the engine whole, and a recovery reads what a write left. So `StoreInv`
is inductive: the engine satisfies the engine's invariant, so do the rows of the
store, read through `Stored`, and neither the rows nor the last answer are ahead
of the engine. `ApiInv` adds what the other properties need: the
number of the next event is the log's, or one behind it after an unheard commit
(`LogInv`); whatever has a record has a route (`RoutesInv`), which needs that a
reservation stays in one market (`OneMarket`); and while a request of the market
maker is under way, its counter order is the only one of its orders in flight
(`WholeInv`).

Two theorems follow the market maker through its trade. `DemoAlwaysServed` says
that the reservation of its counter order is where each of its steps left it:
the actor serves one request at a time, so only a step of the request itself, or
a restart that ends the request, touches it; and the request has one time, before
the end of the hold it took. `DemoIsNeverRefused` adds that its commit fills every leg,
*if* every client's order comes with nothing filled. For that `FreshStore` carries
`FreshInv` of `EngineProofs` across the faults: after a restart the books and the
fills are what the rows say, and legs that could be priced when the rows were
written still can be (`RowsFillable`).

`SettlementProofs` proves, for the service, the executor and the chain, with any
orders, listings and faults: `SystemTypeCorrect`, `CommittedAlwaysOnChain`,
`FilledAlwaysOnChain`, `WaitingIsAlwaysHeld` and `CommittedHashAlwaysSucceeded`. It
reuses `StoreInv`. That nothing
is filled beyond the chain is not inductive: a commit that is still to come adds to
the fills, so `OnChain` says of the engine *and* of the rows that for a
reservation in flight which the chain has executed, what its orders have filled
together with its legs is within what the chain has filled; and the executor is
at work on a reservation the store has, with a transaction of that reservation
(`ExecutorInv`, `ChainInv`). The hash in a row is not settled by one write: a mark
whose update failed leaves the hash of its transaction in the row, and once the
engine has been restarted from the rows the reservation is marked again with
another. So the last theorem goes through the one before it: while a receipt is awaited the row has
the hash of that very transaction, the update that commits carries no hash and
keeps it, and afterwards nobody marks the reservation again.

Two more of its properties hold only of a system that little disturbs, and are
theorems under the hypothesis `Calm`: the faults are at most restarts of the
service and reverting transactions, and no command has a time to live. That is
what run `settlement_calm` takes; clients still submit and cancel at any moment, and
the runs `one_transaction` and `dropped_transaction` show what other faults do. Then
`InFlightIsAlwaysHeld` and `FilledAlwaysAgreesWhenIdle` follow from `CalmInv`, which is
inductive relative to `SystemInv`: the step of the executor says how far its
reservation is and which transaction is its own (`CalmExecutor`), every other
transaction has been dealt with (`CalmChain`), the rows agree with the engine
(`CalmStore`), and the chain has filled what the engine has and the legs of the one
transaction that is not committed yet (`ChainAhead`). A commit brings the last two
together only because it fills every leg, for which `FreshInv` of `EngineProofs`
is part of `CalmStore`.

`KeeperProofs` proves, for any number of targets with any ends, any delays and
any set of broken targets, `KeeperTypeCorrect`, `NeverPokedTwiceAfterEnd` and
`NoFailureForgotten`, from the invariant `KeeperInv`. That a target is poked at
most once after its end is not inductive: it needs that a poke after the end
happened in the present cycle at or before the present target, or in a cycle
after which the target counts as ended (`LateOnce`). That no failure is
forgotten needs that in every state of a cycle each target already passed is
poked, ended, or counted (`FailuresKept`), and that a success that is awaited
is one on chain (`ReceiptAwaited`).

**Assumptions.** The proofs use the modules' ASSUMEs and nothing else, and TLC
evaluates each of them in a run. Most are types of constants. The others:

* `MakersAssumption`: 1 to 32 makers, what `MatchConfig` allows;
* `NoneAssumption`: an absent option is not a value;
* `CounterAssumption`: the set of orders contains the market maker's answers to
  the clients' orders, and no client submits one of these. They are made inside
  the service and signed with the market maker's key;
* `FreshAssumption` (`Settlement`): orders come with nothing filled, as they do
  when the chain has not seen them; without it the first commit would already
  count more than the chain;
* `CounterHashAssumption` (`CounterFills`): an order hash commits to the terms of
  the order, so that the counter order of a valid order below par has the terms it
  was made with;
* `HashRankAssumption`: hashes are distinct byte strings and can be ranked;
* `BookAssumption` (`MatchPlanning`): the orders on a book, and a taker, passed
  `validate_basic`, which the engine calls before it plans and the book again
  when it inserts.

**Only model-checked.** Every safety invariant and action property that a passing
run checks is a theorem. Liveness (`EveryReservationEnds`, `HealthyKeepBeingPoked`)
is out of the prover's reach. The violation runs are counterexamples.

## 5. Not modelled

* HTTP routes, wire formats, API events, read-only listings, depth: no state.
* The event stream of the HTTP server: handlers publish after the service has
  answered, so events may reach subscribers out of sequence order, and a slow
  subscriber skips some. Nothing in the program reads it and nothing promises its
  order; the listing of events by sequence is the record.
* Hashing, signing and signature recovery: cryptography; the outcome is an input.
* Row codecs and schema: one-to-one conversions with round-trip tests.
* Creation and update times of rows, beyond the order of the listing.
* The configuration of the programs; the keeper's exit when the clock is before
  the epoch.
* `fee.rs`: called by tests only. `append_fill`: no caller outside tests.

## 6. Plan

The proofs cover what the prover can reach of the present properties. What would
come next, as the code grows:

1. An event stream with an order of its own, once a subscriber relies on one
   (section 5).
2. The fees of `fee.rs`, once the engine charges them.
