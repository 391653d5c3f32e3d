# A TLA+ model of polyglot-infinity

polyglot-infinity is a trading platform made of some thirty small services in as
many languages. A Go gateway stands in front of them; a Java server keeps orders
in PostgreSQL and settles each of them with a saga against a Clojure ledger;
order events travel through Redis to browsers, where a Svelte portal shows them
beside one panel per service. `chaos.sh` kills and restarts
containers at random, so the services are meant to live with failures of the
others.

This directory models the parts that keep state and run concurrently. Most of
the other services are pure numeric functions behind HTTP.

## 1. Inventory

| Component | State | Operations | Talks to | What is hard |
|---|---|---|---|---|
| Order server, `loom-java/VirtualServer.java` | table `orders` in PostgreSQL | POST (insert PENDING, start saga), PUT (state machine under `SELECT FOR UPDATE`), `SagaCoordinator.runSaga`, `publishOrderEvent`, benchmark, GETs | gateway (saga), Redis, APM server | saga and PUTs on one row, crash between insert and saga, failed UPDATE, duplicate POST, events from independent threads |
| Circuit breaker, `server-go/main.go` | `circuitBreakers`, per breaker `state`, `failures`, `lastFailure` | `getOrCreateCB`, `Allow`, `RecordSuccess`, `RecordFailure` | every backend | independent atomics, several goroutines between them, healing |
| Reverse proxy, `newCBProxy` | none of its own | admit, forward, classify response, fallback | every backend | deadline against late answer, cancelled callers, GETs sent again on a broken connection, 200 for every failure |
| WebSocket hub, `server-go/main.go` | `clients`, `broadcast`, a `send` queue per client | register, unregister, fan out, two pumps per client, Redis subscriber | Redis, browsers | eviction against unregistering, full queues, goroutine leaks |
| Ledger, `ledger-clojure/server.clj` | one ref per account, `transfer-log`, `total-transfers` | `transfer!`, `reset-accounts!`, `run-stress!`, `total-balance` | called through the gateway | STM conflicts, reset during transfers, sum outside a transaction, state lost on restart |
| Gateway status cache and fan-out handlers | Redis cache with 10 s TTL | status, aggregate, report, workflow handlers | Python, Rust, Kotlin, all | cache stampede, partial failure of a fan-out |
| APM pipeline (`ApmCollector.java`, gateway middleware, `apm-server/server.js`) | two bounded queues, circular buffer | record, drain, ingest, metrics | each other | check-then-act on the queue bound, lost batches, buffer bound |
| Elixir hub | last snapshot, subscribers | poll, Redis reconnect, broadcast | gateway, Redis, browsers | crash of the poller, resubscription |
| Erlang, Swift, Prolog, Ruby, Lua, Gleam services | one small shared state each | hot swap, actor ledger, risk flags, rule table, coroutine scheduler, counters | gateway | read-modify-write and shared facts under concurrent requests |
| Rust pipeline | table `risk_logs` | `bulk_insert` in one transaction | PostgreSQL | what is reported after a rollback |
| Portal panels, `portal-svelte/src/lib/components/panels` | per panel some slots for answers and `...Loading` flags; Elixir: socket, heartbeat, reconnect timer; SystemStatus: interval, event stream | one handler per button or mount, each an `async` function with one to three awaits | gateway, Elixir hub | overlapping runs, late answers, a flag left up, degraded 200 bodies in the markup, events of replaced sockets |
| Portal page, `routes/+page.svelte`, `ServiceCard.svelte` | `statuses`, `loading`, `fetchError`; `wsConn`, `wsStatus`, `orderEvents` | refresh of all cards from five sources, order feed with reconnect | gateway | partial failure of the fan-out, reconnect for ever and never twice |
| Elm terminal, Python bot | view state, bot loop | update function, polling | gateway | answers that overtake each other |
| Numeric engines (C++, Zig, OCaml, Julia, R, Dart, Nim, V, Haskell, F#, Scala) | none | formulas | gateway | floating point only |

What makes the modelled components correct:

- *order server*: an order is settled by at most one saga; a PENDING order is
  owned by somebody or its saga is known to be lost; every change of the table
  is a creation, an edge of the state machine or the saga's one decision; events
  are true; no order hangs while its saga lives;
- *circuit breaker*: one breaker per name, no opening before the threshold, and
  healing once the backend is healthy, whatever races happened before;
- *ledger*: money is neither created nor destroyed, checked balances are not
  stale, the log explains the balances, retries end;
- *hub*: no panic, no hole in anybody's stream, no waiting for slow clients, no
  leaked goroutines;
- *portal*: a button is disabled exactly while its work is under way, what is
  on the screen is the last thing asked for, failures are shown as failures,
  there is one feed and one socket, and nothing outlives its panel;
- *all together*: each time the request of an order is sent money moves at most
  once, it is sent again only where a connection broke, an order is canceled for
  a cause, and no account is overdrawn.

`PROJECT.json` lists the hazards behind these sentences with their lines.

## 2. Modules

| Module | Models | Extends / uses |
|---|---|---|
| `OrderStates` | the enums `OrderStatus`, `OrderEvent` | |
| `OrderLifecycle` | abstract specification of a row of `orders` | `OrderStates` |
| `OrderSaga` | the order server | `OrderStates`, `INSTANCE OrderLifecycle` |
| `CircuitBreaker` | one named breaker and the goroutines that use it | |
| `Ledger` | the STM ledger | |
| `SagaSystem` | order server + gateway proxy + ledger | `INSTANCE OrderSaga`, `INSTANCE Ledger` |
| `WsHub` | hub, pumps and Redis subscriber | |
| `ApmStats` | percentiles and averages of the APM server | |
| `ApmPipeline` | gateway middleware, `ApmCollector` and APM server | `ApmStats` |
| `Panels` | one mounted panel: the meaning of handlers, flags, slots and markup | |
| `PanelTables` | the 28 panels as data: for each its handlers and its markup, and the panels by name | |
| `ElixirSocket` | ElixirPanel's socket, heartbeat and reconnect timer | |
| `SystemTimers` | SystemStatusPanel's interval and event stream | |
| `StatusBoard` | the service cards of the page | |
| `OrderFeed` | the order feed of the page | |
| `Portal` | the six above, one mounted at a time; SystemStatus's requests and timers together | the five without `PanelTables` |
| `FoldTheorems` | lemmas about sums over finite sets, bijections and ascending orders | `TLAPS` |
| `OrderSagaProofs`, `CircuitBreakerProofs`, `WsHubProofs` | theorems | the module they are named after, `TLAPS` |
| `LedgerProofs`, `ApmPipelineProofs` | theorems | the module they are named after, `FoldTheorems`, `TLAPS` |
| `SagaSystemProofs` | theorems about the whole saga | `SagaSystem`, `TLAPS`, instances of `OrderSagaProofs` and `LedgerProofs` |
| `PortalProofs` | theorems about the page: `Panels`, `PanelTables`, `ElixirSocket`, `SystemTimers`, `StatusBoard`, `OrderFeed` and `Portal` | `Portal`, `PanelTables`, `TLAPS` |
| `MC*` | instances for TLC | the module they are named after |

Operators whose names carry a suffix, such as `commit_Stale`, are mutants:
plausible bugs in the operator of the same name. No specification uses them;
replacing the operator by its mutant makes TLC report a violation of the property
that `PROJECT.json` pairs it with.

### OrderSaga

One JDBC statement is one step. `row` is the status column, `lock` the row lock
of `SELECT ... FOR UPDATE`, `req[r]` the local state of a handler thread, `saga[o]`
that of the saga thread of an order; `publishing` holds events handed to
publisher threads and `published` what reached Redis. `started` and `held` are
history variables.

| Action | Code |
|---|---|
| `insertOrderPending` | `INSERT ... ON CONFLICT DO NOTHING`; a duplicate gets 409 and changes nothing |
| `executeSaga`, `respondFails` | the 202 is written and both threads are started, or writing it throws and neither is |
| `selectForUpdate`, `commitTransition`, `rollbackTransition` | the three ways through `applyTransition` |
| `respondPut` | re-read, 200, publisher thread; nothing is published if one of the first two throws |
| `SagaReply` | the HTTP call of `runSaga` returns or throws |
| `updateOrderStatus`, `updateFails` | the saga's unconditional UPDATE, or its `SQLException` |
| `publishSaga`, `publishOrderEvent` | delivery to Redis, or a swallowed error |
| `Crash` | the JVM dies and restarts; PostgreSQL rolls open transactions back |

Rejected requests and GETs are stuttering steps. `OrderLifecycle` is what a
reader of the table may rely on. Its `Decide` is deliberately not tied to
PENDING, because the UPDATE is not (see the findings).

### CircuitBreaker

Every atomic load, store and add is a step. `time.Since(lastFailure) >
resetAfter` is the Boolean `cooled`. `failures` saturates at `Threshold`: no test
in the code tells larger values apart. The counter `successes` decides nothing
and is left out. `healthy` covers all that a response depends on outside the
gateway: the backend and the patience of the caller, since a caller that goes
away counts as a failure.

### Ledger

A `dosync` block is a read point (`Begin`) and an end (`commit` or `refuse`). The
Clojure runtime is external; its rule is that a transaction does not commit if a
ref it alters was committed after its read point. Every transfer and every reset
alters `total-transfers`, so one flag, `stale`, records the conflict. A refused
transfer alters nothing and may end on an old snapshot. Doubles are integers:
`Conservation` is exact, where the code allows 0.01. Negative amounts are
possible inputs of the route and are part of the model.

### SagaSystem

The modules above are used unchanged: their actions are conjoined with the steps
of the proxy. The saga's request is a GET on a connection that is kept alive, and so
is the gateway's. When a reused connection breaks before an answer, `HttpClient`
(`sagaResends`) and `net/http` (`connectionReset`, and `replay` when the ledger died)
send the GET again by themselves, also if the other side has got it or executed it;
on a new connection it is an error. So `call` follows not orders but transmissions:
`<<o, k>>` is the k-th time the request of `o` is out, with a handler in the gateway
and a thread in the ledger of its own, and `awaits[o]` is the one whose answer the
saga will get. An older one goes on, arrives late or is cancelled (`Abandoned`).

| Action | Code |
|---|---|
| `buildFails` | `URI.create` or `header` throws on account names or ids of the client, which go in unescaped: CANCELED without a call |
| `sagaAnswered`, `sagaCutOff` | `HTTP_CLIENT.send` returns (200 in every case), or throws: no connection, a broken one, 10 s |
| `allow`, `forward`, `modifyResponse`, `errorHandler` | `newCBProxy` |
| `ledgerStep` | `transfer!`; `applied` counts what it committed for a transmission |
| `ledgerFlips`, `ledgerRestarts` | the ledger is slow or unreachable (`up`), or is killed and forgets everything |

The breaker is shared with everybody who uses `/api/clojure/`, so here it may admit
or deny any request. PUTs are left to `OrderSaga`. `Wanted[o]` is what an order asks
for: any two accounts, also ones that the ledger does not have, since the POST
handler passes names on unseen, and a positive amount, since it refuses any other.

That an order is paid twice when a connection breaks at the wrong moment is
possible in the code, and in the model. `TransferredOnce` says that nothing else
pays twice: one transmission, one transfer, and never more transmissions than
broken connections plus one.

### WsHub

The unbuffered channels `register` and `unregister` are joint steps of two
goroutines; `broadcast` and `send` are bounded queues. The range over `clients`
is one step per client in any order, with the pumps running in between.
`readPump`'s deferred function is two steps: the hub takes the client out of its map
(`unregisterClient`), then the connection is closed (`readCloses`).
Messages published while the subscriber is between two subscriptions are lost,
as Redis Pub/Sub loses them.

### ApmPipeline

Two queues, one background thread each, a network and a buffer. `recordChecks`
and `recordOffers` are the two steps of `ApmCollector.record`; `withAPM` is one,
because Go's `select` tests and sends at once. `wake`, `poll`, `post`, `postFails`,
`returns` and `timesOut` are the background threads: `flush` polls until the batch
is full or the queue is empty, the gateway's drainer sends a full batch or, on its
tick, what it has. A batch is on the `wire` until `ingest` or `lose`; a sender
whose timeout passes first moves on. `ConcurrentLinkedQueue.size()` walks the
list and returns at least the size at the end of the walk, so the model's test is
that moment; a record that is turned away needlessly is a dropped event, which is
a stuttering step like every other drop. `responseTimes` is the loop of
`buildMetrics` over the buffer, which pushes one number after the other, and
`ApmStats` has what `computeStats` does with the list: sort, sum, ranks and
rounding. `MetricsRight` compares the result with definitions that know neither
list nor order: `IsStats` counts over the places of the buffer (`Buffered`), where
the p-th percentile is the least number that at least p percent of the numbers do
not exceed.

### Panels and PanelTables

The 28 panels are variations of one pattern:

    loading = true; result = null;
    try { await fetch(...); if (res.ok) result = ...; else result = {error}; }
    catch { result = {error}; } finally { loading = false; }

`Panels` says what such a handler does; `PanelTables` says, panel by panel, in
which order it clears, asks, tests, assigns, catches and calls. Between two
awaits the page's single thread runs undisturbed, so an await and the statements
after it are one step. `acts` holds the runs that have not returned, each with
its place in the handler and the answers it has got. `press` is a click on a
button that is not disabled; `goesOn`, `calls`, `succeeds`, `goesOffline` and
`fails` are the ways out of an await; `returns` is the `finally`.

A request comes back as `ok`, `degraded` (the gateway's 200 of `writeFallback`),
`refused` (an error status with JSON), `missing` (a page that is no JSON) or `down`
(`fetch` rejects). Which of them a route can give is read off the gateway's routes:
`Proxied`, `Own`, `Unrouted` and so on. Values are remembered by the run that
made them and the answers they were made of, because that is all the markup
tests; `last` is a history variable.

The markup of a panel is its buttons with the flags that disable them, and its
regions: which slot, whether there is an error branch and a spinner.
A flag is *exclusive* when every way to start a handler under it needs it to be
down, and a slot is *owned* when all its writers run under one exclusive flag
and assign it on every path a value made of an answer that came, or an error. Both are computed from the tables. What they leave out is
known: Ruby's `runRuby` is also called by `loadCustomRule`, so `rubyData` is not owned;
neither are slots with two writers (`explainData` of Prolog, `transferRes` of
Clojure) or with a path that keeps the old value (Prolog's `runAll`, Charts).

Read with the services, the tables also record that some panels never show a result:
the Haskell service knows no path with the prefix
`/api/haskell`; `/api/risk/summary` goes to OCaml; the order server has no
`vthreads`, `compare` or `pipeline`; `/api/analyze`, `/api/reports/` and
`/api/hub/status` are not routed.

`ErrorsAreShown` is about the error objects that the handlers themselves store.
`JuliaPanel` has no branch for `juliaResult.error` and reads the fields of a result
instead; `UnshownSlots` names this slot and the property says that there is no other.
What a 200 contains is left open, and with it whether the markup finds the fields
that it reads. It does not always: `JuliaPanel.svelte:102` calls `sharpe.toFixed`
where the engine answers `sharpe_ratio`; `RPanel.svelte:119` dereferences a degraded
answer, and lines 195, 217 and 273 call `toFixed` on the one-element arrays that
plumber makes of scalars; `SystemStatusPanel.svelte:202` reads
`pipeline_node.status`, and `pipeline_node` is null when the gateway cannot decode
Rust's answer (`main.go:675-679`).
The panels are components of their own and are not imported by `+page.svelte`.

### ElixirSocket and SystemTimers

`hub[i]` is the browser's state of the i-th socket. Sockets are created in
sequence; `connectWS` closes the one before and forgets it, but its close event
still comes and runs a handler that shares `heartbeatTimer`, `wsConnected` and
`reconnectTimer` with the new one. Intervals and timeouts are sets, so that one
whose handle was overwritten lives on. `OneSocket` holds in spite of lost timeouts,
since `reconnect` tests `intentionalClose` when it fires. A lost heartbeat
interval is harmless while no socket is open (`ws?.send`), but nothing stops it any more,
not even `onDestroy`; and switching auto-reconnect on while connected makes the
late close event schedule a reconnect of a live connection, again and again.

`SystemTimers` has `toggleAutoSync`, `toggleSSE`, the events of the stream and
`onDestroy`; `Portal` adds what the interval does, a `press` of `syncSystem`.

### StatusBoard and OrderFeed

A cycle of `fetchStatus` has five concurrent sources; each of them writes its cards
when it settles, and the last one lowers `loading`. `SERVICES` and
`aggregateServices` are the two lists of names of page and gateway, so a name that
differs shows up as a card that never settles. A card remembers the cycle that wrote it.

In `OrderFeed` the error and the close of a broken connection are one step, as they are
one task in the browser. Outages of the gateway and evictions by the hub are
bounded, attempts to reconnect are not. Messages in flight are lost with their
connection. `unmount` closes the socket and nothing else: the close event schedules
the next attempt, so the feed reconnects after the page is gone. This is what the code does;
`OneFeed` and `FeedRecovers` hold with it.

## 3. Runs

| Run | Bounds | Shows |
|---|---|---|
| `order_saga` | 1 order, 2 handlers, 1 crash | all properties of `OrderSaga` and the refinement of `OrderLifecycle` |
| `circuit_breaker` | 2 goroutines, threshold 3 | all properties of `CircuitBreaker` |
| `ledger` | 3 accounts, 1 client with amounts -4 and 12, an unknown account, 1 stress thread with 2 futures, log of 2 | all properties of `Ledger` |
| `saga_system` | 2 orders that compete for one account, 1 handler, 1 failed call or broken connection on either hop, 1 crash, 1 ledger restart; the orders are symmetric | safety of the whole saga |
| `saga_system_live` | 1 order, 2 failed calls or broken connections, 1 crash, 1 ledger restart | orders resolve |
| `ws_hub` | 2 clients, queues of 1, 3 messages | all properties of `WsHub` |
| `apm_pipeline` | 2 recorders, queues of 1, batches of 2 and 1, buffer of 3, 3 and 2 events, 1 restart | all properties of `ApmPipeline` |
| `portal` | 28 panels, 3 runs of handlers started by the user; 2 refreshes, 3 sets of services that are away; 2 sockets, 3 events, 2 rows, 2 outages; 4 Elixir sockets; 3 toggles | all properties of the portal |
| `saga_overwrites`, `one_probe`, `completed_without_transfer`, `heartbeat_lost` | as above, or the smallest that show it | violations, see the findings |

The bounds are the smallest at which the hazards occur. Orders do not share state
in the order server, so one order with two handlers contains every race (two
POSTs, POST and PUT, two PUTs, each with the saga). A second crash finds nothing
that the first did not leave behind. Two goroutines reach the threshold of 3 by
repeated requests, and each pair of atomics can be interleaved; the proofs do
without the bound. In the ledger the initial balances 15, 11 and 3 make transfers
of 12 succeed from one account, fail from the others and succeed later from some;
one client and two futures give conflicts of three transactions, and a reset with
all of them open. In the whole system 12 units pay for two of the three
transfers that two orders of 5 and a request sent again can make, and the third is
refused. A second broken connection (in `saga_system_live`) can hit the request that
the first one caused. Queues of length 1 are full after one message; five
events overflow a buffer of 3. Three runs of one panel are two that overlap and
a third that starts after one of them ended, and two of a called handler. A third
refresh repeats the second. Two feed sockets would be needed for a duplicate feed,
and three events fill two rows. The third and fourth Elixir socket are
opened by timeouts of the first two; the proofs do without that bound. Deadlock is checked
except in `apm_pipeline` and the portal's runs, where
nothing is left to do once the bounded supply of events or clicks is used up. `MaxLog`
only stops new transfers of clients, never one under way.

Type correctness of `OrderSaga`, `CircuitBreaker`, `Ledger` and `ApmPipeline` is
proved; only the run of the last checks it as well.

### Fairness

- `OrderSaga`: handlers in the middle of a request go on (weak fairness); the
  HTTP timeout ends every remote call, and PostgreSQL queues waiters for a row
  lock in order, so that the saga's UPDATE is not starved by PUTs (strong
  fairness of `SagaStep`). Clients and publishers owe nothing.
- `CircuitBreaker`: goroutines run, requests keep arriving (the portal and the
  Elixir hub poll), `sync.Mutex` does not starve waiters, time passes.
- `Ledger`: threads run, and a transaction that keeps meeting conflicts gets
  through in the end, because Clojure's STM lets the older transaction barge.
- `SagaSystem`: whatever thread the order's saga waits for runs, and the
  deadlines end calls. Nobody owes a recovery of the ledger.
- `WsHub`: the run loop and the subscriber run; `select` chooses at random among
  ready channels, hence strong fairness of `unregisterClient`; a write ends by its
  10 s deadline; a read on a closed connection fails. Peers need not read.
- `ApmPipeline`: the two background threads run and their HTTP clients have
  timeouts. The APM server owes nothing.
- `Portal`: every request is answered or rejected, since the gateway gives a
  service 5 s (`proxyTimeout`, `httpClient`) and a dead gateway makes `fetch`
  reject; a feed socket opens or fails, and a timer fires. The user owes nothing, and
  the gateway need not come back: `FeedRecovers` assumes it stays up. Weak
  fairness of `answered` is written out as "infinitely often nobody waits or
  somebody is answered", which TLC evaluates much faster.

## 4. Findings

- `saga_overwrites`: the comment at `VirtualServer.java:171` says that
  `updateOrderStatus` moves orders from PENDING. It is an unconditional UPDATE, and
  a PUT may have moved the order first: CANCELED or REFUNDED becomes COMPLETED.
- `one_probe`: the comment in `Allow` says that half-open allows one probe
  request. It allows all of them.
- `completed_without_transfer`: the README says that success of the ledger call
  completes an order and failure or timeout cancels it. The gateway answers 200
  for an unreachable ledger and the ledger answers 200 for a refused transfer, and
  the saga looks at the status code only. `CanceledForCause` is the other
  side of it: an order is canceled only when its request cannot be built or the
  call to the gateway itself fails, and in the second case the money may have
  moved.

- `heartbeat_lost`: the comment at `ElixirPanel.svelte:76` says that a heartbeat
  every 30 s keeps the connection below Phoenix's timeout of 60 s. Press connect
  twice while the first socket is connecting: the close event of the first one stops the
  heartbeat of the second and shows it as offline. The button to disconnect is
  gone with it.

## 5. Proofs

| Module | Theorems | Argument |
|---|---|---|
| `OrderSagaProofs` | `TypeCorrect`, `AtMostOneSaga`, `PendingOwned`, `TruthfulEvents`, `NoStaleCheck`, `Refinement` | `IInv` is inductive: the properties alone are not. `OneSagaPerOrder` needs to know that at most one handler is between insert and `executeSaga` (`OneAcceptor`) and that nothing exists for an absent order (`AbsentIsFresh`); `EventsTellTruth` needs that every status a thread still carries has been in the table (`HeldStatuses`); the refinement maps `saga` to `decision`, step by step |
| `CircuitBreakerProofs` | `TypeCorrect`, `OneBreakerPerName`, `NoEarlyTrip` | `failures <= counted` ties the counter, which successes lower, to the failures ever recorded |
| `LedgerProofs` | `TypeCorrect`, `OverdraftImpossible`, `TransfersAreWhole`, `MoneyConserved`, `LogIsComplete`, `BrokenMeansTorn` | `FreshSnapshot`: an open transaction without a conflict works on the current balances, so what it writes is a move of the current balances. For the sums, `MoneyInv` adds that log and balances agree account by account and that a sum under way which nobody interrupted is the sum of the current balances over the accounts it has visited |
| `SagaSystemProofs` | `MoneyMovesOnce`, `CancelsJustified`, `SystemSolvent`, `SystemOrdersSafe` | Every step of the system is a step or a stutter of `OrderSaga` and of `Ledger` (`ServerSteps`, `LedgerSteps`), so their invariants hold here, taken over by `INSTANCE`. `LinkInv` is what is proved anew. `CallsMatchWork`: before a transmission reaches the ledger, or again after a restart broke it, nothing has been applied for it, so a replay after a restart is harmless and only a further transmission can pay again. `SendsCounted`: each of those cost a broken connection, and nothing is sent for a request that was not built. `CancelsHaveCause`: every verdict to cancel comes from `buildFails` or `sagaCutOff`, and the row has it from there; an `unbuilt` order has no transmission, hence no transfer. `OrderedAmounts`: every amount at work or in the log is positive, which is the condition under which the ledger's theorem excludes overdrafts |
| `WsHubProofs` | `NoPanic`, `StreamsAreWhole` | `Shape`: the range visits clients of the map only, and a client in the map has an open channel. `Stream`: what a client has received and then what is in its queue are, message by message, what was fanned out since it joined; for a client of the map that the range has still to visit, the last message is missing |
| `ApmPipelineProofs` | `TypeCorrect`, `QueuesBounded`, `CountedOnce`, `RequestsInOrder`, `StatsRight`, `MetricsCorrect` | `Bounds`: a recorder that has passed the test counts as if its event were already queued; the size of the set of such recorders is below that of all recorders while one is still testing. `PipelineInv`: events carry the number of their request, what waits in a batch or a queue ascends and is newer than what was sent (`Lines`), batches on the wire are of one service and apart from each other and from the buffer (`Sent`), and a service whose sender never gave up has on the wire at most the batch it waits for (`Patient`). For the metrics, `ResponseTimesRight` follows the loop place by place: its list and the places of the group's events correspond one to one (`Pushed`). Sorting permutes the list (`SortedRight`), so a sorted list is still such a correspondence (`Lists`); then at least r numbers are no more than the r-th and fewer than r are no more than anything below it (`ListsCount`), which is the percentile at the rank (`PercentileRight`). The sum does not depend on the order (`SumImage`), and rounding is off by at most one half (`AverageRight`) |
| `PortalProofs`, panels | `FlagsTellFlight`, `LatestAnswers`, `PageShowsErrors` | `FlightInv`: every run is a run of a handler of its panel (`Shape`, without which a flag is not defined), a flag that is up has a run under it, and a run under an exclusive flag is alone. `returns` ends the caller together with the handler it awaited and lowers both flags; a flag that stays up therefore belongs to a run that stays, and an exclusive one cannot have been lowered by a stranger. `LatestInv` adds that runs have numbers of their own and that the run that writes an owned slot is the last one started. `ErrorInv` adds that an error is only in a slot in which a catch or an else branch of some handler stores one (`MayStoreError`); with markup that has a branch for these (`MarkupComplete`, a condition on the table alone, which `TablesComplete` proves of the 28 panels) every error is shown. `SafePanels` are the 18 panels that have a branch for errors everywhere; `QuietPanels` are 9 with regions without one, whose slots never hold an error, which takes a look at every handler (`JavaQuiet` and the lemmas after it); `JuliaComplete` is the panel with the exempt slot |
| `PortalProofs`, page | `ElixirOneSocket`, `SystemNothingLeaks`, `CardsSettle`, `FeedIsSingle`, `PageSafe` | `SocketInv`: `OneSocket` together with the states a socket can be in. Each close of `ws` leaves no socket usable (`ClosedUnusable`), so the next one is alone (`ConnectKeepsOne`); a timeout that was lost track of still tests `intentionalClose`. `NothingLeaks` says exactly what is alive and is inductive once the toggles are Boolean. `BoardInv`: a card is still checking only while the one fetch that covers it (`Covered`) is in flight. `FeedInv`: one socket or one timer (`OneAttempt`), and what is still to come is newer than the rows. `PageInv` joins these and `LatestInv`: mounting starts each part afresh, and a tick of SystemStatus's interval is a press of its button |

Sums, sorting and the loop over the buffer need an induction over data. The
library's induction rules take an operator, which the provers cannot instantiate;
`FoldTheorems` takes the set of finite sets for which a sum law fails, picks one
that is minimal under strict inclusion (a well-founded order), removes an
element and contradicts minimality. That numbers can be sorted (`CanSort`), and
what the loop has pushed after i events, go the same way with the least number
that fails (`LeastNat`); the loop is a recursive function, so `LoopExists` first
shows that there is one.

The theorems hold for every number of orders, handlers, goroutines, accounts,
threads, clients, sockets, refreshes, outages and toggles, every capacity and every table of
panels, `PageShowsErrors` excepted, which is about the 28 panels of the repository
(`TheTables`) with any number of presses. The
assumptions on the constants are those in the modules
(`SagaAssumption`, `BreakerAssumption`, `LedgerAssumption`, `SystemAssumption`,
`ComponentAssumptions`, `HubAssumption`, `ApmAssumption`, `PanelAssumption`,
`TableAssumption`, `ElixirAssumption`, `TimersAssumption`, `BoardAssumption`,
`FeedAssumption`, `PortalAssumption`): "nobody"
is not a thread, thresholds and capacities are positive, initial balances are not
negative, orders ask for positive amounts (the POST handler refuses others);
mounts, buttons and calls of a panel name its handlers, a handler awaits something,
and SystemStatus has the button that its interval presses. TLC evaluates all of
them on the instances.

Checked by TLC only: liveness (`PendingResolves`, `HealsEventually`,
`HalfOpenResolves`, `StressTerminates`, `OrderResolves`, `SubscriberNeverStalls`,
`PumpsEnd`, `EventsLeave`, `EveryRunEnds`, `FeedRecovers`), which rests on fairness
and on ENABLED. Every safety property of the passing runs has a theorem.

## 6. Not modelled, and the plan

Numeric engines stay out: floating point formulas without state. Formatting, CORS,
JSON, styling and logging are left out everywhere, and so is what the bodies of
successful answers contain. `DependencyMapPanel`, `LogsPanel`
and `QrCode` only display. Third-party code (`hub-elixir/deps`, generated
JavaScript) is not part of the system.

Hazards of services that have no module yet, besides those in `PROJECT.json`:
two hot swaps of the Erlang server read the same `logic_version` and write the same
new one, while `swap_count` counts both (`server.erl:78`); `risk_flag/1` of the Prolog
server is global, so one request's `retractall` removes the facts that another is
about to query (`server.pl:109`);
an amount of NaN passes the order server's test and is refused by the ledger, so
its order is completed without a transfer (`VirtualServer.java:670`); an ingest of
more than `MAX_BUFFER` events exceeds the buffer (`apm-server/server.js:44`; the
two services send at most 200); the Rust pipeline reports rows of a transaction it
rolled back (`main.rs:253`); reset, trades and state of the Swift actor are separate
calls that concurrent requests mix (`main.swift:55`); the Elm terminal shows
whichever answer comes last (`Main.elm:156`).

Next, in this order:

1. `OrderBenchmark`: insert, PAY and delete by prefix, with the latch's timeout,
   on the table of `OrderSaga`; it makes the edges from ORDERED reachable.
2. `StatusCache` and the fan-out handlers of the gateway (aggregate, workflow),
   which `StatusBoard` and `PanelTables` so far see from outside.
3. `ElixirHub`: poller, Redis subscriber, broadcaster, the peer of `ElixirSocket`.
4. `RiskPipeline`, `ErlangHotSwap`, `SwiftActor`, `PrologInfer`, `RubyRules`,
   `LuaScheduler`, `ElmTerminal`, `AutoBot`: one small shared state each.
5. Proofs: the invariants of the modules above, as they are written.
