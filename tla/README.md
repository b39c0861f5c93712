# Verification of vortex-server

TLA+ specifications, TLC runs and TLAPS proofs for `vortex-server`
(`src/vortex`): a Perspective view server that ingests messages from Solace,
NATS and WebSocket feeds into in-memory tables. The paths below are relative to
`src/`; numbers after a colon are lines.

## 1. The system

| Part | State it keeps | Operations | Talks to |
|---|---|---|---|
| `BaseConnector` (`vortex/connectors/base.py`) | supervisor task, `_stopping`, `_connected`, backoff, counters | `start`, `stop`, `is_up`, `_dispatch`, the supervisor loop | its hooks, the server, the router |
| `NATSConnector` (`nats.py`) | `_nc`, `_disconnect_event`, `_connected` again | the four hooks, three client callbacks | nats-py on the same loop |
| `SolaceConnector` (`solace.py`) | `_service`, `_receiver` | three hooks, `on_message` on an SDK thread | the SDK by executor threads; the loop by `run_coroutine_threadsafe` |
| `WSSourceConnector` (`websocket_src.py`) | `_ws`, `_configs` | the four hooks | websockets on the same loop |
| `ExponentialBackoff` (`observability/backoff.py`) | `_current` | `next`, `reset` | the supervisor |
| Server (`server.py`) | connectors, `stop_event`, `shutdown_flag`, listener, store | boot, signal, `_drain_and_close` | every other part |
| Probes (`health.py`) | none | live, ready | flag, MongoDB, `is_up()` |
| `TableRegistry`, `UpdateRouter` (`registry.py`, `router.py`) | the tables, fixed at boot | register, get, by transport; route | the Perspective engine |
| `TrackedPerspectiveHandler` (`perspective_handler.py`) | open sessions, tables each has touched | open, on_message, on_close | Tornado, the gauges |
| Status (`status.py`) | none | get: a snapshot of counters and connectors, after a ping that blocks the loop | MongoDB, registry, connectors, metrics |
| Status page (`admin/app.py` `api_status`, `templates/status.html`) | what it shows | poll, render | the status handler, through the admin process |
| `MongoStore` (`store/mongo.py`) | two collections | list, get, upsert, delete, load | MongoDB |
| Admin GUI (`admin/app.py`) | none (a process of its own) | CRUD forms, read-only API, status proxy | `MongoStore` |
| Seed script (`scripts/seed_mongo.py`) | none (a process of its own) | writes transports, then tables | `MongoStore` |
| Metrics (`observability/metrics.py`) | gauges, counters, one histogram | set by the parts above | – |
| Settings, logging, correlation ids, simulators | – | – | – |

**How they interact.** The server reads both collections once, registers the
tables, builds one connector for each enabled transport of a known type and
starts its supervisor. A supervisor connects, subscribes, waits, disconnects
and, after a delay, starts over, for ever. Messages go through `_dispatch`
(counters, correlation id) and the router to a table. All of it is one asyncio
loop, apart from the Solace SDK thread and the executor threads. On a signal
the server raises a flag the probes read, closes its listener, stops all
connectors at once and closes the store, within a bounded time.

**What is hard.** (a) `stop()` may find the supervisor suspended in any of its
awaits, the one inside its `finally` clause included, and cancels it there;
(b) up to three cancellations are in play: `stop()` cancels the task, its
`wait_for` cancels it again, and the server's timeout cancels `stop()` itself;
(c) the NATS client reconnects by itself and calls back into the connector,
which has a reconnect loop of its own, through a flag and an event that outlive
a session; (d) Solace messages cross from a thread to the loop and are routed
by comparing strings, while the broker matched them level by level; (e) a
durable consumer is redelivered what it has not acknowledged; (f) the admin
process and the seed script change the collections while the server reads them, with checks and
writes in separate calls; (g) the status handler waits for MongoDB without leaving the
loop, while polls of the page, a proxy that gives up earlier, probes and
sessions queue behind it. Section 7 lists what each module leaves out, and
`PROJECT.json` lists every hazard at its line.

**What makes each part correct.**

* Base class: `stop()` ends, and releases what is open; nothing reconnects
  after it; errors never end the supervisor; one session at a time; the gauge is up
  in a complete session only; a connector that is down comes up again.
* NATS: no callback of an old client reaches a newer session; a session that
  lost its link ends; core tables are subscribed while the gauge is up; `is_up()`,
  which the callbacks decide too, is false wherever there is no client.
* Backoff: bounded below and above, growing, reset by success only.
* Server: readiness rests on a connector whose flag is set, which for NATS does not
  imply a complete session; nothing is stopped while the
  liveness probe answers 200; the store closes last; a signal ends the process.
* Hot path: every message received is applied or counted as dropped; order is
  kept per connector; no acknowledged message is lost; Solace messages go to
  the right table.
* Store, admin, boot: references from tables to transports hold; an entry that is
  not deleted is lost only by a rename in which a call failed after the delete, or which wrote
  over another entry; a server lacks a transport only if it is new or gone.
* Consumer tracking and status: the gauges are exact and return to zero; the page comes
  to show them, however its polls fail or overtake each other; probes are answered.

## 2. Modules

| Module | Models | Role |
|---|---|---|
| `Backoff` | `ExponentialBackoff` | operators shared by the two next |
| `BackoffDelays` | the delays drawn, failure after failure | numeric properties |
| `Supervisor` | `BaseConnector`: supervisor task and `stop()` | the core |
| `ConnectorLifecycle` | what the server may rely on in a connector | abstract specification |
| `NATSConnector` | the NATS hooks, and the client's callbacks | extends `Supervisor`, refines it |
| `SolaceConnector` | the Solace hooks, and the executor threads they start | extends `Supervisor`, refines it |
| `WSSourceConnector` | the WebSocket hooks, the socket, the read loop | extends `Supervisor`, refines it |
| `Server` | boot, probes, shutdown | composes many `ConnectorLifecycle` |
| `SolaceRouting` | `on_message`'s choice of a table; the broker's matching | operators |
| `Ingest` | `_dispatch`, router and the three sources of messages | the hot path |
| `AdminStore` | the collections, the admin GUI and the seed script that write them, the boot that reads them | a component of its own |
| `ConsumerTracking` | the handlers of the clients' sessions and their gauges | extended by the next |
| `StatusPage` | status handler, proxy, page, and the loop they share with probes and sessions | composes them |
| `BackoffProofs`, `SupervisorProofs`, `ConnectorProofs`, `ServerProofs`, `IngestProofs`, `AdminProofs`, `StatusProofs` | – | theorems; `ConnectorProofs` has those of all three subclasses, `StatusProofs` that of `ConsumerTracking` within `StatusPage` |
| `Recursion` | – | lemmas on induction, on functions given by recursion, on sums over sets and on joined sequences |
| `MC*` | – | instances for TLC |

The composition is assume/guarantee. `ConnectorLifecycle` is what the server may rely on, in
two forms: with `Callbacks = FALSE` the supervisor alone writes the flag that `is_up()` reads,
with `Callbacks = TRUE` a client library that calls back writes it as well, whenever there is a
client (`Flip`). `Supervisor` implements the first (`KeepsContract`), and `SolaceConnector` and
`WSSourceConnector`, which never write the flag, implement `Supervisor` (`SolaceImplementsBase`,
`WSImplementsBase`). `NATSConnector` keeps to `Supervisor` in that class's own
variables, of which the flag is not one (`ImplementsBase`), and with its
own flag, `connected`, it implements the second form (`NATSKeepsContract`). `Server` takes the actions of
one instance of the contract for each connector (`Life(c)`), in the second form for
`NATSTransports`. So what is checked of the server holds with any of the three
in the place of the abstract one, without their product ever being explored.

### State and code

`Supervisor`. `task` is the await the supervisor is suspended in
(`connecting` = base.py:146, `subscribing` = 147, `waiting` = 153,
`disconnecting` = 168, `backoff` = 178-182), `stop` the await of `stop()`
(`joining` = the `wait_for` of 90, `reaping` = the same after its timer fired,
`closing` = the `_do_disconnect` of 95-98, `aborted` = ended by the server's cancellation).
`cancel` is a cancellation requested and not delivered, `raising` a
`CancelledError` in flight through the `finally` clause, `handle` the reference
a subclass keeps (`_nc`, `_ws`, `_service`), `leaked` that some connection was
dropped unclosed. `up` is the gauge, and `_connected` as far as the base class writes it: it
sets the two together. Each action is what runs between two awaits: `ConnectRaises`, for
instance, is the hook raising, the `except` clause, the `finally` clause up to
its own await and, when there is nothing to close, the loop on to its delay.

`NATSConnector` conjoins to each supervisor action what the hook does.
`connected` is what `is_up()` answers and stands apart from `up` because the callbacks change the
flag and not the gauge; `disc` is `_disconnect_event`; `watch` is `disc_task`: created with the wait
(nats.py:124), it looks at the event an iteration of the loop later (`Watch`), and once it
has seen it (`seen`) a later `clear()` cannot take it back. `todo` and `subs` follow the loop over
the tables.

`SolaceConnector`. `service` is the latest `MessagingService`; `dialing` is an executor
thread inside its `connect()`, `hangUp` a `disconnect()` nobody waits for any more. Cancelling the
await of such a job does not stop a thread that runs it and cancels a job no thread has taken up:
an interrupted disconnect is `running` or `unstarted`, and in the second case nobody
closes the service. `abandoned` says
that the hook has gone and the `connect()` has not. `handle` is `_service`, except
that during the connect the code has set it already.

`WSSourceConnector`. `socket` is the latest socket and `buffer` what the client
library has received on it. `ReadMessage` is one turn of the read loop;
`WSWaitEnds` the end of the iteration, by its end or by `ConnectionClosed`.

`AdminStore`. Each thread of the admin process has a `request`: which call to
MongoDB comes next and what the form named. `stale` is a history variable: some
other request has written since this one first read. The guard of each action is
what the code looks at, never `stale`. `Store(kind)` is what a collection holds; `Held(kind)`
counts in addition what a rename has taken out and not yet put back (`InRename`). A request may also be a run of the seed script:
the write of a transport, and then of a table that refers to it (`RunSeed`,
`Following`). `boot` is the server between its two reads (`LoadConfigs`, twice):
`read` is what the first one returned, `orphans` the tables for which server.py:142
warns, `added` a history of what was written in between.

`ConsumerTracking`. `phase` is a session as Tornado sees it: a handler whose `open` or
`on_message` raises is aborted and closed like any other. `touched` and
`instances` are `_tables_touched` and `_instances`; `named` is a history variable. A
message is the set of table names that occur in its bytes (perspective_handler.py:76).

`StatusPage`. `busy` is the loop inside the blocking ping of the status handler: no
handler runs then (`Observe`, `SessionEvent` and `Serve` have the guard `~busy`).
`queue` holds the requests not yet answered, `poll` the polls of the page (`gone`: the
proxy has given up and the server does not know), `page` what is shown. The
histogram `observed` is cumulative, as the client library's is, and its last bucket is +Inf.

`Server`. `server` is what `main()` is suspended in; `phase` and `isUp` are the
variables of `ConnectorLifecycle`, one for each connector, and `Life(c)` is its instance: the steps of
a connector (`Supervise`, `RequestStop`, `End`) are those of the contract, and `Touch` says that it
leaves all else alone. The probes are state
predicates (`Live`, `Ready`): their handlers do not suspend.

`Ingest`. A message is its place in `sent`. `sdk`, `calls`: messages the SDK
thread has still to hand over, and coroutines it put on the loop; `sub`,
`acking`, `acked`: the durable consumer; `feed`: the WebSocket; `received`,
`rows`, `dropped`: the counter of receives, the tables, the dispatch errors; `unknown` counts
drops for a table that is not registered, which `_dispatch` does not count as received
(`DispatchUnknown`: no connector does it, `tests/test_metrics.py` does). A topic is a sequence of
levels and a level a sequence of fragments, so that `EXEC` begins `EXECUTIONS`
as a string and differs from it as a level.

## 3. Runs

| Run | Bounds | What it shows |
|---|---|---|
| `supervisor` | delays of 1 s to 60 s in tenths, restart counter saturates at 2 | one connector and one `stop()`, at every await, with closes that do or do not swallow a cancellation: what is released, that `stop()` ends with no help from any broker, that a connector comes up again, and its contract |
| `backoff_delays` | tenths of a second, 8 failures in a row | every delay that can be drawn |
| `nats_sessions` | one core and one JetStream table | the sessions of the NATS connector, and the contract with its own `is_up()` |
| `nats_releases` | same | counterexample, section 6 |
| `ws_sessions` | a table to feed, 3 messages in the buffer | the sessions of the WebSocket source: one socket at a time, and how they end |
| `solace_sessions` | three delays | services, receivers and threads of the Solace connector |
| `admin_store` | 2 writers at a time, 2 transports, 2 tables, 1 failing call, a server that boots again and again | the references between the collections, copies and losses by edits, and what a server makes of them |
| `status_page` | 2 sessions, 1 table, 2 polls in flight, 2 buckets, 2 dispatches | gauges, status page and probes |
| `status_json` | same | counterexample, section 6 |
| `server_shutdown` | two connectors, one of them NATS, a disabled and an unsupported transport | boot to exit, with probes and MongoDB |
| `ingest` | 2 Solace tables over 4 patterns and 3 topics, 1 JetStream, 1 WebSocket table; 2 messages, 1 fault | the hot path |
| `solace_rows_match` | same | counterexample, section 6 |

The runs check the properties; the type invariants and the inductive invariants
behind them (`Coordination`, `SessionInvariant`, `ShutdownOrder` and the like) are proved
(section 4) and not run again.

**Why the bounds are enough.** `MaxRestarts` bounds a counter nothing reads: it
saturates, and no behaviour is cut off. The other counter of the supervisor is
the delay, which the cap bounds. In `nats_sessions` one table of each kind
suffices for the properties, which speak of one table at a time; the proofs
drop the bound. Two connectors are what it takes for one to be up while the
other is not; the proofs take any set. In `ingest` two messages are what
ordering and cross-talk take, and one fault is a lost acknowledgement, a
session that ends with messages in the client, or a dispatch to an unknown table. `ws_sessions` and
`solace_sessions` have no bound but the delays and the buffer, and the proofs
drop both. In `admin_store` two requests are what a race takes, two names of
each kind what a rename takes; the proofs take any number. The instance is symmetric in names and
threads, and its properties are action properties, so symmetry is sound. In
`status_page` two sessions are what it takes for one to keep a table the other leaves, two
polls for one to overtake the other, two buckets for a quantile to be finite or
not; a dispatch that leaves the bucket +Inf below the 99th percentile again is not reached, and
`PageCatchesUp` does not speak of it. `MaxDispatched` bounds the histogram, polls are reused without end. Deadlock is checked in every
run; a stuttering action (`Finished`, `Quiet`) marks the states where the
system may stop.

**Fairness.** `LoopFairness` is asyncio itself: a ready task runs, a requested
cancellation is delivered, a timer fires. It says nothing of brokers, nor that
a close ends, with one exception. Under `AbsorbsCancel = TRUE` a library may swallow a
cancellation and go on closing. It may swallow the one of `wait_for`; the
server's own is then caught in base.py:91, `stop()` goes on to a close of its own, and no
timeout is left: `LoopFairness` has that close end (nats-py and
websockets have limits for theirs). `StopEnds` needs no more, and with a library that lets
every `CancelledError` out it does not need that either: `stop()` never gets there. `Recovers` has the additional premise `BrokerFairness`: a
connect and a subscribe attempted for ever succeed in the end (strong
fairness: each attempt may fail), closes end. `WakeSpec` asks that `disc_task` runs, and a supervisor whose wait it ended, and
that a subscribe request is answered or times out.
`WSSpec` asks that the read loop runs while it has something to read or its
socket is closed, and that a cancellation of it is delivered.
`Server`'s fairness for `End` is what `StopEnds` shows of each connector. `Ingest`
asks the JetStream server to deliver to an open session, the handler to run,
and the supervisor to open a session again whose JetStream subscribe succeeds
(one that fails is skipped until the next session, section 6). `StatusPage` asks that the loop
takes the next request, that a ping ends by its answer or its
`serverSelectionTimeoutMS`, that the page's timer fires and that answers arrive; nothing of MongoDB.

## 4. What is proved

TLAPS checks these for every value of the constants that meets the named
assumptions. Every safety invariant and every action property of the runs is among them.
The assumptions (`BackoffAssumption`: positive delays, cap not below the first,
a factor above one, jitter a percentage; `SupervisorAssumption`;
`NATSAssumption`: finite, disjoint sets of tables; `WSAssumption`;
`ServerAssumption`; `IngestAssumption`: the counts and bounds are naturals;
`AdminAssumption`: the value for "no name" is no name; `DelaysAssumption`: the number of failures
is a natural; `PollsAssumption`: a poll is no probe; `RoutingAssumption`: a topic and a pattern are sequences of levels, a level a
sequence of strings) say what the constants stand for and exclude no configuration the code accepts,
apart from parameters of the backoff that are not whole.

* **Supervisor.** `Coordinated`: `Spec => [](TypeOK /\ Coordination)`. The obvious statement, "after
  `stop()` the task is done and nothing is open", is not inductive: it rests on
  where the task can be when `stop()` moves on. `Coordination` adds that: a task
  of a stopping connector that is not in its `finally` clause has a cancellation
  pending and `stop()` is still in its first wait; a task ends only under
  `stop()`; the reference is set exactly in a session; a `closing` `stop()` has a finished
  task unless the server cut it short. `StopIsSafe`, `DisconnectsDoNotOverlap`,
  `RunningLeaksNothing` and `UpIsLive` take the safety properties
  from it, `NeverReconnects` and `BacksOff` are the action properties, and
  `ImplementsContract` is the step simulation of `ConnectorLifecycle`.
* **Backoff.** `DelaysBounded`: each delay between the smallest of the first
  window and the cap. `DelaysFollowSequence`: after n failures in a row the delay held is
  the closed form `Nominal(n)`, and what was drawn lies in the window of `Nominal(n - 1)`. The
  closed form is a power, so the proof needs that powers are what their recursion says and never
  fall (`PowerIs`, `NominalGrows`); a cap once reached stays reached.
* **NATS.** `NATSImplementsContract`: with `connected` for the answer of `is_up()`, each step is a step of
  the contract with callbacks or a stutter. It rests on `SessionsConsistent`: `SessionInvariant`
  together with `Coordination` is inductive; it is about the awaits: which of them allow a
  live client, and that a link lost in `subscribing` leaves the event set until `disc_task` looks at it
  or the link is back. The lemma `NATSHooksKeepToBase`, that every NATS step is a base step or a stutter in
  the base class's own variables, brings `Coordination` and what follows from it over.
  `NATSIsSafe`, `StaleUpEnds` and `CoreTablesAreFed` derive the named properties.
* **WebSocket.** `WSHooksKeepToBase` is the refinement. `NeverTwoSockets` (`OneSocket`: an open
  socket is one `_ws` refers to, or one whose close `stop()` has cut short) needs one
  fact more than it states, that a task not yet started has no socket, and `Coordination`
  for what `stop()` may interrupt. `StopEndsReading` is an action property, for a buffer of any size.
* **Solace.** `SolaceHooksKeepToBase` is the refinement. `ServicesAreClosed` and
  `OneServiceAtATime` rest on `ServiceInvariant`: threads outlive their hooks only
  under `stop()`, nothing is open between attempts, and a task that ended
  without a reference has closed its service, left a thread to do it, or left a disconnect that
  no thread had started. `StopClosesService` names this last case as its exception.
* **All three.** `SubclassesKeepContract`: each implements `ConnectorLifecycle` in the form `Server`
  runs in its place, Solace and WebSocket by the two refinements one after the other.
  `SubclassesStopSafely` brings the guarantees of `stop()` down to each of them.
* **Server.** `ShutdownOrdered` is the inductive invariant: which of flag, listener,
  connectors and store have changed at each await of the shutdown, and that each connector is
  in a state of its contract. `ReadinessIsSound`,
  `LiveIsUntouched`, `StoreGoesLast` and `ExitIsClean` follow, for any set of
  transports. `ReadinessIsSound` says what readiness is worth: some connector's flag is set and it is not
  being stopped; it serves a complete session or, for NATS, still subscribes or closes (section 6).
* **Ingest.** `AcksAreSafe`: what is acknowledged has been dispatched. `AcksFollowDispatch` is
  inductive: an acknowledgement in flight or given follows a dispatch, and what is
  dispatched stays so. `RowsInOrder`: rows follow the order of arrival. It is not
  inductive by itself; `LinesKept` makes each connector a line from the queue of the SDK thread,
  over the coroutines on the loop, to the rows of a table, all of it ascending and all of it
  older than what is published next. Each step appends at the tail of a queue, moves a head
  to the next one or drops one (`JoinsLine`, `HeadMoves`, `HeadStaysAhead`). `RouteFinds` is what is used of the
  routing in these two: a table's number or 0. `CountersAlwaysAgree`: for each transport, received is
  the dispatch errors plus the rows of its tables; drops for unknown tables count in neither. The sum runs over a set of tables of any size; a dispatch
  changes one of its terms or none (`TotalGrows`). `RoutesAreRight`: if the patterns are `Distinguishable`, every
  Solace message has a table and its topic matches that table's subscription. `RightWay` follows a
  message from its publication to its rows; the lemmas behind it relate the string comparison of
  `on_message` to the broker's levels: a topic that matches level by level begins, as text, with the stripped
  pattern (`MatchBegins`), and of two patterns that both begin one text, one begins the other
  (`BeginsEither`), which is what `Distinguishable` rules out.
* **Admin.** `ChecksHoldUnlessOvertaken`: what a request has checked still holds when it
  writes, unless another has written in between. The induction is on each
  request's place in its form: a write makes every other request that has read
  stale, so only the writer's own check is left to carry over its delete.
  `ReferencesBreakOnlySo` follows: a reference breaks by such a race or by the
  rename of a transport, for any number of requests. `OrphansAreNewOnly`: a server lacks the
  transport of a table it serves only if the store lacks it, or it was written between the two
  reads. `KnownToBoot` is the invariant: while the server is between them, the store's transports
  are among those it has read and those added since, so what the second read brings up is
  missing from both or is new. `CopiesAreNewOrRaced`: entries of either collection become more only by the form of a new
  one or by a race. `LossesAreRenames`: what no request deletes becomes less only by a rename in which a
  call failed after its delete, or whose new name was taken. `EditInvariant` says that what an edit looked up is there until it deletes or
  overwrites it, unless another request has overtaken it; a rename between its two calls
  stands for the entry it has deleted, and the count of entries and renames under way is followed
  through each call (`PresentAfter`, `HeldIsAfter`).
* **Status.** `GaugesAreExact`, for any number of sessions and tables. `GaugeInvariant` holds more than the gauges:
  the connected sessions are finitely many at any time, and until its `on_close` a session has touched
  what its messages have named; each step then adds one member to a counted set, takes one away or
  leaves it. `RequestsAreKept`: polls and the queue of the loop agree, so that the end of a ping answers the
  poll it was for, once, also when proxies have given up in the meantime: `PageCatchesUp` and
  `ProbeIsAnswered`, which only TLC checks, rest on it.

**Induction over data.** The prover cannot use a theorem that takes a predicate, so `Recursion`
has induction in first-order form: a set of numbers that is not empty has a least member
(`LeastOf`), which is taken as the least counterexample (`AllUpTo` for numbers,
`AllSubsets` for finite sets). A function defined by recursion, be it `Power`, the
library's fold over a set or its `FlattenSeq`, is by definition some function that meets its
equation, if there is one. That there is one is shown first (`RecursionExists`,
`SumExists`, `JoinedIs`), and the equation is used only after that; the step that draws it from the
`CHOOSE` of the definition is left to Zenon, because the SMT translation grants the
equation of any such definition, of one that no function meets too.

**Only model-checked**: what is temporal under fairness (`StopEnds`, `Recovers`,
`BrokenSessionEnds`, `ClosedSocketIsNoticed`, `ShutdownCompletes`, `StreamIsDispatched`,
`PageCatchesUp`, `ProbeIsAnswered`). The prover has no rule for `ENABLED`, which fairness is made of.

## 5. Assumptions on what is not in the repository

* CPython 3.11 (the interpreter of the `Dockerfile`): a cancelled task gets one
  `CancelledError` at its await; `wait_for` that times out cancels and waits
  for what it waited for without a bound; cancelled while it does that, it raises.
* Every await of a hook may suspend. Where the code does not suspend (Solace's
  subscribe, for one) this allows more behaviours than there are.
* An interrupted close of a client may or may not have closed it; one that
  returns, even by an exception the hook swallows (nats.py:148, solace.py:109, websocket_src.py:68), has.
* The websockets library hands out what it has received before its iteration ends.
* The Solace SDK's `disconnect()`, called while `connect()` runs, may find nothing to
  disconnect. It reconnects for ever by itself (solace.py:42) and never gives a link up.
* Flask serves requests on threads; each call to MongoDB is atomic, as single-document
  operations are.
* A close that has swallowed every cancellation it is sent ends by its library's own limit.
* Python's `json` writes and reads `Infinity`; a browser's `r.json()` refuses it. Tornado calls
  `on_close` of every handler it has opened or tried to, once.
* `prometheus_client` histograms are cumulative and end in +Inf.
* nats-py calls back on the loop, in order, and calls both callbacks before `close()`
  returns; it does not wait for its reconnect loop to give up
  (`max_reconnect_attempts=-1`), but it closes on fatal errors.
* A durable consumer is redelivered what it did not acknowledge, in any order;
  it is created by the first subscribe, for messages published from then on.
* The Solace broker delivers what a subscription matches: `*` one level, `>`
  one level or more. The loop runs `call_soon_threadsafe` callbacks in order.

## 6. Where the code and its documents differ

Each has a run whose counterexample TLC prints.

* `AlwaysReleases`: "Always releases resources, even on timeout." (base.py:85). A
  cancellation delivered while a NATS client is closing drops the reference,
  and `stop()` returns with the client alive. `StopReleases` and
  `LeaksOnlyWhenStopping` say what does hold.
* `SnapshotIsJSON`: "JSON snapshot of the running server" (status.py:56). More than one
  dispatch in a hundred slower than the last finite bucket, 1 s, make the 99th percentile infinite
  (49), and `Infinity` goes out; the page then shows an error in the place of everything. `PageCatchesUp`
  has the condition under which it recovers.
* `RowsMatchTopic`: a Solace message may be applied to a table whose subscription
  does not match it (solace.py:75-79 compares beginnings of strings). `RoutedRight`
  states the condition on the patterns, `Distinguishable`, under which it is right.

Seen and not run: health.py:41-42 has readiness hold "so a client opening a table will see live
data", and a NATS connector whose link is lost and regained while it subscribes reads as up before it has
subscribed (nats.py:29; `ReadyMeansConnected` is what holds); a `stop()` that interrupts Solace's
`disconnect()` before a thread has taken it up leaves the service open (solace.py:108;
`StopClosesService` has the exception, and the run of `AlwaysReleases` shows the like for NATS);
a rename whose second call fails loses the entry (app.py:264; `OnlyRenamesLose`); a JetStream subscribe that fails is logged and skipped (nats.py:98-111), so a connector
is up without a table until its next session, where base.py:192 says to "Register all
subscriptions" (`CoreTablesFed` is what holds); the drops the page shows for a table
(README.md:222, "Per-table") are those of its whole transport (status.py:123-140); a session
counts as a consumer of each table whose name its bytes contain, so also of one whose name is part of
another's, where metrics.py:64 says "that have requested a given table" (`GaugesExact` is stated for
names contained); the status and readiness handlers ping MongoDB on the loop, for up to the 5 s of mongo.py:26,
with the proxy gone after 2 s: while MongoDB is down the page says that the server is
unreachable, and a liveness probe with a shorter timeout fails although health.py:45
says of readiness "without restarting it" (`ProbeIsAnswered` is what holds); `stop()` catches the server's
cancellation in base.py:91 and then begins a close nothing bounds but its library (`LoopFairness`); the docstring of the NATS wait (nats.py:120-123) has it wake when the
client has closed after its own reconnect attempts, and it wakes at the first lost
link (nats.py:25), so the two reconnect loops never coexist for long; that of the
WebSocket wait (websocket_src.py:39) has it read until the connection drops, and without
tables it waits for `stop()` only (45-48), on an open socket or a closed one; README.md:240 asks a ready server for at least one connector up, while a server
without connectors is ready (health.py:69-70, modelled in `Ready`); the comment at
metrics.py:87 has the liveness probe read the gauge, and it reads the event;
the gauge of a NATS connector stays 1 while its flag is down during a lost link
(metrics.py:36); the docstring of `_parse_schema_textarea` (admin/app.py:43-46) has
unknown types fall back to string, and they are refused (59-62).

## 7. What is not modelled

* `WSSourceConnector` without tables is proved about and not run: its wait reads nothing.
* `AdminStore` leaves out forms that validation refuses, and the fields of an entry other
  than its name and a table's transport. The script writes one transport and one table in a
  run; a longer run is several.
* `StatusPage` keeps the consumers and the quantiles of a snapshot, one table's histogram, and no real
  time: how long a ping, a probe or a proxy waits is reduced to which of them ends first.
  The readiness handler's ping blocks like that of the status handler and is not repeated.
* A boot that fails after the connectors have started (a port in use, server.py:171) ends by the
  exception and the cancellation of tasks by `asyncio.run`; no code of the repository runs.
* `Ingest` takes a session as opened or closed; `Supervisor` says when that happens. JetStream's
  acknowledgement deadline and its redelivery limit are left out, and plain core NATS, which
  is `Handle` without an acknowledgement.
* `RoutedRight` takes patterns of whole levels: the broker's prefix wildcards (`EX*`) are outside `Matches`
  and `Distinguishable`. `CoreTablesFed` says nothing of JetStream tables, whose subscribe may be skipped.
* Perspective's engine, its wire protocol and the browser clients: external.
* Settings, logging, correlation ids, the other templates, simulators: no state of interest.

## 8. Plan

Done, in this order: `Backoff`, `Supervisor` with its contract, `NATSConnector`, `Server`,
their proofs, `Ingest`, then `WSSourceConnector`, `SolaceConnector` and `AdminStore` with theirs;
the boot and the seed script in `AdminStore`, `ConsumerTracking`, `StatusPage`, the proofs of `Ingest`;
then the theorems that count, sum or recurse, with `Recursion` under them.
The most important behaviour, that a connector can be stopped and recovers, came first.

What is left:

1. Sessions composed with messages: `Ingest` over `ConnectorLifecycle` in the place of its own
   open and close of a session.
2. The JetStream acknowledgement deadline, once the subscribe sets one.
