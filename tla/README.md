# DriveNow, specified in TLA+

DriveNow is a car-rental back end: a FastAPI process over PostgreSQL (SQLite in
local development), domain events over RabbitMQ, an event-logging consumer
process, and Prometheus metrics. These modules specify the parts of it whose
correctness depends on an order of events: requests that run side by side on the
same rows, threads and connections that run out, connections that break, signals,
deaths and restarts. TLC checks them on small instances; TLAPS proves their
safety for every instance.

## The system

| Part (code) | State it keeps | Operations | Talks to | What is hard | What makes it correct |
|---|---|---|---|---|---|
| Tables (`app/models`, `alembic/versions/0001`) | rows of `cars`, `rentals`; partial unique index, CHECKs | insert, update, select [for update] | - | row locks, isolation, SQLite has none of them | status and open rentals agree; history is kept |
| `CarService`, `RentalService`, repositories, unit of work | one session per request: copies of rows, unsaved columns | add, update, delete a car; register, end a rental | tables, publisher | copies read before another request's commit, failures between statements, commit acknowledgements, midnight | each commit is one whole operation on the newest rows; refusals and events tell the truth; every request ends |
| Routers, dependencies, error handlers, sessions, pool (`app/api`, `app/core/db.py`) | who has which thread, connection and lock | the way of a request from its arrival to its answer | services, tables, publisher | two pools and two locks taken by one request, many ways out of it, an outage of the database | nobody waits for ever, everything is given back, the answer is the right one |
| Middleware (`app/api/middleware.py`) | counter and histogram | record a request | - | returning and raising requests, the handlers around it | one sample per request, of the class its client saw unless its session fails to close |
| `get_event_publisher`, `RabbitMQPublisher` | cached instance, lock, connection, channel | publish, close | broker | one connection for all request threads, stale `is_open`, lost confirmations, half-open connections | no connection shared, closed in use, or forgotten by a publisher; the lock is given back, one fault loses no event |
| `app.messaging.consumer` | `_shutdown`, `_active_channel`, connection | connect, consume, log, ack, stop | broker, signals | a signal at any statement, redelivery, poison messages, outages | at least once, in order unless disturbed; stops when asked; always comes back |
| `/metrics` (`app/api/metrics.py`) | process-wide gauges | count, set, render | tables | two queries, overlapping scrapes, restarts | figures are the tables' |
| Configuration, logging, health, schemas, migrations | settings | - | - | - | not modelled, see below |

A request runs in a worker thread: the router calls a service, which opens a
transaction on the request's session, commits, hands the event to the shared
publisher (best effort: what it raises is logged and dropped) and answers. The
broker routes the event to the consumer's queue, if that exists yet; the
consumer writes a log line and acknowledges.

The list of hazards, each at its line and with the properties that guard
against it, is in `PROJECT.json`.

## The modules

| Module | Models |
|---|---|
| `FleetTables` | the two tables, what the repositories select, the business rules as verdicts, and the properties of the committed rows |
| `FleetContract` | what the service layer promises: each operation happens at once on the newest rows |
| `FleetService` | the services, repositories and unit of work: every request a process, every statement a step |
| `PublisherContract` | what `publish` promises its callers |
| `EventPublisher` | `get_event_publisher` and `RabbitMQPublisher` under concurrent request threads and a broker that drops connections |
| `EventConsumer` | the consumer process, its signal handler, and the queue it consumes |
| `EventDelivery` | what becomes of an event between the commit and the log line |
| `EventPipeline` | publishers (by their contract), broker and consumer composed |
| `RequestLifecycle` | what a request occupies from its arrival to its answer: worker thread, pooled connection, row lock, publisher's lock; and its answer and metrics sample |
| `MetricsScrape` | overlapping scrapes beside the operations of `FleetContract` |
| `MCFleet`, `MCPublisher`, `MCConsumer`, `MCPipeline`, `MCLifecycle`, `MCMetrics` | the small instances and their symmetries |
| `..._proofs` | the theorems about the module they are named after |

Three detailed specifications implement an abstract one, each both checked by TLC
(as a `PROPERTY`) and proved:

    FleetService   -> FleetContract       the tables, mapped to themselves
    EventPublisher -> PublisherContract   each thread's call of publish
    EventPipeline  -> EventDelivery       each event's fate and log lines

`MetricsScrape` and `EventPipeline` build on the abstract ones: the tables beside the
scrapes move by `FleetContract`, the events reach the queue by `PublisherContract`.

### FleetTables, FleetContract, FleetService

`cars[c]` and `rentals[r]` are the committed rows, or `NULL`. A car's row has its
status, `fleet` (live, or retired when `deleted_at` is set) and `details`, one
value that stands for model and year. A rental's row has its car, its start and
its returned date. `day` is what `date.today()` returns; the clock may tick
between any two steps.

`FleetService` gives each request a program counter (`pc`), the call's arguments
(`call`), the rows in its session with the columns to be written (`tx`) and its
answer. One action is one statement that reaches the database: `Lookup`
(`session.get`), `LockCar` and `LockRental` (`SELECT ... FOR UPDATE` with
`populate_existing`), `FlushEnd`, `UpdateCar`, `Retire`, `InsertCar`,
`InsertRental`, `MarkInUse` (flushes), `Commit`. A flush takes effect on the
request's own copies and becomes visible with the commit, which writes the dirty
columns only, as SQLAlchemy's UPDATE does. `Refuse` is an exception that leaves
the `with self._transaction()` block: rollback, then the handler's answer.
`Abort` is any statement that fails, `CommitUnacknowledged` a commit that was
applied though the client saw an error, `Crash` the death of the process.

`RowLocks = TRUE` is PostgreSQL at READ COMMITTED: a locked read waits for the
row's lock and then returns the newest committed row. `RowLocks = FALSE` is
SQLite: `with_for_update` locks nothing, and the first write takes the one writer
lock. The partial unique index is `InsertRental`'s last condition, and
`IndexEntryPending` the wait for another transaction's uncommitted entry.

The constants are the requests, the ids the two sequences may hand out, the
details, and the last day of the calendar. Ids are never reused.

### EventPublisher, PublisherContract

A publisher is named by the thread that constructed it, since `lru_cache` runs
the function once per concurrent miss. `open` holds the connections the process
has not closed, `alive` those of them the broker still serves; `Drop` shrinks
`alive` unseen, so that `ChannelIsOpen` may be wrong, as `is_open` is on an idle
blocking connection. `Send` puts the event into the queue and `Confirm` returns;
a connection dropped in between is a lost confirmation. `Retry` is the `except
_RETRYABLE` branch, `Refused` every other exception.

`Finish` is the end of the request. A publisher that lost the race for the cache goes
with it, unclosed: its connection becomes the thread's `orphan`, which nobody can reuse
or close and the broker may go on serving, until `Collect`, if the garbage
collector ever comes by. `OnlyLosersAreForgotten` says that this is the only way for a
connection to stay open behind the process's back, and bounds it by one for each loser.

`PublisherContract` is the same seen by a caller: a call is `publishing`, then `ok` or
`failed`; meanwhile its event is put into the queue at most twice, and it is `ok`
only after it was put there once.

### EventConsumer

`pc` is the main thread's place in `main` and `_consume_once`; `Signal` is the
handler, which runs between any two of the main thread's steps. `consuming` is
whether the channel has its consumer: `stop_consuming` takes it away and
`start_consuming` returns. `where[m]` is a message's place in the broker: ready,
delivered, settling (the ack or nack is on its way), stranded (delivered to a
consumer that is no more, which the broker does not know yet: `Requeue` takes it back),
gone, or lost with a broker that had not written it to disk; `arrival[m]` is its place
in the queue, which a requeued message keeps. `LoseConnection`, `BrokerCancels`,
`ConnectFails` and `Die` are faults, bounded by `MaxFaults`. The broker's side and
pika's are modelled from how the code uses them.

`BrokerCancels` is a queue whose process fails: the connection lives on, the channel
has lost its consumer, and `start_consuming` returns as it does after
`stop_consuming`. `main` breaks out of its loop (`consumer.py:137` takes a clean
return for a graceful shutdown) and the process ends, with messages waiting. `Restart`,
the compose file's `restart: unless-stopped`, starts it again as it does one that
crashed; without such a supervisor, or with `restart: on-failure` (the mutant of
`EveryMessageHandled`), it stays down.

### EventPipeline, EventDelivery

An event is a commit that has something to publish. Its messages are `<<e, 1>>` and,
after a lost confirmation, `<<e, 2>>`; the publishers run by `PublisherContract`, one
caller per event, so any number of publishes overlap. `BrokerForgets`: the broker,
or its queue, goes down before a copy it has not confirmed is on disk. `Return` therefore needs
a copy that is not lost: the queue is durable and the message persistent.
`Malformed` is empty here, since `build_envelope` writes every key that
`_parse_event` requires.

`EventDelivery` keeps an event's fate, how often it was logged, whether it is queued, and
which events had been accepted when it happened. As long as the consumer is undisturbed an event is
logged at most twice and after everything accepted before it happened. Two events
in flight at once may swap, also two of one car: they are published after the row
lock is released. `queued` are the events of which the broker still has a copy:
`Accept` needs the event there, or logged, and it may `Leave` unlogged only if publish
has not accepted it. That, and not more, is what the abstract specification says of
at least once: it is a safety specification. That what is queued is also logged in
the end is `EveryMessageHandled` of `EventConsumer`, under its fairness.

### RequestLifecycle

A burst of requests, each a write, a listing or a scrape. `pc[p]` is the place of `p`
between its dependencies and its sample; while it is in `InThread` it occupies one
of `Threads` worker threads. `held[c]` is the request whose session has pooled
connection `c`; `cut` are the connections an outage of the database has cut, which
look like any other until `pool_pre_ping` asks. An outage lasts from `DatabaseFails` to
`DatabaseReturns`. All writers are after one row
(`add_car` after none), so `row` is one lock; what the writes do is left to
`FleetService`, and what `publish` does to `EventPublisher`.

`Raise` is any exception out of the endpoint: a refusal, the pool's timeout, or an
`OperationalError`, from a statement on a connection that was cut (`StatementFails`) or
from a checkout while the database is down (`CheckoutFails`: the ping fails, and so
does connecting anew). `Close` is the finally of `get_db`, `Record` the middleware with
the 500 handler around it. `CloseFails`: `session.close()` rolls back the transaction of
the request's last read, and raises if the connection was cut since that read. FastAPI
closes the session after the response was sent, so the client keeps its 2xx and the
middleware, where the exception arrives, records a 5xx. `Published` leads to `checkout` again
where an UPDATE has expired `updated_at`, which the response reads back on a
connection of its own. `GET /health` shares nothing with anybody.

### MetricsScrape

The tables move by the steps of `FleetContract`, which `FleetService` is proved to
implement. `CountCars`, one `SetCarGauge` per status, `CountRentals`,
`SetRentalGauge` and `Generate` are the lines of the route.

## What the runs show

| Run | Instance | Result |
|---|---|---|
| `fleet_pg` | PostgreSQL, 2 requests, 1 car, 2 rentals, 2 details, 2 days | the tables agree, the contract is implemented, no constraint of the database is ever reached, events, successes and refusals tell the truth, closed records never change, no request waits for one that waits, none begins again |
| `fleet_pg_live` | 2 requests, 1 car, 1 rental, fair | every request ends |
| `fleet_sqlite_backstop` | SQLite, 2 requests, 1 car, 2 rentals | the unique index alone still allows one open rental per car; nothing closed is opened again |
| `fleet_sqlite` | the same | **violated**: a car's status and its open rental come apart |
| `fleet_end_missing_car` | PostgreSQL, 1 request | **violated**: the "unreachable" branch of `end_rental` is reached |
| `publisher` | 2 threads, 2 connections, 4 faults, fair | the contract is implemented, no connection shared or closed in use, none forgotten but by a request that lost the race for the cache, one fault loses no event, the lock is always given back, each step of its holder brings that nearer |
| `publisher_two` | 2 threads, no fault | **violated**: the process holds two connections |
| `consumer` | 2 events and a malformed one, prefetch 2, 2 faults (lost, refused, cancelled, killed), fair | at least once, duplicates and overtaking only after faults, poison dropped, every message handled, shutdown heard, and then on every step's way to the exit |
| `consumer_signal` | 1 event, no fault, fair | **violated**: a signal while connecting stops nothing |
| `pipeline` | 2 events, 1 of them possibly twice in the queue, prefetch 2, 1 fault | `EventDelivery` is implemented; what was accepted is queued until it was logged |
| `metrics` | 2 scrapes, 1 car, 1 rental, 2 details, 2 days | a scrape alone on quiet tables is exact |
| `lifecycle` | 4 requests, 2 of them writes, 2 connections, 2 threads, 1 outage of the database | nobody is stuck, every step is progress, everything is given back, one sample each, true but for a session that could not be closed; the outage fails only who used a connection or needed one while it lasted |

The bounds. Two requests are enough for every conflict the services know, since
each of their decisions is protected by one row lock, and the proofs remove the
bound. Two rentals of one car let an ended rental and an open one exist side by
side; two days let a call begin before midnight and commit after it; two details
distinguish an update that changes something from one that does not. In
`publisher`, four faults allow two lost events, and a connection closed by the
process is free to be opened anew, so one per thread is enough to forget one. In
`consumer`, two faults allow a loss and another during the recovery. In `pipeline`,
one event is accepted before the other happens, and either may be in the queue
twice; a fault strands a delivery. In `lifecycle`, waiting for the row takes two
connections and two threads; the stall between the two pools takes four requests:
two that are answered by nobody yet and hold the connections (a list, and an update
that reads its row again, or two such updates), and two in the threads that wait for
one. Two of them write (`Writers`), which is what the row and the publisher's lock are
for; the others are a list and a scrape (`TwoWrites`). The outage may begin and end at
any step, so it also finds requests that hold nothing, and answered ones. `metrics`
needs one car to make a status empty again.
Wherever a cfg names a symmetry set, the values are interchangeable in the
specification and in the properties; the runs with liveness use none.

`CHECK_DEADLOCK FALSE` stands where the system may stop: a consumer that was asked to
(`consumer`, `consumer_signal`, `pipeline`), and a burst that has been answered
(`lifecycle`, where `NobodyIsStuck` says what a deadlock check would).

### What the violated runs say about the code

* **SQLite is not "single-writer anyway"** (`app/repositories/car.py:63`). Its writer
  lock is taken by the first write, after the decision. `update_car` to
  maintenance and `register_rental` both read the available car, and both commit.
* **`end_rental` can miss its car** (`app/services/rental_service.py:116`). Not for an
  open rental (`EndMissesOnlyRetiredCars` holds), but for one that was returned and
  whose car was deleted since: the answer is 404 where the README promises 409.
* **The first requests may build two publishers** (`app/api/deps.py:29`), each with
  its connection; only the cached one is closed at shutdown.
* **A shutdown can be lost** (`app/messaging/consumer.py:101`): between the loop's test
  and `_active_channel = channel` a signal sets `_shutdown`, which nobody reads
  before `start_consuming` blocks.

Three more things the models show.

* **"Accurate" has a condition.** A scrape is two queries (`app/api/metrics.py:27-30`),
  hence under READ COMMITTED not a snapshot: beside a `register_rental` it may report no
  car in use and one open rental, and beside another scrape the gauges of both. The
  documents say "accurate" without a condition (`app/api/metrics.py:4`,
  `docs/architecture.md:347`); what holds is `UndisturbedScrapeIsExact`, which says
  nothing of a scrape that something commits or scrapes beside.
* **A 2xx may be counted as a 5xx.** `docs/architecture.md:345` calls the label `outcome` the
  HTTP status class. `OneTrueSample` has the one exception to it: a request whose
  connection is cut between its last read and the closing of its session.
* **A burst can stall.** Answered requests keep their connection until they get a thread to
  be serialized in, while the threads are full of requests that wait for a connection;
  only the pool's timeout, hence a 500, resolves it (the mutant `PoolWaits` of
  `ReadyMeansEnabled`).

## Fairness

`FairSpec` of `FleetService`: a thread keeps running, and PostgreSQL grants a row
lock to its waiters in the order they came, so a request that can take its next
step again and again takes it: strong fairness of `Serve(p)`. Arrivals, failures,
crashes and the clock have none.

`FairSpec` of `EventPublisher`: weak fairness of each thread's own steps. Every wait for
the broker ends with an answer or, by the socket's timeouts and the heartbeat,
with an exception. `threading.Lock` promises its waiters no order, so nothing is
claimed of a thread that waits for it; `LockIsReleased` is about the one that has it.

`FairSpec` of `EventConsumer`: weak fairness of the main thread, of the broker for each
message and for taking back what is stranded, and of the supervisor's restart.
Nobody has to publish or to send a signal, and faults are finite.

`RequestLifecycle` has no fairness. A burst is finite, some request can always move
(`NobodyIsStuck`), and every step brings a request nearer to its end
(`EveryStepIsProgress`): that is all there is to say.

Liveness itself is only model-checked, but what it rests on is proved for every
instance, so that fairness is all that a run adds. Each component that waits has
the same two halves. *No wait is for a waiter*: `WaitsAreShort` (row locks, index
entries, the writer lock), `NobodyIsStuck` (threads, connections, the row, the
publisher), the first line of `PublishRunsOut`. *Every step is progress*:
`RequestsOnlyMoveOn`, `EveryStepIsProgress`, `PublishRunsOut`, `HeardForGood`, each
with a natural number that falls. That these waits are all there are is ENABLED, hence
TLC's again: `ReadyMeansEnabled`, and in the fair runs the liveness itself. Behind
`EveryMessageHandled` stands `SetbacksNeedFaults`: the broker takes a delivery back only
for a fault or a shutdown, never what was settled, and faults are finitely many.

## What is proved

For any number of requests, cars, rentals, threads, connections, events, messages
and faults, from the named assumptions on the constants alone. Of the theorems about
`FleetService`, those that say what PostgreSQL is needed for assume `RowLocks`; the
last three sections of `FleetService_proofs` hold on SQLite too.

**FleetContract, FleetService.**

* `ContractKeepsTables`: every operation of the contract keeps `TablesInv`: the
  types, `RentedIffInUse`, and an open rental's car being live.
  `FleetTables_proofs` has one lemma per operation.
* `ServiceInvariant`: `ServiceInv` always holds. `RentedIffInUse`
  is not inductive at this level: a request about to commit might hold any copy.
  `ServiceInv` says what it holds: its arguments and drawn ids (`ArgumentsOK`,
  `IdsOK`, `IdsDistinct`), that past its locked read it holds the car's lock
  and the car is live (`CarLocked`), that its copies then are the committed rows
  (`CopiesFresh`), and that at the commit what it decided is still right
  (`DecisionHolds`). The argument: a request's own step keeps its own part (one
  lemma per statement, `...Keeps`); a commit changes only the rows it has locked
  or drawn (`ApplyTouchesOnly`); so nobody else's part moves (`Still`, `OthersStill`).
* `ServiceImplementsContract`: under `ServiceInv` each commit is a step of the
  contract (`CommitImplementsContract`) and every other step leaves the tables alone.
* `ServiceRentedIffInUse`, `ServiceRetiredCarsAreFree`, `ServiceClosedRecordsFrozen`: from
  the refinement, and what the contract keeps and remembers (`ContractRemembers`).
* `ServiceEventsTellTruth`, `ServiceEndMissesOnlyRetiredCars`, `ServiceRefusalsTellTruth`:
  with `Told`, what a request has been told. It becomes true at the request's own
  step (`StatementTells`, `CommitTells`) and stays true because the tables forget
  nothing (`ToldStays`).
  `EventTellsTruth` is about the step that promises, by an event to be published or by a
  2xx: in it the tables show everything the call asked for, an update's columns
  included (`CommitShows`), and an event needs that very step to have changed them. What
  a later request may change again, a car's status or details, is not claimed of
  the time after; what it may not, a rental's car, start and return and a car's
  retirement, is there until the answer is out (`ServiceLasts`).
* `ServiceBackstopsNeverReached`: no step of a request under `ServiceInv` is refused
  by the unique index or the CHECK.
* `IndexGuardsEveryCar`: no car has two open rentals, with or without row locks.
  `IndexInv` says that an index entry which is not committed stands alone for its
  car; the writer lock of SQLite is not needed.
* `ServiceRequestsOnlyMoveOn`: the statements of every operation have one order
  (`StatementsLeft`), and failures, refusals and crashes lead to its end
  (`GotoMovesOn`, `ServeMovesOn`).
* `ServiceWaitsAreShort`: `LocksOK` says where in its transaction a request holds what.
  On PostgreSQL who is waited for is past its car lock; it waits for the rental it
  ends, or for the index entry of its car, only if somebody else is past the lock of
  the same car, and `ServiceInv` knows no such two (`CarHoldersDoNotWait`). On SQLite
  only the writer is waited for, and it has what it needs (`WriterWaitsAreShort`).
* `ServiceTypes`, `ServiceClosedStaysClosed`: on SQLite the copies may be stale, and
  `ServiceInv` is false. `SessionInv` keeps what needs no lock: a copy is a row, the
  copy of a rental that is being ended has the stored rental's car and start, only
  `delete` has the column `deleted_at` dirty and then it is set, ids that are drawn are
  not stored yet. So a commit on a row that changed since it was read
  still reopens nothing (`ApplyUndoesNothing`); with every column
  written it would (the mutant `SavedWhole`).

**EventPublisher.** `PublisherInv` says who holds which lock and connection
(`Holding`, `OwnConnections`), that what is open is some publisher's, in use or
dropped (`Accounted`), and a publisher is dropped only by a thread that lost the race
for the cache (`Raced`), how many copies each place in `publish` has left
(`Copied`), and keeps an account (`Charged`): each fault is charged to a dead
connection, to a failed first attempt, or is half of a lost event; that makes
`OneFaultLosesNothing` inductive. From it: `PublisherOneThreadPerConnection`,
`PublisherForgetsOnlyLosers`, `PublisherCopiesAreAttempts`,
`PublisherOneFaultLosesNothing`, `PublisherImplementsContract`, `PublisherTypes`, and
`PublisherRunsOut`: who has a lock is in the middle of a call, at most ten steps from
giving it back, and nobody else's step adds to them.

**EventConsumer.** `ConsumerInv`: arrivals are numbered (`Numbered`), what is delivered is
delivered on the connection the main thread has, to a consumer only a shutdown has
taken away since (`Linked`), a message is settled only when it was logged or is malformed (`Settling`), every log line is paid for by the
message's place in the broker or by a fault (`Paid`), before the first fault there is
one connection, which only a shutdown ends (`Undisturbed`), and then messages leave the queue, and
are logged, in the order they arrived (`InOrder`). From it: `ConsumerDropsNothingUnlogged`, `ConsumerNeverLogsPoison`,
`ConsumerDuplicatesNeedFaults`, `ConsumerOvertakingNeedsFaults`, `ConsumerTypes`.
`ConsumerHearsForGood`: from where a shutdown is heard, no step but one of the main
thread's way out moves it, and no lost connection or second signal makes it unheard.
`ConsumerSetbacksNeedFaults`: each way back into the queue costs a fault, or a shutdown.
`Paid` is why a cancel on a live connection does no harm that a fault does not pay for:
the callback may go on with a message the broker has taken back, log it and acknowledge
it in vain, and it is delivered and logged again.

**EventPipeline.** `PipelineInv` adds that the copies of an event are the messages
routed (`Routed`), that accepted events have a copy left (`Kept`), and that the copies of
what was accepted before an event happened are ahead of its own in the queue
(`Ahead`). From it: `PipelineKeepsAccepted`, `PipelineImplementsDelivery`, `PipelineTypes`,
and `PipelineLinesArePaidFor`: a copy that was put has one log line, and one more for each
fault; one that was not has none. The refinement is one of safety: a copy may leave the queue
only settled, hence logged (`StepLeaves`), or unconfirmed (`ForgetStep`).
`PipelineKeepsPromise` spells out what it means for who reads the log: `Promised` holds in
every state of the abstract specification, with an inductive invariant of its own, and
the refinement carries it to the pipeline.

**RequestLifecycle.** `LifecycleInv`: a request holds a connection, the row or the
publisher's lock where the code says and nowhere else (`InPlace`), only a write that is
not committed yet works on a locked row (`LockedWrites`), a connection that is in use and
cut was in use when the server cut it (`CutIsStruck`), and how a request ended, what it
was answered and what was recorded of it fit each other (`Told`), though a checkout, a
statement and the closing of a session may each fail. A write that publishes has
committed (`CommittedFirst`). From it the safety properties of the run;
`LifecycleOutageHitsOnlyItsUsers` looks at the steps that can raise an `OperationalError`. `LifecycleNobodyIsStuck`: take somebody in a thread, or, if nobody is, anybody. If
that request waits for the row or the publisher, then its holder is in a thread and
waits for neither (`ThreadsAreReady`). `LifecycleEveryStepIsProgress`: `StepsLeft` falls
with every step, also with the one to the second checkout, which follows the publish.

**MetricsScrape.** `ScrapeInv`: an undisturbed scrape has read what is still in the
tables, and the gauges it has passed show it. From it `UndisturbedScrapes` and
`ScrapeTypes`.

Proved, and not checked by a run besides: `ServiceInv`, `PoisonNeverLogged`,
`CopiesAreAttempts`, `PTypeOK`, `SetbacksNeedFaults`, `DeliveryPromised`, `LinesArePaidFor`, and
`WaitsAreShort` on SQLite.

Only model-checked: liveness (`EveryRequestEnds`, `LockIsReleased`,
`EveryMessageHandled`, `ShutdownHeard`), and that a request whose waits are over can step
(`ReadyMeansEnabled`), since fairness and ENABLED are
beyond the prover.

## What is not modelled, and why

* Configuration, logging, migrations, containers and dashboards: they keep no
  state that an operation depends on. The consumer's restart policy is a step.
* Validation of request bodies: a refused body never reaches a service (`Invalid` in
  `RequestLifecycle` is its way out). What the listings return: they only read.
* `customer_name`, `end_date`, timestamps: written and never read by a rule.
  `updated_at` matters when it is read back for a response (`ReadBack` in
  `FleetService`, the second `checkout` in `RequestLifecycle`).
* Time: how long a wait for the broker or for the pool lasts. That it ends is
  assumed, and the timeouts are steps.
* The deletion of the consumer's queue, by hand: nothing in the repository does it.
  (A cancel by the broker, which it would cause too, is `BrokerCancels`.)
* A request cancelled with `CancelledError` leaves no sample (`middleware.py:53`); it
  happens when the process ends, and its counters with it.
* The labels and durations of the samples, the payload of the events, the JSON.
