# Verification of the Veritix service

TLA+ specifications of the stateful parts of the Veritix Python service (a
FastAPI application over PostgreSQL with websocket chat, live ticket-scan
sessions and a scheduled ETL job), TLC configurations that model-check them, and
TLAPS proofs of their main safety properties for every value of their parameters.
Paths such as `chat.py:129` are under `src/src/`, `docs/` is `src/docs/`.

## 1. Results

| Part | Modules | Model-checked | Proved for all parameters |
|---|---|---|---|
| Chat service | `ChatManager`, `ConversationLog` | `chat_delivery`, `chat_records` | types, registry, at-most-once delivery, bound on skips, history, order of messages, that it implements `ConversationLog`, support queue |
| Ticket-scan sessions | `TicketScanManager` | `ticket_scan` | types, registries, staleness bound, no early expiry |
| ETL pipeline | `EtlPipeline`, `SalesTables` | `etl_pipeline` | types, cursor, no double count, days cover totals, BigQuery after Postgres, that it implements `SalesTables` |
| Analytics | `AnalyticsService` | `analytics` | types, bound on overcounting, exact counters |
| Daily reports | `DailyReports` | `daily_reports` | types, named events, readable files |
| Crew tasks and incidents | `CrewTasks` | `crew_tasks` | types, totals, assigned images, locations |
| Revenue sharing | `RevenueRules`, `RevenueSharing` | `revenue` | types, stakeholders of the latest save, payouts add up |
| Budgets and expenses | `Budgets` | `budgets` | types, duplicates, activation |
| Fraud rules | `FraudRules` | `fraud_rules` | all five rules and the severity, on lists of any length |

Two statements of the repository about itself do not hold of its code; each has a
run in which TLC finds a behaviour that contradicts it.

| Run | Property | The statement | What the code does |
|---|---|---|---|
| `chat_all_participants` | `NoParticipantSkipped` | `chat.py:119`: a message goes "to all participants in a conversation" | the delivery loop walks the live list across awaits; a removal behind its index makes it pass over a participant who stayed |
| `etl_totals` | `TotalsKeepLoadedSales` | `docs/etl-pipeline.md:77`: an event's row "Accumulates totals across all sales records" | from the second run on, the extract is incremental but the upsert replaces: the total becomes that of the new sales |

Other places where the code and what is said of it differ. The models do what the
code does; no run is spent on them, for they show at once when the code is read:

- *Chat.* The first of a user's two sockets to close takes the conversation away from
  the user (`chat.py:109` against `:201`). After a restart the database is asked for
  history only while the list in memory is empty, so one new message, or one read with
  a small limit, hides the older rows (`chat.py:182`). Escalations are saved but never
  read back: the support queue is empty after a restart (`chat.py:310`).
- *Scan sessions.* Messages that a client sends do not count as activity, and an expired
  session is forgotten but stays connected (`docs/session_timeout.md:43-46`, `:51`).
- *ETL.* Errors that BigQuery reports are logged and the run is a success
  (`etl/__init__.py:418`). Sales without a readable date are filed under the day of the
  run (`:225`), so extracting them again on another day counts them under two days.
- *Reports.* Every request that generates a report answers 500 after the file and one row
  are written, as the second insert lacks `event_id` (`report_service.py:422`); the next
  request is answered from the cache. A cached report is returned for an hour although an
  ETL run has replaced the rows it was made from (`:331`).
- *Analytics.* The trending cache ignores `limit` and `hours` (`analytics/service.py:478`).
- *Crew tasks.* The details of a task are read from whichever member's document of the flight
  task is found first, and refused when it is another member's
  (`crew_member_task.service.py:450-462`): with two members on a flight task one of them
  never sees the details of hers. No index makes a location unique, so overlapping upserts may
  insert two, of which the end of the task deletes one (`crew_member_location.service.py:78`,
  `:261`).
- *Budgets.* The details of a budget ask for the expenses of one category after the other
  (`budget_service.py:110-117`): an expense that changes category meanwhile may be shown in two
  or in none.
- *Fraud.* Nothing rejects a quantity below zero. `bulk_purchase_rule.py` adds quantities
  up, so one such purchase may hide another that `fraud.py` flags by itself. A purchase that
  gives no capacity is taken to have 1000000 by `fraud.py:71` and 0 by
  `bulk_purchase_rule.py:31`: 200000 tickets of an unknown capacity are bulk to the first only.
- *Revenue.* `docs/revenue_sharing_service.md:28` calls `max_amount` a cap; the final
  adjustment exceeds it (`revenue_sharing_service.py:249`).

## 2. The system and its parts

One process holds a FastAPI application on one asyncio event loop, a thread pool
for its synchronous endpoints, and optionally an APScheduler thread for the ETL.
PostgreSQL is shared by all of them; the upstream ticket service is read over
HTTP; BigQuery is written to. State that lives only in memory: chat connections,
history and escalations, scan sessions, caches.

| Component | State | Operations | Who else touches it | What is hard | What makes it correct |
|---|---|---|---|---|---|
| **Chat** (`chat.py`, `chat_store.py`, endpoints in `main.py`) | sockets per conversation, conversations per user, history, escalations, status, assignee; rows in two tables | connect, disconnect, send, typing and read events, escalate, assign, read history | websocket handlers and HTTP requests of one event loop | loops over live lists across awaits, failed sends, restarts with part of the state in tables, best-effort saves | no dead socket stays, deliveries end and reach nobody twice, history is a tail of what was accepted, the queue shows the latest escalations |
| **Ticket-scan sessions** (`manager.py`, `websocket.py`) | set of sockets, time of last activity, cleanup task, gauge | connect, disconnect, broadcast, cleanup pass, start, stop | handlers, `POST /scans`, a periodic task | snapshot against live set, removal after awaits, expiry racing with refresh | both registries agree, nobody fresh is expired, nobody idle stays |
| **ETL** (`etl/`) | two summary tables, run log, BigQuery tables | one run: cursor, pages of events, sales, validate, load, log | scheduler thread, a shell, upstream sales; readers of the tables | crashes between load and log, cursor against concurrent sales, overlapping runs, partial failures | nothing lost but what fell into runs, nothing twice, tables change together |
| **Analytics** (`analytics/`) | raw scans, transfers, attempts; a row of counters per event and day | log, read statistics of one or all events, listings | request threads over one bounded pool of connections | read-modify-write in a second transaction, first reader against first writer, connections held while waiting for others | counters bounded by records, exact when undisturbed, requests end |
| **Daily reports** (`report_service.py`) | files, rows of `generated_reports` | cache lookup, generate, list, download, backfill | reads what the ETL writes; two requests of one second | several queries across a load, file and row written separately | names match sales, what is listed can be downloaded |
| **Crew tasks and incidents** (`crew-member-task/`, `task-incident/`, TypeScript held as text) | flight tasks, images and their incidents, crew tasks, locations | report, assign, accept, reject, begin, stop, complete, share a location | Node handlers that await a database operation each | saves of what was read earlier, multi-step changes without a transaction | totals bounded by incidents, assigned images belong to a task, finished tasks are not located |
| **Revenue sharing** (`revenue_sharing_service.py`, two stores, endpoints) | stakeholders, calculation history | calculate, batch, save and show stakeholders, history | requests, background tasks | rounding, caps, minima, order of rules; transactions that interleave or fail | payouts add up, an event keeps its latest list |
| **Budgets and expenses** (`budget/`), **dashboard** (`dashboard/`) | budgets, categories, expenses | create, activate, add, update and delete categories, record, update and delete expenses; views | async handlers | check-then-act across awaits | one budget a month, an expense counts once |
| **Fraud rules** (`fraud.py`, `velocity_rule.py`, `bulk_purchase_rule.py`) | none | check a list or a batch | requests | windows and thresholds, neighbours only | a rule fires exactly on what it describes |
| **QR tickets and keys** (`key_manager.py`, `signer.py`, `crypto.py`, `utils.py`) | key files or variables | sign, verify | requests | key fallback | a signature verifies with its key |
| **Search, recommendations, prediction** | caches, models | query, train | requests | stale cache | data, not behaviour |
| **Drone management** (`drone-management/`, TypeScript held as text) | drones | queries and single updates | | | |
| Configuration, authentication, logging, rate limits, PDFs, database engine | settings, counters | | | | no behaviour of their own |
| Older QR services | | | nobody imports them | | never executed |

Interactions. Chat and scan components each own their state and share only the
event loop. The ETL writes the tables that reports read: `SalesTables` states what
a reader may rely on, `EtlPipeline` is proved to implement it, and `DailyReports`
takes its tables from it. Analytics requests compete for the connections of the
engine of `db.py`, which is the part of the engine that has behaviour.

`PROJECT.json` lists all components with their status, and under `hazards` the
places where a test would hardly find a fault, with the properties that would.

## 3. The models

Variables keep the names of the code where they stand for one of its fields. An
action is the code a task runs between two points where another may run. A
definition whose comment starts with "A bug" is no part of the model: it is a
plausible wrong form of the definition after it, used to confirm that a property
depends on that piece of code. Variables marked "observer" record what happened
for the properties and guard nothing.

### ChatManager

Every section under `ChatManager._lock` is free of awaits and the store's calls
are synchronous, so a handler gives up the event loop only while it awaits a
socket. Hence `Connect`, `Disconnect`, `Escalate` and the other operations are
single steps up to the first `send_text()`, and a delivery loop is one step per
socket (`SendAndContinue`), the last of which also sweeps the sockets that failed
(`SendAndFinish`).

- A conversation's list is a set of sockets with arrival numbers: the code only
  appends and removes. `Rank` gives positions, and a loop's iterator is an index
  (`pos`) into whatever the list is now. Deleting an emptied list detaches the
  iterators that still hold it (`attached`).
- A send may fail only when its client is gone; it may also succeed then.
- A save may fail (`saveOk`); the code only logs that.
- `Restart` loses what is in memory and keeps the rows.
- Message ids and timestamps are counters. `bootRows`, `sinceBoot` and the
  `attempted` and `owed` fields of a loop are observers.

### ConversationLog

The abstract specification of what a reader of a conversation's history may rely on, with
the names of `ChatManager`'s variables, which instantiates it (`Log`): a message goes to the
end, its row may be missing; what a read brings in from the table is the end of the rows, and
only where nothing is in memory; a restart keeps the rows. `HistoriesAreLogs` says that
`ChatManager` implements it.

### TicketScanManager

As above: `PostScan` is the refresh, the snapshot and the start of the first
send, `Sweep` a whole cleanup pass; nothing in it raises an exception, so the longer sleep of its
`except` branch is left out. Time is a tick counter; `Sweep` happens at the
tick the sleep ends, `Tick` never passes it. `gauge` is the Prometheus gauge that
the handler raises and lowers. `heard` and `lastScan` are observers.

`websocket.py` as committed names `BaseModel` and `ConfigDict` without importing
them, so the module cannot be imported on its own; `manager.py` is exercised by
`verify_session_timeout.py` and the tests. The endpoints are modelled as written.

### EtlPipeline

A run is a record of `run_etl_once`'s locals and goes through the phases cursor,
events, sales, postgres, bigquery, log. Two runners stand for the scheduler's job
and for a run started from a shell, which `docs/etl-pipeline.md` describes.

- The cursor is the newest `finished_at` of a successful log row. Creating the log
  table or reading it may fail, and the run then goes on without a cursor.
- A request is retried up to `MAX_RETRIES` times; a 4xx, an unreadable body or the
  last failure ends the run through `finally`.
- `LoadPostgres` is the one transaction of `load_postgres`. Two such transactions
  that share rows wait for each other or deadlock, which is `LoadPostgresFails`.
- A row of a table is represented by how often each sale is counted in it.
  `Once(S)` is the aggregate of `transform_summary`; the upsert replaces.
- `validate_rows` rejects an event's row with a negative number of tickets or a negative
  revenue, and a day's row dated more than a day ahead, independently of each other: a sale
  has a quantity and an amount.
- BigQuery streams append, each table may accept or refuse, and a refusal does not
  fail the run.
- `Crash` ends a run without a log row. `SaveRunLog` takes the finish time and
  writes the row in one step; a crash in between is a crash before.

External: `Sell` and `SalesSince` are the upstream service as `extract.py` uses it.
Upstream answers with the sales made after `since`, shares the job's clock, and
numbers its pages in order. `DATABASE_URL` is set.

### SalesTables

The abstract specification of the tables `event_sales_summary` and
`daily_ticket_sales`: sales are only ever added, and `Load` replaces, in one step, the
rows of both tables by the valid aggregates of one set of sales. `EtlPipeline`
instantiates it with the mapping "the sales a row counts" and has it as the property
`TablesChangeTogether`. `TotalOf`, the sum of the quantities or of the amounts of some sales,
is an operator parameter, so that each user of the module sums its own kind of sale.

### AnalyticsService

A request is a thread with one step per query or commit. A log call commits the
record (`LogRecord`), then reads the latest row in a second session (`ReadRow`),
increments what it read, and commits (`WriteRow`): the ORM writes the columns that changed
with values computed from what was read. A first reader counts the records, one query
after the other, and inserts the row. `stat_date` is stamped when a row is inserted.

- A call for all events holds one connection while each inner call takes another
  (`AskForAll`). The pool bounds both; a connection that is not to be had makes the
  call fail after the pool's timeout, which is why `RequestsEnd` holds.
- `early` counts, per event, the updates that were pending when a first reader's row
  appeared; `disturbed` the events with an overlap, a failure, a restart or a new day.
- `log_ticket_transfer` and `log_invalid_attempt` have no callers in the application and
  are modelled as the operations they are.

### CrewTasks

The files of these services hold the TypeScript they were converted from as text, which no
Python code executes (`TS_SOURCE`); the model follows that source and names its lines. Each
await is one MongoDB operation, atomic for its document, and `save()` writes the changed
fields whatever the document has become: `NotifyComplete` may set PROCESSING on a flight
task that was assigned in the meantime, a delayed save may move a crew task back, and a
member may begin two tasks accepted earlier.

- A report of several images is several reports of one image. A number for a new image
  is the largest read plus one; the unique index refuses a second.
- Locations are numbers of documents of a member and a flight task, as no index is unique: the
  upsert of `updateLocation` finds none (`SaveLocation`) and inserts one (`InsertLocation`)
  in two steps, and each deletion takes one.
- `dropped` holds the images whose assignment failed between marking and task; `stray` counts
  the locations that were inserted second or after the end of the task, and the deletions at
  its end that failed while there was one to delete.
- What a member's list of tasks, the details of one, and the map show are the operators
  `ListedImages`, `ShownImages` and `Navigated`. `Found` names the members whose document
  `findOne({taskId})` may return; the details are refused to all others.

### DailyReports

A request is the sequence of the code: cache query, sales of the day, names of the
events, file, row, second insert. The last always fails (`InsertAgain`). A file name is
made of the day and the current second, so two requests may open one file
(`contested`); a redeployment empties the directory and keeps the rows (`lost`); the
backfill on startup lists nothing, because it calls a function that is redefined with
other parameters. `refused` holds the events whose summary row a load left out.
The tables change by `SalesTables`. A database is configured.

### RevenueRules and RevenueSharing

`RevenueRules` is the split as a pure algorithm over integers: fees, stakeholders or
defaults, custom rules by priority, minima, caps, cap by what remains, and the final
adjustment of the largest payee. Amounts are hundred-thousandths of a cent, so that a
percentage of a fee is exact; the code computes with floats. The stable sort is a rank
(`Ahead`: how many come before), the loop over the stakeholders a fold (`Pay`, `Paid`),
forms that TLC evaluates and TLAPS reasons about. A fee named like a built-in
one, which overrides it, is left out.

`RevenueSharing` adds the tables. A save is a transaction with one step per statement
(`Delete`, `Insert`, `Commit`), read committed as in PostgreSQL: a delete sees what was
committed before, and an insert waits for a transaction that holds its key (`KeyHeld`)
and fails on one that is committed (`KeyTaken`). A calculation is answered first and
saved by a background task; a batch is several calculations.

### Budgets

Every handler awaits its repositories, which are given to the services and are external:
`find_one` returns some match, `save` inserts or overwrites by id. A handler is a
sequence of steps that carry what they read. The views are such handlers, too: each reads a
budget with its categories (`ReadDetails`, `ReadOverview` of the dashboard), and then the
expenses, the details with one query for each category in any order (`SpentOnCategory`), the
overview with one for all (`SpentOnAll`). A removed row leaves an id that is not given again.
`seen` records how many budgets there were when a handler looked for one, `loose` the
budgets with an updated category or overlapping additions, `moved` the expenses that were
given another category while a view was reading.

### FraudRules

The rules are predicates over the list of events of one check. TLC judges every list up
to a length in every order. The rules are stated as the code computes them
(windows opened at purchases, neighbours after a stable sort) and compared with what they
describe. The bulk rules agree where no quantity is below zero (`NoReturns`) and the purchase
gives the capacity (`Given`): the two modules have different defaults for a missing one
(`CapacityAt`). A scan without a location counts as a place in `fraud.py` and not in
`velocity_rule.py`. `velocity_rule.py`, `bulk_purchase_rule.py` and
`fraud_events_store.py` have no callers.

## 4. What is checked

| Run | Module | Bounds | Distinct states |
|---|---|---|---|
| `chat_delivery` | `MCChatDelivery` | 3 sockets of 2 users in a conversation, 2 loops at once | 61 303 |
| `chat_records` | `MCChatRecords` | 1 socket, 1 request, 2 conversations, 3 messages, 2 escalations, 1 restart, limits 1 to 3 | 424 170 |
| `ticket_scan` | `MCTicketScan` | 2 sockets, 2 broadcasts at once, 7 ticks, timeout 1, sleep 2 | 124 507 |
| `etl_pipeline` | `MCEtlPipeline` | 2 runners, 2 runs, 2 sales of 4 kinds, 2 attempts, 2 pages | 716 576 |
| `analytics` | `MCAnalytics` | 2 requests, 3 calls, 1 event, 4 kinds of records, a pool of 2, 1 change of day | 41 369 |
| `crew_tasks` | `MCCrewTasks` | 2 crew members, 2 flight tasks, one with a file, 2 images, 2 requests, 4 calls | 846 109 |
| `daily_reports` | `MCDailyReports` | 2 requests, 2 sales, 1 event, 2 days, 2 ticks, cache of 1 tick | 1 593 934 |
| `revenue` | `MCRevenueSharing` | 2 savers, 3 saves, 2 events, 3 lists that share ids, 1 calculation of a list of inputs | 401 378 |
| `budgets` | `MCBudgets` | 2 users, 2 months, 2 categories, 2 budgets, 2 handlers, 1 view, 6 calls | 814 380 |
| `fraud_rules` | `MCFraudRules` | lists of up to 6 events, limits as in the code | 299 593 |

Why these bounds reach the cases that matter:

- *Chat.* A loop skips a socket when a predecessor leaves, sends twice if an element moved
  behind its index, and competes with a second loop's sweep: three sockets and two
  loops show each. One user has two of the sockets. Three messages are one more than the
  smaller limits, so the order of what a read loads and of what it hides is visible; a
  restart splits them; two escalations show a re-escalation. Two conversations show that
  an operation touches its own.
- *Scan sessions.* In seven ticks with a sleep of two the cleanup task makes three passes: a
  session can join after the first, go stale across the second and expire in the third.
- *ETL.* Two runs suffice for a re-extraction after a crash, for two overlapping runs and
  for an incremental run after a full one. Two sales put one before and one after
  any step of a run, and the four kinds (plain, dated too far ahead, given back, and with a
  discount above the price) make rows that are rejected for each reason. Two attempts and
  pages show both loops going round.
- *Analytics.* Two requests are a writer and a first reader, two writers, or two readers;
  the third call finds what they left. Two calls for all events exhaust a pool of two.
- *Crew tasks.* Two requests and four calls (the moves of a task are not counted) are enough
  for a report, two assignments of a task to two members, or one assignment and two
  locations that overlap each other or the end of the task. The model is symmetric in crew
  members and requests, and no property tells them apart.
- *Reports.* Two requests share a second or are one cache time apart; two sales, one of
  them with tickets or money given back, make a summary row that a load refuses.
- *Revenue.* Three saves are two that overlap and one after them. The inputs include large,
  tiny and negative revenues, minima above shares, rules, and currencies with and without
  rates; 150 and 99 percent make bounds and caps bite.
- *Budgets.* Two handlers overlap at any await, and a view reads between any two steps of
  theirs. Five calls create and activate a budget, add two categories and record an expense;
  the sixth changes its category while the details are read. The two users show that nothing
  crosses over. The model is symmetric in handlers, users, months and categories; no property
  tells them apart.
- *Fraud.* Some purchases give no capacity. Four purchases exceed the limit of an address
  and six that of a day; the times are on both sides of midnight and at the ends of the
  windows.

The properties, with the question each asks:

- *Chat.* `RegistriesNameRunningHandlers`: does any interleaving leave a departed socket or
  user behind? `AtMostOncePerDelivery`: can a changing list make a loop send twice?
  `SkipsNeedDepartures`: how many may it pass over at worst? `HistoryIsTail`,
  `HistoriesAreLogs`: can a load from the database hide, repeat or reorder? what may a reader
  of a history rely on?
  `QueueShowsLatestEscalations`: do the four maps about support agree in what the queue
  shows? `DeadSocketsUnregistered`, `DeliveriesEnd`: liveness.
- *Scan sessions.* `SessionsAgree`: do five pieces of code keep two registries and the
  handlers in step? `StaleSessionsBounded` and `ExpiresOnlyIdleSessions`: expiry neither
  late nor early. `DeadSocketsForgotten`, `BroadcastsEnd`: liveness.
- *ETL.* `SkippedSalesFellInRuns`: what can the cursor lose? `NeverCountedTwice`,
  `DailyCoversSummary`: are repeated and overlapping loads idempotent, and do the
  two tables agree afterwards? `BigQueryFollowsPostgres`: is there a row in BigQuery
  whose load failed? `TablesChangeTogether`: what may a reader rely on? `RunsEnd`: is
  every process idle again and again?
- *Analytics.* `OvercountNeedsFirstReader`: by how much can a counter exceed its records?
  `UndisturbedRowsAreExact`: when is it exact, and does it agree with the listings?
  `RequestsEnd`: can calls that hold a connection wait for each other for ever?
- *Crew tasks.* `TotalsNeverExceedIncidents`: can overlapping reports make the total of an
  image too high? `MissingImagesHaveTasks`: can an image vanish from the offers and from
  every member's list of tasks, or from the details of a task that one member has?
  `OverTasksAreNotLocated`: how many locations of a finished task may be left behind, and by
  what?
- *Reports.* `ReportsNameTheirEvents`: may a load between two queries make an event
  "Unknown"? `ListedReportsAreReadable`: can a listed report be missing or torn?
- *Revenue.* `LatestSaveIsKept`: can failing or overlapping saves send an event back to the
  default stakeholders? `PayoutsAddUp`: is the net revenue paid out to a cent? With a
  negative net revenue the total still adds up, though somebody may be paid a positive
  amount.
- *Budgets.* `DuplicatesNeedOverlap`: what does it take to have two budgets of a month, or
  for a view to count an expense twice? `ActivationRecordsNoExpense`: activating a draft by
  an expense never records that expense.
- *Fraud.* `RulesAreExact`: do the shortcuts of the code lose anything, and do the two rules
  that are written twice agree?

`CHECK_DEADLOCK FALSE` is given where the bounds let the system stop: all sockets
closed, the clock at its bound, the last run or call over. `chat_records` keeps the
check: typing events can always be sent.

### Fairness

- Chat and scan: the event loop runs every ready task, a send ends because the
  server's keep-alive pings break a stalled connection, and a handler that waits in
  `receive_text()` is told when its client leaves. So: weak fairness of each
  delivery or broadcast step and of each disconnect. For the scan service also of
  the clock and the cleanup task, which nothing else can block.
- ETL: weak fairness of a run's own steps; requests have a timeout and transactions
  end. A run may fail or crash at each of them.
- Analytics: weak fairness of the steps of each request under way. A thread runs on, and
  waiting for a connection ends by the pool's timeout.
- Nothing is assumed of clients, of requests, of sales, of the starts of runs, of
  crashes or of restarts.
- The other models state no fairness: their properties are safety only.

## 5. What is proved

The proofs hold for every value of the constants under the named assumptions of
each module: sockets are a finite set and their owners given (`ChatManager`), the
timeout and the sleep are naturals and the sleep is not zero
(`TicketScanManager`), retries and pages are at least one (`EtlPipeline`), requests are
a finite set (`AnalyticsService`, `CrewTasks`), the lists of stakeholders are
sequences, their amounts integers and exchange rates positive (`RevenueSharing`), events have
a type (`FraudRules`); bounds are naturals, names are distinct. TLC evaluates the
assumptions in every run.

**ChatManagerProofs.** `ChatTypes` is type correctness. `ChatRegistry`
(`RegistriesNameRunningHandlers`) is inductive over the types. `ChatQueue`
(`QueueShowsLatestEscalations`) has `EscalationInv`: every escalated conversation has its
latest escalation in the map, and assigned ones have an agent. `ChatHistory`
(`HistoryIsTail`) needs `RowsFromBoot`: as long as this process has accepted nothing in a
conversation, its rows are those of the boot, so a load takes from there.
`ChatKeepsLog` (`HistoriesAreLogs`) is the refinement: a message is an `Accept`, with or
without its row, a load a `Recall` (`NewestIsSuffix`), a restart a `Restart`, and everything
else a stutter. `ChatInOrder` is proved of the abstract specification, whose tables and
histories are increasing lists (`OrderInv`), and so of the service. `ChatDelivery`
(`AtMostOncePerDelivery`) needs the most: arrival numbers are never ahead of their
counter (`ArrivalsSoFar`), and of a loop that still holds its list, everybody it has sent
to is a former joiner and, if registered, at or behind its index (`LoopInv`). A connect
adds beyond every rank, a removal only lowers ranks, so the next element is new.
`ChatSkips` (`SkipsNeedDepartures`) counts: as many were sent to as the index says; those
of them that are still registered, and those passed over, all have ranks up to the index,
and no more than that many can (`LowRanks`). So whoever was passed over has the place of one
that left; `OwedInv` ties what is owed to the list the loop holds.

**TicketScanProofs.** `ScanTypes` carries `GaugeCountsHandlers`, without which the
gauge might go below zero. `ScanSessions` (`SessionsAgree`) is inductive over it.
`ScanStaleness` (`StaleSessionsBounded`) has `TimeInv`: while the task runs, the next
pass is at most a timeout and a sleep after any session's activity. `ScanExpiry`
(`ExpiresOnlyIdleSessions`) adds `RemovalInv`: what a broadcast is about to remove has a
gone client.

**SalesProofs** is about `EtlPipeline` and, in its last part, `FraudRules`. `EtlTypes` is
type correctness. `EtlCursor` (`SkippedSalesFellInRuns`) rests on `RunsInv`: the clock is
ahead of every timestamp, a run's cursor is the end of a logged success, a run past
extraction holds every sale between its cursor and its start, and a loaded run's sales are
processed. When it logs success, a sale before its finish is before its cursor (then the
earlier success answers for it), between cursor and start (loaded), or in the run itself.
`EtlBigQuery` (`BigQueryFollowsPostgres`) uses the same invariant, `EtlCounts`
(`NeverCountedTwice`) only the types. `EtlKeepsPromise` (`TablesChangeTogether`) is the
refinement: initial states map to initial states, a sale to `Sell`, `LoadPostgres` to `Load`
of the run's sales, which exist (`ExtractedExist`), and everything else to a stutter.
`EtlDaysCover` (`DailyCoversSummary`) is about rows that `validate_rows` rejects one by one:
where neither tickets nor money was given back, both sums over an event's sales are not
negative (`SumsExist`, `SumsBound`), so the row of the event is loaded with those of its
days, and no row of a day is rejected other than for its date. With either, the row of an
event may be rejected while that of a day is replaced, which is why both are hypotheses.

`FraudRulesExact` (`RulesAreExact`) has no interesting states, but quantifies over lists of
any length. If some pair of scans of a ticket is far apart, then two neighbours in the sorted
list are: of all the far pairs take one with the fewest scans between (`NearerPair`,
`NeighboursFound`). A window with too many purchases contains an earliest one, which opens
it (`IpExact`). `BulkAgrees` compares one purchase with a sum it is part of, hence
`NoReturns`, and with the capacity it gives, hence `Given`: without these hypotheses the
agreement is false of the code.

**AnalyticsProofs.** `AnalyticsTypes` is type correctness. `AnalyticsOvercount`
(`OvercountNeedsFirstReader`) rests on a quantity that no step takes from: `Room(e, c)`,
the records of a counter, plus the early updates, less the updates to come. A record adds
to the first and to the last, an update that ends or fails only frees room, and a first
reader moves what is pending to the early ones. `AnalyticsInv` says that every row, every
copy an update has read, and every count a first reader holds fits in it; an update's
increment is the room it gives up as it ends. `AnalyticsExact`
(`UndisturbedRowsAreExact`) has `ExactInv`: in an undisturbed event one update is pending at
most; if it has read its row, that is still the row; row and update make the records.

**DailyReportsProofs.** `ReportTypes`; `ReportsNamed` (`ReportsNameTheirEvents`) and
`ReportsReadable` (`ListedReportsAreReadable`) rest on `ReportInv`: an event with a daily
row has a summary row or was refused, and stays so whatever is loaded, hence what a
request has read of one table is still true when it reads the other; a row is inserted
after its file is whole.

**CrewProofs.** `CrewInv` says what a request may rely on while others run: images stay,
incidents of an image never get fewer, tasks do not disappear (`Fits`). `CrewTotals` then
follows for a total that is saved late; `CrewImages` from `TakenAreHeld`, an assigned
image is in a task, dropped, or held by the request that marked it; `CrewLocations` from
`LocatedAreKnown`: a task that is over has no more locations than strays and deletions still
to come, and one that is not has at most one more than strays (`Bounded`, `OneLocates`).
`CrewTypes` includes that numbers of images stay distinct.

**RevenueProofs.** `RevenueTypes` includes that ids are unique: what two transactions hold
is disjoint (`TablesInv`), and an insert goes ahead only on a free key. `RevenueLatest`
(`LatestSaveIsKept`) has `EventInv`: of an event whose saves have not overlapped one
transaction at most is open, and it has seen all of the rows, which are those of the latest
save. What a save was asked to keep (`latest`) and what it inserts are compared in
`WrittenInv`: as far as a transaction has come, it has written its list and nothing else, so
at its commit the list is there in full (`AllWritten`). `RevenuePayouts` (`PayoutsAddUp`) is
a fact about the algorithm, `CalculationAddsUp`, and `PaymentsInv`, which carries it through
the tables to the history. A cent is what may be left without an adjustment
(`AdjustedAddsUp`); with one, the rest is rounded and the new amount is rounded, and a
rounding moves half a cent at most (`RoundingIs`). It must also be shown that one payee's
change is the change of the sum (`TotalMoves`), and that the sorted list is a list of the
stakeholders (`SortedIs`: ranks are a bijection).

**BudgetProofs.** `BudgetInv` says of every handler what it has read and what still holds of
it. `BudgetDuplicates` (`DuplicatesNeedOverlap`) needs that two additions of a category to
one budget mark it `loose`, and `ViewsFit` of the views: the categories that a view has read
differ, unless the budget was loose, and an expense it has counted in one and that was not
moved since still has that category, so no other query finds it; `BudgetActivation`
(`ActivationRecordsNoExpense`) that drafts have no categories (`DraftsEmpty`).

**Sums and folds.** The induction theorems of the library take an operator as a parameter,
which the provers cannot instantiate. Where a proof needs induction, it takes a smallest
counterexample: a set of naturals has a least element (`SmallestOf`, from `WFMin`), and so a
set of subsets that contains the empty one, and every set it contains all but one element
of, contains them all (`SubsetsInduct`). A fold, which is defined as *some* function that
satisfies its equation, is shown to exist in the same way (`SumsExist`, `FoldsExist`).

**Only model-checked.** All liveness, `DeadSocketsUnregistered`, `DeliveriesEnd`,
`DeadSocketsForgotten`, `BroadcastsEnd`, `RunsEnd` and `RequestsEnd`: fairness is about
ENABLED, which is out of the prover's reach. Every invariant and every action property that a
passing run checks is proved.

## 6. What is not modelled

- *ETL:* the dry run `diff_etl_output`, which changes nothing; event names;
  sales without a readable date.
- *Analytics:* the heatmap, the scans of one ticket and the trending list with its cache,
  which read only.
- *Reports:* the counts of transfers and invalid scans, the layout of the file, a service
  without a database. Content is not filtered by `event_id` in the code either.
- *Revenue:* fees that override the built-in ones, the cache of exchange rates, which is an
  input.
- *Budgets:* amounts, formatting, the paged list of expenses. *Dashboard:* totals and recent
  transactions; its overview is one of the views of `Budgets`.
- *Fraud:* the audit table `fraud_events_store.py`, which nothing calls; events with
  unreadable fields.
- *Crew tasks:* listings, notifications and logs.
- *Drone management* is a set of queries and single updates, without a rule that several
  steps could break.
- *Chat schemas and read-only endpoints*, `search_utils.py`, `recommender.py` and the
  prediction modules compute data. Configuration, authentication, logging, the rate
  limiter (a library), PDF rendering and the Flask entry point keep no state that
  another part depends on. QR signing is cryptography. The older QR services are in
  directories whose names cannot be imported (`qr-code`, `qr-verification`).

## 7. What could come next

- Undated sales and the run's day in `EtlPipeline`, and the trending cache in
  `AnalyticsService`, each with a clock of its own.
- Crashes inside a crew operation as restarts of the Node process, where today each
  operation may fail.

## 8. Running it

    tlc -workers 2 -config MCChatDelivery.cfg MCChatDelivery
    tlapm ChatManagerProofs.tla

Each passing run takes from a few seconds to three minutes with two workers; the
violations are found in seconds. The eight proof modules take from half a minute to some
minutes each from nothing.
