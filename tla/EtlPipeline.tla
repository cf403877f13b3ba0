---------------------------- MODULE EtlPipeline ----------------------------
(***************************************************************************)
(* The ETL job: run_etl_once (src/etl/__init__.py), the extraction it      *)
(* calls (src/etl/extract.py), the summary tables it loads and the run log *)
(* it takes its cursor from.                                               *)
(*                                                                         *)
(* The scheduler runs one job at a time; docs/etl-pipeline.md documents a  *)
(* second way to start one, from a shell in the container.  Both go on     *)
(* concurrently with sales.  A step below ends where a run's effect on, or *)
(* view of, shared state does: the cursor query, each HTTP answer, each    *)
(* transaction, each stream into BigQuery.                                 *)
(*                                                                         *)
(* A row's totals are represented by how often each sale is counted in     *)
(* them; event names are left out.  An amount is an integer, independent   *)
(* of the quantity: total_amount may say anything.  DATABASE_URL is set:   *)
(* the engine exists.  The upstream service and the job read one clock.    *)
(***************************************************************************)
EXTENDS Integers, Sequences, FiniteSetsExt

CONSTANTS
    Events,      \* event ids
    Days,        \* sale dates
    Future,      \* the dates more than a day ahead, as one of Days
    SaleKinds,   \* the sales the upstream service may record
    Runners,     \* the processes that call run_etl_once
    MaxRetries,  \* MAX_RETRIES
    MaxPages,    \* bound: pages of events upstream
    MaxSales,    \* bound: sales ever made
    MaxRuns      \* bound: runs ever started

ASSUME KindsAssumption ==
    /\ Future \in Days
    /\ SaleKinds \subseteq [event : Events, day : Days, quantity : Int, amount : Int]

ASSUME BoundsAssumption ==
    /\ MaxRetries \in Nat \ {0}
    /\ MaxPages \in Nat \ {0}
    /\ MaxSales \in Nat
    /\ MaxRuns \in Nat

VARIABLES
    now,        \* the clock: it moves with every timestamp taken
    sales,      \* upstream: the sales, in the order they were made
    run,        \* [Runners -> the run it is in]
    started,    \* runs ever started
    summary,    \* event_sales_summary: [Events -> how often a sale counts]
    daily,      \* daily_ticket_sales: the same, by event and day
    runLog,     \* etl_run_log
    bigQuery,   \* the rows streamed into BigQuery, by table
    processed   \* observer: the sales of every load that was committed

pipelineVars == <<now, sales, run, started>>
tableVars == <<summary, daily, processed>>
vars == <<now, sales, run, started, summary, daily, runLog, bigQuery,
          processed>>

SaleIds == 1..MaxSales

Counts == [SaleIds -> Nat]

Nothing == [i \in SaleIds |-> 0]

\* The aggregate of a set of sales: each is counted once.
Once(S) == [i \in SaleIds |-> IF i \in S THEN 1 ELSE 0]

Phases == {"cursor", "events", "sales", "postgres", "bigquery", "log"}

\* A run and its local variables.  since is 0 when there is no cursor; page and
\* attempt are 1 whenever no loop uses them.
Run == [phase : Phases, startedAt : Nat, since : Nat, logReady : BOOLEAN,
        page : 1..MaxPages, attempt : 1..MaxRetries,
        extracted : SUBSET SaleIds, status : {"failed", "success"}]

Idle == [phase |-> "idle", startedAt |-> 0, since |-> 0, logReady |-> FALSE,
         page |-> 1, attempt |-> 1, extracted |-> {}, status |-> "failed"]

LogRow == [startedAt : Nat, finishedAt : Nat, status : {"failed", "success"}]

Sale == [event : Events, day : Days, quantity : Int, amount : Int, at : Nat \ {0}]

Tables == {"summary", "daily"}

TypeOK ==
    /\ now \in Nat
    /\ sales \in Seq(Sale)
    /\ Len(sales) <= MaxSales
    /\ run \in [Runners -> Run \cup {Idle}]
    /\ started \in Nat
    /\ summary \in [Events -> Counts]
    /\ daily \in [Events \X Days -> Counts]
    /\ runLog \subseteq LogRow
    /\ bigQuery \in [Tables -> Counts]
    /\ processed \subseteq SaleIds

Init ==
    /\ now = 0
    /\ sales = <<>>
    /\ run = [r \in Runners |-> Idle]
    /\ started = 0
    /\ summary = [e \in Events |-> Nothing]
    /\ daily = [k \in Events \X Days |-> Nothing]
    /\ runLog = {}
    /\ bigQuery = [t \in Tables |-> Nothing]
    /\ processed = {}

-----------------------------------------------------------------------------
(* Upstream. *)

Sell(kind) ==
    /\ Len(sales) < MaxSales
    /\ now' = now + 1
    /\ sales' = Append(sales, [event |-> kind.event, day |-> kind.day,
                               quantity |-> kind.quantity,
                               amount |-> kind.amount, at |-> now'])
    /\ UNCHANGED <<run, started, tableVars, runLog, bigQuery>>

\* What GET /ticket-sales?since=... returns: the sales made after since.
SalesSince(since) == {i \in DOMAIN sales : sales[i].at > since}

-----------------------------------------------------------------------------
(* The beginning of a run. *)

StartRun(r) ==
    /\ run[r].phase = "idle"
    /\ started < MaxRuns
    /\ started' = started + 1
    /\ now' = now + 1
    /\ run' = [run EXCEPT ![r] =
                  [Idle EXCEPT !.phase = "cursor", !.startedAt = now']]
    /\ UNCHANGED <<sales, tableVars, runLog, bigQuery>>

\* A bug: the cursor query does not filter on the status.
CursorRowsUnfiltered == runLog

CursorRows == {row \in runLog : row.status = "success"}

\* The cursor query: finished_at of the newest such row, none without rows.
CursorIs(since) ==
    \/ CursorRows = {} /\ since = 0
    \/ /\ \E row \in CursorRows : row.finishedAt = since
       /\ \A row \in CursorRows : row.finishedAt <= since

\* _ensure_run_log_table and _load_last_successful_cursor.  When the first
\* fails the run goes on without cursor and without log, when the second fails
\* it goes on without cursor.
ReadCursor(r) ==
    /\ run[r].phase = "cursor"
    /\ \E since \in {row.finishedAt : row \in runLog} \cup {0},
          logReady \in BOOLEAN :
          /\ since = 0 \/ (logReady /\ CursorIs(since))
          /\ run' = [run EXCEPT ![r].phase = "events", ![r].since = since,
                                ![r].logReady = logReady]
    /\ UNCHANGED <<now, sales, started, tableVars, runLog, bigQuery>>

-----------------------------------------------------------------------------
(* Extraction. *)

Extracting(r) == run[r].phase \in {"events", "sales"}

\* A bug: one attempt too many.
MayRetryOnceMore(r) == run[r].attempt <= MaxRetries

MayRetry(r) == run[r].attempt < MaxRetries

\* _request_with_retry: the answer is a 5xx, or there is none.
RequestRetried(r) ==
    /\ Extracting(r)
    /\ MayRetry(r)
    /\ run' = [run EXCEPT ![r].attempt = @ + 1]
    /\ UNCHANGED <<now, sales, started, tableVars, runLog, bigQuery>>

\* A 4xx or an unreadable body, at any attempt, or the last attempt fails too:
\* an exception leaves run_etl_once by its finally clause.
ExtractFails(r) ==
    /\ Extracting(r)
    /\ run' = [run EXCEPT ![r].phase = "log", ![r].page = 1, ![r].attempt = 1]
    /\ UNCHANGED <<now, sales, started, tableVars, runLog, bigQuery>>

\* A bug: _next_page gives the page just read.
SamePage(r) == run[r].page

NextPage(r) == run[r].page + 1

\* A page of events that announces another one: upstream has at most MaxPages
\* pages and numbers them in order.
EventsPage(r) ==
    /\ run[r].phase = "events"
    /\ run[r].page < MaxPages
    /\ run' = [run EXCEPT ![r].page = NextPage(r), ![r].attempt = 1]
    /\ UNCHANGED <<now, sales, started, tableVars, runLog, bigQuery>>

LastEventsPage(r) ==
    /\ run[r].phase = "events"
    /\ run' = [run EXCEPT ![r].phase = "sales", ![r].page = 1, ![r].attempt = 1]
    /\ UNCHANGED <<now, sales, started, tableVars, runLog, bigQuery>>

\* The one page of sales.
SalesPage(r) ==
    /\ run[r].phase = "sales"
    /\ run' = [run EXCEPT ![r].phase = "postgres", ![r].attempt = 1,
                          ![r].extracted = SalesSince(run[r].since)]
    /\ UNCHANGED <<now, sales, started, tableVars, runLog, bigQuery>>

-----------------------------------------------------------------------------
(* Transformation, validation and load. *)

\* transform_summary: the sales behind an event's row, and behind a row of an
\* event and a day.
EventSales(r, e) == {i \in run[r].extracted : sales[i].event = e}

DailySales(r, k) ==
    {i \in run[r].extracted : sales[i].event = k[1] /\ sales[i].day = k[2]}

\* The totals of a row: tickets, or revenue.
TotalOf(s, S, field) == MapThenSumSet(LAMBDA i : s[i][field], S)

\* validate_rows.
ValidEventRow(r, e) ==
    /\ EventSales(r, e) # {}
    /\ TotalOf(sales, EventSales(r, e), "quantity") >= 0
    /\ TotalOf(sales, EventSales(r, e), "amount") >= 0

ValidDailyRow(r, k) == DailySales(r, k) # {} /\ k[2] # Future

\* Each counted once more.  A bug when it is what an upsert does.
UpsertAdding(old, new) == [i \in SaleIds |-> old[i] + new[i]]

\* ON CONFLICT DO UPDATE: the new row replaces the old one.
Upserted(old, new) == new

\* A bug: ON CONFLICT DO NOTHING.
DailyKept(old, new) == IF old = Nothing THEN new ELSE old

DailyUpserted(old, new) == new

\* load_postgres: one transaction.  A concurrent run's upsert of the same rows
\* waits for it to commit.
LoadPostgres(r) ==
    /\ run[r].phase = "postgres"
    /\ summary' = [e \in Events |->
           IF ValidEventRow(r, e)
           THEN Upserted(summary[e], Once(EventSales(r, e)))
           ELSE summary[e]]
    /\ daily' = [k \in Events \X Days |->
           IF ValidDailyRow(r, k)
           THEN DailyUpserted(daily[k], Once(DailySales(r, k)))
           ELSE daily[k]]
    /\ processed' = processed \cup run[r].extracted
    /\ run' = [run EXCEPT ![r].phase = "bigquery"]
    /\ UNCHANGED <<now, sales, started, runLog, bigQuery>>

\* A bug: the exception of a failed load is not raised again.
AfterIgnoredFailure == "bigquery"

AfterFailedLoad == "log"

LoadPostgresFails(r) ==
    /\ run[r].phase = "postgres"
    /\ run' = [run EXCEPT ![r].phase = AfterFailedLoad]
    /\ UNCHANGED <<now, sales, started, tableVars, runLog, bigQuery>>

\* The sales whose rows of a table are valid.
ValidSales(r, t) ==
    {i \in run[r].extracted :
        IF t = "summary" THEN ValidEventRow(r, sales[i].event)
        ELSE sales[i].day # Future}

\* load_bigquery: the tables whose stream is accepted gain rows; when it is
\* off, raises or reports errors the run succeeds all the same.
LoadBigQuery(r) ==
    /\ run[r].phase = "bigquery"
    /\ \E landed \in SUBSET Tables :
          bigQuery' = [t \in Tables |->
              IF t \in landed
              THEN UpsertAdding(bigQuery[t], Once(ValidSales(r, t)))
              ELSE bigQuery[t]]
    /\ run' = [run EXCEPT ![r].phase = "log", ![r].status = "success"]
    /\ UNCHANGED <<now, sales, started, tableVars, runLog>>

-----------------------------------------------------------------------------
(* The end of a run. *)

\* The finally clause: _save_run_log, whose failure is only logged.
SaveRunLog(r) ==
    /\ run[r].phase = "log"
    /\ now' = now + 1
    /\ \/ /\ run[r].logReady
          /\ runLog' = runLog \cup
                 {[startedAt |-> run[r].startedAt, finishedAt |-> now',
                   status |-> run[r].status]}
       \/ UNCHANGED runLog
    /\ run' = [run EXCEPT ![r] = Idle]
    /\ UNCHANGED <<sales, started, tableVars, bigQuery>>

\* The process dies.
Crash(r) ==
    /\ run[r].phase # "idle"
    /\ run' = [run EXCEPT ![r] = Idle]
    /\ UNCHANGED <<now, sales, started, tableVars, runLog, bigQuery>>

RunStep(r) ==
    \/ ReadCursor(r)
    \/ RequestRetried(r)
    \/ ExtractFails(r)
    \/ EventsPage(r)
    \/ LastEventsPage(r)
    \/ SalesPage(r)
    \/ LoadPostgres(r)
    \/ LoadPostgresFails(r)
    \/ LoadBigQuery(r)
    \/ SaveRunLog(r)

Next ==
    \/ \E kind \in SaleKinds : Sell(kind)
    \/ \E r \in Runners : StartRun(r)
    \/ \E r \in Runners : RunStep(r)
    \/ \E r \in Runners : Crash(r)

(***************************************************************************)
(* A run that began goes on: requests time out, transactions end.  Nothing *)
(* is assumed of sales, of the starts of runs or of which answers fail.    *)
(***************************************************************************)
Fairness == \A r \in Runners : WF_vars(RunStep(r))

Spec == Init /\ [][Next]_vars /\ Fairness

-----------------------------------------------------------------------------
(* Properties. *)

\* Whatever fails, crashes or overlaps, a sale that the cursor has passed was
\* loaded, or was made while a successful run was under way: the cursor, a
\* finish time, skips nothing but what was sold during runs (run_etl_once).
SkippedSalesFellInRuns ==
    \A row \in runLog : row.status = "success" =>
        \A i \in DOMAIN sales : sales[i].at <= row.finishedAt =>
            \/ i \in processed
            \/ \E w \in runLog :
                  /\ w.status = "success"
                  /\ w.startedAt <= sales[i].at
                  /\ sales[i].at <= w.finishedAt

\* "Running the pipeline multiple times is safe": re-extracting a window, after
\* a crash or an unsaved log row or in a second run, counts no sale twice in
\* either Postgres table.
NeverCountedTwice ==
    /\ \A e \in Events : \A i \in SaleIds : summary[e][i] <= 1
    /\ \A k \in Events \X Days : \A i \in SaleIds : daily[k][i] <= 1

\* Neither tickets nor money was ever given back.
HasNoRefund(e) ==
    \A i \in DOMAIN sales :
        sales[i].event = e => sales[i].quantity >= 0 /\ sales[i].amount >= 0

\* The two tables belong together whichever runs wrote them: what an event's
\* total counts, its days count too, but for the dates that validate_rows
\* rejects and the events with refunds, whose rows it may reject apart.
DailyCoversSummary ==
    \A e \in Events : HasNoRefund(e) =>
        \A i \in DOMAIN sales :
            (summary[e][i] > 0 /\ sales[i].day # Future)
                => daily[<<e, sales[i].day>>][i] > 0

\* BigQuery never holds a sale whose load into Postgres was not committed.
BigQueryFollowsPostgres ==
    \A t \in Tables : \A i \in SaleIds : bigQuery[t][i] > 0 => i \in processed

\* Every run ends, whatever fails, when upstream's pages of events do: its process
\* is idle again and again.
RunsEnd == \A r \in Runners : []<>(run[r].phase = "idle")

\* docs/etl-pipeline.md: an event's row "Accumulates totals across all sales
\* records for that event": a sale that was loaded stays in the total of its
\* event whatever later runs load.
TotalsKeepLoadedSales ==
    \A i \in processed :
        HasNoRefund(sales[i].event) => summary[sales[i].event][i] > 0

\* The sales counted at least once in each row.
CountedByEvent == [e \in Events |-> {i \in SaleIds : summary[e][i] > 0}]

CountedByDay == [k \in Events \X Days |-> {i \in SaleIds : daily[k][i] > 0}]

Promise == INSTANCE SalesTables
           WITH summary <- CountedByEvent, daily <- CountedByDay

\* Readers see both tables change in one step, to aggregates of one set of sales that replace the
\* rows they were in: the transaction of load_postgres, whatever overlaps, fails or crashes.
TablesChangeTogether == Promise!Spec

=============================================================================
