---------------------------- MODULE DailyReports ----------------------------
(***************************************************************************)
(* Daily sales reports: POST /generate-daily-report (main.py) and          *)
(* report_service.py.  A request looks for a recent report of the same     *)
(* key in generated_reports; when there is none it reads the tables that   *)
(* the ETL job writes, one query at a time, writes a file that is named    *)
(* after the day and the current second, and lists it in the table.        *)
(*                                                                         *)
(* The tables change as SalesTables allows, which EtlPipeline implements   *)
(* (SalesProofs, EtlKeepsPromise).  Each query, file operation and insert  *)
(* is a step of its own: requests run in the thread pool, and the ETL job  *)
(* in another thread.                                                      *)
(***************************************************************************)
EXTENDS Integers, Sequences, FiniteSetsExt

CONSTANTS
  Events,      \* event ids
  Days,        \* sale dates
  Future,      \* the dates more than a day ahead
  SaleKinds,   \* the sales that may happen: event, day, quantity and amount
  Requests,    \* the requests that may be under way at once
  Asks,        \* what they may ask for: day, event (or all) and fmt
  CacheTime,   \* REPORT_CACHE_MINUTES, in ticks of a second
  ListLength,  \* the reports that one listing shows, 100
  MaxTime,     \* bound: ticks of the clock
  MaxSales,    \* bound: sales
  MaxRequests  \* bound: requests ever started

ASSUME Bounds == /\ {CacheTime, ListLength, MaxTime, MaxSales, MaxRequests} \subseteq Nat
                 /\ Asks # {} /\ \A a \in Asks : a.day \in Days

VARIABLES
  sales, summary, daily,  \* the tables, as in SalesTables
  now,        \* the clock
  files,      \* REPORTS_DIR
  rows,       \* generated_reports
  req,        \* the requests
  started,    \* how many requests were started
  refused,    \* observer: the events whose summary row a load left out as invalid
  contested,  \* observer: the names two requests opened
  lost        \* observer: the names whose file a redeployment removed

tableVars == <<sales, summary, daily, refused>>
reportVars == <<now, files, rows, req, started, contested, lost>>
vars == <<tableVars, reportVars>>

TotalOf(s, S, field) == MapThenSumSet(LAMBDA i : s[i][field], S)

Tables == INSTANCE SalesTables

Names == {[day |-> a.day, at |-> t, fmt |-> a.fmt] : a \in Asks, t \in 0..MaxTime}

\* A report lists the events sold on its day, each with its name or "Unknown".
File == [state : {"none", "part", "mixed", "whole"},
         sold : SUBSET Events, named : SUBSET Events]

NoFile == [state |-> "none", sold |-> {}, named |-> {}]

Row == [name : Names, ask : Asks, at : 0..MaxTime]

Stages == {"idle", "check", "query", "open", "write", "insert", "again",
           "found", "answered", "failed"}

Request == [stage : Stages, ask : Asks, name : Names,
            queries : 0..2,    \* how many queries have been made
            sold : SUBSET Events, named : SUBSET Events]

\* A request that is over has forgotten all but how it ended.
Ended(stage) ==
  [stage |-> stage, ask |-> CHOOSE a \in Asks : TRUE, name |-> CHOOSE n \in Names : TRUE,
   queries |-> 0, sold |-> {}, named |-> {}]

Init ==
  /\ Tables!Init
  /\ now = 0
  /\ files = [n \in Names |-> NoFile]
  /\ rows = {}
  /\ req = [r \in Requests |-> Ended("idle")]
  /\ started = 0
  /\ refused = {}
  /\ contested = {}
  /\ lost = {}

-----------------------------------------------------------------------------
(* The world around the requests.                                          *)

Sell(kind) ==
  /\ Len(sales) < MaxSales
  /\ sales' = Append(sales, kind)
  /\ Tables!Sell
  /\ UNCHANGED <<refused, reportVars>>

Load(S) ==
  /\ Tables!Load(S)
  /\ refused' = refused \cup {e \in Events : /\ Tables!EventSales(S, e) # {}
                                             /\ ~Tables!ValidEventRow(S, e)}
  /\ UNCHANGED reportVars

Tick ==
  /\ now < MaxTime
  /\ now' = now + 1
  /\ UNCHANGED <<tableVars, files, rows, req, started, contested, lost>>

-----------------------------------------------------------------------------
(* generate_daily_report and generate_daily_report_csv, step by step.      *)

Begin(r, a, forced) ==
  /\ req[r].stage \in {"idle", "answered", "failed"}
  /\ started < MaxRequests
  /\ started' = started + 1
  /\ req' = [req EXCEPT ![r] = [@ EXCEPT !.stage = IF forced THEN "query" ELSE "check",
                                         !.ask = a, !.queries = 0]]
  /\ UNCHANGED <<tableVars, now, files, rows, contested, lost>>

\* check_report_cache: the rows of the same key in the last CacheTime ticks.
CachedRows(a) == {w \in rows : w.ask = a /\ w.at >= now - CacheTime}

\* ... of which the query returns the newest, if there is one.
Newest(W) == {w \in W : \A v \in W : v.at <= w.at}

\* The answer is taken from the cache when the file is there.
CheckCache(r) ==
  /\ req[r].stage = "check"
  /\ LET found == Newest(CachedRows(req[r].ask)) IN
       \/ \E w \in found :
            /\ files[w.name].state # "none"
            /\ req' = [req EXCEPT ![r].stage = "found", ![r].name = w.name]
       \/ /\ \/ found = {}
             \/ \E w \in found : files[w.name].state = "none"
          /\ req' = [req EXCEPT ![r].stage = "query"]
  /\ UNCHANGED <<tableVars, now, files, rows, started, contested, lost>>

SoldOn(day) == {e \in Events : daily[<<e, day>>] # {}}

Named == {e \in Events : summary[e] # {}}

\* Mutated: the names are read first.
NamesFirst == <<"names", "sales">>

\* _query_daily_sales, then _query_event_names.
QueryOrder == <<"sales", "names">>

Query(r) ==
  /\ req[r].stage = "query"
  /\ LET table == QueryOrder[req[r].queries + 1] IN
       req' = [req EXCEPT ![r] =
                 [req[r] EXCEPT !.queries = @ + 1,
                                !.stage = IF req[r].queries = 1 THEN "open" ELSE "query",
                                !.sold = IF table = "sales" THEN SoldOn(req[r].ask.day) ELSE @,
                                !.named = IF table = "names" THEN Named ELSE @]]
  /\ UNCHANGED <<tableVars, now, files, rows, started, contested, lost>>

\* open(filepath, "w") empties the file that is there; the name has no event.
OpenFile(r) ==
  /\ req[r].stage = "open"
  /\ LET n == [day |-> req[r].ask.day, at |-> now, fmt |-> req[r].ask.fmt] IN
       /\ req' = [req EXCEPT ![r].stage = "write", ![r].name = n]
       /\ files' = [files EXCEPT ![n] = [NoFile EXCEPT !.state = "part"]]
       /\ contested' = IF files[n].state = "none" THEN contested ELSE contested \cup {n}
  /\ UNCHANGED <<tableVars, now, rows, started, lost>>

\* Two writers of one file leave either's report or parts of both.
WriteFile(r) ==
  /\ req[r].stage = "write"
  /\ LET n == req[r].name IN
       /\ \/ files' = [files EXCEPT ![n] = [state |-> "whole", sold |-> req[r].sold,
                                            named |-> req[r].named]]
          \/ n \in contested /\ files' = [files EXCEPT ![n] = [NoFile EXCEPT !.state = "mixed"]]
       /\ req' = [req EXCEPT ![r] = [@ EXCEPT !.stage = "insert", !.sold = {}, !.named = {}]]
  /\ UNCHANGED <<tableVars, now, rows, started, contested, lost>>

\* Mutated: the arguments in the order of the first insert_report_metadata.
RowInOldOrder(r) == [name |-> req[r].name, at |-> now,
                     ask |-> [req[r].ask EXCEPT !.event = req[r].ask.fmt]]

ReportRow(r) == [name |-> req[r].name, ask |-> req[r].ask, at |-> now]

InsertRow(r) ==
  /\ req[r].stage = "insert"
  /\ rows' = rows \cup {ReportRow(r)}
  /\ req' = [req EXCEPT ![r].stage = "again"]
  /\ UNCHANGED <<tableVars, now, files, started, contested, lost>>

\* The second insert names no event: insert_report_metadata, which the second
\* definition in the module has given another parameter, raises TypeError.
InsertAgain(r) ==
  /\ req[r].stage = "again"
  /\ req' = [req EXCEPT ![r] = Ended("failed")]
  /\ UNCHANGED <<tableVars, now, files, rows, started, contested, lost>>

\* The endpoint reads the tables once more, for the summary it answers.
Answer(r) ==
  /\ req[r].stage = "found"
  /\ req' = [req EXCEPT ![r] = Ended("answered")]
  /\ UNCHANGED <<tableVars, now, files, rows, started, contested, lost>>

UnderWay(r) == req[r].stage \notin {"idle", "answered", "failed"}

\* An operation fails: the endpoint answers 500.  What was written stays.
Fail(r) ==
  /\ UnderWay(r)
  /\ req' = [req EXCEPT ![r] = Ended("failed")]
  /\ UNCHANGED <<tableVars, now, files, rows, started, contested, lost>>

\* list_reports: the newest, in any order where they are of the same time.
Listed == {w \in rows : Cardinality({v \in rows : v.at > w.at}) < ListLength}

\* download_report, of what is in the directory.
Downloaded(n) == IF files[n].state = "none" THEN "404" ELSE files[n].state

Step(r) ==
  \/ CheckCache(r) \/ Query(r) \/ OpenFile(r) \/ WriteFile(r)
  \/ InsertRow(r) \/ InsertAgain(r) \/ Answer(r)

\* Mutated: the call is repaired and lists every file that is in the directory.
EveryFileListed(fs) == {[name |-> n, ask |-> a, at |-> n.at] :
                          n \in {m \in Names : fs[m].state # "none"},
                          a \in {b \in Asks : b.event = "all"}}

\* scan_and_populate_reports: its call has the parameters of the first
\* definition, the TypeError is logged, and no file is listed.
BackfilledRows(fs) == {}

\* on_startup.  A redeployment may start from an image with no reports in it.
Restart ==
  /\ \/ UNCHANGED <<files, lost>>
     \/ /\ files' = [n \in Names |-> NoFile]
        /\ lost' = lost \cup {n \in Names : files[n].state # "none"}
  /\ rows' = rows \cup {w \in BackfilledRows(files') : \A v \in rows : v.name # w.name}
  /\ req' = [r \in Requests |-> IF UnderWay(r) THEN Ended("failed") ELSE req[r]]
  /\ UNCHANGED <<tableVars, now, started, contested>>

Next ==
  \/ \E kind \in SaleKinds : Sell(kind)
  \/ \E S \in SUBSET DOMAIN sales : Load(S)
  \/ Tick
  \/ \E r \in Requests :
       \/ \E a \in Asks, forced \in BOOLEAN : Begin(r, a, forced)
       \/ Step(r)
       \/ Fail(r)
  \/ Restart

Spec == Init /\ [][Next]_vars

-----------------------------------------------------------------------------
(* Properties.                                                             *)

\* Every variable has its type; a row's key is one that was asked for.
TypeOK ==
  /\ now \in 0..MaxTime
  /\ files \in [Names -> File]
  /\ rows \subseteq Row
  /\ req \in [Requests -> Request]
  /\ started \in 0..MaxRequests
  /\ refused \subseteq Events
  /\ contested \subseteq Names /\ lost \subseteq Names

\* A report never calls an event "Unknown" that it lists sales of, unless a
\* load once left its row out of event_sales_summary, for its refunds outweighed its
\* sales: though the two tables are read by two queries between which the ETL job may
\* load, the job writes both in one transaction and the report reads the sales first.
ReportsNameTheirEvents ==
  \A n \in Names : \A e \in files[n].sold :
    files[n].state = "whole" => e \in files[n].named \/ e \in refused

\* A report that is listed (get_reports_list) is downloaded whole, unless a
\* second request of the same second opened the same file or a redeployment
\* removed it: whatever fails, no row precedes its file.
ListedReportsAreReadable ==
  \A w \in Listed : \/ Downloaded(w.name) = "whole"
                    \/ w.name \in contested
                    \/ w.name \in lost
=============================================================================
