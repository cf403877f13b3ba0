---------------------------- MODULE SalesProofs ----------------------------
(***************************************************************************)
(* Proofs about EtlPipeline, for any events, days, kinds of sale, number   *)
(* of runners, retries and pages, and about FraudRules, for any ticket     *)
(* events.  Both add up the quantities of sales: the lemmas about sums are *)
(* theirs in common.                                                       *)
(***************************************************************************)
EXTENDS EtlPipeline, FraudRules, FiniteSetTheorems, WellFoundedInduction, TLAPS

-----------------------------------------------------------------------------
(* Types. *)

\* A runner that is not idle holds a run.
LEMMA BusyRun ==
    ASSUME TypeOK, NEW r \in Runners, run[r].phase # "idle"
    PROVE  run[r] \in Run
    BY DEF TypeOK, Idle

\* A runner's new record keeps the function's type.
LEMMA RunType ==
    ASSUME TypeOK, NEW r \in Runners, NEW d \in Run \cup {Idle},
           run' = [run EXCEPT ![r] = d]
    PROVE  run' \in [Runners -> Run \cup {Idle}]
    BY DEF TypeOK

\* A run starts with no cursor, nothing extracted and both loops at their start.
LEMMA FreshRun ==
    ASSUME NEW t \in Nat
    PROVE  [Idle EXCEPT !.phase = "cursor", !.startedAt = t] \in Run
<1>1. 1 \in 1..MaxRetries /\ 1 \in 1..MaxPages
    BY BoundsAssumption
<1> DEFINE AnyRun ==
    [phase : Phases \cup {"idle"}, startedAt : Nat, since : Nat,
     logReady : BOOLEAN, page : 1..MaxPages, attempt : 1..MaxRetries,
     extracted : SUBSET SaleIds, status : {"failed", "success"}]
<1>2. Idle \in AnyRun
    BY <1>1 DEF Idle
<1>3. ASSUME NEW d \in AnyRun
      PROVE  [d EXCEPT !.phase = "cursor", !.startedAt = t] \in Run
    BY DEF Run, Phases
<1> QED
    BY <1>2, <1>3

\* The assignments to a run's locals that the steps make keep its type.
LEMMA LocalTypes ==
    ASSUME NEW d \in Run, NEW p \in Phases
    PROVE  /\ [d EXCEPT !.phase = p] \in Run
           /\ [d EXCEPT !.phase = p, !.status = "success"] \in Run
           /\ \A n \in 1..MaxRetries : [d EXCEPT !.attempt = n] \in Run
           /\ \A g \in 1..MaxPages : [d EXCEPT !.page = g, !.attempt = 1] \in Run
           /\ [d EXCEPT !.phase = p, !.page = 1, !.attempt = 1] \in Run
           /\ \A s \in Nat, b \in BOOLEAN :
                  [d EXCEPT !.phase = p, !.since = s, !.logReady = b] \in Run
           /\ \A x \in SUBSET SaleIds :
                  [d EXCEPT !.phase = p, !.attempt = 1, !.extracted = x] \in Run
<1>1. 1 \in 1..MaxRetries /\ 1 \in 1..MaxPages
    BY BoundsAssumption
<1> QED
    BY <1>1 DEF Run

\* Aggregates of sales, and their sums, are counts.
LEMMA CountTypes ==
    /\ Nothing \in Counts
    /\ \A S : Once(S) \in Counts
    /\ \A f, g \in Counts : UpsertAdding(f, g) \in Counts
    BY DEF Nothing, Once, UpsertAdding, Counts

\* What a run extracts are sales.
LEMMA SalesSinceType ==
    ASSUME TypeOK, NEW since
    PROVE  SalesSince(since) \in SUBSET SaleIds
<1>1. DOMAIN sales = 1..Len(sales) /\ Len(sales) \in Nat /\ Len(sales) <= MaxSales
    BY DEF TypeOK
<1> QED
    BY <1>1, BoundsAssumption DEF SalesSince, SaleIds

\* Every variable starts with its type (the tables are empty, no run goes on).
LEMMA InitType == Init => TypeOK
    BY CountTypes, BoundsAssumption DEF Init, TypeOK

\* Every step of the pipeline keeps the types.
LEMMA NextType == TypeOK /\ [Next]_vars => TypeOK'
<1> SUFFICES ASSUME TypeOK, [Next]_vars PROVE TypeOK'
    OBVIOUS
<1> USE BoundsAssumption
<1>1. ASSUME NEW kind \in SaleKinds, Sell(kind) PROVE TypeOK'
    <2>1. [event |-> kind.event, day |-> kind.day,
           quantity |-> kind.quantity, amount |-> kind.amount, at |-> now'] \in Sale
        BY <1>1, KindsAssumption DEF Sell, TypeOK, Sale
    <2>2. sales' \in Seq(Sale) /\ Len(sales') <= MaxSales
        BY <1>1, <2>1 DEF Sell, TypeOK
    <2>3. now' \in Nat
        BY <1>1 DEF Sell, TypeOK
    <2> QED
        BY <1>1, <2>2, <2>3 DEF Sell, TypeOK, tableVars
<1>2. ASSUME NEW r \in Runners, StartRun(r) PROVE TypeOK'
    <2>1. now' \in Nat /\ started' \in Nat
        BY <1>2 DEF StartRun, TypeOK
    <2>2. [Idle EXCEPT !.phase = "cursor", !.startedAt = now'] \in Run
        BY <2>1, FreshRun
    <2>3. run' \in [Runners -> Run \cup {Idle}]
        BY <1>2, <2>2, RunType DEF StartRun
    <2> QED
        BY <1>2, <2>1, <2>3 DEF StartRun, TypeOK, tableVars
<1>3. ASSUME NEW r \in Runners, ReadCursor(r) PROVE TypeOK'
    <2>1. PICK since \in {row.finishedAt : row \in runLog} \cup {0},
               logReady \in BOOLEAN :
               run' = [run EXCEPT ![r].phase = "events", ![r].since = since,
                                  ![r].logReady = logReady]
        BY <1>3 DEF ReadCursor
    <2>2. since \in Nat
        BY DEF TypeOK, LogRow
    <2>3. run[r] \in Run
        BY <1>3, BusyRun DEF ReadCursor
    <2>4. [run[r] EXCEPT !.phase = "events", !.since = since,
                         !.logReady = logReady] \in Run
        BY <2>2, <2>3, LocalTypes DEF Phases
    <2>5. run' = [run EXCEPT ![r] = [run[r] EXCEPT !.phase = "events",
                      !.since = since, !.logReady = logReady]]
        BY <2>1
    <2>6. run' \in [Runners -> Run \cup {Idle}]
        BY <2>4, <2>5, RunType
    <2> QED
        BY <1>3, <2>6 DEF ReadCursor, TypeOK, tableVars
<1>4. ASSUME NEW r \in Runners, RequestRetried(r) PROVE TypeOK'
    <2>1. run[r] \in Run
        BY <1>4, BusyRun DEF RequestRetried, Extracting
    <2>2. run[r].attempt + 1 \in 1..MaxRetries
        BY <1>4, <2>1 DEF RequestRetried, MayRetry, Run
    <2>3. run' = [run EXCEPT ![r] =
                     [run[r] EXCEPT !.attempt = run[r].attempt + 1]]
        BY <1>4 DEF RequestRetried
    <2>4. [run[r] EXCEPT !.attempt = run[r].attempt + 1] \in Run
        BY <2>1, <2>2, LocalTypes DEF Run
    <2>5. run' \in [Runners -> Run \cup {Idle}]
        BY <2>3, <2>4, RunType
    <2> QED
        BY <1>4, <2>5 DEF RequestRetried, TypeOK, tableVars
<1>5. ASSUME NEW r \in Runners, ExtractFails(r) PROVE TypeOK'
    <2>1. run[r] \in Run
        BY <1>5, BusyRun DEF ExtractFails, Extracting
    <2>2. run' = [run EXCEPT ![r] =
              [run[r] EXCEPT !.phase = "log", !.page = 1, !.attempt = 1]]
        BY <1>5 DEF ExtractFails
    <2>3. [run[r] EXCEPT !.phase = "log", !.page = 1, !.attempt = 1] \in Run
        BY <2>1, LocalTypes DEF Phases
    <2>4. run' \in [Runners -> Run \cup {Idle}]
        BY <2>2, <2>3, RunType
    <2> QED
        BY <1>5, <2>4 DEF ExtractFails, TypeOK, tableVars
<1>6. ASSUME NEW r \in Runners, EventsPage(r) PROVE TypeOK'
    <2>1. run[r] \in Run
        BY <1>6, BusyRun DEF EventsPage
    <2>2. run[r].page + 1 \in 1..MaxPages
        BY <1>6, <2>1 DEF EventsPage, Run
    <2>3. run' = [run EXCEPT ![r] =
              [run[r] EXCEPT !.page = run[r].page + 1, !.attempt = 1]]
        BY <1>6 DEF EventsPage, NextPage
    <2>4. [run[r] EXCEPT !.page = run[r].page + 1, !.attempt = 1] \in Run
        BY <2>1, <2>2, LocalTypes DEF Run
    <2>5. run' \in [Runners -> Run \cup {Idle}]
        BY <2>3, <2>4, RunType
    <2> QED
        BY <1>6, <2>5 DEF EventsPage, TypeOK, tableVars
<1>7. ASSUME NEW r \in Runners, LastEventsPage(r) PROVE TypeOK'
    <2>1. run[r] \in Run
        BY <1>7, BusyRun DEF LastEventsPage
    <2>2. run' = [run EXCEPT ![r] =
              [run[r] EXCEPT !.phase = "sales", !.page = 1, !.attempt = 1]]
        BY <1>7 DEF LastEventsPage
    <2>3. [run[r] EXCEPT !.phase = "sales", !.page = 1, !.attempt = 1] \in Run
        BY <2>1, LocalTypes DEF Phases
    <2>4. run' \in [Runners -> Run \cup {Idle}]
        BY <2>2, <2>3, RunType
    <2> QED
        BY <1>7, <2>4 DEF LastEventsPage, TypeOK, tableVars
<1>8. ASSUME NEW r \in Runners, SalesPage(r) PROVE TypeOK'
    <2>1. run[r] \in Run
        BY <1>8, BusyRun DEF SalesPage
    <2>2. SalesSince(run[r].since) \in SUBSET SaleIds
        BY SalesSinceType
    <2>3. run' = [run EXCEPT ![r] =
              [run[r] EXCEPT !.phase = "postgres", !.attempt = 1,
                             !.extracted = SalesSince(run[r].since)]]
        BY <1>8 DEF SalesPage
    <2>4. [run[r] EXCEPT !.phase = "postgres", !.attempt = 1,
                         !.extracted = SalesSince(run[r].since)] \in Run
        BY <2>1, <2>2, LocalTypes DEF Phases
    <2>5. run' \in [Runners -> Run \cup {Idle}]
        BY <2>3, <2>4, RunType
    <2> QED
        BY <1>8, <2>5 DEF SalesPage, TypeOK, tableVars
<1>9. ASSUME NEW r \in Runners, LoadPostgres(r) PROVE TypeOK'
    <2>1. run[r] \in Run
        BY <1>9, BusyRun DEF LoadPostgres
    <2>2. run' = [run EXCEPT ![r] = [run[r] EXCEPT !.phase = "bigquery"]]
        BY <1>9 DEF LoadPostgres
    <2>3. [run[r] EXCEPT !.phase = "bigquery"] \in Run
        BY <2>1, LocalTypes DEF Phases
    <2>4. run' \in [Runners -> Run \cup {Idle}]
        BY <2>2, <2>3, RunType
    <2>5. summary' \in [Events -> Counts]
        BY <1>9, CountTypes DEF LoadPostgres, Upserted, TypeOK
    <2>6. daily' \in [Events \X Days -> Counts]
        BY <1>9, CountTypes DEF LoadPostgres, DailyUpserted, TypeOK
    <2>7. processed' \subseteq SaleIds
        BY <1>9, <2>1 DEF LoadPostgres, Run, TypeOK
    <2> QED
        BY <1>9, <2>4, <2>5, <2>6, <2>7 DEF LoadPostgres, TypeOK
<1>10. ASSUME NEW r \in Runners, LoadPostgresFails(r) PROVE TypeOK'
    <2>1. run[r] \in Run
        BY <1>10, BusyRun DEF LoadPostgresFails
    <2>2. run' = [run EXCEPT ![r] = [run[r] EXCEPT !.phase = "log"]]
        BY <1>10 DEF LoadPostgresFails, AfterFailedLoad
    <2>3. [run[r] EXCEPT !.phase = "log"] \in Run
        BY <2>1, LocalTypes DEF Phases
    <2>4. run' \in [Runners -> Run \cup {Idle}]
        BY <2>2, <2>3, RunType
    <2> QED
        BY <1>10, <2>4 DEF LoadPostgresFails, TypeOK, tableVars
<1>11. ASSUME NEW r \in Runners, LoadBigQuery(r) PROVE TypeOK'
    <2>1. run[r] \in Run
        BY <1>11, BusyRun DEF LoadBigQuery
    <2>2. run' = [run EXCEPT ![r] =
              [run[r] EXCEPT !.phase = "log", !.status = "success"]]
        BY <1>11 DEF LoadBigQuery
    <2>3. [run[r] EXCEPT !.phase = "log", !.status = "success"] \in Run
        BY <2>1, LocalTypes DEF Phases
    <2>4. run' \in [Runners -> Run \cup {Idle}]
        BY <2>2, <2>3, RunType
    <2>5. PICK landed \in SUBSET Tables :
              bigQuery' = [t \in Tables |->
                  IF t \in landed
                  THEN UpsertAdding(bigQuery[t], Once(ValidSales(r, t)))
                  ELSE bigQuery[t]]
        BY <1>11 DEF LoadBigQuery
    <2>6. bigQuery' \in [Tables -> Counts]
        BY <2>5, CountTypes DEF TypeOK
    <2> QED
        BY <1>11, <2>4, <2>6 DEF LoadBigQuery, TypeOK, tableVars
<1>12. ASSUME NEW r \in Runners, SaveRunLog(r) PROVE TypeOK'
    <2>1. run[r] \in Run
        BY <1>12, BusyRun DEF SaveRunLog
    <2>2. now' \in Nat
        BY <1>12 DEF SaveRunLog, TypeOK
    <2>3. [startedAt |-> run[r].startedAt, finishedAt |-> now',
           status |-> run[r].status] \in LogRow
        BY <2>1, <2>2 DEF Run, LogRow
    <2>4. runLog' \subseteq LogRow
        BY <1>12, <2>3 DEF SaveRunLog, TypeOK
    <2>5. run' \in [Runners -> Run \cup {Idle}]
        BY <1>12, RunType DEF SaveRunLog
    <2> QED
        BY <1>12, <2>2, <2>4, <2>5 DEF SaveRunLog, TypeOK, tableVars
<1>13. ASSUME NEW r \in Runners, Crash(r) PROVE TypeOK'
    <2>1. run' \in [Runners -> Run \cup {Idle}]
        BY <1>13, RunType DEF Crash
    <2> QED
        BY <1>13, <2>1 DEF Crash, TypeOK, tableVars
<1>14. CASE UNCHANGED vars
    BY <1>14 DEF vars, TypeOK
<1> QED
    BY <1>1, <1>2, <1>3, <1>4, <1>5, <1>6, <1>7, <1>8, <1>9, <1>10, <1>11,
       <1>12, <1>13, <1>14
    DEF Next, RunStep

\* Type correctness of the whole pipeline: attempts and pages stay in their
\* ranges, and whatever a run holds are sales that were made.
THEOREM EtlTypes == Spec => []TypeOK
    BY InitType, NextType, PTL DEF Spec

-----------------------------------------------------------------------------
(* What a run knows. *)

\* Nothing recorded so far is later than the clock.
ClockInv ==
    /\ \A i \in DOMAIN sales : sales[i].at <= now
    /\ \A row \in runLog : row.finishedAt <= now
    /\ \A r \in Runners : run[r].startedAt <= now

PastExtraction(r) ==
    run[r].phase \in {"postgres", "bigquery"} \/ run[r].status = "success"

PastLoad(r) == run[r].phase = "bigquery" \/ run[r].status = "success"

\* A run's cursor is none or the end of a successful run, it holds every sale
\* made between the cursor and its own start, and once it is loaded what it
\* holds has been processed.
RunSound(r) ==
    /\ \/ run[r].since = 0
       \/ \E row \in runLog :
             row.status = "success" /\ row.finishedAt = run[r].since
    /\ run[r].status = "success" => run[r].phase = "log"
    /\ PastExtraction(r) =>
          \A i \in DOMAIN sales :
              (run[r].since < sales[i].at /\ sales[i].at <= run[r].startedAt)
                  => i \in run[r].extracted
    /\ PastLoad(r) => run[r].extracted \subseteq processed

RunsInv == TypeOK /\ ClockInv /\ \A r \in Runners : RunSound(r)

\* No step takes back time, a sale, a log row or a committed load, and a new
\* sale is later than everything before it.
Onward ==
    /\ now <= now'
    /\ runLog \subseteq runLog'
    /\ processed \subseteq processed'
    /\ \A i \in DOMAIN sales' :
          \/ i \in DOMAIN sales /\ sales'[i] = sales[i]
          \/ sales'[i].at > now

LEMMA OnwardStep == TypeOK /\ [Next]_vars => Onward
<1> SUFFICES ASSUME TypeOK, [Next]_vars PROVE Onward
    OBVIOUS
<1>1. ASSUME NEW kind \in SaleKinds, Sell(kind) PROVE Onward
    <2>1. ASSUME NEW i \in DOMAIN sales'
          PROVE  \/ i \in DOMAIN sales /\ sales'[i] = sales[i]
                 \/ sales'[i].at > now
        BY <1>1 DEF Sell, TypeOK
    <2> QED
        BY <1>1, <2>1 DEF Sell, Onward, TypeOK, tableVars
<1>2. ASSUME NEW r \in Runners, StartRun(r) PROVE Onward
    BY <1>2 DEF StartRun, Onward, TypeOK, tableVars
<1>3. ASSUME NEW r \in Runners, LoadPostgres(r) PROVE Onward
    BY <1>3 DEF LoadPostgres, Onward, TypeOK
<1>4. ASSUME NEW r \in Runners, SaveRunLog(r) PROVE Onward
    BY <1>4 DEF SaveRunLog, Onward, TypeOK, tableVars
<1>5. CASE UNCHANGED <<now, sales, runLog, processed>>
    BY <1>5 DEF Onward, TypeOK
<1> QED
    BY <1>1, <1>2, <1>3, <1>4, <1>5
    DEF Next, RunStep, ReadCursor, RequestRetried, ExtractFails, EventsPage,
        LastEventsPage, SalesPage, LoadPostgresFails, LoadBigQuery, Crash,
        vars, tableVars

\* One runner's record changes, the others stay.
LEMMA RunUpdate ==
    ASSUME TypeOK, NEW q \in Runners, NEW d, run' = [run EXCEPT ![q] = d]
    PROVE  run'[q] = d /\ \A r \in Runners \ {q} : run'[r] = run[r]
    BY DEF TypeOK

LEMMA SaleTimes ==
    ASSUME TypeOK, NEW i \in DOMAIN sales
    PROVE  sales[i].at \in Nat \ {0}
<1>1. sales[i] \in Sale
    BY DEF TypeOK
<1> QED
    BY <1>1 DEF Sale

\* Which locals of a run its steps leave alone.
LEMMA LocalsKept ==
    ASSUME TypeOK, NEW q \in Runners, RunStep(q), ~SaveRunLog(q)
    PROVE  /\ run'[q].startedAt = run[q].startedAt
           /\ ReadCursor(q) \/ run'[q].since = run[q].since
           /\ SalesPage(q) \/ run'[q].extracted = run[q].extracted
           /\ LoadBigQuery(q) \/ run'[q].status = run[q].status
           /\ \A r \in Runners \ {q} : run'[r] = run[r]
<1>1. CASE ReadCursor(q)
    <2>1. PICK since \in {row.finishedAt : row \in runLog} \cup {0},
               logReady \in BOOLEAN :
               run' = [run EXCEPT ![q].phase = "events", ![q].since = since,
                                  ![q].logReady = logReady]
        BY <1>1 DEF ReadCursor
    <2>2. run' = [run EXCEPT ![q] = [run[q] EXCEPT !.phase = "events",
                      !.since = since, !.logReady = logReady]]
        BY <2>1
    <2>3. run[q] \in Run
        BY <1>1, BusyRun DEF ReadCursor
    <2> QED
        BY <1>1, <2>2, <2>3, RunUpdate DEF Run
<1>2. CASE RequestRetried(q)
    <2>1. run[q] \in Run
        BY <1>2, BusyRun DEF RequestRetried, Extracting
    <2>2. run' = [run EXCEPT ![q] =
              [run[q] EXCEPT !.attempt = run[q].attempt + 1]]
        BY <1>2 DEF RequestRetried
    <2> QED
        BY <2>1, <2>2, RunUpdate DEF Run
<1>3. CASE ExtractFails(q)
    <2>1. run[q] \in Run
        BY <1>3, BusyRun DEF ExtractFails, Extracting
    <2>2. run' = [run EXCEPT ![q] =
              [run[q] EXCEPT !.phase = "log", !.page = 1, !.attempt = 1]]
        BY <1>3 DEF ExtractFails
    <2> QED
        BY <2>1, <2>2, RunUpdate DEF Run
<1>4. CASE EventsPage(q)
    <2>1. run[q] \in Run
        BY <1>4, BusyRun DEF EventsPage
    <2>2. run' = [run EXCEPT ![q] =
              [run[q] EXCEPT !.page = run[q].page + 1, !.attempt = 1]]
        BY <1>4 DEF EventsPage, NextPage
    <2> QED
        BY <2>1, <2>2, RunUpdate DEF Run
<1>5. CASE LastEventsPage(q)
    <2>1. run[q] \in Run
        BY <1>5, BusyRun DEF LastEventsPage
    <2>2. run' = [run EXCEPT ![q] =
              [run[q] EXCEPT !.phase = "sales", !.page = 1, !.attempt = 1]]
        BY <1>5 DEF LastEventsPage
    <2> QED
        BY <2>1, <2>2, RunUpdate DEF Run
<1>6. CASE SalesPage(q)
    <2>1. run[q] \in Run
        BY <1>6, BusyRun DEF SalesPage
    <2>2. run' = [run EXCEPT ![q] =
              [run[q] EXCEPT !.phase = "postgres", !.attempt = 1,
                      !.extracted = SalesSince(run[q].since)]]
        BY <1>6 DEF SalesPage
    <2> QED
        BY <1>6, <2>1, <2>2, RunUpdate DEF Run
<1>7. CASE LoadPostgres(q)
    <2>1. run[q] \in Run
        BY <1>7, BusyRun DEF LoadPostgres
    <2>2. run' = [run EXCEPT ![q] =
              [run[q] EXCEPT !.phase = "bigquery"]]
        BY <1>7 DEF LoadPostgres
    <2> QED
        BY <2>1, <2>2, RunUpdate DEF Run
<1>8. CASE LoadPostgresFails(q)
    <2>1. run[q] \in Run
        BY <1>8, BusyRun DEF LoadPostgresFails
    <2>2. run' = [run EXCEPT ![q] =
              [run[q] EXCEPT !.phase = "log"]]
        BY <1>8 DEF LoadPostgresFails, AfterFailedLoad
    <2> QED
        BY <2>1, <2>2, RunUpdate DEF Run
<1>9. CASE LoadBigQuery(q)
    <2>1. run[q] \in Run
        BY <1>9, BusyRun DEF LoadBigQuery
    <2>2. run' = [run EXCEPT ![q] =
              [run[q] EXCEPT !.phase = "log", !.status = "success"]]
        BY <1>9 DEF LoadBigQuery
    <2> QED
        BY <1>9, <2>1, <2>2, RunUpdate DEF Run
<1> QED
    BY <1>1, <1>2, <1>3, <1>4, <1>5, <1>6, <1>7, <1>8, <1>9 DEF RunStep

\* No step gives a run a start later than the clock.
LEMMA RunOfStep ==
    ASSUME TypeOK, ClockInv, [Next]_vars, NEW r \in Runners
    PROVE  run'[r].startedAt <= now'
<1>1. run[r].startedAt <= now /\ now \in Nat /\ now' \in Nat /\ now <= now'
    BY NextType, OnwardStep DEF ClockInv, TypeOK, Onward
<1>2. run[r].startedAt \in Nat
    BY BusyRun DEF Run, Idle, TypeOK
<1>3. CASE run'[r].startedAt = run[r].startedAt
    BY <1>1, <1>2, <1>3
<1>4. ASSUME NEW q \in Runners, StartRun(q)
      PROVE  run'[r].startedAt \in {run[r].startedAt, now'}
    BY <1>4 DEF StartRun, Idle, TypeOK
<1>5. ASSUME NEW q \in Runners, SaveRunLog(q) \/ Crash(q)
      PROVE  run'[r].startedAt \in {run[r].startedAt, 0}
    BY <1>5 DEF SaveRunLog, Crash, Idle, TypeOK
<1>6. ASSUME NEW q \in Runners, RunStep(q), ~SaveRunLog(q)
      PROVE  run'[r].startedAt = run[r].startedAt
    BY <1>6, LocalsKept
<1>7. CASE UNCHANGED run
    BY <1>3, <1>7
<1>8. PICK t \in {run[r].startedAt, now', 0} : run'[r].startedAt = t
    BY <1>4, <1>5, <1>6, <1>7 DEF Next, Sell, vars
<1> QED
    BY <1>1, <1>2, <1>8

\* The clock stays ahead of every timestamp.
LEMMA NextClock == TypeOK /\ ClockInv /\ [Next]_vars => ClockInv'
<1> SUFFICES ASSUME TypeOK, ClockInv, [Next]_vars PROVE ClockInv'
    OBVIOUS
<1>1. TypeOK' /\ Onward
    BY NextType, OnwardStep
<1>2. now \in Nat /\ now' \in Nat /\ now <= now'
    BY <1>1 DEF TypeOK, Onward
<1>3. ASSUME NEW i \in DOMAIN sales' PROVE sales'[i].at <= now'
    <2>1. CASE i \in DOMAIN sales /\ sales'[i] = sales[i]
        BY <1>2, <2>1, SaleTimes DEF ClockInv
    <2>2. CASE \E kind \in SaleKinds : Sell(kind)
        <3>1. PICK kind \in SaleKinds : Sell(kind)
            BY <2>2
        <3>2. now' = now + 1 /\ Len(sales') = Len(sales) + 1
              /\ sales'[Len(sales) + 1].at = now'
            BY <3>1 DEF Sell, TypeOK
        <3>3. CASE i = Len(sales) + 1
            BY <1>2, <3>2, <3>3
        <3>4. CASE i # Len(sales) + 1
            BY <2>1, <3>1, <3>2, <3>4, <1>1 DEF Sell, TypeOK
        <3> QED
            BY <3>3, <3>4
    <2>3. CASE UNCHANGED sales
        BY <2>1, <2>3
    <2> QED
        BY <2>2, <2>3
        DEF Next, RunStep, StartRun, ReadCursor, RequestRetried, ExtractFails,
            EventsPage, LastEventsPage, SalesPage, LoadPostgres,
            LoadPostgresFails, LoadBigQuery, SaveRunLog, Crash, vars
<1>4. ASSUME NEW row \in runLog' PROVE row.finishedAt <= now'
    <2>1. CASE row \in runLog
        BY <1>1, <2>1 DEF ClockInv, Onward, TypeOK, LogRow
    <2>2. CASE \E r \in Runners : SaveRunLog(r)
        BY <2>1, <2>2, <1>1 DEF SaveRunLog, TypeOK
    <2> QED
        BY <2>1, <2>2
        DEF Next, RunStep, Sell, StartRun, ReadCursor, RequestRetried,
            ExtractFails, EventsPage, LastEventsPage, SalesPage, LoadPostgres,
            LoadPostgresFails, LoadBigQuery, Crash, vars
<1> QED
    BY <1>3, <1>4, RunOfStep DEF ClockInv

\* What a run knows stays true when others take steps.
LEMMA KeptSound ==
    ASSUME TypeOK, TypeOK', ClockInv, Onward, NEW r \in Runners, RunSound(r),
           run'[r] = run[r]
    PROVE  RunSound(r)'
<1>1. ASSUME NEW i \in DOMAIN sales', sales'[i].at <= run[r].startedAt
      PROVE  i \in DOMAIN sales /\ sales'[i] = sales[i]
    <2>1. run[r].startedAt <= now /\ run[r].startedAt \in Nat /\ now \in Nat
        BY BusyRun DEF ClockInv, Run, Idle, TypeOK
    <2>2. sales'[i] \in Sale
        BY <1>1 DEF TypeOK
    <2>3. sales'[i].at \in Nat
        BY <2>2 DEF Sale
    <2> QED
        BY <1>1, <2>1, <2>3 DEF Onward
<1>2. (\E row \in runLog : row.status = "success" /\ row.finishedAt = run[r].since)
        => (\E row \in runLog' :
                row.status = "success" /\ row.finishedAt = run'[r].since)
    BY DEF Onward
<1>3. ASSUME PastExtraction(r)', NEW i \in DOMAIN sales',
             run'[r].since < sales'[i].at, sales'[i].at <= run'[r].startedAt
      PROVE  i \in run'[r].extracted
    BY <1>1, <1>3 DEF RunSound, PastExtraction
<1>4. PastLoad(r)' => run'[r].extracted \subseteq processed'
    BY DEF RunSound, PastLoad, Onward
<1> QED
    BY <1>2, <1>3, <1>4 DEF RunSound

\* An idle runner knows nothing, so nothing wrong.
LEMMA IdleSound ==
    ASSUME NEW r \in Runners, run'[r].since = 0, run'[r].status = "failed",
           run'[r].phase \in {"idle", "cursor"}
    PROVE  RunSound(r)'
    BY DEF RunSound, PastExtraction, PastLoad

\* A step of a run keeps what the run knows.
LEMMA OwnStepSound ==
    ASSUME TypeOK, TypeOK', ClockInv, Onward, NEW r \in Runners, RunSound(r),
           RunStep(r)
    PROVE  RunSound(r)'
<1>1. CASE ReadCursor(r)
    <2>1. PICK since \in {row.finishedAt : row \in runLog} \cup {0},
               logReady \in BOOLEAN :
               /\ since = 0 \/ (logReady /\ CursorIs(since))
               /\ run' = [run EXCEPT ![r].phase = "events", ![r].since = since,
                                     ![r].logReady = logReady]
        BY <1>1 DEF ReadCursor
    <2>2. run[r] \in Run /\ run[r].phase = "cursor"
        BY <1>1, BusyRun DEF ReadCursor
    <2>3. run' = [run EXCEPT ![r] = [run[r] EXCEPT !.phase = "events",
                      !.since = since, !.logReady = logReady]]
        BY <2>1
    <2>4. run'[r] = [run[r] EXCEPT !.phase = "events",
                      !.since = since, !.logReady = logReady]
        BY <2>3, RunUpdate
    <2>5. run[r].status = "failed"
        BY <2>2 DEF RunSound, Run
    <2>6. /\ run'[r].phase = "events" /\ run'[r].since = since
          /\ run'[r].status = "failed"
        BY <2>2, <2>4, <2>5 DEF Run
    <2>7. \/ since = 0
          \/ \E row \in runLog : row.status = "success" /\ row.finishedAt = since
        BY <2>1 DEF CursorIs, CursorRows
    <2>8. runLog' = runLog
        BY <1>1 DEF ReadCursor
    <2> QED
        BY <2>6, <2>7, <2>8 DEF RunSound, PastExtraction, PastLoad
<1>2. ASSUME run[r] \in Run, run[r].phase # "log", UNCHANGED runLog,
             run'[r].since = run[r].since, run'[r].status = run[r].status,
             run'[r].phase \notin {"postgres", "bigquery"}
      PROVE  RunSound(r)'
    <2>1. run'[r].status = "failed"
        BY <1>2 DEF RunSound, Run
    <2> QED
        BY <1>2, <2>1 DEF RunSound, PastExtraction, PastLoad
<1>3. CASE RequestRetried(r)
    <2>1. run[r] \in Run /\ run[r].phase \in {"events", "sales"}
        BY <1>3, BusyRun DEF RequestRetried, Extracting
    <2>2. run' = [run EXCEPT ![r] =
                     [run[r] EXCEPT !.attempt = run[r].attempt + 1]]
        BY <1>3 DEF RequestRetried
    <2>3. run'[r] =
                     [run[r] EXCEPT !.attempt = run[r].attempt + 1]
        BY <2>2, RunUpdate
    <2>4. /\ run'[r].since = run[r].since /\ run'[r].status = run[r].status
          /\ run'[r].phase \notin {"postgres", "bigquery"}
        BY <2>1, <2>3 DEF Run
    <2> QED
        BY <1>2, <1>3, <2>1, <2>4 DEF RequestRetried
<1>4. CASE ExtractFails(r)
    <2>1. run[r] \in Run /\ run[r].phase \in {"events", "sales"}
        BY <1>4, BusyRun DEF ExtractFails, Extracting
    <2>2. run' = [run EXCEPT ![r] =
              [run[r] EXCEPT !.phase = "log", !.page = 1, !.attempt = 1]]
        BY <1>4 DEF ExtractFails
    <2>3. run'[r] =
              [run[r] EXCEPT !.phase = "log", !.page = 1, !.attempt = 1]
        BY <2>2, RunUpdate
    <2>4. /\ run'[r].since = run[r].since /\ run'[r].status = run[r].status
          /\ run'[r].phase \notin {"postgres", "bigquery"}
        BY <2>1, <2>3 DEF Run
    <2> QED
        BY <1>2, <1>4, <2>1, <2>4 DEF ExtractFails
<1>5. CASE EventsPage(r)
    <2>1. run[r] \in Run /\ run[r].phase = "events"
        BY <1>5, BusyRun DEF EventsPage
    <2>2. run' = [run EXCEPT ![r] =
              [run[r] EXCEPT !.page = run[r].page + 1, !.attempt = 1]]
        BY <1>5 DEF EventsPage, NextPage
    <2>3. run'[r] =
              [run[r] EXCEPT !.page = run[r].page + 1, !.attempt = 1]
        BY <2>2, RunUpdate
    <2>4. /\ run'[r].since = run[r].since /\ run'[r].status = run[r].status
          /\ run'[r].phase \notin {"postgres", "bigquery"}
        BY <2>1, <2>3 DEF Run
    <2> QED
        BY <1>2, <1>5, <2>1, <2>4 DEF EventsPage
<1>6. CASE LastEventsPage(r)
    <2>1. run[r] \in Run /\ run[r].phase = "events"
        BY <1>6, BusyRun DEF LastEventsPage
    <2>2. run' = [run EXCEPT ![r] =
              [run[r] EXCEPT !.phase = "sales", !.page = 1, !.attempt = 1]]
        BY <1>6 DEF LastEventsPage
    <2>3. run'[r] =
              [run[r] EXCEPT !.phase = "sales", !.page = 1, !.attempt = 1]
        BY <2>2, RunUpdate
    <2>4. /\ run'[r].since = run[r].since /\ run'[r].status = run[r].status
          /\ run'[r].phase \notin {"postgres", "bigquery"}
        BY <2>1, <2>3 DEF Run
    <2> QED
        BY <1>2, <1>6, <2>1, <2>4 DEF LastEventsPage
<1>7. CASE SalesPage(r)
    <2>1. run[r] \in Run /\ run[r].phase = "sales" /\ UNCHANGED <<sales, runLog>>
        BY <1>7, BusyRun DEF SalesPage
    <2>2. run' = [run EXCEPT ![r] =
              [run[r] EXCEPT !.phase = "postgres", !.attempt = 1,
                             !.extracted = SalesSince(run[r].since)]]
        BY <1>7 DEF SalesPage
    <2>3. run'[r] =
              [run[r] EXCEPT !.phase = "postgres", !.attempt = 1,
                             !.extracted = SalesSince(run[r].since)]
        BY <2>2, RunUpdate
    <2>4. run[r].status = "failed"
        BY <2>1 DEF RunSound, Run
    <2>5. /\ run'[r].phase = "postgres" /\ run'[r].since = run[r].since
          /\ run'[r].status = "failed"
          /\ run'[r].extracted = SalesSince(run[r].since)
        BY <2>1, <2>3, <2>4 DEF Run
    <2>6. ASSUME NEW i \in DOMAIN sales, run[r].since < sales[i].at
          PROVE  i \in run'[r].extracted
        BY <2>1, <2>5, <2>6, SaleTimes DEF SalesSince, Run
    <2> QED
        BY <2>1, <2>5, <2>6 DEF RunSound, PastLoad
<1>8. CASE LoadPostgres(r)
    <2>1. run[r] \in Run /\ run[r].phase = "postgres" /\ UNCHANGED <<sales, runLog>>
        BY <1>8, BusyRun DEF LoadPostgres
    <2>2. run' = [run EXCEPT ![r] = [run[r] EXCEPT !.phase = "bigquery"]]
        BY <1>8 DEF LoadPostgres
    <2>3. run'[r] = [run[r] EXCEPT !.phase = "bigquery"]
        BY <2>2, RunUpdate
    <2>4. /\ run'[r].phase = "bigquery" /\ run'[r].since = run[r].since
          /\ run'[r].status = run[r].status
          /\ run'[r].startedAt = run[r].startedAt
          /\ run'[r].extracted = run[r].extracted
        BY <2>1, <2>3 DEF Run
    <2>5. run'[r].extracted \subseteq processed'
        BY <1>8, <2>4 DEF LoadPostgres
    <2> QED
        BY <2>1, <2>4, <2>5 DEF RunSound, PastExtraction
<1>9. CASE LoadPostgresFails(r)
    <2>1. run[r] \in Run /\ run[r].phase = "postgres"
        BY <1>9, BusyRun DEF LoadPostgresFails
    <2>2. run' = [run EXCEPT ![r] = [run[r] EXCEPT !.phase = "log"]]
        BY <1>9 DEF LoadPostgresFails, AfterFailedLoad
    <2>3. run'[r] = [run[r] EXCEPT !.phase = "log"]
        BY <2>2, RunUpdate
    <2>4. /\ run'[r].since = run[r].since /\ run'[r].status = run[r].status
          /\ run'[r].phase \notin {"postgres", "bigquery"}
        BY <2>1, <2>3 DEF Run
    <2> QED
        BY <1>2, <1>9, <2>1, <2>4 DEF LoadPostgresFails
<1>10. CASE LoadBigQuery(r)
    <2>1. run[r] \in Run /\ run[r].phase = "bigquery"
          /\ UNCHANGED <<sales, runLog, processed>>
        BY <1>10, BusyRun DEF LoadBigQuery, tableVars
    <2>2. run' = [run EXCEPT ![r] =
              [run[r] EXCEPT !.phase = "log", !.status = "success"]]
        BY <1>10 DEF LoadBigQuery
    <2>3. run'[r] =
              [run[r] EXCEPT !.phase = "log", !.status = "success"]
        BY <2>2, RunUpdate
    <2>4. /\ run'[r].phase = "log" /\ run'[r].since = run[r].since
          /\ run'[r].startedAt = run[r].startedAt
          /\ run'[r].extracted = run[r].extracted
        BY <2>1, <2>3 DEF Run
    <2> QED
        BY <2>1, <2>4 DEF RunSound, PastExtraction, PastLoad
<1>11. CASE SaveRunLog(r)
    BY <1>11, IdleSound DEF SaveRunLog, Idle, TypeOK
<1> QED
    BY <1>1, <1>3, <1>4, <1>5, <1>6, <1>7, <1>8, <1>9, <1>10, <1>11 DEF RunStep

LEMMA RunsInit == Init => RunsInv
    BY InitType DEF Init, RunsInv, ClockInv, RunSound, PastExtraction, PastLoad,
       Idle

LEMMA RunsNext == RunsInv /\ [Next]_vars => RunsInv'
<1> SUFFICES ASSUME RunsInv, [Next]_vars PROVE RunsInv'
    OBVIOUS
<1>1. /\ TypeOK /\ TypeOK' /\ ClockInv /\ ClockInv' /\ Onward
      /\ \A r \in Runners : RunSound(r)
    BY NextType, NextClock, OnwardStep DEF RunsInv
<1>2. ASSUME NEW r \in Runners PROVE RunSound(r)'
    <2>1. CASE run'[r] = run[r]
        BY <1>1, <2>1, KeptSound
    <2>2. CASE RunStep(r)
        BY <1>1, <2>2, OwnStepSound
    <2>3. CASE StartRun(r)
        <3>1. run'[r] = [Idle EXCEPT !.phase = "cursor", !.startedAt = now']
            BY <1>1, <2>3, RunUpdate DEF StartRun
        <3>2. /\ run'[r].since = 0 /\ run'[r].status = "failed"
              /\ run'[r].phase = "cursor"
            BY <3>1 DEF Idle
        <3> QED
            BY <3>2, IdleSound
    <2>4. CASE Crash(r)
        BY <1>1, <2>4, IdleSound DEF Crash, Idle, TypeOK
    <2>5. ASSUME NEW q \in Runners \ {r}, RunStep(q) \/ StartRun(q) \/ Crash(q)
          PROVE  run'[r] = run[r]
        <3>1. CASE RunStep(q) /\ ~SaveRunLog(q)
            BY <1>1, <3>1, LocalsKept
        <3>2. CASE SaveRunLog(q) \/ StartRun(q) \/ Crash(q)
            BY <1>1, <3>2, RunUpdate DEF SaveRunLog, StartRun, Crash
        <3> QED
            BY <2>5, <3>1, <3>2
    <2>6. CASE UNCHANGED run
        BY <2>1, <2>6
    <2> QED
        BY <2>1, <2>2, <2>3, <2>4, <2>5, <2>6 DEF Next, Sell, vars
<1> QED
    BY <1>1, <1>2 DEF RunsInv

-----------------------------------------------------------------------------
(* The cursor. *)

\* What the cursor has passed was loaded or fell into a successful run.
LEMMA CursorNext ==
    RunsInv /\ SkippedSalesFellInRuns /\ [Next]_vars => SkippedSalesFellInRuns'
<1> SUFFICES ASSUME RunsInv, SkippedSalesFellInRuns, [Next]_vars,
                    NEW row \in runLog', row.status = "success",
                    NEW i \in DOMAIN sales', sales'[i].at <= row.finishedAt
             PROVE  \/ i \in processed'
                    \/ \E w \in runLog' :
                          /\ w.status = "success"
                          /\ w.startedAt <= sales'[i].at
                          /\ sales'[i].at <= w.finishedAt
    BY DEF SkippedSalesFellInRuns
<1>1. TypeOK /\ TypeOK' /\ ClockInv /\ Onward
    BY NextType, OnwardStep DEF RunsInv
<1>2. sales'[i].at \in Nat \ {0} /\ row.finishedAt \in Nat /\ now \in Nat
    <2>1. sales'[i] \in Sale /\ row \in LogRow
        BY <1>1 DEF TypeOK
    <2> QED
        BY <1>1, <2>1 DEF TypeOK, Sale, LogRow
<1>3. ASSUME NEW old \in runLog, old.status = "success",
             sales'[i].at <= old.finishedAt
      PROVE  \/ i \in processed'
             \/ \E w \in runLog' :
                   /\ w.status = "success"
                   /\ w.startedAt <= sales'[i].at
                   /\ sales'[i].at <= w.finishedAt
    <2>1. old.finishedAt <= now /\ old.finishedAt \in Nat
        BY <1>1 DEF ClockInv, TypeOK, LogRow
    <2>2. i \in DOMAIN sales /\ sales'[i] = sales[i]
        BY <1>1, <1>2, <1>3, <2>1 DEF Onward
    <2> QED
        BY <1>1, <1>3, <2>2 DEF SkippedSalesFellInRuns, Onward
<1>4. CASE row \in runLog
    BY <1>3, <1>4
<1>5. ASSUME NEW r \in Runners, SaveRunLog(r), row \notin runLog
      PROVE  \/ i \in processed'
             \/ \E w \in runLog' :
                   /\ w.status = "success"
                   /\ w.startedAt <= sales'[i].at
                   /\ sales'[i].at <= w.finishedAt
    <2>1. /\ row.startedAt = run[r].startedAt /\ run[r].status = "success"
          /\ sales' = sales /\ processed' = processed
        BY <1>5 DEF SaveRunLog, tableVars
    <2>2. run[r].startedAt \in Nat /\ run[r].since \in Nat
        BY <1>1, <1>5, BusyRun DEF SaveRunLog, Run
    <2>3. RunSound(r)
        BY DEF RunsInv
    <2>4. CASE run[r].startedAt <= sales[i].at
        BY <2>1, <2>4
    <2>5. CASE run[r].since < sales[i].at /\ sales[i].at <= run[r].startedAt
        BY <2>1, <2>3, <2>5 DEF RunSound, PastExtraction, PastLoad
    <2>6. CASE sales[i].at <= run[r].since
        <3>1. PICK old \in runLog :
                  old.status = "success" /\ old.finishedAt = run[r].since
            BY <1>2, <2>1, <2>3, <2>6 DEF RunSound
        <3> QED
            BY <1>3, <2>1, <2>6, <3>1
    <2> QED
        BY <1>2, <2>1, <2>2, <2>4, <2>5, <2>6
<1> QED
    BY <1>4, <1>5
    DEF Next, RunStep, Sell, StartRun, ReadCursor, RequestRetried, ExtractFails,
        EventsPage, LastEventsPage, SalesPage, LoadPostgres, LoadPostgresFails,
        LoadBigQuery, Crash, vars

\* The incremental cursor never passes a sale that was neither loaded nor made
\* while a successful run was under way (run_etl_once, _load_last_successful_cursor).
THEOREM EtlCursor == Spec => []SkippedSalesFellInRuns
<1>1. Init => SkippedSalesFellInRuns
    BY DEF Init, SkippedSalesFellInRuns
<1> QED
    BY <1>1, RunsInit, RunsNext, CursorNext, PTL DEF Spec

-----------------------------------------------------------------------------
(* The tables. *)

\* However runs fail, overlap and repeat, the two Postgres tables count a sale at
\* most once (load_postgres).
THEOREM EtlCounts == Spec => []NeverCountedTwice
<1>1. Init => NeverCountedTwice
    BY DEF Init, NeverCountedTwice, Nothing
<1>2. TypeOK /\ NeverCountedTwice /\ [Next]_vars => NeverCountedTwice'
    <2> SUFFICES ASSUME TypeOK, NeverCountedTwice, [Next]_vars
                 PROVE  NeverCountedTwice'
        OBVIOUS
    <2>1. ASSUME NEW r \in Runners, LoadPostgres(r) PROVE NeverCountedTwice'
        <3>1. \A e \in Events : \A i \in SaleIds : summary'[e][i] <= 1
            BY <2>1 DEF LoadPostgres, Upserted, Once, NeverCountedTwice
        <3>2. \A k \in Events \X Days : \A i \in SaleIds : daily'[k][i] <= 1
            BY <2>1 DEF LoadPostgres, DailyUpserted, Once, NeverCountedTwice
        <3> QED
            BY <3>1, <3>2 DEF NeverCountedTwice
    <2>2. CASE UNCHANGED <<summary, daily>>
        BY <2>2 DEF NeverCountedTwice
    <2> QED
        BY <2>1, <2>2
        DEF Next, RunStep, Sell, StartRun, ReadCursor, RequestRetried,
            ExtractFails, EventsPage, LastEventsPage, SalesPage,
            LoadPostgresFails, LoadBigQuery, SaveRunLog, Crash, vars, tableVars
<1> QED
    BY <1>1, <1>2, InitType, NextType, PTL DEF Spec

\* BigQuery receives only sales that a committed load put into Postgres
\* (run_etl_once streams after load_postgres, never instead of it).
THEOREM EtlBigQuery == Spec => []BigQueryFollowsPostgres
<1>1. Init => BigQueryFollowsPostgres
    BY DEF Init, BigQueryFollowsPostgres, Nothing
<1>2. RunsInv /\ BigQueryFollowsPostgres /\ [Next]_vars => BigQueryFollowsPostgres'
    <2> SUFFICES ASSUME RunsInv, BigQueryFollowsPostgres, [Next]_vars,
                        NEW t \in Tables, NEW i \in SaleIds, bigQuery'[t][i] > 0
                 PROVE  i \in processed'
        BY DEF BigQueryFollowsPostgres
    <2>1. TypeOK /\ processed \subseteq processed'
        BY OnwardStep DEF RunsInv, Onward
    <2>2. CASE UNCHANGED bigQuery
        BY <2>1, <2>2 DEF BigQueryFollowsPostgres
    <2>3. ASSUME NEW r \in Runners, LoadBigQuery(r) PROVE i \in processed'
        <3>1. run[r].extracted \subseteq processed
            BY <2>3 DEF RunsInv, RunSound, PastLoad, LoadBigQuery
        <3>2. PICK landed \in SUBSET Tables :
                  bigQuery' = [u \in Tables |->
                      IF u \in landed
                      THEN UpsertAdding(bigQuery[u], Once(ValidSales(r, u)))
                      ELSE bigQuery[u]]
            BY <2>3 DEF LoadBigQuery
        <3>3. CASE t \in landed
            <4>1. bigQuery'[t][i] = bigQuery[t][i] + Once(ValidSales(r, t))[i]
                BY <3>2, <3>3 DEF UpsertAdding
            <4>2. i \in ValidSales(r, t) \/ bigQuery[t][i] > 0
                BY <2>1, <4>1 DEF Once, TypeOK, Counts
            <4> QED
                BY <2>1, <3>1, <4>2 DEF ValidSales, BigQueryFollowsPostgres
        <3>4. CASE t \notin landed
            BY <2>1, <3>2, <3>4 DEF BigQueryFollowsPostgres
        <3> QED
            BY <3>3, <3>4
    <2> QED
        BY <2>2, <2>3
        DEF Next, RunStep, Sell, StartRun, ReadCursor, RequestRetried,
            ExtractFails, EventsPage, LastEventsPage, SalesPage, LoadPostgres,
            LoadPostgresFails, SaveRunLog, Crash, vars
<1> QED
    BY <1>1, <1>2, RunsInit, RunsNext, PTL DEF Spec

-----------------------------------------------------------------------------
(* The promise to the readers of the tables. *)

\* What a run holds are sales that were made.
ExtractedExist == \A r \in Runners : run[r].extracted \subseteq DOMAIN sales

\* Sales only grow, and each keeps its data.
LEMMA SalesGrow ==
    ASSUME TypeOK, NEW kind \in SaleKinds, Sell(kind)
    PROVE  Promise!Sell /\ DOMAIN sales \subseteq DOMAIN sales'
<1> DEFINE new == [event |-> kind.event, day |-> kind.day,
                   quantity |-> kind.quantity, amount |-> kind.amount, at |-> now']
<1>1. sales \in Seq(Sale) /\ new \in Sale
    BY NextType, KindsAssumption DEF Sell, TypeOK, Sale
<1>2. sales' = Append(sales, new)
    BY DEF Sell
<1> HIDE DEF new
<1>3. /\ Len(sales') = Len(sales) + 1
      /\ \A i \in 1..Len(sales) : sales'[i] = sales[i]
      /\ DOMAIN sales = 1..Len(sales) /\ DOMAIN sales' = 1..Len(sales')
      /\ Len(sales) \in Nat
    BY <1>1, <1>2
<1>4. UNCHANGED <<CountedByEvent, CountedByDay>>
    BY DEF Sell, tableVars, CountedByEvent, CountedByDay
<1> QED
    BY <1>3, <1>4 DEF Promise!Sell

LEMMA ExtractedInit == Init => ExtractedExist
    BY DEF Init, ExtractedExist, Idle

LEMMA ExtractedNext ==
    TypeOK /\ ExtractedExist /\ [Next]_vars => ExtractedExist'
<1> SUFFICES ASSUME TypeOK, ExtractedExist, [Next]_vars PROVE ExtractedExist'
    OBVIOUS
<1>1. ASSUME NEW kind \in SaleKinds, Sell(kind) PROVE ExtractedExist'
    <2>1. run' = run /\ DOMAIN sales \subseteq DOMAIN sales'
        BY <1>1, SalesGrow DEF Sell
    <2> QED
        BY <2>1 DEF ExtractedExist
<1>2. ASSUME NEW q \in Runners, StartRun(q) PROVE ExtractedExist'
    <2>1. run'[q].extracted = {} /\ \A r \in Runners \ {q} : run'[r] = run[r]
        BY <1>2, RunUpdate DEF StartRun, Idle, TypeOK
    <2> QED
        BY <1>2, <2>1 DEF ExtractedExist, StartRun
<1>3. ASSUME NEW q \in Runners, SaveRunLog(q) \/ Crash(q) PROVE ExtractedExist'
    <2>1. run'[q].extracted = {} /\ \A r \in Runners \ {q} : run'[r] = run[r]
        BY <1>3, RunUpdate DEF SaveRunLog, Crash, Idle
    <2> QED
        BY <1>3, <2>1 DEF ExtractedExist, SaveRunLog, Crash
<1>4. ASSUME NEW q \in Runners, RunStep(q), ~SaveRunLog(q) PROVE ExtractedExist'
    <2>1. /\ SalesPage(q) \/ run'[q].extracted = run[q].extracted
          /\ \A r \in Runners \ {q} : run'[r] = run[r]
        BY <1>4, LocalsKept
    <2>2. sales' = sales
        BY <1>4 DEF RunStep, ReadCursor, RequestRetried, ExtractFails, EventsPage,
            LastEventsPage, SalesPage, LoadPostgres, LoadPostgresFails, LoadBigQuery
    <2>3. CASE SalesPage(q)
        <3>1. run[q] \in Run
            BY <2>3, BusyRun DEF SalesPage
        <3>2. run' = [run EXCEPT ![q] =
                  [run[q] EXCEPT !.phase = "postgres", !.attempt = 1,
                          !.extracted = SalesSince(run[q].since)]]
            BY <2>3 DEF SalesPage
        <3>3. run'[q] = [run[q] EXCEPT !.phase = "postgres", !.attempt = 1,
                          !.extracted = SalesSince(run[q].since)]
            BY <3>2, RunUpdate
        <3>4. run'[q].extracted = SalesSince(run[q].since)
            BY <3>1, <3>3 DEF Run
        <3>5. SalesSince(run[q].since) \subseteq DOMAIN sales
            BY DEF SalesSince
        <3> QED
            BY <2>1, <2>2, <3>5, <3>4 DEF ExtractedExist
    <2>4. CASE run'[q].extracted = run[q].extracted
        BY <2>1, <2>2, <2>4 DEF ExtractedExist
    <2> QED
        BY <2>1, <2>3, <2>4
<1>5. CASE UNCHANGED vars
    BY <1>5 DEF ExtractedExist, vars
<1> QED
    BY <1>1, <1>2, <1>3, <1>4, <1>5 DEF Next

\* The aggregates and the validity of rows are the promise's.
LEMMA SameAggregates ==
    ASSUME NEW r \in Runners
    PROVE  /\ \A e : EventSales(r, e) = Promise!EventSales(run[r].extracted, e)
           /\ \A k : DailySales(r, k) = Promise!DailySales(run[r].extracted, k)
           /\ \A e : ValidEventRow(r, e)
                       = Promise!ValidEventRow(run[r].extracted, e)
           /\ \A k : ValidDailyRow(r, k)
                       = Promise!ValidDailyRow(run[r].extracted, k)
<1>1. \A e : EventSales(r, e) = Promise!EventSales(run[r].extracted, e)
    BY DEF EventSales, Promise!EventSales
<1>2. \A k : DailySales(r, k) = Promise!DailySales(run[r].extracted, k)
    BY DEF DailySales, Promise!DailySales
<1>4. \A e : ValidEventRow(r, e) = Promise!ValidEventRow(run[r].extracted, e)
    BY <1>1 DEF ValidEventRow, Promise!ValidEventRow
<1>5. \A k : ValidDailyRow(r, k) = Promise!ValidDailyRow(run[r].extracted, k)
    BY <1>2 DEF ValidDailyRow, Promise!ValidDailyRow
<1> QED
    BY <1>1, <1>2, <1>4, <1>5

\* A committed load is one step of the promise.
LEMMA LoadKeepsPromise ==
    ASSUME TypeOK, ExtractedExist, NEW r \in Runners, LoadPostgres(r)
    PROVE  Promise!Load(run[r].extracted)
<1> DEFINE S == run[r].extracted
<1>1. S \subseteq DOMAIN sales /\ DOMAIN sales \subseteq SaleIds
    <2>1. DOMAIN sales = 1..Len(sales) /\ Len(sales) \in Nat /\ Len(sales) <= MaxSales
        BY DEF TypeOK
    <2> QED
        BY <2>1, BoundsAssumption DEF ExtractedExist, SaleIds
<1>2. ASSUME NEW T \in SUBSET S PROVE {i \in SaleIds : Once(T)[i] > 0} = T
    BY <1>1 DEF Once
<1>3. ASSUME NEW e \in Events
      PROVE  CountedByEvent'[e] = IF Promise!ValidEventRow(S, e)
                                  THEN Promise!EventSales(S, e) ELSE CountedByEvent[e]
    <2>1. EventSales(r, e) \subseteq S
        BY DEF EventSales
    <2>2. summary'[e] = IF ValidEventRow(r, e) THEN Once(EventSales(r, e)) ELSE summary[e]
        BY DEF LoadPostgres, Upserted
    <2>3. CountedByEvent'[e] = {i \in SaleIds : summary'[e][i] > 0}
        BY DEF CountedByEvent
    <2>4. CASE ValidEventRow(r, e)
        BY <1>2, <2>1, <2>2, <2>3, <2>4, SameAggregates
    <2>5. CASE ~ValidEventRow(r, e)
        BY <2>2, <2>3, <2>5, SameAggregates DEF CountedByEvent
    <2> QED
        BY <2>4, <2>5
<1>4. ASSUME NEW k \in Events \X Days
      PROVE  CountedByDay'[k] = IF Promise!ValidDailyRow(S, k)
                                THEN Promise!DailySales(S, k) ELSE CountedByDay[k]
    <2>1. DailySales(r, k) \subseteq S
        BY DEF DailySales
    <2>2. daily'[k] = IF ValidDailyRow(r, k) THEN Once(DailySales(r, k)) ELSE daily[k]
        BY DEF LoadPostgres, DailyUpserted
    <2>3. CountedByDay'[k] = {i \in SaleIds : daily'[k][i] > 0}
        BY DEF CountedByDay
    <2>4. CASE ValidDailyRow(r, k)
        BY <1>2, <2>1, <2>2, <2>3, <2>4, SameAggregates
    <2>5. CASE ~ValidDailyRow(r, k)
        BY <2>2, <2>3, <2>5, SameAggregates DEF CountedByDay
    <2> QED
        BY <2>4, <2>5
<1>5. CountedByEvent' = [e \in Events |-> IF Promise!ValidEventRow(S, e)
                            THEN Promise!EventSales(S, e) ELSE CountedByEvent[e]]
    BY <1>3 DEF CountedByEvent
<1>6. CountedByDay' = [k \in Events \X Days |-> IF Promise!ValidDailyRow(S, k)
                            THEN Promise!DailySales(S, k) ELSE CountedByDay[k]]
    BY <1>4 DEF CountedByDay
<1>7. sales' = sales
    BY DEF LoadPostgres
<1> QED
    BY <1>5, <1>6, <1>7 DEF Promise!Load

\* The steps by what they do to sales and the two tables.
LEMMA TablesFrame ==
    ASSUME [Next]_vars
    PROVE  \/ \E kind \in SaleKinds : Sell(kind)
           \/ \E r \in Runners : LoadPostgres(r)
           \/ UNCHANGED <<sales, summary, daily>>
    BY DEF Next, RunStep, StartRun, ReadCursor, RequestRetried, ExtractFails,
           EventsPage, LastEventsPage, SalesPage, LoadPostgresFails, LoadBigQuery,
           SaveRunLog, Crash, vars, tableVars

\* However runs overlap, fail and crash, readers of the two Postgres tables see nothing but
\* whole loads of one set of sales (load_postgres): the pipeline implements SalesTables.
THEOREM EtlKeepsPromise == Spec => TablesChangeTogether
<1>1. Init => Promise!Init
    BY DEF Init, Promise!Init, CountedByEvent, CountedByDay, Nothing
<1>2. TypeOK /\ ExtractedExist /\ [Next]_vars => [Promise!Next]_(Promise!tableVars)
    <2> SUFFICES ASSUME TypeOK, ExtractedExist, [Next]_vars
                 PROVE  Promise!Next \/ UNCHANGED Promise!tableVars
        OBVIOUS
    <2>1. ASSUME NEW kind \in SaleKinds, Sell(kind) PROVE Promise!Next
        BY <2>1, SalesGrow DEF Promise!Next
    <2>2. ASSUME NEW r \in Runners, LoadPostgres(r) PROVE Promise!Next
        <3>1. run[r].extracted \in SUBSET DOMAIN sales
            BY DEF ExtractedExist
        <3> QED
            BY <2>2, <3>1, LoadKeepsPromise DEF Promise!Next
    <2>3. CASE UNCHANGED <<sales, summary, daily>>
        BY <2>3 DEF Promise!tableVars, CountedByEvent, CountedByDay
    <2> QED
        BY <2>1, <2>2, <2>3, TablesFrame
<1> QED
    BY <1>1, <1>2, InitType, NextType, ExtractedInit, ExtractedNext, PTL
    DEF Spec, TablesChangeTogether, Promise!Spec

-----------------------------------------------------------------------------
(* Sums over finite sets. *)

\* A set of numbers has a smallest one.
LEMMA SmallestOf ==
    ASSUME NEW S \in SUBSET Nat, S # {}
    PROVE  \E n \in S : \A m \in S : n <= m
<1> DEFINE R == OpToRel(<, Nat)
<1>1. IsWellFoundedOn(R, Nat)
    BY NatLessThanWellFounded
<1>2. \A m, n \in Nat : <<m, n>> \in R <=> m < n
    BY DEF OpToRel
<1> HIDE DEF R
<1>3. PICK n \in S : \A m \in S : ~ (<<m, n>> \in R)
    BY <1>1, WFMin
<1>4. ASSUME NEW m \in S
      PROVE  n <= m
    <2>1. m \in Nat /\ n \in Nat
        BY <1>4
    <2>2. ~ (m < n)
        BY <1>2, <1>3, <1>4, <2>1
    <2> QED
        BY <2>1, <2>2
<1> QED
    BY <1>4

\* What a sum over s takes first.
First(s) == CHOOSE x \in s : TRUE

\* The sums of f over the subsets of S with at most n members: 0 for the empty
\* one, otherwise the first member's value and the sum of the rest.
UpTo(S, n) == {s \in SUBSET S : Cardinality(s) <= n}

IsSum(g, f, D) ==
    g = [s \in D |-> IF s = {} THEN 0 ELSE f[First(s)] + g[s \ {First(s)}]]

\* Taking one away.
LEMMA OneLess ==
    ASSUME NEW S, IsFiniteSet(S), NEW s \in SUBSET S, s # {}
    PROVE  /\ First(s) \in s
           /\ s \ {First(s)} \in SUBSET S
           /\ IsFiniteSet(s)
           /\ Cardinality(s) \in Nat \ {0}
           /\ Cardinality(s \ {First(s)}) = Cardinality(s) - 1
<1>1. First(s) \in s
    BY DEF First
<1>2. IsFiniteSet(s)
    BY FS_Subset
<1>3. Cardinality(s) \in Nat /\ Cardinality(s) # 0
    BY <1>2, FS_CardinalityType, FS_EmptySet
<1>4. Cardinality(s \ {First(s)}) = Cardinality(s) - 1
    BY <1>1, <1>2, FS_RemoveElement
<1> QED
    BY <1>1, <1>2, <1>3, <1>4

\* There are sums over all subsets of a finite set.
LEMMA SumsExist ==
    ASSUME NEW S, IsFiniteSet(S), NEW f
    PROVE  \E g : IsSum(g, f, SUBSET S)
<1> DEFINE bad == {n \in Nat : ~ \E g : IsSum(g, f, UpTo(S, n))}
<1>1. ASSUME bad # {}
      PROVE  FALSE
    <2>1. PICK n \in bad : \A m \in bad : n <= m
        <3>1. bad \in SUBSET Nat
            OBVIOUS
        <3> HIDE DEF bad
        <3> QED
            BY <1>1, <3>1, SmallestOf
    <2>2. n \in Nat
        OBVIOUS
    <2>3. CASE n = 0
        <3>1. ASSUME NEW s \in UpTo(S, 0)
              PROVE  s = {}
            <4>1. Cardinality(s) \in Nat /\ Cardinality(s) <= 0 /\ IsFiniteSet(s)
                BY <3>1, FS_Subset, FS_CardinalityType DEF UpTo
            <4>2. Cardinality(s) = 0
                BY <4>1
            <4> QED
                BY <4>1, <4>2, FS_EmptySet
        <3>2. IsSum([s \in UpTo(S, 0) |-> 0], f, UpTo(S, 0))
            BY <3>1 DEF IsSum
        <3> QED
            BY <2>1, <2>3, <3>2
    <2>4. CASE n # 0
        <3>1. n - 1 \in Nat /\ ~ (n - 1 \in bad)
            BY <2>1, <2>2, <2>4
        <3>2. PICK g : IsSum(g, f, UpTo(S, n - 1))
            BY <3>1
        <3> DEFINE h == [s \in UpTo(S, n) |->
                            IF s = {} THEN 0
                            ELSE f[First(s)] + g[s \ {First(s)}]]
        <3>3. ASSUME NEW s \in UpTo(S, n), s # {}
              PROVE  /\ s \ {First(s)} \in UpTo(S, n)
                     /\ s \ {First(s)} \in UpTo(S, n - 1)
            <4>1. Cardinality(s \ {First(s)}) = Cardinality(s) - 1 /\ Cardinality(s) \in Nat
                BY <3>3, OneLess DEF UpTo
            <4>2. Cardinality(s \ {First(s)}) <= n - 1 /\ Cardinality(s \ {First(s)}) <= n
                BY <2>2, <4>1 DEF UpTo
            <4> QED
                BY <4>2 DEF UpTo
        <3>4. ASSUME NEW s \in UpTo(S, n - 1)
              PROVE  s \in UpTo(S, n) /\ g[s] = h[s]
            <4>1. s \in UpTo(S, n)
                <5>1. Cardinality(s) \in Nat
                    BY FS_Subset, FS_CardinalityType DEF UpTo
                <5> QED
                    BY <2>2, <5>1 DEF UpTo
            <4>2. g[s] = IF s = {} THEN 0 ELSE f[First(s)] + g[s \ {First(s)}]
                BY <3>2 DEF IsSum
            <4> QED
                BY <4>1, <4>2
        <3>5. ASSUME NEW s \in UpTo(S, n)
              PROVE  h[s] = IF s = {} THEN 0 ELSE f[First(s)] + h[s \ {First(s)}]
            BY <3>3, <3>4
        <3>6. h = [s \in UpTo(S, n) |->
                      IF s = {} THEN 0 ELSE f[First(s)] + h[s \ {First(s)}]]
            <4>1. h = [s \in UpTo(S, n) |-> h[s]]
                OBVIOUS
            <4> HIDE DEF h
            <4> QED
                BY <3>5, <4>1
        <3>7. IsSum(h, f, UpTo(S, n))
            BY <3>6 DEF IsSum
        <3> QED
            BY <2>1, <3>7
    <2> QED
        BY <2>3, <2>4
<1>2. Cardinality(S) \in Nat
    BY FS_CardinalityType
<1>3. PICK g : IsSum(g, f, UpTo(S, Cardinality(S)))
    BY <1>1, <1>2
<1>4. UpTo(S, Cardinality(S)) = SUBSET S
    <2>1. ASSUME NEW s \in SUBSET S
          PROVE  Cardinality(s) <= Cardinality(S)
        BY FS_Subset
    <2> QED
        BY <2>1 DEF UpTo
<1> QED
    BY <1>3, <1>4

\* MapThenSumSet over a finite set is such a sum, of the values of a field.
LEMMA TotalIsSum ==
    ASSUME NEW t, NEW S, IsFiniteSet(S), NEW field, NEW f, \A i \in S : f[i] = t[i][field]
    PROVE  \E g : IsSum(g, f, SUBSET S) /\ TotalOf(t, S, field) = g[S]
<1> DEFINE Eq(g) == g = [s \in SUBSET S |->
              IF s = {} THEN 0 ELSE t[First(s)][field] + g[s \ {First(s)}]]
<1>1. TotalOf(t, S, field) = (CHOOSE g : Eq(g))[S]
    BY DEF TotalOf, MapThenSumSet, MapThenFoldSet, First
<1>2. ASSUME NEW g PROVE Eq(g) <=> IsSum(g, f, SUBSET S)
    <2>1. \A s \in SUBSET S : s # {} => f[First(s)] = t[First(s)][field]
        BY OneLess
    <2>2. [s \in SUBSET S |-> IF s = {} THEN 0
                              ELSE t[First(s)][field] + g[s \ {First(s)}]]
              = [s \in SUBSET S |-> IF s = {} THEN 0
                                    ELSE f[First(s)] + g[s \ {First(s)}]]
        BY <2>1
    <2> QED
        BY <2>2 DEF IsSum
<1>3. \E g : Eq(g)
    BY <1>2, SumsExist
<1> HIDE DEF Eq
<1>4. Eq(CHOOSE g : Eq(g))
    BY <1>3
<1> QED
    BY <1>1, <1>2, <1>4

\* Sums of counts are counts, and no less than any of what they add up.
LEMMA SumsBound ==
    ASSUME NEW S, IsFiniteSet(S), NEW f, \A i \in S : f[i] \in Nat,
           NEW g, IsSum(g, f, SUBSET S)
    PROVE  g[S] \in Nat /\ \A i \in S : f[i] <= g[S]
<1> DEFINE Good(s) == g[s] \in Nat /\ \A i \in s : f[i] <= g[s]
           bad == {s \in SUBSET S : ~Good(s)}
           sizes == {Cardinality(s) : s \in bad}
<1>1. ASSUME bad # {}
      PROVE  FALSE
    <2>1. sizes # {} /\ sizes \in SUBSET Nat
        BY <1>1, FS_Subset, FS_CardinalityType
    <2>2. PICK n \in sizes : \A m \in sizes : n <= m
        <3> HIDE DEF sizes
        <3> QED
            BY <2>1, SmallestOf
    <2>3. PICK s \in bad : n = Cardinality(s)
        BY <2>2
    <2>4. g[s] = IF s = {} THEN 0 ELSE f[First(s)] + g[s \ {First(s)}]
        BY DEF IsSum
    <2>5. CASE s = {}
        BY <2>4, <2>5
    <2>6. CASE s # {}
        <3> DEFINE rest == s \ {First(s)}
        <3>1. /\ First(s) \in s
              /\ rest \in SUBSET S
              /\ Cardinality(s) \in Nat \ {0}
              /\ Cardinality(rest) = Cardinality(s) - 1
            BY <2>6, OneLess
        <3>2. Good(rest)
            <4>1. ~ (Cardinality(rest) \in sizes)
                BY <2>2, <2>3, <3>1
            <4> QED
                BY <3>1, <4>1
        <3>3. f[First(s)] \in Nat /\ \A i \in rest : f[i] \in Nat
            BY <3>1
        <3>4. g[s] = f[First(s)] + g[rest] /\ g[rest] \in Nat
            BY <2>4, <2>6, <3>2
        <3>5. ASSUME NEW i \in s
              PROVE  f[i] <= g[s]
            <4>1. CASE i = First(s)
                BY <3>3, <3>4, <4>1
            <4>2. CASE i \in rest
                <5>1. f[i] <= g[rest] /\ f[i] \in Nat
                    BY <3>2, <3>3, <4>2
                <5> HIDE DEF rest
                <5> QED
                    BY <3>3, <3>4, <5>1
            <4> QED
                BY <4>1, <4>2
        <3>6. g[s] \in Nat
            <4> HIDE DEF rest
            <4> QED
                BY <3>3, <3>4
        <3>7. Good(s)
            BY <3>5, <3>6
        <3> QED
            BY <3>7
    <2> QED
        BY <2>5, <2>6
<1> QED
    BY <1>1

\* A total of counts is a count.
LEMMA TotalNonNegative ==
    ASSUME NEW t, NEW S, IsFiniteSet(S), NEW field, \A i \in S : t[i][field] \in Nat
    PROVE  TotalOf(t, S, field) >= 0
<1> DEFINE f == [i \in S |-> t[i][field]]
<1>1. \A i \in S : f[i] = t[i][field] /\ f[i] \in Nat
    OBVIOUS
<1> HIDE DEF f
<1>2. PICK g : IsSum(g, f, SUBSET S) /\ TotalOf(t, S, field) = g[S]
    BY <1>1, TotalIsSum
<1>3. g[S] \in Nat
    BY <1>1, <1>2, SumsBound
<1> QED
    BY <1>2, <1>3

-----------------------------------------------------------------------------
(* The two tables together. *)

\* Only sales that were made are counted.
OnlySalesCounted ==
    \A e \in Events, i \in SaleIds : summary[e][i] > 0 => i \in DOMAIN sales

TablesInv == ExtractedExist /\ OnlySalesCounted /\ DailyCoversSummary

\* An aggregate counts its sales.
LEMMA OnceCounts ==
    \A S : \A i \in SaleIds : Once(S)[i] > 0 <=> i \in S
    BY DEF Once

\* What every sale has.
LEMMA SaleType ==
    ASSUME TypeOK, NEW i \in DOMAIN sales
    PROVE  /\ sales[i] \in Sale
           /\ sales[i].day \in Days
           /\ sales[i].quantity \in Int /\ sales[i].amount \in Int
<1>1. sales[i] \in Sale
    BY DEF TypeOK
<1> QED
    BY <1>1 DEF Sale

\* The tables are empty at the start.
LEMMA TablesInit == Init => TablesInv
    BY ExtractedInit
    DEF Init, TablesInv, OnlySalesCounted, DailyCoversSummary, Nothing

\* A new sale is in no table yet, and may end an event's being without refunds.
LEMMA SellKeepsTables ==
    ASSUME TypeOK, TablesInv, NEW kind \in SaleKinds, Sell(kind)
    PROVE  OnlySalesCounted' /\ DailyCoversSummary'
<1>1. /\ DOMAIN sales \subseteq DOMAIN sales'
      /\ \A i \in DOMAIN sales : sales'[i] = sales[i]
      /\ DOMAIN sales \subseteq SaleIds
    <2>1. DOMAIN sales = 1..Len(sales) /\ Len(sales) \in Nat /\ Len(sales) <= MaxSales
        BY DEF TypeOK
    <2> QED
        BY <2>1, BoundsAssumption, SalesGrow DEF Promise!Sell, SaleIds
<1>2. summary' = summary /\ daily' = daily
    BY DEF Sell, tableVars
<1>3. OnlySalesCounted'
    BY <1>1, <1>2 DEF TablesInv, OnlySalesCounted
<1>4. ASSUME NEW e \in Events, HasNoRefund(e)', NEW i \in DOMAIN sales',
             summary'[e][i] > 0, sales'[i].day # Future
      PROVE  daily'[<<e, sales'[i].day>>][i] > 0
    <2>1. i \in SaleIds
        <3>1. DOMAIN sales' \subseteq SaleIds
            <4>1. TypeOK'
                BY NextType DEF Next
            <4>2. DOMAIN sales' = 1..Len(sales') /\ Len(sales') \in Nat
                      /\ Len(sales') <= MaxSales
                BY <4>1 DEF TypeOK
            <4> QED
                BY <4>2, BoundsAssumption DEF SaleIds
        <3> QED
            BY <1>4, <3>1
    <2>2. i \in DOMAIN sales
        BY <1>2, <1>4, <2>1 DEF TablesInv, OnlySalesCounted
    <2>3. HasNoRefund(e)
        BY <1>1, <1>4 DEF HasNoRefund
    <2> QED
        BY <1>1, <1>2, <1>4, <2>2, <2>3 DEF TablesInv, DailyCoversSummary
<1> QED
    BY <1>3, <1>4 DEF DailyCoversSummary

\* A load that replaces the row of an event without refunds replaces the rows
\* of its days by the same sales.
LEMMA LoadKeepsTables ==
    ASSUME TypeOK, TablesInv, NEW r \in Runners, LoadPostgres(r)
    PROVE  OnlySalesCounted' /\ DailyCoversSummary'
<1>1. /\ run[r].extracted \subseteq DOMAIN sales
      /\ DOMAIN sales \subseteq SaleIds
      /\ IsFiniteSet(DOMAIN sales)
      /\ sales' = sales
    <2>1. DOMAIN sales = 1..Len(sales) /\ Len(sales) \in Nat /\ Len(sales) <= MaxSales
        BY DEF TypeOK
    <2>2. IsFiniteSet(1..Len(sales))
        BY <2>1, FS_Interval
    <2> QED
        BY <2>1, <2>2, BoundsAssumption
        DEF TablesInv, ExtractedExist, SaleIds, LoadPostgres
<1>2. ASSUME NEW e \in Events
      PROVE  summary'[e] = IF ValidEventRow(r, e)
                           THEN Once(EventSales(r, e)) ELSE summary[e]
    BY DEF LoadPostgres, Upserted
<1>3. ASSUME NEW e \in Events, NEW i \in SaleIds, summary'[e][i] > 0
      PROVE  i \in DOMAIN sales'
    <2>1. CASE ValidEventRow(r, e)
        <3>1. i \in EventSales(r, e)
            BY <1>2, <1>3, <2>1, OnceCounts
        <3> QED
            BY <1>1, <3>1 DEF EventSales
    <2>2. CASE ~ValidEventRow(r, e)
        BY <1>1, <1>2, <1>3, <2>2 DEF TablesInv, OnlySalesCounted
    <2> QED
        BY <2>1, <2>2
<1>4. ASSUME NEW e \in Events, HasNoRefund(e), NEW i \in DOMAIN sales,
             summary'[e][i] > 0, sales[i].day # Future
      PROVE  daily'[<<e, sales[i].day>>][i] > 0
    <2> DEFINE k == <<e, sales[i].day>>
    <2>1. k \in Events \X Days /\ k[1] = e /\ k[2] = sales[i].day
        BY SaleType
    <2>2. daily'[k] = IF ValidDailyRow(r, k) THEN Once(DailySales(r, k)) ELSE daily[k]
        BY <2>1 DEF LoadPostgres, DailyUpserted
    <2>3. CASE EventSales(r, e) = {}
        <3>1. ~ValidEventRow(r, e) /\ ~ValidDailyRow(r, k)
            BY <2>1, <2>3 DEF ValidEventRow, ValidDailyRow, EventSales, DailySales
        <3> QED
            BY <1>2, <1>4, <2>2, <3>1 DEF TablesInv, DailyCoversSummary
    <2>4. CASE EventSales(r, e) # {}
        <3>1. IsFiniteSet(EventSales(r, e))
            BY <1>1, FS_Subset DEF EventSales
        <3>2. \A j \in EventSales(r, e) : sales[j].quantity \in Nat /\ sales[j].amount \in Nat
            BY <1>1, <1>4, SaleType DEF EventSales, HasNoRefund
        <3>3. ValidEventRow(r, e)
            <4>1. TotalOf(sales, EventSales(r, e), "quantity") >= 0
                BY <3>1, <3>2, TotalNonNegative
            <4>2. TotalOf(sales, EventSales(r, e), "amount") >= 0
                BY <3>1, <3>2, TotalNonNegative
            <4> QED
                BY <2>4, <4>1, <4>2 DEF ValidEventRow
        <3>4. i \in EventSales(r, e)
            <4>1. i \in SaleIds /\ summary'[e] = Once(EventSales(r, e))
                BY <1>1, <1>2, <1>4, <3>3
            <4> QED
                BY <1>4, <4>1, OnceCounts
        <3>5. i \in DailySales(r, k) /\ i \in SaleIds
            BY <1>1, <2>1, <3>4 DEF EventSales, DailySales
        <3>6. ValidDailyRow(r, k)
            BY <1>4, <2>1, <3>5 DEF ValidDailyRow
        <3> QED
            BY <2>2, <3>5, <3>6, OnceCounts
    <2> QED
        BY <2>3, <2>4
<1>5. DailyCoversSummary'
    BY <1>1, <1>4 DEF DailyCoversSummary, HasNoRefund
<1>6. OnlySalesCounted'
    BY <1>3 DEF OnlySalesCounted
<1> QED
    BY <1>5, <1>6

\* Every step keeps the tables together.
LEMMA TablesNext == TypeOK /\ TablesInv /\ [Next]_vars => TablesInv'
<1> SUFFICES ASSUME TypeOK, TablesInv, [Next]_vars
             PROVE  OnlySalesCounted' /\ DailyCoversSummary'
    BY ExtractedNext DEF TablesInv
<1>1. ASSUME NEW kind \in SaleKinds, Sell(kind)
      PROVE  OnlySalesCounted' /\ DailyCoversSummary'
    BY <1>1, SellKeepsTables
<1>2. ASSUME NEW r \in Runners, LoadPostgres(r)
      PROVE  OnlySalesCounted' /\ DailyCoversSummary'
    BY <1>2, LoadKeepsTables
<1>3. CASE UNCHANGED <<sales, summary, daily>>
    <2>1. OnlySalesCounted'
        BY <1>3 DEF TablesInv, OnlySalesCounted
    <2>2. \A e \in Events : HasNoRefund(e)' <=> HasNoRefund(e)
        BY <1>3 DEF HasNoRefund
    <2>3. DailyCoversSummary'
        BY <1>3, <2>2 DEF TablesInv, DailyCoversSummary
    <2> QED
        BY <2>1, <2>3
<1> QED
    BY <1>1, <1>2, <1>3, TablesFrame

\* Whichever runs wrote them, the days of an event without refunds count every
\* sale that its total counts, but for the dates that validate_rows rejects.
THEOREM EtlDaysCover == Spec => []DailyCoversSummary
<1>1. TablesInv => DailyCoversSummary
    BY DEF TablesInv
<1> QED
    BY <1>1, InitType, NextType, TablesInit, TablesNext, PTL DEF Spec

-----------------------------------------------------------------------------
(* The fraud rules, for lists of any events. *)

FraudTyped == events \in Seq(EventKinds)

\* The events of a list and their fields.
LEMMA EventIs ==
    ASSUME FraudTyped
    PROVE  /\ IsFiniteSet(DOMAIN events) /\ DOMAIN events \subseteq Nat
           /\ DOMAIN events = 1..Len(events) /\ Len(events) \in Nat
           /\ \A i \in Of("purchase") :
                  /\ events[i].at \in Int
                  /\ events[i].qty \in Int
                  /\ events[i].capacity \in Int \cup {NoCapacity}
           /\ \A i \in Of("scan") : events[i].at \in Int
<1>1. DOMAIN events = 1..Len(events) /\ Len(events) \in Nat
    BY DEF FraudTyped
<1>2. \A i \in DOMAIN events : events[i] \in EventKinds
    BY DEF FraudTyped
<1>3. IsFiniteSet(DOMAIN events)
    BY <1>1, FS_Interval
<1>4. \A i \in Of("purchase") : events[i] \in EventKinds /\ events[i].type = "purchase"
    BY <1>2 DEF Of
<1>5. \A i \in Of("scan") : events[i] \in EventKinds /\ events[i].type = "scan"
    BY <1>2 DEF Of
<1> QED
    BY <1>1, <1>3, <1>4, <1>5, EventKindsAssumption

\* The events like one of them.
LEMMA LikeIs ==
    ASSUME FraudTyped, NEW type, NEW i \in Of(type), NEW field
    PROVE  /\ Like(i, field) \subseteq Of(type)
           /\ i \in Like(i, field)
           /\ IsFiniteSet(Like(i, field)) /\ IsFiniteSet(Of(type))
           /\ \A j \in Like(i, field) : Like(j, field) = Like(i, field)
<1>1. i \in DOMAIN events /\ events[i].type = type
    BY DEF Of
<1>2. Like(i, field) \subseteq Of(type) /\ i \in Like(i, field)
    BY <1>1 DEF Like
<1>3. Of(type) \subseteq DOMAIN events
    BY DEF Of
<1>4. IsFiniteSet(Like(i, field)) /\ IsFiniteSet(Of(type))
    <2>1. IsFiniteSet(Of(type))
        BY <1>3, EventIs, FS_Subset
    <2> QED
        BY <1>2, <2>1, FS_Subset
<1>5. ASSUME NEW j \in Like(i, field)
      PROVE  Like(j, field) = Like(i, field)
    <2>1. events[j].type = type /\ events[j][field] = events[i][field]
        BY <1>1 DEF Like, Of
    <2> QED
        BY <1>1, <2>1 DEF Like
<1> QED
    BY <1>2, <1>4, <1>5

\* The first purchase of a crowded interval opens a crowded window.
LEMMA IpExact ==
    ASSUME FraudTyped
    PROVE  IpRuleIsExact
<1> DEFINE starts == {events[i].at - d : i \in Of("purchase"), d \in 0..IpWindow}
           inside(i, s) == {j \in Like(i, "ip") : events[j].at - s \in 0..IpWindow}
<1>1. IpWindow \in Nat /\ MaxPerIp \in Nat
    BY FraudAssumption
<1>2. ASSUME NEW i \in Of("purchase"),
             Cardinality(WithinAfter(i, IpWindow)) > MaxPerIp
      PROVE  \E s \in starts : \E k \in Of("purchase") :
                 Cardinality(inside(k, s)) > MaxPerIp
    <2>1. events[i].at - 0 = events[i].at /\ 0 \in 0..IpWindow
        BY <1>1, EventIs
    <2>2. events[i].at \in starts
        BY <2>1
    <2>3. inside(i, events[i].at) = WithinAfter(i, IpWindow)
        BY DEF WithinAfter
    <2> HIDE DEF starts, inside
    <2> QED
        BY <1>2, <2>2, <2>3
<1>3. ASSUME NEW s \in starts, NEW i \in Of("purchase"),
             Cardinality(inside(i, s)) > MaxPerIp
      PROVE  TooManyPurchases
    <2> DEFINE J == inside(i, s)
               gaps == {events[j].at - s : j \in J}
    <2>1. s \in Int
        BY <1>1, EventIs
    <2>2. /\ J \subseteq Of("purchase") /\ J \subseteq Like(i, "ip")
          /\ IsFiniteSet(J)
        <3>1. Like(i, "ip") \subseteq Of("purchase") /\ IsFiniteSet(Like(i, "ip"))
            BY LikeIs
        <3> QED
            BY <3>1, FS_Subset
    <2>3. J # {}
        <3>1. Cardinality(J) > MaxPerIp
            BY <1>3
        <3> HIDE DEF J
        <3> QED
            BY <1>1, <3>1, FS_EmptySet
    <2>4. \A j \in J : events[j].at \in Int /\ events[j].at - s \in 0..IpWindow
        BY <2>2, EventIs
    <2>5. PICK f \in J : \A j \in J : events[f].at - s <= events[j].at - s
        <3>1. gaps \in SUBSET Nat /\ gaps # {}
            <4> HIDE DEF J
            <4> QED
                BY <1>1, <2>3, <2>4
        <3>2. PICK n \in gaps : \A m \in gaps : n <= m
            <4> HIDE DEF gaps
            <4> QED
                BY <3>1, SmallestOf
        <3> QED
            BY <3>2
    <2>6. J \subseteq WithinAfter(f, IpWindow)
        <3>1. Like(f, "ip") = Like(i, "ip")
            BY <2>2, LikeIs
        <3>2. ASSUME NEW j \in J
              PROVE  events[j].at - events[f].at \in 0..IpWindow
            <4> HIDE DEF J
            <4> QED
                BY <1>1, <2>1, <2>4, <2>5
        <3> QED
            BY <2>2, <3>1, <3>2 DEF WithinAfter
    <2>7. IsFiniteSet(WithinAfter(f, IpWindow)) /\ f \in Of("purchase")
        <3>1. f \in Of("purchase")
            BY <2>2
        <3> QED
            BY <3>1, LikeIs, FS_Subset DEF WithinAfter
    <2>8. Cardinality(J) <= Cardinality(WithinAfter(f, IpWindow))
        <3> HIDE DEF J
        <3> QED
            BY <2>6, <2>7, FS_Subset
    <2>9. /\ Cardinality(J) \in Nat
          /\ Cardinality(WithinAfter(f, IpWindow)) \in Nat
        BY <2>2, <2>7, FS_CardinalityType
    <2>10. Cardinality(WithinAfter(f, IpWindow)) > MaxPerIp
        <3>1. Cardinality(J) > MaxPerIp
            BY <1>3
        <3> HIDE DEF J
        <3> QED
            BY <1>1, <2>8, <2>9, <3>1
    <2> QED
        BY <2>7, <2>10 DEF TooManyPurchases
<1>4. IpRuleIsExact <=>
          (TooManyPurchases <=>
             \E s \in starts : \E i \in Of("purchase") :
                 Cardinality(inside(i, s)) > MaxPerIp)
    BY DEF IpRuleIsExact
<1> HIDE DEF starts, inside
<1> QED
    BY <1>2, <1>3, <1>4 DEF TooManyPurchases

\* Scans are ordered by time, and by their place in the list.
LEMMA BeforeOrders ==
    ASSUME FraudTyped
    PROVE  /\ \A i, j \in Of("scan") : i # j => Before(i, j) \/ Before(j, i)
           /\ \A i \in Of("scan") : ~Before(i, i)
           /\ \A i, j, k \in Of("scan") :
                  Before(i, j) /\ Before(j, k) => Before(i, k)
           /\ \A i, j \in Of("scan") : Before(i, j) => events[i].at <= events[j].at
<1>1. \A i \in Of("scan") : events[i].at \in Int /\ i \in Nat
    BY EventIs DEF Of
<1> QED
    BY <1>1 DEF Before

Between(i, j) == {k \in Like(i, "ticket") : Before(i, k) /\ Before(k, j)}

\* A scan of the ticket somewhere else that follows within the window.
Far(i, j) ==
    /\ i \in Of("scan") /\ j \in Like(i, "ticket")
    /\ Before(i, j) /\ InTime(i, j)
    /\ events[i].location # events[j].location

\* Of two distant scans and one between them, one pair is distant again, with fewer
\* scans between.
LEMMA NearerPair ==
    ASSUME FraudTyped, NEW i, NEW j, Far(i, j), NEW k \in Between(i, j)
    PROVE  \/ Far(i, k) /\ Between(i, k) \subseteq Between(i, j) \ {k}
           \/ Far(k, j) /\ Between(k, j) \subseteq Between(i, j) \ {k}
<1>1. /\ i \in Of("scan") /\ j \in Of("scan") /\ k \in Of("scan")
      /\ k \in Like(i, "ticket") /\ j \in Like(i, "ticket")
      /\ Like(k, "ticket") = Like(i, "ticket")
      /\ Like(i, "ticket") \subseteq Of("scan")
    BY LikeIs DEF Far, Between
<1>2. Before(i, j) /\ Before(i, k) /\ Before(k, j)
    BY DEF Far, Between
<1>3. /\ events[i].at \in Int /\ events[j].at \in Int /\ events[k].at \in Int
      /\ events[i].at <= events[k].at /\ events[k].at <= events[j].at
    BY <1>1, <1>2, EventIs, BeforeOrders
<1>4. InTime(i, k) /\ InTime(k, j)
    <2>1. TravelWindow \in Nat /\ events[j].at - events[i].at <= TravelWindow
        BY FraudAssumption DEF Far, InTime
    <2> QED
        BY <1>3, <2>1 DEF InTime
<1>5. /\ Between(i, k) \subseteq Between(i, j) \ {k}
      /\ Between(k, j) \subseteq Between(i, j) \ {k}
    BY <1>1, <1>2, BeforeOrders DEF Between
<1>6. CASE events[k].location # events[i].location
    BY <1>1, <1>2, <1>4, <1>5, <1>6 DEF Far
<1>7. CASE events[k].location = events[i].location
    BY <1>1, <1>2, <1>4, <1>5, <1>7 DEF Far
<1> QED
    BY <1>6, <1>7

\* The nearest pair of distant scans are neighbours.
LEMMA NeighboursFound ==
    ASSUME FraudTyped, NEW a, NEW b, Far(a, b)
    PROVE  \E i, j \in Of("scan") :
               Consecutive(i, j) /\ InTime(i, j)
                   /\ events[i].location # events[j].location
<1> DEFINE pairs == {p \in Of("scan") \X Of("scan") : Far(p[1], p[2])}
           sizes == {Cardinality(Between(p[1], p[2])) : p \in pairs}
<1>1. \A i, j : Far(i, j) => <<i, j>> \in pairs
    BY LikeIs DEF Far
<1>2. \A i, j : Far(i, j) => IsFiniteSet(Between(i, j))
    <2> SUFFICES ASSUME NEW i, NEW j, Far(i, j)
                 PROVE  IsFiniteSet(Between(i, j))
        OBVIOUS
    <2>1. IsFiniteSet(Like(i, "ticket"))
        BY LikeIs DEF Far
    <2> QED
        BY <2>1, FS_Subset DEF Between
<1>3. sizes \in SUBSET Nat /\ sizes # {}
    <2>1. \A q \in pairs : Cardinality(Between(q[1], q[2])) \in Nat
        BY <1>2, FS_CardinalityType
    <2>2. pairs # {}
        BY <1>1
    <2> HIDE DEF pairs
    <2> QED
        BY <2>1, <2>2
<1>4. PICK n \in sizes : \A m \in sizes : n <= m
    <2> HIDE DEF sizes
    <2> QED
        BY <1>3, SmallestOf
<1>5. PICK p \in pairs : n = Cardinality(Between(p[1], p[2]))
    BY <1>4
<1>6. PICK i, j \in Of("scan") : Far(i, j) /\ n = Cardinality(Between(i, j))
    BY <1>5
<1>7. Between(i, j) = {}
    <2> SUFFICES ASSUME NEW k \in Between(i, j)
                 PROVE  FALSE
        OBVIOUS
    <2>1. PICK x, y : Far(x, y) /\ Between(x, y) \subseteq Between(i, j) \ {k}
        BY <1>6, NearerPair
    <2>2. /\ IsFiniteSet(Between(i, j)) /\ IsFiniteSet(Between(x, y))
          /\ Cardinality(Between(i, j)) \in Nat /\ Cardinality(Between(x, y)) \in Nat
        BY <1>2, <1>6, <2>1, FS_CardinalityType
    <2>3. Cardinality(Between(x, y)) <= Cardinality(Between(i, j)) - 1
        <3>1. /\ IsFiniteSet(Between(i, j) \ {k})
              /\ Cardinality(Between(i, j) \ {k}) = Cardinality(Between(i, j)) - 1
            BY <2>2, FS_RemoveElement
        <3> QED
            BY <2>1, <3>1, FS_Subset
    <2>4. Cardinality(Between(x, y)) \in sizes
        <3>1. <<x, y>> \in pairs
            BY <1>1, <2>1
        <3>2. <<x, y>>[1] = x /\ <<x, y>>[2] = y
            OBVIOUS
        <3> HIDE DEF pairs
        <3> QED
            BY <3>1, <3>2
    <2>5. Cardinality(Between(i, j)) <= Cardinality(Between(x, y))
        BY <1>4, <1>6, <2>4
    <2> QED
        BY <2>2, <2>3, <2>5
<1>8. Consecutive(i, j)
    BY <1>6, <1>7 DEF Far, Between, Consecutive
<1> QED
    BY <1>6, <1>8 DEF Far

\* Neighbours stand for all pairs of scans.
LEMMA TravelExact ==
    ASSUME FraudTyped
    PROVE  TravelRuleIsExact
<1>0. TravelWindow \in Nat
    BY FraudAssumption
<1>1. ASSUME NEW i \in Of("scan"), NEW j \in Of("scan"), Consecutive(i, j), InTime(i, j),
             events[i].location # events[j].location
      PROVE  FarScans(Of("scan"))
    <2>1. events[i].ticket = events[j].ticket /\ Before(i, j)
        BY <1>1 DEF Consecutive, Like
    <2>2. events[j].at - events[i].at \in 0..TravelWindow
        BY <1>0, <1>1, <2>1, EventIs, BeforeOrders DEF InTime
    <2> QED
        BY <1>1, <2>1, <2>2 DEF FarScans
<1>2. ASSUME NEW i \in Of("scan"), NEW j \in Of("scan"), events[i].ticket = events[j].ticket,
             events[i].location # events[j].location,
             events[j].at - events[i].at \in 0..TravelWindow
      PROVE  Far(i, j) \/ Far(j, i)
    <2>1. i # j
        BY <1>2
    <2>2. j \in Like(i, "ticket") /\ i \in Like(j, "ticket")
        BY <1>2 DEF Like, Of
    <2>3. events[i].at \in Int /\ events[j].at \in Int
        BY EventIs
    <2>4. InTime(i, j)
        BY <1>0, <1>2, <2>3 DEF InTime
    <2>5. CASE Before(i, j)
        BY <1>2, <2>2, <2>4, <2>5 DEF Far
    <2>6. CASE Before(j, i)
        <3>1. InTime(j, i)
            BY <1>0, <1>2, <2>3, <2>6, BeforeOrders DEF InTime
        <3> QED
            BY <1>2, <2>2, <2>6, <3>1 DEF Far
    <2> QED
        BY <2>1, <2>5, <2>6, BeforeOrders
<1>3. FarScans(Of("scan")) => \E i, j : Far(i, j)
    BY <1>2 DEF FarScans
<1> QED
    BY <1>1, <1>3, NeighboursFound DEF TravelRuleIsExact, ImpossibleTravel

\* Velocity's scans are distant ones that have a place.
LEMMA VelocityAgrees ==
    ASSUME FraudTyped
    PROVE  VelocityRuleAgrees
<1>0. TravelWindow \in Nat
    BY FraudAssumption
<1>1. ASSUME NEW i \in Of("scan"), NEW j \in Of("scan"), Consecutive(i, j), InTime(i, j),
             NoLocation \notin {events[i].location, events[j].location},
             events[i].location # events[j].location
      PROVE  FarScans(Located)
    <2>1. events[i].ticket = events[j].ticket /\ Before(i, j)
        BY <1>1 DEF Consecutive, Like
    <2>2. events[j].at - events[i].at \in 0..TravelWindow
        BY <1>0, <1>1, <2>1, EventIs, BeforeOrders DEF InTime
    <2>3. i \in Located /\ j \in Located
        BY <1>1 DEF Located
    <2> QED
        BY <1>1, <2>1, <2>2, <2>3 DEF FarScans
<1>2. Located = Of("scan") => \A i \in Of("scan") : events[i].location # NoLocation
    BY DEF Located
<1> QED
    BY <1>1, <1>2 DEF VelocityRuleAgrees, Velocity, ImpossibleTravel

\* A user's purchases of an event.
Bought(u, e) == {i \in Of("purchase") : events[i].user = u /\ events[i].event = e}

\* Their quantities add up to a sum.
LEMMA BoughtSum ==
    ASSUME NEW u, NEW e, IsFiniteSet(Bought(u, e)),
           NEW f, \A i \in Bought(u, e) : f[i] = events[i].qty
    PROVE  \E g : IsSum(g, f, SUBSET Bought(u, e)) /\ BoughtBy(u, e) = g[Bought(u, e)]
<1> DEFINE S == Bought(u, e)
           Eq(g) == g = [s \in SUBSET S |->
              IF s = {} THEN 0 ELSE events[First(s)].qty + g[s \ {First(s)}]]
<1>1. BoughtBy(u, e) = (CHOOSE g : Eq(g))[S]
    BY DEF BoughtBy, Bought, MapThenSumSet, MapThenFoldSet, First
<1>2. ASSUME NEW g PROVE Eq(g) <=> IsSum(g, f, SUBSET S)
    <2>1. \A s \in SUBSET S : s # {} => f[First(s)] = events[First(s)].qty
        BY OneLess
    <2>2. [s \in SUBSET S |-> IF s = {} THEN 0
                              ELSE events[First(s)].qty + g[s \ {First(s)}]]
              = [s \in SUBSET S |-> IF s = {} THEN 0
                                    ELSE f[First(s)] + g[s \ {First(s)}]]
        BY <2>1
    <2> QED
        BY <2>2 DEF IsSum
<1>3. \E g : Eq(g)
    BY <1>2, SumsExist
<1> HIDE DEF Eq
<1>4. Eq(CHOOSE g : Eq(g))
    BY <1>3
<1> QED
    BY <1>1, <1>2, <1>4

\* A finite set of positions has a last one.
LEMMA LastOf ==
    ASSUME FraudTyped, NEW S \in SUBSET DOMAIN events, S # {}
    PROVE  Max(S) \in S
<1> DEFINE left == {Len(events) - i : i \in S}
<1>1. left \in SUBSET Nat /\ left # {} /\ \A i \in S : i \in Nat /\ Len(events) \in Nat
    BY EventIs
<1>2. PICK n \in left : \A m \in left : n <= m
    <2> HIDE DEF left
    <2> QED
        BY <1>1, SmallestOf
<1>3. PICK i \in S : n = Len(events) - i
    BY <1>2
<1>4. ASSUME NEW j \in S
      PROVE  i >= j
    <2>1. Len(events) - j \in left
        OBVIOUS
    <2>2. Len(events) - i <= Len(events) - j
        BY <1>2, <1>3, <2>1
    <2> QED
        BY <1>1, <2>2
<1> QED
    BY <1>4 DEF Max

\* One large purchase is as much as the user bought, or less.
LEMMA BulkAgrees ==
    ASSUME FraudTyped
    PROVE  BulkRuleAgrees
<1> SUFFICES ASSUME OneCapacity, NoReturns, NEW i \in Given, IsBulk(i)
             PROVE  BulkPurchase
    BY DEF BulkRuleAgrees
<1>0. /\ i \in Of("purchase") /\ events[i].capacity # NoCapacity
      /\ events[i].capacity > 0 /\ 5 * events[i].qty >= events[i].capacity
    BY DEF Given, IsBulk, CapacityAt
<1> DEFINE u == events[i].user
           e == events[i].event
           given == {j \in Of("purchase") : events[j].event = e /\ CapacityAt(j, 0) > 0}
           S == Bought(u, e)
           f == [j \in S |-> events[j].qty]
<1>1. CapacityOf(e) = events[i].capacity
    <2>1. i \in given /\ given \in SUBSET DOMAIN events
        BY <1>0 DEF Of, CapacityAt
    <2>2. Max(given) \in given
        <3> HIDE DEF given
        <3> QED
            BY <2>1, LastOf
    <2>3. events[Max(given)].capacity = events[i].capacity
        <3>1. Max(given) \in Given /\ events[Max(given)].event = events[i].event
            BY <2>2 DEF Given, CapacityAt
        <3> QED
            BY <3>1 DEF OneCapacity
    <2> QED
        BY <2>1, <2>3 DEF CapacityOf
<1>2. IsFiniteSet(S) /\ i \in S
    <2>1. IsFiniteSet(Of("purchase"))
        BY <1>0, LikeIs
    <2> QED
        BY <1>0, <2>1, FS_Subset DEF Bought
<1>3. \A j \in S : f[j] = events[j].qty /\ f[j] \in Nat
    BY EventIs DEF NoReturns, Bought
<1>4. PICK g : IsSum(g, f, SUBSET S) /\ BoughtBy(u, e) = g[S]
    <2> HIDE DEF f, u, e
    <2> QED
        BY <1>2, <1>3, BoughtSum
<1>5. events[i].qty <= BoughtBy(u, e) /\ BoughtBy(u, e) \in Nat
    <2> HIDE DEF f, S
    <2> QED
        BY <1>2, <1>3, <1>4, SumsBound
<1>6. events[i].qty \in Int /\ events[i].capacity \in Int
    BY <1>0, EventIs
<1>7. 5 * BoughtBy(u, e) >= CapacityOf(e) /\ CapacityOf(e) > 0
    <2> HIDE DEF u, e
    <2> QED
        BY <1>0, <1>1, <1>5, <1>6
<1> QED
    BY <1>0, <1>7 DEF BulkPurchase

\* The severity tells which rules hold.
LEMMA SeverityExact ==
    ASSUME TravelRuleIsExact
    PROVE  SeverityIsExact
<1> DEFINE t == Triggered
           rules == {"too_many_purchases_same_ip", "duplicate_ticket_transfer",
                     "excessive_purchases_user_day", "impossible_travel_scan",
                     "bulk_allocation_purchase"}
           holds(rule) ==
             CASE rule = "too_many_purchases_same_ip"   -> TooManyPurchases
               [] rule = "duplicate_ticket_transfer"    -> DuplicateTransfer
               [] rule = "excessive_purchases_user_day" -> ExcessivePurchases
               [] rule = "impossible_travel_scan"       -> ImpossibleTravel
               [] rule = "bulk_allocation_purchase"     -> BulkAllocation
<1>0. t = {rule \in rules : holds(rule)}
    BY DEF Triggered
<1>1. /\ "too_many_purchases_same_ip" \in t <=> TooManyPurchases
      /\ "duplicate_ticket_transfer" \in t <=> DuplicateTransfer
      /\ "excessive_purchases_user_day" \in t <=> ExcessivePurchases
      /\ "impossible_travel_scan" \in t <=> ImpossibleTravel
      /\ "bulk_allocation_purchase" \in t <=> BulkAllocation
    <2>1. /\ holds("too_many_purchases_same_ip") <=> TooManyPurchases
          /\ holds("duplicate_ticket_transfer") <=> DuplicateTransfer
          /\ holds("excessive_purchases_user_day") <=> ExcessivePurchases
          /\ holds("impossible_travel_scan") <=> ImpossibleTravel
          /\ holds("bulk_allocation_purchase") <=> BulkAllocation
        OBVIOUS
    <2> HIDE DEF holds, t
    <2> QED
        BY <1>0, <2>1
<1>2. t \subseteq rules
    <2> HIDE DEF holds, t
    <2> QED
        BY <1>0
<1>3. BatchResult.severity = Severity(t)
    BY DEF BatchResult
<1> HIDE DEF t
<1>4. Severity(t) = "none" <=> t = {}
    BY DEF Severity
<1>5. Severity(t) = "medium" <=> t = {"duplicate_ticket_transfer"}
    BY <1>2 DEF Severity, HighRules, MediumRules
<1>6. Severity(t) # "low"
    BY <1>2 DEF Severity, HighRules, MediumRules
<1>7. t = {} <=> ~(TooManyPurchases \/ DuplicateTransfer \/ ExcessivePurchases
                     \/ FarScans(Of("scan")) \/ BulkAllocation)
    BY <1>1, <1>2 DEF TravelRuleIsExact
<1> QED
    BY <1>3, <1>4, <1>5, <1>6, <1>7 DEF SeverityIsExact, t

\* Whatever events a list holds, in whatever order and number, windows opened only at
\* purchases, comparisons of neighbours only and the rules that are written twice find what
\* the rules say, and the severity of a batch's item tells it.
THEOREM FraudRulesExact == FraudSpec => []RulesAreExact
<1>1. FraudInit => FraudTyped
    BY DEF FraudInit, FraudTyped
<1>2. FraudTyped /\ [FraudNext]_events => FraudTyped'
    BY DEF FraudTyped, FraudNext, CheckOneMore
<1>3. FraudTyped => RulesAreExact
    BY IpExact, TravelExact, VelocityAgrees, BulkAgrees, SeverityExact DEF RulesAreExact
<1> QED
    BY <1>1, <1>2, <1>3, PTL DEF FraudSpec
=============================================================================
