-------------------------- MODULE AnalyticsService --------------------------
(***************************************************************************)
(* The analytics service (analytics/service.py): raw records of scans,     *)
(* transfers and invalid attempts, and a row of counters per event and day *)
(* (table analytics_stats) that two kinds of requests write:               *)
(*                                                                         *)
(*   - a log_* call commits its record in one session and then, in a       *)
(*     second one, reads the latest row, increments it and commits;        *)
(*   - the first reader of an event without a row counts the records,      *)
(*     one query after the other, and inserts what it counted.             *)
(*                                                                         *)
(* Requests run in threads.  PostgreSQL isolates them no further than READ *)
(* COMMITTED, and an UPDATE of the ORM writes the columns that changed,    *)
(* with the values computed from what was read.  Connections come from one *)
(* bounded pool (db.py).                                                   *)
(***************************************************************************)
EXTENDS Integers, Sequences, FiniteSetsExt

CONSTANTS
  Requests,     \* requests that are served at the same time
  Events,       \* event ids
  Kinds,        \* the kinds of records that are logged
  PoolSize,     \* POOL_SIZE + POOL_MAX_OVERFLOW of the engine
  MaxCalls,     \* bound: calls of the service
  MaxDay        \* bound: days

Counters == {"scan", "valid", "invalid", "transfer", "successful", "failed", "attempt"}
AllKinds == {"validScan", "invalidScan", "movedTicket", "failedTransfer", "attempt"}

ASSUME AnalyticsAssumption ==
  /\ IsFiniteSet(Requests) /\ Requests # {}
  /\ Kinds \subseteq AllKinds
  /\ PoolSize \in Nat \ {0}
  /\ MaxCalls \in Nat /\ MaxDay \in Nat

VARIABLES
  raw,        \* raw[e][k]: committed records of kind k for event e
  rows,       \* rows[e]: the rows of analytics_stats for e, by stat_date
  req,        \* req[r]: what the thread of request r is doing
  day,        \* datetime.utcnow().date()
  calls,      \* observer, for its bound: calls so far
  early,      \* observer: updates of e that were pending when a first reader's row appeared
  disturbed   \* observer: events with an overlap, a failure or a new day

vars == <<raw, rows, req, day, calls, early, disturbed>>

Zero == [c \in Counters |-> 0]

Row == [day : Nat, n : [Counters -> Int]]

\* A thread with nothing to do, one in a log_* call after its record was committed, one in
\* _update_analytics_stats, and one in get_stats_for_event or get_stats_for_all_events.
\* "seen" is the position of the row that was read, 0 when a new one is to be added.
Idle == [op |-> "idle"]
Logging == [op : {"log"}, event : Events, kind : Kinds]
Updating == [op : {"update"}, event : Events, kind : Kinds, seen : Nat, base : [Counters -> Int]]
Asking == [op : {"ask"}, all : BOOLEAN, todo : SUBSET Events]
Counting == [op : {"count"}, all : BOOLEAN, todo : SUBSET Events, event : Events,
             at : 1 .. 6, counted : [Counters -> Int]]
Request == {Idle} \cup Logging \cup Updating \cup Asking \cup Counting

----------------------------------------------------------------------------
\* The counters that a record of kind k increments.  (A bug: it would leave the total alone
\* when a scan is invalid.)
BumpedValidOnly(k) ==
  CASE k = "validScan" -> {"scan", "valid"}
    [] k = "invalidScan" -> {"invalid"}
    [] k = "movedTicket" -> {"transfer", "successful"}
    [] k = "failedTransfer" -> {"failed"}
    [] k = "attempt" -> {"attempt"}

Bumped(k) ==
  CASE k = "validScan" -> {"scan", "valid"}
    [] k = "invalidScan" -> {"scan", "invalid"}
    [] k = "movedTicket" -> {"transfer", "successful"}
    [] k = "failedTransfer" -> {"transfer", "failed"}
    [] k = "attempt" -> {"attempt"}

\* What a query over the raw records answers for counter c.
Recorded(c, n) ==
  LET of(k) == IF k \in Kinds THEN n[k] ELSE 0 IN
  CASE c = "valid" -> of("validScan")
    [] c = "invalid" -> of("invalidScan")
    [] c = "scan" -> of("validScan") + of("invalidScan")
    [] c = "successful" -> of("movedTicket")
    [] c = "failed" -> of("failedTransfer")
    [] c = "transfer" -> of("movedTicket") + of("failedTransfer")
    [] c = "attempt" -> of("attempt")

\* The totals that the listings of an event's records answer, for no dates.
ListedRecords(e, kinds) == MapThenSumSet(LAMBDA k : raw[e][k], kinds \cap Kinds)

ListedScans(e) == ListedRecords(e, {"validScan", "invalidScan"})
ListedTransfers(e) == ListedRecords(e, {"movedTicket", "failedTransfer"})
ListedAttempts(e) == ListedRecords(e, {"attempt"})

\* Connections a request has checked out while it waits or computes: the session of
\* get_stats_for_all_events stays open around the sessions of the calls it makes.
Held(r) ==
  CASE req[r].op = "update" -> {1}
    [] req[r].op = "ask" -> IF req[r].all THEN {1} ELSE {}
    [] req[r].op = "count" -> IF req[r].all THEN {1, 2} ELSE {1}
    [] OTHER -> {}

InUse == {p \in Requests \X {1, 2} : p[2] \in Held(p[1])}

ConnectionFree == Cardinality(InUse) < PoolSize

\* The requests of event e that have committed their record and not yet ended the update.
Pending(e) == {r \in Requests : req[r].op \in {"log", "update"} /\ req[r].event = e}

LatestRow(e) == rows[e][Len(rows[e])]

Init ==
  /\ raw = [e \in Events |-> [k \in Kinds |-> 0]]
  /\ rows = [e \in Events |-> << >>]
  /\ req = [r \in Requests |-> Idle]
  /\ day = 0
  /\ calls = 0
  /\ early = [e \in Events |-> 0]
  /\ disturbed = {}

----------------------------------------------------------------------------
(* log_ticket_scan, log_ticket_transfer, log_invalid_attempt *)

\* The session of the call commits the raw record.  A call whose commit fails raises and
\* leaves nothing behind.
LogRecord(r, e, k) ==
  /\ req[r] = Idle /\ calls < MaxCalls
  /\ ConnectionFree
  /\ calls' = calls + 1
  /\ raw' = [raw EXCEPT ![e][k] = @ + 1]
  /\ req' = [req EXCEPT ![r] = [op |-> "log", event |-> e, kind |-> k]]
  /\ UNCHANGED <<rows, day, early, disturbed>>

LogTicketScan(r, e) == \E k \in {"validScan", "invalidScan"} \cap Kinds : LogRecord(r, e, k)
LogTicketTransfer(r, e) == \E k \in {"movedTicket", "failedTransfer"} \cap Kinds : LogRecord(r, e, k)
LogInvalidAttempt(r, e) == \E k \in {"attempt"} \cap Kinds : LogRecord(r, e, k)

\* _update_analytics_stats reads the latest row of the event and adds a new one when there is
\* none or it is not from today.
NeedsRow(e) == rows[e] = << >> \/ LatestRow(e).day # day

\* The position of the row to update, 0 for a new one.  (A bug: off by one.)
SeenAfter(e) == IF NeedsRow(e) THEN 0 ELSE Len(rows[e]) + 1

Seen(e) == IF NeedsRow(e) THEN 0 ELSE Len(rows[e])

ReadRow(r) ==
  LET e == req[r].event IN
  /\ req[r].op = "log"
  /\ ConnectionFree
  /\ req' = [req EXCEPT ![r] =
               [op |-> "update", event |-> e, kind |-> req[r].kind,
                seen |-> Seen(e),
                base |-> IF NeedsRow(e) THEN Zero ELSE LatestRow(e).n]]
  /\ disturbed' = IF \E q \in Pending(e) : req[q].op = "update" THEN disturbed \cup {e}
                  ELSE disturbed
  /\ UNCHANGED <<raw, rows, day, calls, early>>

\* The commit of the update: the changed columns get the values computed from the read.  (A
\* bug: the increments would be applied twice.)
IncrementedTwice(base, now, k) ==
  [c \in Counters |-> IF c \in Bumped(k) THEN base[c] + 2 ELSE now[c]]

Incremented(base, now, k) ==
  [c \in Counters |-> IF c \in Bumped(k) THEN base[c] + 1 ELSE now[c]]

WriteRow(r) ==
  LET e == req[r].event
      i == req[r].seen
      k == req[r].kind IN
  /\ req[r].op = "update"
  /\ rows' = [rows EXCEPT ![e] =
                IF i = 0 THEN Append(@, [day |-> day, n |-> Incremented(Zero, Zero, k)])
                ELSE [@ EXCEPT ![i] = [day |-> rows[e][i].day,
                                       n |-> Incremented(req[r].base, rows[e][i].n, k)]]]
  /\ req' = [req EXCEPT ![r] = Idle]
  /\ UNCHANGED <<raw, day, calls, early, disturbed>>

\* The read or the commit fails, or no connection comes free in time: the error is logged, the
\* session rolled back, and the call is a success.
UpdateFails(r) ==
  /\ req[r].op \in {"log", "update"}
  /\ disturbed' = disturbed \cup {req[r].event}
  /\ req' = [req EXCEPT ![r] = Idle]
  /\ UNCHANGED <<raw, rows, day, calls, early>>

----------------------------------------------------------------------------
(* get_stats_for_event, get_stats_for_all_events *)

AskForEvent(r, e) ==
  /\ req[r] = Idle /\ calls < MaxCalls
  /\ calls' = calls + 1
  /\ req' = [req EXCEPT ![r] = [op |-> "ask", all |-> FALSE, todo |-> {e}]]
  /\ UNCHANGED <<raw, rows, day, early, disturbed>>

\* get_stats_for_all_events collects the events that have records and keeps its session open.
AskForAll(r) ==
  /\ req[r] = Idle /\ calls < MaxCalls
  /\ ConnectionFree
  /\ calls' = calls + 1
  /\ req' = [req EXCEPT ![r] =
               [op |-> "ask", all |-> TRUE,
                todo |-> {e \in Events : \E k \in Kinds : raw[e][k] > 0}]]
  /\ UNCHANGED <<raw, rows, day, early, disturbed>>

\* What is left of a call once event e is answered.
Answered(r, e) ==
  IF req[r].todo \subseteq {e} THEN Idle
  ELSE [op |-> "ask", all |-> req[r].all, todo |-> req[r].todo \ {e}]

\* A call for all events when there are none.
AnswerNothing(r) ==
  /\ req[r].op = "ask" /\ req[r].todo = {}
  /\ req' = [req EXCEPT ![r] = Idle]
  /\ UNCHANGED <<raw, rows, day, calls, early, disturbed>>

\* The latest row is the answer.
AnswerFromRow(r) ==
  /\ req[r].op = "ask"
  /\ ConnectionFree
  /\ \E e \in req[r].todo :
       /\ rows[e] # << >>
       /\ req' = [req EXCEPT ![r] = Answered(r, e)]
  /\ UNCHANGED <<raw, rows, day, calls, early, disturbed>>

\* There is no row: the session goes on to count the records.
FindNoRow(r) ==
  /\ req[r].op = "ask"
  /\ ConnectionFree
  /\ \E e \in req[r].todo :
       /\ rows[e] = << >>
       /\ req' = [req EXCEPT ![r] =
                    [op |-> "count", all |-> req[r].all, todo |-> req[r].todo, event |-> e,
                     at |-> 1, counted |-> Zero]]
  /\ UNCHANGED <<raw, rows, day, calls, early, disturbed>>

\* The queries in their order; the other two counters are differences.
CountOrder == <<"scan", "valid", "transfer", "successful", "attempt">>

CountRecords(r) ==
  LET c == CountOrder[req[r].at] IN
  /\ req[r].op = "count" /\ req[r].at <= 5
  /\ req' = [req EXCEPT ![r] =
               [req[r] EXCEPT !.at = req[r].at + 1,
                              !.counted = [req[r].counted EXCEPT ![c] = Recorded(c, raw[req[r].event])]]]
  /\ UNCHANGED <<raw, rows, day, calls, early, disturbed>>

Difference(n) ==
  [n EXCEPT !["invalid"] = n["scan"] - n["valid"],
            !["failed"] = n["transfer"] - n["successful"]]

InsertCounted(r) ==
  LET e == req[r].event IN
  /\ req[r].op = "count" /\ req[r].at = 6
  /\ rows' = [rows EXCEPT ![e] = Append(@, [day |-> day, n |-> Difference(req[r].counted)])]
  /\ early' = [early EXCEPT ![e] = @ + Cardinality(Pending(e))]
  /\ disturbed' = IF Pending(e) = {} /\ rows[e] = << >>
                     /\ \A c \in Counters : Difference(req[r].counted)[c] = Recorded(c, raw[e])
                  THEN disturbed ELSE disturbed \cup {e}
  /\ req' = [req EXCEPT ![r] = Answered(r, e)]
  /\ UNCHANGED <<raw, day, calls>>

\* A query fails, or the pool gives no connection in time: the error ends the request and
\* closes its sessions, the outer one included.
AskFails(r) ==
  /\ req[r].op \in {"ask", "count"}
  /\ req' = [req EXCEPT ![r] = Idle]
  /\ UNCHANGED <<raw, rows, day, calls, early, disturbed>>

\* pool_timeout of the engine.  (A bug: without it a request would wait for ever.)
PoolWaits(r) == r \notin Requests /\ AskFails(r)

PoolTimeout(r) == ~ConnectionFree /\ req[r].op = "ask" /\ AskFails(r)

----------------------------------------------------------------------------
(* The process and the clock *)

\* The process dies and comes back: what was in flight is gone, the tables stay.
Restart ==
  /\ \E r \in Requests : req[r] # Idle
  /\ disturbed' = disturbed \cup {e \in Events : Pending(e) # {}}
  /\ req' = [r \in Requests |-> Idle]
  /\ UNCHANGED <<raw, rows, day, calls, early>>

NextDay ==
  /\ day < MaxDay
  /\ day' = day + 1
  /\ disturbed' = Events
  /\ UNCHANGED <<raw, rows, req, calls, early>>

LogStep(r) == ReadRow(r) \/ WriteRow(r) \/ UpdateFails(r)

AskStep(r) ==
  \/ AnswerNothing(r) \/ AnswerFromRow(r) \/ FindNoRow(r)
  \/ CountRecords(r) \/ InsertCounted(r) \/ PoolTimeout(r)

LogCall(r) ==
  \E e \in Events : LogTicketScan(r, e) \/ LogTicketTransfer(r, e) \/ LogInvalidAttempt(r, e)

\* GET /stats, for one event or for all.
StatsCall(r) == AskForAll(r) \/ \E e \in Events : AskForEvent(r, e)

Next ==
  \/ \E r \in Requests : LogCall(r) \/ StatsCall(r) \/ LogStep(r) \/ AskStep(r) \/ AskFails(r)
  \/ Restart \/ NextDay

\* A statement ends, with a result or an error, and the pool raises after its timeout.
\* Nothing is assumed of callers, of restarts or of other failures.
Fairness == \A r \in Requests : WF_vars(LogStep(r)) /\ WF_vars(AskStep(r))

Spec == Init /\ [][Next]_vars /\ Fairness

----------------------------------------------------------------------------
(* Properties *)

\* Every variable has its type.  A row's counters are integers, not naturals: the differences
\* of two counts taken one after the other may be negative.
TypeOK ==
  /\ raw \in [Events -> [Kinds -> Nat]]
  /\ rows \in [Events -> Seq(Row)]
  /\ req \in [Requests -> Request]
  /\ \A r \in Requests : req[r].op = "update" => req[r].seen <= Len(rows[req[r].event])
  /\ day \in Nat /\ calls \in Nat
  /\ early \in [Events -> Nat]
  /\ disturbed \subseteq Events

\* A counter exceeds the records it stands for only by updates that were still to come when a
\* first reader had counted their records already (log_ticket_scan commits the record and the
\* counters separately, get_stats_for_event counts in between).
OvercountNeedsFirstReader ==
  \A e \in Events : \A i \in 1 .. Len(rows[e]) : \A c \in Counters :
    rows[e][i].n[c] <= Recorded(c, raw[e]) + early[e]

\* What the counter of the latest row will be when the pending updates have ended.
Settled(e, c) ==
  LatestRow(e).n[c] + Cardinality({r \in Pending(e) : c \in Bumped(req[r].kind)})

\* As long as no two updates of an event overlap, none fails or is lost in a restart, no first
\* reader meets a pending one and the day does not change, the latest row of the event is exact
\* but for the updates still to come, and agrees with the totals that the listings show.
UndisturbedRowsAreExact ==
  \A e \in Events \ disturbed : rows[e] # << >> =>
    /\ \A c \in Counters : Settled(e, c) = Recorded(c, raw[e])
    /\ Settled(e, "scan") = ListedScans(e)
    /\ Settled(e, "transfer") = ListedTransfers(e)
    /\ Settled(e, "attempt") = ListedAttempts(e)

\* Every call comes to an end, although calls for all events hold one connection of the bounded
\* pool while they wait for another.
RequestsEnd == \A r \in Requests : (req[r] # Idle) ~> (req[r] = Idle)
=============================================================================
