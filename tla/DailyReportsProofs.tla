------------------------- MODULE DailyReportsProofs -------------------------
(***************************************************************************)
(* Proofs about DailyReports.  What a request has read stays true of the   *)
(* tables, whatever is loaded while it goes on: an event that was named    *)
(* once stays named.  And what a row lists was written before the row.     *)
(***************************************************************************)
EXTENDS DailyReports, TLAPS

\* sm, rf, fs, ct, ls: summary, refused, files, contested, lost.
Known(e, sm, rf) == sm[e] # {} \/ e \in rf

Readable(n, fs, ct, ls) == fs[n].state = "whole" \/ n \in ct \/ n \in ls

\* What a request relies on.
Fits(q, sm, rf, fs, ct, ls) ==
  /\ q.stage = "query" => /\ q.queries <= 1
                          /\ q.queries = 1 => \A e \in q.sold : Known(e, sm, rf)
  /\ q.stage \in {"open", "write"} => \A e \in q.sold : e \in q.named \/ e \in rf
  /\ q.stage = "write" => fs[q.name].state # "none"
  /\ q.stage = "insert" => Readable(q.name, fs, ct, ls)
  /\ q.stage \in {"idle", "check", "answered", "failed"} => q.queries = 0

SalesKnown ==
  \A e \in Events, d \in Days : daily[<<e, d>>] # {} => Known(e, summary, refused)

RowsReadable == \A w \in rows : Readable(w.name, files, contested, lost)

RequestsFit ==
  \A r \in Requests : Fits(req[r], summary, refused, files, contested, lost)

ReportInv ==
  /\ TypeOK
  /\ SalesKnown
  /\ RowsReadable
  /\ ReportsNameTheirEvents
  /\ RequestsFit

-----------------------------------------------------------------------------
(* Requests.                                                               *)

LEMMA SomeNames ==
  /\ \A a \in Asks, t \in 0..MaxTime : [day |-> a.day, at |-> t, fmt |-> a.fmt] \in Names
  /\ (CHOOSE n \in Names : TRUE) \in Names
  /\ (CHOOSE a \in Asks : TRUE) \in Asks
<1>1. \A a \in Asks, t \in 0..MaxTime : [day |-> a.day, at |-> t, fmt |-> a.fmt] \in Names
  BY DEF Names
<1>2. 0 \in 0..MaxTime /\ Asks # {}
  BY Bounds
<1> QED
  BY <1>1, <1>2

\* A request that begins, and one whose query is answered.
Begun(p, stage, a) == [p EXCEPT !.stage = stage, !.ask = a, !.queries = 0]

Queried(p, k, stage, S, N) == [p EXCEPT !.queries = k, !.stage = stage, !.sold = S, !.named = N]

LEMMA BegunTyped ==
  ASSUME NEW p \in Request, NEW stage \in Stages, NEW a \in Asks
  PROVE  /\ Begun(p, stage, a) \in Request
         /\ Begun(p, stage, a).stage = stage /\ Begun(p, stage, a).queries = 0
<1>1. 0 \in 0..2
  OBVIOUS
<1> QED
  BY <1>1 DEF Begun, Request

LEMMA QueriedTyped ==
  ASSUME NEW p \in Request, NEW k \in 0..2, NEW stage \in Stages,
         NEW S \in SUBSET Events, NEW N \in SUBSET Events
  PROVE  LET q == Queried(p, k, stage, S, N) IN
           /\ q \in Request /\ q.queries = k /\ q.stage = stage /\ q.sold = S /\ q.named = N
BY DEF Queried, Request

LEMMA EndedFits ==
  ASSUME NEW stage \in {"idle", "answered", "failed"}
  PROVE  /\ Ended(stage) \in Request
         /\ Ended(stage).stage = stage
         /\ \A sm, rf, fs, ct, ls : Fits(Ended(stage), sm, rf, fs, ct, ls)
<1>1. Ended(stage) \in Request /\ Ended(stage).stage = stage /\ Ended(stage).queries = 0
  BY SomeNames DEF Ended, Request, Stages
<1> QED
  BY <1>1 DEF Fits

\* One request moves; another may rely on no file that changes.
LEMMA OneMoves ==
  ASSUME ReportInv, NEW r \in Requests, NEW q \in Request,
         req' = [req EXCEPT ![r] = q],
         UNCHANGED <<tableVars, now, lost>>, started' \in 0..MaxRequests,
         files' \in [Names -> File], rows' \subseteq Row, contested' \subseteq Names,
         RowsReadable', ReportsNameTheirEvents',
         Fits(q, summary, refused, files', contested', lost),
         \A s \in Requests \ {r} : Fits(req[s], summary, refused, files', contested', lost)
  PROVE  ReportInv'
<1>1. \A s \in Requests : req'[s] = IF s = r THEN q ELSE req[s]
  BY DEF ReportInv, TypeOK
<1>2. TypeOK'
  BY DEF ReportInv, TypeOK, tableVars
<1>3. SalesKnown'
  BY DEF ReportInv, SalesKnown, tableVars
<1>4. RequestsFit'
  BY <1>1 DEF RequestsFit, tableVars
<1> QED
  BY <1>2, <1>3, <1>4 DEF ReportInv

LEMMA OneGoesOn ==
  ASSUME ReportInv, NEW r \in Requests, NEW q \in Request,
         req' = [req EXCEPT ![r] = q],
         UNCHANGED <<tableVars, now, files, rows, contested, lost>>, started' \in 0..MaxRequests,
         Fits(q, summary, refused, files, contested, lost)
  PROVE  ReportInv'
<1>1. /\ files' \in [Names -> File] /\ rows' \subseteq Row /\ contested' \subseteq Names
      /\ UNCHANGED <<tableVars, now, lost>>
  BY DEF ReportInv, TypeOK
<1>2. RowsReadable' /\ ReportsNameTheirEvents'
  BY DEF ReportInv, RowsReadable, ReportsNameTheirEvents, tableVars
<1>3. /\ Fits(q, summary, refused, files', contested', lost)
      /\ \A s \in Requests \ {r} : Fits(req[s], summary, refused, files', contested', lost)
  BY DEF ReportInv, RequestsFit
<1> QED
  BY <1>1, <1>2, <1>3, OneMoves

LEMMA Typed ==
  ASSUME ReportInv, NEW r \in Requests
  PROVE  /\ req[r] \in Request
         /\ Fits(req[r], summary, refused, files, contested, lost)
         /\ req \in [Requests -> Request] /\ started \in 0..MaxRequests
         /\ files \in [Names -> File] /\ rows \subseteq Row /\ contested \subseteq Names
         /\ now \in 0..MaxTime
BY DEF ReportInv, TypeOK, RequestsFit

LEMMA BeginKeeps ==
  ASSUME ReportInv, NEW r \in Requests, NEW a \in Asks, NEW forced \in BOOLEAN, Begin(r, a, forced)
  PROVE  ReportInv'
<1> DEFINE first == IF forced THEN "query" ELSE "check"
           q == Begun(req[r], first, a)
<1>1. req' = [req EXCEPT ![r] = q] /\ UNCHANGED <<tableVars, now, files, rows, contested, lost>>
  BY DEF Begin, Begun
<1>2. started' \in 0..MaxRequests
  BY Typed, Bounds DEF Begin
<1>3. first \in {"query", "check"} /\ first \in Stages
  BY DEF Stages
<1> HIDE DEF first
<1>4. q \in Request /\ q.stage = first /\ q.queries = 0
  BY <1>3, Typed, BegunTyped
<1> HIDE DEF q
<1>5. Fits(q, summary, refused, files, contested, lost)
  BY <1>3, <1>4 DEF Fits
<1> QED
  BY <1>1, <1>2, <1>4, <1>5, OneGoesOn

LEMMA CheckCacheKeeps ==
  ASSUME ReportInv, NEW r \in Requests, CheckCache(r)
  PROVE  ReportInv'
<1>1. UNCHANGED <<tableVars, now, files, rows, contested, lost>> /\ started' \in 0..MaxRequests
  BY Typed DEF CheckCache
<1>2. ASSUME NEW w \in rows, req' = [req EXCEPT ![r].stage = "found", ![r].name = w.name]
      PROVE  ReportInv'
  <2> DEFINE q == [req[r] EXCEPT !.stage = "found", !.name = w.name]
  <2>1. w.name \in Names
    BY Typed DEF Row
  <2>2. q \in Request /\ q.stage = "found"
    BY <2>1, Typed DEF Request, Stages
  <2>3. req' = [req EXCEPT ![r] = q]
    BY <1>2
  <2>4. Fits(q, summary, refused, files, contested, lost)
    BY <2>2 DEF Fits
  <2> HIDE DEF q
  <2> QED
    BY <1>1, <2>2, <2>3, <2>4, OneGoesOn
<1>3. ASSUME req' = [req EXCEPT ![r].stage = "query"], req[r].queries = 0 PROVE ReportInv'
  <2> DEFINE q == [req[r] EXCEPT !.stage = "query"]
  <2>2. q \in Request /\ q.stage = "query" /\ q.queries = 0
    BY <1>3, Typed DEF Request, Stages
  <2>3. req' = [req EXCEPT ![r] = q]
    BY <1>3
  <2>4. Fits(q, summary, refused, files, contested, lost)
    BY <2>2 DEF Fits
  <2> HIDE DEF q
  <2> QED
    BY <1>1, <2>2, <2>3, <2>4, OneGoesOn
<1>4. req[r].stage = "check" /\ req[r].queries = 0
  BY Typed DEF CheckCache, Fits
<1>5. CASE \E w \in Newest(CachedRows(req[r].ask)) :
              req' = [req EXCEPT ![r].stage = "found", ![r].name = w.name]
  BY <1>2, <1>5 DEF Newest, CachedRows
<1>6. CASE req' = [req EXCEPT ![r].stage = "query"]
  BY <1>3, <1>4, <1>6
<1> QED
  BY <1>5, <1>6 DEF CheckCache

LEMMA QueryKeeps ==
  ASSUME ReportInv, NEW r \in Requests, Query(r)
  PROVE  ReportInv'
<1>1. /\ UNCHANGED <<tableVars, now, files, rows, contested, lost>>
      /\ started' \in 0..MaxRequests
      /\ req[r].stage = "query" /\ req[r].queries \in {0, 1}
  BY Typed DEF Query, Fits, Request
<1>2. SoldOn(req[r].ask.day) \in SUBSET Events /\ Named \in SUBSET Events
  BY DEF SoldOn, Named
<1>3. CASE req[r].queries = 0
  <2> DEFINE q == Queried(req[r], 1, "query", SoldOn(req[r].ask.day), req[r].named)
  <2>1. req' = [req EXCEPT ![r] = q]
    BY <1>3 DEF Query, QueryOrder, Queried
  <2>2. req[r].named \in SUBSET Events /\ 1 \in 0..2 /\ "query" \in Stages
    BY Typed DEF Request, Stages
  <2>3. q \in Request /\ q.stage = "query" /\ q.queries = 1 /\ q.sold = SoldOn(req[r].ask.day)
    BY <1>2, <2>2, Typed, QueriedTyped
  <2> HIDE DEF q
  <2>4. req[r].ask.day \in Days
    BY Typed, Bounds DEF Request
  <2>5. \A e \in q.sold : Known(e, summary, refused)
    BY <2>3, <2>4 DEF SoldOn, ReportInv, SalesKnown
  <2>6. Fits(q, summary, refused, files, contested, lost)
    BY <2>3, <2>5 DEF Fits
  <2> QED
    BY <1>1, <2>1, <2>3, <2>6, OneGoesOn
<1>4. CASE req[r].queries = 1
  <2> DEFINE q == Queried(req[r], 2, "open", req[r].sold, Named)
  <2>1. req' = [req EXCEPT ![r] = q]
    BY <1>4 DEF Query, QueryOrder, Queried
  <2>2. req[r].sold \in SUBSET Events /\ 2 \in 0..2 /\ "open" \in Stages
    BY Typed DEF Request, Stages
  <2>3. q \in Request /\ q.stage = "open" /\ q.sold = req[r].sold /\ q.named = Named
    BY <1>2, <2>2, Typed, QueriedTyped
  <2> HIDE DEF q
  <2>4. \A e \in req[r].sold : e \in Events /\ Known(e, summary, refused)
    BY <1>1, <1>4, <2>2, Typed DEF Fits
  <2>5. \A e \in q.sold : e \in q.named \/ e \in refused
    BY <2>3, <2>4 DEF Known, Named
  <2>6. Fits(q, summary, refused, files, contested, lost)
    BY <2>3, <2>5 DEF Fits
  <2> QED
    BY <1>1, <2>1, <2>3, <2>6, OneGoesOn
<1> QED
  BY <1>1, <1>3, <1>4

LEMMA EndKeeps ==
  ASSUME ReportInv, NEW r \in Requests, NEW stage \in {"answered", "failed"},
         req' = [req EXCEPT ![r] = Ended(stage)],
         UNCHANGED <<tableVars, now, files, rows, started, contested, lost>>
  PROVE  ReportInv'
<1>1. /\ Ended(stage) \in Request
      /\ Fits(Ended(stage), summary, refused, files, contested, lost)
  BY EndedFits
<1>2. started' \in 0..MaxRequests
  BY Typed
<1> QED
  BY <1>1, <1>2, OneGoesOn

LEMMA OpenFileKeeps ==
  ASSUME ReportInv, NEW r \in Requests, OpenFile(r)
  PROVE  ReportInv'
<1> DEFINE n == [day |-> req[r].ask.day, at |-> now, fmt |-> req[r].ask.fmt]
           q == [req[r] EXCEPT !.stage = "write", !.name = n]
           part == [NoFile EXCEPT !.state = "part"]
<1>1. n \in Names
  <2>1. req[r].ask \in Asks /\ now \in 0..MaxTime
    BY Typed DEF Request
  <2> QED
    BY <2>1, SomeNames
<1>2. /\ req' = [req EXCEPT ![r] = q] /\ files' = [files EXCEPT ![n] = part]
      /\ contested' = IF files[n].state = "none" THEN contested ELSE contested \cup {n}
      /\ UNCHANGED <<tableVars, now, rows, started, lost>> /\ req[r].stage = "open"
  BY DEF OpenFile
<1> HIDE DEF n
<1>3. part = [state |-> "part", sold |-> {}, named |-> {}]
  BY DEF NoFile
<1>4. part \in File /\ part.state = "part" /\ part.sold = {}
  BY <1>3 DEF File
<1> HIDE DEF part
<1>5. q \in Request /\ q.stage = "write" /\ q.name = n /\ q.sold = req[r].sold /\ q.named = req[r].named
  BY <1>1, Typed DEF Request, Stages
<1> HIDE DEF q
<1>6. \A m \in Names : /\ files'[m] = IF m = n THEN part ELSE files[m]
                       /\ Readable(m, files, contested, lost) => Readable(m, files', contested', lost)
  <2>1. \A m \in Names : files'[m] = IF m = n THEN part ELSE files[m]
    BY <1>1, <1>2, Typed
  <2>2. files[n].state = "whole" => n \in contested'
    BY <1>2
  <2>3. contested \subseteq contested'
    BY <1>2
  <2> QED
    BY <2>1, <2>2, <2>3 DEF Readable
<1>7. /\ files' \in [Names -> File] /\ rows' \subseteq Row /\ contested' \subseteq Names
      /\ started' \in 0..MaxRequests
  BY <1>1, <1>2, <1>4, Typed
<1>8. RowsReadable'
  <2>1. \A w \in rows : w.name \in Names
    BY Typed DEF Row
  <2> QED
    BY <1>2, <1>6, <2>1 DEF ReportInv, RowsReadable
<1>9. ReportsNameTheirEvents'
  BY <1>2, <1>4, <1>6 DEF ReportInv, ReportsNameTheirEvents, tableVars
<1>10. Fits(q, summary, refused, files', contested', lost)
  <2>1. \A e \in q.sold : e \in q.named \/ e \in refused
    BY <1>2, <1>5, Typed DEF Fits
  <2>2. files'[q.name].state # "none"
    BY <1>1, <1>4, <1>5, <1>6
  <2> QED
    BY <1>5, <2>1, <2>2 DEF Fits
<1>11. \A s \in Requests \ {r} : Fits(req[s], summary, refused, files', contested', lost)
  <2> TAKE s \in Requests \ {r}
  <2>1. req[s].name \in Names /\ Fits(req[s], summary, refused, files, contested, lost)
    BY Typed DEF Request
  <2>2. files[req[s].name].state # "none" => files'[req[s].name].state # "none"
    BY <1>4, <1>6, <2>1
  <2> QED
    BY <1>6, <2>1, <2>2 DEF Fits
<1> QED
  BY <1>2, <1>5, <1>7, <1>8, <1>9, <1>10, <1>11, OneMoves

LEMMA WriteFileKeeps ==
  ASSUME ReportInv, NEW r \in Requests, WriteFile(r)
  PROVE  ReportInv'
<1> DEFINE p == req[r]
           n == p.name
           q == [p EXCEPT !.stage = "insert", !.sold = {}, !.named = {}]
           report == [state |-> "whole", sold |-> p.sold, named |-> p.named]
           mixed == [NoFile EXCEPT !.state = "mixed"]
<1>1. /\ req' = [req EXCEPT ![r] = q] /\ p.stage = "write"
      /\ \/ files' = [files EXCEPT ![n] = report]
         \/ n \in contested /\ files' = [files EXCEPT ![n] = mixed]
      /\ UNCHANGED <<tableVars, now, rows, started, contested, lost>>
  BY DEF WriteFile
<1>2. p \in Request /\ n \in Names /\ p.sold \subseteq Events /\ p.named \subseteq Events
  BY Typed DEF Request
<1>3. q \in Request /\ q.stage = "insert" /\ q.name = n
  BY <1>2 DEF Request, Stages
<1>4. mixed = [state |-> "mixed", sold |-> {}, named |-> {}]
  BY DEF NoFile
<1>5. /\ report \in File /\ report.state = "whole" /\ report.sold = p.sold /\ report.named = p.named
      /\ mixed \in File /\ mixed.state = "mixed"
  BY <1>2, <1>4 DEF File
<1>6. \A e \in p.sold : e \in p.named \/ e \in refused
  BY <1>1, Typed DEF Fits
<1> HIDE DEF p, n, q, report, mixed
<1>7. PICK f \in {report, mixed} : /\ files' = [files EXCEPT ![n] = f]
                                   /\ f = mixed => n \in contested
  <2>1. CASE files' = [files EXCEPT ![n] = report]
    BY <1>5, <2>1
  <2>2. CASE n \in contested /\ files' = [files EXCEPT ![n] = mixed]
    BY <2>2
  <2> QED
    BY <1>1, <2>1, <2>2
<1>8. f \in File /\ f.state # "none" /\ (f.state = "whole" \/ n \in contested)
  BY <1>5, <1>7
<1>9. \A m \in Names : files'[m] = IF m = n THEN f ELSE files[m]
  BY <1>7, Typed
<1>10. \A m \in Names : /\ Readable(m, files, contested, lost) => Readable(m, files', contested', lost)
                        /\ files[m].state # "none" => files'[m].state # "none"
  BY <1>1, <1>8, <1>9 DEF Readable
<1>11. /\ files' \in [Names -> File] /\ rows' \subseteq Row /\ contested' \subseteq Names
       /\ started' \in 0..MaxRequests
  BY <1>1, <1>7, <1>8, Typed
<1>12. RowsReadable'
  <2>1. \A w \in rows : w.name \in Names
    BY Typed DEF Row
  <2> QED
    BY <1>1, <1>10, <2>1 DEF ReportInv, RowsReadable
<1>13. ReportsNameTheirEvents'
  <2>1. f.state = "whole" => f = report
    BY <1>5, <1>7
  <2>2. f.state = "whole" => \A e \in f.sold : e \in f.named \/ e \in refused
    BY <1>5, <1>6, <2>1
  <2> QED
    BY <1>1, <1>9, <2>2 DEF ReportInv, ReportsNameTheirEvents, tableVars
<1>14. Fits(q, summary, refused, files', contested', lost)
  <2>1. Readable(q.name, files', contested', lost)
    BY <1>1, <1>2, <1>3, <1>8, <1>9 DEF Readable
  <2> QED
    BY <1>3, <2>1 DEF Fits
<1>15. \A s \in Requests \ {r} : Fits(req[s], summary, refused, files', contested', lost)
  <2> TAKE s \in Requests \ {r}
  <2>1. req[s].name \in Names /\ Fits(req[s], summary, refused, files, contested, lost)
    BY Typed DEF Request
  <2> QED
    BY <1>10, <2>1 DEF Fits
<1> QED
  BY <1>1, <1>3, <1>11, <1>12, <1>13, <1>14, <1>15, OneMoves

LEMMA InsertRowKeeps ==
  ASSUME ReportInv, NEW r \in Requests, InsertRow(r)
  PROVE  ReportInv'
<1> DEFINE q == [req[r] EXCEPT !.stage = "again"]
<1>1. /\ req' = [req EXCEPT ![r] = q] /\ rows' = rows \cup {ReportRow(r)}
      /\ UNCHANGED <<tableVars, now, files, started, contested, lost>> /\ req[r].stage = "insert"
  BY DEF InsertRow
<1>2. q \in Request /\ q.stage = "again"
  BY Typed DEF Request, Stages
<1> HIDE DEF q
<1>3. ReportRow(r) \in Row /\ ReportRow(r).name = req[r].name
  <2>1. req[r].name \in Names /\ req[r].ask \in Asks /\ now \in 0..MaxTime
    BY Typed DEF Request
  <2> QED
    BY <2>1 DEF ReportRow, Row
<1>4. Readable(req[r].name, files, contested, lost)
  BY <1>1, Typed DEF Fits
<1>5. RowsReadable'
  BY <1>1, <1>3, <1>4 DEF ReportInv, RowsReadable
<1>6. ReportsNameTheirEvents'
  BY <1>1 DEF ReportInv, ReportsNameTheirEvents, tableVars
<1>7. /\ files' \in [Names -> File] /\ rows' \subseteq Row /\ contested' \subseteq Names
      /\ started' \in 0..MaxRequests
  BY <1>1, <1>3, Typed
<1>8. /\ Fits(q, summary, refused, files', contested', lost)
      /\ \A s \in Requests \ {r} : Fits(req[s], summary, refused, files', contested', lost)
  BY <1>1, <1>2, Typed DEF Fits
<1> QED
  BY <1>1, <1>2, <1>5, <1>6, <1>7, <1>8, OneMoves

-----------------------------------------------------------------------------
(* The world around the requests.                                          *)

\* The tables change, and every event that was known still is.
LEMMA TablesMove ==
  ASSUME ReportInv, UNCHANGED reportVars, refused' \subseteq Events, SalesKnown',
         refused \subseteq refused',
         \A e \in Events : Known(e, summary, refused) => Known(e, summary', refused')
  PROVE  ReportInv'
<1>1. TypeOK' /\ RowsReadable'
  BY DEF ReportInv, TypeOK, RowsReadable, Readable, reportVars
<1>2. ReportsNameTheirEvents'
  BY DEF ReportInv, ReportsNameTheirEvents, reportVars
<1>3. ASSUME NEW r \in Requests
      PROVE  Fits(req[r], summary', refused', files, contested, lost)
  <2>1. req[r].sold \subseteq Events
    BY Typed DEF Request
  <2> QED
    BY <2>1, Typed DEF Fits
<1>4. RequestsFit'
  BY <1>3 DEF RequestsFit, reportVars
<1> QED
  BY <1>1, <1>2, <1>4 DEF ReportInv

LEMMA LoadKeeps ==
  ASSUME ReportInv, NEW S \in SUBSET DOMAIN sales, Load(S)
  PROVE  ReportInv'
<1>1. /\ UNCHANGED reportVars
      /\ refused' = refused \cup {e \in Events : /\ Tables!EventSales(S, e) # {}
                                                 /\ ~Tables!ValidEventRow(S, e)}
  BY DEF Load
<1>2. \A e \in Events : summary'[e] = IF Tables!ValidEventRow(S, e)
                                      THEN Tables!EventSales(S, e) ELSE summary[e]
  BY DEF Load, Tables!Load
<1>3. \A e \in Events, d \in Days :
        daily'[<<e, d>>] = IF Tables!ValidDailyRow(S, <<e, d>>)
                           THEN Tables!DailySales(S, <<e, d>>) ELSE daily[<<e, d>>]
  BY DEF Load, Tables!Load
<1>4. \A e \in Events : Tables!ValidEventRow(S, e) => Tables!EventSales(S, e) # {}
  BY DEF Tables!ValidEventRow
<1>5. \A e \in Events, d \in Days :
        Tables!ValidDailyRow(S, <<e, d>>) => Tables!EventSales(S, e) # {}
  BY DEF Tables!ValidDailyRow, Tables!DailySales, Tables!EventSales
<1>6. \A e \in Events : Known(e, summary, refused) => Known(e, summary', refused')
  BY <1>1, <1>2, <1>4 DEF Known
<1>7. \A e \in Events : Tables!EventSales(S, e) # {} => Known(e, summary', refused')
  BY <1>1, <1>2, <1>4 DEF Known
<1>8. SalesKnown'
  <2> SUFFICES ASSUME NEW e \in Events, NEW d \in Days, daily'[<<e, d>>] # {}
               PROVE  Known(e, summary', refused')
    BY DEF SalesKnown
  <2>1. CASE Tables!ValidDailyRow(S, <<e, d>>)
    BY <1>5, <1>7, <2>1
  <2>2. CASE ~Tables!ValidDailyRow(S, <<e, d>>)
    BY <1>3, <1>6, <2>2 DEF ReportInv, SalesKnown
  <2> QED
    BY <2>1, <2>2
<1>9. refused' \subseteq Events /\ refused \subseteq refused'
  BY <1>1 DEF ReportInv, TypeOK
<1> QED
  BY <1>1, <1>6, <1>8, <1>9, TablesMove

LEMMA SellKeeps ==
  ASSUME ReportInv, NEW kind \in SaleKinds, Sell(kind)
  PROVE  ReportInv'
<1>1. UNCHANGED <<refused, reportVars, summary, daily>>
  BY DEF Sell, Tables!Sell
<1>2. SalesKnown'
  BY <1>1 DEF ReportInv, SalesKnown
<1>3. refused' \subseteq Events
  BY <1>1 DEF ReportInv, TypeOK
<1> QED
  BY <1>1, <1>2, <1>3, TablesMove

LEMMA TickKeeps ==
  ASSUME ReportInv, Tick
  PROVE  ReportInv'
<1>1. UNCHANGED <<tableVars, files, rows, req, started, contested, lost>> /\ now' \in 0..MaxTime
  BY Bounds DEF Tick, ReportInv, TypeOK
<1>2. TypeOK' /\ SalesKnown' /\ RowsReadable' /\ ReportsNameTheirEvents' /\ RequestsFit'
  BY <1>1 DEF ReportInv, TypeOK, SalesKnown, RowsReadable, ReportsNameTheirEvents, RequestsFit,
              tableVars
<1> QED
  BY <1>2 DEF ReportInv

LEMMA RestartKeeps ==
  ASSUME ReportInv, Restart
  PROVE  ReportInv'
<1>1. /\ req' = [r \in Requests |-> IF UnderWay(r) THEN Ended("failed") ELSE req[r]]
      /\ UNCHANGED <<tableVars, now, started, contested>> /\ rows' = rows
  BY DEF Restart, BackfilledRows
<1>2. NoFile \in File /\ NoFile.state = "none" /\ NoFile.sold = {}
  BY DEF File, NoFile
<1>3. /\ files' \in [Names -> File] /\ lost' \subseteq Names
      /\ \A n \in Names : /\ files'[n] = files[n] \/ files'[n] = NoFile
                          /\ Readable(n, files, contested, lost) => Readable(n, files', contested', lost')
  <2>1. CASE UNCHANGED <<files, lost>>
    BY <1>1, <2>1 DEF ReportInv, TypeOK, Readable
  <2>2. CASE /\ files' = [n \in Names |-> NoFile]
             /\ lost' = lost \cup {n \in Names : files[n].state # "none"}
    BY <1>1, <1>2, <2>2 DEF ReportInv, TypeOK, Readable
  <2> QED
    BY <2>1, <2>2 DEF Restart
<1>4. \A r \in Requests : /\ req'[r] \in Request
                          /\ Fits(req'[r], summary, refused, files', contested', lost')
  <2> TAKE r \in Requests
  <2>1. CASE UnderWay(r)
    <3>1. req'[r] = Ended("failed")
      BY <1>1, <2>1
    <3> QED
      BY <3>1, EndedFits
  <2>2. CASE ~UnderWay(r)
    <3>1. req'[r] = req[r] /\ req[r].stage \in {"idle", "answered", "failed"}
      BY <1>1, <2>2 DEF UnderWay
    <3> QED
      BY <3>1, Typed DEF Fits
  <2> QED
    BY <2>1, <2>2
<1>5. req' \in [Requests -> Request]
  BY <1>1, <1>4
<1>6. TypeOK' /\ SalesKnown'
  BY <1>1, <1>3, <1>5 DEF ReportInv, TypeOK, SalesKnown, tableVars
<1>7. RowsReadable'
  <2>1. \A w \in rows : w.name \in Names
    BY DEF ReportInv, TypeOK, Row
  <2> QED
    BY <1>1, <1>3, <2>1 DEF ReportInv, RowsReadable
<1>8. ReportsNameTheirEvents'
  BY <1>1, <1>2, <1>3 DEF ReportInv, ReportsNameTheirEvents, tableVars
<1>9. RequestsFit'
  BY <1>1, <1>4 DEF RequestsFit, tableVars
<1> QED
  BY <1>6, <1>7, <1>8, <1>9 DEF ReportInv

-----------------------------------------------------------------------------
(* The invariant, and the properties that follow.                          *)

LEMMA ReportInit == Init => ReportInv
<1> SUFFICES ASSUME Init PROVE ReportInv
  OBVIOUS
<1>1. NoFile \in File /\ NoFile.sold = {}
  BY DEF File, NoFile
<1>2. 0 \in 0..MaxTime /\ 0 \in 0..MaxRequests
  BY Bounds
<1>3. \A r \in Requests : req[r] = Ended("idle") /\ req[r] \in Request
  BY EndedFits DEF Init
<1>4. TypeOK
  BY <1>1, <1>2, <1>3 DEF Init, TypeOK
<1>5. SalesKnown
  BY DEF Init, Tables!Init, SalesKnown
<1>6. RowsReadable /\ ReportsNameTheirEvents
  BY <1>1 DEF Init, RowsReadable, ReportsNameTheirEvents
<1>7. RequestsFit
  BY <1>3, EndedFits DEF RequestsFit
<1> QED
  BY <1>4, <1>5, <1>6, <1>7 DEF ReportInv

LEMMA ReportStep == ReportInv /\ [Next]_vars => ReportInv'
<1> SUFFICES ASSUME ReportInv, [Next]_vars PROVE ReportInv'
  OBVIOUS
<1>1. CASE \E kind \in SaleKinds : Sell(kind)
  BY <1>1, SellKeeps
<1>2. CASE \E S \in SUBSET DOMAIN sales : Load(S)
  BY <1>2, LoadKeeps
<1>3. CASE Tick
  BY <1>3, TickKeeps
<1>4. CASE Restart
  BY <1>4, RestartKeeps
<1>5. ASSUME NEW r \in Requests, NEW a \in Asks, NEW forced \in BOOLEAN, Begin(r, a, forced)
      PROVE  ReportInv'
  BY <1>5, BeginKeeps
<1>6. ASSUME NEW r \in Requests, Step(r) PROVE ReportInv'
  <2>1. CASE InsertAgain(r)
    BY <2>1, EndKeeps DEF InsertAgain
  <2>2. CASE Answer(r)
    BY <2>2, EndKeeps DEF Answer
  <2> QED
    BY <1>6, <2>1, <2>2, CheckCacheKeeps, QueryKeeps, OpenFileKeeps, WriteFileKeeps, InsertRowKeeps
    DEF Step
<1>7. ASSUME NEW r \in Requests, Fail(r) PROVE ReportInv'
  BY <1>7, EndKeeps DEF Fail
<1>8. CASE UNCHANGED vars
  BY <1>8 DEF vars, tableVars, reportVars, ReportInv, TypeOK, SalesKnown, RowsReadable,
              ReportsNameTheirEvents, RequestsFit
<1> QED
  BY <1>1, <1>2, <1>3, <1>4, <1>5, <1>6, <1>7, <1>8 DEF Next

LEMMA ReportInvariant == Spec => []ReportInv
<1> QED
  BY ReportInit, ReportStep, PTL DEF Spec

\* Every variable of the reports keeps its type, for any number of requests,
\* events, days and files.
THEOREM ReportTypes == Spec => []TypeOK
<1>1. ReportInv => TypeOK
  BY DEF ReportInv
<1> QED
  BY <1>1, ReportInvariant, PTL

\* generate_daily_report_csv never writes "Unknown" for an event it lists
\* sales of, whatever is loaded between its two queries, unless a load once
\* left the event's summary row out.
THEOREM ReportsNamed == Spec => []ReportsNameTheirEvents
<1>1. ReportInv => ReportsNameTheirEvents
  BY DEF ReportInv
<1> QED
  BY <1>1, ReportInvariant, PTL

\* What get_reports_list shows can be downloaded whole, unless two requests
\* of one second wrote it or a redeployment removed it.
THEOREM ReportsReadable == Spec => []ListedReportsAreReadable
<1>1. ReportInv => ListedReportsAreReadable
  <2> SUFFICES ASSUME ReportInv, NEW w \in Listed
               PROVE  \/ Downloaded(w.name) = "whole"
                      \/ w.name \in contested \/ w.name \in lost
    BY DEF ListedReportsAreReadable
  <2>1. Readable(w.name, files, contested, lost)
    BY DEF Listed, ReportInv, RowsReadable
  <2> QED
    BY <2>1 DEF Readable, Downloaded
<1> QED
  BY <1>1, ReportInvariant, PTL
=============================================================================
