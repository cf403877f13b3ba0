--------------------------- MODULE AnalyticsProofs ---------------------------
(***************************************************************************)
(* Proofs about AnalyticsService: what a row, or the copy of it that an    *)
(* update has read, can still become is bounded by the records there are   *)
(* and by the updates that a first reader has counted already.             *)
(***************************************************************************)
EXTENDS AnalyticsService, FiniteSetTheorems, TLAPS

\* The requests of rq whose update of event e will increment counter c.
Bumping(rq, e, c) ==
  {r \in Requests : /\ rq[r].op \in {"log", "update"}
                    /\ rq[r].event = e
                    /\ c \in Bumped(rq[r].kind)}

Coming(rq, e, c) == Cardinality(Bumping(rq, e, c))

\* How far counter c of event e may still go.  No step takes any of it away: a record adds to
\* both sides, and an update that ends, with or without success, is no longer to come.
Room(e, c) == Recorded(c, raw[e]) + early[e] - Coming(req, e, c)

RowsFit ==
  \A e \in Events : \A i \in 1 .. Len(rows[e]) : \A c \in Counters : rows[e][i].n[c] <= Room(e, c)

NoneFits == \A e \in Events, c \in Counters : 0 <= Room(e, c)

BaseFits(q) == q.op = "update" => \A c \in Counters : q.base[c] <= Room(q.event, c)

\* What a first reader has counted; a difference is of an earlier and a later count.
CountFits(q, n) ==
  q.op = "count" =>
    /\ \A c \in {"scan", "valid", "transfer", "successful", "attempt"} :
         q.counted[c] <= Recorded(c, n[q.event])
    /\ q.at > 2 => q.counted["scan"] - q.counted["valid"] <= Recorded("invalid", n[q.event])
    /\ q.at > 4 => q.counted["transfer"] - q.counted["successful"] <= Recorded("failed", n[q.event])

AnalyticsInv ==
  /\ TypeOK
  /\ RowsFit
  /\ NoneFits
  /\ \A r \in Requests : BaseFits(req[r]) /\ CountFits(req[r], raw)

-----------------------------------------------------------------------------
(* Data.                                                                   *)

LEMMA CountersAre == Counters = {"scan", "valid", "invalid", "transfer", "successful", "failed", "attempt"}
BY DEF Counters

LEMMA RecordedIsNat ==
  ASSUME NEW n \in [Kinds -> Nat], NEW c \in Counters
  PROVE  Recorded(c, n) \in Nat
<1> DEFINE of(k) == IF k \in Kinds THEN n[k] ELSE 0
<1>1. \A k : of(k) \in Nat
  OBVIOUS
<1>2. Recorded(c, n) =
        CASE c = "valid" -> of("validScan")
          [] c = "invalid" -> of("invalidScan")
          [] c = "scan" -> of("validScan") + of("invalidScan")
          [] c = "successful" -> of("movedTicket")
          [] c = "failed" -> of("failedTransfer")
          [] c = "transfer" -> of("movedTicket") + of("failedTransfer")
          [] c = "attempt" -> of("attempt")
  BY DEF Recorded
<1> HIDE DEF of
<1> QED
  BY <1>1, <1>2, CountersAre

\* A total is the sum of its parts.
LEMMA RecordedSums ==
  ASSUME NEW n \in [Kinds -> Nat]
  PROVE  /\ Recorded("scan", n) = Recorded("valid", n) + Recorded("invalid", n)
         /\ Recorded("transfer", n) = Recorded("successful", n) + Recorded("failed", n)
BY DEF Recorded

\* One more record of kind k.
LEMMA RecordedGrows ==
  ASSUME NEW n \in [Kinds -> Nat], NEW k \in Kinds, NEW c \in Counters
  PROVE  LET more == [n EXCEPT ![k] = @ + 1] IN
           Recorded(c, more) = IF c \in Bumped(k) THEN Recorded(c, n) + 1 ELSE Recorded(c, n)
<1> DEFINE more == [n EXCEPT ![k] = @ + 1]
           of(m, j) == IF j \in Kinds THEN m[j] ELSE 0
<1>1. \A j : of(more, j) = IF j = k THEN of(n, j) + 1 ELSE of(n, j)
  OBVIOUS
<1>2. \A j : of(n, j) \in Nat
  OBVIOUS
<1>3. \A m : Recorded(c, m) =
        CASE c = "valid" -> of(m, "validScan")
          [] c = "invalid" -> of(m, "invalidScan")
          [] c = "scan" -> of(m, "validScan") + of(m, "invalidScan")
          [] c = "successful" -> of(m, "movedTicket")
          [] c = "failed" -> of(m, "failedTransfer")
          [] c = "transfer" -> of(m, "movedTicket") + of(m, "failedTransfer")
          [] c = "attempt" -> of(m, "attempt")
  BY DEF Recorded
<1>4. k \in {"validScan", "invalidScan", "movedTicket", "failedTransfer", "attempt"}
  BY AnalyticsAssumption DEF AllKinds
<1> HIDE DEF more, of
<1> SUFFICES Recorded(c, more) = IF c \in Bumped(k) THEN Recorded(c, n) + 1 ELSE Recorded(c, n)
  BY DEF more
<1>5. CASE k = "validScan"
  BY <1>1, <1>2, <1>3, <1>5, CountersAre DEF Bumped
<1>6. CASE k = "invalidScan"
  BY <1>1, <1>2, <1>3, <1>6, CountersAre DEF Bumped
<1>7. CASE k = "movedTicket"
  BY <1>1, <1>2, <1>3, <1>7, CountersAre DEF Bumped
<1>8. CASE k = "failedTransfer"
  BY <1>1, <1>2, <1>3, <1>8, CountersAre DEF Bumped
<1>9. CASE k = "attempt"
  BY <1>1, <1>2, <1>3, <1>9, CountersAre DEF Bumped
<1> QED
  BY <1>4, <1>5, <1>6, <1>7, <1>8, <1>9

LEMMA ComingIsNat ==
  \A rq, e, c : IsFiniteSet(Bumping(rq, e, c)) /\ Coming(rq, e, c) \in Nat
<1> TAKE rq, e, c
<1>1. Bumping(rq, e, c) \subseteq Requests /\ IsFiniteSet(Requests)
  BY AnalyticsAssumption DEF Bumping
<1>2. IsFiniteSet(Bumping(rq, e, c))
  BY <1>1, FS_Subset
<1> QED
  BY <1>2, FS_CardinalityType DEF Coming

Bumps(q, e, c) == q.op \in {"log", "update"} /\ q.event = e /\ c \in Bumped(q.kind)

Moved(rq, r, q) == [rq EXCEPT ![r] = q]

\* One request moves.
LEMMA ComingMoves ==
  ASSUME NEW rq \in [Requests -> Request], NEW r \in Requests, NEW q, NEW e, NEW c,
         NEW to, to = Moved(rq, r, q)
  PROVE  /\ Bumps(q, e, c) <=> Bumps(rq[r], e, c) => Coming(to, e, c) = Coming(rq, e, c)
         /\ Bumps(q, e, c) /\ ~Bumps(rq[r], e, c) => Coming(to, e, c) = Coming(rq, e, c) + 1
         /\ ~Bumps(q, e, c) /\ Bumps(rq[r], e, c) => Coming(to, e, c) = Coming(rq, e, c) - 1
<1> DEFINE S == Bumping(rq, e, c)
           T == Bumping(to, e, c)
<1>1. \A s \in Requests : to[s] = IF s = r THEN q ELSE rq[s]
  BY DEF Moved
<1>2. /\ \A s \in Requests : s \in S <=> Bumps(rq[s], e, c)
      /\ \A s \in Requests : s \in T <=> Bumps(to[s], e, c)
      /\ S \subseteq Requests /\ T \subseteq Requests
  BY DEF Bumping, Bumps
<1>3. IsFiniteSet(S) /\ IsFiniteSet(T)
  BY ComingIsNat
<1> HIDE DEF S, T
<1>4. ASSUME Bumps(q, e, c) <=> Bumps(rq[r], e, c) PROVE S = T
  BY <1>1, <1>2, <1>4
<1>5. ASSUME Bumps(q, e, c), ~Bumps(rq[r], e, c)
      PROVE  Cardinality(T) = Cardinality(S) + 1
  <2>1. T = S \cup {r} /\ r \notin S
    BY <1>1, <1>2, <1>5
  <2> QED
    BY <1>3, <2>1, FS_AddElement
<1>6. ASSUME ~Bumps(q, e, c), Bumps(rq[r], e, c)
      PROVE  Cardinality(T) = Cardinality(S) - 1
  <2>1. T = S \ {r} /\ r \in S
    BY <1>1, <1>2, <1>6
  <2> QED
    BY <1>3, <2>1, FS_RemoveElement
<1> QED
  BY <1>4, <1>5, <1>6 DEF S, T, Coming

-----------------------------------------------------------------------------
(* Types.                                                                  *)

LEMMA RequestKinds ==
  ASSUME NEW q \in Request
  PROVE  /\ q.op \in {"idle", "log", "update", "ask", "count"}
         /\ q.op = "idle" => q = Idle
         /\ q.op = "log" => q \in Logging
         /\ q.op = "update" => q \in Updating
         /\ q.op = "ask" => q \in Asking
         /\ q.op = "count" => q \in Counting
<1>1. CASE q = Idle
  BY <1>1 DEF Idle
<1>2. CASE q \in Logging
  BY <1>2 DEF Logging
<1>3. CASE q \in Updating
  BY <1>3 DEF Updating
<1>4. CASE q \in Asking
  BY <1>4 DEF Asking
<1>5. CASE q \in Counting
  BY <1>5 DEF Counting
<1> QED
  BY <1>1, <1>2, <1>3, <1>4, <1>5 DEF Request

LEMMA ZeroIs == Zero \in [Counters -> Int] /\ \A c \in Counters : Zero[c] = 0
BY DEF Zero

\* An increment keeps what a row is.
LEMMA IncrementedIs ==
  ASSUME NEW base \in [Counters -> Int], NEW now \in [Counters -> Int], NEW k
  PROVE  Incremented(base, now, k) \in [Counters -> Int]
BY DEF Incremented

LEMMA DifferenceIs ==
  ASSUME NEW n \in [Counters -> Int]
  PROVE  Difference(n) \in [Counters -> Int]
BY CountersAre DEF Difference

LEMMA AnsweredIs ==
  ASSUME TypeOK, NEW r \in Requests, req[r].op \in {"ask", "count"}, NEW e
  PROVE  /\ Answered(r, e) \in Request
         /\ Answered(r, e).op \in {"idle", "ask"}
<1>1. req[r] \in Asking \cup Counting
  BY RequestKinds DEF TypeOK
<1>2. req[r].all \in BOOLEAN /\ req[r].todo \subseteq Events
  BY <1>1 DEF Asking, Counting
<1>3. CASE req[r].todo \subseteq {e}
  BY <1>3 DEF Answered, Request, Idle
<1>4. CASE ~(req[r].todo \subseteq {e})
  <2> DEFINE q == [op |-> "ask", all |-> req[r].all, todo |-> req[r].todo \ {e}]
  <2>1. Answered(r, e) = q
    BY <1>4 DEF Answered
  <2>2. q \in Asking /\ q.op = "ask"
    BY <1>2 DEF Asking
  <2> QED
    BY <2>1, <2>2 DEF Request
<1> QED
  BY <1>3, <1>4

\* One request moves and nothing else changes but what has its type anyway.
LEMMA MoveTypes ==
  ASSUME TypeOK, NEW r \in Requests, NEW q \in Request,
         q.op = "update" => q.seen <= Len(rows[q.event]),
         req' = [req EXCEPT ![r] = q],
         rows' = rows, raw' \in [Events -> [Kinds -> Nat]],
         day' \in Nat, calls' \in Nat, early' = early, disturbed' \subseteq Events
  PROVE  TypeOK'
BY DEF TypeOK

LEMMA LogRecordTypes ==
  ASSUME TypeOK, NEW r \in Requests, NEW e \in Events, NEW k \in Kinds, LogRecord(r, e, k)
  PROVE  TypeOK'
<1> DEFINE q == [op |-> "log", event |-> e, kind |-> k]
<1>1. q \in Logging /\ q.op = "log"
  BY DEF Logging
<1>2. req' = [req EXCEPT ![r] = q] /\ q \in Request
  BY <1>1 DEF LogRecord, Request
<1>3. /\ rows' = rows /\ raw' \in [Events -> [Kinds -> Nat]]
      /\ day' \in Nat /\ calls' \in Nat /\ early' = early /\ disturbed' \subseteq Events
  BY DEF LogRecord, TypeOK
<1> HIDE DEF q
<1> QED
  BY <1>1, <1>2, <1>3, MoveTypes

\* The row that an update continues from.
LEMMA SeenIs ==
  ASSUME TypeOK, NEW e \in Events
  PROVE  /\ Seen(e) \in Nat /\ Seen(e) <= Len(rows[e])
         /\ ~NeedsRow(e) => LatestRow(e) \in Row /\ Len(rows[e]) \in 1 .. Len(rows[e])
<1>1. rows[e] \in Seq(Row) /\ Len(rows[e]) \in Nat
  BY DEF TypeOK
<1> QED
  BY <1>1 DEF Seen, NeedsRow, LatestRow

LEMMA ReadRowTypes ==
  ASSUME TypeOK, NEW r \in Requests, ReadRow(r)
  PROVE  TypeOK'
<1> DEFINE e == req[r].event
           b == IF NeedsRow(e) THEN Zero ELSE LatestRow(e).n
           q == [op |-> "update", event |-> e, kind |-> req[r].kind, seen |-> Seen(e), base |-> b]
<1>1. req[r] \in Logging
  BY RequestKinds DEF TypeOK, ReadRow
<1>2. e \in Events /\ req[r].kind \in Kinds
  BY <1>1 DEF Logging
<1>3. b \in [Counters -> Int]
  BY <1>2, SeenIs, ZeroIs DEF Row
<1>4. Seen(e) \in Nat /\ Seen(e) <= Len(rows[e])
  BY <1>2, SeenIs
<1>5. req' = [req EXCEPT ![r] = q]
  BY DEF ReadRow
<1>6. /\ rows' = rows /\ raw' \in [Events -> [Kinds -> Nat]]
      /\ day' \in Nat /\ calls' \in Nat /\ early' = early /\ disturbed' \subseteq Events
  BY <1>2 DEF ReadRow, TypeOK
<1> HIDE DEF e, b
<1>7. q \in Updating /\ q.seen <= Len(rows[q.event])
  BY <1>2, <1>3, <1>4 DEF Updating
<1>8. q \in Request
  BY <1>7 DEF Request
<1> HIDE DEF q
<1> QED
  BY <1>5, <1>6, <1>7, <1>8, MoveTypes

\* What the table of an event becomes when an update commits.
Written(r) ==
  LET e == req[r].event
      i == req[r].seen
      k == req[r].kind IN
  IF i = 0 THEN Append(rows[e], [day |-> day, n |-> Incremented(Zero, Zero, k)])
  ELSE [rows[e] EXCEPT ![i] = [day |-> rows[e][i].day, n |-> Incremented(req[r].base, rows[e][i].n, k)]]

LEMMA WrittenIs ==
  ASSUME TypeOK, NEW r \in Requests, WriteRow(r)
  PROVE  LET e == req[r].event
             i == req[r].seen
             k == req[r].kind IN
         /\ req[r] \in Updating /\ e \in Events
         /\ rows' = [rows EXCEPT ![e] = Written(r)]
         /\ Written(r) \in Seq(Row)
         /\ i = 0 => /\ Len(Written(r)) = Len(rows[e]) + 1
                     /\ Written(r)[Len(rows[e]) + 1].n = Incremented(Zero, Zero, k)
                     /\ \A j \in 1 .. Len(rows[e]) : Written(r)[j] = rows[e][j]
         /\ i # 0 => /\ Len(Written(r)) = Len(rows[e])
                     /\ i \in 1 .. Len(rows[e])
                     /\ Written(r)[i].n = Incremented(req[r].base, rows[e][i].n, k)
                     /\ \A j \in 1 .. Len(rows[e]) : j # i => Written(r)[j] = rows[e][j]
<1> DEFINE e == req[r].event
           i == req[r].seen
           k == req[r].kind
           fresh == [day |-> day, n |-> Incremented(Zero, Zero, k)]
           next == [day |-> rows[e][i].day, n |-> Incremented(req[r].base, rows[e][i].n, k)]
<1>1. req[r] \in Updating
  BY RequestKinds DEF TypeOK, WriteRow
<1>2. e \in Events /\ i \in Nat /\ req[r].base \in [Counters -> Int] /\ i <= Len(rows[e])
  BY <1>1 DEF Updating, TypeOK, WriteRow
<1>3. rows[e] \in Seq(Row) /\ Len(rows[e]) \in Nat /\ day \in Nat
  BY <1>2 DEF TypeOK
<1>4. rows' = [rows EXCEPT ![e] = Written(r)]
  BY DEF WriteRow, Written
<1>5. fresh \in Row /\ fresh.n = Incremented(Zero, Zero, k)
  BY <1>3, ZeroIs, IncrementedIs DEF Row
<1>6. ASSUME i # 0
      PROVE  i \in 1 .. Len(rows[e]) /\ next \in Row
  <2>1. i \in 1 .. Len(rows[e])
    BY <1>2, <1>3, <1>6
  <2>2. rows[e][i] \in Row
    BY <1>3, <2>1
  <2>3. rows[e][i].day \in Nat /\ rows[e][i].n \in [Counters -> Int]
    BY <2>2 DEF Row
  <2>4. Incremented(req[r].base, rows[e][i].n, k) \in [Counters -> Int]
    BY <1>2, <2>3, IncrementedIs
  <2> QED
    BY <2>1, <2>3, <2>4 DEF Row
<1>7. next.n = Incremented(req[r].base, rows[e][i].n, k)
  OBVIOUS
<1>8. Written(r) = IF i = 0 THEN Append(rows[e], fresh) ELSE [rows[e] EXCEPT ![i] = next]
  BY DEF Written
<1> HIDE DEF e, i, k, fresh, next
<1>9. ASSUME i = 0
      PROVE  /\ Written(r) \in Seq(Row)
             /\ Len(Written(r)) = Len(rows[e]) + 1
             /\ Written(r)[Len(rows[e]) + 1] = fresh
             /\ \A j \in 1 .. Len(rows[e]) : Written(r)[j] = rows[e][j]
  BY <1>3, <1>5, <1>8, <1>9
<1>10. ASSUME i # 0
       PROVE  /\ Written(r) \in Seq(Row)
              /\ Len(Written(r)) = Len(rows[e])
              /\ Written(r)[i] = next
              /\ \A j \in 1 .. Len(rows[e]) : j # i => Written(r)[j] = rows[e][j]
  BY <1>3, <1>6, <1>8, <1>10
<1>11. /\ req[r] \in Updating /\ e \in Events
       /\ rows' = [rows EXCEPT ![e] = Written(r)]
       /\ Written(r) \in Seq(Row)
       /\ i = 0 => /\ Len(Written(r)) = Len(rows[e]) + 1
                   /\ Written(r)[Len(rows[e]) + 1].n = Incremented(Zero, Zero, k)
                   /\ \A j \in 1 .. Len(rows[e]) : Written(r)[j] = rows[e][j]
       /\ i # 0 => /\ Len(Written(r)) = Len(rows[e])
                   /\ i \in 1 .. Len(rows[e])
                   /\ Written(r)[i].n = Incremented(req[r].base, rows[e][i].n, k)
                   /\ \A j \in 1 .. Len(rows[e]) : j # i => Written(r)[j] = rows[e][j]
  BY <1>1, <1>2, <1>4, <1>5, <1>6, <1>7, <1>9, <1>10
<1> QED
  BY <1>11 DEF e, i, k

\* The tables grow and a request ends or goes on to ask.
LEMMA GrowTypes ==
  ASSUME TypeOK, NEW r \in Requests, NEW q \in Request, q.op # "update",
         NEW e \in Events, NEW t \in Seq(Row), Len(t) >= Len(rows[e]),
         req' = [req EXCEPT ![r] = q], rows' = [rows EXCEPT ![e] = t],
         UNCHANGED <<raw, day, calls>>,
         early' \in [Events -> Nat], disturbed' \subseteq Events
  PROVE  TypeOK'
<1>1. rows' \in [Events -> Seq(Row)] /\ req' \in [Requests -> Request]
  BY DEF TypeOK
<1>2. \A f \in Events : Len(rows[f]) <= Len(rows'[f]) /\ Len(rows[f]) \in Nat /\ Len(rows'[f]) \in Nat
  BY <1>1 DEF TypeOK
<1>3. ASSUME NEW s \in Requests, req'[s].op = "update"
      PROVE  req'[s].seen <= Len(rows'[req'[s].event])
  <2>1. req'[s] = req[s] /\ req[s].op = "update"
    BY <1>3 DEF TypeOK
  <2>2. req[s] \in Updating
    BY <2>1, RequestKinds DEF TypeOK
  <2>3. req[s].event \in Events /\ req[s].seen \in Nat /\ req[s].seen <= Len(rows[req[s].event])
    BY <2>1, <2>2 DEF Updating, TypeOK
  <2> QED
    BY <1>2, <2>1, <2>3
<1> QED
  BY <1>1, <1>3 DEF TypeOK

LEMMA IdleIs == Idle \in Request /\ Idle.op = "idle"
BY DEF Idle, Request

LEMMA WriteRowTypes ==
  ASSUME TypeOK, NEW r \in Requests, WriteRow(r)
  PROVE  TypeOK'
<1> DEFINE e == req[r].event
<1>1. /\ e \in Events /\ rows' = [rows EXCEPT ![e] = Written(r)] /\ Written(r) \in Seq(Row)
      /\ Len(Written(r)) = Len(rows[e]) \/ Len(Written(r)) = Len(rows[e]) + 1
  BY WrittenIs
<1>2. rows[e] \in Seq(Row) /\ Len(rows[e]) \in Nat
  BY <1>1 DEF TypeOK
<1>3. /\ req' = [req EXCEPT ![r] = Idle]
      /\ UNCHANGED <<raw, day, calls>> /\ early' \in [Events -> Nat] /\ disturbed' \subseteq Events
  BY DEF WriteRow, TypeOK
<1> HIDE DEF e
<1>4. Len(Written(r)) >= Len(rows[e])
  BY <1>1, <1>2
<1> QED
  BY <1>1, <1>3, <1>4, IdleIs, GrowTypes

LEMMA UpdateFailsTypes ==
  ASSUME TypeOK, NEW r \in Requests, UpdateFails(r)
  PROVE  TypeOK'
<1>1. req[r] \in Logging \cup Updating
  BY RequestKinds DEF TypeOK, UpdateFails
<1>2. req[r].event \in Events
  BY <1>1 DEF Logging, Updating
<1>3. /\ req' = [req EXCEPT ![r] = Idle] /\ rows' = rows /\ raw' \in [Events -> [Kinds -> Nat]]
      /\ day' \in Nat /\ calls' \in Nat /\ early' = early /\ disturbed' \subseteq Events
  BY <1>2 DEF UpdateFails, TypeOK
<1> QED
  BY <1>3, IdleIs, MoveTypes

\* A step of a request that asks, short of the insert: only what it is doing changes.
AskMove(r) == AskForAll(r) \/ (\E e \in Events : AskForEvent(r, e)) \/ AnswerNothing(r)
  \/ AnswerFromRow(r) \/ FindNoRow(r) \/ CountRecords(r) \/ AskFails(r)

LEMMA RawIsNat ==
  ASSUME TypeOK, NEW e \in Events, NEW c \in Counters
  PROVE  Recorded(c, raw[e]) \in Nat
<1>1. raw[e] \in [Kinds -> Nat]
  BY DEF TypeOK
<1> QED
  BY <1>1, RecordedIsNat

Counted(p, i, n) == [p EXCEPT !.at = i, !.counted = n]

LEMMA CountingMoves ==
  \A p \in Counting, i \in 1 .. 6, m \in [Counters -> Int] :
    /\ Counted(p, i, m) \in Counting /\ Counted(p, i, m).op = "count"
    /\ Counted(p, i, m).event = p.event
    /\ Counted(p, i, m).at = i /\ Counted(p, i, m).counted = m
BY DEF Counting, Counted

LEMMA CountsTo ==
  ASSUME TypeOK, NEW r \in Requests, CountRecords(r)
  PROVE  LET c == CountOrder[req[r].at]
             n == [req[r].counted EXCEPT ![c] = Recorded(c, raw[req[r].event])]
             q == Counted(req[r], req[r].at + 1, n) IN
         /\ req' = [req EXCEPT ![r] = q]
         /\ req[r] \in Counting /\ req[r].at \in 1 .. 5 /\ c \in Counters
         /\ n \in [Counters -> Int]
         /\ q \in Counting /\ q.op = "count" /\ q.event = req[r].event
         /\ q.at = req[r].at + 1 /\ q.counted = n
<1> DEFINE c == CountOrder[req[r].at]
           v == Recorded(c, raw[req[r].event])
           n == [req[r].counted EXCEPT ![c] = v]
           j == req[r].at + 1
           q == Counted(req[r], j, n)
<1>1. req[r] \in Counting
  BY RequestKinds DEF TypeOK, CountRecords
<1>2. req[r].at \in 1 .. 5 /\ req[r].event \in Events
  BY <1>1 DEF Counting, CountRecords
<1>3. c \in {"scan", "valid", "transfer", "successful", "attempt"}
  BY <1>2 DEF CountOrder
<1>4. c \in Counters
  BY <1>3, CountersAre
<1>5. v \in Int
  <2> HIDE DEF c
  <2> QED
    BY <1>2, <1>4, RawIsNat
<1>6. req' = [req EXCEPT ![r] = q]
  BY DEF CountRecords, Counted
<1> HIDE DEF c, v
<1>7. n \in [Counters -> Int]
  BY <1>1, <1>4, <1>5 DEF Counting
<1>8. j \in 1 .. 6
  BY <1>2
<1> HIDE DEF n, j
<1>9. /\ q \in Counting /\ q.op = "count" /\ q.event = req[r].event
      /\ q.at = j /\ q.counted = n
  <2>1. \A p : p = req[r] =>
          /\ Counted(p, j, n) \in Counting /\ Counted(p, j, n).op = "count"
          /\ Counted(p, j, n).event = p.event
          /\ Counted(p, j, n).at = j /\ Counted(p, j, n).counted = n
    BY <1>1, <1>7, <1>8, CountingMoves
  <2> QED
    BY <2>1
<1> HIDE DEF q
<1>10. /\ req' = [req EXCEPT ![r] = q]
       /\ req[r] \in Counting /\ req[r].at \in 1 .. 5 /\ c \in Counters
       /\ n \in [Counters -> Int]
       /\ q \in Counting /\ q.op = "count" /\ q.event = req[r].event
       /\ q.at = j /\ q.counted = n
  BY <1>1, <1>2, <1>4, <1>6, <1>7, <1>9
<1> QED
  BY <1>10 DEF c, v, n, j, q

\* Where such a step leads.
LEMMA AskMoves ==
  ASSUME TypeOK, NEW r \in Requests, AskMove(r), ~CountRecords(r)
  PROVE  /\ req[r].op \in {"idle", "ask", "count"}
         /\ \E q \in Request :
              /\ req' = [req EXCEPT ![r] = q]
              /\ q.op \in {"idle", "ask", "count"}
              /\ q.op = "count" => /\ q.at = 1 /\ q.event \in Events
                                   /\ q.counted = Zero
<1>1. CASE \E e \in Events : AskForEvent(r, e)
  <2>1. PICK e \in Events : AskForEvent(r, e)
    BY <1>1
  <2> DEFINE q == [op |-> "ask", all |-> FALSE, todo |-> {e}]
  <2>2. q \in Asking /\ q.op = "ask"
    BY DEF Asking
  <2>3. req' = [req EXCEPT ![r] = q] /\ req[r].op = "idle"
    BY <2>1, IdleIs DEF AskForEvent
  <2> HIDE DEF q
  <2> QED
    BY <2>2, <2>3 DEF Request
<1>2. CASE AskForAll(r)
  <2> DEFINE q == [op |-> "ask", all |-> TRUE, todo |-> {e \in Events : \E k \in Kinds : raw[e][k] > 0}]
  <2>1. q \in Asking /\ q.op = "ask"
    BY DEF Asking
  <2>2. req' = [req EXCEPT ![r] = q] /\ req[r].op = "idle"
    BY <1>2, IdleIs DEF AskForAll
  <2> HIDE DEF q
  <2> QED
    BY <2>1, <2>2 DEF Request
<1>3. CASE AnswerNothing(r)
  BY <1>3, IdleIs DEF AnswerNothing
<1>4. CASE AnswerFromRow(r)
  <2>1. PICK e \in req[r].todo : req' = [req EXCEPT ![r] = Answered(r, e)]
    BY <1>4 DEF AnswerFromRow
  <2>2. req[r].op = "ask"
    BY <1>4 DEF AnswerFromRow
  <2>3. Answered(r, e) \in Request /\ Answered(r, e).op \in {"idle", "ask"}
    BY <2>2, AnsweredIs
  <2> QED
    BY <2>1, <2>2, <2>3
<1>5. CASE FindNoRow(r)
  <2>1. req[r].op = "ask" /\ req[r] \in Asking
    BY <1>5, RequestKinds DEF FindNoRow, TypeOK
  <2>2. PICK e \in req[r].todo :
          req' = [req EXCEPT ![r] =
                    [op |-> "count", all |-> req[r].all, todo |-> req[r].todo, event |-> e,
                     at |-> 1, counted |-> Zero]]
    BY <1>5 DEF FindNoRow
  <2> DEFINE q == [op |-> "count", all |-> req[r].all, todo |-> req[r].todo, event |-> e,
                   at |-> 1, counted |-> Zero]
  <2>3. req[r].all \in BOOLEAN /\ req[r].todo \subseteq Events /\ e \in Events
    BY <2>1, <2>2 DEF Asking
  <2>4. /\ q \in Counting /\ q.op = "count" /\ q.at = 1 /\ q.event \in Events /\ q.counted = Zero
    BY <2>3, ZeroIs DEF Counting
  <2>5. req' = [req EXCEPT ![r] = q]
    BY <2>2
  <2> HIDE DEF q
  <2> QED
    BY <2>1, <2>4, <2>5 DEF Request
<1>6. CASE AskFails(r)
  BY <1>6, IdleIs DEF AskFails
<1> QED
  BY <1>1, <1>2, <1>3, <1>4, <1>5, <1>6 DEF AskMove

LEMMA AskMoveFrame ==
  ASSUME TypeOK, NEW r \in Requests, AskMove(r)
  PROVE  /\ rows' = rows /\ raw' = raw /\ early' = early /\ disturbed' = disturbed
         /\ raw' \in [Events -> [Kinds -> Nat]]
         /\ day' \in Nat /\ calls' \in Nat /\ disturbed' \subseteq Events
BY DEF AskMove, AskForAll, AskForEvent, AnswerNothing, AnswerFromRow, FindNoRow, CountRecords,
       AskFails, TypeOK

LEMMA AskMoveTypes ==
  ASSUME TypeOK, NEW r \in Requests, AskMove(r)
  PROVE  TypeOK'
<1>1. PICK q \in Request : req' = [req EXCEPT ![r] = q] /\ q.op # "update"
  <2>1. CASE CountRecords(r)
    BY <2>1, CountsTo DEF Request
  <2>2. CASE ~CountRecords(r)
    BY <2>2, AskMoves
  <2> QED
    BY <2>1, <2>2
<1> QED
  BY <1>1, AskMoveFrame, MoveTypes

\* The insert of a first reader.
LEMMA InsertIs ==
  ASSUME TypeOK, NEW r \in Requests, InsertCounted(r)
  PROVE  LET e == req[r].event
             t == rows'[e] IN
         /\ req[r] \in Counting /\ req[r].at = 6 /\ e \in Events
         /\ t \in Seq(Row) /\ rows' = [rows EXCEPT ![e] = t]
         /\ Len(t) = Len(rows[e]) + 1
         /\ t[Len(t)].n = Difference(req[r].counted)
         /\ \A i \in 1 .. Len(rows[e]) : t[i] = rows[e][i]
         /\ Cardinality(Pending(e)) \in Nat /\ IsFiniteSet(Pending(e))
         /\ early' = [early EXCEPT ![e] = @ + Cardinality(Pending(e))]
         /\ req' = [req EXCEPT ![r] = Answered(r, e)]
         /\ Answered(r, e) \in Request /\ Answered(r, e).op \in {"idle", "ask"}
         /\ UNCHANGED <<raw, day, calls>>
<1> DEFINE e == req[r].event
           row == [day |-> day, n |-> Difference(req[r].counted)]
<1>1. req[r] \in Counting /\ req[r].at = 6
  BY RequestKinds DEF TypeOK, InsertCounted
<1>2. e \in Events /\ Difference(req[r].counted) \in [Counters -> Int]
  BY <1>1, DifferenceIs DEF Counting
<1>3. row \in Row /\ row.n = Difference(req[r].counted)
  BY <1>2 DEF Row, TypeOK
<1>4. rows[e] \in Seq(Row) /\ rows \in [Events -> Seq(Row)]
  BY <1>2 DEF TypeOK
<1>5. rows' = [rows EXCEPT ![e] = Append(rows[e], row)]
  BY DEF InsertCounted
<1>6. Pending(e) \subseteq Requests
  BY DEF Pending
<1>7. Cardinality(Pending(e)) \in Nat /\ IsFiniteSet(Pending(e))
  BY <1>6, AnalyticsAssumption, FS_Subset, FS_CardinalityType
<1>8. Answered(r, e) \in Request /\ Answered(r, e).op \in {"idle", "ask"}
  BY AnsweredIs DEF InsertCounted
<1>9. /\ early' = [early EXCEPT ![e] = @ + Cardinality(Pending(e))]
      /\ req' = [req EXCEPT ![r] = Answered(r, e)]
      /\ UNCHANGED <<raw, day, calls>>
  BY DEF InsertCounted
<1> HIDE DEF row, e
<1>10. rows'[e] = Append(rows[e], row)
  BY <1>2, <1>4, <1>5
<1>11. /\ rows'[e] \in Seq(Row) /\ Len(rows'[e]) = Len(rows[e]) + 1
       /\ rows'[e][Len(rows'[e])] = row
       /\ \A i \in 1 .. Len(rows[e]) : rows'[e][i] = rows[e][i]
  BY <1>3, <1>4, <1>10
<1>12. /\ req[r] \in Counting /\ req[r].at = 6 /\ e \in Events
       /\ rows'[e] \in Seq(Row) /\ rows' = [rows EXCEPT ![e] = rows'[e]]
       /\ Len(rows'[e]) = Len(rows[e]) + 1
       /\ rows'[e][Len(rows'[e])].n = Difference(req[r].counted)
       /\ \A i \in 1 .. Len(rows[e]) : rows'[e][i] = rows[e][i]
  BY <1>1, <1>2, <1>3, <1>5, <1>10, <1>11
<1> QED
  BY <1>7, <1>8, <1>9, <1>12 DEF e

LEMMA InsertTypes ==
  ASSUME TypeOK, NEW r \in Requests, InsertCounted(r)
  PROVE  TypeOK'
<1> DEFINE e == req[r].event
           t == rows'[e]
           q == Answered(r, e)
<1>1. /\ e \in Events /\ t \in Seq(Row) /\ rows' = [rows EXCEPT ![e] = t]
      /\ Len(t) = Len(rows[e]) + 1
      /\ early' = [early EXCEPT ![e] = @ + Cardinality(Pending(e))]
      /\ Cardinality(Pending(e)) \in Nat
      /\ q \in Request /\ q.op \in {"idle", "ask"} /\ req' = [req EXCEPT ![r] = q]
      /\ UNCHANGED <<raw, day, calls>>
  BY InsertIs
<1>2. rows[e] \in Seq(Row) /\ Len(rows[e]) \in Nat
  BY <1>1 DEF TypeOK
<1>3. disturbed' \subseteq Events
  BY <1>1 DEF InsertCounted, TypeOK
<1>4. early' \in [Events -> Nat]
  BY <1>1 DEF TypeOK
<1> HIDE DEF e, t, q
<1>5. Len(t) >= Len(rows[e]) /\ q.op # "update"
  BY <1>1, <1>2
<1> QED
  BY <1>1, <1>3, <1>4, <1>5, GrowTypes

LEMMA RestartTypes == TypeOK /\ Restart => TypeOK'
BY IdleIs DEF TypeOK, Restart

LEMMA NextDayTypes == TypeOK /\ NextDay => TypeOK'
BY DEF TypeOK, NextDay

\* The actions of the system.
LEMMA Steps ==
  ASSUME Next
  PROVE  \/ \E r \in Requests : \E e \in Events : \E k \in Kinds : LogRecord(r, e, k)
         \/ \E r \in Requests : ReadRow(r) \/ WriteRow(r) \/ UpdateFails(r) \/ AskMove(r) \/ InsertCounted(r)
         \/ Restart \/ NextDay
<1>1. CASE \E r \in Requests : LogCall(r)
  BY <1>1 DEF LogCall, LogTicketScan, LogTicketTransfer, LogInvalidAttempt
<1>2. CASE \E r \in Requests : StatsCall(r)
  BY <1>2 DEF StatsCall, AskMove
<1>3. CASE \E r \in Requests : LogStep(r)
  BY <1>3 DEF LogStep
<1>4. CASE \E r \in Requests : AskStep(r) \/ AskFails(r)
  BY <1>4 DEF AskStep, AskMove, PoolTimeout
<1> QED
  BY <1>1, <1>2, <1>3, <1>4 DEF Next

LEMMA NextTypes == TypeOK /\ [Next]_vars => TypeOK'
<1> SUFFICES ASSUME TypeOK, [Next]_vars PROVE TypeOK'
  OBVIOUS
<1>1. CASE Next
  BY <1>1, Steps, LogRecordTypes, ReadRowTypes, WriteRowTypes, UpdateFailsTypes, AskMoveTypes,
     InsertTypes, RestartTypes, NextDayTypes
<1>2. CASE UNCHANGED vars
  BY <1>2 DEF TypeOK, vars
<1> QED
  BY <1>1, <1>2

\* Every variable keeps its type.
THEOREM AnalyticsTypes == Spec => []TypeOK
<1>1. Init => TypeOK
  BY AnalyticsAssumption, IdleIs DEF Init, TypeOK
<1> QED
  BY <1>1, NextTypes, PTL DEF Spec

-----------------------------------------------------------------------------
(* Room.                                                                   *)

LEMMA RoomIs ==
  ASSUME TypeOK, NEW e \in Events, NEW c \in Counters
  PROVE  Room(e, c) \in Int
<1>1. Recorded(c, raw[e]) \in Nat
  BY RawIsNat
<1>2. early[e] \in Nat /\ Coming(req, e, c) \in Nat
  BY ComingIsNat DEF TypeOK
<1> QED
  BY <1>1, <1>2 DEF Room

LEMMA PrimedIs ==
  ASSUME TypeOK', NEW e \in Events, NEW c \in Counters
  PROVE  Room(e, c)' \in Int /\ Recorded(c, raw'[e]) \in Nat
<1>1. raw'[e] \in [Kinds -> Nat] /\ early'[e] \in Nat
  BY DEF TypeOK
<1>2. Recorded(c, raw'[e]) \in Nat /\ Coming(req', e, c) \in Nat
  BY <1>1, RecordedIsNat, ComingIsNat
<1> QED
  BY <1>1, <1>2 DEF Room

\* When a request moves, room is only gained, by the end of an update.
LEMMA RoomMoves ==
  ASSUME TypeOK, NEW r \in Requests, NEW q, req' = [req EXCEPT ![r] = q],
         raw' = raw, early' = early, NEW e \in Events, NEW c \in Counters,
         Bumps(q, e, c) => Bumps(req[r], e, c)
  PROVE  /\ Room(e, c)' >= Room(e, c)
         /\ Bumps(req[r], e, c) /\ ~Bumps(q, e, c) => Room(e, c)' = Room(e, c) + 1
<1>1. req \in [Requests -> Request]
  BY DEF TypeOK
<1> DEFINE to == req'
<1>2. /\ (Bumps(q, e, c) <=> Bumps(req[r], e, c)) => Coming(to, e, c) = Coming(req, e, c)
      /\ ~Bumps(q, e, c) /\ Bumps(req[r], e, c) => Coming(to, e, c) = Coming(req, e, c) - 1
  <2>1. to = Moved(req, r, q)
    BY DEF Moved
  <2> HIDE DEF to
  <2>2. (Bumps(q, e, c) <=> Bumps(req[r], e, c)) => Coming(to, e, c) = Coming(req, e, c)
    BY <1>1, <2>1, ComingMoves
  <2>3. ~Bumps(q, e, c) /\ Bumps(req[r], e, c) => Coming(to, e, c) = Coming(req, e, c) - 1
    BY <1>1, <2>1, ComingMoves
  <2> QED
    BY <2>2, <2>3
<1>3. Coming(req', e, c) \in Nat /\ Coming(req, e, c) \in Nat
  BY ComingIsNat
<1>4. Recorded(c, raw[e]) \in Nat /\ early[e] \in Nat
  BY RawIsNat DEF TypeOK
<1>5. /\ Room(e, c) = Recorded(c, raw[e]) + early[e] - Coming(req, e, c)
      /\ Room(e, c)' = Recorded(c, raw[e]) + early[e] - Coming(req', e, c)
  BY DEF Room
<1> QED
  BY <1>2, <1>3, <1>4, <1>5

\* A step keeps the invariant when it takes no room and no record away, and what it writes into
\* a table or into a request fits.
LEMMA InvKept ==
  ASSUME AnalyticsInv, TypeOK',
         \A e \in Events, c \in Counters : Room(e, c)' >= Room(e, c),
         \A e \in Events, c \in Counters : Recorded(c, raw'[e]) >= Recorded(c, raw[e]),
         \A e \in Events : \A i \in 1 .. Len(rows'[e]) :
           \/ i \in 1 .. Len(rows[e]) /\ rows'[e][i] = rows[e][i]
           \/ \A c \in Counters : rows'[e][i].n[c] <= Room(e, c)',
         \A s \in Requests :
           \/ req'[s] = req[s]
           \/ BaseFits(req[s])' /\ CountFits(req'[s], raw')
  PROVE  AnalyticsInv'
<1>1. \A e \in Events, c \in Counters : Room(e, c) \in Int /\ Room(e, c)' \in Int
  BY RoomIs, PrimedIs DEF AnalyticsInv
<1>2. RowsFit'
  <2> SUFFICES ASSUME NEW e \in Events, NEW i \in 1 .. Len(rows'[e]), NEW c \in Counters
               PROVE  rows'[e][i].n[c] <= Room(e, c)'
    BY DEF RowsFit
  <2>1. CASE i \in 1 .. Len(rows[e]) /\ rows'[e][i] = rows[e][i]
    <3>1. rows[e][i] \in Row
      BY <2>1 DEF AnalyticsInv, TypeOK
    <3>2. rows[e][i].n[c] \in Int
      BY <3>1 DEF Row
    <3>3. rows[e][i].n[c] <= Room(e, c)
      BY <2>1 DEF AnalyticsInv, RowsFit
    <3> QED
      BY <1>1, <2>1, <3>2, <3>3
  <2>2. CASE \A d \in Counters : rows'[e][i].n[d] <= Room(e, d)'
    BY <2>2
  <2> QED
    BY <2>1, <2>2
<1>3. NoneFits'
  <2>1. \A e \in Events, c \in Counters : 0 <= Room(e, c)
    BY DEF AnalyticsInv, NoneFits
  <2>2. \A e \in Events, c \in Counters : 0 <= Room(e, c)'
    BY <1>1, <2>1
  <2> QED
    BY <2>2 DEF NoneFits
<1>4. ASSUME NEW s \in Requests, req'[s] = req[s]
      PROVE  BaseFits(req[s])' /\ CountFits(req'[s], raw')
  <2>1. BaseFits(req[s]) /\ CountFits(req[s], raw) /\ req[s] \in Request
    BY DEF AnalyticsInv, TypeOK
  <2>2. ASSUME req[s].op = "update", NEW c \in Counters, NEW e \in Events, e = req[s].event
        PROVE  req[s].base[c] <= Room(e, c)'
    <3>1. req[s] \in Updating
      BY <2>1, <2>2, RequestKinds
    <3>2. req[s].base[c] \in Int
      BY <3>1 DEF Updating
    <3>3. req[s].base[c] <= Room(e, c)
      BY <2>1, <2>2 DEF BaseFits
    <3>4. Room(e, c) \in Int /\ Room(e, c)' \in Int /\ Room(e, c)' >= Room(e, c)
      BY <1>1
    <3> QED
      BY <3>2, <3>3, <3>4
  <2>3. ASSUME req[s].op = "count"
        PROVE  CountFits(req[s], raw')
    <3>1. req[s] \in Counting
      BY <2>1, <2>3, RequestKinds
    <3> DEFINE q == req[s]
               e == req[s].event
    <3>2. e \in Events /\ q.counted \in [Counters -> Int] /\ q.op = "count"
      BY <3>1 DEF Counting
    <3>3. \A c \in Counters : /\ Recorded(c, raw[e]) \in Int /\ Recorded(c, raw'[e]) \in Int
                              /\ Recorded(c, raw[e]) <= Recorded(c, raw'[e])
                              /\ q.counted[c] \in Int
      BY <3>2, RawIsNat, PrimedIs DEF AnalyticsInv
    <3>4. /\ \A c \in {"scan", "valid", "transfer", "successful", "attempt"} :
               q.counted[c] <= Recorded(c, raw[e])
          /\ q.at > 2 => q.counted["scan"] - q.counted["valid"] <= Recorded("invalid", raw[e])
          /\ q.at > 4 => q.counted["transfer"] - q.counted["successful"] <= Recorded("failed", raw[e])
      BY <2>1, <2>3 DEF CountFits
    <3> HIDE DEF q, e
    <3>6. /\ \A c \in {"scan", "valid", "transfer", "successful", "attempt"} : c \in Counters
          /\ "invalid" \in Counters /\ "failed" \in Counters
      BY CountersAre
    <3>5. /\ \A c \in {"scan", "valid", "transfer", "successful", "attempt"} :
               q.counted[c] <= Recorded(c, raw'[e])
          /\ q.at > 2 => q.counted["scan"] - q.counted["valid"] <= Recorded("invalid", raw'[e])
          /\ q.at > 4 => q.counted["transfer"] - q.counted["successful"] <= Recorded("failed", raw'[e])
      <4>1. ASSUME NEW a \in Counters, NEW b \in Counters, NEW d \in Counters,
                   q.counted[a] - q.counted[b] <= Recorded(d, raw[e])
            PROVE  q.counted[a] - q.counted[b] <= Recorded(d, raw'[e])
        BY <3>3, <4>1
      <4>2. \A c \in Counters : q.counted[c] <= Recorded(c, raw[e]) => q.counted[c] <= Recorded(c, raw'[e])
        BY <3>3
      <4> QED
        BY <3>4, <3>6, <4>1, <4>2
    <3> QED
      BY <3>5 DEF CountFits, q, e
  <2>4. CountFits(req[s], raw')
    BY <2>3 DEF CountFits
  <2>5. BaseFits(req[s])'
    <3> SUFFICES ASSUME req[s].op = "update", NEW c \in Counters
                 PROVE  (req[s].base[c] <= Room(req[s].event, c))'
      BY <1>4 DEF BaseFits
    <3>1. req[s].event \in Events
      BY <2>1, RequestKinds DEF Updating
    <3>2. PICK e \in Events : e = req[s].event
      BY <3>1
    <3>3. req[s].base[c] <= Room(e, c)'
      BY <1>4, <2>2, <3>2
    <3> QED
      BY <1>4, <3>2, <3>3
  <2> QED
    BY <1>4, <2>4, <2>5
<1>5. \A s \in Requests : BaseFits(req[s])' /\ CountFits(req'[s], raw')
  BY <1>4
<1> QED
  BY <1>2, <1>3, <1>5 DEF AnalyticsInv

\* As InvKept, for a request that moves to q.
LEMMA InvMoves ==
  ASSUME AnalyticsInv, TypeOK', NEW r \in Requests, NEW q \in Request,
         req' = [req EXCEPT ![r] = q], raw' = raw, early' = early,
         \A e \in Events, c \in Counters : Bumps(q, e, c) => Bumps(req[r], e, c),
         \A e \in Events : \A i \in 1 .. Len(rows'[e]) :
           \/ i \in 1 .. Len(rows[e]) /\ rows'[e][i] = rows[e][i]
           \/ \A c \in Counters : rows'[e][i].n[c] <= Room(e, c)',
         q.op = "update" => /\ q.event \in Events
                            /\ \A c \in Counters : q.base[c] <= Room(q.event, c),
         CountFits(q, raw)
  PROVE  AnalyticsInv'
<1>1. \A e \in Events, c \in Counters : Room(e, c)' >= Room(e, c)
  BY RoomMoves DEF AnalyticsInv
<1>2. \A e \in Events, c \in Counters : Recorded(c, raw'[e]) >= Recorded(c, raw[e])
  <2>1. \A e \in Events, c \in Counters : Recorded(c, raw[e]) \in Nat
    BY RawIsNat DEF AnalyticsInv
  <2> QED
    BY <2>1
<1>3. ASSUME NEW s \in Requests, s # r
      PROVE  req'[s] = req[s]
  BY <1>3 DEF AnalyticsInv, TypeOK
<1>4. req'[r] = q
  BY DEF AnalyticsInv, TypeOK
<1>5. CountFits(req'[r], raw')
  BY <1>4
<1>6. BaseFits(req[r])'
  <2> SUFFICES ASSUME q.op = "update", NEW c \in Counters
               PROVE  q.base[c] <= Room(q.event, c)'
    BY <1>4 DEF BaseFits
  <2>1. q \in Updating
    BY RequestKinds
  <2>2. q.base[c] \in Int
    BY <2>1 DEF Updating
  <2>3. PICK e \in Events : e = q.event
    OBVIOUS
  <2>4. Room(e, c) \in Int /\ Room(e, c)' \in Int /\ Room(e, c)' >= Room(e, c)
    BY <1>1, RoomIs, PrimedIs DEF AnalyticsInv
  <2>5. q.base[c] <= Room(e, c)
    BY <2>3
  <2>6. q.base[c] <= Room(e, c)'
    BY <2>2, <2>4, <2>5
  <2> QED
    BY <2>3, <2>6
<1>7. \A s \in Requests :
        \/ req'[s] = req[s]
        \/ BaseFits(req[s])' /\ CountFits(req'[s], raw')
  BY <1>3, <1>5, <1>6
<1> QED
  BY <1>1, <1>2, <1>7, InvKept

LEMMA LogRecordInv ==
  ASSUME AnalyticsInv, TypeOK', NEW r \in Requests, NEW e \in Events, NEW k \in Kinds, LogRecord(r, e, k)
  PROVE  AnalyticsInv'
<1> DEFINE q == [op |-> "log", event |-> e, kind |-> k]
<1>1. /\ req' = [req EXCEPT ![r] = q] /\ raw' = [raw EXCEPT ![e][k] = @ + 1]
      /\ rows' = rows /\ early' = early
  BY DEF LogRecord
<1>2. req[r] = Idle
  BY DEF LogRecord
<1>3. \A f, c : ~Bumps(req[r], f, c)
  BY <1>2, IdleIs DEF Bumps
<1>4. q.op = "log" /\ q.event = e /\ q.kind = k
  OBVIOUS
<1>5. TypeOK
  BY DEF AnalyticsInv
<1>6. raw[e] \in [Kinds -> Nat] /\ raw'[e] = [raw[e] EXCEPT ![k] = @ + 1]
      /\ \A f \in Events : f # e => raw'[f] = raw[f]
  BY <1>1, <1>5 DEF TypeOK
<1> HIDE DEF q
<1>7. ASSUME NEW f \in Events, NEW c \in Counters
      PROVE  /\ Room(f, c)' = Room(f, c)
             /\ Recorded(c, raw'[f]) >= Recorded(c, raw[f])
  <2>1. Recorded(c, raw[f]) \in Nat /\ early[f] \in Nat
    BY <1>5, RawIsNat DEF TypeOK
  <2>2. Coming(req, f, c) \in Nat /\ Coming(req', f, c) \in Nat
    BY ComingIsNat
  <2>3. Bumps(q, f, c) <=> f = e /\ c \in Bumped(k)
    BY <1>4 DEF Bumps
  <2>4. PICK to : to = req'
    OBVIOUS
  <2>5. to = Moved(req, r, q) /\ req \in [Requests -> Request]
    BY <1>1, <1>5, <2>4 DEF Moved, TypeOK
  <2>6. /\ (Bumps(q, f, c) <=> Bumps(req[r], f, c)) => Coming(to, f, c) = Coming(req, f, c)
        /\ Bumps(q, f, c) /\ ~Bumps(req[r], f, c) => Coming(to, f, c) = Coming(req, f, c) + 1
    BY <2>5, ComingMoves
  <2>7. Coming(req', f, c) = IF f = e /\ c \in Bumped(k) THEN Coming(req, f, c) + 1 ELSE Coming(req, f, c)
    BY <1>3, <2>3, <2>4, <2>6
  <2>8. Recorded(c, raw'[f]) = IF f = e /\ c \in Bumped(k) THEN Recorded(c, raw[f]) + 1 ELSE Recorded(c, raw[f])
    <3>1. CASE f = e
      BY <1>6, <3>1, RecordedGrows
    <3>2. CASE f # e
      BY <1>6, <3>2
    <3> QED
      BY <3>1, <3>2
  <2>9. /\ Room(f, c) = Recorded(c, raw[f]) + early[f] - Coming(req, f, c)
        /\ Room(f, c)' = Recorded(c, raw'[f]) + early[f] - Coming(req', f, c)
    BY <1>1 DEF Room
  <2> QED
    BY <2>1, <2>2, <2>7, <2>8, <2>9
<1>8. \A f \in Events, c \in Counters : Room(f, c)' >= Room(f, c)
  <2>1. \A f \in Events, c \in Counters : Room(f, c) \in Int
    BY <1>5, RoomIs
  <2> QED
    BY <1>7, <2>1
<1>9. ASSUME NEW s \in Requests
      PROVE  \/ req'[s] = req[s]
             \/ BaseFits(req[s])' /\ CountFits(req'[s], raw')
  <2>1. CASE s = r
    <3>1. req'[s].op = "log"
      BY <1>1, <1>4, <1>5, <2>1 DEF TypeOK
    <3> QED
      BY <3>1 DEF BaseFits, CountFits
  <2>2. CASE s # r
    BY <1>1, <1>5, <2>2 DEF TypeOK
  <2> QED
    BY <2>1, <2>2
<1> QED
  BY <1>1, <1>7, <1>8, <1>9, InvKept

LEMMA ReadRowInv ==
  ASSUME AnalyticsInv, TypeOK', NEW r \in Requests, ReadRow(r)
  PROVE  AnalyticsInv'
<1> DEFINE e == req[r].event
           b == IF NeedsRow(e) THEN Zero ELSE LatestRow(e).n
           q == [op |-> "update", event |-> e, kind |-> req[r].kind, seen |-> Seen(e), base |-> b]
<1>1. TypeOK
  BY DEF AnalyticsInv
<1>2. req[r] \in Logging /\ req[r].op = "log"
  BY <1>1, RequestKinds DEF TypeOK, ReadRow
<1>3. e \in Events
  BY <1>2 DEF Logging
<1>4. req' = [req EXCEPT ![r] = q] /\ raw' = raw /\ early' = early /\ rows' = rows
  BY DEF ReadRow
<1>5. \A c \in Counters : b[c] <= Room(e, c)
  <2>1. CASE NeedsRow(e)
    BY <1>3, <2>1, ZeroIs DEF AnalyticsInv, NoneFits
  <2>2. CASE ~NeedsRow(e)
    <3>1. Len(rows[e]) \in 1 .. Len(rows[e])
      BY <1>1, <1>3, <2>2, SeenIs
    <3>2. \A c \in Counters : rows[e][Len(rows[e])].n[c] <= Room(e, c)
      BY <1>3, <3>1 DEF AnalyticsInv, RowsFit
    <3> QED
      BY <2>2, <3>2 DEF LatestRow
  <2> QED
    BY <2>1, <2>2
<1>6. q.op = "update" /\ q.event = e /\ q.kind = req[r].kind /\ q.base = b
  OBVIOUS
<1>7. req'[r] = q
  BY <1>1, <1>4 DEF TypeOK
<1>8. q \in Request
  BY <1>7 DEF TypeOK
<1> HIDE DEF e, b, q
<1>9. \A f \in Events, c \in Counters : Bumps(q, f, c) => Bumps(req[r], f, c)
  BY <1>2, <1>6 DEF Bumps, e
<1>10. CountFits(q, raw)
  BY <1>6 DEF CountFits
<1> QED
  BY <1>3, <1>4, <1>5, <1>6, <1>8, <1>9, <1>10, InvMoves

LEMMA UpdateFailsInv ==
  ASSUME AnalyticsInv, TypeOK', NEW r \in Requests, UpdateFails(r)
  PROVE  AnalyticsInv'
<1>1. req' = [req EXCEPT ![r] = Idle] /\ raw' = raw /\ early' = early /\ rows' = rows
  BY DEF UpdateFails
<1>2. CountFits(Idle, raw) /\ \A f, c : ~Bumps(Idle, f, c)
  BY IdleIs DEF CountFits, Bumps
<1> QED
  BY <1>1, <1>2, IdleIs, InvMoves

LEMMA WriteRowInv ==
  ASSUME AnalyticsInv, TypeOK', NEW r \in Requests, WriteRow(r)
  PROVE  AnalyticsInv'
<1> DEFINE i == req[r].seen
           k == req[r].kind
           b == req[r].base
<1>1. TypeOK
  BY DEF AnalyticsInv
<1>2. PICK e \in Events : e = req[r].event
  BY <1>1, WrittenIs
<1>3. /\ req[r] \in Updating /\ req[r].op = "update"
      /\ rows' = [rows EXCEPT ![e] = Written(r)]
      /\ i = 0 => /\ Len(Written(r)) = Len(rows[e]) + 1
                  /\ Written(r)[Len(rows[e]) + 1].n = Incremented(Zero, Zero, k)
                  /\ \A j \in 1 .. Len(rows[e]) : Written(r)[j] = rows[e][j]
      /\ i # 0 => /\ Len(Written(r)) = Len(rows[e])
                  /\ i \in 1 .. Len(rows[e])
                  /\ Written(r)[i].n = Incremented(b, rows[e][i].n, k)
                  /\ \A j \in 1 .. Len(rows[e]) : j # i => Written(r)[j] = rows[e][j]
  BY <1>1, <1>2, WrittenIs DEF WriteRow
<1>4. /\ b \in [Counters -> Int]
      /\ \A c \in Counters : b[c] <= Room(e, c)
  BY <1>2, <1>3 DEF Updating, AnalyticsInv, BaseFits
<1>5. req' = [req EXCEPT ![r] = Idle] /\ raw' = raw /\ early' = early
  BY DEF WriteRow
<1>6. \A f, c : ~Bumps(Idle, f, c)
  BY IdleIs DEF Bumps
<1>7. CountFits(Idle, raw)
  BY IdleIs DEF CountFits
<1>8. ASSUME NEW c \in Counters
      PROVE  /\ Room(e, c) \in Int /\ Room(e, c)' \in Int /\ Room(e, c)' >= Room(e, c)
             /\ 0 <= Room(e, c)
             /\ c \in Bumped(k) => Room(e, c)' = Room(e, c) + 1
  <2>1. Room(e, c) \in Int /\ Room(e, c)' \in Int /\ 0 <= Room(e, c)
    BY <1>1, RoomIs, PrimedIs DEF AnalyticsInv, NoneFits
  <2>2. /\ Room(e, c)' >= Room(e, c)
        /\ Bumps(req[r], e, c) /\ ~Bumps(Idle, e, c) => Room(e, c)' = Room(e, c) + 1
    BY <1>1, <1>5, <1>6, RoomMoves
  <2>3. c \in Bumped(k) => Bumps(req[r], e, c)
    BY <1>2, <1>3 DEF Bumps
  <2> QED
    BY <1>6, <2>1, <2>2, <2>3
<1>9. rows[e] \in Seq(Row) /\ Len(rows[e]) \in Nat /\ rows \in [Events -> Seq(Row)]
  BY <1>1 DEF TypeOK
<1>10. rows'[e] = Written(r) /\ \A f \in Events : f # e => rows'[f] = rows[f]
  BY <1>3, <1>9
<1> HIDE DEF i, k, b
<1>11. ASSUME NEW now \in [Counters -> Int], NEW base \in [Counters -> Int], NEW c \in Counters,
              now[c] <= Room(e, c), base[c] <= Room(e, c)
       PROVE  Incremented(base, now, k)[c] <= Room(e, c)'
  <2>1. Incremented(base, now, k)[c] = IF c \in Bumped(k) THEN base[c] + 1 ELSE now[c]
    BY DEF Incremented
  <2> QED
    BY <1>8, <1>11, <2>1
<1>12. ASSUME NEW j \in 1 .. Len(rows'[e]), NEW c \in Counters,
              ~(j \in 1 .. Len(rows[e]) /\ rows'[e][j] = rows[e][j])
       PROVE  rows'[e][j].n[c] <= Room(e, c)'
  <2>1. CASE i = 0
    <3>1. j = Len(rows[e]) + 1
      BY <1>3, <1>9, <1>10, <1>12, <2>1
    <3>2. rows'[e][j].n = Incremented(Zero, Zero, k)
      BY <1>3, <1>10, <2>1, <3>1
    <3>3. Zero \in [Counters -> Int] /\ Zero[c] <= Room(e, c)
      BY <1>8, ZeroIs
    <3> QED
      BY <1>11, <3>2, <3>3
  <2>2. CASE i # 0
    <3>1. j = i /\ i \in 1 .. Len(rows[e])
      BY <1>3, <1>10, <1>12, <2>2
    <3>2. rows'[e][j].n = Incremented(b, rows[e][i].n, k)
      BY <1>3, <1>10, <2>2, <3>1
    <3>3. rows[e][i].n \in [Counters -> Int]
      <4>1. rows[e][i] \in Row
        BY <1>9, <3>1
      <4> QED
        BY <4>1 DEF Row
    <3>4. rows[e][i].n[c] <= Room(e, c)
      BY <3>1 DEF AnalyticsInv, RowsFit
    <3> QED
      BY <1>4, <1>11, <3>2, <3>3, <3>4
  <2> QED
    BY <2>1, <2>2
<1>13. \A f \in Events : \A j \in 1 .. Len(rows'[f]) :
         \/ j \in 1 .. Len(rows[f]) /\ rows'[f][j] = rows[f][j]
         \/ \A c \in Counters : rows'[f][j].n[c] <= Room(f, c)'
  BY <1>10, <1>12
<1> QED
  BY <1>5, <1>6, <1>7, <1>13, IdleIs, InvMoves

\* A query of a first reader; the second of a pair is of at least as many records.
LEMMA CountRecordsFits ==
  ASSUME AnalyticsInv, NEW r \in Requests, CountRecords(r)
  PROVE  \E q \in Counting : /\ req' = [req EXCEPT ![r] = q]
                             /\ q.op = "count"
                             /\ CountFits(q, raw)
<1> DEFINE c == CountOrder[req[r].at]
           e == req[r].event
           at == req[r].at
           old == req[r].counted
           n == [old EXCEPT ![c] = Recorded(c, raw[e])]
           q == Counted(req[r], at + 1, n)
<1>1. TypeOK
  BY DEF AnalyticsInv
<1>2. /\ req' = [req EXCEPT ![r] = q] /\ req[r] \in Counting /\ at \in 1 .. 5
      /\ q \in Counting /\ q.op = "count" /\ q.event = e /\ q.at = at + 1 /\ q.counted = n
  BY <1>1, CountsTo
<1>3. e \in Events /\ old \in [Counters -> Int] /\ req[r].op = "count"
  BY <1>2 DEF Counting
<1>4. /\ \A d \in {"scan", "valid", "transfer", "successful", "attempt"} : old[d] <= Recorded(d, raw[e])
      /\ at > 2 => old["scan"] - old["valid"] <= Recorded("invalid", raw[e])
      /\ at > 4 => old["transfer"] - old["successful"] <= Recorded("failed", raw[e])
  BY <1>3 DEF AnalyticsInv, CountFits
<1>5. /\ c = "scan" <=> at = 1
      /\ c = "valid" <=> at = 2
      /\ c = "transfer" <=> at = 3
      /\ c = "successful" <=> at = 4
      /\ c = "attempt" <=> at = 5
  BY <1>2 DEF CountOrder
<1>6. /\ Recorded("scan", raw[e]) = Recorded("valid", raw[e]) + Recorded("invalid", raw[e])
      /\ Recorded("transfer", raw[e]) = Recorded("successful", raw[e]) + Recorded("failed", raw[e])
  BY <1>1, <1>3, RecordedSums DEF TypeOK
<1>7. \A d \in Counters : Recorded(d, raw[e]) \in Nat
  BY <1>1, <1>3, RawIsNat
<1> HIDE DEF c, e, at, old
<1>8. \A d \in Counters : n[d] = IF d = c THEN Recorded(d, raw[e]) ELSE old[d]
  BY <1>3
<1>9. /\ \A d \in {"scan", "valid", "transfer", "successful", "attempt"} : d \in Counters /\ old[d] \in Int
      /\ "invalid" \in Counters /\ "failed" \in Counters
  BY <1>3, CountersAre
<1> HIDE DEF n, q
<1>10. \A d \in {"scan", "valid", "transfer", "successful", "attempt"} : n[d] <= Recorded(d, raw[e])
  BY <1>4, <1>7, <1>8, <1>9
<1>11. at + 1 > 2 => n["scan"] - n["valid"] <= Recorded("invalid", raw[e])
  <2>1. CASE at = 2
    BY <1>4, <1>5, <1>6, <1>7, <1>8, <1>9, <2>1
  <2>2. CASE at # 2
    BY <1>2, <1>4, <1>5, <1>8, <1>9, <2>2
  <2> QED
    BY <2>1, <2>2
<1>12. at + 1 > 4 => n["transfer"] - n["successful"] <= Recorded("failed", raw[e])
  <2>1. CASE at = 4
    BY <1>4, <1>5, <1>6, <1>7, <1>8, <1>9, <2>1
  <2>2. CASE at # 4
    BY <1>2, <1>4, <1>5, <1>8, <1>9, <2>2
  <2> QED
    BY <2>1, <2>2
<1>13. CountFits(q, raw)
  BY <1>2, <1>10, <1>11, <1>12 DEF CountFits
<1> QED
  BY <1>2, <1>13

LEMMA AskMoveInv ==
  ASSUME AnalyticsInv, TypeOK', NEW r \in Requests, AskMove(r)
  PROVE  AnalyticsInv'
<1>1. TypeOK
  BY DEF AnalyticsInv
<1>2. PICK q \in Request : /\ req' = [req EXCEPT ![r] = q]
                          /\ q.op \in {"idle", "ask", "count"}
                          /\ CountFits(q, raw)
  <2>1. CASE CountRecords(r)
    BY <2>1, CountRecordsFits DEF Request
  <2>2. CASE ~CountRecords(r)
    <3>1. PICK q \in Request :
            /\ req' = [req EXCEPT ![r] = q]
            /\ q.op \in {"idle", "ask", "count"}
            /\ q.op = "count" => q.at = 1 /\ q.event \in Events /\ q.counted = Zero
      BY <1>1, <2>2, AskMoves
    <3>2. ASSUME q.op = "count" PROVE CountFits(q, raw)
      <4>1. \A c \in Counters : Recorded(c, raw[q.event]) \in Nat
        BY <1>1, <3>1, <3>2, RawIsNat
      <4>2. \A c \in {"scan", "valid", "transfer", "successful", "attempt"} : c \in Counters
        BY CountersAre
      <4> QED
        BY <3>1, <3>2, <4>1, <4>2, ZeroIs DEF CountFits
    <3>3. CountFits(q, raw)
      BY <3>2 DEF CountFits
    <3> QED
      BY <3>1, <3>3
  <2> QED
    BY <2>1, <2>2
<1>3. rows' = rows /\ raw' = raw /\ early' = early
  BY <1>1, AskMoveFrame
<1>4. \A e, c : ~Bumps(q, e, c)
  BY <1>2 DEF Bumps
<1> QED
  BY <1>2, <1>3, <1>4, InvMoves

\* What a first reader inserts is at most what there is.
LEMMA DifferenceFits ==
  ASSUME AnalyticsInv, NEW r \in Requests, InsertCounted(r), NEW c \in Counters
  PROVE  Difference(req[r].counted)[c] <= Recorded(c, raw[req[r].event])
<1> DEFINE n == req[r].counted
           e == req[r].event
<1>1. req[r] \in Counting /\ req[r].at = 6 /\ req[r].op = "count" /\ e \in Events
  BY InsertIs DEF AnalyticsInv, InsertCounted
<1>2. n \in [Counters -> Int]
  BY <1>1 DEF Counting
<1>3. /\ \A d \in {"scan", "valid", "transfer", "successful", "attempt"} : n[d] <= Recorded(d, raw[e])
      /\ n["scan"] - n["valid"] <= Recorded("invalid", raw[e])
      /\ n["transfer"] - n["successful"] <= Recorded("failed", raw[e])
  BY <1>1 DEF AnalyticsInv, CountFits
<1> HIDE DEF n, e
<1>4. /\ Difference(n)["invalid"] = n["scan"] - n["valid"]
      /\ Difference(n)["failed"] = n["transfer"] - n["successful"]
      /\ \A d \in {"scan", "valid", "transfer", "successful", "attempt"} : Difference(n)[d] = n[d]
  BY <1>2, CountersAre DEF Difference
<1>5. Difference(n)[c] <= Recorded(c, raw[e])
  BY <1>3, <1>4, CountersAre
<1> QED
  BY <1>5 DEF n, e

LEMMA InsertInv ==
  ASSUME AnalyticsInv, TypeOK', NEW r \in Requests, InsertCounted(r)
  PROVE  AnalyticsInv'
<1>1. TypeOK
  BY DEF AnalyticsInv
<1>2. PICK e \in Events : e = req[r].event
  BY <1>1, InsertIs
<1> DEFINE q == Answered(r, e)
           pending == Cardinality(Pending(e))
<1>3. /\ req[r] \in Counting
      /\ rows' = [rows EXCEPT ![e] = rows'[e]]
      /\ Len(rows'[e]) = Len(rows[e]) + 1
      /\ rows'[e][Len(rows'[e])].n = Difference(req[r].counted)
      /\ \A i \in 1 .. Len(rows[e]) : rows'[e][i] = rows[e][i]
      /\ pending \in Nat /\ IsFiniteSet(Pending(e))
      /\ early' = [early EXCEPT ![e] = @ + pending]
      /\ req' = [req EXCEPT ![r] = q]
      /\ q \in Request /\ q.op \in {"idle", "ask"}
      /\ raw' = raw
  BY <1>1, <1>2, InsertIs
<1> HIDE DEF q
<1>4. \A f, c : ~Bumps(q, f, c) /\ ~Bumps(req[r], f, c)
  BY <1>3 DEF Bumps, InsertCounted
<1>5. \A f, c : Coming(req', f, c) = Coming(req, f, c)
  <2>1. PICK to : to = req'
    OBVIOUS
  <2>2. to = Moved(req, r, q) /\ req \in [Requests -> Request]
    BY <1>1, <1>3, <2>1 DEF Moved, TypeOK
  <2>3. \A f, c : (Bumps(q, f, c) <=> Bumps(req[r], f, c)) => Coming(to, f, c) = Coming(req, f, c)
    BY <2>2, ComingMoves
  <2> QED
    BY <1>4, <2>1, <2>3
<1>6. ASSUME NEW c \in Counters PROVE Coming(req, e, c) <= pending
  <2>1. Bumping(req, e, c) \subseteq Pending(e)
    BY DEF Bumping, Pending
  <2> QED
    BY <1>3, <2>1, FS_Subset DEF Coming
<1> HIDE DEF pending
<1>7. early \in [Events -> Nat] /\ rows \in [Events -> Seq(Row)]
      /\ early'[e] = early[e] + pending /\ \A f \in Events : f # e => early'[f] = early[f]
  BY <1>1, <1>3 DEF TypeOK
<1>8. ASSUME NEW f \in Events, NEW c \in Counters
      PROVE  /\ Room(f, c)' >= Room(f, c)
             /\ f = e => Recorded(c, raw[f]) <= Room(f, c)'
             /\ Recorded(c, raw'[f]) >= Recorded(c, raw[f])
  <2>1. Recorded(c, raw[f]) \in Nat
    BY <1>1, RawIsNat
  <2>2. Coming(req, f, c) \in Nat
    BY ComingIsNat
  <2>3. /\ Room(f, c) = Recorded(c, raw[f]) + early[f] - Coming(req, f, c)
        /\ Room(f, c)' = Recorded(c, raw[f]) + early'[f] - Coming(req, f, c)
    BY <1>3, <1>5 DEF Room
  <2> QED
    BY <1>3, <1>6, <1>7, <2>1, <2>2, <2>3
<1>9. ASSUME NEW c \in Counters
      PROVE  rows'[e][Len(rows'[e])].n[c] <= Room(e, c)'
  <2>1. Difference(req[r].counted)[c] <= Recorded(c, raw[e])
    BY <1>2, DifferenceFits
  <2>2. Difference(req[r].counted)[c] \in Int
    BY <1>3, DifferenceIs DEF Counting
  <2>3. Recorded(c, raw[e]) \in Int /\ Room(e, c)' \in Int
    BY <1>1, RawIsNat, PrimedIs
  <2>4. Recorded(c, raw[e]) <= Room(e, c)'
    BY <1>8
  <2>5. Difference(req[r].counted)[c] <= Room(e, c)'
    BY <2>1, <2>2, <2>3, <2>4
  <2> QED
    BY <1>3, <2>5
<1>10. ASSUME NEW f \in Events, NEW i \in 1 .. Len(rows'[f])
       PROVE  \/ i \in 1 .. Len(rows[f]) /\ rows'[f][i] = rows[f][i]
              \/ \A c \in Counters : rows'[f][i].n[c] <= Room(f, c)'
  <2>1. CASE f # e
    BY <1>3, <1>7, <1>10, <2>1
  <2>2. CASE f = e
    <3>1. Len(rows[e]) \in Nat
      BY <1>7
    <3>2. i \in 1 .. Len(rows[e]) \/ i = Len(rows'[e])
      BY <1>3, <1>10, <2>2, <3>1
    <3> QED
      BY <1>3, <1>9, <2>2, <3>2
  <2> QED
    BY <2>1, <2>2
<1>11. ASSUME NEW s \in Requests
       PROVE  \/ req'[s] = req[s]
              \/ BaseFits(req[s])' /\ CountFits(req'[s], raw')
  <2>1. CASE s = r
    <3>1. req'[s].op \in {"idle", "ask"}
      BY <1>1, <1>3, <2>1 DEF TypeOK
    <3> QED
      BY <3>1 DEF BaseFits, CountFits
  <2>2. CASE s # r
    BY <1>1, <1>3, <2>2 DEF TypeOK
  <2> QED
    BY <2>1, <2>2
<1> QED
  BY <1>8, <1>10, <1>11, InvKept

LEMMA RestartInv ==
  ASSUME AnalyticsInv, TypeOK', Restart
  PROVE  AnalyticsInv'
<1>1. TypeOK /\ raw' = raw /\ rows' = rows /\ early' = early /\ req' = [r \in Requests |-> Idle]
  BY DEF AnalyticsInv, Restart
<1>2. ASSUME NEW e \in Events, NEW c \in Counters
      PROVE  Room(e, c)' >= Room(e, c) /\ Recorded(c, raw'[e]) >= Recorded(c, raw[e])
  <2>1. Bumping(req', e, c) = {}
    BY <1>1, IdleIs DEF Bumping
  <2>2. Coming(req', e, c) = 0
    BY <2>1, FS_EmptySet DEF Coming
  <2>3. Coming(req, e, c) \in Nat /\ Recorded(c, raw[e]) \in Nat /\ early[e] \in Nat
    BY <1>1, ComingIsNat, RawIsNat DEF TypeOK
  <2>4. /\ Room(e, c) = Recorded(c, raw[e]) + early[e] - Coming(req, e, c)
        /\ Room(e, c)' = Recorded(c, raw[e]) + early[e] - Coming(req', e, c)
    BY <1>1 DEF Room
  <2> QED
    BY <1>1, <2>2, <2>3, <2>4
<1>3. ASSUME NEW s \in Requests
      PROVE  BaseFits(req[s])' /\ CountFits(req'[s], raw')
  BY <1>1, <1>3, IdleIs DEF BaseFits, CountFits
<1> QED
  BY <1>1, <1>2, <1>3, InvKept

LEMMA SameInv ==
  ASSUME AnalyticsInv, TypeOK', UNCHANGED <<raw, rows, req, early>>
  PROVE  AnalyticsInv'
BY DEF AnalyticsInv, RowsFit, NoneFits, BaseFits, Room

LEMMA NextInv == AnalyticsInv /\ [Next]_vars => AnalyticsInv'
<1> SUFFICES ASSUME AnalyticsInv, [Next]_vars PROVE AnalyticsInv'
  OBVIOUS
<1>1. TypeOK'
  BY NextTypes DEF AnalyticsInv
<1>2. CASE UNCHANGED vars
  BY <1>1, <1>2, SameInv DEF vars
<1>3. CASE NextDay
  BY <1>1, <1>3, SameInv DEF NextDay
<1>4. CASE Next /\ ~NextDay
  BY <1>1, <1>4, Steps, LogRecordInv, ReadRowInv, WriteRowInv, UpdateFailsInv, AskMoveInv,
     InsertInv, RestartInv
<1> QED
  BY <1>2, <1>3, <1>4

LEMMA InitInv == Init => AnalyticsInv
<1> SUFFICES ASSUME Init PROVE AnalyticsInv
  OBVIOUS
<1>1. TypeOK
  BY AnalyticsAssumption, IdleIs DEF Init, TypeOK
<1>2. RowsFit
  BY DEF Init, RowsFit
<1>3. NoneFits
  <2> SUFFICES ASSUME NEW e \in Events, NEW c \in Counters PROVE 0 <= Room(e, c)
    BY DEF NoneFits
  <2>1. Bumping(req, e, c) = {}
    BY IdleIs DEF Init, Bumping
  <2>2. Coming(req, e, c) = 0
    BY <2>1, FS_EmptySet DEF Coming
  <2>3. Recorded(c, raw[e]) \in Nat /\ early[e] = 0
    BY <1>1, RawIsNat DEF Init
  <2> QED
    BY <2>2, <2>3 DEF Room
<1>4. \A r \in Requests : BaseFits(req[r]) /\ CountFits(req[r], raw)
  BY IdleIs DEF Init, BaseFits, CountFits
<1> QED
  BY <1>1, <1>2, <1>3, <1>4 DEF AnalyticsInv

\* A counter exceeds the records it stands for by no more than the updates that a first reader
\* had counted before they came, whatever overlaps, fails or restarts.
THEOREM AnalyticsOvercount == Spec => []OvercountNeedsFirstReader
<1>1. AnalyticsInv => OvercountNeedsFirstReader
  <2> SUFFICES ASSUME AnalyticsInv, NEW e \in Events, NEW i \in 1 .. Len(rows[e]), NEW c \in Counters
               PROVE  rows[e][i].n[c] <= Recorded(c, raw[e]) + early[e]
    BY DEF OvercountNeedsFirstReader
  <2>1. TypeOK /\ rows[e][i].n[c] <= Room(e, c)
    BY DEF AnalyticsInv, RowsFit
  <2>2. Recorded(c, raw[e]) \in Nat /\ early[e] \in Nat /\ Coming(req, e, c) \in Nat
    BY <2>1, RawIsNat, ComingIsNat DEF TypeOK
  <2>3. rows[e][i] \in Row
    BY <2>1 DEF TypeOK
  <2>4. rows[e][i].n[c] \in Int
    BY <2>3 DEF Row
  <2> QED
    BY <2>1, <2>2, <2>4 DEF Room
<1> QED
  BY <1>1, InitInv, NextInv, PTL DEF Spec

-----------------------------------------------------------------------------
(* Undisturbed events.  At most one update of such an event is between its *)
(* read and its commit, and nothing touches the row meanwhile, so what it  *)
(* has read is the latest row; and no record has lost its update.          *)

\* What the latest row counts; nothing when there is none.
Latest(e) == IF rows[e] = << >> THEN Zero ELSE LatestRow(e).n

\* The requests between the read and the commit of an update of e.
UpdatesOf(e) == {r \in Requests : req[r].op = "update" /\ req[r].event = e}

IsExact(e) ==
  /\ rows[e] # << >> => LatestRow(e).day = day
  /\ \A c \in Counters : Latest(e)[c] + Coming(req, e, c) = Recorded(c, raw[e])
  /\ \A r, s \in UpdatesOf(e) : r = s
  /\ \A r \in UpdatesOf(e) : req[r].seen = Len(rows[e]) /\ req[r].base = Latest(e)

ExactInv == \A e \in Events \ disturbed : IsExact(e)

\* The latest row's counters.
LEMMA LatestIs ==
  ASSUME TypeOK, NEW e \in Events
  PROVE  /\ Latest(e) \in [Counters -> Int]
         /\ Len(rows[e]) \in Nat
         /\ rows[e] = << >> <=> Len(rows[e]) = 0
<1>1. rows[e] \in Seq(Row) /\ Len(rows[e]) \in Nat
  BY DEF TypeOK
<1>2. rows[e] = << >> <=> Len(rows[e]) = 0
  BY <1>1
<1>3. CASE rows[e] # << >>
  <2>1. Len(rows[e]) \in 1 .. Len(rows[e])
    BY <1>1, <1>2, <1>3
  <2>2. rows[e][Len(rows[e])] \in Row
    BY <1>1, <2>1
  <2>3. rows[e][Len(rows[e])].n \in [Counters -> Int]
    BY <2>2 DEF Row
  <2> QED
    BY <1>1, <1>2, <1>3, <2>3 DEF Latest, LatestRow
<1>4. CASE rows[e] = << >>
  BY <1>1, <1>2, <1>4, ZeroIs DEF Latest
<1> QED
  BY <1>3, <1>4

\* A step that leaves an event's row, records and updates alone.
LEMMA ExactKept ==
  ASSUME TypeOK, NEW e \in Events, IsExact(e), raw'[e] = raw[e], rows'[e] = rows[e], day' = day,
         \A c \in Counters : Coming(req', e, c) = Coming(req, e, c),
         \A r \in Requests : req'[r].op = "update" /\ req'[r].event = e => req'[r] = req[r]
  PROVE  IsExact(e)'
<1>1. Latest(e)' = Latest(e) /\ UpdatesOf(e)' \subseteq UpdatesOf(e)
  BY DEF Latest, LatestRow, UpdatesOf
<1>2. \A r \in UpdatesOf(e)' : req'[r] = req[r]
  BY DEF UpdatesOf
<1>3. rows[e] # << >> => LatestRow(e)' = LatestRow(e)
  BY DEF LatestRow
<1> QED
  BY <1>1, <1>2, <1>3 DEF IsExact

\* The steps of a request that do not move an update of event e.
LEMMA ElsewhereExact ==
  ASSUME TypeOK, NEW e \in Events, IsExact(e), NEW r \in Requests, NEW q \in Request,
         req' = [req EXCEPT ![r] = q], raw'[e] = raw[e], rows'[e] = rows[e], day' = day,
         req[r].op \in {"log", "update"} => req[r].event # e,
         q.op \in {"log", "update"} => q.event # e
  PROVE  IsExact(e)'
<1>1. req \in [Requests -> Request] /\ \A s \in Requests : req'[s] = IF s = r THEN q ELSE req[s]
  BY DEF TypeOK
<1>2. \A c : ~Bumps(q, e, c) /\ ~Bumps(req[r], e, c)
  BY DEF Bumps
<1>3. \A c \in Counters : Coming(req', e, c) = Coming(req, e, c)
  <2>1. PICK to : to = req'
    OBVIOUS
  <2>2. to = Moved(req, r, q)
    BY <2>1 DEF Moved
  <2>3. \A c : (Bumps(q, e, c) <=> Bumps(req[r], e, c)) => Coming(to, e, c) = Coming(req, e, c)
    BY <1>1, <2>2, ComingMoves
  <2> QED
    BY <1>2, <2>1, <2>3
<1> QED
  BY <1>1, <1>3, ExactKept

\* A record and its update come together.
LEMMA LogRecordExact ==
  ASSUME TypeOK, NEW e \in Events, IsExact(e), NEW r \in Requests, NEW f \in Events, NEW k \in Kinds,
         LogRecord(r, f, k)
  PROVE  IsExact(e)'
<1> DEFINE q == [op |-> "log", event |-> f, kind |-> k]
<1>1. /\ q \in Request /\ q.op = "log" /\ q.event = f /\ q.kind = k
      /\ req' = [req EXCEPT ![r] = q] /\ raw' = [raw EXCEPT ![f][k] = @ + 1]
      /\ rows' = rows /\ day' = day
  <2>1. q \in Logging
    BY DEF Logging
  <2> QED
    BY <2>1 DEF LogRecord, Request
<1>2. req[r].op = "idle"
  BY IdleIs DEF LogRecord
<1> HIDE DEF q
<1>3. raw \in [Events -> [Kinds -> Nat]] /\ raw[e] \in [Kinds -> Nat]
  BY DEF TypeOK
<1>4. CASE f # e
  <2>1. raw'[e] = raw[e] /\ rows'[e] = rows[e]
    BY <1>1, <1>3, <1>4
  <2> QED
    BY <1>1, <1>2, <1>4, <2>1, ElsewhereExact
<1>5. CASE f = e
  <2>1. raw'[e] = [raw[e] EXCEPT ![k] = @ + 1]
    BY <1>1, <1>3, <1>5
  <2>2. ASSUME NEW c \in Counters
        PROVE  Latest(e)[c] + Coming(req', e, c) = Recorded(c, raw'[e])
    <3>1. Recorded(c, raw'[e]) = IF c \in Bumped(k) THEN Recorded(c, raw[e]) + 1 ELSE Recorded(c, raw[e])
      <4>1. PICK n \in [Kinds -> Nat] : n = raw[e]
        BY <1>3
      <4>2. raw'[e] = [n EXCEPT ![k] = @ + 1]
        BY <2>1, <4>1
      <4> QED
        BY <4>1, <4>2, RecordedGrows
    <3>2. /\ ~Bumps(req[r], e, c)
          /\ Bumps(q, e, c) <=> c \in Bumped(k)
      BY <1>1, <1>2, <1>5 DEF Bumps
    <3>3. /\ Coming(req, e, c) \in Nat /\ Coming(req', e, c) \in Nat
          /\ Coming(req', e, c) = IF c \in Bumped(k) THEN Coming(req, e, c) + 1 ELSE Coming(req, e, c)
      <4>1. PICK to : to = req'
        OBVIOUS
      <4>2. to = Moved(req, r, q) /\ req \in [Requests -> Request]
        BY <1>1, <4>1 DEF Moved, TypeOK
      <4>3. /\ (Bumps(q, e, c) <=> Bumps(req[r], e, c)) => Coming(to, e, c) = Coming(req, e, c)
            /\ Bumps(q, e, c) /\ ~Bumps(req[r], e, c) => Coming(to, e, c) = Coming(req, e, c) + 1
        BY <4>2, ComingMoves
      <4>4. Coming(to, e, c) = IF c \in Bumped(k) THEN Coming(req, e, c) + 1 ELSE Coming(req, e, c)
        BY <3>2, <4>3
      <4> QED
        BY <4>1, <4>4, ComingIsNat
    <3>4. Latest(e)[c] \in Int /\ Latest(e)[c] + Coming(req, e, c) = Recorded(c, raw[e])
      BY LatestIs DEF IsExact
    <3> QED
      BY <3>1, <3>3, <3>4
  <2>3. Latest(e)' = Latest(e) /\ (rows[e] # << >> => LatestRow(e)' = LatestRow(e))
    BY <1>1 DEF Latest, LatestRow
  <2>4. \A s \in UpdatesOf(e)' : s \in UpdatesOf(e) /\ req'[s] = req[s]
    BY <1>1 DEF UpdatesOf, TypeOK
  <2> QED
    BY <1>1, <2>2, <2>3, <2>4 DEF IsExact
<1> QED
  BY <1>4, <1>5

\* The only update reads the latest row.
LEMMA ReadRowExact ==
  ASSUME TypeOK, NEW e \in Events, e \notin disturbed', IsExact(e), NEW r \in Requests, ReadRow(r)
  PROVE  IsExact(e)'
<1> DEFINE f == req[r].event
           q == [op |-> "update", event |-> f, kind |-> req[r].kind, seen |-> Seen(f),
                 base |-> IF NeedsRow(f) THEN Zero ELSE LatestRow(f).n]
<1>1. /\ req' = [req EXCEPT ![r] = q] /\ raw' = raw /\ rows' = rows /\ day' = day
      /\ req[r].op = "log"
  BY DEF ReadRow
<1>2. TypeOK'
  BY ReadRowTypes
<1>3. /\ q.op = "update" /\ q.event = f /\ q.kind = req[r].kind /\ q.seen = Seen(f)
      /\ q.base = IF NeedsRow(f) THEN Zero ELSE LatestRow(f).n
  OBVIOUS
<1> HIDE DEF q
<1>4. req'[r] = q /\ \A s \in Requests : s # r => req'[s] = req[s]
  BY <1>1 DEF TypeOK
<1>5. q \in Request
  BY <1>2, <1>4 DEF TypeOK
<1>6. CASE f # e
  BY <1>1, <1>3, <1>5, <1>6, ElsewhereExact
<1>7. CASE f = e
  <2>1. UpdatesOf(e) = {}
    BY <1>7 DEF ReadRow, Pending, UpdatesOf
  <2>2. UpdatesOf(e)' \subseteq {r}
    BY <1>4, <2>1 DEF UpdatesOf
  <2>3. NeedsRow(e) <=> rows[e] = << >>
    BY DEF NeedsRow, IsExact
  <2>4. q.seen = Len(rows[e]) /\ q.base = Latest(e)
    BY <1>3, <1>7, <2>3, LatestIs DEF Seen, Latest
  <2>5. \A c : Bumps(q, e, c) <=> Bumps(req[r], e, c)
    BY <1>1, <1>3 DEF Bumps
  <2>6. \A c \in Counters : Coming(req', e, c) = Coming(req, e, c)
    <3>1. PICK to : to = req'
      OBVIOUS
    <3>2. to = Moved(req, r, q) /\ req \in [Requests -> Request]
      BY <1>1, <3>1 DEF Moved, TypeOK
    <3>3. \A c : (Bumps(q, e, c) <=> Bumps(req[r], e, c)) => Coming(to, e, c) = Coming(req, e, c)
      BY <3>2, ComingMoves
    <3> QED
      BY <2>5, <3>1, <3>3
  <2>7. Latest(e)' = Latest(e) /\ (rows[e] # << >> => LatestRow(e)' = LatestRow(e))
    BY <1>1 DEF Latest, LatestRow
  <2> QED
    BY <1>1, <1>4, <2>2, <2>4, <2>6, <2>7 DEF IsExact
<1> QED
  BY <1>6, <1>7

\* The commit adds to the latest row what was to come.
LEMMA WriteRowExact ==
  ASSUME TypeOK, NEW e \in Events, IsExact(e), NEW r \in Requests, WriteRow(r)
  PROVE  IsExact(e)'
<1> DEFINE i == req[r].seen
           k == req[r].kind
<1>1. /\ req' = [req EXCEPT ![r] = Idle] /\ raw' = raw /\ day' = day /\ req[r].op = "update"
  BY DEF WriteRow
<1>2. PICK f \in Events : f = req[r].event
  BY WrittenIs
<1>3. /\ req[r] \in Updating
      /\ rows' = [rows EXCEPT ![f] = Written(r)]
      /\ i = 0 => /\ Len(Written(r)) = Len(rows[f]) + 1
                  /\ Written(r)[Len(rows[f]) + 1].n = Incremented(Zero, Zero, k)
      /\ i # 0 => /\ Len(Written(r)) = Len(rows[f])
                  /\ i \in 1 .. Len(rows[f])
                  /\ Written(r)[i].n = Incremented(req[r].base, rows[f][i].n, k)
  BY <1>2, WrittenIs
<1>4. CASE f # e
  <2>1. rows'[e] = rows[e]
    BY <1>3, <1>4 DEF TypeOK
  <2> QED
    BY <1>1, <1>2, <1>4, <2>1, IdleIs, ElsewhereExact
<1>5. CASE f = e
  <2>1. r \in UpdatesOf(e) /\ i = Len(rows[e]) /\ req[r].base = Latest(e)
    BY <1>1, <1>2, <1>5 DEF UpdatesOf, IsExact
  <2>2. UpdatesOf(e)' = {}
    <3>1. \A s \in UpdatesOf(e) : s = r
      BY <2>1 DEF IsExact
    <3>2. req'[r] = Idle /\ \A s \in Requests : s # r => req'[s] = req[s]
      BY <1>1 DEF TypeOK
    <3> QED
      BY <3>1, <3>2, IdleIs DEF UpdatesOf
  <2>3. rows'[e] = Written(r)
    BY <1>3, <1>5 DEF TypeOK
  <2>4. /\ Len(rows'[e]) \in Nat /\ Len(rows'[e]) # 0
        /\ \A c \in Counters :
             Latest(e)'[c] = IF c \in Bumped(k) THEN Latest(e)[c] + 1 ELSE Latest(e)[c]
        /\ LatestRow(e)'.day = day
    <3>1. Len(rows[e]) \in Nat
      BY LatestIs
    <3>2. CASE i = 0
      <4>1. rows[e] = << >> /\ Latest(e) = Zero
        BY <2>1, <3>2, LatestIs DEF Latest
      <4>2. Written(r) = Append(rows[e], [day |-> day, n |-> Incremented(Zero, Zero, k)])
        BY <1>2, <1>5, <3>2 DEF Written
      <4>3. Len(rows'[e]) = 1 /\ rows'[e][1] = [day |-> day, n |-> Incremented(Zero, Zero, k)]
        BY <2>3, <4>1, <4>2
      <4>4. LatestRow(e)' = [day |-> day, n |-> Incremented(Zero, Zero, k)] /\ rows'[e] # << >>
        BY <4>3 DEF LatestRow
      <4>5. Latest(e)' = Incremented(Zero, Zero, k)
        BY <4>4 DEF Latest
      <4> QED
        BY <4>1, <4>3, <4>4, <4>5, ZeroIs DEF Incremented
    <3>3. CASE i # 0
      <4>1. rows[e] # << >> /\ Latest(e) = rows[e][i].n /\ rows[e][i].day = day
        BY <2>1, <3>3, LatestIs DEF Latest, LatestRow, IsExact
      <4> DEFINE next == [day |-> rows[e][i].day, n |-> Incremented(Latest(e), Latest(e), k)]
      <4>2. Written(r) = [rows[e] EXCEPT ![i] = next]
        BY <1>2, <1>5, <2>1, <3>3, <4>1 DEF Written
      <4>3. i \in 1 .. Len(rows[e]) /\ rows[e] \in Seq(Row)
        BY <1>3, <1>5, <3>3 DEF TypeOK
      <4> HIDE DEF next
      <4>4. Len(rows'[e]) = i /\ rows'[e][i] = next
        BY <2>1, <2>3, <4>2, <4>3
      <4>5. LatestRow(e)' = next /\ rows'[e] # << >>
        BY <3>1, <3>3, <4>4, <2>1 DEF LatestRow
      <4>6. Latest(e)' = Incremented(Latest(e), Latest(e), k) /\ LatestRow(e)'.day = day
        BY <4>1, <4>5 DEF Latest, next
      <4> QED
        BY <3>1, <3>3, <4>4, <4>6, <2>1 DEF Incremented
    <3> QED
      BY <3>2, <3>3
  <2>5. ASSUME NEW c \in Counters
        PROVE  Latest(e)'[c] + Coming(req', e, c) = Recorded(c, raw[e])
    <3>1. /\ ~Bumps(Idle, e, c)
          /\ Bumps(req[r], e, c) <=> c \in Bumped(k)
      BY <1>1, <1>2, <1>5, IdleIs DEF Bumps
    <3>2. /\ Coming(req, e, c) \in Nat /\ Coming(req', e, c) \in Nat
          /\ Coming(req', e, c) = IF c \in Bumped(k) THEN Coming(req, e, c) - 1 ELSE Coming(req, e, c)
      <4>1. PICK to : to = req'
        OBVIOUS
      <4>2. to = Moved(req, r, Idle) /\ req \in [Requests -> Request]
        BY <1>1, <4>1 DEF Moved, TypeOK
      <4>3. /\ (Bumps(Idle, e, c) <=> Bumps(req[r], e, c)) => Coming(to, e, c) = Coming(req, e, c)
            /\ ~Bumps(Idle, e, c) /\ Bumps(req[r], e, c) => Coming(to, e, c) = Coming(req, e, c) - 1
        BY <4>2, ComingMoves
      <4>4. Coming(to, e, c) = IF c \in Bumped(k) THEN Coming(req, e, c) - 1 ELSE Coming(req, e, c)
        BY <3>1, <4>3
      <4> QED
        BY <4>1, <4>4, ComingIsNat
    <3>3. /\ Latest(e)[c] \in Int
          /\ Latest(e)[c] + Coming(req, e, c) = Recorded(c, raw[e])
      BY LatestIs DEF IsExact
    <3> QED
      BY <2>4, <3>2, <3>3
  <2> QED
    BY <1>1, <2>2, <2>4, <2>5 DEF IsExact
<1> QED
  BY <1>4, <1>5

\* A first reader that met no update inserts exactly what there is.
LEMMA InsertExact ==
  ASSUME TypeOK, NEW e \in Events, e \notin disturbed', IsExact(e), NEW r \in Requests, InsertCounted(r)
  PROVE  IsExact(e)'
<1>1. PICK f \in Events : f = req[r].event
  BY InsertIs
<1> DEFINE q == Answered(r, f)
<1>2. /\ rows' = [rows EXCEPT ![f] = rows'[f]]
      /\ Len(rows'[f]) = Len(rows[f]) + 1
      /\ rows'[f][Len(rows'[f])].n = Difference(req[r].counted)
      /\ req' = [req EXCEPT ![r] = q]
      /\ q \in Request /\ q.op \in {"idle", "ask"}
      /\ raw' = raw /\ day' = day /\ req[r].op = "count"
  BY <1>1, InsertIs DEF InsertCounted
<1> HIDE DEF q
<1>3. CASE f # e
  <2>1. rows'[e] = rows[e]
    BY <1>2, <1>3 DEF TypeOK
  <2> QED
    BY <1>2, <1>3, <2>1, ElsewhereExact
<1>4. CASE f = e
  <2>1. /\ Pending(e) = {} /\ rows[e] = << >>
        /\ \A c \in Counters : Difference(req[r].counted)[c] = Recorded(c, raw[e])
    BY <1>1, <1>4 DEF InsertCounted
  <2>2. rows'[e] = Append(rows[e], [day |-> day, n |-> Difference(req[r].counted)])
    BY <1>1, <1>4 DEF InsertCounted, TypeOK
  <2>3. Len(rows'[e]) = 1 /\ rows'[e][1] = [day |-> day, n |-> Difference(req[r].counted)]
    BY <2>1, <2>2
  <2>4. LatestRow(e)' = [day |-> day, n |-> Difference(req[r].counted)] /\ rows'[e] # << >>
    BY <2>3 DEF LatestRow
  <2>5. Latest(e)' = Difference(req[r].counted) /\ LatestRow(e)'.day = day
    BY <2>4 DEF Latest
  <2>6. ASSUME NEW c \in Counters PROVE Coming(req', e, c) = 0
    <3>1. Bumping(req', e, c) = {}
      <4>1. \A s \in Requests : req'[s] = IF s = r THEN q ELSE req[s]
        BY <1>2 DEF TypeOK
      <4> QED
        BY <1>2, <2>1, <4>1 DEF Bumping, Pending
    <3> QED
      BY <3>1, FS_EmptySet DEF Coming
  <2>7. UpdatesOf(e)' = {}
    <3>1. \A s \in Requests : req'[s] = IF s = r THEN q ELSE req[s]
      BY <1>2 DEF TypeOK
    <3> QED
      BY <1>2, <2>1, <3>1 DEF UpdatesOf, Pending
  <2>8. \A c \in Counters : Latest(e)'[c] + Coming(req', e, c) = Recorded(c, raw'[e])
    <3> SUFFICES ASSUME NEW c \in Counters
                 PROVE  Latest(e)'[c] + Coming(req', e, c) = Recorded(c, raw'[e])
      OBVIOUS
    <3>1. Latest(e)'[c] = Recorded(c, raw[e])
      BY <2>1, <2>5
    <3>2. Recorded(c, raw[e]) \in Nat /\ Recorded(c, raw'[e]) = Recorded(c, raw[e])
      BY <1>2, RawIsNat
    <3> QED
      BY <2>6, <3>1, <3>2
  <2>9. LatestRow(e)'.day = day'
    BY <1>2, <2>5
  <2> QED
    BY <2>7, <2>8, <2>9 DEF IsExact
<1> QED
  BY <1>3, <1>4

\* A restart that finds no update of the event pending.
LEMMA RestartExact ==
  ASSUME TypeOK, NEW e \in Events, e \notin disturbed', IsExact(e), Restart
  PROVE  IsExact(e)'
<1>1. /\ req' = [r \in Requests |-> Idle] /\ raw' = raw /\ rows' = rows /\ day' = day
      /\ Pending(e) = {}
  BY DEF Restart
<1>2. ASSUME NEW c \in Counters PROVE Coming(req', e, c) = Coming(req, e, c)
  <2>1. Bumping(req', e, c) = {} /\ Bumping(req, e, c) = {}
    BY <1>1, IdleIs DEF Bumping, Pending
  <2> QED
    BY <2>1 DEF Coming
<1>3. \A r \in Requests : req'[r].op # "update"
  BY <1>1, IdleIs
<1> QED
  BY <1>1, <1>2, <1>3, ExactKept

\* Every step keeps the undisturbed events exact.
LEMMA NextExact == TypeOK /\ ExactInv /\ [Next]_vars => ExactInv'
<1> SUFFICES ASSUME TypeOK, ExactInv, [Next]_vars, NEW e \in Events, e \notin disturbed'
             PROVE  IsExact(e)'
  BY DEF ExactInv
<1>1. ASSUME NEW r \in Requests, NEW f \in Events, NEW k \in Kinds, LogRecord(r, f, k)
      PROVE  IsExact(e)'
  <2>1. e \notin disturbed
    BY <1>1 DEF LogRecord
  <2> QED
    BY <1>1, <2>1, LogRecordExact DEF ExactInv
<1>2. ASSUME NEW r \in Requests, ReadRow(r)
      PROVE  IsExact(e)'
  <2>1. e \notin disturbed
    BY <1>2 DEF ReadRow
  <2> QED
    BY <1>2, <2>1, ReadRowExact DEF ExactInv
<1>3. ASSUME NEW r \in Requests, WriteRow(r)
      PROVE  IsExact(e)'
  <2>1. e \notin disturbed
    BY <1>3 DEF WriteRow
  <2> QED
    BY <1>3, <2>1, WriteRowExact DEF ExactInv
<1>4. ASSUME NEW r \in Requests, UpdateFails(r)
      PROVE  IsExact(e)'
  <2>1. e \notin disturbed /\ req[r].event # e
    BY <1>4 DEF UpdateFails
  <2>2. req' = [req EXCEPT ![r] = Idle] /\ raw' = raw /\ rows' = rows /\ day' = day
    BY <1>4 DEF UpdateFails
  <2> QED
    BY <2>1, <2>2, IdleIs, ElsewhereExact DEF ExactInv
<1>5. ASSUME NEW r \in Requests, AskMove(r)
      PROVE  IsExact(e)'
  <2>1. /\ e \notin disturbed /\ raw' = raw /\ rows' = rows
    BY <1>5, AskMoveFrame
  <2>2. day' = day
    BY <1>5 DEF AskMove, AskForAll, AskForEvent, AnswerNothing, AnswerFromRow, FindNoRow,
                CountRecords, AskFails
  <2>3. \E q \in Request : /\ req' = [req EXCEPT ![r] = q]
                           /\ q.op \in {"idle", "ask", "count"}
    <3>1. CASE CountRecords(r)
      BY <3>1, CountsTo DEF Request
    <3>2. CASE ~CountRecords(r)
      BY <1>5, <3>2, AskMoves
    <3> QED
      BY <3>1, <3>2
  <2>4. req[r].op \in {"idle", "ask", "count"}
    <3>1. CASE CountRecords(r)
      BY <3>1 DEF CountRecords
    <3>2. CASE ~CountRecords(r)
      BY <1>5, <3>2, AskMoves
    <3> QED
      BY <3>1, <3>2
  <2> QED
    BY <2>1, <2>2, <2>3, <2>4, ElsewhereExact DEF ExactInv
<1>6. ASSUME NEW r \in Requests, InsertCounted(r)
      PROVE  IsExact(e)'
  <2>1. e \notin disturbed
    BY <1>6 DEF InsertCounted
  <2> QED
    BY <1>6, <2>1, InsertExact DEF ExactInv
<1>7. CASE Restart
  <2>1. e \notin disturbed
    BY <1>7 DEF Restart
  <2> QED
    BY <1>7, <2>1, RestartExact DEF ExactInv
<1>8. CASE NextDay
  BY <1>8 DEF NextDay
<1>9. CASE UNCHANGED vars
  BY <1>9, ExactKept DEF vars, ExactInv
<1> QED
  BY <1>1, <1>2, <1>3, <1>4, <1>5, <1>6, <1>7, <1>8, <1>9, Steps

LEMMA InitExact == Init => ExactInv
<1> SUFFICES ASSUME Init, NEW e \in Events PROVE IsExact(e)
  BY DEF ExactInv
<1>1. ASSUME NEW c \in Counters
      PROVE  Coming(req, e, c) = 0 /\ Recorded(c, raw[e]) = 0
  <2>1. Bumping(req, e, c) = {}
    BY IdleIs DEF Init, Bumping
  <2>2. raw[e] = [k \in Kinds |-> 0]
    BY DEF Init
  <2>3. Recorded(c, raw[e]) = 0
    BY <2>2, CountersAre DEF Recorded
  <2> QED
    BY <2>1, <2>3, FS_EmptySet DEF Coming
<1>2. rows[e] = << >> /\ Latest(e) = Zero /\ UpdatesOf(e) = {}
  BY IdleIs DEF Init, Latest, UpdatesOf
<1> QED
  BY <1>1, <1>2, ZeroIs DEF IsExact

\* The sum over at most two kinds of records.
LEMMA PairSum ==
  ASSUME TypeOK, NEW e \in Events, NEW a, NEW b
  PROVE  LET of(k) == IF k \in Kinds THEN raw[e][k] ELSE 0 IN
         ListedRecords(e, {a, b}) = IF a = b THEN of(a) ELSE of(a) + of(b)
<1> DEFINE of(k) == IF k \in Kinds THEN raw[e][k] ELSE 0
           T == {a, b} \cap Kinds
           first(s) == CHOOSE x \in s : TRUE
           Eq(g) == g = [s \in SUBSET T |->
                          IF s = {} THEN 0 ELSE raw[e][first(s)] + g[s \ {first(s)}]]
           part(s, k) == IF k \in s THEN raw[e][k] ELSE 0
           h == [s \in SUBSET T |-> IF a = b THEN part(s, a) ELSE part(s, a) + part(s, b)]
<1>1. ListedRecords(e, {a, b}) = (CHOOSE g : Eq(g))[T]
  BY DEF ListedRecords, MapThenSumSet, MapThenFoldSet
<1>2. \A k \in Kinds : raw[e][k] \in Nat
  BY DEF TypeOK
<1>3. \A s \in SUBSET T : s # {} => first(s) \in s
  OBVIOUS
<1>4. ASSUME NEW s \in SUBSET T
      PROVE  h[s] = IF s = {} THEN 0 ELSE raw[e][first(s)] + h[s \ {first(s)}]
  <2>1. CASE s = {}
    BY <2>1
  <2>2. CASE s # {}
    <3>1. PICK x \in s : x = first(s)
      BY <1>3, <2>2
    <3>2. x \in Kinds /\ (x = a \/ x = b)
      BY <3>1
    <3> HIDE DEF first
    <3>3. CASE x = a
      BY <1>2, <2>2, <3>1, <3>2, <3>3
    <3>4. CASE x = b
      BY <1>2, <2>2, <3>1, <3>2, <3>4
    <3> QED
      BY <3>2, <3>3, <3>4
  <2> QED
    BY <2>1, <2>2
<1>5. Eq(h)
  <2>1. h = [s \in SUBSET T |-> h[s]]
    OBVIOUS
  <2> HIDE DEF h, first
  <2> QED
    BY <1>4, <2>1
<1>6. ASSUME NEW g, Eq(g)
      PROVE  g[T] = IF a = b THEN of(a) ELSE of(a) + of(b)
  <2>1. \A s \in SUBSET T : g[s] = IF s = {} THEN 0 ELSE raw[e][first(s)] + g[s \ {first(s)}]
    BY <1>6
  <2> HIDE DEF Eq
  <2>2. g[{}] = 0
    BY <2>1
  <2>3. ASSUME NEW x \in T PROVE g[{x}] = raw[e][x]
    <3>1. first({x}) = x /\ {x} \ {x} = {}
      BY <1>3
    <3>2. g[{x}] = raw[e][x] + g[{}]
      BY <2>1, <3>1
    <3> QED
      BY <1>2, <2>2, <3>2
  <2>4. CASE T = {}
    BY <2>2, <2>4
  <2>5. CASE T # {}
    <3>1. PICK x \in T : x = first(T)
      BY <1>3, <2>5
    <3>2. g[T] = raw[e][x] + g[T \ {x}]
      BY <2>1, <2>5, <3>1
    <3>3. CASE T = {x}
      <4>1. g[T] = raw[e][x] /\ raw[e][x] \in Nat
        BY <1>2, <2>3, <3>3
      <4>2. (a = b /\ x = a) \/ (a # b /\ x = a /\ b \notin Kinds) \/ (a # b /\ x = b /\ a \notin Kinds)
        BY <3>3
      <4>3. x \in Kinds
        OBVIOUS
      <4> HIDE DEF T
      <4> QED
        BY <4>1, <4>2, <4>3
    <3>4. CASE T # {x}
      <4>1. PICK y \in T : T \ {x} = {y} /\ y # x
        BY <3>1, <3>4
      <4>2. g[T] = raw[e][x] + raw[e][y]
        BY <2>3, <3>2, <4>1
      <4>3. a \in Kinds /\ b \in Kinds /\ a # b
        BY <4>1
      <4>4. (x = a /\ y = b) \/ (x = b /\ y = a)
        BY <4>1
      <4>5. raw[e][a] \in Nat /\ raw[e][b] \in Nat
        BY <1>2, <4>3
      <4> HIDE DEF T
      <4>6. g[T] = raw[e][a] + raw[e][b]
        BY <4>2, <4>4, <4>5
      <4> QED
        BY <4>3, <4>6
    <3> QED
      BY <3>3, <3>4
  <2> QED
    BY <2>4, <2>5
<1>7. Eq(CHOOSE g : Eq(g))
  <2> HIDE DEF Eq
  <2> QED
    BY <1>5
<1> HIDE DEF Eq
<1> QED
  BY <1>1, <1>6, <1>7

\* The listings of an event's records answer what was recorded.
LEMMA ListingsAgree ==
  ASSUME TypeOK, NEW e \in Events
  PROVE  /\ ListedScans(e) = Recorded("scan", raw[e])
         /\ ListedTransfers(e) = Recorded("transfer", raw[e])
         /\ ListedAttempts(e) = Recorded("attempt", raw[e])
<1>1. ListedScans(e) = Recorded("scan", raw[e])
  BY PairSum DEF ListedScans, Recorded
<1>2. ListedTransfers(e) = Recorded("transfer", raw[e])
  BY PairSum DEF ListedTransfers, Recorded
<1>3. {"attempt"} = {"attempt", "attempt"}
  OBVIOUS
<1>4. ListedAttempts(e) = Recorded("attempt", raw[e])
  BY <1>3, PairSum DEF ListedAttempts, Recorded
<1> QED
  BY <1>1, <1>2, <1>4

\* While updates of an event do not overlap, fail or meet a first reader and the day stays, its
\* latest row is exact but for the updates still to come, and agrees with the listings.
THEOREM AnalyticsExact == Spec => []UndisturbedRowsAreExact
<1>1. TypeOK /\ ExactInv => UndisturbedRowsAreExact
  <2> SUFFICES ASSUME TypeOK, ExactInv, NEW e \in Events \ disturbed, rows[e] # << >>
               PROVE  /\ \A c \in Counters : Settled(e, c) = Recorded(c, raw[e])
                      /\ Settled(e, "scan") = ListedScans(e)
                      /\ Settled(e, "transfer") = ListedTransfers(e)
                      /\ Settled(e, "attempt") = ListedAttempts(e)
    BY DEF UndisturbedRowsAreExact
  <2>1. ASSUME NEW c \in Counters
        PROVE  Settled(e, c) = Recorded(c, raw[e])
    <3>1. {r \in Pending(e) : c \in Bumped(req[r].kind)} = Bumping(req, e, c)
      BY DEF Pending, Bumping
    <3>2. Settled(e, c) = Latest(e)[c] + Coming(req, e, c)
      BY <3>1 DEF Settled, Latest, Coming
    <3> QED
      BY <3>2 DEF ExactInv, IsExact
  <2>2. "scan" \in Counters /\ "transfer" \in Counters /\ "attempt" \in Counters
    BY CountersAre
  <2> QED
    BY <2>1, <2>2, ListingsAgree
<1>2. Init => TypeOK
  BY AnalyticsAssumption, IdleIs DEF Init, TypeOK
<1> QED
  BY <1>1, <1>2, NextTypes, InitExact, NextExact, PTL DEF Spec
=============================================================================
