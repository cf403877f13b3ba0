----------------------------- MODULE CrewProofs -----------------------------
(***************************************************************************)
(* Proofs about CrewTasks.  A request relies on little that it has read:   *)
(* that images stay, that the incidents of an image never get fewer, and   *)
(* that no task document disappears.  Every operation keeps that.          *)
(***************************************************************************)
EXTENDS CrewTasks, FiniteSetTheorems, WellFoundedInduction, TLAPS

Sum(n) == n.pending + n.assigned

\* im, nc, tk: image, incidents and task, as a request relies on them.
Fits(q, im, nc, tk) ==
  /\ q.op = "new" => q.total = 0
  /\ q.op = "insert" => im[q.id] # NoImage /\ q.total <= Sum(nc[q.id])
  /\ q.op = "total" => im[q.id] # NoImage /\ q.total + 1 <= Sum(nc[q.id])
  /\ q.op = "image" => q.todo # << >>
  /\ q.op = "incidents" => q.todo # << >> /\ im[Head(q.todo)] # NoImage
  /\ q.op \in {"create", "flight", "mark"} => q.task \in Tasks
  /\ q.op = "save" => tk[q.task][q.crew] # NoCrewTask

RequestsFit == \A r \in Requests : Fits(req[r], image, incidents, task)

\* A request that has marked image i and may still fail.
Holds(q, i) == q.op \in {"image", "incidents", "create"} /\ i \in q.done

Taken(i) == image[i] # NoImage /\ image[i].status = "assigned"

InTask(i, tk) == \E t \in Tasks, c \in Crew : i \in tk[t][c].images

TakenAreHeld ==
  \A i \in ImageIds : Taken(i) =>
    InTask(i, task) \/ i \in dropped \/ \E r \in Requests : Holds(req[r], i)

\* A request that will delete a location of c at t, and how many that are.
Forgets(q, c, t) == q.op = "forget" /\ q.crew = c /\ q.task = t

Deletions(q, c, t) == IF Forgets(q, c, t) THEN 1 ELSE 0

\* The locations of c at t when n deletions are to come.  One is no stray while
\* the task goes on: the deletion at its end is for that one.
Bounded(c, t, n) ==
  /\ location[<<c, t>>] <= stray[<<c, t>>] + 1
  /\ Over(c, t) => location[<<c, t>>] <= stray[<<c, t>>] + n

LocatedAreKnown ==
  \A c \in Crew, t \in Tasks : Bounded(c, t, Cardinality(Forgetting(c, t)))

CrewInv ==
  /\ TypeOK
  /\ RequestsFit
  /\ TotalsNeverExceedIncidents
  /\ TakenAreHeld
  /\ LocatedAreKnown

-----------------------------------------------------------------------------
(* Data.                                                                   *)

\* A set of numbers up to n has a largest one.
LEMMA SomeLargest ==
  ASSUME NEW n \in Nat, NEW S \in SUBSET (1 .. n), S # {}
  PROVE  \E i \in S : \A j \in S : j <= i
<1> DEFINE R == OpToRel(<, Nat)
           T == {n - i : i \in S}
<1>1. IsWellFoundedOn(R, Nat)
  BY NatLessThanWellFounded
<1>2. \A x, y \in Nat : <<x, y>> \in R <=> x < y
  BY DEF OpToRel
<1> HIDE DEF R
<1>3. T \subseteq Nat /\ T # {}
  <2>1. \A i \in S : n - i \in Nat
    OBVIOUS
  <2> QED
    BY <2>1
<1>4. PICK x \in T : \A y \in T : ~ (<<y, x>> \in R)
  <2> HIDE DEF T
  <2> QED
    BY <1>1, <1>3, WFMin
<1>5. PICK i \in S : x = n - i
  BY <1>4
<1>6. ASSUME NEW j \in S PROVE j <= i
  <2>1. n - j \in T /\ n - j \in Nat /\ x \in Nat
    BY <1>3, <1>4, <1>6
  <2>2. ~(n - j < x)
    BY <1>2, <1>4, <2>1
  <2>3. i \in Int /\ j \in Int
    BY <1>5, <1>6
  <2> QED
    BY <1>5, <2>2, <2>3
<1> QED
  BY <1>6

\* The number of a new image, when it is in range.
LEMMA NextInRange ==
  ASSUME NextImageId <= MaxImages
  PROVE  NextImageId \in ImageIds
<1>1. CASE Existing = {}
  BY <1>1, CrewAssumption DEF NextImageId, ImageIds
<1>2. CASE Existing # {}
  <2>1. Existing \in SUBSET (1 .. MaxImages)
    BY DEF Existing, ImageIds
  <2>2. \E i \in Existing : \A j \in Existing : j <= i
    BY <1>2, <2>1, SomeLargest, CrewAssumption
  <2> DEFINE highest == CHOOSE i \in Existing : \A j \in Existing : j <= i
  <2>3. highest \in Existing
    BY <2>2
  <2>4. NextImageId = 1 + highest
    BY <1>2 DEF NextImageId
  <2> HIDE DEF highest
  <2>5. highest \in 1 .. MaxImages
    BY <2>1, <2>3
  <2> QED
    BY <2>4, <2>5, CrewAssumption DEF ImageIds
<1> QED
  BY <1>1, <1>2

\* The kinds of requests are told apart by what they do.
LEMMA RequestKinds ==
  ASSUME NEW q \in Request
  PROVE  /\ q.op \in {"image", "incidents", "create", "flight", "mark"} => q \in Assigning
         /\ q.op \in {"save", "forget"} => q \in Acting
         /\ q.op \in {"locate", "insertLocation"} => q \in Locating
         /\ q.op \in {"number", "new", "insert", "total"} => q \in Reporting
         /\ q.op = "number" => q.id = 0 /\ q.total = 0
         /\ q.op \in {"new", "insert", "total"} => q.id \in ImageIds /\ q.total \in Nat
         /\ q.op = "idle" => q = Idle
BY DEF Request, Assigning, Acting, Locating, Reporting, Idle

LEMMA Typed ==
  ASSUME CrewInv, NEW r \in Requests
  PROVE  /\ req[r] \in Request /\ req \in [Requests -> Request]
         /\ Fits(req[r], image, incidents, task)
BY DEF CrewInv, TypeOK, RequestsFit

LEMMA IdleFits ==
  /\ Idle \in Request /\ Idle.op = "idle"
  /\ \A im, nc, tk : Fits(Idle, im, nc, tk)
  /\ \A i : ~Holds(Idle, i)
  /\ \A c, t : ~Forgets(Idle, c, t)
<1>1. Idle \in Request /\ Idle.op = "idle"
  BY DEF Request, Idle
<1> QED
  BY <1>1 DEF Fits, Holds, Forgets

LEMMA LocationsAreNat ==
  ASSUME TypeOK, NEW c \in Crew, NEW t \in Tasks
  PROVE  location[<<c, t>>] \in Nat /\ stray[<<c, t>>] \in Nat
<1>1. <<c, t>> \in Crew \X Tasks
  OBVIOUS
<1> QED
  BY <1>1 DEF TypeOK

\* The requests that will delete a location: r, when it will, and n others.
LEMMA CountForgetting ==
  ASSUME NEW r \in Requests, NEW q \in Request, NEW c \in Crew, NEW t \in Tasks,
         req' = [req EXCEPT ![r] = q],
         req \in [Requests -> Request]
  PROVE  \E n \in Nat : /\ Cardinality(Forgetting(c, t)) = n + Deletions(req[r], c, t)
                        /\ Cardinality(Forgetting(c, t)') = n + Deletions(q, c, t)
<1> DEFINE others == {s \in Requests \ {r} : Forgets(req[s], c, t)}
           n == Cardinality(others)
<1>1. IsFiniteSet(others) /\ n \in Nat
  <2>1. others \subseteq Requests
    OBVIOUS
  <2> QED
    BY <2>1, CrewAssumption, FS_Subset, FS_CardinalityType
<1>2. r \notin others
  OBVIOUS
<1>3. Forgetting(c, t) = IF Forgets(req[r], c, t) THEN others \cup {r} ELSE others
  BY DEF Forgetting, Forgets
<1>4. Forgetting(c, t)' = IF Forgets(q, c, t) THEN others \cup {r} ELSE others
  <2>1. \A s \in Requests : req'[s] = IF s = r THEN q ELSE req[s]
    OBVIOUS
  <2> QED
    BY <2>1 DEF Forgetting, Forgets
<1> HIDE DEF others
<1>5. Cardinality(others \cup {r}) = n + 1
  BY <1>1, <1>2, FS_AddElement
<1> QED
  BY <1>1, <1>3, <1>4, <1>5 DEF Deletions

-----------------------------------------------------------------------------
(* What a step of one request may do to the invariant.                     *)

LEMMA OneLocates ==
  ASSUME CrewInv, TypeOK', NEW r \in Requests, NEW q \in Request,
         req' = [req EXCEPT ![r] = q],
         Fits(q, image', incidents', task'),
         \A i \in ImageIds : image[i] # NoImage => image'[i] # NoImage,
         \A i \in ImageIds : Sum(incidents[i]) <= Sum(incidents'[i]),
         \A t \in Tasks, c \in Crew :
           /\ task[t][c] # NoCrewTask => task'[t][c] # NoCrewTask
           /\ task[t][c].images \subseteq task'[t][c].images,
         \A i \in ImageIds : image'[i] # NoImage => image'[i].total <= Sum(incidents'[i]),
         dropped \subseteq dropped',
         \A i \in ImageIds : Taken(i)' => Taken(i) \/ Holds(q, i),
         \A i \in ImageIds : Holds(req[r], i) => Holds(q, i) \/ i \in dropped' \/ InTask(i, task'),
         \A c \in Crew, t \in Tasks : \A n \in Nat :
           Bounded(c, t, n + Deletions(req[r], c, t)) => Bounded(c, t, n + Deletions(q, c, t))'
  PROVE  CrewInv'
<1>1. \A s \in Requests : req'[s] = IF s = r THEN q ELSE req[s]
  BY Typed
<1>2. ASSUME NEW s \in Requests PROVE Fits(req'[s], image', incidents', task')
  <2>1. CASE s = r
    BY <1>1, <2>1
  <2>2. CASE s # r
    <3> DEFINE p == req[s]
    <3>1. p \in Request /\ Fits(p, image, incidents, task) /\ req'[s] = p
      BY <1>1, <2>2, Typed
    <3>2. p.op \in {"insert", "total"} =>
            /\ p.id \in ImageIds /\ p.total \in Nat
            /\ Sum(incidents[p.id]) \in Nat /\ Sum(incidents'[p.id]) \in Nat
      BY <3>1, RequestKinds DEF CrewInv, TypeOK, Incidents, Sum
    <3>3. p.op = "incidents" /\ p.todo # << >> => Head(p.todo) \in ImageIds
      <4>1. p.op = "incidents" => p.todo \in Seq(ImageIds)
        BY <3>1, RequestKinds DEF Assigning
      <4> QED
        BY <4>1
    <3>4. p.op = "save" => p.task \in Tasks /\ p.crew \in Crew
      BY <3>1, RequestKinds DEF Acting
    <3> HIDE DEF p
    <3>5. p.op = "insert" => image'[p.id] # NoImage /\ p.total <= Sum(incidents'[p.id])
      BY <3>1, <3>2 DEF Fits
    <3>6. p.op = "total" => image'[p.id] # NoImage /\ p.total + 1 <= Sum(incidents'[p.id])
      BY <3>1, <3>2 DEF Fits
    <3> QED
      BY <3>1, <3>3, <3>4, <3>5, <3>6 DEF Fits
  <2> QED
    BY <2>1, <2>2
<1>3. RequestsFit'
  BY <1>2 DEF RequestsFit
<1>4. TotalsNeverExceedIncidents'
  BY DEF TotalsNeverExceedIncidents, Existing, Sum
<1>5. TakenAreHeld'
  <2> SUFFICES ASSUME NEW i \in ImageIds, Taken(i)'
               PROVE  \/ InTask(i, task') \/ i \in dropped'
                      \/ \E s \in Requests : Holds(req'[s], i)
    BY DEF TakenAreHeld
  <2>1. CASE Holds(q, i)
    BY <1>1, <2>1
  <2>2. CASE Taken(i)
    <3>1. CASE InTask(i, task)
      BY <3>1 DEF InTask
    <3>2. CASE \E s \in Requests : Holds(req[s], i)
      BY <1>1, <3>2
    <3> QED
      BY <2>2, <3>1, <3>2 DEF CrewInv, TakenAreHeld
  <2> QED
    BY <2>1, <2>2
<1>6. LocatedAreKnown'
  <2> SUFFICES ASSUME NEW c \in Crew, NEW t \in Tasks
               PROVE  Bounded(c, t, Cardinality(Forgetting(c, t)))'
    BY DEF LocatedAreKnown
  <2>1. PICK n \in Nat : /\ Cardinality(Forgetting(c, t)) = n + Deletions(req[r], c, t)
                         /\ Cardinality(Forgetting(c, t)') = n + Deletions(q, c, t)
    BY Typed, CountForgetting
  <2>2. Bounded(c, t, n + Deletions(req[r], c, t))
    BY <2>1 DEF CrewInv, LocatedAreKnown
  <2>3. Bounded(c, t, n + Deletions(q, c, t))'
    BY <2>2
  <2> QED
    BY <2>1, <2>3 DEF Bounded
<1> QED
  BY <1>3, <1>4, <1>5, <1>6 DEF CrewInv

\* No location is touched, no task ends and no deletion is done.
LEMMA OneSteps ==
  ASSUME CrewInv, TypeOK', NEW r \in Requests, NEW q \in Request,
         req' = [req EXCEPT ![r] = q],
         Fits(q, image', incidents', task'),
         \A i \in ImageIds : image[i] # NoImage => image'[i] # NoImage,
         \A i \in ImageIds : Sum(incidents[i]) <= Sum(incidents'[i]),
         \A t \in Tasks, c \in Crew :
           /\ task[t][c] # NoCrewTask => task'[t][c] # NoCrewTask
           /\ task[t][c].images \subseteq task'[t][c].images,
         \A i \in ImageIds : image'[i] # NoImage => image'[i].total <= Sum(incidents'[i]),
         dropped \subseteq dropped',
         \A i \in ImageIds : Taken(i)' => Taken(i) \/ Holds(q, i),
         \A i \in ImageIds : Holds(req[r], i) => Holds(q, i) \/ i \in dropped' \/ InTask(i, task'),
         UNCHANGED <<location, stray>>,
         \A c \in Crew, t \in Tasks : (Over(c, t)' => Over(c, t)) /\ ~Forgets(req[r], c, t)
  PROVE  CrewInv'
<1>1. ASSUME NEW c \in Crew, NEW t \in Tasks, NEW n \in Nat,
             Bounded(c, t, n + Deletions(req[r], c, t))
      PROVE  Bounded(c, t, n + Deletions(q, c, t))'
  <2>1. location[<<c, t>>] \in Nat /\ stray[<<c, t>>] \in Nat
    BY LocationsAreNat DEF CrewInv
  <2>2. Deletions(req[r], c, t) = 0 /\ Deletions(q, c, t) \in {0, 1}
    BY DEF Deletions
  <2> QED
    BY <1>1, <2>1, <2>2 DEF Bounded
<1> QED
  BY <1>1, OneLocates

\* A request moves and writes nothing.
LEMMA OneMoves ==
  ASSUME CrewInv, NEW r \in Requests, NEW q \in Request,
         req' = [req EXCEPT ![r] = q],
         UNCHANGED <<flight, image, incidents, task, location, dropped, stray>>,
         shared' \in [Crew -> Tasks \cup {NoTask}], calls' \in Nat,
         Fits(q, image, incidents, task),
         \A i \in ImageIds : Holds(req[r], i) => Holds(q, i),
         req[r].op # "forget"
  PROVE  CrewInv'
<1>1. TypeOK'
  BY DEF CrewInv, TypeOK
<1>2. \A i \in ImageIds : image[i] # NoImage => image[i].total <= Sum(incidents[i])
  BY DEF CrewInv, TotalsNeverExceedIncidents, Existing, Sum
<1>3. \A i \in ImageIds : Sum(incidents[i]) <= Sum(incidents[i])
  BY DEF CrewInv, TypeOK, Incidents, Sum
<1>4. \A i \in ImageIds : Taken(i)' => Taken(i)
  BY DEF Taken
<1>5. \A c \in Crew, t \in Tasks : /\ Over(c, t)' => Over(c, t)
                                   /\ ~Forgets(req[r], c, t)
  BY DEF Over, Forgets
<1> QED
  BY <1>1, <1>2, <1>3, <1>4, <1>5, OneSteps

\* No request moves, and locations may go.
LEMMA OthersMove ==
  ASSUME CrewInv, TypeOK', UNCHANGED <<image, incidents, task, req, dropped, stray>>,
         \A c \in Crew, t \in Tasks : location'[<<c, t>>] <= location[<<c, t>>]
  PROVE  CrewInv'
<1>1. RequestsFit' /\ TotalsNeverExceedIncidents'
  BY DEF CrewInv, RequestsFit, TotalsNeverExceedIncidents, Existing
<1>2. TakenAreHeld'
  BY DEF CrewInv, TakenAreHeld, Taken
<1>3. ASSUME NEW c \in Crew, NEW t \in Tasks
      PROVE  Bounded(c, t, Cardinality(Forgetting(c, t)))'
  <2> DEFINE n == Cardinality(Forgetting(c, t))
  <2>1. Cardinality(Forgetting(c, t))' = n /\ Bounded(c, t, n)
    BY DEF CrewInv, LocatedAreKnown, Forgetting
  <2>2. n \in Nat
    <3>1. Forgetting(c, t) \subseteq Requests
      BY DEF Forgetting
    <3> QED
      BY <3>1, CrewAssumption, FS_Subset, FS_CardinalityType
  <2>3. /\ location[<<c, t>>] \in Nat /\ stray[<<c, t>>] \in Nat
        /\ location'[<<c, t>>] \in Nat
    BY LocationsAreNat DEF CrewInv, TypeOK
  <2> HIDE DEF n
  <2> QED
    BY <2>1, <2>2, <2>3 DEF Bounded, Over
<1> QED
  BY <1>1, <1>2, <1>3 DEF CrewInv, LocatedAreKnown

LEMMA CallBegins ==
  ASSUME CrewInv, NEW r \in Requests, NEW q \in Request, Starts(r, q),
         UNCHANGED <<flight, image, incidents, task, location, dropped, stray>>,
         shared' \in [Crew -> Tasks \cup {NoTask}],
         Fits(q, image, incidents, task)
  PROVE  CrewInv'
<1>1. req' = [req EXCEPT ![r] = q] /\ req[r] = Idle /\ calls' \in Nat
  BY DEF Starts, CrewInv, TypeOK
<1>2. req[r].op # "forget" /\ \A i : ~Holds(req[r], i)
  BY <1>1, IdleFits
<1> QED
  BY <1>1, <1>2, OneMoves

-----------------------------------------------------------------------------
(* The reports of incidents.                                               *)

LEMMA ReportIncidentKeeps ==
  ASSUME CrewInv, NEW r \in Requests, NEW f \in Files, ReportIncident(r, f)
  PROVE  CrewInv'
<1>1. /\ UNCHANGED <<flight, image, incidents, task, location, dropped, stray>>
      /\ shared' \in [Crew -> Tasks \cup {NoTask}]
  BY DEF ReportIncident, CrewInv, TypeOK
<1>2. ASSUME NEW i \in Existing,
             Starts(r, [op |-> "insert", file |-> f, id |-> i, total |-> image[i].total])
      PROVE  CrewInv'
  <2> DEFINE q == [op |-> "insert", file |-> f, id |-> i, total |-> image[i].total]
  <2>1. i \in ImageIds /\ image[i] # NoImage
    BY DEF Existing
  <2>2. image[i].total \in Nat
    BY <2>1 DEF CrewInv, TypeOK, TaskImage
  <2>3. q \in Request /\ q.op = "insert" /\ q.id = i /\ q.total = image[i].total
    BY <2>1, <2>2 DEF Request, Reporting
  <2>4. image[i].total <= Sum(incidents[i])
    BY <1>2 DEF CrewInv, TotalsNeverExceedIncidents, Sum
  <2>5. Starts(r, q)
    BY <1>2
  <2> HIDE DEF q
  <2>6. Fits(q, image, incidents, task)
    BY <2>1, <2>3, <2>4 DEF Fits
  <2> QED
    BY <1>1, <2>3, <2>5, <2>6, CallBegins
<1>3. ASSUME Starts(r, [op |-> "number", file |-> f, id |-> 0, total |-> 0])
      PROVE  CrewInv'
  <2> DEFINE q == [op |-> "number", file |-> f, id |-> 0, total |-> 0]
  <2>1. q \in Request /\ q.op = "number"
    BY DEF Request, Reporting
  <2>2. Starts(r, q)
    BY <1>3
  <2> HIDE DEF q
  <2>3. Fits(q, image, incidents, task)
    BY <2>1 DEF Fits
  <2> QED
    BY <1>1, <2>1, <2>2, <2>3, CallBegins
<1> QED
  BY <1>2, <1>3 DEF ReportIncident

Numbered(p, n) == [p EXCEPT !.op = "new", !.id = n]

LEMMA NumberedTyped ==
  ASSUME NEW p \in [op : {"number"}, file : Files, id : {0}, total : {0}], NEW n \in ImageIds
  PROVE  /\ Numbered(p, n) \in Request
         /\ Numbered(p, n).op = "new" /\ Numbered(p, n).total = 0
<1>1. /\ Numbered(p, n).op = "new" /\ Numbered(p, n).total = 0
      /\ Numbered(p, n).id = n /\ Numbered(p, n).file = p.file /\ p.file \in Files
  BY DEF Numbered
<1>2. p = [op |-> "number", file |-> p.file, id |-> 0, total |-> 0]
  OBVIOUS
<1>3. Numbered(p, n) \in [op : {"new"}, file : Files, id : {n}, total : {0}]
  BY <1>2 DEF Numbered
<1> QED
  BY <1>1, <1>3 DEF Request, Reporting

LEMMA NumberImageKeeps ==
  ASSUME CrewInv, NEW r \in Requests, NumberImage(r)
  PROVE  CrewInv'
<1> DEFINE p == req[r]
           q == Numbered(p, NextImageId)
<1>1. /\ p.op = "number" /\ req' = [req EXCEPT ![r] = q] /\ calls' = calls
      /\ UNCHANGED <<flight, image, incidents, task, location, shared, dropped, stray>>
  BY DEF NumberImage, Goes, Numbered
<1>2. NextImageId \in ImageIds
  BY NextInRange DEF NumberImage
<1>3. p \in [op : {"number"}, file : Files, id : {0}, total : {0}]
  BY <1>1, Typed, RequestKinds DEF Reporting
<1>4. q \in Request /\ q.op = "new" /\ q.total = 0
  BY <1>2, <1>3, NumberedTyped
<1>5. Fits(q, image, incidents, task)
  BY <1>4 DEF Fits
<1>6. \A i \in ImageIds : ~Holds(p, i)
  BY <1>1 DEF Holds
<1>7. calls' \in Nat /\ shared' \in [Crew -> Tasks \cup {NoTask}]
  BY <1>1 DEF CrewInv, TypeOK
<1> HIDE DEF q
<1> QED
  BY <1>1, <1>4, <1>5, <1>6, <1>7, OneMoves

\* What a step of a report changes is one image or the count of its incidents.
LEMMA ReportMoves ==
  ASSUME CrewInv, NEW r \in Requests, NEW q \in Request,
         req[r].op \in {"number", "new", "insert", "total"}, ~(q.op \in {"image", "incidents", "create", "forget"}),
         req' = [req EXCEPT ![r] = q], calls' = calls,
         UNCHANGED <<flight, task, location, shared, dropped, stray>>,
         image' \in [ImageIds -> TaskImage], incidents' \in [ImageIds -> Incidents],
         Fits(q, image', incidents', task),
         \A i \in ImageIds : image[i] # NoImage => image'[i] # NoImage,
         \A i \in ImageIds : Sum(incidents[i]) <= Sum(incidents'[i]),
         \A i \in ImageIds : image'[i] # NoImage => image'[i].total <= Sum(incidents'[i]),
         \A i \in ImageIds : Taken(i)' => Taken(i)
  PROVE  CrewInv'
<1>1. TypeOK'
  BY DEF CrewInv, TypeOK
<1>2. \A i \in ImageIds : ~Holds(req[r], i)
  BY DEF Holds
<1>3. \A c \in Crew, t \in Tasks : (Over(c, t)' => Over(c, t)) /\ ~Forgets(req[r], c, t)
  BY DEF Over, Forgets
<1>4. Fits(q, image', incidents', task')
  OBVIOUS
<1> QED
  BY <1>1, <1>2, <1>3, <1>4, OneSteps

LEMMA SumsAreNat ==
  ASSUME CrewInv, NEW i \in ImageIds
  PROVE  /\ incidents[i] \in Incidents /\ Sum(incidents[i]) \in Nat
         /\ image[i] \in TaskImage
         /\ image[i] # NoImage => /\ image[i].total \in Nat
                                  /\ image[i].total <= Sum(incidents[i])
                                  /\ image[i] \in [file : Files, status : {"pending", "assigned"}, total : Nat]
BY DEF CrewInv, TypeOK, Incidents, Sum, TaskImage, TotalsNeverExceedIncidents, Existing

\* A new document is told from none.
LEMMA NewImage ==
  ASSUME NEW d \in [file : Files, status : {"pending", "assigned"}, total : Nat]
  PROVE  d # NoImage /\ d \in TaskImage
<1>1. "status" \in DOMAIN d
  OBVIOUS
<1>2. "status" \notin DOMAIN NoImage
  BY DEF NoImage
<1> QED
  BY <1>1, <1>2 DEF TaskImage

LEMMA SaveImageKeeps ==
  ASSUME CrewInv, NEW r \in Requests, SaveImage(r)
  PROVE  CrewInv'
<1> DEFINE p == req[r]
           n == p.id
           d == [file |-> p.file, status |-> "pending", total |-> 0]
           q == [p EXCEPT !.op = "insert"]
<1>1. /\ p.op = "new" /\ req' = [req EXCEPT ![r] = q] /\ calls' = calls
      /\ image' = [image EXCEPT ![n] = d] /\ image[n] = NoImage
      /\ UNCHANGED <<flight, incidents, task, location, shared, dropped, stray>>
  BY DEF SaveImage, Goes
<1>2. p \in Reporting /\ n \in ImageIds /\ p.total = 0
  BY <1>1, Typed, RequestKinds DEF Fits
<1>3. q \in Request /\ q.op = "insert" /\ q.id = n /\ q.total = 0
  BY <1>1, <1>2 DEF Reporting, Request
<1>4. /\ d \in [file : Files, status : {"pending", "assigned"}, total : Nat]
      /\ d.status = "pending" /\ d.total = 0
  BY <1>1, <1>2 DEF Reporting
<1>5. d # NoImage /\ d \in TaskImage
  BY <1>4, NewImage
<1> HIDE DEF p, n, d, q
<1>6. \A i \in ImageIds : image'[i] = IF i = n THEN d ELSE image[i]
  BY <1>1 DEF CrewInv, TypeOK
<1>7. image' \in [ImageIds -> TaskImage] /\ incidents' \in [ImageIds -> Incidents]
  BY <1>1, <1>5 DEF CrewInv, TypeOK
<1>8. Fits(q, image', incidents', task)
  BY <1>1, <1>2, <1>3, <1>5, <1>6, SumsAreNat DEF Fits
<1>9. \A i \in ImageIds : /\ image[i] # NoImage => image'[i] # NoImage
                          /\ Sum(incidents[i]) <= Sum(incidents'[i])
                          /\ image'[i] # NoImage => image'[i].total <= Sum(incidents'[i])
                          /\ Taken(i)' => Taken(i)
  BY <1>1, <1>4, <1>5, <1>6, SumsAreNat DEF Taken
<1> QED
  BY <1>1, <1>3, <1>7, <1>8, <1>9, ReportMoves DEF p

LEMMA InsertIncidentsKeeps ==
  ASSUME CrewInv, NEW r \in Requests, InsertIncidents(r)
  PROVE  CrewInv'
<1> DEFINE p == req[r]
           n == p.id
           q == [p EXCEPT !.op = "total"]
           more == [incidents[n] EXCEPT !.pending = @ + 1]
<1>1. /\ p.op = "insert" /\ req' = [req EXCEPT ![r] = q] /\ calls' = calls
      /\ incidents' = [incidents EXCEPT ![n] = more]
      /\ UNCHANGED <<flight, image, task, location, shared, dropped, stray>>
  BY DEF InsertIncidents, Goes
<1>2. p \in Reporting /\ n \in ImageIds /\ p.total \in Nat
  BY <1>1, Typed, RequestKinds
<1>3. p.total <= Sum(incidents[n]) /\ image[n] # NoImage
  BY <1>1, Typed DEF Fits
<1>4. q \in Request /\ q.op = "total" /\ q.id = n /\ q.total = p.total
  BY <1>1, <1>2 DEF Reporting, Request
<1>5. incidents[n] \in Incidents
  BY <1>2, SumsAreNat
<1>6. more \in Incidents /\ Sum(more) = Sum(incidents[n]) + 1
  BY <1>5 DEF Incidents, Sum
<1> HIDE DEF p, n, q, more
<1>7. \A i \in ImageIds : incidents'[i] = IF i = n THEN more ELSE incidents[i]
  BY <1>1 DEF CrewInv, TypeOK
<1>8. image' \in [ImageIds -> TaskImage] /\ incidents' \in [ImageIds -> Incidents]
  BY <1>1, <1>6 DEF CrewInv, TypeOK
<1>9. Sum(incidents'[n]) = Sum(incidents[n]) + 1 /\ Sum(incidents[n]) \in Nat
  BY <1>2, <1>6, <1>7, SumsAreNat
<1>10. Fits(q, image', incidents', task)
  BY <1>1, <1>2, <1>3, <1>4, <1>9 DEF Fits
<1>11. \A i \in ImageIds : Sum(incidents[i]) <= Sum(incidents'[i])
  BY <1>6, <1>7, SumsAreNat
<1>12. \A i \in ImageIds : /\ image[i] # NoImage => image'[i] # NoImage
                           /\ image'[i] # NoImage => image'[i].total <= Sum(incidents'[i])
                           /\ Taken(i)' => Taken(i)
  <2> TAKE i \in ImageIds
  <2>1. Sum(incidents[i]) \in Nat /\ Sum(incidents'[i]) \in Nat
    BY <1>6, <1>7, SumsAreNat
  <2> QED
    BY <1>1, <1>11, <2>1, SumsAreNat DEF Taken
<1> QED
  BY <1>1, <1>4, <1>8, <1>10, <1>11, <1>12, ReportMoves DEF p

LEMMA SaveTotalKeeps ==
  ASSUME CrewInv, NEW r \in Requests, SaveTotal(r)
  PROVE  CrewInv'
<1> DEFINE p == req[r]
           n == p.id
           d == [image[n] EXCEPT !.total = p.total + 1]
<1>1. /\ p.op = "total" /\ req' = [req EXCEPT ![r] = Idle] /\ calls' = calls
      /\ image' = [image EXCEPT ![n] = d]
      /\ UNCHANGED <<flight, incidents, task, location, shared, dropped, stray>>
  BY DEF SaveTotal, Goes, NewTotal
<1>2. n \in ImageIds /\ p.total \in Nat
  BY <1>1, Typed, RequestKinds
<1>3. p.total + 1 <= Sum(incidents[n]) /\ image[n] # NoImage
  BY <1>1, Typed DEF Fits
<1>4. /\ d \in [file : Files, status : {"pending", "assigned"}, total : Nat]
      /\ d.status = image[n].status /\ d.total = p.total + 1
  BY <1>2, <1>3, SumsAreNat
<1>5. d # NoImage /\ d \in TaskImage
  BY <1>4, NewImage
<1> HIDE DEF p, n, d
<1>6. \A i \in ImageIds : image'[i] = IF i = n THEN d ELSE image[i]
  BY <1>1 DEF CrewInv, TypeOK
<1>7. image' \in [ImageIds -> TaskImage] /\ incidents' \in [ImageIds -> Incidents]
  BY <1>1, <1>5 DEF CrewInv, TypeOK
<1>8. \A i \in ImageIds : /\ image[i] # NoImage => image'[i] # NoImage
                          /\ Sum(incidents[i]) <= Sum(incidents'[i])
                          /\ image'[i] # NoImage => image'[i].total <= Sum(incidents'[i])
                          /\ Taken(i)' => Taken(i)
  BY <1>1, <1>3, <1>4, <1>5, <1>6, SumsAreNat DEF Taken
<1>9. Fits(Idle, image', incidents', task)
  BY IdleFits
<1> QED
  BY <1>1, <1>7, <1>8, <1>9, IdleFits, ReportMoves DEF p

-----------------------------------------------------------------------------
(* Assignments.                                                            *)

LEMMA AssignKeeps ==
  ASSUME CrewInv, NEW r \in Requests, NEW c \in Crew, NEW ids \in Seq(ImageIds), ids # << >>,
         Assign(r, c, ids)
  PROVE  CrewInv'
<1> DEFINE q == [op |-> "image", crew |-> c, todo |-> ids, done |-> {}, task |-> NoTask]
<1>1. q \in Request /\ q.op = "image" /\ q.todo = ids
  BY DEF Request, Assigning
<1>2. /\ Starts(r, q) /\ shared' = shared
      /\ UNCHANGED <<flight, image, incidents, task, location, dropped, stray>>
  BY DEF Assign
<1> HIDE DEF q
<1>3. Fits(q, image, incidents, task)
  BY <1>1 DEF Fits
<1>4. shared' \in [Crew -> Tasks \cup {NoTask}]
  BY <1>2 DEF CrewInv, TypeOK
<1> QED
  BY <1>1, <1>2, <1>3, <1>4, CallBegins

\* What is left of the list of an assignment.
LEMMA ListGoesOn ==
  ASSUME NEW ids \in Seq(ImageIds), ids # << >>
  PROVE  Head(ids) \in ImageIds /\ Tail(ids) \in Seq(ImageIds)
OBVIOUS

LEMMA MarkImageKeeps ==
  ASSUME CrewInv, NEW r \in Requests, MarkImage(r)
  PROVE  CrewInv'
<1> DEFINE p == req[r]
           n == Head(p.todo)
           d == [image[n] EXCEPT !.status = "assigned"]
           q == [p EXCEPT !.op = "incidents", !.done = @ \cup {n}]
<1>1. /\ p.op = "image" /\ req' = [req EXCEPT ![r] = q] /\ calls' = calls
      /\ n \in Existing /\ image' = [image EXCEPT ![n] = d]
      /\ UNCHANGED <<flight, incidents, task, location, shared, dropped, stray>>
  BY DEF MarkImage, Goes
<1>2. p \in Assigning /\ p.todo # << >>
  BY <1>1, Typed, RequestKinds DEF Fits
<1>3. n \in ImageIds /\ image[n] # NoImage
  BY <1>1 DEF Existing
<1>4. /\ q \in Assigning /\ q.op = "incidents" /\ q.todo = p.todo /\ q.done = p.done \cup {n}
  BY <1>2, <1>3 DEF Assigning
<1>5. q \in Request
  BY <1>4 DEF Request
<1>6. /\ d \in [file : Files, status : {"pending", "assigned"}, total : Nat]
      /\ d.total = image[n].total
  BY <1>3, SumsAreNat
<1>7. d # NoImage /\ d \in TaskImage
  BY <1>6, NewImage
<1>8. q.todo # << >> /\ Head(q.todo) = n
  BY <1>2, <1>4
<1>9. \A i \in ImageIds : Holds(p, i) => Holds(q, i)
  BY <1>4 DEF Holds
<1>10. Holds(q, n)
  BY <1>4 DEF Holds
<1>11. p.op # "forget"
  BY <1>1
<1> HIDE DEF p, n, d, q
<1>12. \A i \in ImageIds : image'[i] = IF i = n THEN d ELSE image[i]
  BY <1>1 DEF CrewInv, TypeOK
<1>13. TypeOK'
  BY <1>1, <1>5, <1>7 DEF CrewInv, TypeOK
<1>14. Fits(q, image', incidents', task')
  BY <1>3, <1>4, <1>7, <1>8, <1>12 DEF Fits
<1>15. \A i \in ImageIds : /\ image[i] # NoImage => image'[i] # NoImage
                           /\ Sum(incidents[i]) <= Sum(incidents'[i])
                           /\ image'[i] # NoImage => image'[i].total <= Sum(incidents'[i])
                           /\ Taken(i)' => Taken(i) \/ Holds(q, i)
  BY <1>1, <1>3, <1>6, <1>7, <1>10, <1>12, SumsAreNat DEF Taken
<1>16. \A c \in Crew, t \in Tasks : /\ Over(c, t)' => Over(c, t)
                                    /\ ~Forgets(p, c, t)
  BY <1>1, <1>11 DEF Over, Forgets
<1> QED
  BY <1>1, <1>5, <1>9, <1>13, <1>14, <1>15, <1>16, OneSteps DEF p

LEMMA ReadIncidentsKeeps ==
  ASSUME CrewInv, NEW r \in Requests, ReadIncidents(r)
  PROVE  CrewInv'
<1> DEFINE p == req[r]
           n == Head(p.todo)
           rest == Tail(p.todo)
           next == IF rest = << >> THEN "create" ELSE "image"
           named == IF p.task = NoTask THEN TaskOfImage(n) ELSE p.task
           q == [p EXCEPT !.op = next, !.todo = rest, !.task = named]
<1>1. /\ p.op = "incidents" /\ req' = [req EXCEPT ![r] = q] /\ calls' = calls
      /\ UNCHANGED <<flight, image, incidents, task, location, shared, dropped, stray>>
  BY DEF ReadIncidents, Goes
<1>2. p \in Assigning /\ p.todo # << >> /\ image[n] # NoImage
  BY <1>1, Typed, RequestKinds DEF Fits
<1>3. p.todo \in Seq(ImageIds) /\ p.task \in Tasks \cup {NoTask}
  BY <1>2 DEF Assigning
<1>4. n \in ImageIds /\ rest \in Seq(ImageIds)
  BY <1>2, <1>3, ListGoesOn
<1>5. named \in Tasks
  <2>1. image[n].file \in Files
    BY <1>2, <1>4, SumsAreNat
  <2> QED
    BY <1>3, <2>1, CrewAssumption DEF TaskOfImage
<1>6. next \in {"create", "image"} /\ (next = "image" => rest # << >>)
  OBVIOUS
<1> HIDE DEF n, rest, next, named
<1>7. q \in Assigning /\ q.op = next /\ q.todo = rest /\ q.task = named /\ q.done = p.done
  BY <1>2, <1>4, <1>5, <1>6 DEF Assigning
<1>8. q \in Request
  BY <1>7 DEF Request
<1>9. \A i \in ImageIds : Holds(p, i) => Holds(q, i)
  BY <1>6, <1>7 DEF Holds
<1>10. p.op # "forget"
  BY <1>1
<1> HIDE DEF q
<1>11. Fits(q, image, incidents, task)
  BY <1>5, <1>6, <1>7 DEF Fits
<1>12. calls' \in Nat /\ shared' \in [Crew -> Tasks \cup {NoTask}]
  BY <1>1 DEF CrewInv, TypeOK
<1> QED
  BY <1>1, <1>8, <1>9, <1>10, <1>11, <1>12, OneMoves

LEMMA CreateCrewTaskKeeps ==
  ASSUME CrewInv, NEW r \in Requests, CreateCrewTask(r)
  PROVE  CrewInv'
<1> DEFINE p == req[r]
           t0 == p.task
           c0 == p.crew
           d == [status |-> "assigned", images |-> p.done]
           q == [p EXCEPT !.op = "flight"]
<1>1. /\ p.op = "create" /\ req' = [req EXCEPT ![r] = q] /\ calls' = calls
      /\ task[t0][c0] = NoCrewTask /\ task' = [task EXCEPT ![t0][c0] = d]
      /\ UNCHANGED <<flight, image, incidents, location, shared, dropped, stray>>
  BY DEF CreateCrewTask, Goes, ImageAssigned
<1>2. p \in Assigning /\ t0 \in Tasks
  BY <1>1, Typed, RequestKinds DEF Fits
<1>3. c0 \in Crew /\ p.done \in SUBSET ImageIds
  BY <1>2 DEF Assigning
<1>4. q \in Assigning /\ q.op = "flight" /\ q.task = t0
  BY <1>2 DEF Assigning
<1>5. q \in Request
  BY <1>4 DEF Request
<1>6. d \in CrewTask /\ d.status = "assigned" /\ d.images = p.done
  BY <1>3 DEF CrewTask, Statuses
<1>7. d # NoCrewTask
  BY <1>6 DEF NoCrewTask
<1>8. p.op # "forget"
  BY <1>1
<1> HIDE DEF p, t0, c0, d, q
<1>9. \A t \in Tasks, c \in Crew : task'[t][c] = IF t = t0 /\ c = c0 THEN d ELSE task[t][c]
  BY <1>1, <1>2, <1>3 DEF CrewInv, TypeOK
<1>10. task' \in [Tasks -> [Crew -> CrewTask]]
  BY <1>1, <1>2, <1>3, <1>6 DEF CrewInv, TypeOK
<1>11. TypeOK'
  BY <1>1, <1>5, <1>10 DEF CrewInv, TypeOK
<1>12. Fits(q, image', incidents', task')
  BY <1>2, <1>4 DEF Fits
<1>13. \A i \in ImageIds : /\ image[i] # NoImage => image'[i] # NoImage
                           /\ Sum(incidents[i]) <= Sum(incidents'[i])
                           /\ image'[i] # NoImage => image'[i].total <= Sum(incidents'[i])
                           /\ Taken(i)' => Taken(i)
  BY <1>1, SumsAreNat DEF Taken
<1>14. \A t \in Tasks, c \in Crew : /\ task[t][c] # NoCrewTask => task'[t][c] # NoCrewTask
                                    /\ task[t][c].images \subseteq task'[t][c].images
  BY <1>1, <1>7, <1>9 DEF NoCrewTask
<1>15. \A i \in ImageIds : Holds(p, i) => InTask(i, task')
  BY <1>2, <1>3, <1>6, <1>9 DEF Holds, InTask
<1>16. \A c \in Crew, t \in Tasks : /\ Over(c, t)' => Over(c, t)
                                    /\ ~Forgets(p, c, t)
  BY <1>6, <1>8, <1>9 DEF Over, Forgets
<1> QED
  BY <1>1, <1>5, <1>11, <1>12, <1>13, <1>14, <1>15, <1>16, OneSteps DEF p

LEMMA MarkFlightKeeps ==
  ASSUME CrewInv, NEW r \in Requests, MarkFlight(r)
  PROVE  CrewInv'
<1> DEFINE p == req[r]
           q == [p EXCEPT !.op = "mark"]
<1>1. /\ p.op = "flight" /\ req' = [req EXCEPT ![r] = q] /\ calls' = calls
      /\ flight' = [flight EXCEPT ![p.task] = "assigned"]
      /\ UNCHANGED <<image, incidents, task, location, shared, dropped, stray>>
  BY DEF MarkFlight, Goes
<1>2. p \in Assigning /\ p.task \in Tasks
  BY <1>1, Typed, RequestKinds DEF Fits
<1>3. q \in Assigning /\ q.op = "mark" /\ q.task = p.task
  BY <1>2 DEF Assigning
<1>4. q \in Request
  BY <1>3 DEF Request
<1>5. p.op # "forget" /\ \A i \in ImageIds : ~Holds(p, i)
  BY <1>1 DEF Holds
<1> HIDE DEF p, q
<1>6. TypeOK'
  BY <1>1, <1>4 DEF CrewInv, TypeOK, FlightStatus
<1>7. Fits(q, image', incidents', task')
  BY <1>2, <1>3 DEF Fits
<1>8. \A i \in ImageIds : /\ image[i] # NoImage => image'[i] # NoImage
                          /\ Sum(incidents[i]) <= Sum(incidents'[i])
                          /\ image'[i] # NoImage => image'[i].total <= Sum(incidents'[i])
                          /\ Taken(i)' => Taken(i)
  BY <1>1, SumsAreNat DEF Taken
<1>9. \A c \in Crew, t \in Tasks : /\ Over(c, t)' => Over(c, t)
                                   /\ ~Forgets(p, c, t)
  BY <1>1, <1>5 DEF Over, Forgets
<1> QED
  BY <1>1, <1>4, <1>5, <1>6, <1>7, <1>8, <1>9, OneSteps DEF p

LEMMA MarkIncidentsKeeps ==
  ASSUME CrewInv, NEW r \in Requests, MarkIncidents(r)
  PROVE  CrewInv'
<1> DEFINE p == req[r]
           all(i) == [pending |-> 0, assigned |-> incidents[i].pending + incidents[i].assigned]
<1>1. /\ p.op = "mark" /\ req' = [req EXCEPT ![r] = Idle] /\ calls' = calls
      /\ incidents' = [i \in ImageIds |-> IF i \in Existing /\ TaskOfImage(i) = p.task
                                          THEN all(i) ELSE incidents[i]]
      /\ UNCHANGED <<flight, image, task, location, shared, dropped, stray>>
  BY DEF MarkIncidents, Goes
<1>2. \A i \in ImageIds : all(i) \in Incidents /\ Sum(all(i)) = Sum(incidents[i])
  <2> TAKE i \in ImageIds
  <2>1. incidents[i].pending \in Nat /\ incidents[i].assigned \in Nat
    BY SumsAreNat DEF Incidents
  <2> QED
    BY <2>1 DEF Incidents, Sum
<1>3. p.op # "forget" /\ \A i \in ImageIds : ~Holds(p, i)
  BY <1>1 DEF Holds
<1> HIDE DEF p, all
<1>4. \A i \in ImageIds : incidents'[i] \in Incidents /\ Sum(incidents'[i]) = Sum(incidents[i])
  BY <1>1, <1>2, SumsAreNat
<1>5. incidents' \in [ImageIds -> Incidents]
  BY <1>1, <1>4
<1>6. TypeOK'
  BY <1>1, <1>5, IdleFits DEF CrewInv, TypeOK
<1>7. \A i \in ImageIds : /\ image[i] # NoImage => image'[i] # NoImage
                          /\ Sum(incidents[i]) <= Sum(incidents'[i])
                          /\ image'[i] # NoImage => image'[i].total <= Sum(incidents'[i])
                          /\ Taken(i)' => Taken(i)
  BY <1>1, <1>4, SumsAreNat DEF Taken
<1>8. \A c \in Crew, t \in Tasks : /\ Over(c, t)' => Over(c, t)
                                   /\ ~Forgets(p, c, t)
  BY <1>1, <1>3 DEF Over, Forgets
<1>9. Fits(Idle, image', incidents', task')
  BY IdleFits
<1> QED
  BY <1>1, <1>3, <1>6, <1>7, <1>8, <1>9, IdleFits, OneSteps DEF p

-----------------------------------------------------------------------------
(* The work on a task, and its locations.                                  *)

LEMMA VerbsSet ==
  ASSUME NEW v \in Verbs
  PROVE  /\ To[v] \in Statuses /\ To[v] # "none"
         /\ To[v] \in {"stopped", "review"} => ForgetsLocation(v)
         /\ From[v] # "none"
<1>1. v \in {"accept", "reject", "begin", "stop", "complete"}
  BY DEF Verbs
<1>2. CASE v = "accept"
  BY <1>2 DEF To, From, Statuses
<1>3. CASE v = "reject"
  BY <1>3 DEF To, From, Statuses
<1>4. CASE v = "begin"
  BY <1>4 DEF To, From, Statuses
<1>5. CASE v = "stop"
  BY <1>5 DEF To, From, Statuses, ForgetsLocation
<1>6. CASE v = "complete"
  BY <1>6 DEF To, From, Statuses, ForgetsLocation
<1> QED
  BY <1>1, <1>2, <1>3, <1>4, <1>5, <1>6

LEMMA ActKeeps ==
  ASSUME CrewInv, NEW r \in Requests, NEW v \in Verbs, NEW c \in Crew, NEW t \in Tasks,
         Act(r, v, c, t)
  PROVE  CrewInv'
<1> DEFINE q == [op |-> "save", verb |-> v, crew |-> c, task |-> t]
<1>1. /\ req[r] = Idle /\ req' = [req EXCEPT ![r] = q] /\ calls' = calls
      /\ task[t][c].status = From[v]
      /\ UNCHANGED <<flight, image, incidents, task, location, shared, dropped, stray>>
  BY DEF Act, Goes, MayAct
<1>2. q \in Request /\ q.op = "save" /\ q.task = t /\ q.crew = c
  BY DEF Request, Acting
<1>3. task[t][c] # NoCrewTask
  BY <1>1, VerbsSet DEF NoCrewTask
<1> HIDE DEF q
<1>4. Fits(q, image, incidents, task)
  BY <1>2, <1>3 DEF Fits
<1>5. calls' \in Nat /\ shared' \in [Crew -> Tasks \cup {NoTask}]
  BY <1>1 DEF CrewInv, TypeOK
<1>6. req[r].op # "forget" /\ \A i \in ImageIds : ~Holds(req[r], i)
  BY <1>1, IdleFits
<1> QED
  BY <1>1, <1>2, <1>4, <1>5, <1>6, OneMoves

\* What a step of a member's work changes is a task or the locations.
LEMMA WorkMoves ==
  ASSUME CrewInv, NEW r \in Requests, NEW q \in Request,
         req[r].op \in {"save", "forget", "locate", "insertLocation"},
         q.op \in {"forget", "insertLocation", "idle"},
         req' = [req EXCEPT ![r] = q], calls' = calls,
         UNCHANGED <<flight, image, incidents, shared, dropped>>,
         task' \in [Tasks -> [Crew -> CrewTask]],
         location' \in [Crew \X Tasks -> Nat], stray' \in [Crew \X Tasks -> Nat],
         \A t \in Tasks, c \in Crew :
           /\ task[t][c] # NoCrewTask => task'[t][c] # NoCrewTask
           /\ task[t][c].images \subseteq task'[t][c].images,
         \A c \in Crew, t \in Tasks : \A n \in Nat :
           Bounded(c, t, n + Deletions(req[r], c, t)) => Bounded(c, t, n + Deletions(q, c, t))'
  PROVE  CrewInv'
<1>1. TypeOK'
  BY DEF CrewInv, TypeOK
<1>2. \A i \in ImageIds : /\ image[i] # NoImage => image'[i] # NoImage
                          /\ Sum(incidents[i]) <= Sum(incidents'[i])
                          /\ image'[i] # NoImage => image'[i].total <= Sum(incidents'[i])
                          /\ Taken(i)' => Taken(i)
  BY SumsAreNat DEF Taken
<1>3. \A i \in ImageIds : ~Holds(req[r], i)
  BY DEF Holds
<1>4. Fits(q, image', incidents', task')
  BY DEF Fits
<1>5. dropped \subseteq dropped'
  OBVIOUS
<1> QED
  BY <1>1, <1>2, <1>3, <1>4, <1>5, OneLocates

LEMMA SaveStatusKeeps ==
  ASSUME CrewInv, NEW r \in Requests, SaveStatus(r)
  PROVE  CrewInv'
<1> DEFINE p == req[r]
           v == p.verb
           t0 == p.task
           c0 == p.crew
           d == [task[t0][c0] EXCEPT !.status = To[v]]
           forgetting == [p EXCEPT !.op = "forget"]
           q == IF ForgetsLocation(v) THEN forgetting ELSE Idle
<1>1. /\ p.op = "save" /\ req' = [req EXCEPT ![r] = q] /\ calls' = calls
      /\ task' = [task EXCEPT ![t0][c0] = d]
      /\ UNCHANGED <<flight, image, incidents, location, shared, dropped, stray>>
  BY DEF SaveStatus, Goes
<1>2. p \in Acting /\ task[t0][c0] # NoCrewTask
  BY <1>1, Typed, RequestKinds DEF Fits
<1>3. v \in Verbs /\ t0 \in Tasks /\ c0 \in Crew
  BY <1>2 DEF Acting
<1>4. task[t0][c0] \in [status : Statuses, images : SUBSET ImageIds]
  BY <1>2, <1>3 DEF CrewInv, TypeOK, CrewTask
<1>5. /\ d \in [status : Statuses, images : SUBSET ImageIds]
      /\ d.status = To[v] /\ d.images = task[t0][c0].images
  BY <1>3, <1>4, VerbsSet
<1>6. d \in CrewTask /\ d # NoCrewTask
  BY <1>3, <1>5, VerbsSet DEF CrewTask, NoCrewTask
<1>7. /\ forgetting \in Request /\ forgetting.op = "forget"
      /\ forgetting.crew = c0 /\ forgetting.task = t0
  BY <1>2 DEF Acting, Request
<1> HIDE DEF forgetting
<1>8. q \in Request /\ q.op \in {"forget", "insertLocation", "idle"}
  BY <1>7, IdleFits
<1>9. To[v] \in {"stopped", "review"} => Forgets(q, c0, t0)
  BY <1>3, <1>7, VerbsSet DEF Forgets
<1>10. \A c \in Crew, t \in Tasks : ~Forgets(p, c, t)
  BY <1>1 DEF Forgets
<1> HIDE DEF p, v, t0, c0, d, q
<1>11. \A t \in Tasks, c \in Crew : task'[t][c] = IF t = t0 /\ c = c0 THEN d ELSE task[t][c]
  BY <1>1, <1>3 DEF CrewInv, TypeOK
<1>12. task' \in [Tasks -> [Crew -> CrewTask]]
  BY <1>1, <1>3, <1>6 DEF CrewInv, TypeOK
<1>13. \A t \in Tasks, c \in Crew : /\ task[t][c] # NoCrewTask => task'[t][c] # NoCrewTask
                                    /\ task[t][c].images \subseteq task'[t][c].images
  BY <1>5, <1>6, <1>11
<1>17. PICK next \in Request : next = q
  BY <1>8
<1>14. ASSUME NEW c \in Crew, NEW t \in Tasks, NEW n \in Nat,
              Bounded(c, t, n + Deletions(p, c, t))
       PROVE  Bounded(c, t, n + Deletions(next, c, t))'
  <2>1. location[<<c, t>>] \in Nat /\ stray[<<c, t>>] \in Nat
    BY LocationsAreNat DEF CrewInv
  <2>2. Deletions(p, c, t) = 0 /\ Deletions(next, c, t) \in {0, 1}
    BY <1>10 DEF Deletions
  <2>3. Over(c, t)' => Over(c, t) \/ Deletions(next, c, t) = 1
    BY <1>5, <1>9, <1>11, <1>17 DEF Over, Deletions
  <2>4. location' = location /\ stray' = stray
    BY <1>1
  <2> QED
    BY <1>14, <2>1, <2>2, <2>3, <2>4 DEF Bounded
<1>15. location' \in [Crew \X Tasks -> Nat] /\ stray' \in [Crew \X Tasks -> Nat]
  BY <1>1 DEF CrewInv, TypeOK
<1> QED
  BY <1>1, <1>8, <1>12, <1>13, <1>14, <1>15, <1>17, WorkMoves DEF p

\* A deletion takes away one location, when there is any.
LEMMA DeletedIs ==
  ASSUME TypeOK, NEW c0 \in Crew, NEW t0 \in Tasks
  PROVE  /\ OneDeleted(c0, t0) \in [Crew \X Tasks -> Nat]
         /\ \A c \in Crew, t \in Tasks :
              OneDeleted(c0, t0)[<<c, t>>] =
                IF c = c0 /\ t = t0 /\ location[<<c, t>>] # 0
                THEN location[<<c, t>>] - 1 ELSE location[<<c, t>>]
<1> DEFINE z == <<c0, t0>>
<1>1. z \in Crew \X Tasks /\ location \in [Crew \X Tasks -> Nat] /\ location[z] \in Nat
  BY DEF TypeOK
<1>2. \A c \in Crew, t \in Tasks : <<c, t>> \in Crew \X Tasks /\ (<<c, t>> = z <=> c = c0 /\ t = t0)
  OBVIOUS
<1>3. OneDeleted(c0, t0) = [location EXCEPT ![z] = IF location[z] = 0 THEN 0 ELSE location[z] - 1]
  BY DEF OneDeleted
<1> HIDE DEF z
<1> QED
  BY <1>1, <1>2, <1>3

LEMMA ForgetLocationKeeps ==
  ASSUME CrewInv, NEW r \in Requests, ForgetLocation(r)
  PROVE  CrewInv'
<1> DEFINE p == req[r]
<1>1. /\ p.op = "forget" /\ req' = [req EXCEPT ![r] = Idle] /\ calls' = calls
      /\ location' = OneDeleted(p.crew, p.task)
      /\ UNCHANGED <<flight, image, incidents, task, shared, dropped, stray>>
  BY DEF ForgetLocation, Goes
<1>2. p.crew \in Crew /\ p.task \in Tasks
  BY <1>1, Typed, RequestKinds DEF Acting
<1>3. /\ task' \in [Tasks -> [Crew -> CrewTask]]
      /\ location' \in [Crew \X Tasks -> Nat] /\ stray' \in [Crew \X Tasks -> Nat]
  BY <1>1, <1>2, DeletedIs DEF CrewInv, TypeOK
<1>4. ASSUME NEW c \in Crew, NEW t \in Tasks, NEW n \in Nat,
             Bounded(c, t, n + Deletions(p, c, t))
      PROVE  Bounded(c, t, n + Deletions(Idle, c, t))'
  <2> DEFINE l == location[<<c, t>>]
  <2>1. l \in Nat /\ stray[<<c, t>>] \in Nat
    BY LocationsAreNat DEF CrewInv
  <2>2. /\ Deletions(p, c, t) = IF c = p.crew /\ t = p.task THEN 1 ELSE 0
        /\ Deletions(Idle, c, t) = 0
    BY <1>1, IdleFits DEF Deletions, Forgets
  <2>3. location'[<<c, t>>] = IF c = p.crew /\ t = p.task /\ l # 0 THEN l - 1 ELSE l
    BY <1>1, <1>2, DeletedIs DEF CrewInv
  <2>4. /\ l <= stray[<<c, t>>] + 1
        /\ Over(c, t) => l <= stray[<<c, t>>] + (n + Deletions(p, c, t))
    BY <1>4 DEF Bounded
  <2>5. stray' = stray /\ (Over(c, t)' <=> Over(c, t))
    BY <1>1 DEF Over
  <2> HIDE DEF p, l
  <2> QED
    BY <2>1, <2>2, <2>3, <2>4, <2>5 DEF Bounded
<1> QED
  BY <1>1, <1>3, <1>4, IdleFits, WorkMoves

LEMMA LocateCalled ==
  ASSUME CrewInv, NEW r \in Requests, NEW c \in Crew, NEW t \in Tasks,
         Starts(r, [op |-> "locate", crew |-> c, task |-> t]),
         UNCHANGED <<flight, image, incidents, task, location, dropped, stray>>,
         shared' \in [Crew -> Tasks \cup {NoTask}]
  PROVE  CrewInv'
<1> DEFINE q == [op |-> "locate", crew |-> c, task |-> t]
<1>1. q \in Request /\ q.op = "locate"
  BY DEF Request, Locating
<1>2. Starts(r, q)
  OBVIOUS
<1> HIDE DEF q
<1>3. Fits(q, image, incidents, task)
  BY <1>1 DEF Fits
<1> QED
  BY <1>1, <1>2, <1>3, CallBegins

LEMMA LocationCallKeeps ==
  ASSUME CrewInv, NEW r \in Requests, NEW c \in Crew, NEW t \in Tasks,
         UpdateLocation(r, c, t) \/ ShareLocation(r, c, t)
  PROVE  CrewInv'
<1>1. shared' \in [Crew -> Tasks \cup {NoTask}]
  BY DEF UpdateLocation, ShareLocation, CrewInv, TypeOK
<1>2. UNCHANGED <<flight, image, incidents, task, location, dropped, stray>>
  BY DEF UpdateLocation, ShareLocation
<1>3. CASE Starts(r, [op |-> "locate", crew |-> c, task |-> t])
  BY <1>1, <1>2, <1>3, LocateCalled
<1>4. CASE calls < MaxCalls /\ calls' = calls + 1 /\ UNCHANGED req
  <2>1. TypeOK'
    BY <1>1, <1>2, <1>4 DEF CrewInv, TypeOK
  <2> QED
    BY <1>2, <1>4, <2>1, LocationsAreNat, OthersMove DEF CrewInv
<1> QED
  BY <1>3, <1>4 DEF UpdateLocation, ShareLocation

LEMMA SaveLocationKeeps ==
  ASSUME CrewInv, NEW r \in Requests, SaveLocation(r)
  PROVE  CrewInv'
<1> DEFINE p == req[r]
           inserting == [p EXCEPT !.op = "insertLocation"]
           q == IF location[<<p.crew, p.task>>] = 0 THEN inserting ELSE Idle
<1>1. /\ p.op = "locate" /\ req' = [req EXCEPT ![r] = q] /\ calls' = calls
      /\ UNCHANGED <<flight, image, incidents, task, location, shared, dropped, stray>>
  BY DEF SaveLocation, Goes
<1>2. inserting \in Request /\ inserting.op = "insertLocation"
  BY <1>1, Typed, RequestKinds DEF Locating, Request
<1> HIDE DEF inserting
<1>3. q \in Request /\ q.op \in {"forget", "insertLocation", "idle"} /\ q.op # "forget"
  BY <1>2, IdleFits
<1> HIDE DEF q
<1>4. \A c \in Crew, t \in Tasks : Deletions(p, c, t) = 0 /\ Deletions(q, c, t) = 0
  BY <1>1, <1>3 DEF Deletions, Forgets
<1>5. \A c \in Crew, t \in Tasks : \A n \in Nat : Bounded(c, t, n + 0) => Bounded(c, t, n + 0)'
  BY <1>1 DEF Bounded, Over
<1>6. /\ task' \in [Tasks -> [Crew -> CrewTask]]
      /\ location' \in [Crew \X Tasks -> Nat] /\ stray' \in [Crew \X Tasks -> Nat]
  BY <1>1 DEF CrewInv, TypeOK
<1> QED
  BY <1>1, <1>3, <1>4, <1>5, <1>6, WorkMoves

LEMMA InsertLocationKeeps ==
  ASSUME CrewInv, NEW r \in Requests, InsertLocation(r)
  PROVE  CrewInv'
<1> DEFINE p == req[r]
           c0 == p.crew
           t0 == p.task
           z == <<c0, t0>>
<1>1. /\ p.op = "insertLocation" /\ req' = [req EXCEPT ![r] = Idle] /\ calls' = calls
      /\ location' = [location EXCEPT ![z] = location[z] + 1]
      /\ stray' = IF location[z] > 0 \/ Over(c0, t0)
                  THEN [stray EXCEPT ![z] = stray[z] + 1] ELSE stray
      /\ UNCHANGED <<flight, image, incidents, task, shared, dropped>>
  BY DEF InsertLocation, Goes
<1>2. c0 \in Crew /\ t0 \in Tasks /\ z \in Crew \X Tasks
  <2>1. p \in Locating
    BY <1>1, Typed, RequestKinds
  <2>2. c0 \in Crew /\ t0 \in Tasks
    BY <2>1 DEF Locating
  <2> HIDE DEF c0, t0
  <2> QED
    BY <2>2
<1>3. /\ location \in [Crew \X Tasks -> Nat] /\ stray \in [Crew \X Tasks -> Nat]
      /\ task' \in [Tasks -> [Crew -> CrewTask]]
  BY <1>1 DEF CrewInv, TypeOK
<1>4. \A c \in Crew, t \in Tasks : Deletions(p, c, t) = 0 /\ Deletions(Idle, c, t) = 0
  BY <1>1, IdleFits DEF Deletions, Forgets
<1>5. \A c \in Crew, t \in Tasks : <<c, t>> \in Crew \X Tasks /\ (<<c, t>> = z <=> c = c0 /\ t = t0)
  OBVIOUS
<1>6. \A c \in Crew, t \in Tasks : Over(c, t)' <=> Over(c, t)
  BY <1>1 DEF Over
<1> HIDE DEF p, c0, t0, z
<1>7. location' \in [Crew \X Tasks -> Nat] /\ stray' \in [Crew \X Tasks -> Nat]
  BY <1>1, <1>2, <1>3
<1>8. ASSUME NEW c \in Crew, NEW t \in Tasks, NEW n \in Nat, Bounded(c, t, n + 0)
      PROVE  Bounded(c, t, n + 0)'
  <2> DEFINE l == location[<<c, t>>]
             s == stray[<<c, t>>]
  <2>1. l \in Nat /\ s \in Nat /\ l <= s + 1 /\ (Over(c, t) => l <= s + (n + 0))
    BY <1>3, <1>5, <1>8 DEF Bounded
  <2>2. CASE c = c0 /\ t = t0
    <3>1. location'[<<c, t>>] = l + 1
      BY <1>1, <1>2, <1>3, <1>5, <2>2
    <3>2. stray'[<<c, t>>] = IF l > 0 \/ Over(c, t) THEN s + 1 ELSE s
      BY <1>1, <1>2, <1>3, <1>5, <2>2
    <3> HIDE DEF l, s
    <3> QED
      BY <1>6, <2>1, <3>1, <3>2 DEF Bounded
  <2>3. CASE ~(c = c0 /\ t = t0)
    <3>1. location'[<<c, t>>] = l /\ stray'[<<c, t>>] = s
      BY <1>1, <1>3, <1>5, <2>3
    <3> HIDE DEF l, s
    <3> QED
      BY <1>6, <2>1, <3>1 DEF Bounded
  <2> QED
    BY <2>2, <2>3
<1> QED
  BY <1>1, <1>3, <1>4, <1>7, <1>8, IdleFits, WorkMoves DEF p

LEMMA RequestFailsKeeps ==
  ASSUME CrewInv, NEW r \in Requests, RequestFails(r)
  PROVE  CrewInv'
<1> DEFINE p == req[r]
<1>1. /\ req' = [req EXCEPT ![r] = Idle] /\ calls' = calls
      /\ dropped' = IF p.op \in {"image", "incidents", "create"} THEN dropped \cup p.done ELSE dropped
      /\ stray' = IF p.op = "forget" /\ location[<<p.crew, p.task>>] > 0
                  THEN [stray EXCEPT ![<<p.crew, p.task>>] = stray[<<p.crew, p.task>>] + 1]
                  ELSE stray
      /\ UNCHANGED <<flight, image, incidents, task, location, shared>>
  BY DEF RequestFails, Goes
<1>2. /\ p.op \in {"image", "incidents", "create"} => p.done \subseteq ImageIds
      /\ p.op = "forget" => p.crew \in Crew /\ p.task \in Tasks
  BY Typed, RequestKinds DEF Assigning, Acting
<1>3. \A i \in ImageIds : Holds(p, i) => i \in dropped'
  BY <1>1 DEF Holds
<1>4. \A c \in Crew, t \in Tasks :
        /\ Deletions(Idle, c, t) = 0
        /\ Deletions(p, c, t) = IF p.op = "forget" /\ c = p.crew /\ t = p.task THEN 1 ELSE 0
  BY IdleFits DEF Deletions, Forgets
<1> HIDE DEF p
<1>5. dropped' \subseteq ImageIds /\ dropped \subseteq dropped' /\ stray' \in [Crew \X Tasks -> Nat]
  <2>1. stray \in [Crew \X Tasks -> Nat] /\ dropped \subseteq ImageIds
    BY DEF CrewInv, TypeOK
  <2>2. p.op = "forget" => stray[<<p.crew, p.task>>] \in Nat
    BY <1>2, <2>1
  <2> QED
    BY <1>1, <1>2, <2>1, <2>2
<1>6. TypeOK'
  BY <1>1, <1>5, IdleFits DEF CrewInv, TypeOK
<1>7. Fits(Idle, image', incidents', task')
  BY IdleFits
<1>8. \A i \in ImageIds : /\ image[i] # NoImage => image'[i] # NoImage
                          /\ Sum(incidents[i]) <= Sum(incidents'[i])
                          /\ image'[i] # NoImage => image'[i].total <= Sum(incidents'[i])
                          /\ Taken(i)' => Taken(i)
  BY <1>1, SumsAreNat DEF Taken
<1>9. ASSUME NEW c \in Crew, NEW t \in Tasks, NEW n \in Nat,
             Bounded(c, t, n + Deletions(p, c, t))
      PROVE  Bounded(c, t, n + Deletions(Idle, c, t))'
  <2> DEFINE l == location[<<c, t>>]
             s == stray[<<c, t>>]
  <2>1. l \in Nat /\ s \in Nat
    BY LocationsAreNat DEF CrewInv
  <2>2. stray'[<<c, t>>] = s + IF l > 0 THEN Deletions(p, c, t) ELSE 0
    <3>1. <<c, t>> \in Crew \X Tasks /\ stray \in [Crew \X Tasks -> Nat]
      BY DEF CrewInv, TypeOK
    <3>2. <<c, t>> = <<p.crew, p.task>> <=> c = p.crew /\ t = p.task
      OBVIOUS
    <3> QED
      BY <1>1, <1>2, <1>4, <2>1, <3>1, <3>2
  <2>3. location'[<<c, t>>] = l /\ (Over(c, t)' <=> Over(c, t))
    BY <1>1 DEF Over
  <2>4. l <= s + 1 /\ (Over(c, t) => l <= s + (n + Deletions(p, c, t)))
    BY <1>9 DEF Bounded
  <2>5. Deletions(p, c, t) \in {0, 1} /\ Deletions(Idle, c, t) = 0
    BY <1>4
  <2> HIDE DEF l, s
  <2> QED
    BY <2>1, <2>2, <2>3, <2>4, <2>5 DEF Bounded
<1> QED
  BY <1>1, <1>3, <1>5, <1>6, <1>7, <1>8, <1>9, IdleFits, OneLocates DEF p

-----------------------------------------------------------------------------
(* The invariant, and the properties that follow.                          *)

LEMMA CrewInit == Init => CrewInv
<1> SUFFICES ASSUME Init PROVE CrewInv
  OBVIOUS
<1>1. TypeOK
  BY IdleFits DEF Init, TypeOK, FlightStatus, TaskImage, Incidents, CrewTask
<1>2. RequestsFit
  BY IdleFits DEF Init, RequestsFit
<1>3. TotalsNeverExceedIncidents /\ TakenAreHeld
  BY DEF Init, TotalsNeverExceedIncidents, Existing, TakenAreHeld, Taken
<1>4. LocatedAreKnown
  BY DEF Init, LocatedAreKnown, Bounded, Over, NoCrewTask
<1> QED
  BY <1>1, <1>2, <1>3, <1>4 DEF CrewInv

LEMMA CallKeeps ==
  ASSUME CrewInv, NEW r \in Requests, Call(r)
  PROVE  CrewInv'
<1>1. ASSUME NEW c \in Crew, NEW i \in ImageIds, Assign(r, c, <<i>>) PROVE CrewInv'
  <2>1. <<i>> \in Seq(ImageIds) /\ <<i>> # << >>
    OBVIOUS
  <2> QED
    BY <1>1, <2>1, AssignKeeps
<1>2. ASSUME NEW c \in Crew, NEW i \in ImageIds, NEW j \in ImageIds, Assign(r, c, <<i, j>>)
      PROVE  CrewInv'
  <2>1. <<i, j>> \in Seq(ImageIds) /\ <<i, j>> # << >>
    OBVIOUS
  <2> QED
    BY <1>2, <2>1, AssignKeeps
<1>3. CASE AssignCall(r)
  BY <1>1, <1>2, <1>3 DEF AssignCall
<1>4. CASE TaskCall(r)
  <2>1. {"accept", "reject", "begin", "stop", "complete"} \subseteq Verbs
    BY DEF Verbs
  <2> QED
    BY <1>4, <2>1, ActKeeps DEF TaskCall, AcceptTask, RejectTask, BeginTask, StopTask, CompleteTask
<1>5. CASE LocationCall(r)
  BY <1>5, LocationCallKeeps DEF LocationCall
<1>6. CASE IncidentCall(r)
  BY <1>6, ReportIncidentKeeps DEF IncidentCall
<1> QED
  BY <1>3, <1>4, <1>5, <1>6 DEF Call

LEMMA CrewStep == CrewInv /\ [Next]_vars => CrewInv'
<1> SUFFICES ASSUME CrewInv, [Next]_vars PROVE CrewInv'
  OBVIOUS
<1>1. ASSUME NEW r \in Requests, Step(r) PROVE CrewInv'
  BY <1>1, NumberImageKeeps, SaveImageKeeps, InsertIncidentsKeeps, SaveTotalKeeps,
     MarkImageKeeps, ReadIncidentsKeeps, CreateCrewTaskKeeps, MarkFlightKeeps, MarkIncidentsKeeps,
     SaveStatusKeeps, ForgetLocationKeeps, SaveLocationKeeps, InsertLocationKeeps DEF Step
<1>2. ASSUME NEW t \in Tasks, NotifyComplete(t) PROVE CrewInv'
  <2>1. TypeOK' /\ UNCHANGED <<image, incidents, task, req, dropped, stray, location>>
    BY <1>2 DEF NotifyComplete, CrewInv, TypeOK, FlightStatus
  <2> QED
    BY <2>1, LocationsAreNat, OthersMove DEF CrewInv
<1>3. ASSUME NEW c \in Crew, Disconnect(c) PROVE CrewInv'
  <2>1. /\ location' \in {location, OneDeleted(c, shared[c])} /\ shared[c] \in Tasks
        /\ UNCHANGED <<flight, image, incidents, task, req, calls, dropped, stray>>
        /\ shared' = [shared EXCEPT ![c] = NoTask]
    BY <1>3 DEF Disconnect, CrewInv, TypeOK
  <2>2. ASSUME NEW d \in Crew, NEW t \in Tasks PROVE location'[<<d, t>>] <= location[<<d, t>>]
    <3>1. location[<<d, t>>] \in Nat
      BY LocationsAreNat DEF CrewInv
    <3>2. CASE location' = location
      BY <3>1, <3>2
    <3>3. CASE location' = OneDeleted(c, shared[c])
      <4>1. PICK s \in Tasks : s = shared[c]
        BY <2>1
      <4>2. location' = OneDeleted(c, s)
        BY <3>3, <4>1
      <4> QED
        BY <3>1, <4>2, DeletedIs DEF CrewInv
    <3> QED
      BY <2>1, <3>2, <3>3
  <2>3. TypeOK'
    BY <2>1, DeletedIs DEF CrewInv, TypeOK
  <2> QED
    BY <2>1, <2>2, <2>3, OthersMove
<1>4. ASSUME NEW c \in Crew, NEW t \in Tasks, StopTracking(c, t) PROVE CrewInv'
  <2>1. /\ location' = OneDeleted(c, t)
        /\ UNCHANGED <<flight, image, incidents, task, shared, req, calls, dropped, stray>>
    BY <1>4 DEF StopTracking
  <2>2. ASSUME NEW d \in Crew, NEW s \in Tasks PROVE location'[<<d, s>>] <= location[<<d, s>>]
    BY <2>1, DeletedIs, LocationsAreNat DEF CrewInv
  <2>3. TypeOK'
    BY <2>1, DeletedIs DEF CrewInv, TypeOK
  <2> QED
    BY <2>1, <2>2, <2>3, OthersMove
<1>5. CASE UNCHANGED vars
  <2>1. TypeOK' /\ UNCHANGED <<image, incidents, task, req, dropped, stray, location>>
    BY <1>5 DEF vars, CrewInv, TypeOK
  <2> QED
    BY <2>1, LocationsAreNat, OthersMove DEF CrewInv
<1> QED
  BY <1>1, <1>2, <1>3, <1>4, <1>5, CallKeeps, RequestFailsKeeps DEF Next

LEMMA CrewInvariant == Spec => []CrewInv
<1> QED
  BY CrewInit, CrewStep, PTL DEF Spec

\* Every variable of the two services keeps its type: no request works on an image
\* or a task document that is not there.
THEOREM CrewTypes == Spec => []TypeOK
<1>1. CrewInv => TypeOK
  BY DEF CrewInv
<1> QED
  BY <1>1, CrewInvariant, PTL

\* createTaskIncident never leaves an image with a total above its incidents,
\* whichever reports overlap or fail.
THEOREM CrewTotals == Spec => []TotalsNeverExceedIncidents
<1>1. CrewInv => TotalsNeverExceedIncidents
  BY DEF CrewInv
<1> QED
  BY <1>1, CrewInvariant, PTL

\* assignCrewMemberToTaskFromImages loses an image only by failing halfway: any other that is
\* offered no more is listed with a task, and shown with it to the only member of a flight task.
THEOREM CrewImages == Spec => []MissingImagesHaveTasks
<1>1. CrewInv => MissingImagesHaveTasks
  <2> SUFFICES ASSUME CrewInv, NEW i \in Existing, image[i].total > 0, i \notin Offered(TaskOfImage(i))
               PROVE  \/ \E t \in Tasks, c \in Crew :
                            /\ i \in ListedImages(c, t)
                            /\ Found(t) = {c} => \A d \in Found(t) : i \in ShownImages(d, c, t)
                      \/ i \in dropped
                      \/ \E r \in Requests : /\ req[r].op \in {"image", "incidents", "create"}
                                             /\ i \in req[r].done
    BY DEF MissingImagesHaveTasks
  <2>1. i \in ImageIds /\ image[i] # NoImage
    BY DEF Existing
  <2>2. Taken(i)
    BY <2>1, SumsAreNat DEF Offered, Taken
  <2>3. InTask(i, task) \/ i \in dropped \/ \E r \in Requests : Holds(req[r], i)
    BY <2>1, <2>2 DEF CrewInv, TakenAreHeld
  <2> QED
    BY <2>3 DEF InTask, ListedImages, ShownImages, Holds
<1> QED
  BY <1>1, CrewInvariant, PTL

\* stopCrewMemberTask and completeCrewMemberTask leave no more locations on the map than were
\* inserted second or too late, or whose deletion failed.
THEOREM CrewLocations == Spec => []OverTasksAreNotLocated
<1>1. CrewInv => OverTasksAreNotLocated
  BY DEF CrewInv, LocatedAreKnown, Bounded, OverTasksAreNotLocated, Navigated
<1> QED
  BY <1>1, CrewInvariant, PTL
=============================================================================
