----------------------------- MODULE CrewTasks -----------------------------
(***************************************************************************)
(* Incident clean-up tasks: the services crew-member-task and              *)
(* task-incident.  The repository keeps their TypeScript source as text in *)
(* crew-member-task/*.py and task-incident/*.py; the model follows it.     *)
(*                                                                         *)
(*   - The image analysis reports incidents of a flight task, image by     *)
(*     image (createTaskIncident).                                         *)
(*   - A subscriber assigns images to a crew member, who accepts, rejects, *)
(*     begins, stops or completes the task and shares a location meanwhile.*)
(*                                                                         *)
(* Node runs one handler until it awaits; every await is one MongoDB       *)
(* operation, which is atomic for its document.  A save() writes the       *)
(* fields the handler changed, whatever the document has become since it   *)
(* was read.                                                               *)
(***************************************************************************)
EXTENDS Naturals, Sequences, FiniteSets

CONSTANTS
  Crew,         \* crew members
  Tasks,        \* subscriber flight tasks
  Files,        \* names of the images of those tasks
  TaskOf,       \* TaskOf[f]: the flight task of a file
  Requests,     \* requests that are served at the same time
  NoTask,
  MaxImages,    \* bound: TaskImage documents
  MaxCalls      \* bound: calls, but those that end by themselves (TaskCall, StopTracking)

ImageIds == 1 .. MaxImages

ASSUME CrewAssumption ==
  /\ TaskOf \in [Files -> Tasks]
  /\ IsFiniteSet(Requests)
  /\ NoTask \notin Tasks
  /\ MaxImages \in Nat /\ MaxCalls \in Nat

VARIABLES
  flight,     \* status of the SubscriberFlightTask documents
  image,      \* the TaskImage documents by imageId
  incidents,  \* incidents[i]: incidents of image i, by status
  task,       \* task[t][c]: the CrewMemberTask document, unique by (taskId, crewMemberId)
  location,   \* location[<<c, t>>]: its CrewMemberLocation documents; no index is unique
  shared,     \* shared[c]: the task that the socket of c shared its location for
  req,        \* req[r]: what the handler of request r is doing
  calls,      \* observer, for its bound
  dropped,    \* observer: images marked by an assignment that failed
  stray       \* observer: stray[<<c, t>>]: locations inserted second or after the task was
              \* over, and deletions at its end that failed to delete one

vars == <<flight, image, incidents, task, location, shared, req, calls, dropped, stray>>

FlightStatus == {"pending", "processing", "assigned"}
NoImage == [file |-> "none"]
TaskImage == {NoImage} \cup [file : Files, status : {"pending", "assigned"}, total : Nat]
Incidents == [pending : Nat, assigned : Nat]

NoCrewTask == [status |-> "none", images |-> {}]
Statuses == {"assigned", "accepted", "rejected", "onGoing", "stopped", "review"}
CrewTask == {NoCrewTask} \cup [status : Statuses, images : SUBSET ImageIds]

\* The five operations of a crew member: the status they require and the one they set.
Verbs == {"accept", "reject", "begin", "stop", "complete"}
From == [accept |-> "assigned", reject |-> "assigned", begin |-> "accepted",
         stop |-> "onGoing", complete |-> "onGoing"]
To == [accept |-> "accepted", reject |-> "rejected", begin |-> "onGoing",
       stop |-> "stopped", complete |-> "review"]

Idle == [op |-> "idle"]
Assigning == [op : {"image", "incidents", "create", "flight", "mark"}, crew : Crew,
              todo : Seq(ImageIds), done : SUBSET ImageIds, task : Tasks \cup {NoTask}]
Acting == [op : {"save", "forget"}, verb : Verbs, crew : Crew, task : Tasks]
Locating == [op : {"locate", "insertLocation"}, crew : Crew, task : Tasks]
Reporting == [op : {"number"}, file : Files, id : {0}, total : {0}]
             \cup [op : {"new", "insert", "total"}, file : Files, id : ImageIds, total : Nat]
Request == {Idle} \cup Assigning \cup Acting \cup Locating \cup Reporting

Init ==
  /\ flight = [t \in Tasks |-> "pending"]
  /\ image = [i \in ImageIds |-> NoImage]
  /\ incidents = [i \in ImageIds |-> [pending |-> 0, assigned |-> 0]]
  /\ task = [t \in Tasks |-> [c \in Crew |-> NoCrewTask]]
  /\ location = [p \in Crew \X Tasks |-> 0]
  /\ shared = [c \in Crew |-> NoTask]
  /\ req = [r \in Requests |-> Idle]
  /\ calls = 0
  /\ dropped = {}
  /\ stray = [p \in Crew \X Tasks |-> 0]

Starts(r, q) ==
  /\ req[r] = Idle /\ calls < MaxCalls
  /\ calls' = calls + 1
  /\ req' = [req EXCEPT ![r] = q]

Goes(r, q) == req' = [req EXCEPT ![r] = q] /\ UNCHANGED calls

Existing == {i \in ImageIds : image[i] # NoImage}

\* The task an image and its incidents belong to.
TaskOfImage(i) == TaskOf[image[i].file]

----------------------------------------------------------------------------
(* createTaskIncident, for one image with one detection *)

\* The document of the image is looked up by task and file name.
ReportIncident(r, f) ==
  LET known == {i \in Existing : image[i].file = f} IN
  /\ \/ \E i \in known :
          Starts(r, [op |-> "insert", file |-> f, id |-> i, total |-> image[i].total])
     \/ /\ known = {}
        /\ Starts(r, [op |-> "number", file |-> f, id |-> 0, total |-> 0])
  /\ UNCHANGED <<flight, image, incidents, task, location, shared, dropped, stray>>

\* The hook of a new document reads the highest number in use.  (A bug: it would keep it.)
HighestImageId == IF Existing = {} THEN 0 ELSE CHOOSE i \in Existing : \A j \in Existing : j <= i

NextImageId == IF Existing = {} THEN 1 ELSE 1 + CHOOSE i \in Existing : \A j \in Existing : j <= i

NumberImage(r) ==
  /\ req[r].op = "number"
  /\ NextImageId <= MaxImages
  /\ Goes(r, [req[r] EXCEPT !.op = "new", !.id = NextImageId])
  /\ UNCHANGED <<flight, image, incidents, task, location, shared, dropped, stray>>

\* Its insertion fails when the number was taken meanwhile (see RequestFails).
SaveImage(r) ==
  /\ req[r].op = "new"
  /\ image[req[r].id] = NoImage
  /\ image' = [image EXCEPT ![req[r].id] =
                 [file |-> req[r].file, status |-> "pending", total |-> 0]]
  /\ Goes(r, [req[r] EXCEPT !.op = "insert"])
  /\ UNCHANGED <<flight, incidents, task, location, shared, dropped, stray>>

\* insertMany.
InsertIncidents(r) ==
  /\ req[r].op = "insert"
  /\ incidents' = [incidents EXCEPT ![req[r].id].pending = @ + 1]
  /\ Goes(r, [req[r] EXCEPT !.op = "total"])
  /\ UNCHANGED <<flight, image, task, location, shared, dropped, stray>>

\* The total of the document as it was read, plus what was inserted.  (A bug: the document
\* would be read again after the insertion and count the new incidents twice.)
TotalReadLate(r) == image[req[r].id].total + 2

NewTotal(r) == req[r].total + 1

SaveTotal(r) ==
  /\ req[r].op = "total"
  /\ image' = [image EXCEPT ![req[r].id] = [@ EXCEPT !.total = NewTotal(r)]]
  /\ Goes(r, Idle)
  /\ UNCHANGED <<flight, incidents, task, location, shared, dropped, stray>>

\* notifyTaskIncidentsComplete: the update, before the mail.
NotifyComplete(t) ==
  /\ calls < MaxCalls
  /\ calls' = calls + 1
  /\ flight' = [flight EXCEPT ![t] = "processing"]
  /\ UNCHANGED <<image, incidents, task, location, shared, req, dropped, stray>>

\* retrieveTaskImagesBySubscriberTask: the images a subscriber can choose from.
Offered(t) ==
  {i \in Existing : TaskOfImage(i) = t /\ image[i].status = "pending" /\ image[i].total > 0}

----------------------------------------------------------------------------
(* assignCrewMemberToTaskFromImages *)

\* A crew member with an accepted or begun task gets no other.
Busy(c) == \E t \in Tasks : task[t][c].status \in {"accepted", "onGoing"}

Assign(r, c, ids) ==
  /\ ~Busy(c)
  /\ Starts(r, [op |-> "image", crew |-> c, todo |-> ids, done |-> {}, task |-> NoTask])
  /\ UNCHANGED <<flight, image, incidents, task, location, shared, dropped, stray>>

\* One round of the loop: the image is found and marked, ...
MarkImage(r) ==
  LET i == Head(req[r].todo) IN
  /\ req[r].op = "image"
  /\ i \in Existing
  /\ image' = [image EXCEPT ![i] = [@ EXCEPT !.status = "assigned"]]
  /\ Goes(r, [req[r] EXCEPT !.op = "incidents", !.done = @ \cup {i}])
  /\ UNCHANGED <<flight, incidents, task, location, shared, dropped, stray>>

\* ... then its incidents are read; those of the first image name the task.
Reported(i) == incidents[i].pending + incidents[i].assigned > 0

ReadIncidents(r) ==
  LET i == Head(req[r].todo)
      rest == Tail(req[r].todo) IN
  /\ req[r].op = "incidents"
  /\ Reported(i)
  /\ Goes(r, [req[r] EXCEPT !.op = IF rest = << >> THEN "create" ELSE "image",
                            !.todo = rest,
                            !.task = IF @ = NoTask THEN TaskOfImage(i) ELSE @])
  /\ UNCHANGED <<flight, image, incidents, task, location, shared, dropped, stray>>

\* The images of the new document.  (A bug: the last one would be left out.)
AssignedButOne(r) ==
  req[r].done \ {i \in req[r].done : Cardinality(req[r].done) > 1 /\ \A j \in req[r].done : j <= i}

ImageAssigned(r) == req[r].done

\* The unique index refuses a second document for the task and the member.
CreateCrewTask(r) ==
  LET t == req[r].task
      c == req[r].crew IN
  /\ req[r].op = "create"
  /\ task[t][c] = NoCrewTask
  /\ task' = [task EXCEPT ![t][c] = [status |-> "assigned", images |-> ImageAssigned(r)]]
  /\ Goes(r, [req[r] EXCEPT !.op = "flight"])
  /\ UNCHANGED <<flight, image, incidents, location, shared, dropped, stray>>

MarkFlight(r) ==
  /\ req[r].op = "flight"
  /\ flight' = [flight EXCEPT ![req[r].task] = "assigned"]
  /\ Goes(r, [req[r] EXCEPT !.op = "mark"])
  /\ UNCHANGED <<image, incidents, task, location, shared, dropped, stray>>

\* updateMany of all incidents of the task; the mail that follows cannot fail the call.
MarkIncidents(r) ==
  /\ req[r].op = "mark"
  /\ incidents' = [i \in ImageIds |->
       IF i \in Existing /\ TaskOfImage(i) = req[r].task
       THEN [pending |-> 0, assigned |-> incidents[i].pending + incidents[i].assigned]
       ELSE incidents[i]]
  /\ Goes(r, Idle)
  /\ UNCHANGED <<flight, image, task, location, shared, dropped, stray>>

----------------------------------------------------------------------------
(* acceptCrewMemberTask, rejectCrewMemberTask, beginCrewMemberTask, stopCrewMemberTask, *)
(* completeCrewMemberTask *)

\* findOne({taskId}) returns some document of the task.  When it is another member's, or has
\* not the required status, the call fails and changes nothing.
MayAct(verb, c, t) == task[t][c].status = From[verb]

Act(r, verb, c, t) ==
  /\ MayAct(verb, c, t)
  /\ req[r] = Idle
  /\ Goes(r, [op |-> "save", verb |-> verb, crew |-> c, task |-> t])
  /\ UNCHANGED <<flight, image, incidents, task, location, shared, dropped, stray>>

AcceptTask(r, c, t) == Act(r, "accept", c, t)
RejectTask(r, c, t) == Act(r, "reject", c, t)
BeginTask(r, c, t) == Act(r, "begin", c, t)
StopTask(r, c, t) == Act(r, "stop", c, t)
CompleteTask(r, c, t) == Act(r, "complete", c, t)

\* findOne({taskId}) returns the document of one of these members.
Found(t) == {c \in Crew : task[t][c] # NoCrewTask}

\* getCrewMemberAllTasks: the images it lists with a task of the member.
ListedImages(c, t) == task[t][c].images

\* getCrewMemberTaskDetails: the images it shows the member when it finds d's document, which
\* it refuses to another member.
ShownImages(d, c, t) == IF d = c THEN Existing \cap task[t][d].images ELSE {}

\* save() sets the new status; a completion has uploaded its evidence in between.  (A bug: a
\* completion would leave the location.)
ForgetsIfStopped(verb) == verb = "stop"

ForgetsLocation(verb) == verb \in {"stop", "complete"}

SaveStatus(r) ==
  LET q == req[r] IN
  /\ q.op = "save"
  /\ task' = [task EXCEPT ![q.task][q.crew] = [@ EXCEPT !.status = To[q.verb]]]
  /\ Goes(r, IF ForgetsLocation(q.verb) THEN [q EXCEPT !.op = "forget"] ELSE Idle)
  /\ UNCHANGED <<flight, image, incidents, location, shared, dropped, stray>>

\* findOneAndDelete: one document, when there is any.
OneDeleted(c, t) == [location EXCEPT ![<<c, t>>] = IF @ = 0 THEN 0 ELSE @ - 1]

\* deleteLocationForTask.
ForgetLocation(r) ==
  LET q == req[r] IN
  /\ q.op = "forget"
  /\ location' = OneDeleted(q.crew, q.task)
  /\ Goes(r, Idle)
  /\ UNCHANGED <<flight, image, incidents, task, shared, dropped, stray>>

----------------------------------------------------------------------------
(* The location gateway, one socket for each crew member *)

\* update_location: the task must be assigned to the member.
UpdateLocation(r, c, t) ==
  /\ task[t][c] # NoCrewTask
  /\ Starts(r, [op |-> "locate", crew |-> c, task |-> t])
  /\ UNCHANGED <<flight, image, incidents, task, location, shared, dropped, stray>>

\* share_location remembers the task of the socket, assigned or not, and does the same.
ShareLocation(r, c, t) ==
  /\ shared' = [shared EXCEPT ![c] = t]
  /\ IF task[t][c] # NoCrewTask
     THEN Starts(r, [op |-> "locate", crew |-> c, task |-> t])
     ELSE calls < MaxCalls /\ calls' = calls + 1 /\ UNCHANGED req
  /\ UNCHANGED <<flight, image, incidents, task, location, dropped, stray>>

\* The upsert of updateLocation looks at no status.  It updates a document of the pair (its
\* position is left out), ...
SaveLocation(r) ==
  LET q == req[r] IN
  /\ q.op = "locate"
  /\ Goes(r, IF location[<<q.crew, q.task>>] = 0 THEN [q EXCEPT !.op = "insertLocation"] ELSE Idle)
  /\ UNCHANGED <<flight, image, incidents, task, location, shared, dropped, stray>>

Over(c, t) == task[t][c].status \in {"stopped", "review"}

\* ... or, when it finds none, inserts one, whatever was inserted meanwhile.
InsertLocation(r) ==
  LET q == req[r]
      p == <<q.crew, q.task>> IN
  /\ q.op = "insertLocation"
  /\ location' = [location EXCEPT ![p] = @ + 1]
  /\ stray' = IF location[p] > 0 \/ Over(q.crew, q.task) THEN [stray EXCEPT ![p] = @ + 1] ELSE stray
  /\ Goes(r, Idle)
  /\ UNCHANGED <<flight, image, incidents, task, shared, dropped>>

\* stop_tracking.
StopTracking(c, t) ==
  /\ location[<<c, t>>] > 0
  /\ location' = OneDeleted(c, t)
  /\ UNCHANGED <<flight, image, incidents, task, shared, req, calls, dropped, stray>>

\* getTaskNavigation: the tasks of a member that a subscriber sees on the map.
Navigated(c) == {t \in Tasks : task[t][c] # NoCrewTask /\ location[<<c, t>>] > 0}

\* handleDisconnect: only the task that was shared last is forgotten.  The deletion may fail,
\* which is only logged.
Disconnect(c) ==
  /\ shared[c] # NoTask
  /\ location' \in {location, OneDeleted(c, shared[c])}
  /\ shared' = [shared EXCEPT ![c] = NoTask]
  /\ UNCHANGED <<flight, image, incidents, task, req, calls, dropped, stray>>

----------------------------------------------------------------------------
\* A check of the loop or an operation on the database fails, or the process dies: what has
\* been done stays done.
RequestFails(r) ==
  LET q == req[r]
      p == <<q.crew, q.task>> IN
  /\ q # Idle
  /\ dropped' = IF q.op \in {"image", "incidents", "create"} THEN dropped \cup q.done ELSE dropped
  /\ stray' = IF q.op = "forget" /\ location[p] > 0 THEN [stray EXCEPT ![p] = @ + 1] ELSE stray
  /\ Goes(r, Idle)
  /\ UNCHANGED <<flight, image, incidents, task, location, shared>>

Step(r) ==
  \/ NumberImage(r) \/ SaveImage(r) \/ InsertIncidents(r) \/ SaveTotal(r)
  \/ MarkImage(r) \/ ReadIncidents(r) \/ CreateCrewTask(r) \/ MarkFlight(r) \/ MarkIncidents(r)
  \/ SaveStatus(r) \/ ForgetLocation(r) \/ SaveLocation(r) \/ InsertLocation(r)

\* A subscriber assigns one image or several, ...
AssignCall(r) ==
  \E c \in Crew, i \in ImageIds :
    \/ Assign(r, c, <<i>>)
    \/ \E j \in ImageIds : Assign(r, c, <<i, j>>)

\* ... and a crew member works on a task.
TaskCall(r) ==
  \E c \in Crew, t \in Tasks :
    \/ AcceptTask(r, c, t) \/ RejectTask(r, c, t) \/ BeginTask(r, c, t)
    \/ StopTask(r, c, t) \/ CompleteTask(r, c, t)

LocationCall(r) ==
  \E c \in Crew, t \in Tasks : UpdateLocation(r, c, t) \/ ShareLocation(r, c, t)

IncidentCall(r) == \E f \in Files : ReportIncident(r, f)

Call(r) == AssignCall(r) \/ TaskCall(r) \/ LocationCall(r) \/ IncidentCall(r)

Next ==
  \/ \E r \in Requests : Call(r) \/ Step(r) \/ RequestFails(r)
  \/ \E t \in Tasks : NotifyComplete(t)
  \/ \E c \in Crew : Disconnect(c) \/ \E t \in Tasks : StopTracking(c, t)

Spec == Init /\ [][Next]_vars

----------------------------------------------------------------------------
(* Properties *)

\* Every variable has its type; a numbered request has a number of the range.
TypeOK ==
  /\ flight \in [Tasks -> FlightStatus]
  /\ image \in [ImageIds -> TaskImage]
  /\ incidents \in [ImageIds -> Incidents]
  /\ task \in [Tasks -> [Crew -> CrewTask]]
  /\ location \in [Crew \X Tasks -> Nat]
  /\ shared \in [Crew -> Tasks \cup {NoTask}]
  /\ req \in [Requests -> Request]
  /\ calls \in Nat
  /\ dropped \subseteq ImageIds
  /\ stray \in [Crew \X Tasks -> Nat]

\* createTaskIncident adds to the total of an image document that it read before the insertion:
\* whatever overlaps or fails, the total never exceeds the incidents that exist.
TotalsNeverExceedIncidents ==
  \A i \in Existing : image[i].total <= incidents[i].pending + incidents[i].assigned

\* Images with a total are offered for assignment until one takes them: an image that is offered
\* no more is in the list of a crew member's tasks (getCrewMemberAllTasks), and shown with the task
\* when the member is the only one of the flight task (getCrewMemberTaskDetails refuses others the
\* document it finds), unless its assignment failed halfway or is on its way.
MissingImagesHaveTasks ==
  \A i \in Existing : image[i].total > 0 /\ i \notin Offered(TaskOfImage(i)) =>
    \/ \E t \in Tasks, c \in Crew :
          /\ i \in ListedImages(c, t)
          /\ Found(t) = {c} => \A d \in Found(t) : i \in ShownImages(d, c, t)
    \/ i \in dropped
    \/ \E r \in Requests : req[r].op \in {"image", "incidents", "create"} /\ i \in req[r].done

Forgetting(c, t) ==
  {r \in Requests : req[r].op = "forget" /\ req[r].crew = c /\ req[r].task = t}

\* stopCrewMemberTask and completeCrewMemberTask delete one location of the member: a task that is
\* over is shown on the map (getTaskNavigation) only as often as an upsert inserted a second
\* location or one after the end, or a deletion failed or is still to come.
OverTasksAreNotLocated ==
  \A c \in Crew : \A t \in Navigated(c) : Over(c, t) =>
    location[<<c, t>>] <= stray[<<c, t>>] + Cardinality(Forgetting(c, t))
=============================================================================
