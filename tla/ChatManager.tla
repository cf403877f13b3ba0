---------------------------- MODULE ChatManager ----------------------------
(***************************************************************************)
(* The chat service: ChatManager (src/chat.py), the table rows it writes   *)
(* through ChatStore (src/chat_store.py) and the endpoints of src/main.py  *)
(* that drive it.                                                          *)
(*                                                                         *)
(* One asyncio event loop runs every handler.  No section guarded by       *)
(* ChatManager._lock contains an await, so the lock is never found taken,  *)
(* acquiring it never suspends, and a handler gives up the loop only while *)
(* it awaits a socket: in accept(), in receive_text() and in each          *)
(* send_text() of a delivery loop.  Every action below is the code that    *)
(* runs between two such awaits.                                           *)
(***************************************************************************)
EXTENDS Naturals, Sequences, FiniteSets

CONSTANTS
    Convs,           \* conversation ids
    Users,           \* user ids
    Agents,          \* support agents
    Reasons,         \* escalation reasons
    Sockets,         \* websockets, each the life of one websocket_chat handler
    Requests,        \* concurrent HTTP requests
    ConvOf,          \* the conversation in each socket's URL
    UserOf,          \* the user in each socket's URL
    Limits,          \* the "limit" values history is asked for
    MaxMessages,     \* bound: messages ever accepted
    MaxEscalations,  \* bound: escalations ever made
    MaxRestarts,     \* bound: restarts of the process
    MaxLoops,        \* bound: delivery loops running at once
    None             \* Python's None

ASSUME SocketsAssumption ==
    /\ IsFiniteSet(Sockets)
    /\ ConvOf \in [Sockets -> Convs]
    /\ UserOf \in [Sockets -> Users]

ASSUME DisjointAssumption ==
    /\ Sockets \cap Requests = {}
    /\ None \notin Agents \cup Sockets \cup Convs

ASSUME BoundsAssumption ==
    /\ Limits \subseteq Nat \ {0}
    /\ MaxMessages \in Nat
    /\ MaxEscalations \in Nat
    /\ MaxRestarts \in Nat
    /\ MaxLoops \in Nat

VARIABLES
    \* ChatManager, in memory
    activeConnections,        \* [Convs -> set of sockets]: the list's members
    arrival,                  \* [Sockets -> Nat]: their order in the list
    joined,                   \* sockets appended so far
    userConnections,          \* [Users -> set of conversations]
    messageHistory,           \* [Convs -> sequence of message ids]
    escalations,              \* sequence of escalation events
    conversationStatuses,
    conversationAssignments,
    conversationEscalatedAt,
    \* the tasks of the event loop
    handler,                  \* [Sockets -> "new", "open", "closed"]
    client,                   \* [Sockets -> "up", "gone"]: the other end
    delivery,                 \* [Tasks -> the delivery loop the task is in]
    \* PostgreSQL
    chatMessages,             \* [Convs -> ids of the rows, by timestamp]
    chatEscalations,          \* the escalation rows
    \* observers, which no action reads except to stay within a bound
    lastMessage,              \* messages accepted, ever
    lastEscalation,           \* escalations made, ever
    restarts,
    bootRows,                 \* the message rows this process started from
    sinceBoot                 \* [Convs -> ids this process has accepted]

registryVars == <<activeConnections, arrival, joined, userConnections>>
escalationVars == <<escalations, conversationStatuses,
                    conversationAssignments, conversationEscalatedAt,
                    chatEscalations, lastEscalation>>
historyVars == <<messageHistory, chatMessages, lastMessage, sinceBoot>>
bootVars == <<restarts, bootRows>>
taskVars == <<handler, client>>

vars == <<activeConnections, arrival, joined, userConnections,
          messageHistory, escalations, conversationStatuses,
          conversationAssignments, conversationEscalatedAt, handler, client,
          delivery, chatMessages, chatEscalations, lastMessage,
          lastEscalation, restarts, bootRows, sinceBoot>>

Tasks == Sockets \cup Requests

Statuses == {"open", "escalated", "assigned"}

Escalation == [conv : Convs, reason : Reasons, at : Nat \ {0}]

(***************************************************************************)
(* A delivery loop "for websocket in active_connections[conv]: await       *)
(* send_text(...)".  The loop holds a list iterator: pos is its index (how *)
(* many elements it has taken), target the socket it is sending to, and    *)
(* attached is FALSE once the list was deleted from the dict, empty.       *)
(* failed is the local list "disconnected".  attempted and owed observe    *)
(* whom the loop has sent to and who was registered when it began.         *)
(***************************************************************************)
Delivery == [busy : {TRUE}, conv : Convs, pos : Nat, target : Sockets,
             attached : BOOLEAN, failed : SUBSET Sockets,
             attempted : SUBSET Sockets, owed : SUBSET Sockets]

Idle == [busy |-> FALSE, conv |-> None, pos |-> 0, target |-> None,
         attached |-> FALSE, failed |-> {}, attempted |-> {}, owed |-> {}]

TypeOK ==
    /\ activeConnections \in [Convs -> SUBSET Sockets]
    /\ arrival \in [Sockets -> Nat]
    /\ joined \in Nat
    /\ userConnections \in [Users -> SUBSET Convs]
    /\ messageHistory \in [Convs -> Seq(Nat)]
    /\ escalations \in Seq(Escalation)
    /\ conversationStatuses \in [Convs -> Statuses]
    /\ conversationAssignments \in [Convs -> Agents \cup {None}]
    /\ conversationEscalatedAt \in [Convs -> Nat]
    /\ handler \in [Sockets -> {"new", "open", "closed"}]
    /\ client \in [Sockets -> {"up", "gone"}]
    /\ delivery \in [Tasks -> Delivery \cup {Idle}]
    /\ chatMessages \in [Convs -> Seq(Nat)]
    /\ chatEscalations \subseteq Escalation
    /\ lastMessage \in Nat
    /\ lastEscalation \in Nat
    /\ restarts \in Nat
    /\ bootRows \in [Convs -> Seq(Nat)]
    /\ sinceBoot \in [Convs -> Seq(Nat)]

-----------------------------------------------------------------------------
(* ChatManager.__init__: an empty service. *)

Init ==
    /\ activeConnections = [c \in Convs |-> {}]
    /\ arrival = [ws \in Sockets |-> 0]
    /\ joined = 0
    /\ userConnections = [u \in Users |-> {}]
    /\ messageHistory = [c \in Convs |-> <<>>]
    /\ escalations = <<>>
    /\ conversationStatuses = [c \in Convs |-> "open"]
    /\ conversationAssignments = [c \in Convs |-> None]
    /\ conversationEscalatedAt = [c \in Convs |-> 0]
    /\ handler = [ws \in Sockets |-> "new"]
    /\ client = [ws \in Sockets |-> "up"]
    /\ delivery = [t \in Tasks |-> Idle]
    /\ chatMessages = [c \in Convs |-> <<>>]
    /\ chatEscalations = {}
    /\ lastMessage = 0
    /\ lastEscalation = 0
    /\ restarts = 0
    /\ bootRows = [c \in Convs |-> <<>>]
    /\ sinceBoot = [c \in Convs |-> <<>>]

-----------------------------------------------------------------------------
(* The registry of sockets.  A conversation's list only grows at its end     *)
(* (list.append) and only shrinks by list.remove, so it is the set of its    *)
(* members ordered by arrival, and list[k-1] is the member of rank k.        *)

Rank(c, ws) ==
    Cardinality({x \in activeConnections[c] : arrival[x] <= arrival[ws]})

\* The member a list iterator at index k-1 returns: one socket, or none when
\* the list is shorter than that.
ListItem(c, k) == {ws \in activeConnections[c] : Rank(c, ws) = k}

\* A bug: the new socket goes to the front of the list (list.insert(0, ws)).
ArrivalAtFront == Cardinality(Sockets) - joined

ArrivalAtEnd == joined + 1

\* A bug: disconnect leaves the socket in the list.
RegistryKeepingSocket(ws) == activeConnections

RegistryWithout(ws) ==
    [activeConnections EXCEPT ![ConvOf[ws]] = @ \ {ws}]

\* A bug: disconnect leaves the conversation in user_connections.
ParticipationKept(ws) == userConnections

ParticipationWithout(ws) ==
    [userConnections EXCEPT ![UserOf[ws]] = @ \ {ConvOf[ws]}]

\* A client opens /ws/chat/{conversation_id}/{user_id}: accept() returns and
\* the socket is registered.
Connect(ws) ==
    /\ handler[ws] = "new"
    /\ handler' = [handler EXCEPT ![ws] = "open"]
    /\ activeConnections' =
           [activeConnections EXCEPT ![ConvOf[ws]] = @ \cup {ws}]
    /\ arrival' = [arrival EXCEPT ![ws] = ArrivalAtEnd]
    /\ joined' = joined + 1
    /\ userConnections' =
           [userConnections EXCEPT ![UserOf[ws]] = @ \cup {ConvOf[ws]}]
    /\ UNCHANGED <<client, delivery, historyVars, escalationVars, bootVars>>

\* The other end closes, crashes or loses its network.
ClientLeaves(ws) ==
    /\ handler[ws] = "open"
    /\ client[ws] = "up"
    /\ client' = [client EXCEPT ![ws] = "gone"]
    /\ UNCHANGED <<handler, registryVars, delivery, historyVars,
                   escalationVars, bootVars>>

\* receive_text() raises and the handler's finally clause runs disconnect.
\* Deleting an emptied list detaches the iterators that still walk it: a
\* later connect makes a new list.
Disconnect(ws) ==
    LET c == ConvOf[ws]
        deleted == activeConnections[c] = {ws}
    IN  /\ handler[ws] = "open"
        /\ client[ws] = "gone"
        /\ ~delivery[ws].busy
        /\ handler' = [handler EXCEPT ![ws] = "closed"]
        /\ activeConnections' = RegistryWithout(ws)
        /\ userConnections' = ParticipationWithout(ws)
        /\ delivery' =
               [t \in Tasks |->
                   IF deleted /\ delivery[t].conv = c
                   THEN [delivery[t] EXCEPT !.attached = FALSE]
                   ELSE delivery[t]]
        /\ UNCHANGED <<client, arrival, joined, historyVars,
                       escalationVars, bootVars>>

-----------------------------------------------------------------------------
(* The delivery loop that send_message, broadcast_event,                     *)
(* escalate_conversation and assign_conversation share.                      *)

\* The first iteration, up to its await; an empty or missing list ends the
\* loop at once.
BeginDelivery(t, c) ==
    \/ /\ ListItem(c, 1) = {}
       /\ UNCHANGED delivery
    \/ \E ws \in ListItem(c, 1) :
          delivery' = [delivery EXCEPT ![t] =
              [busy |-> TRUE, conv |-> c, pos |-> 1, target |-> ws,
               attached |-> TRUE, failed |-> {}, attempted |-> {ws},
               owed |-> activeConnections[c]]]

\* A bug: the loop's index skips an element each time.
NextIndexSkipping(d) == d.pos + 2

\* A bug: the loop's index stays where it is.
NextIndexStuck(d) == d.pos

NextIndex(d) == d.pos + 1

\* The socket the iterator yields next.
NextItem(d) == IF d.attached THEN ListItem(d.conv, NextIndex(d)) ELSE {}

FailedAfter(d, ok) == IF ok THEN d.failed ELSE d.failed \cup {d.target}

\* send_text() to the current target returns and the loop goes on.
SendAndContinue(t, ok) ==
    LET d == delivery[t]
    IN  /\ d.busy
        /\ ok \/ client[d.target] = "gone"
        /\ \E ws \in NextItem(d) :
              delivery' = [delivery EXCEPT ![t] =
                  [d EXCEPT !.pos = NextIndex(d), !.target = ws,
                            !.failed = FailedAfter(d, ok),
                            !.attempted = @ \cup {ws}]]
        /\ UNCHANGED <<registryVars, taskVars, historyVars, escalationVars,
                       bootVars>>

\* send_text() to the last target returns; the sockets that failed are
\* removed from the list, under the lock.
SendAndFinish(t, ok) ==
    LET d == delivery[t]
    IN  /\ d.busy
        /\ ok \/ client[d.target] = "gone"
        /\ NextItem(d) = {}
        /\ activeConnections' =
               [activeConnections EXCEPT ![d.conv] = @ \ FailedAfter(d, ok)]
        /\ delivery' = [delivery EXCEPT ![t] = Idle]
        /\ UNCHANGED <<arrival, joined, userConnections, taskVars,
                       historyVars, escalationVars, bootVars>>

-----------------------------------------------------------------------------
(* Operations.  Each is given the task that runs it.                         *)

\* What a save leaves in a table: best effort, a failure is only logged.
Saved(rows, id, ok) == IF ok THEN Append(rows, id) ELSE rows

\* ChatManager.send_message: record, save, deliver.
SendMessage(t, c, saveOk) ==
    /\ lastMessage < MaxMessages
    /\ lastMessage' = lastMessage + 1
    /\ messageHistory' = [messageHistory EXCEPT ![c] = Append(@, lastMessage')]
    /\ sinceBoot' = [sinceBoot EXCEPT ![c] = Append(@, lastMessage')]
    /\ chatMessages' = [chatMessages EXCEPT ![c] = Saved(@, lastMessage', saveOk)]
    /\ BeginDelivery(t, c)
    /\ UNCHANGED <<registryVars, taskVars, escalationVars, bootVars>>

\* ChatManager.broadcast_event: a typing or read-receipt event, not recorded.
BroadcastEvent(t, c) ==
    /\ BeginDelivery(t, c)
    /\ UNCHANGED <<registryVars, taskVars, historyVars, escalationVars,
                   bootVars>>

NoAssignee(c) == None

\* A bug: only the first escalation of a conversation sets its queue time.
FirstEscalationTime(c, now) ==
    IF conversationEscalatedAt[c] = 0 THEN now ELSE conversationEscalatedAt[c]

EscalationTime(c, now) == now

\* ChatStore.save_escalation: best effort; a row of the same id is left alone.
SavedEscalation(rows, esc, ok) == IF ok THEN rows \cup {esc} ELSE rows

\* ChatManager.escalate_conversation.  The counter stands for the microsecond
\* timestamp that orders escalations and is their row's key.
Escalate(t, c, reason, saveOk) ==
    LET esc == [conv |-> c, reason |-> reason, at |-> lastEscalation + 1]
    IN  /\ lastEscalation < MaxEscalations
        /\ lastEscalation' = esc.at
        /\ escalations' = Append(escalations, esc)
        /\ conversationStatuses' =
               [conversationStatuses EXCEPT ![c] = "escalated"]
        /\ conversationAssignments' =
               [conversationAssignments EXCEPT ![c] = NoAssignee(c)]
        /\ conversationEscalatedAt' =
               [conversationEscalatedAt EXCEPT ![c] = EscalationTime(c, esc.at)]
        /\ chatEscalations' =
               SavedEscalation(chatEscalations, esc, saveOk)
        /\ BeginDelivery(t, c)
        /\ UNCHANGED <<registryVars, taskVars, historyVars, bootVars>>

\* The status check of POST /chat/{conversation_id}/assign.
MayAssign(c) == conversationStatuses[c] \in {"escalated", "assigned"}

\* A bug: the arguments of assign_conversation in the wrong order.
AssigneeSwapped(c, a) == c

Assignee(c, a) == a

\* ChatManager.assign_conversation, behind the endpoint's check.
Assign(t, c, a) ==
    /\ MayAssign(c)
    /\ conversationStatuses' = [conversationStatuses EXCEPT ![c] = "assigned"]
    /\ conversationAssignments' =
           [conversationAssignments EXCEPT ![c] = Assignee(c, a)]
    /\ BeginDelivery(t, c)
    /\ UNCHANGED <<registryVars, taskVars, historyVars, escalations,
                   conversationEscalatedAt, chatEscalations, lastEscalation,
                   bootVars>>

\* Escalation i is the last one of its conversation.
IsLatest(i) ==
    /\ i \in DOMAIN escalations
    /\ \A j \in DOMAIN escalations :
          j > i => escalations[j].conv # escalations[i].conv

\* The first reason found from the end of the list; "" if there is none.
LatestReason(c) ==
    LET Found(i) == IsLatest(i) /\ escalations[i].conv = c
    IN  IF \E i \in DOMAIN escalations : Found(i)
        THEN escalations[CHOOSE i \in DOMAIN escalations : Found(i)].reason
        ELSE None

InQueue(c) ==
    conversationStatuses[c] = "escalated" /\ conversationAssignments[c] = None

\* ChatManager.get_unassigned_queue, which GET /chat/queue answers; the order
\* by escalated_at is in the entries.
UnassignedQueue ==
    {[conv |-> c, reason |-> LatestReason(c), at |-> conversationEscalatedAt[c]] :
        c \in {x \in Convs : InQueue(x)}}

-----------------------------------------------------------------------------
(* Message history.                                                          *)

\* The newest n elements of a sequence, oldest first: messages[-n:], and the
\* rows of ChatStore.get_messages with LIMIT n.
Newest(s, n) == IF Len(s) > n THEN SubSeq(s, Len(s) - n + 1, Len(s)) ELSE s

\* A bug: the cache is reloaded whenever it holds fewer than limit messages.
ShorterThanLimit(c, limit) == Len(messageHistory[c]) < limit

CacheEmpty(c, limit) == messageHistory[c] = <<>>

\* A bug: the rows come back newest first.
RowsNewestFirst(c, limit) ==
    LET rows == Newest(chatMessages[c], limit)
    IN  [i \in 1..Len(rows) |-> rows[Len(rows) + 1 - i]]

\* ChatStore.get_messages.
Rows(c, limit) == Newest(chatMessages[c], limit)

\* ChatManager.get_message_history when it changes something: the in-memory
\* list is empty and the database has rows, which become the list.
LoadHistory(c, limit) ==
    /\ CacheEmpty(c, limit)
    /\ Rows(c, limit) # <<>>
    /\ messageHistory' = [messageHistory EXCEPT ![c] = Rows(c, limit)]
    /\ UNCHANGED <<registryVars, taskVars, delivery, escalationVars,
                   bootVars, chatMessages, lastMessage, sinceBoot>>

-----------------------------------------------------------------------------
(* The process dies and a new one starts: only the tables survive.  A        *)
(* socket then stands for a connection the client makes anew.                *)

Restart ==
    /\ restarts < MaxRestarts
    /\ restarts' = restarts + 1
    /\ bootRows' = chatMessages
    /\ sinceBoot' = [c \in Convs |-> <<>>]
    /\ activeConnections' = [c \in Convs |-> {}]
    /\ arrival' = [ws \in Sockets |-> 0]
    /\ joined' = 0
    /\ userConnections' = [u \in Users |-> {}]
    /\ messageHistory' = [c \in Convs |-> <<>>]
    /\ escalations' = <<>>
    /\ conversationStatuses' = [c \in Convs |-> "open"]
    /\ conversationAssignments' = [c \in Convs |-> None]
    /\ conversationEscalatedAt' = [c \in Convs |-> 0]
    /\ handler' = [ws \in Sockets |-> "new"]
    /\ client' = [ws \in Sockets |-> "up"]
    /\ delivery' = [t \in Tasks |-> Idle]
    /\ UNCHANGED <<chatMessages, chatEscalations, lastMessage, lastEscalation>>

-----------------------------------------------------------------------------
(* A handler takes its next text only when it is back in receive_text(), and *)
(* an HTTP request runs one operation to its end.                            *)

IdleTask(t) ==
    /\ ~delivery[t].busy
    /\ Cardinality({x \in Tasks : delivery[x].busy}) < MaxLoops

SocketMayReceive(ws) ==
    /\ handler[ws] = "open"
    /\ client[ws] = "up"
    /\ IdleTask(ws)

SocketSends(ws) ==
    /\ SocketMayReceive(ws)
    /\ \/ \E ok \in BOOLEAN : SendMessage(ws, ConvOf[ws], ok)
       \/ BroadcastEvent(ws, ConvOf[ws])

RequestSends(r) ==
    /\ IdleTask(r)
    /\ \E c \in Convs :
          \/ \E ok \in BOOLEAN : SendMessage(r, c, ok)
          \/ BroadcastEvent(r, c)

RequestEscalates(r) ==
    /\ IdleTask(r)
    /\ \E c \in Convs, reason \in Reasons, ok \in BOOLEAN :
          Escalate(r, c, reason, ok)

RequestAssigns(r) ==
    /\ IdleTask(r)
    /\ \E c \in Convs, a \in Agents : Assign(r, c, a)

ReadHistory == \E c \in Convs, limit \in Limits : LoadHistory(c, limit)

DeliveryStep(t) ==
    \E ok \in BOOLEAN : SendAndContinue(t, ok) \/ SendAndFinish(t, ok)

Next ==
    \/ \E ws \in Sockets : Connect(ws)
    \/ \E ws \in Sockets : ClientLeaves(ws)
    \/ \E ws \in Sockets : Disconnect(ws)
    \/ \E ws \in Sockets : SocketSends(ws)
    \/ \E r \in Requests : RequestSends(r)
    \/ \E r \in Requests : RequestEscalates(r)
    \/ \E r \in Requests : RequestAssigns(r)
    \/ \E t \in Tasks : DeliveryStep(t)
    \/ ReadHistory
    \/ Restart

(***************************************************************************)
(* The event loop runs every ready task, a send to a socket ends (the      *)
(* server's keep-alive pings break a connection that stalls), and a        *)
(* handler waiting in receive_text() is told that its client left.         *)
(* Nothing is assumed of clients, of HTTP requests or of restarts.         *)
(***************************************************************************)
Fairness ==
    /\ \A t \in Tasks : WF_vars(DeliveryStep(t))
    /\ \A ws \in Sockets : WF_vars(Disconnect(ws))

Spec == Init /\ [][Next]_vars /\ Fairness

-----------------------------------------------------------------------------
(* Properties: connections and deliveries.                                   *)

\* Every socket in a conversation's list belongs to that conversation and has
\* a handler that is still running: disconnects, failed sends and their
\* interleavings leave no dead handler registered (active_connections).
RegisteredHandlersRun ==
    \A c \in Convs : \A ws \in activeConnections[c] :
        ConvOf[ws] = c /\ handler[ws] = "open"

\* A user is listed in a conversation (user_connections) only while a handler
\* of that user in that conversation runs: nobody stays listed after leaving.
ListedUsersHaveHandlers ==
    \A u \in Users : \A c \in userConnections[u] :
        \E ws \in Sockets :
            UserOf[ws] = u /\ ConvOf[ws] = c /\ handler[ws] = "open"

\* The two registries, changed by connects, disconnects and the sweeps of
\* overlapping deliveries, name nobody whose handler is over.
RegistriesNameRunningHandlers ==
    RegisteredHandlersRun /\ ListedUsersHaveHandlers

\* A delivery loop sends to no socket twice, whatever connects, disconnects
\* and sweeps change the list it walks while it awaits: as many distinct
\* sockets have been sent to as elements were taken from the list.
AtMostOncePerDelivery ==
    \A t \in Tasks : delivery[t].busy =>
        Cardinality(delivery[t].attempted) = delivery[t].pos

\* The sockets a loop has passed over: registered since before it began, not
\* sent to, and no longer ahead of its iterator.
Skipped(t) ==
    LET d == delivery[t]
    IN  {ws \in (d.owed \cap activeConnections[d.conv]) \ d.attempted :
            ~d.attached \/ Rank(d.conv, ws) <= d.pos}

\* A loop passes over no more participants than it has lost of those it had
\* already sent to: a skip needs a departure behind the iterator.
SkipsNeedDepartures ==
    \A t \in Tasks : delivery[t].busy =>
        Cardinality(Skipped(t)) <=
            Cardinality(delivery[t].attempted
                            \ activeConnections[delivery[t].conv])

\* What send_message's comment says, "Send a message to all participants in a
\* conversation": no participant connected all along is passed over.
NoParticipantSkipped ==
    \A t \in Tasks : delivery[t].busy => Skipped(t) = {}

\* A socket whose client has left is in the end out of its conversation's
\* list, by its handler's disconnect or by the sweep of a failed send, though
\* the handler may first have to finish a delivery of its own.
DeadSocketsUnregistered ==
    \A ws \in Sockets :
        (client[ws] = "gone") ~> (ws \notin activeConnections[ConvOf[ws]])

\* Every delivery loop ends, also when sockets connect while it runs and the
\* list it walks keeps changing.
DeliveriesEnd == \A t \in Tasks : delivery[t].busy ~> ~delivery[t].busy

-----------------------------------------------------------------------------
(* Properties: history and escalations.                                      *)

\* The in-memory history is always the newest rows the process found in the
\* database, as many as one read loaded, followed by every message accepted
\* since, in order: a load never hides, repeats or reorders a message of this
\* process, whether or not its save succeeded.
HistoryIsTail ==
    \A c \in Convs :
        \E k \in 0..Len(messageHistory[c]) :
            messageHistory[c] = Newest(bootRows[c], k) \o sinceBoot[c]

\* What a reader of a conversation may rely on.
Log == INSTANCE ConversationLog

\* The histories are logs: whatever saves, reads, deliveries and restarts come in
\* between, messages are only ever added at their end, and the database is
\* asked only for a history of which nothing is in memory.
HistoriesAreLogs == Log!Spec

\* A conversation is open exactly when this process has no escalation of it:
\* only escalated conversations are ever assigned.
OpenMeansNeverEscalated ==
    \A c \in Convs :
        conversationStatuses[c] = "open" <=>
            \A i \in DOMAIN escalations : escalations[i].conv # c

\* The status and the assignee agree whatever order escalations and
\* assignments come in: a re-escalated conversation is back in the queue.
AssignedIffAgent ==
    \A c \in Convs :
        conversationStatuses[c] = "assigned" <=>
            conversationAssignments[c] # None

\* The time a conversation is queued by is that of its latest escalation.
QueueTimeIsLatestEscalation ==
    \A i \in DOMAIN escalations :
        IsLatest(i) => conversationEscalatedAt[escalations[i].conv] = escalations[i].at

\* The support queue is the latest escalation of every conversation that has
\* nobody assigned to it: whatever order escalations and assignments come in,
\* no escalated conversation is missing, none waits under an earlier time or
\* reason, and none is there that an agent has taken (get_unassigned_queue).
QueueShowsLatestEscalations ==
    UnassignedQueue =
        {escalations[i] : i \in {k \in DOMAIN escalations :
            IsLatest(k) /\ conversationAssignments[escalations[k].conv] = None}}

=============================================================================
