------------------------- MODULE TicketScanManager -------------------------
(***************************************************************************)
(* Live ticket-scan sessions: TicketScanManager (src/manager.py) and the   *)
(* websocket and POST /scans endpoints of src/websocket.py.                *)
(*                                                                         *)
(* As in ChatManager, the lock's sections hold no await, so a task gives   *)
(* up the event loop only in accept(), receive_text(), send_json() and     *)
(* asyncio.sleep(): the refresh and the snapshot of a broadcast are one    *)
(* step, and so are the scan and the removal of a cleanup pass, although   *)
(* the code takes the lock twice for each.                                 *)
(*                                                                         *)
(* Time is counted in ticks.  The cleanup task wakes when its sleep is     *)
(* over: the event loop is not held up for a whole tick.                   *)
(***************************************************************************)
EXTENDS Integers, FiniteSets

CONSTANTS
    Sockets,    \* websockets, each the life of one websocket_ticket_scans
    Scans,      \* concurrent POST /scans requests
    Timeout,    \* session_timeout, in ticks
    Interval,   \* asyncio.sleep(60), in ticks
    MaxTime,    \* bound: ticks observed
    None        \* Python's None

ASSUME TimesAssumption ==
    /\ Timeout \in Nat
    /\ Interval \in Nat \ {0}
    /\ MaxTime \in Nat

ASSUME NamesAssumption == None \notin Sockets \cup Nat

ASSUME FiniteAssumption == IsFiniteSet(Sockets)

VARIABLES
    activeConnections,   \* the registered sockets
    connectionActivity,  \* [Sockets -> time of last activity, or None]
    cleanupTask,         \* "none" or "running"
    wakeAt,              \* when the cleanup task's sleep ends
    phase,               \* of the application: "starting", "serving", "stopped"
    handler,             \* [Sockets -> "new", "open", "closed"]
    client,              \* [Sockets -> "up", "gone"]: the other end
    broadcast,           \* [Scans -> the broadcast_scan call it is in]
    gauge,               \* WEBSOCKET_CONNECTIONS
    now,
    \* observers, which no action reads
    heard,               \* sockets whose client sent something this tick
    lastScan             \* when a scan was last posted

sessionVars == <<activeConnections, connectionActivity>>
taskVars == <<handler, client>>
appVars == <<cleanupTask, wakeAt, phase>>
observerVars == <<heard, lastScan>>

vars == <<activeConnections, connectionActivity, cleanupTask, wakeAt, phase,
          handler, client, broadcast, gauge, now, heard, lastScan>>

(***************************************************************************)
(* A running broadcast: the socket it is sending to, those of its snapshot *)
(* still to come, in whatever order list(set) gave, and to_remove.         *)
(***************************************************************************)
Broadcast == [busy : {TRUE}, target : Sockets,
              waiting : SUBSET Sockets, toRemove : SUBSET Sockets]

Idle == [busy |-> FALSE, target |-> None, waiting |-> {}, toRemove |-> {}]

TypeOK ==
    /\ activeConnections \subseteq Sockets
    /\ connectionActivity \in [Sockets -> Nat \cup {None}]
    /\ cleanupTask \in {"none", "running"}
    /\ wakeAt \in Nat
    /\ phase \in {"starting", "serving", "stopped"}
    /\ handler \in [Sockets -> {"new", "open", "closed"}]
    /\ client \in [Sockets -> {"up", "gone"}]
    /\ broadcast \in [Scans -> Broadcast \cup {Idle}]
    /\ gauge \in Nat
    /\ now \in Nat
    /\ heard \subseteq Sockets
    /\ lastScan \in Nat

Init ==
    /\ activeConnections = {}
    /\ connectionActivity = [ws \in Sockets |-> None]
    /\ cleanupTask = "none"
    /\ wakeAt = 0
    /\ phase = "starting"
    /\ handler = [ws \in Sockets |-> "new"]
    /\ client = [ws \in Sockets |-> "up"]
    /\ broadcast = [b \in Scans |-> Idle]
    /\ gauge = 0
    /\ now = 0
    /\ heard = {}
    /\ lastScan = 0

-----------------------------------------------------------------------------
(* Application start and stop. *)

\* startup_event: start_cleanup_task.
Startup ==
    /\ phase = "starting"
    /\ cleanupTask = "none"
    /\ phase' = "serving"
    /\ cleanupTask' = "running"
    /\ wakeAt' = now + Interval
    /\ UNCHANGED <<sessionVars, taskVars, broadcast, gauge, now, observerVars>>

\* shutdown_event: stop_cleanup_task.  The server has ended every handler and
\* request first.
Shutdown ==
    /\ phase = "serving"
    /\ \A ws \in Sockets : handler[ws] # "open"
    /\ \A b \in Scans : ~broadcast[b].busy
    /\ phase' = "stopped"
    /\ cleanupTask' = "none"
    /\ UNCHANGED <<sessionVars, taskVars, broadcast, gauge, now, wakeAt,
                   observerVars>>

-----------------------------------------------------------------------------
(* Sessions. *)

\* A bug: the connection is not counted, only its end is.
GaugeUncounted == gauge

GaugeCounted == gauge + 1

\* websocket_ticket_scans: connect, then count the connection.
Connect(ws) ==
    /\ phase = "serving"
    /\ handler[ws] = "new"
    /\ handler' = [handler EXCEPT ![ws] = "open"]
    /\ activeConnections' = activeConnections \cup {ws}
    /\ connectionActivity' = [connectionActivity EXCEPT ![ws] = now]
    /\ gauge' = GaugeCounted
    /\ UNCHANGED <<client, appVars, broadcast, now, observerVars>>

\* receive_text() returns a message: it is logged and ignored.
ClientTalks(ws) ==
    /\ handler[ws] = "open"
    /\ client[ws] = "up"
    /\ heard' = heard \cup {ws}
    /\ UNCHANGED <<sessionVars, taskVars, appVars, broadcast, gauge, now,
                   lastScan>>

\* The other end closes, crashes or loses its network.
ClientLeaves(ws) ==
    /\ handler[ws] = "open"
    /\ client[ws] = "up"
    /\ client' = [client EXCEPT ![ws] = "gone"]
    /\ UNCHANGED <<handler, sessionVars, appVars, broadcast, gauge, now,
                   observerVars>>

\* A bug: the activity entry outlives the session.
ForgetConnectionOnly(gone) ==
    /\ activeConnections' = activeConnections \ gone
    /\ UNCHANGED connectionActivity

\* active_connections.discard and connection_activity.pop, for each socket.
Forget(gone) ==
    /\ activeConnections' = activeConnections \ gone
    /\ connectionActivity' =
           [ws \in Sockets |->
               IF ws \in gone THEN None ELSE connectionActivity[ws]]

\* A bug: nothing is forgotten when receive_text() raises.
DisconnectNobody(ws) == {}

DisconnectedBy(ws) == {ws}

\* receive_text() raises; the finally clause disconnects.
Disconnect(ws) ==
    /\ handler[ws] = "open"
    /\ client[ws] = "gone"
    /\ handler' = [handler EXCEPT ![ws] = "closed"]
    /\ Forget(DisconnectedBy(ws))
    /\ gauge' = gauge - 1
    /\ UNCHANGED <<client, appVars, broadcast, now, observerVars>>

-----------------------------------------------------------------------------
(* Broadcasts. *)

\* _update_activity_for_all.
ActivityRefreshed ==
    [ws \in Sockets |->
        IF ws \in activeConnections THEN now ELSE connectionActivity[ws]]

\* broadcast_scan up to its first await: refresh every session, take the
\* snapshot, send to a first socket; with no session it returns.
PostScan(b) ==
    /\ phase = "serving"
    /\ ~broadcast[b].busy
    /\ connectionActivity' = ActivityRefreshed
    /\ lastScan' = now
    /\ \/ /\ activeConnections = {}
          /\ UNCHANGED broadcast
       \/ \E ws \in activeConnections :
             broadcast' = [broadcast EXCEPT ![b] =
                 [busy |-> TRUE, target |-> ws,
                  waiting |-> activeConnections \ {ws}, toRemove |-> {}]]
    /\ UNCHANGED <<activeConnections, taskVars, appVars, gauge, now, heard>>

\* A bug: the loop walks the live set, not the snapshot.
RemainingLive(b) == activeConnections

Remaining(b) == broadcast[b].waiting

ToRemoveAfter(b, ok) ==
    IF ok THEN broadcast[b].toRemove
    ELSE broadcast[b].toRemove \cup {broadcast[b].target}

SendMayEnd(b, ok) ==
    /\ broadcast[b].busy
    /\ ok \/ client[broadcast[b].target] = "gone"

\* send_json() returns or raises and the loop takes its next socket.
SendNext(b, ok) ==
    /\ SendMayEnd(b, ok)
    /\ \E ws \in Remaining(b) :
          broadcast' = [broadcast EXCEPT ![b] =
              [busy |-> TRUE, target |-> ws, waiting |-> Remaining(b) \ {ws},
               toRemove |-> ToRemoveAfter(b, ok)]]
    /\ UNCHANGED <<sessionVars, taskVars, appVars, gauge, now, observerVars>>

\* The last send ends; the sockets that failed are removed under the lock.
SendLast(b, ok) ==
    /\ SendMayEnd(b, ok)
    /\ Remaining(b) = {}
    /\ Forget(ToRemoveAfter(b, ok))
    /\ broadcast' = [broadcast EXCEPT ![b] = Idle]
    /\ UNCHANGED <<taskVars, appVars, gauge, now, observerVars>>

-----------------------------------------------------------------------------
(* The cleanup task and the clock. *)

\* A bug: a session idle for just the timeout is taken as expired.
ExpiredAtTimeout ==
    {ws \in Sockets : /\ connectionActivity[ws] # None
                      /\ now - connectionActivity[ws] >= Timeout}

Expired ==
    {ws \in Sockets : /\ connectionActivity[ws] # None
                      /\ now - connectionActivity[ws] > Timeout}

\* A bug: the task sleeps before and after each pass.
SleepTwice == now + 2 * Interval

NextWake == now + Interval

\* One pass of _cleanup_inactive_sessions and its next sleep.  Nothing in its
\* body raises an Exception (a cancellation is none), so the longer sleep of
\* its except branch is never taken.
Sweep ==
    /\ cleanupTask = "running"
    /\ now = wakeAt
    /\ Forget(Expired)
    /\ wakeAt' = NextWake
    /\ UNCHANGED <<taskVars, broadcast, gauge, now, cleanupTask, phase,
                   observerVars>>

Tick ==
    /\ phase = "serving"
    /\ now < MaxTime
    /\ now < wakeAt
    /\ now' = now + 1
    /\ heard' = {}
    /\ UNCHANGED <<sessionVars, taskVars, appVars, broadcast, gauge, lastScan>>

SendStep(b) == \E ok \in BOOLEAN : SendNext(b, ok) \/ SendLast(b, ok)

Next ==
    \/ Startup
    \/ Shutdown
    \/ \E ws \in Sockets : Connect(ws)
    \/ \E ws \in Sockets : ClientTalks(ws)
    \/ \E ws \in Sockets : ClientLeaves(ws)
    \/ \E ws \in Sockets : Disconnect(ws)
    \/ \E b \in Scans : PostScan(b)
    \/ \E b \in Scans : SendStep(b)
    \/ Sweep
    \/ Tick

(***************************************************************************)
(* The event loop runs every ready task, a send ends (keep-alive pings     *)
(* break a stalled connection), a handler learns that its client left, and *)
(* the clock and the cleanup task go on.  Nothing is assumed of clients.   *)
(***************************************************************************)
Fairness ==
    /\ \A b \in Scans : WF_vars(SendStep(b))
    /\ \A ws \in Sockets : WF_vars(Disconnect(ws))
    /\ WF_vars(Sweep)
    /\ WF_vars(Tick)

Spec == Init /\ [][Next]_vars /\ Fairness

-----------------------------------------------------------------------------
(* Properties. *)

\* active_connections and connection_activity, changed by five pieces of code,
\* always hold the same sockets: the cleanup task, which reads only the
\* second, sees every session, and no entry outlives its session.
ActivityTracksSessions ==
    \A ws \in Sockets :
        ws \in activeConnections <=> connectionActivity[ws] # None

\* Every registered session has a handler that is still running, whatever
\* disconnects, failed sends and passes of the cleanup task interleave.
RegisteredHandlersRun ==
    \A ws \in activeConnections : handler[ws] = "open"

\* The sessions that disconnects, failed sends and passes of the cleanup task
\* leave are the same in both registries, and each has its handler.
SessionsAgree == ActivityTracksSessions /\ RegisteredHandlersRun

\* No session without activity stays registered for longer than the timeout
\* and one sleep of the cleanup task.
StaleSessionsBounded ==
    cleanupTask = "running" =>
        \A ws \in activeConnections :
            connectionActivity[ws] # None =>
                now <= connectionActivity[ws] + Timeout + Interval

\* A session whose client is there is removed only when its own activity, and
\* the last scan posted to anybody, are more than the timeout ago: connects,
\* broadcasts and the two lock sections of a pass never expire a fresh one.
ExpiresOnlyIdleSessions ==
    [][\A ws \in activeConnections \ activeConnections' :
          client[ws] = "up" =>
              /\ now > connectionActivity[ws] + Timeout
              /\ now > lastScan + Timeout]_vars

\* The gauge counts the running handlers (so a session the cleanup task has
\* forgotten is still counted).
GaugeCountsHandlers ==
    gauge = Cardinality({ws \in Sockets : handler[ws] = "open"})

\* A socket whose client has left is in the end not registered, by its
\* handler, a failed send or the cleanup task.
DeadSocketsForgotten ==
    \A ws \in Sockets :
        (client[ws] = "gone") ~> (ws \notin activeConnections)

\* Every broadcast ends.
BroadcastsEnd == \A b \in Scans : broadcast[b].busy ~> ~broadcast[b].busy

=============================================================================
