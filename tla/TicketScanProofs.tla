-------------------------- MODULE TicketScanProofs --------------------------
(***************************************************************************)
(* Proofs about TicketScanManager, for any sets of sockets and scans, any  *)
(* timeout and any interval.  The invariants are proved in layers: types   *)
(* and the gauge, the registry, then the times.                            *)
(***************************************************************************)
EXTENDS TicketScanManager, FiniteSetTheorems, TLAPS

OpenHandlers == {ws \in Sockets : handler[ws] = "open"}

-----------------------------------------------------------------------------
(* Types.  That the gauge is a natural number needs that it counts the open  *)
(* handlers: Disconnect decrements it.                                       *)

TypeInv == TypeOK /\ GaugeCountsHandlers

\* Forget keeps its two variables well typed.
LEMMA ForgetType ==
    ASSUME TypeOK, NEW gone \in SUBSET Sockets, Forget(gone)
    PROVE  /\ activeConnections' \subseteq Sockets
           /\ connectionActivity' \in [Sockets -> Nat \cup {None}]
    BY DEF Forget, TypeOK

\* An action that touches no handler leaves the gauge's meaning alone.
LEMMA GaugeFrame ==
    ASSUME GaugeCountsHandlers, UNCHANGED <<handler, gauge>>
    PROVE  GaugeCountsHandlers'
    BY DEF GaugeCountsHandlers

\* What a running broadcast is about to remove are sockets.
LEMMA BusyBroadcast ==
    ASSUME TypeOK, NEW b \in Scans, NEW ok \in BOOLEAN, SendMayEnd(b, ok)
    PROVE  /\ broadcast[b] \in Broadcast
           /\ ToRemoveAfter(b, ok) \subseteq Sockets
<1>1. broadcast[b] \in Broadcast
    BY DEF SendMayEnd, TypeOK, Idle
<1> QED
    BY <1>1 DEF ToRemoveAfter, Broadcast

\* The well-formedness of every session, broadcast and counter holds at the
\* start (TicketScanManager.__init__).
LEMMA InitTypeInv == Init => TypeInv
<1>1. ASSUME Init PROVE TypeOK
    BY <1>1 DEF Init, TypeOK, Broadcast, Idle
<1>2. ASSUME Init PROVE GaugeCountsHandlers
    <2>1. OpenHandlers = {}
        BY <1>2 DEF Init, OpenHandlers
    <2>2. Cardinality({}) = 0
        BY FS_EmptySet
    <2> QED
        BY <1>2, <2>1, <2>2 DEF Init, GaugeCountsHandlers, OpenHandlers
<1> QED
    BY <1>1, <1>2 DEF TypeInv

\* Every step of the service keeps it.
LEMMA NextTypeInv == TypeInv /\ [Next]_vars => TypeInv'
<1> SUFFICES ASSUME TypeOK, GaugeCountsHandlers, [Next]_vars
             PROVE  TypeOK' /\ GaugeCountsHandlers'
    BY DEF TypeInv
<1> USE TimesAssumption
<1>0. IsFiniteSet(OpenHandlers)
    BY FiniteAssumption, FS_Subset DEF OpenHandlers
<1>1. CASE Startup
    <2>1. TypeOK'
        BY <1>1 DEF Startup, TypeOK, sessionVars, taskVars, observerVars
    <2> QED
        BY <1>1, <2>1, GaugeFrame DEF Startup, taskVars
<1>2. CASE Shutdown
    <2>1. TypeOK'
        BY <1>2 DEF Shutdown, TypeOK, sessionVars, taskVars, observerVars
    <2> QED
        BY <1>2, <2>1, GaugeFrame DEF Shutdown, taskVars
<1>3. ASSUME NEW ws \in Sockets, Connect(ws)
      PROVE  TypeOK' /\ GaugeCountsHandlers'
    <2>1. TypeOK'
        BY <1>3 DEF Connect, GaugeCounted, TypeOK, appVars, observerVars
    <2>2. OpenHandlers' = OpenHandlers \cup {ws} /\ ws \notin OpenHandlers
        BY <1>3 DEF Connect, TypeOK, OpenHandlers
    <2>3. Cardinality(OpenHandlers') = Cardinality(OpenHandlers) + 1
        BY <1>0, <2>2, FS_AddElement
    <2>4. GaugeCountsHandlers'
        BY <1>3, <2>3
        DEF Connect, GaugeCounted, GaugeCountsHandlers, OpenHandlers
    <2> QED
        BY <2>1, <2>4
<1>4. ASSUME NEW ws \in Sockets, ClientTalks(ws)
      PROVE  TypeOK' /\ GaugeCountsHandlers'
    <2>1. TypeOK'
        BY <1>4 DEF ClientTalks, TypeOK, sessionVars, taskVars, appVars
    <2> QED
        BY <1>4, <2>1, GaugeFrame DEF ClientTalks, taskVars
<1>5. ASSUME NEW ws \in Sockets, ClientLeaves(ws)
      PROVE  TypeOK' /\ GaugeCountsHandlers'
    <2>1. TypeOK'
        BY <1>5 DEF ClientLeaves, TypeOK, sessionVars, appVars, observerVars
    <2> QED
        BY <1>5, <2>1, GaugeFrame DEF ClientLeaves
<1>6. ASSUME NEW ws \in Sockets, Disconnect(ws)
      PROVE  TypeOK' /\ GaugeCountsHandlers'
    <2>1. OpenHandlers' = OpenHandlers \ {ws} /\ ws \in OpenHandlers
        BY <1>6 DEF Disconnect, TypeOK, OpenHandlers
    <2>2. /\ Cardinality(OpenHandlers') = Cardinality(OpenHandlers) - 1
          /\ IsFiniteSet(OpenHandlers')
        BY <1>0, <2>1, FS_RemoveElement
    <2>3. gauge' = Cardinality(OpenHandlers')
        BY <1>6, <2>2 DEF Disconnect, GaugeCountsHandlers, OpenHandlers
    <2>4. gauge' \in Nat
        BY <2>2, <2>3, FS_CardinalityType
    <2>5. /\ activeConnections' \subseteq Sockets
          /\ connectionActivity' \in [Sockets -> Nat \cup {None}]
        BY <1>6, ForgetType DEF Disconnect, DisconnectedBy
    <2>6. TypeOK'
        BY <1>6, <2>4, <2>5 DEF Disconnect, TypeOK, appVars, observerVars
    <2> QED
        BY <2>3, <2>6 DEF GaugeCountsHandlers, OpenHandlers
<1>7. ASSUME NEW b \in Scans, PostScan(b)
      PROVE  TypeOK' /\ GaugeCountsHandlers'
    <2>1. connectionActivity' \in [Sockets -> Nat \cup {None}]
        BY <1>7 DEF PostScan, ActivityRefreshed, TypeOK
    <2>2. broadcast' \in [Scans -> Broadcast \cup {Idle}]
        <3>1. CASE UNCHANGED broadcast
            BY <3>1 DEF TypeOK
        <3>2. ASSUME NEW ws \in activeConnections,
                     broadcast' = [broadcast EXCEPT ![b] =
                         [busy |-> TRUE, target |-> ws,
                          waiting |-> activeConnections \ {ws},
                          toRemove |-> {}]]
              PROVE  broadcast' \in [Scans -> Broadcast \cup {Idle}]
            <4>1. [busy |-> TRUE, target |-> ws,
                   waiting |-> activeConnections \ {ws},
                   toRemove |-> {}] \in Broadcast
                BY DEF TypeOK, Broadcast
            <4> QED
                BY <3>2, <4>1 DEF TypeOK
        <3> QED
            BY <1>7, <3>1, <3>2 DEF PostScan
    <2>3. TypeOK'
        BY <1>7, <2>1, <2>2 DEF PostScan, TypeOK, taskVars, appVars
    <2> QED
        BY <1>7, <2>3, GaugeFrame DEF PostScan, taskVars
<1>8. ASSUME NEW b \in Scans, NEW ok \in BOOLEAN, SendNext(b, ok)
      PROVE  TypeOK' /\ GaugeCountsHandlers'
    <2>1. broadcast[b] \in Broadcast
        BY <1>8, BusyBroadcast DEF SendNext
    <2>2. ToRemoveAfter(b, ok) \subseteq Sockets
        BY <1>8, BusyBroadcast DEF SendNext
    <2>3. broadcast' \in [Scans -> Broadcast \cup {Idle}]
        <3>1. PICK ws \in Remaining(b) :
                  broadcast' = [broadcast EXCEPT ![b] =
                      [busy |-> TRUE, target |-> ws,
                       waiting |-> Remaining(b) \ {ws},
                       toRemove |-> ToRemoveAfter(b, ok)]]
            BY <1>8 DEF SendNext
        <3>2. Remaining(b) \subseteq Sockets
            BY <2>1 DEF Remaining, Broadcast
        <3>3. [busy |-> TRUE, target |-> ws, waiting |-> Remaining(b) \ {ws},
               toRemove |-> ToRemoveAfter(b, ok)] \in Broadcast
            BY <2>2, <3>2 DEF Broadcast
        <3> QED
            BY <3>1, <3>3 DEF TypeOK
    <2>4. TypeOK'
        BY <1>8, <2>3
        DEF SendNext, TypeOK, sessionVars, taskVars, appVars, observerVars
    <2> QED
        BY <1>8, <2>4, GaugeFrame DEF SendNext, taskVars
<1>9. ASSUME NEW b \in Scans, NEW ok \in BOOLEAN, SendLast(b, ok)
      PROVE  TypeOK' /\ GaugeCountsHandlers'
    <2>1. broadcast[b] \in Broadcast
        BY <1>9, BusyBroadcast DEF SendLast
    <2>2. ToRemoveAfter(b, ok) \subseteq Sockets
        BY <1>9, BusyBroadcast DEF SendLast
    <2>3. /\ activeConnections' \subseteq Sockets
          /\ connectionActivity' \in [Sockets -> Nat \cup {None}]
        BY <1>9, <2>2, ForgetType DEF SendLast
    <2>4. TypeOK'
        BY <1>9, <2>3 DEF SendLast, TypeOK, taskVars, appVars, observerVars
    <2> QED
        BY <1>9, <2>4, GaugeFrame DEF SendLast, taskVars
<1>10. CASE Sweep
    <2>1. /\ activeConnections' \subseteq Sockets
          /\ connectionActivity' \in [Sockets -> Nat \cup {None}]
        BY <1>10, ForgetType DEF Sweep, Expired
    <2>2. TypeOK'
        BY <1>10, <2>1 DEF Sweep, NextWake, TypeOK, taskVars, observerVars
    <2> QED
        BY <1>10, <2>2, GaugeFrame DEF Sweep, taskVars
<1>11. CASE Tick
    <2>1. TypeOK'
        BY <1>11 DEF Tick, TypeOK, sessionVars, taskVars, appVars
    <2> QED
        BY <1>11, <2>1, GaugeFrame DEF Tick, taskVars
<1>12. CASE UNCHANGED vars
    <2>1. TypeOK'
        BY <1>12 DEF vars, TypeOK
    <2> QED
        BY <1>12, <2>1, GaugeFrame DEF vars
<1> QED
    BY <1>1, <1>2, <1>3, <1>4, <1>5, <1>6, <1>7, <1>8, <1>9, <1>10, <1>11,
       <1>12 DEF Next, SendStep

\* Every reachable state of the scan service is well typed: the gauge of open
\* connections never goes below zero, a running broadcast always has a socket
\* it is sending to, and session times are times.
THEOREM ScanTypes == Spec => []TypeOK
<1>1. TypeInv => TypeOK
    BY DEF TypeInv
<1> QED
    BY InitTypeInv, NextTypeInv, <1>1, PTL DEF Spec

-----------------------------------------------------------------------------
(* The registry.  Both facts are inductive given the types; the second also  *)
(* needs that None is no time, so that an entry shows that it is there.      *)

\* Dropping sockets from both structures keeps them in step.
LEMMA ForgetTracks ==
    ASSUME TypeOK, ActivityTracksSessions, NEW gone \in SUBSET Sockets,
           Forget(gone)
    PROVE  ActivityTracksSessions'
    BY DEF Forget, TypeOK, ActivityTracksSessions

\* No session is registered at the start.
LEMMA InitSessionsAgree == Init => SessionsAgree
    BY DEF Init, SessionsAgree, ActivityTracksSessions, RegisteredHandlersRun

\* Every step keeps the set and the dict in step, over running handlers.
LEMMA NextSessionsAgree ==
    TypeOK /\ SessionsAgree /\ [Next]_vars => SessionsAgree'
<1> SUFFICES ASSUME TypeOK, ActivityTracksSessions, RegisteredHandlersRun,
                    [Next]_vars
             PROVE  ActivityTracksSessions' /\ RegisteredHandlersRun'
    BY DEF SessionsAgree
<1>1. ASSUME UNCHANGED <<sessionVars, handler>>
      PROVE  ActivityTracksSessions' /\ RegisteredHandlersRun'
    BY <1>1 DEF sessionVars, ActivityTracksSessions, RegisteredHandlersRun
<1>2. ASSUME NEW ws \in Sockets, Connect(ws)
      PROVE  ActivityTracksSessions' /\ RegisteredHandlersRun'
    <2>1. ActivityTracksSessions'
        BY <1>2, NamesAssumption
        DEF Connect, TypeOK, ActivityTracksSessions
    <2>2. RegisteredHandlersRun'
        BY <1>2 DEF Connect, TypeOK, RegisteredHandlersRun
    <2> QED
        BY <2>1, <2>2
<1>3. ASSUME NEW ws \in Sockets, Disconnect(ws)
      PROVE  ActivityTracksSessions' /\ RegisteredHandlersRun'
    <2>1. ActivityTracksSessions'
        BY <1>3, ForgetTracks DEF Disconnect, DisconnectedBy
    <2>2. RegisteredHandlersRun'
        BY <1>3
        DEF Disconnect, DisconnectedBy, Forget, TypeOK, RegisteredHandlersRun
    <2> QED
        BY <2>1, <2>2
<1>4. ASSUME NEW b \in Scans, PostScan(b)
      PROVE  ActivityTracksSessions' /\ RegisteredHandlersRun'
    <2>1. ActivityTracksSessions'
        BY <1>4, NamesAssumption
        DEF PostScan, ActivityRefreshed, TypeOK, ActivityTracksSessions
    <2>2. RegisteredHandlersRun'
        BY <1>4 DEF PostScan, taskVars, RegisteredHandlersRun
    <2> QED
        BY <2>1, <2>2
<1>5. ASSUME NEW b \in Scans, NEW ok \in BOOLEAN, SendLast(b, ok)
      PROVE  ActivityTracksSessions' /\ RegisteredHandlersRun'
    <2>1. ToRemoveAfter(b, ok) \subseteq Sockets
        BY <1>5, BusyBroadcast DEF SendLast
    <2>2. ActivityTracksSessions'
        BY <1>5, <2>1, ForgetTracks DEF SendLast
    <2>3. RegisteredHandlersRun'
        BY <1>5 DEF SendLast, Forget, taskVars, RegisteredHandlersRun
    <2> QED
        BY <2>2, <2>3
<1>6. CASE Sweep
    <2>1. ActivityTracksSessions'
        BY <1>6, ForgetTracks DEF Sweep, Expired
    <2>2. RegisteredHandlersRun'
        BY <1>6 DEF Sweep, Forget, taskVars, RegisteredHandlersRun
    <2> QED
        BY <2>1, <2>2
<1>7. ASSUME NEW b \in Scans, NEW ok \in BOOLEAN, SendNext(b, ok)
      PROVE  UNCHANGED <<sessionVars, handler>>
    BY <1>7 DEF SendNext, taskVars
<1>8. CASE \/ Startup
           \/ Shutdown
           \/ \E ws \in Sockets : ClientTalks(ws) \/ ClientLeaves(ws)
           \/ Tick
           \/ UNCHANGED vars
    <2>1. UNCHANGED <<sessionVars, handler>>
        BY <1>8 DEF Startup, Shutdown, ClientTalks, ClientLeaves, Tick, vars,
                    sessionVars, taskVars
    <2> QED
        BY <1>1, <2>1
<1> QED
    BY <1>1, <1>2, <1>3, <1>4, <1>5, <1>6, <1>7, <1>8 DEF Next, SendStep

\* The set and the dict always hold the same sockets, and each of them has a
\* handler that is still running, whatever disconnects, failed broadcasts and
\* passes of the cleanup task interleave.
THEOREM ScanSessions == Spec => []SessionsAgree
    BY InitSessionsAgree, NextSessionsAgree, ScanTypes, PTL DEF Spec

-----------------------------------------------------------------------------
(* Times.  A pass leaves only sessions that were active less than the        *)
(* timeout ago, and the next pass is at most one interval away: so wakeAt,   *)
(* and with it now, stays within Timeout + Interval of every activity.       *)

SessionTimes(ws) ==
    /\ lastScan <= connectionActivity[ws]
    /\ connectionActivity[ws] <= now
    /\ cleanupTask = "running" =>
           wakeAt <= connectionActivity[ws] + Timeout + Interval

TimeInv ==
    /\ phase = "starting" => activeConnections = {}
    /\ lastScan <= now
    /\ cleanupTask = "running" => now <= wakeAt /\ wakeAt <= now + Interval
    /\ \A ws \in activeConnections : SessionTimes(ws)

\* The registered sockets have a time to compare with.
LEMMA ActivityIsTime ==
    ASSUME TypeOK, ActivityTracksSessions, NEW ws \in activeConnections
    PROVE  ws \in Sockets /\ connectionActivity[ws] \in Nat
    BY DEF TypeOK, ActivityTracksSessions

\* Dropping sockets changes no other session's times.
LEMMA ForgetTimes ==
    ASSUME TypeOK, NEW gone \in SUBSET Sockets, Forget(gone)
    PROVE  /\ activeConnections' \subseteq activeConnections
           /\ \A ws \in activeConnections' :
                  ws \notin gone /\ connectionActivity'[ws] = connectionActivity[ws]
    BY DEF Forget, TypeOK

\* The times of no sessions are in order.
LEMMA InitTimeInv == Init => TimeInv
    BY DEF Init, TimeInv

\* Every step keeps the times in order.
LEMMA NextTimeInv ==
    TypeOK /\ SessionsAgree /\ TimeInv /\ [Next]_vars => TimeInv'
<1> SUFFICES ASSUME TypeOK, ActivityTracksSessions, TimeInv, [Next]_vars
             PROVE  TimeInv'
    BY DEF SessionsAgree
<1> USE TimesAssumption
<1>a. /\ now \in Nat
      /\ wakeAt \in Nat
      /\ lastScan \in Nat
      /\ \A ws \in activeConnections :
             ws \in Sockets /\ connectionActivity[ws] \in Nat
    BY ActivityIsTime DEF TypeOK
<1>b. ASSUME activeConnections' \subseteq activeConnections,
             \A ws \in activeConnections' :
                 connectionActivity'[ws] = connectionActivity[ws],
             UNCHANGED <<phase, cleanupTask, wakeAt, now, lastScan>>
      PROVE  TimeInv'
    BY <1>b DEF TimeInv, SessionTimes
<1>1. CASE Startup
    BY <1>1, <1>a
    DEF Startup, TimeInv, SessionTimes, sessionVars, observerVars
<1>2. CASE Shutdown
    BY <1>2, <1>a
    DEF Shutdown, TimeInv, SessionTimes, sessionVars, observerVars
<1>3. ASSUME NEW ws \in Sockets, Connect(ws)
      PROVE  TimeInv'
    <2>1. \A x \in activeConnections' :
              \/ x = ws /\ connectionActivity'[x] = now
              \/ /\ x \in activeConnections
                 /\ connectionActivity'[x] = connectionActivity[x]
        BY <1>3 DEF Connect, TypeOK
    <2>2. \A x \in activeConnections' : SessionTimes(x)'
        BY <1>3, <1>a, <2>1
        DEF Connect, TimeInv, SessionTimes, appVars, observerVars
    <2> QED
        BY <1>3, <2>2 DEF Connect, TimeInv, appVars, observerVars
<1>4. ASSUME NEW ws \in Sockets, Disconnect(ws)
      PROVE  TimeInv'
    <2>1. Forget({ws})
        BY <1>4 DEF Disconnect, DisconnectedBy
    <2> QED
        BY <1>4, <1>b, <2>1, ForgetTimes
        DEF Disconnect, appVars, observerVars
<1>5. ASSUME NEW b \in Scans, PostScan(b)
      PROVE  TimeInv'
    <2>1. \A x \in activeConnections : connectionActivity'[x] = now
        BY <1>5, <1>a DEF PostScan, ActivityRefreshed
    <2>2. \A x \in activeConnections' : SessionTimes(x)'
        BY <1>5, <1>a, <2>1 DEF PostScan, TimeInv, SessionTimes, appVars
    <2> QED
        BY <1>5, <1>a, <2>2 DEF PostScan, TimeInv, appVars
<1>6. ASSUME NEW b \in Scans, NEW ok \in BOOLEAN, SendLast(b, ok)
      PROVE  TimeInv'
    <2>1. ToRemoveAfter(b, ok) \subseteq Sockets
        BY <1>6, BusyBroadcast DEF SendLast
    <2> QED
        BY <1>6, <1>b, <2>1, ForgetTimes DEF SendLast, appVars, observerVars
<1>7. CASE Sweep
    <2>1. Expired \subseteq Sockets
        BY DEF Expired
    <2>2. \A x \in activeConnections' :
              /\ x \in activeConnections
              /\ x \notin Expired
              /\ connectionActivity'[x] = connectionActivity[x]
        BY <1>7, <2>1, ForgetTimes DEF Sweep
    <2>3. \A x \in activeConnections' :
              now <= connectionActivity[x] + Timeout
        BY <1>a, <2>2, NamesAssumption DEF Expired
    <2>4. \A x \in activeConnections' : SessionTimes(x)'
        BY <1>7, <1>a, <2>2, <2>3
        DEF Sweep, NextWake, TimeInv, SessionTimes, observerVars
    <2> QED
        BY <1>7, <1>a, <2>2, <2>4 DEF Sweep, NextWake, TimeInv, observerVars
<1>8. CASE Tick
    <2>1. \A x \in activeConnections : SessionTimes(x)'
        BY <1>8, <1>a
        DEF Tick, TimeInv, SessionTimes, sessionVars, appVars
    <2> QED
        BY <1>8, <1>a, <2>1 DEF Tick, TimeInv, sessionVars, appVars
<1>9. CASE \/ \E ws \in Sockets : ClientTalks(ws) \/ ClientLeaves(ws)
           \/ \E b \in Scans, ok \in BOOLEAN : SendNext(b, ok)
           \/ UNCHANGED vars
    <2>1. UNCHANGED <<sessionVars, appVars, now, lastScan>>
        BY <1>9 DEF ClientTalks, ClientLeaves, SendNext, vars, sessionVars,
                    appVars, observerVars
    <2> QED
        BY <1>b, <2>1 DEF sessionVars, appVars
<1> QED
    BY <1>1, <1>2, <1>3, <1>4, <1>5, <1>6, <1>7, <1>8, <1>9 DEF Next, SendStep

\* No session without activity stays registered for longer than the timeout
\* and one sleep of the cleanup task, for any timeout and any sleep.
THEOREM ScanStaleness == Spec => []StaleSessionsBounded
<1>1. TypeOK /\ SessionsAgree /\ TimeInv => StaleSessionsBounded
    <2> SUFFICES ASSUME TypeOK, ActivityTracksSessions, TimeInv,
                        cleanupTask = "running", NEW ws \in activeConnections
                 PROVE  now <= connectionActivity[ws] + Timeout + Interval
        BY DEF SessionsAgree, StaleSessionsBounded
    <2>1. connectionActivity[ws] \in Nat
        BY ActivityIsTime
    <2> QED
        BY <2>1, TimesAssumption DEF TypeOK, TimeInv, SessionTimes
<1> QED
    BY InitSessionsAgree, NextSessionsAgree, InitTimeInv, NextTimeInv, ScanTypes,
       <1>1, PTL DEF Spec

-----------------------------------------------------------------------------
(* What removes a session.                                                   *)

\* Only sockets whose client has left fail to be sent to.
RemovalInv ==
    \A b \in Scans : \A ws \in broadcast[b].toRemove : client[ws] = "gone"

\* No broadcast runs at the start.
LEMMA InitRemovalInv == Init => RemovalInv
    BY DEF Init, RemovalInv, Idle

\* A send that ends leaves only gone clients to be removed.
LEMMA RemovesTheGone ==
    ASSUME RemovalInv, NEW b \in Scans, NEW ok \in BOOLEAN, SendMayEnd(b, ok)
    PROVE  \A ws \in ToRemoveAfter(b, ok) : client[ws] = "gone"
    BY DEF RemovalInv, SendMayEnd, ToRemoveAfter

\* Every step keeps to_remove a set of gone clients.
LEMMA NextRemovalInv ==
    TypeOK /\ RemovalInv /\ [Next]_vars => RemovalInv'
<1> SUFFICES ASSUME TypeOK, RemovalInv, [Next]_vars
             PROVE  RemovalInv'
    OBVIOUS
<1>1. ASSUME NEW ws \in Sockets, ClientLeaves(ws)
      PROVE  RemovalInv'
    BY <1>1 DEF ClientLeaves, RemovalInv, TypeOK
<1>2. ASSUME NEW b \in Scans, PostScan(b)
      PROVE  RemovalInv'
    BY <1>2 DEF PostScan, RemovalInv, TypeOK, taskVars
<1>3. ASSUME NEW b \in Scans, NEW ok \in BOOLEAN, SendNext(b, ok)
      PROVE  RemovalInv'
    <2>1. \A ws \in ToRemoveAfter(b, ok) : client[ws] = "gone"
        BY <1>3, RemovesTheGone DEF SendNext
    <2>2. \A x \in Scans :
              \/ broadcast'[x].toRemove = broadcast[x].toRemove
              \/ broadcast'[x].toRemove = ToRemoveAfter(b, ok)
        BY <1>3 DEF SendNext, TypeOK
    <2> QED
        BY <1>3, <2>1, <2>2 DEF SendNext, RemovalInv, taskVars
<1>4. ASSUME NEW b \in Scans, NEW ok \in BOOLEAN, SendLast(b, ok)
      PROVE  RemovalInv'
    BY <1>4 DEF SendLast, RemovalInv, TypeOK, taskVars, Idle
<1>5. ASSUME UNCHANGED <<client, broadcast>>
      PROVE  RemovalInv'
    BY <1>5 DEF RemovalInv
<1>6. CASE \/ Startup
           \/ Shutdown
           \/ \E ws \in Sockets :
                 Connect(ws) \/ ClientTalks(ws) \/ Disconnect(ws)
           \/ Sweep
           \/ Tick
           \/ UNCHANGED vars
    <2>1. UNCHANGED <<client, broadcast>>
        BY <1>6 DEF Startup, Shutdown, Connect, ClientTalks, Disconnect, Sweep,
                    Tick, vars, taskVars
    <2> QED
        BY <1>5, <2>1
<1> QED
    BY <1>1, <1>2, <1>3, <1>4, <1>6 DEF Next, SendStep

\* A step that removes a session whose client is there: the session, and the
\* last scan, are out of date by more than the timeout.
RemovesOnlyIdle ==
    \A ws \in activeConnections \ activeConnections' :
        client[ws] = "up" =>
            /\ now > connectionActivity[ws] + Timeout
            /\ now > lastScan + Timeout

\* No step removes any other session.
LEMMA NextRemovesOnlyIdle ==
    TypeOK /\ SessionsAgree /\ TimeInv /\ RemovalInv /\ [Next]_vars
        => RemovesOnlyIdle
<1> SUFFICES ASSUME TypeOK, ActivityTracksSessions, TimeInv, RemovalInv,
                    [Next]_vars
             PROVE  RemovesOnlyIdle
    BY DEF SessionsAgree
<1>1. ASSUME activeConnections \subseteq activeConnections'
      PROVE  RemovesOnlyIdle
    BY <1>1 DEF RemovesOnlyIdle
<1>2. ASSUME NEW ws \in Sockets, Disconnect(ws)
      PROVE  RemovesOnlyIdle
    BY <1>2 DEF Disconnect, DisconnectedBy, Forget, RemovesOnlyIdle
<1>3. ASSUME NEW b \in Scans, NEW ok \in BOOLEAN, SendLast(b, ok)
      PROVE  RemovesOnlyIdle
    <2>1. \A ws \in ToRemoveAfter(b, ok) : client[ws] = "gone"
        BY <1>3, RemovesTheGone DEF SendLast
    <2> QED
        BY <1>3, <2>1 DEF SendLast, Forget, RemovesOnlyIdle
<1>4. CASE Sweep
    <2> SUFFICES ASSUME NEW ws \in activeConnections,
                        ws \notin activeConnections'
                 PROVE  /\ now > connectionActivity[ws] + Timeout
                        /\ now > lastScan + Timeout
        BY DEF RemovesOnlyIdle
    <2>1. connectionActivity[ws] \in Nat
        BY ActivityIsTime
    <2>2. now - connectionActivity[ws] > Timeout
        BY <1>4 DEF Sweep, Forget, Expired
    <2>3. lastScan <= connectionActivity[ws]
        BY DEF TimeInv, SessionTimes
    <2> QED
        BY <2>1, <2>2, <2>3, TimesAssumption DEF TypeOK
<1>5. CASE \/ Startup
           \/ Shutdown
           \/ \E ws \in Sockets :
                 Connect(ws) \/ ClientTalks(ws) \/ ClientLeaves(ws)
           \/ \E b \in Scans : PostScan(b)
           \/ \E b \in Scans, ok \in BOOLEAN : SendNext(b, ok)
           \/ Tick
           \/ UNCHANGED vars
    <2>1. activeConnections \subseteq activeConnections'
        BY <1>5 DEF Startup, Shutdown, Connect, ClientTalks, ClientLeaves,
                    PostScan, SendNext, Tick, vars, sessionVars
    <2> QED
        BY <1>1, <2>1
<1> QED
    BY <1>2, <1>3, <1>4, <1>5 DEF Next, SendStep

\* A session whose client is there is removed only by the cleanup task, and
\* only when its own activity and the last scan posted to anybody are more than
\* the timeout ago, whatever interleaves with the pass.
THEOREM ScanExpiry == Spec => ExpiresOnlyIdleSessions
<1>1. RemovesOnlyIdle =>
          [\A ws \in activeConnections \ activeConnections' :
              client[ws] = "up" =>
                  /\ now > connectionActivity[ws] + Timeout
                  /\ now > lastScan + Timeout]_vars
    BY DEF RemovesOnlyIdle
<1>2. TypeOK /\ SessionsAgree /\ TimeInv /\ RemovalInv /\ [Next]_vars =>
          [\A ws \in activeConnections \ activeConnections' :
              client[ws] = "up" =>
                  /\ now > connectionActivity[ws] + Timeout
                  /\ now > lastScan + Timeout]_vars
    BY <1>1, NextRemovesOnlyIdle
<1> QED
    BY InitSessionsAgree, NextSessionsAgree, InitTimeInv, NextTimeInv,
       InitRemovalInv, NextRemovalInv, ScanTypes, <1>2, PTL
    DEF Spec, ExpiresOnlyIdleSessions

=============================================================================
