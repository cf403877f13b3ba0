------------------------- MODULE ChatManagerProofs -------------------------
(***************************************************************************)
(* Proofs about ChatManager, for any number of conversations, users,       *)
(* sockets and requests and whatever the bounds.                           *)
(***************************************************************************)
EXTENDS ChatManager, FiniteSetTheorems, SequenceTheorems,
        WellFoundedInduction, TLAPS

-----------------------------------------------------------------------------
(* Types.                                                                    *)

\* The tail of a sequence of message ids is one.
LEMMA NewestType ==
    ASSUME NEW s \in Seq(Nat), NEW n \in Nat
    PROVE  Newest(s, n) \in Seq(Nat)
    BY DEF Newest

\* A delivery loop that begins is a well-typed one, over registered sockets.
LEMMA BeginDeliveryType ==
    ASSUME TypeOK, NEW t \in Tasks, NEW c \in Convs, BeginDelivery(t, c)
    PROVE  delivery' \in [Tasks -> Delivery \cup {Idle}]
<1>1. CASE UNCHANGED delivery
    BY <1>1 DEF TypeOK
<1>2. ASSUME NEW ws \in ListItem(c, 1),
             delivery' = [delivery EXCEPT ![t] =
                 [busy |-> TRUE, conv |-> c, pos |-> 1, target |-> ws,
                  attached |-> TRUE, failed |-> {}, attempted |-> {ws},
                  owed |-> activeConnections[c]]]
      PROVE  delivery' \in [Tasks -> Delivery \cup {Idle}]
    <2>1. ws \in Sockets /\ activeConnections[c] \subseteq Sockets
        BY DEF ListItem, TypeOK
    <2>2. [busy |-> TRUE, conv |-> c, pos |-> 1, target |-> ws,
           attached |-> TRUE, failed |-> {}, attempted |-> {ws},
           owed |-> activeConnections[c]] \in Delivery
        BY <2>1 DEF Delivery
    <2> QED
        BY <1>2, <2>2 DEF TypeOK
<1> QED
    BY <1>1, <1>2 DEF BeginDelivery

\* Detaching a loop from its list leaves it well typed.
LEMMA DetachedType ==
    ASSUME NEW d \in Delivery
    PROVE  [d EXCEPT !.attached = FALSE] \in Delivery
    BY DEF Delivery

\* A loop that moves on to a socket stays well typed.
LEMMA MovedType ==
    ASSUME NEW d \in Delivery, NEW ok \in BOOLEAN, NEW ws \in Sockets
    PROVE  [d EXCEPT !.pos = NextIndex(d), !.target = ws,
                     !.failed = FailedAfter(d, ok),
                     !.attempted = @ \cup {ws}] \in Delivery
<1> DEFINE n == NextIndex(d)
           f == FailedAfter(d, ok)
           a == d.attempted \cup {ws}
<1>1. n \in Nat /\ f \in SUBSET Sockets /\ a \in SUBSET Sockets
    BY DEF NextIndex, FailedAfter, Delivery
<1> HIDE DEF n, f, a
<1>2. [d EXCEPT !.pos = n, !.target = ws, !.failed = f, !.attempted = a]
          \in Delivery
    BY <1>1 DEF Delivery
<1> QED
    BY <1>2 DEF n, f, a

\* A busy task's loop is a well-typed one.
LEMMA BusyDelivery ==
    ASSUME TypeOK, NEW t \in Tasks, delivery[t].busy
    PROVE  delivery[t] \in Delivery
    BY DEF TypeOK, Idle

\* Everything starts well typed.
LEMMA InitTypeOK == Init => TypeOK
<1> SUFFICES ASSUME Init PROVE TypeOK
    OBVIOUS
<1>1. <<>> \in Seq(Nat) /\ <<>> \in Seq(Escalation)
    OBVIOUS
<1>2. delivery \in [Tasks -> Delivery \cup {Idle}]
    BY DEF Init
<1> QED
    BY <1>1, <1>2 DEF Init, TypeOK, Statuses

\* The actions of sockets keep the types.
LEMMA SocketStepType ==
    ASSUME TypeOK, NEW ws \in Sockets,
           Connect(ws) \/ ClientLeaves(ws) \/ Disconnect(ws)
    PROVE  TypeOK'
<1> USE SocketsAssumption
<1> USE DEF historyVars, escalationVars, bootVars, registryVars
<1>1. CASE Connect(ws)
    BY <1>1 DEF Connect, ArrivalAtEnd, TypeOK
<1>2. CASE ClientLeaves(ws)
    BY <1>2 DEF ClientLeaves, TypeOK
<1>3. CASE Disconnect(ws)
    <2>1. delivery' \in [Tasks -> Delivery \cup {Idle}]
        <3> SUFFICES ASSUME NEW t \in Tasks
                     PROVE  delivery'[t] \in Delivery \cup {Idle}
            BY <1>3 DEF Disconnect
        <3>1. delivery[t] \in Delivery \cup {Idle}
            BY DEF TypeOK
        <3>2. CASE delivery'[t] = delivery[t]
            BY <3>1, <3>2
        <3>3. CASE /\ delivery[t].conv = ConvOf[ws]
                   /\ delivery'[t] = [delivery[t] EXCEPT !.attached = FALSE]
            <4>1. delivery[t] \in Delivery
                BY <3>1, <3>3, DisjointAssumption DEF Idle
            <4> QED
                BY <3>3, <4>1, DetachedType
        <3> QED
            BY <1>3, <3>2, <3>3 DEF Disconnect
    <2>2. /\ activeConnections' \in [Convs -> SUBSET Sockets]
          /\ userConnections' \in [Users -> SUBSET Convs]
        BY <1>3 DEF Disconnect, RegistryWithout, ParticipationWithout, TypeOK
    <2> QED
        BY <1>3, <2>1, <2>2 DEF Disconnect, TypeOK
<1> QED
    BY <1>1, <1>2, <1>3

\* The steps of a delivery loop keep the types.
LEMMA DeliveryStepType ==
    ASSUME TypeOK, NEW t \in Tasks, NEW ok \in BOOLEAN,
           SendAndContinue(t, ok) \/ SendAndFinish(t, ok)
    PROVE  TypeOK'
<1> USE DEF historyVars, escalationVars, bootVars, registryVars, taskVars
<1>1. delivery[t] \in Delivery
    BY BusyDelivery DEF SendAndContinue, SendAndFinish
<1>2. FailedAfter(delivery[t], ok) \in SUBSET Sockets
    BY <1>1 DEF FailedAfter, Delivery
<1>3. CASE SendAndContinue(t, ok)
    <2>1. PICK ws \in NextItem(delivery[t]) :
              delivery' = [delivery EXCEPT ![t] =
                  [delivery[t] EXCEPT
                      !.pos = NextIndex(delivery[t]), !.target = ws,
                      !.failed = FailedAfter(delivery[t], ok),
                      !.attempted = @ \cup {ws}]]
        BY <1>3 DEF SendAndContinue
    <2>2. ws \in Sockets
        BY <1>1, <2>1 DEF NextItem, ListItem, TypeOK, Delivery
    <2>3. [delivery[t] EXCEPT
              !.pos = NextIndex(delivery[t]), !.target = ws,
              !.failed = FailedAfter(delivery[t], ok),
              !.attempted = @ \cup {ws}] \in Delivery
        BY <1>1, <2>2, MovedType
    <2>4. delivery' \in [Tasks -> Delivery \cup {Idle}]
        BY <2>1, <2>3 DEF TypeOK
    <2> QED
        BY <1>3, <2>4 DEF SendAndContinue, TypeOK
<1>4. CASE SendAndFinish(t, ok)
    <2>1. activeConnections' \in [Convs -> SUBSET Sockets]
        BY <1>1, <1>4 DEF SendAndFinish, TypeOK
    <2> QED
        BY <1>4, <2>1 DEF SendAndFinish, TypeOK
<1> QED
    BY <1>3, <1>4

\* The chat operations keep the types.
LEMMA SendMessageType ==
    ASSUME TypeOK, NEW t \in Tasks, NEW c \in Convs, NEW ok \in BOOLEAN,
           SendMessage(t, c, ok)
    PROVE  TypeOK'
<1> USE DEF escalationVars, bootVars, registryVars, taskVars
<1>1. delivery' \in [Tasks -> Delivery \cup {Idle}]
    BY BeginDeliveryType DEF SendMessage
<1>2. /\ messageHistory' \in [Convs -> Seq(Nat)]
      /\ chatMessages' \in [Convs -> Seq(Nat)]
      /\ sinceBoot' \in [Convs -> Seq(Nat)]
      /\ lastMessage' \in Nat
    BY DEF SendMessage, Saved, TypeOK
<1> QED
    BY <1>1, <1>2 DEF SendMessage, TypeOK

\* escalate_conversation keeps the types.
LEMMA EscalateType ==
    ASSUME TypeOK, NEW t \in Tasks, NEW c \in Convs, NEW reason \in Reasons,
           NEW ok \in BOOLEAN, Escalate(t, c, reason, ok)
    PROVE  TypeOK'
<1> USE DEF historyVars, bootVars, registryVars, taskVars
<1> DEFINE esc == [conv |-> c, reason |-> reason, at |-> lastEscalation + 1]
<1>1. delivery' \in [Tasks -> Delivery \cup {Idle}]
    BY BeginDeliveryType DEF Escalate
<1>2. esc \in Escalation
    BY DEF Escalation, TypeOK
<1>3. escalations' \in Seq(Escalation) /\ chatEscalations' \subseteq Escalation
    <2>1. /\ escalations' = Append(escalations, esc)
          /\ chatEscalations' \in {chatEscalations, chatEscalations \cup {esc}}
        BY DEF Escalate, SavedEscalation
    <2> HIDE DEF esc
    <2> QED
        BY <1>2, <2>1 DEF TypeOK
<1>4. /\ conversationStatuses' \in [Convs -> Statuses]
      /\ conversationAssignments' \in [Convs -> Agents \cup {None}]
      /\ conversationEscalatedAt' \in [Convs -> Nat]
      /\ lastEscalation' \in Nat
    BY DEF Escalate, NoAssignee, EscalationTime, TypeOK, Statuses
<1> QED
    BY <1>1, <1>3, <1>4 DEF Escalate, TypeOK

\* assign_conversation keeps the types.
LEMMA AssignType ==
    ASSUME TypeOK, NEW t \in Tasks, NEW c \in Convs, NEW a \in Agents,
           Assign(t, c, a)
    PROVE  TypeOK'
<1> USE DEF historyVars, bootVars, registryVars, taskVars
<1>1. delivery' \in [Tasks -> Delivery \cup {Idle}]
    BY BeginDeliveryType DEF Assign
<1>2. /\ conversationStatuses' \in [Convs -> Statuses]
      /\ conversationAssignments' \in [Convs -> Agents \cup {None}]
    BY DEF Assign, Assignee, TypeOK, Statuses
<1> QED
    BY <1>1, <1>2 DEF Assign, TypeOK

\* The fallback of get_message_history keeps the types.
LEMMA LoadHistoryType ==
    ASSUME TypeOK, NEW c \in Convs, NEW limit \in Limits,
           LoadHistory(c, limit)
    PROVE  TypeOK'
<1> USE DEF escalationVars, bootVars, registryVars, taskVars
<1>1. Rows(c, limit) \in Seq(Nat)
    BY NewestType, BoundsAssumption DEF Rows, TypeOK
<1>2. messageHistory' \in [Convs -> Seq(Nat)]
    BY <1>1 DEF LoadHistory, TypeOK
<1> QED
    BY <1>2 DEF LoadHistory, TypeOK

\* A restart keeps the types.
LEMMA RestartType ==
    ASSUME TypeOK, Restart
    PROVE  TypeOK'
<1>1. <<>> \in Seq(Nat) /\ <<>> \in Seq(Escalation)
    OBVIOUS
<1>2. delivery' \in [Tasks -> Delivery \cup {Idle}]
    BY DEF Restart
<1> QED
    BY <1>1, <1>2 DEF Restart, TypeOK, Statuses

\* Every step keeps the types.
LEMMA NextTypeOK == TypeOK /\ [Next]_vars => TypeOK'
<1> SUFFICES ASSUME TypeOK, [Next]_vars
             PROVE  TypeOK'
    OBVIOUS
<1> USE SocketsAssumption DEF Tasks
<1>1. ASSUME NEW t \in Tasks, NEW c \in Convs, BroadcastEvent(t, c)
      PROVE  TypeOK'
    BY <1>1, BeginDeliveryType
    DEF BroadcastEvent, registryVars, taskVars, historyVars, escalationVars,
        bootVars, TypeOK
<1>2. ASSUME NEW ws \in Sockets, SocketSends(ws)
      PROVE  TypeOK'
    BY <1>1, <1>2, SendMessageType DEF SocketSends
<1>3. ASSUME NEW r \in Requests, RequestSends(r)
      PROVE  TypeOK'
    BY <1>1, <1>3, SendMessageType DEF RequestSends
<1>4. ASSUME NEW r \in Requests, RequestEscalates(r)
      PROVE  TypeOK'
    BY <1>4, EscalateType DEF RequestEscalates
<1>5. ASSUME NEW r \in Requests, RequestAssigns(r)
      PROVE  TypeOK'
    BY <1>5, AssignType DEF RequestAssigns
<1>6. CASE UNCHANGED vars
    BY <1>6 DEF vars, TypeOK
<1> QED
    BY <1>2, <1>3, <1>4, <1>5, <1>6, SocketStepType, DeliveryStepType,
       LoadHistoryType, RestartType
    DEF Next, DeliveryStep, ReadHistory

\* Every reachable state of the chat service is well typed: a running delivery
\* loop always has a conversation and a socket it is sending to, and every
\* assignee is an agent.
THEOREM ChatTypes == Spec => []TypeOK
    BY InitTypeOK, NextTypeOK, PTL DEF Spec

-----------------------------------------------------------------------------
(* The registry.                                                             *)

\* The steps that change neither the registry nor a handler.
LEMMA RegistryFrame ==
    ASSUME [Next]_vars
    PROVE  \/ \E ws \in Sockets : Connect(ws) \/ Disconnect(ws)
           \/ \E t \in Tasks, ok \in BOOLEAN : SendAndFinish(t, ok)
           \/ Restart
           \/ UNCHANGED <<registryVars, handler>>
<1> USE DEF registryVars, taskVars
<1>1. ASSUME NEW t \in Tasks, NEW c \in Convs,
             \/ \E ok \in BOOLEAN : SendMessage(t, c, ok)
             \/ BroadcastEvent(t, c)
             \/ \E reason \in Reasons, ok \in BOOLEAN : Escalate(t, c, reason, ok)
             \/ \E a \in Agents : Assign(t, c, a)
      PROVE  UNCHANGED <<registryVars, handler>>
    BY <1>1 DEF SendMessage, BroadcastEvent, Escalate, Assign
<1>2. ASSUME NEW ws \in Sockets, SocketSends(ws)
      PROVE  UNCHANGED <<registryVars, handler>>
    BY <1>1, <1>2, SocketsAssumption DEF SocketSends, Tasks
<1>3. ASSUME NEW r \in Requests,
             RequestSends(r) \/ RequestEscalates(r) \/ RequestAssigns(r)
      PROVE  UNCHANGED <<registryVars, handler>>
    BY <1>1, <1>3
    DEF RequestSends, RequestEscalates, RequestAssigns, Tasks
<1>4. CASE \/ \E ws \in Sockets : ClientLeaves(ws)
           \/ \E t \in Tasks, ok \in BOOLEAN : SendAndContinue(t, ok)
           \/ ReadHistory
           \/ UNCHANGED vars
    BY <1>4
    DEF ClientLeaves, SendAndContinue, ReadHistory, LoadHistory, vars
<1> QED
    BY <1>2, <1>3, <1>4 DEF Next, DeliveryStep

\* An empty registry is in order.
LEMMA InitRegistries == Init => RegistriesNameRunningHandlers
    BY DEF Init, RegistriesNameRunningHandlers, RegisteredHandlersRun, ListedUsersHaveHandlers

\* Connects, disconnects and sweeps keep the registry in order.
LEMMA NextRegistries ==
    TypeOK /\ RegistriesNameRunningHandlers /\ [Next]_vars => RegistriesNameRunningHandlers'
<1> SUFFICES ASSUME TypeOK, RegisteredHandlersRun, ListedUsersHaveHandlers,
                    [Next]_vars
             PROVE  RegisteredHandlersRun' /\ ListedUsersHaveHandlers'
    BY DEF RegistriesNameRunningHandlers
<1> USE SocketsAssumption
<1>1. ASSUME NEW ws \in Sockets, Connect(ws)
      PROVE  RegisteredHandlersRun' /\ ListedUsersHaveHandlers'
    <2>1. RegisteredHandlersRun'
        BY <1>1 DEF Connect, TypeOK, RegisteredHandlersRun
    <2>2. ASSUME NEW u \in Users, NEW c \in userConnections'[u]
          PROVE  \E x \in Sockets : /\ UserOf[x] = u /\ ConvOf[x] = c
                                    /\ handler'[x] = "open"
        <3>1. CASE c \in userConnections[u]
            BY <1>1, <3>1 DEF Connect, TypeOK, ListedUsersHaveHandlers
        <3>2. CASE c \notin userConnections[u]
            BY <1>1, <2>2, <3>2 DEF Connect, TypeOK
        <3> QED
            BY <3>1, <3>2
    <2> QED
        BY <2>1, <2>2 DEF ListedUsersHaveHandlers
<1>2. ASSUME NEW ws \in Sockets, Disconnect(ws)
      PROVE  RegisteredHandlersRun' /\ ListedUsersHaveHandlers'
    <2>1. RegisteredHandlersRun'
        BY <1>2
        DEF Disconnect, RegistryWithout, TypeOK, RegisteredHandlersRun
    <2>2. ASSUME NEW u \in Users, NEW c \in userConnections'[u]
          PROVE  \E x \in Sockets : /\ UserOf[x] = u /\ ConvOf[x] = c
                                    /\ handler'[x] = "open"
        <3>1. /\ c \in userConnections[u]
              /\ u = UserOf[ws] => c # ConvOf[ws]
            BY <1>2, <2>2 DEF Disconnect, ParticipationWithout, TypeOK
        <3>2. PICK x \in Sockets : /\ UserOf[x] = u /\ ConvOf[x] = c
                                   /\ handler[x] = "open"
            BY <3>1 DEF ListedUsersHaveHandlers
        <3>3. x # ws
            BY <3>1, <3>2
        <3> QED
            BY <1>2, <3>2, <3>3 DEF Disconnect, TypeOK
    <2> QED
        BY <2>1, <2>2 DEF ListedUsersHaveHandlers
<1>3. ASSUME NEW t \in Tasks, NEW ok \in BOOLEAN, SendAndFinish(t, ok)
      PROVE  RegisteredHandlersRun' /\ ListedUsersHaveHandlers'
    <2>1. \A c \in Convs : activeConnections'[c] \subseteq activeConnections[c]
        BY <1>3 DEF SendAndFinish, TypeOK
    <2> QED
        BY <1>3, <2>1
        DEF SendAndFinish, taskVars, RegisteredHandlersRun,
            ListedUsersHaveHandlers
<1>4. CASE Restart
    BY <1>4 DEF Restart, RegisteredHandlersRun, ListedUsersHaveHandlers
<1>5. CASE UNCHANGED <<registryVars, handler>>
    BY <1>5
    DEF registryVars, RegisteredHandlersRun, ListedUsersHaveHandlers
<1> QED
    BY <1>1, <1>2, <1>3, <1>4, <1>5, RegistryFrame

\* Every socket in a conversation's list is of that conversation and has a
\* running handler, and nobody stays listed in a conversation after their last
\* handler there ended.
THEOREM ChatRegistry == Spec => []RegistriesNameRunningHandlers
    BY InitRegistries, NextRegistries, ChatTypes, PTL DEF Spec

-----------------------------------------------------------------------------
(* Escalations and assignments.  The facts hold together by themselves:      *)
(* escalate_conversation writes the event and the three dicts in one step,   *)
(* and the endpoint's check keeps assignments to what was escalated.         *)

EscalatedHaveLatest ==
    \A c \in Convs : conversationStatuses[c] # "open" =>
        \E i \in DOMAIN escalations : IsLatest(i) /\ escalations[i].conv = c

EscalationInv ==
    /\ OpenMeansNeverEscalated
    /\ EscalatedHaveLatest
    /\ AssignedIffAgent
    /\ QueueTimeIsLatestEscalation

\* The steps by what they do to escalations and assignments.
LEMMA EscalationFrame ==
    ASSUME [Next]_vars
    PROVE  \/ \E t \in Tasks, c \in Convs, reason \in Reasons, ok \in BOOLEAN :
                 Escalate(t, c, reason, ok)
           \/ \E t \in Tasks, c \in Convs, a \in Agents : Assign(t, c, a)
           \/ Restart
           \/ UNCHANGED escalationVars
<1> USE DEF escalationVars
<1>1. ASSUME NEW t \in Tasks, NEW c \in Convs,
             \/ \E ok \in BOOLEAN : SendMessage(t, c, ok)
             \/ BroadcastEvent(t, c)
      PROVE  UNCHANGED escalationVars
    BY <1>1 DEF SendMessage, BroadcastEvent
<1>2. ASSUME NEW ws \in Sockets, SocketSends(ws)
      PROVE  UNCHANGED escalationVars
    BY <1>1, <1>2, SocketsAssumption DEF SocketSends, Tasks
<1>3. ASSUME NEW r \in Requests, RequestSends(r)
      PROVE  UNCHANGED escalationVars
    BY <1>1, <1>3 DEF RequestSends, Tasks
<1>4. ASSUME NEW r \in Requests, RequestEscalates(r)
      PROVE  \E t \in Tasks, c \in Convs, reason \in Reasons, ok \in BOOLEAN :
                 Escalate(t, c, reason, ok)
    BY <1>4 DEF RequestEscalates, Tasks
<1>5. ASSUME NEW r \in Requests, RequestAssigns(r)
      PROVE  \E t \in Tasks, c \in Convs, a \in Agents : Assign(t, c, a)
    BY <1>5 DEF RequestAssigns, Tasks
<1>6. CASE \/ \E ws \in Sockets :
                 Connect(ws) \/ ClientLeaves(ws) \/ Disconnect(ws)
           \/ \E t \in Tasks, ok \in BOOLEAN :
                 SendAndContinue(t, ok) \/ SendAndFinish(t, ok)
           \/ ReadHistory
           \/ UNCHANGED vars
    BY <1>6
    DEF Connect, ClientLeaves, Disconnect, SendAndContinue, SendAndFinish,
        ReadHistory, LoadHistory, vars
<1> QED
    BY <1>2, <1>3, <1>4, <1>5, <1>6 DEF Next, DeliveryStep

\* Without escalations every conversation is open.
LEMMA InitEscalationInv == Init => EscalationInv
    BY DEF Init, EscalationInv, OpenMeansNeverEscalated, EscalatedHaveLatest,
           AssignedIffAgent, QueueTimeIsLatestEscalation, IsLatest

\* An escalation, at the end of the list of events, is the latest of its
\* conversation.
LEMMA EscalatePreserves ==
    ASSUME TypeOK, EscalationInv, NEW t \in Tasks, NEW c \in Convs,
           NEW reason \in Reasons, NEW ok \in BOOLEAN,
           Escalate(t, c, reason, ok)
    PROVE  EscalationInv'
<1> DEFINE esc == [conv |-> c, reason |-> reason, at |-> lastEscalation + 1]
           n == Len(escalations)
<1>1. /\ esc \in Escalation
      /\ esc.conv = c
      /\ esc.at = lastEscalation + 1
    BY DEF Escalation, TypeOK
<1>2. escalations' = Append(escalations, esc) /\ escalations \in Seq(Escalation)
    BY DEF Escalate, TypeOK
<1>3. /\ conversationStatuses' =
             [conversationStatuses EXCEPT ![c] = "escalated"]
      /\ conversationAssignments' =
             [conversationAssignments EXCEPT ![c] = None]
      /\ conversationEscalatedAt' =
             [conversationEscalatedAt EXCEPT ![c] = esc.at]
    BY <1>1 DEF Escalate, NoAssignee, EscalationTime
<1> HIDE DEF esc
<1>4. /\ n \in Nat
      /\ DOMAIN escalations = 1..n
      /\ DOMAIN escalations' = 1..(n + 1)
      /\ escalations'[n + 1] = esc
      /\ \A i \in 1..n : escalations'[i] = escalations[i]
    BY <1>1, <1>2
<1>5. \A i \in 1..n : escalations[i].conv \in Convs
    <2>1. \A i \in 1..n : escalations[i] \in Escalation
        BY <1>2, <1>4
    <2> QED
        BY <2>1 DEF Escalation
<1>6. OpenMeansNeverEscalated'
    <2> SUFFICES ASSUME NEW x \in Convs
                 PROVE  conversationStatuses'[x] = "open" <=>
                            \A i \in 1..(n + 1) : escalations'[i].conv # x
        BY <1>4 DEF OpenMeansNeverEscalated
    <2>1. CASE x = c
        BY <1>1, <1>3, <1>4, <2>1 DEF TypeOK
    <2>2. CASE x # c
        <3>1. conversationStatuses'[x] = conversationStatuses[x]
            BY <1>3, <2>2 DEF TypeOK
        <3>2. conversationStatuses[x] = "open" <=>
                  \A i \in 1..n : escalations[i].conv # x
            BY <1>4 DEF EscalationInv, OpenMeansNeverEscalated
        <3>3. (\A i \in 1..n : escalations[i].conv # x) <=>
                  (\A i \in 1..(n + 1) : escalations'[i].conv # x)
            BY <1>1, <1>4, <2>2
        <3> QED
            BY <3>1, <3>2, <3>3
    <2> QED
        BY <2>1, <2>2
<1>7. AssignedIffAgent'
    BY <1>3 DEF TypeOK, EscalationInv, AssignedIffAgent
<1>8. QueueTimeIsLatestEscalation'
    <2> SUFFICES ASSUME NEW i \in 1..(n + 1),
                        \A j \in 1..(n + 1) :
                            j > i => escalations'[j].conv # escalations'[i].conv
                 PROVE  conversationEscalatedAt'[escalations'[i].conv]
                            = escalations'[i].at
        BY <1>4 DEF QueueTimeIsLatestEscalation, IsLatest
    <2>1. CASE i = n + 1
        BY <1>1, <1>3, <1>4, <2>1 DEF TypeOK
    <2>2. CASE i \in 1..n
        <3>1. escalations[i].conv # c
            BY <1>1, <1>4, <2>2
        <3>2. \A j \in 1..n :
                  j > i => escalations[j].conv # escalations[i].conv
            BY <1>4, <2>2
        <3>3. conversationEscalatedAt[escalations[i].conv] = escalations[i].at
            BY <1>4, <2>2, <3>2
            DEF EscalationInv, QueueTimeIsLatestEscalation, IsLatest
        <3> QED
            BY <1>3, <1>4, <1>5, <2>2, <3>1, <3>3 DEF TypeOK
    <2> QED
        BY <1>4, <2>1, <2>2
<1>9. EscalatedHaveLatest'
    <2> SUFFICES ASSUME NEW x \in Convs, conversationStatuses'[x] # "open"
                 PROVE  \E i \in 1..(n + 1) :
                            /\ \A j \in 1..(n + 1) : j > i =>
                                  escalations'[j].conv # escalations'[i].conv
                            /\ escalations'[i].conv = x
        BY <1>4 DEF EscalatedHaveLatest, IsLatest
    <2>1. CASE x = c
        BY <1>1, <1>4, <2>1
    <2>2. CASE x # c
        <3>1. conversationStatuses[x] # "open"
            BY <1>3, <2>2 DEF TypeOK
        <3>2. PICK i \in 1..n :
                  /\ \A j \in 1..n :
                        j > i => escalations[j].conv # escalations[i].conv
                  /\ escalations[i].conv = x
            BY <1>4, <3>1 DEF EscalationInv, EscalatedHaveLatest, IsLatest
        <3>3. escalations'[i].conv = x
            BY <1>4, <3>2
        <3>4. \A j \in 1..(n + 1) : j > i => escalations'[j].conv # x
            BY <1>1, <1>4, <2>2, <3>2
        <3> QED
            BY <1>4, <3>3, <3>4
    <2> QED
        BY <2>1, <2>2
<1> QED
    BY <1>6, <1>7, <1>8, <1>9 DEF EscalationInv

\* An assignment, behind the endpoint's check, keeps these facts.
LEMMA AssignPreserves ==
    ASSUME TypeOK, EscalationInv, NEW t \in Tasks, NEW c \in Convs,
           NEW a \in Agents, Assign(t, c, a)
    PROVE  EscalationInv'
<1>1. /\ conversationStatuses[c] # "open"
      /\ conversationStatuses' = [conversationStatuses EXCEPT ![c] = "assigned"]
      /\ conversationAssignments' = [conversationAssignments EXCEPT ![c] = a]
      /\ UNCHANGED <<escalations, conversationEscalatedAt>>
    BY DEF Assign, MayAssign, Assignee
<1>2. OpenMeansNeverEscalated'
    BY <1>1 DEF TypeOK, EscalationInv, OpenMeansNeverEscalated
<1>3. AssignedIffAgent'
    BY <1>1, DisjointAssumption DEF TypeOK, EscalationInv, AssignedIffAgent
<1>4. QueueTimeIsLatestEscalation'
    BY <1>1 DEF EscalationInv, QueueTimeIsLatestEscalation, IsLatest
<1>5. EscalatedHaveLatest'
    BY <1>1 DEF TypeOK, EscalationInv, EscalatedHaveLatest, IsLatest
<1> QED
    BY <1>2, <1>3, <1>4, <1>5 DEF EscalationInv

\* Every step keeps these facts.
LEMMA NextEscalationInv ==
    TypeOK /\ EscalationInv /\ [Next]_vars => EscalationInv'
<1> SUFFICES ASSUME TypeOK, EscalationInv, [Next]_vars
             PROVE  EscalationInv'
    OBVIOUS
<1>1. CASE Restart
    BY <1>1
    DEF Restart, EscalationInv, OpenMeansNeverEscalated, EscalatedHaveLatest,
        AssignedIffAgent, QueueTimeIsLatestEscalation, IsLatest
<1>2. CASE UNCHANGED escalationVars
    BY <1>2
    DEF escalationVars, EscalationInv, OpenMeansNeverEscalated,
        EscalatedHaveLatest, AssignedIffAgent, QueueTimeIsLatestEscalation,
        IsLatest
<1> QED
    BY <1>1, <1>2, EscalatePreserves, AssignPreserves, EscalationFrame

\* With these facts the entry of a queued conversation is its latest
\* escalation.
LEMMA QueueEntry ==
    ASSUME TypeOK, EscalationInv, NEW i \in DOMAIN escalations, IsLatest(i)
    PROVE  escalations[i] =
               [conv |-> escalations[i].conv,
                reason |-> LatestReason(escalations[i].conv),
                at |-> conversationEscalatedAt[escalations[i].conv]]
<1> DEFINE c == escalations[i].conv
           Found(k) == IsLatest(k) /\ escalations[k].conv = c
           k == CHOOSE k \in DOMAIN escalations : Found(k)
<1>1. escalations[i] \in Escalation /\ DOMAIN escalations = 1..Len(escalations)
    BY DEF TypeOK
<1>2. k \in DOMAIN escalations /\ Found(k)
    OBVIOUS
<1>3. k = i
    <2> HIDE DEF k
    <2> QED
        BY <1>1, <1>2 DEF IsLatest
<1>4. LatestReason(c) = escalations[i].reason
    BY <1>2, <1>3 DEF LatestReason
<1>5. conversationEscalatedAt[c] = escalations[i].at
    BY DEF EscalationInv, QueueTimeIsLatestEscalation
<1> HIDE DEF c
<1> QED
    BY <1>1, <1>4, <1>5 DEF Escalation, c

\* The support queue is the latest escalation of every conversation without an
\* agent, in whatever order escalations and assignments come.
THEOREM ChatQueue == Spec => []QueueShowsLatestEscalations
<1>1. ASSUME TypeOK, EscalationInv
      PROVE  QueueShowsLatestEscalations
    <2> DEFINE Entry(x) == [conv |-> x, reason |-> LatestReason(x),
                           at |-> conversationEscalatedAt[x]]
    <2>1. ASSUME NEW c \in Convs, InQueue(c)
          PROVE  \E i \in DOMAIN escalations :
                     /\ IsLatest(i)
                     /\ conversationAssignments[escalations[i].conv] = None
                     /\ Entry(c) = escalations[i]
        <3>1. PICK i \in DOMAIN escalations :
                  IsLatest(i) /\ escalations[i].conv = c
            BY <1>1, <2>1 DEF InQueue, EscalationInv, EscalatedHaveLatest
        <3>2. Entry(c) = escalations[i]
            BY <1>1, <3>1, QueueEntry
        <3> QED
            BY <2>1, <3>1, <3>2 DEF InQueue
    <2>2. ASSUME NEW i \in DOMAIN escalations, IsLatest(i),
                 conversationAssignments[escalations[i].conv] = None
          PROVE  \E c \in Convs : InQueue(c) /\ escalations[i] = Entry(c)
        <3>1. escalations[i].conv \in Convs
            <4>1. escalations \in Seq(Escalation)
                BY <1>1 DEF TypeOK
            <4>2. escalations[i] \in Escalation
                BY <4>1
            <4> QED
                BY <4>2 DEF Escalation
        <3>2. conversationStatuses[escalations[i].conv] = "escalated"
            BY <1>1, <2>2, <3>1
            DEF TypeOK, Statuses, EscalationInv, OpenMeansNeverEscalated,
                AssignedIffAgent
        <3>3. escalations[i] = Entry(escalations[i].conv)
            BY <1>1, <2>2, QueueEntry
        <3> QED
            BY <2>2, <3>1, <3>2, <3>3 DEF InQueue
    <2> HIDE DEF Entry
    <2>3. UnassignedQueue = {Entry(c) : c \in {x \in Convs : InQueue(x)}}
        BY DEF UnassignedQueue, Entry
    <2> QED
        BY <2>1, <2>2, <2>3 DEF QueueShowsLatestEscalations
<1> QED
    BY InitEscalationInv, NextEscalationInv, ChatTypes, <1>1, PTL DEF Spec

-----------------------------------------------------------------------------
(* Message history.  As long as this process has accepted nothing in a       *)
(* conversation, its rows are those of the start: so a load, which finds the *)
(* list empty, brings in the tail of the start's rows.                       *)

RowsFromBoot ==
    \A c \in Convs : sinceBoot[c] = <<>> => chatMessages[c] = bootRows[c]

HistoryInv == HistoryIsTail /\ RowsFromBoot

\* The newest none are none, and the newest all are all.
LEMMA NewestEnds ==
    ASSUME NEW s \in Seq(Nat), NEW n \in Nat
    PROVE  /\ Newest(s, 0) = <<>>
           /\ Newest(s, n) = Newest(s, Len(Newest(s, n)))
<1>1. Len(s) \in Nat
    BY LenProperties
<1>2. Newest(s, 0) = <<>>
    <2>1. CASE Len(s) > 0
        BY <1>1, <2>1, SubSeqEmpty DEF Newest
    <2>2. CASE Len(s) = 0
        BY <2>2, EmptySeq DEF Newest
    <2> QED
        BY <1>1, <2>1, <2>2
<1>3. CASE Len(s) > n
    <2>1. Newest(s, n) = SubSeq(s, Len(s) - n + 1, Len(s))
        BY <1>3 DEF Newest
    <2>2. \A i \in (Len(s) - n + 1)..Len(s) : s[i] \in Nat
        BY <1>1, <1>3, LenProperties
    <2>3. Len(Newest(s, n)) = n
        BY <1>1, <1>3, <2>1, <2>2, SubSeqProperties
    <2> QED
        BY <1>2, <2>3
<1>4. CASE ~(Len(s) > n)
    BY <1>1, <1>2, <1>4 DEF Newest
<1> QED
    BY <1>3, <1>4

\* Appending to a concatenation appends to its second part.
LEMMA AppendConcat ==
    ASSUME NEW s \in Seq(Nat), NEW r \in Seq(Nat), NEW m \in Nat
    PROVE  Append(s \o r, m) = s \o Append(r, m)
<1>1. s \o r \in Seq(Nat)
    BY ConcatProperties
<1>2. <<m>> \in Seq(Nat)
    OBVIOUS
<1>3. Append(s \o r, m) = (s \o r) \o <<m>>
    BY <1>1, AppendIsConcat, Zenon
<1>4. Append(r, m) = r \o <<m>>
    BY AppendIsConcat
<1>5. (s \o r) \o <<m>> = s \o (r \o <<m>>)
    BY <1>2, ConcatAssociative
<1> QED
    BY <1>3, <1>4, <1>5

\* The steps that change no history.
LEMMA HistoryFrame ==
    ASSUME [Next]_vars
    PROVE  \/ \E t \in Tasks, c \in Convs, ok \in BOOLEAN : SendMessage(t, c, ok)
           \/ \E c \in Convs, limit \in Limits : LoadHistory(c, limit)
           \/ Restart
           \/ UNCHANGED <<historyVars, bootVars>>
<1> USE DEF historyVars, bootVars
<1>1. ASSUME NEW t \in Tasks, NEW c \in Convs,
             \/ BroadcastEvent(t, c)
             \/ \E reason \in Reasons, ok \in BOOLEAN : Escalate(t, c, reason, ok)
             \/ \E a \in Agents : Assign(t, c, a)
      PROVE  UNCHANGED <<historyVars, bootVars>>
    BY <1>1 DEF BroadcastEvent, Escalate, Assign
<1>2. ASSUME NEW ws \in Sockets, SocketSends(ws)
      PROVE  \/ \E t \in Tasks, c \in Convs, ok \in BOOLEAN : SendMessage(t, c, ok)
             \/ UNCHANGED <<historyVars, bootVars>>
    BY <1>1, <1>2, SocketsAssumption DEF SocketSends, Tasks
<1>3. ASSUME NEW r \in Requests,
             RequestSends(r) \/ RequestEscalates(r) \/ RequestAssigns(r)
      PROVE  \/ \E t \in Tasks, c \in Convs, ok \in BOOLEAN : SendMessage(t, c, ok)
             \/ UNCHANGED <<historyVars, bootVars>>
    BY <1>1, <1>3
    DEF RequestSends, RequestEscalates, RequestAssigns, Tasks
<1>4. CASE \/ \E ws \in Sockets :
                 Connect(ws) \/ ClientLeaves(ws) \/ Disconnect(ws)
           \/ \E t \in Tasks, ok \in BOOLEAN :
                 SendAndContinue(t, ok) \/ SendAndFinish(t, ok)
           \/ UNCHANGED vars
    BY <1>4
    DEF Connect, ClientLeaves, Disconnect, SendAndContinue, SendAndFinish, vars
<1> QED
    BY <1>2, <1>3, <1>4 DEF Next, DeliveryStep, ReadHistory

\* Empty histories are tails of empty tables.
LEMMA InitHistoryInv == Init => HistoryInv
<1> SUFFICES ASSUME Init PROVE HistoryInv
    OBVIOUS
<1>1. <<>> \in Seq(Nat) /\ Len(<<>>) = 0 /\ <<>> \o <<>> = <<>>
    BY EmptySeq, ConcatEmptySeq
<1>2. Newest(<<>>, 0) = <<>>
    BY <1>1, NewestEnds
<1>3. HistoryIsTail
    <2> SUFFICES ASSUME NEW c \in Convs
                 PROVE  \E k \in 0..0 : <<>> = Newest(<<>>, k) \o <<>>
        BY <1>1 DEF Init, HistoryIsTail
    <2> WITNESS 0 \in 0..0
    <2> QED
        BY <1>1, <1>2
<1> QED
    BY <1>3 DEF Init, HistoryInv, RowsFromBoot

\* A message goes to the end of the history, whatever was loaded before.
LEMMA SendPreservesHistory ==
    ASSUME TypeOK, HistoryInv, NEW t \in Tasks, NEW c \in Convs,
           NEW ok \in BOOLEAN, SendMessage(t, c, ok)
    PROVE  HistoryInv'
<1> DEFINE m == lastMessage + 1
<1>1. /\ m \in Nat
      /\ messageHistory' = [messageHistory EXCEPT ![c] = Append(@, m)]
      /\ sinceBoot' = [sinceBoot EXCEPT ![c] = Append(@, m)]
      /\ chatMessages' = [chatMessages EXCEPT ![c] = Saved(@, m, ok)]
      /\ bootRows' = bootRows
    BY DEF SendMessage, bootVars, TypeOK
<1>2. \A x \in Convs : /\ messageHistory[x] \in Seq(Nat)
                       /\ sinceBoot[x] \in Seq(Nat)
                       /\ bootRows[x] \in Seq(Nat)
    BY DEF TypeOK
<1> HIDE DEF m
<1>3. HistoryIsTail'
    <2> SUFFICES ASSUME NEW x \in Convs
                 PROVE  \E k \in 0..Len(messageHistory'[x]) :
                            messageHistory'[x]
                                = Newest(bootRows[x], k) \o sinceBoot'[x]
        BY <1>1 DEF HistoryIsTail
    <2>1. PICK k \in 0..Len(messageHistory[x]) :
              messageHistory[x] = Newest(bootRows[x], k) \o sinceBoot[x]
        BY DEF HistoryInv, HistoryIsTail
    <2>2. CASE x # c
        BY <1>1, <2>1, <2>2 DEF TypeOK
    <2>3. CASE x = c
        <3>1. k \in Nat /\ Newest(bootRows[c], k) \in Seq(Nat)
            <4>1. k \in Nat
                BY <1>2, <2>1, LenProperties
            <4> QED
                BY <1>2, <4>1, NewestType
        <3>2. Append(Newest(bootRows[c], k) \o sinceBoot[c], m)
                  = Newest(bootRows[c], k) \o Append(sinceBoot[c], m)
            BY <1>1, <1>2, <3>1, AppendConcat
        <3>3. /\ messageHistory'[c] = Append(messageHistory[c], m)
              /\ sinceBoot'[c] = Append(sinceBoot[c], m)
              /\ k \in 0..Len(messageHistory'[c])
            BY <1>1, <1>2, <2>1, <2>3 DEF TypeOK
        <3> QED
            BY <2>1, <2>3, <3>2, <3>3
    <2> QED
        BY <2>2, <2>3
<1>4. RowsFromBoot'
    <2> SUFFICES ASSUME NEW x \in Convs, sinceBoot'[x] = <<>>
                 PROVE  chatMessages'[x] = bootRows[x]
        BY <1>1 DEF RowsFromBoot
    <2>1. x # c
        <3>1. Append(sinceBoot[c], m) # <<>>
            <4>1. sinceBoot[c] \in Seq(Nat) /\ m \in Nat
                BY <1>1, <1>2
            <4> QED
                BY <4>1, AppendProperties
        <3>2. sinceBoot'[c] = Append(sinceBoot[c], m)
            BY <1>1 DEF TypeOK
        <3> QED
            BY <3>1, <3>2
    <2> QED
        BY <1>1, <2>1 DEF HistoryInv, RowsFromBoot, TypeOK
<1> QED
    BY <1>3, <1>4 DEF HistoryInv

\* A load brings in the tail of the rows the process started from.
LEMMA LoadPreservesHistory ==
    ASSUME TypeOK, HistoryInv, NEW c \in Convs, NEW limit \in Limits,
           LoadHistory(c, limit)
    PROVE  HistoryInv'
<1>1. /\ messageHistory[c] = <<>>
      /\ messageHistory' = [messageHistory EXCEPT ![c] = Rows(c, limit)]
      /\ UNCHANGED <<chatMessages, sinceBoot, bootRows>>
    BY DEF LoadHistory, CacheEmpty, bootVars
<1>2. \A x \in Convs : /\ messageHistory[x] \in Seq(Nat)
                       /\ sinceBoot[x] \in Seq(Nat)
                       /\ bootRows[x] \in Seq(Nat)
    BY DEF TypeOK
<1>3. sinceBoot[c] = <<>>
    <2>1. PICK k \in 0..Len(messageHistory[c]) :
              messageHistory[c] = Newest(bootRows[c], k) \o sinceBoot[c]
        BY DEF HistoryInv, HistoryIsTail
    <2>2. k \in Nat
        BY <1>2, <2>1, LenProperties
    <2>3. Newest(bootRows[c], k) \in Seq(Nat)
        BY <1>2, <2>2, NewestType
    <2>4. Newest(bootRows[c], k) \o sinceBoot[c] = <<>>
        BY <1>1, <2>1
    <2>5. sinceBoot[c] \in Seq(Nat)
        BY <1>2
    <2> QED
        BY <2>3, <2>4, <2>5, ConcatEqualIffEmpty
<1>4. Rows(c, limit) = Newest(bootRows[c], limit)
    BY <1>3 DEF Rows, HistoryInv, RowsFromBoot
<1>5. HistoryIsTail'
    <2> SUFFICES ASSUME NEW x \in Convs
                 PROVE  \E k \in 0..Len(messageHistory'[x]) :
                            messageHistory'[x]
                                = Newest(bootRows[x], k) \o sinceBoot[x]
        BY <1>1 DEF HistoryIsTail
    <2>1. CASE x # c
        BY <1>1, <2>1 DEF HistoryInv, HistoryIsTail, TypeOK
    <2>2. CASE x = c
        <3> DEFINE k == Len(Newest(bootRows[c], limit))
        <3>1. limit \in Nat /\ Newest(bootRows[c], limit) \in Seq(Nat)
            BY <1>2, BoundsAssumption, NewestType
        <3>2. Newest(bootRows[c], limit) = Newest(bootRows[c], k)
            BY <1>2, <3>1, NewestEnds
        <3>3. messageHistory'[c] = Newest(bootRows[c], k)
            BY <1>1, <1>4, <3>2 DEF TypeOK
        <3>4. k \in Nat /\ Newest(bootRows[c], k) \in Seq(Nat)
            BY <3>1, <3>2, LenProperties
        <3>5. Newest(bootRows[c], k) \o <<>> = Newest(bootRows[c], k)
            BY <3>4, ConcatEmptySeq
        <3>6. Len(messageHistory'[c]) = k
            BY <3>2, <3>3
        <3> HIDE DEF k
        <3>7. k \in 0..Len(messageHistory'[c])
            BY <3>4, <3>6
        <3> QED
            BY <1>3, <2>2, <3>3, <3>5, <3>7
    <2> QED
        BY <2>1, <2>2
<1>6. RowsFromBoot'
    BY <1>1 DEF HistoryInv, RowsFromBoot
<1> QED
    BY <1>5, <1>6 DEF HistoryInv

\* A restart empties the histories, whatever the tables hold.
LEMMA RestartPreservesHistory ==
    ASSUME TypeOK, Restart
    PROVE  HistoryInv'
<1>1. /\ messageHistory' = [c \in Convs |-> <<>>]
      /\ sinceBoot' = [c \in Convs |-> <<>>]
      /\ bootRows' = chatMessages
      /\ chatMessages' = chatMessages
    BY DEF Restart
<1>2. <<>> \in Seq(Nat) /\ Len(<<>>) = 0 /\ <<>> \o <<>> = <<>>
    BY EmptySeq, ConcatEmptySeq
<1>3. HistoryIsTail'
    <2> SUFFICES ASSUME NEW c \in Convs
                 PROVE  \E k \in 0..0 : <<>> = Newest(chatMessages[c], k) \o <<>>
        BY <1>1, <1>2 DEF HistoryIsTail
    <2>1. Newest(chatMessages[c], 0) = <<>>
        BY NewestEnds DEF TypeOK
    <2> WITNESS 0 \in 0..0
    <2> QED
        BY <1>2, <2>1
<1> QED
    BY <1>1, <1>3 DEF HistoryInv, RowsFromBoot

\* Every step keeps histories tails.
LEMMA NextHistoryInv ==
    TypeOK /\ HistoryInv /\ [Next]_vars => HistoryInv'
<1> SUFFICES ASSUME TypeOK, HistoryInv, [Next]_vars
             PROVE  HistoryInv'
    OBVIOUS
<1>1. CASE UNCHANGED <<historyVars, bootVars>>
    BY <1>1
    DEF historyVars, bootVars, HistoryInv, HistoryIsTail, RowsFromBoot
<1> QED
    BY <1>1, SendPreservesHistory, LoadPreservesHistory,
       RestartPreservesHistory, HistoryFrame

\* The in-memory history is always a tail of the rows the process started from
\* followed by everything it has accepted since, in order: no load hides,
\* repeats or reorders a message, however many, and whatever saves failed.
THEOREM ChatHistory == Spec => []HistoryIsTail
<1>1. HistoryInv => HistoryIsTail
    BY DEF HistoryInv
<1> QED
    BY InitHistoryInv, NextHistoryInv, ChatTypes, <1>1, PTL DEF Spec

-----------------------------------------------------------------------------
(* The histories as logs: ConversationLog holds, step by step.               *)

\* The newest rows are the rows from one of them on.
LEMMA NewestIsSuffix ==
    ASSUME NEW s \in Seq(Nat), NEW n \in Nat \ {0}, Newest(s, n) # <<>>
    PROVE  \E first \in DOMAIN s : Newest(s, n) = SubSeq(s, first, Len(s))
<1>1. Len(s) \in Nat /\ DOMAIN s = 1..Len(s)
    BY LenProperties
<1>2. CASE Len(s) > n
    <2>1. Len(s) - n + 1 \in DOMAIN s
        BY <1>1, <1>2
    <2> QED
        BY <1>2, <2>1 DEF Newest
<1>3. CASE ~(Len(s) > n)
    <2>1. Newest(s, n) = s
        BY <1>3 DEF Newest
    <2>2. 1 \in DOMAIN s
        BY <1>1, <2>1, EmptySeq
    <2>3. SubSeq(s, 1, Len(s)) = s
        BY SubSeqFull
    <2> QED
        BY <2>1, <2>2, <2>3
<1> QED
    BY <1>2, <1>3

LEMMA LogInit == Init => Log!Init
    BY DEF Init, Log!Init

\* A message is accepted whatever becomes of its row.
LEMMA SendIsLogged ==
    ASSUME TypeOK, NEW t \in Tasks, NEW c \in Convs, NEW ok \in BOOLEAN,
           SendMessage(t, c, ok)
    PROVE  Log!Accept(c)
<1>1. /\ lastMessage' = lastMessage + 1
      /\ messageHistory' = [messageHistory EXCEPT ![c] = Append(@, lastMessage')]
      /\ chatMessages' = [chatMessages EXCEPT ![c] = Saved(@, lastMessage', ok)]
    BY DEF SendMessage
<1>2. CASE ok
    BY <1>1, <1>2 DEF Saved, Log!Accept
<1>3. CASE ~ok
    <2>1. chatMessages' = chatMessages
        BY <1>1, <1>3 DEF Saved, TypeOK
    <2> QED
        BY <1>1, <2>1 DEF Log!Accept
<1> QED
    BY <1>2, <1>3

\* A load recalls.
LEMMA LoadIsLogged ==
    ASSUME TypeOK, NEW c \in Convs, NEW limit \in Limits, LoadHistory(c, limit)
    PROVE  Log!Recall(c)
<1>1. chatMessages[c] \in Seq(Nat) /\ limit \in Nat \ {0}
    BY BoundsAssumption DEF TypeOK
<1>2. /\ messageHistory[c] = <<>>
      /\ Newest(chatMessages[c], limit) # <<>>
      /\ messageHistory' =
             [messageHistory EXCEPT ![c] = Newest(chatMessages[c], limit)]
      /\ UNCHANGED <<chatMessages, lastMessage>>
    BY DEF LoadHistory, CacheEmpty, Rows
<1>3. PICK first \in DOMAIN chatMessages[c] :
          Newest(chatMessages[c], limit)
              = SubSeq(chatMessages[c], first, Len(chatMessages[c]))
    BY <1>1, <1>2, NewestIsSuffix
<1> QED
    BY <1>2, <1>3 DEF Log!Recall

\* Every step is one of the log's, or changes nothing of it.
LEMMA LogNext == TypeOK /\ [Next]_vars => [Log!Next]_(Log!logVars)
<1> SUFFICES ASSUME TypeOK, [Next]_vars
             PROVE  [Log!Next]_(Log!logVars)
    OBVIOUS
<1>1. ASSUME NEW t \in Tasks, NEW c \in Convs, NEW ok \in BOOLEAN,
             SendMessage(t, c, ok)
      PROVE  Log!Next
    BY <1>1, SendIsLogged DEF Log!Next
<1>2. ASSUME NEW c \in Convs, NEW limit \in Limits, LoadHistory(c, limit)
      PROVE  Log!Next
    BY <1>2, LoadIsLogged DEF Log!Next
<1>3. CASE Restart
    BY <1>3 DEF Restart, Log!Restart, Log!Next
<1>4. CASE UNCHANGED <<historyVars, bootVars>>
    BY <1>4 DEF historyVars, Log!logVars
<1> QED
    BY <1>1, <1>2, <1>3, <1>4, HistoryFrame

\* The chat service keeps its readers' log, whatever deliveries, departures,
\* escalations, failed saves and restarts come in between.
THEOREM ChatKeepsLog == Spec => HistoriesAreLogs
    BY LogInit, LogNext, ChatTypes, PTL DEF Spec, HistoriesAreLogs, Log!Spec

\* A log and the table behind it are in order.
OrderInv ==
    /\ messageHistory \in [Convs -> Seq(Nat)]
    /\ chatMessages \in [Convs -> Seq(Nat)]
    /\ lastMessage \in Nat
    /\ \A c \in Convs : /\ Log!InOrder(messageHistory[c], lastMessage)
                        /\ Log!InOrder(chatMessages[c], lastMessage)

\* What was in order still is, and so is what the next message is added to.
LEMMA AppendInOrder ==
    ASSUME NEW n \in Nat, NEW s \in Seq(Nat), Log!InOrder(s, n)
    PROVE  /\ Append(s, n + 1) \in Seq(Nat)
           /\ Log!InOrder(s, n + 1)
           /\ Log!InOrder(Append(s, n + 1), n + 1)
<1> DEFINE a == Append(s, n + 1)
<1>1. Len(s) \in Nat /\ DOMAIN s = 1..Len(s)
    BY LenProperties
<1>2. /\ a \in Seq(Nat)
      /\ DOMAIN a = 1..(Len(s) + 1)
      /\ \A i \in 1..Len(s) : a[i] = s[i]
      /\ a[Len(s) + 1] = n + 1
    <2>1. n + 1 \in Nat
        OBVIOUS
    <2> QED
        BY <1>1, <2>1, AppendProperties
<1>3. /\ \A i \in 1..Len(s) : s[i] \in 1..n
      /\ \A i, j \in 1..Len(s) : i < j => s[i] < s[j]
    BY <1>1 DEF Log!InOrder
<1> HIDE DEF a
<1>4. \A i \in 1..Len(s) : s[i] \in 1..(n + 1)
    BY <1>3
<1>5. \A i \in DOMAIN a : a[i] \in 1..(n + 1)
    <2> SUFFICES ASSUME NEW i \in 1..(Len(s) + 1)
                 PROVE  a[i] \in 1..(n + 1)
        BY <1>2
    <2>1. CASE i = Len(s) + 1
        BY <1>2, <2>1
    <2>2. CASE i # Len(s) + 1
        <3>1. i \in 1..Len(s)
            BY <1>1, <2>2
        <3> QED
            BY <1>2, <1>4, <3>1
    <2> QED
        BY <2>1, <2>2
<1>6. \A i, j \in DOMAIN a : i < j => a[i] < a[j]
    <2> SUFFICES ASSUME NEW i \in 1..(Len(s) + 1), NEW j \in 1..(Len(s) + 1), i < j
                 PROVE  a[i] < a[j]
        BY <1>2
    <2>1. i \in 1..Len(s)
        BY <1>1
    <2>2. a[i] = s[i] /\ s[i] \in 1..n
        BY <1>2, <1>3, <2>1
    <2>3. CASE j = Len(s) + 1
        <3>1. a[j] = n + 1
            BY <1>2, <2>3
        <3> QED
            BY <2>2, <3>1
    <2>4. CASE j # Len(s) + 1
        <3>1. j \in 1..Len(s)
            BY <1>1, <2>4
        <3> QED
            BY <1>2, <1>3, <2>1, <3>1
    <2> QED
        BY <2>3, <2>4
<1> QED
    BY <1>1, <1>2, <1>3, <1>4, <1>5, <1>6 DEF a, Log!InOrder

\* The end of what is in order is in order.
LEMMA SuffixInOrder ==
    ASSUME NEW s \in Seq(Nat), NEW n, Log!InOrder(s, n), NEW first \in DOMAIN s
    PROVE  /\ SubSeq(s, first, Len(s)) \in Seq(Nat)
           /\ Log!InOrder(SubSeq(s, first, Len(s)), n)
<1> DEFINE z == SubSeq(s, first, Len(s))
<1>1. Len(s) \in Nat /\ DOMAIN s = 1..Len(s)
    BY LenProperties
<1>2. \A i \in first..Len(s) : s[i] \in Nat
    BY <1>1
<1>3. /\ z \in Seq(Nat)
      /\ Len(z) = Len(s) - first + 1
      /\ \A i \in 1..(Len(s) - first + 1) : z[i] = s[first + i - 1]
    BY <1>1, <1>2, SubSeqProperties
<1>4. DOMAIN z = 1..(Len(s) - first + 1)
    BY <1>3, LenProperties
<1> HIDE DEF z
<1>5. \A i \in DOMAIN z : z[i] = s[first + i - 1]
    BY <1>3, <1>4
<1>6. \A i \in DOMAIN z : first + i - 1 \in DOMAIN s
    <2>1. \A l \in Nat : \A f \in 1..l : \A i \in 1..(l - f + 1) : f + i - 1 \in 1..l
        OBVIOUS
    <2> QED
        BY <1>1, <1>4, <2>1
<1>7. \A i \in DOMAIN z : z[i] \in 1..n
    BY <1>5, <1>6 DEF Log!InOrder
<1>8. \A i, j \in DOMAIN z : i < j => z[i] < z[j]
    <2> SUFFICES ASSUME NEW i \in DOMAIN z, NEW j \in DOMAIN z, i < j
                 PROVE  z[i] < z[j]
        OBVIOUS
    <2>1. first + i - 1 < first + j - 1
        BY <1>1, <1>4
    <2> QED
        BY <1>5, <1>6, <2>1 DEF Log!InOrder
<1> QED
    BY <1>3, <1>7, <1>8 DEF z, Log!InOrder

\* Order is kept by every step of the log.
LEMMA OrderNext == OrderInv /\ [Log!Next]_(Log!logVars) => OrderInv'
<1> SUFFICES ASSUME OrderInv, [Log!Next]_(Log!logVars)
             PROVE  OrderInv'
    OBVIOUS
<1>1. CASE UNCHANGED Log!logVars
    BY <1>1 DEF Log!logVars, OrderInv
<1>2. ASSUME NEW c \in Convs, Log!Accept(c)
      PROVE  OrderInv'
    <2>1. /\ lastMessage' = lastMessage + 1 /\ lastMessage \in Nat
          /\ messageHistory' = [messageHistory EXCEPT ![c] = Append(@, lastMessage')]
          /\ \/ chatMessages' = [chatMessages EXCEPT ![c] = Append(@, lastMessage')]
             \/ chatMessages' = chatMessages
        BY <1>2 DEF Log!Accept, OrderInv
    <2>2. \A s \in Seq(Nat) : Log!InOrder(s, lastMessage) =>
              /\ Append(s, lastMessage') \in Seq(Nat)
              /\ Log!InOrder(s, lastMessage')
              /\ Log!InOrder(Append(s, lastMessage'), lastMessage')
        BY <2>1, AppendInOrder
    <2>3. \A x \in Convs :
              /\ messageHistory'[x] \in {messageHistory[x], Append(messageHistory[x], lastMessage')}
              /\ chatMessages'[x] \in {chatMessages[x], Append(chatMessages[x], lastMessage')}
        BY <2>1 DEF OrderInv
    <2>4. \A x \in Convs :
              /\ messageHistory[x] \in Seq(Nat) /\ Log!InOrder(messageHistory[x], lastMessage)
              /\ chatMessages[x] \in Seq(Nat) /\ Log!InOrder(chatMessages[x], lastMessage)
        BY DEF OrderInv
    <2>5. \A x \in Convs :
              /\ messageHistory'[x] \in Seq(Nat) /\ Log!InOrder(messageHistory'[x], lastMessage')
              /\ chatMessages'[x] \in Seq(Nat) /\ Log!InOrder(chatMessages'[x], lastMessage')
        BY <2>2, <2>3, <2>4
    <2>6. /\ DOMAIN messageHistory' = Convs /\ messageHistory' = [x \in Convs |-> messageHistory'[x]]
          /\ DOMAIN chatMessages' = Convs /\ chatMessages' = [x \in Convs |-> chatMessages'[x]]
        BY <2>1 DEF OrderInv
    <2>7. lastMessage' \in Nat
        BY <2>1
    <2>8. /\ messageHistory' \in [Convs -> Seq(Nat)]
          /\ chatMessages' \in [Convs -> Seq(Nat)]
        BY <2>5, <2>6
    <2> QED
        BY <2>5, <2>7, <2>8 DEF OrderInv
<1>3. ASSUME NEW c \in Convs, Log!Recall(c)
      PROVE  OrderInv'
    <2>1. PICK first \in DOMAIN chatMessages[c] :
              messageHistory' = [messageHistory EXCEPT ![c] =
                  SubSeq(chatMessages[c], first, Len(chatMessages[c]))]
        BY <1>3 DEF Log!Recall
    <2>2. UNCHANGED <<chatMessages, lastMessage>>
        BY <1>3 DEF Log!Recall
    <2>3. /\ SubSeq(chatMessages[c], first, Len(chatMessages[c])) \in Seq(Nat)
          /\ Log!InOrder(SubSeq(chatMessages[c], first, Len(chatMessages[c])), lastMessage)
        BY SuffixInOrder DEF OrderInv
    <2> QED
        BY <2>1, <2>2, <2>3 DEF OrderInv
<1>4. CASE Log!Restart
    <2>1. <<>> \in Seq(Nat) /\ DOMAIN <<>> = {}
        OBVIOUS
    <2> QED
        BY <1>4, <2>1 DEF Log!Restart, OrderInv, Log!InOrder
<1> QED
    BY <1>1, <1>2, <1>3, <1>4 DEF Log!Next

\* Nobody is shown a message twice or out of order: a fact about the log, and
\* so about the service that keeps it.
THEOREM ChatInOrder == Spec => []Log!MessagesInOrder
<1>1. Log!Init => OrderInv
    <2>1. <<>> \in Seq(Nat) /\ DOMAIN <<>> = {}
        OBVIOUS
    <2> QED
        BY <2>1 DEF Log!Init, OrderInv, Log!InOrder
<1>2. OrderInv => Log!MessagesInOrder
    BY DEF OrderInv, Log!MessagesInOrder
<1>3. Log!Spec => []Log!MessagesInOrder
    BY <1>1, <1>2, OrderNext, PTL DEF Log!Spec
<1> QED
    BY <1>3, ChatKeepsLog DEF HistoriesAreLogs

-----------------------------------------------------------------------------
(* Deliveries.  A loop's iterator yields the socket of the next rank.  Ranks *)
(* of those already sent to only fall (sockets leave) or stay (new sockets   *)
(* come last), so they stay at or below pos and none is yielded again.       *)

ArrivalsSoFar == \A ws \in Sockets : arrival[ws] <= joined

LoopInv(t) ==
    LET d == delivery[t]
    IN  /\ Cardinality(d.attempted) = d.pos
        /\ \A ws \in d.attempted : handler[ws] # "new"
        /\ d.attached => \A ws \in d.attempted \cap activeConnections[d.conv] :
                            Rank(d.conv, ws) <= d.pos

DeliveryInv ==
    /\ ArrivalsSoFar
    /\ \A t \in Tasks : delivery[t].busy => LoopInv(t)

\* The steps by what they do to loops and to the lists these walk.
LEMMA DeliveryFrame ==
    ASSUME [Next]_vars
    PROVE  \/ \E ws \in Sockets : Connect(ws) \/ Disconnect(ws)
           \/ \E t \in Tasks, ok \in BOOLEAN :
                 SendAndContinue(t, ok) \/ SendAndFinish(t, ok)
           \/ \E t \in Tasks, c \in Convs :
                 BeginDelivery(t, c) /\ UNCHANGED <<registryVars, handler>>
           \/ Restart
           \/ UNCHANGED <<registryVars, handler, delivery>>
<1> DEFINE Begins ==
        \E t \in Tasks, c \in Convs :
            BeginDelivery(t, c) /\ UNCHANGED <<registryVars, handler>>
<1>1. ASSUME NEW t \in Tasks, NEW c \in Convs,
             \/ \E ok \in BOOLEAN : SendMessage(t, c, ok)
             \/ BroadcastEvent(t, c)
             \/ \E reason \in Reasons, ok \in BOOLEAN : Escalate(t, c, reason, ok)
             \/ \E a \in Agents : Assign(t, c, a)
      PROVE  Begins
    <2>1. BeginDelivery(t, c) /\ UNCHANGED <<registryVars, handler>>
        BY <1>1
        DEF SendMessage, BroadcastEvent, Escalate, Assign, taskVars,
            registryVars
    <2> QED
        BY <2>1
<1> HIDE DEF Begins
<1>2. ASSUME NEW ws \in Sockets, SocketSends(ws)
      PROVE  Begins
    BY <1>1, <1>2, SocketsAssumption DEF SocketSends, Tasks
<1>3. ASSUME NEW r \in Requests,
             RequestSends(r) \/ RequestEscalates(r) \/ RequestAssigns(r)
      PROVE  Begins
    BY <1>1, <1>3
    DEF RequestSends, RequestEscalates, RequestAssigns, Tasks
<1>4. CASE \/ \E ws \in Sockets : ClientLeaves(ws)
           \/ ReadHistory
           \/ UNCHANGED vars
    BY <1>4
    DEF ClientLeaves, ReadHistory, LoadHistory, vars, registryVars, taskVars
<1> QED
    BY <1>2, <1>3, <1>4 DEF Next, DeliveryStep, Begins

\* When sockets only leave a list, no rank in it rises.
LEMMA RankFalls ==
    ASSUME TypeOK, NEW c \in Convs, NEW ws \in Sockets,
           activeConnections'[c] \subseteq activeConnections[c],
           UNCHANGED arrival
    PROVE  Rank(c, ws)' <= Rank(c, ws) /\ Rank(c, ws)' \in Nat
<1> DEFINE before == {x \in activeConnections[c] : arrival[x] <= arrival[ws]}
           after == {x \in activeConnections'[c] : arrival[x] <= arrival[ws]}
<1>1. before \subseteq Sockets /\ after \in SUBSET before
    BY DEF TypeOK
<1>2. IsFiniteSet(before)
    BY <1>1, SocketsAssumption, FS_Subset
<1>3. Cardinality(after) <= Cardinality(before) /\ IsFiniteSet(after)
    BY <1>1, <1>2, FS_Subset
<1>4. Cardinality(after) \in Nat
    BY <1>3, FS_CardinalityType
<1> QED
    BY <1>3, <1>4 DEF Rank

\* Ranks are natural numbers.
LEMMA RankType ==
    ASSUME TypeOK, NEW c \in Convs, NEW ws \in Sockets
    PROVE  Rank(c, ws) \in Nat
<1>1. {x \in activeConnections[c] : arrival[x] <= arrival[ws]} \in SUBSET Sockets
    BY DEF TypeOK
<1> QED
    BY <1>1, SocketsAssumption, FS_Subset, FS_CardinalityType DEF Rank

\* A loop that is not touched keeps its invariant while sockets leave.
LEMMA LoopKept ==
    ASSUME TypeOK, NEW t \in Tasks, delivery[t].busy, LoopInv(t),
           \/ delivery'[t] = delivery[t]
           \/ delivery'[t] = [delivery[t] EXCEPT !.attached = FALSE],
           \A c \in Convs : activeConnections'[c] \subseteq activeConnections[c],
           \A ws \in Sockets : handler[ws] # "new" => handler'[ws] # "new",
           UNCHANGED arrival
    PROVE  LoopInv(t)'
<1>1. delivery[t] \in Delivery
    BY BusyDelivery
<1>2. /\ delivery'[t].attempted = delivery[t].attempted
      /\ delivery'[t].pos = delivery[t].pos
      /\ delivery'[t].conv = delivery[t].conv
      /\ delivery'[t].attached => delivery[t].attached
    BY <1>1 DEF Delivery
<1>3. /\ delivery[t].conv \in Convs
      /\ delivery[t].attempted \subseteq Sockets
      /\ delivery[t].pos \in Nat
    BY <1>1 DEF Delivery
<1>4. PICK c \in Convs : c = delivery[t].conv
    BY <1>3
<1>5. ASSUME delivery[t].attached,
             NEW ws \in delivery[t].attempted \cap activeConnections'[c]
      PROVE  Rank(c, ws)' <= delivery[t].pos
    <2>1. ws \in Sockets /\ ws \in activeConnections[c]
        BY <1>3
    <2>2. Rank(c, ws) <= delivery[t].pos
        BY <1>4, <1>5, <2>1 DEF LoopInv
    <2>3. Rank(c, ws)' <= Rank(c, ws) /\ Rank(c, ws)' \in Nat
        BY <2>1, RankFalls
    <2>4. Rank(c, ws) \in Nat
        BY <2>1, RankType
    <2> QED
        BY <1>3, <2>2, <2>3, <2>4
<1>6. LoopInv(t)' <=>
          /\ Cardinality(delivery[t].attempted) = delivery[t].pos
          /\ \A ws \in delivery[t].attempted : handler'[ws] # "new"
          /\ delivery'[t].attached =>
                \A ws \in delivery[t].attempted \cap activeConnections'[c] :
                    Rank(c, ws)' <= delivery[t].pos
    BY <1>2, <1>4 DEF LoopInv, Rank
<1> QED
    BY <1>2, <1>3, <1>5, <1>6 DEF LoopInv

\* A connecting socket comes last: it changes no other socket's rank.
LEMMA ConnectKeepsRank ==
    ASSUME TypeOK, RegisteredHandlersRun, ArrivalsSoFar, NEW ws \in Sockets,
           Connect(ws), NEW c \in Convs, NEW x \in Sockets, x # ws
    PROVE  Rank(c, x)' = Rank(c, x)
<1>1. /\ arrival'[ws] = joined + 1
      /\ \A y \in Sockets : y # ws => arrival'[y] = arrival[y]
      /\ \A y \in Sockets : y # ws =>
             (y \in activeConnections'[c] <=> y \in activeConnections[c])
      /\ ws \notin activeConnections[c]
    BY SocketsAssumption
    DEF Connect, ArrivalAtEnd, TypeOK, RegisteredHandlersRun
<1>2. ~(joined + 1 <= arrival[x])
    BY DEF ArrivalsSoFar, TypeOK
<1>3. \A d \in Convs :
          activeConnections[d] \subseteq Sockets
              /\ activeConnections'[d] \subseteq Sockets
    BY SocketsAssumption DEF Connect, TypeOK
<1>4. {y \in activeConnections'[c] : arrival'[y] <= arrival'[x]}
          = {y \in activeConnections[c] : arrival[y] <= arrival[x]}
    BY <1>1, <1>2, <1>3
<1> QED
    BY <1>4 DEF Rank

\* A loop keeps its invariant while sockets connect.
LEMMA LoopConnect ==
    ASSUME TypeOK, RegisteredHandlersRun, ArrivalsSoFar, NEW ws \in Sockets,
           Connect(ws), NEW t \in Tasks, delivery[t].busy, LoopInv(t)
    PROVE  LoopInv(t)'
<1>1. delivery[t] \in Delivery /\ delivery'[t] = delivery[t]
    BY BusyDelivery DEF Connect
<1>2. PICK c \in Convs : c = delivery[t].conv
    BY <1>1 DEF Delivery
<1>3. /\ delivery[t].attempted \subseteq Sockets
      /\ \A x \in delivery[t].attempted : x # ws /\ handler'[x] # "new"
    BY <1>1 DEF Delivery, Connect, LoopInv, TypeOK
<1>4. ASSUME delivery[t].attached,
             NEW x \in delivery[t].attempted \cap activeConnections'[c]
      PROVE  Rank(c, x)' <= delivery[t].pos
    <2>1. x \in Sockets /\ x # ws
        BY <1>3
    <2>2. x \in activeConnections[c]
        BY <2>1, SocketsAssumption DEF Connect, TypeOK
    <2>3. Rank(c, x) <= delivery[t].pos
        BY <1>2, <1>4, <2>2 DEF LoopInv
    <2> QED
        BY <2>1, <2>3, ConnectKeepsRank
<1> QED
    BY <1>1, <1>2, <1>3, <1>4 DEF LoopInv, Rank

\* A loop that begins has sent to the first socket of the list.
LEMMA LoopBegins ==
    ASSUME TypeOK, RegisteredHandlersRun, NEW t \in Tasks, NEW c \in Convs,
           BeginDelivery(t, c), UNCHANGED <<registryVars, handler>>,
           NEW x \in Tasks, delivery[x].busy => LoopInv(x), delivery'[x].busy
    PROVE  LoopInv(x)'
<1> USE DEF registryVars
<1>1. CASE delivery'[x] = delivery[x]
    BY <1>1, LoopKept
<1>2. CASE x = t /\ delivery' # delivery
    <2>1. PICK ws \in ListItem(c, 1) :
              delivery' = [delivery EXCEPT ![t] =
                  [busy |-> TRUE, conv |-> c, pos |-> 1, target |-> ws,
                   attached |-> TRUE, failed |-> {}, attempted |-> {ws},
                   owed |-> activeConnections[c]]]
        BY <1>2 DEF BeginDelivery
    <2>2. delivery'[t] =
              [busy |-> TRUE, conv |-> c, pos |-> 1, target |-> ws,
               attached |-> TRUE, failed |-> {}, attempted |-> {ws},
               owed |-> activeConnections[c]]
        BY <2>1 DEF TypeOK
    <2>3. handler'[ws] # "new" /\ Rank(c, ws) = 1
        BY DEF ListItem, RegisteredHandlersRun
    <2>4. Cardinality({ws}) = 1
        BY FS_Singleton
    <2> QED
        BY <1>2, <2>2, <2>3, <2>4 DEF LoopInv, Rank
<1>3. CASE x # t
    <2>1. delivery'[x] = delivery[x]
        BY <1>3 DEF BeginDelivery, TypeOK
    <2> QED
        BY <1>1, <2>1
<1> QED
    BY <1>1, <1>2, <1>3

\* A loop that goes on sends to a socket it has not sent to.
LEMMA LoopMoves ==
    ASSUME TypeOK, RegisteredHandlersRun, NEW t \in Tasks, NEW ok \in BOOLEAN,
           LoopInv(t), SendAndContinue(t, ok)
    PROVE  LoopInv(t)'
<1>1. delivery[t] \in Delivery
    BY BusyDelivery DEF SendAndContinue
<1>2. PICK c \in Convs : c = delivery[t].conv
    BY <1>1 DEF Delivery
<1>3. PICK ws \in NextItem(delivery[t]) :
          delivery' = [delivery EXCEPT ![t] =
              [delivery[t] EXCEPT
                  !.pos = NextIndex(delivery[t]), !.target = ws,
                  !.failed = FailedAfter(delivery[t], ok),
                  !.attempted = @ \cup {ws}]]
    BY DEF SendAndContinue
<1>4. /\ delivery'[t].pos = delivery[t].pos + 1
      /\ delivery'[t].conv = c
      /\ delivery'[t].attached = delivery[t].attached
      /\ delivery'[t].attempted = delivery[t].attempted \cup {ws}
    BY <1>1, <1>2, <1>3 DEF TypeOK, Delivery, NextIndex
<1>5. /\ delivery[t].attached
      /\ ws \in activeConnections[c]
      /\ Rank(c, ws) = delivery[t].pos + 1
    BY <1>2, <1>3 DEF NextItem, ListItem, NextIndex
<1>6. /\ delivery[t].pos \in Nat
      /\ delivery[t].attempted \in SUBSET Sockets
    BY <1>1 DEF Delivery
<1>7. ws \notin delivery[t].attempted
    BY <1>2, <1>5, <1>6 DEF LoopInv
<1>8. IsFiniteSet(delivery[t].attempted)
    BY <1>6, SocketsAssumption, FS_Subset
<1>9. Cardinality(delivery'[t].attempted) = delivery'[t].pos
    BY <1>4, <1>7, <1>8, FS_AddElement DEF LoopInv
<1>10. UNCHANGED <<registryVars, handler>>
    BY DEF SendAndContinue, taskVars
<1>11. \A x \in delivery'[t].attempted : handler'[x] # "new"
    BY <1>4, <1>5, <1>10 DEF LoopInv, RegisteredHandlersRun
<1>12. ASSUME NEW x \in delivery'[t].attempted \cap activeConnections[c]
       PROVE  Rank(c, x) <= delivery[t].pos + 1
    <2>1. CASE x = ws
        BY <1>5, <1>6, <2>1
    <2>2. CASE x \in delivery[t].attempted
        <3>1. Rank(c, x) <= delivery[t].pos
            BY <1>2, <1>5, <2>2 DEF LoopInv
        <3>2. Rank(c, x) \in Nat
            BY <1>6, <2>2, RankType
        <3> QED
            BY <1>6, <3>1, <3>2
    <2> QED
        BY <1>4, <2>1, <2>2
<1> QED
    BY <1>4, <1>9, <1>10, <1>11, <1>12 DEF LoopInv, Rank, registryVars

\* No loop runs at the start.
LEMMA InitDeliveryInv == Init => DeliveryInv
    BY DEF Init, DeliveryInv, ArrivalsSoFar, Idle

\* Arrivals are stamped in order.
LEMMA NextArrivals ==
    TypeOK /\ ArrivalsSoFar /\ [Next]_vars => ArrivalsSoFar'
<1> SUFFICES ASSUME TypeOK, ArrivalsSoFar, [Next]_vars
             PROVE  ArrivalsSoFar'
    OBVIOUS
<1>1. ASSUME NEW ws \in Sockets, Connect(ws)
      PROVE  ArrivalsSoFar'
    BY <1>1 DEF Connect, ArrivalAtEnd, TypeOK, ArrivalsSoFar
<1>2. CASE Restart
    BY <1>2 DEF Restart, ArrivalsSoFar
<1>3. ASSUME UNCHANGED <<arrival, joined>>
      PROVE  ArrivalsSoFar'
    BY <1>3 DEF ArrivalsSoFar
<1> QED
    BY <1>1, <1>2, <1>3, DeliveryFrame
    DEF Disconnect, SendAndContinue, SendAndFinish, registryVars

\* Every step keeps the invariant of every running loop.
LEMMA NextDeliveryInv ==
    TypeOK /\ RegistriesNameRunningHandlers /\ DeliveryInv /\ [Next]_vars => DeliveryInv'
<1> SUFFICES ASSUME TypeOK, RegisteredHandlersRun, DeliveryInv, [Next]_vars,
                    NEW x \in Tasks, delivery'[x].busy
             PROVE  LoopInv(x)'
    BY NextArrivals DEF RegistriesNameRunningHandlers, DeliveryInv
<1>1. delivery[x].busy => LoopInv(x)
    BY DEF DeliveryInv
<1>2. ASSUME NEW ws \in Sockets, Connect(ws)
      PROVE  LoopInv(x)'
    <2>1. delivery[x].busy
        BY <1>2 DEF Connect
    <2> QED
        BY <1>1, <1>2, <2>1, LoopConnect DEF DeliveryInv
<1>3. ASSUME NEW ws \in Sockets, Disconnect(ws)
      PROVE  LoopInv(x)'
    <2>1. \/ delivery'[x] = delivery[x]
          \/ /\ delivery[x].conv = ConvOf[ws]
             /\ delivery'[x] = [delivery[x] EXCEPT !.attached = FALSE]
        BY <1>3 DEF Disconnect
    <2>2. delivery[x].busy
        <3>1. CASE delivery'[x] = delivery[x]
            BY <3>1
        <3>2. CASE delivery[x].conv = ConvOf[ws]
            <4>1. delivery[x] \in Delivery
                BY <3>2, SocketsAssumption, DisjointAssumption DEF TypeOK, Idle
            <4> QED
                BY <4>1 DEF Delivery
        <3> QED
            BY <2>1, <3>1, <3>2
    <2>3. /\ \A c \in Convs : activeConnections'[c] \subseteq activeConnections[c]
          /\ \A w \in Sockets : handler[w] # "new" => handler'[w] # "new"
          /\ UNCHANGED arrival
        BY <1>3, SocketsAssumption DEF Disconnect, RegistryWithout, TypeOK
    <2> QED
        BY <1>1, <2>1, <2>2, <2>3, LoopKept
<1>4. ASSUME NEW t \in Tasks, NEW ok \in BOOLEAN, SendAndContinue(t, ok)
      PROVE  LoopInv(x)'
    <2>1. CASE x = t
        BY <1>1, <1>4, <2>1, LoopMoves DEF SendAndContinue
    <2>2. CASE x # t
        <3>1. delivery'[x] = delivery[x]
            BY <1>4, <2>2 DEF SendAndContinue, TypeOK
        <3>2. UNCHANGED <<registryVars, handler>>
            BY <1>4 DEF SendAndContinue, taskVars
        <3> QED
            BY <1>1, <3>1, <3>2, LoopKept DEF registryVars
    <2> QED
        BY <2>1, <2>2
<1>5. ASSUME NEW t \in Tasks, NEW ok \in BOOLEAN, SendAndFinish(t, ok)
      PROVE  LoopInv(x)'
    <2>1. x # t
        BY <1>5 DEF SendAndFinish, TypeOK, Idle
    <2>2. delivery'[x] = delivery[x]
        BY <1>5, <2>1 DEF SendAndFinish, TypeOK
    <2>3. /\ \A c \in Convs : activeConnections'[c] \subseteq activeConnections[c]
          /\ UNCHANGED <<arrival, handler>>
        BY <1>5 DEF SendAndFinish, taskVars, TypeOK
    <2> QED
        BY <1>1, <2>2, <2>3, LoopKept
<1>6. ASSUME NEW t \in Tasks, NEW c \in Convs, BeginDelivery(t, c),
             UNCHANGED <<registryVars, handler>>
      PROVE  LoopInv(x)'
    BY <1>1, <1>6, LoopBegins
<1>7. CASE Restart
    BY <1>7 DEF Restart, Idle
<1>8. CASE UNCHANGED <<registryVars, handler, delivery>>
    BY <1>1, <1>8, LoopKept DEF registryVars
<1> QED
    BY <1>2, <1>3, <1>4, <1>5, <1>6, <1>7, <1>8, DeliveryFrame

\* No delivery loop ever sends to one socket twice, although connects,
\* disconnects and the sweeps of other loops change the list under its
\* iterator while it awaits.
THEOREM ChatDelivery == Spec => []AtMostOncePerDelivery
<1>1. DeliveryInv => AtMostOncePerDelivery
    BY DEF DeliveryInv, LoopInv, AtMostOncePerDelivery
<1> QED
    BY InitDeliveryInv, NextDeliveryInv, InitRegistries, NextRegistries,
       ChatTypes, <1>1, PTL DEF Spec

-----------------------------------------------------------------------------
(* Skips.  A loop has taken pos elements from the list.  Those it has sent   *)
(* to and that are still listed have a rank up to pos, and so have those it  *)
(* has passed over; but no more than pos sockets can have such a rank.  So   *)
(* whoever was passed over took the place of one that left.                  *)

\* A set of numbers has a smallest one.
LEMMA SmallestOf ==
    ASSUME NEW S \in SUBSET Nat, S # {}
    PROVE  \E n \in S : \A m \in S : n <= m
<1> DEFINE R == OpToRel(<, Nat)
<1>1. IsWellFoundedOn(R, Nat)
    BY NatLessThanWellFounded
<1>2. \A m, n \in Nat : <<m, n>> \in R <=> m < n
    BY DEF OpToRel
<1> HIDE DEF R
<1>3. PICK n \in S : \A m \in S : ~ (<<m, n>> \in R)
    BY <1>1, WFMin
<1>4. ASSUME NEW m \in S
      PROVE  n <= m
    <2>1. m \in Nat /\ n \in Nat
        BY <1>4
    <2>2. ~ (m < n)
        BY <1>2, <1>3, <1>4, <2>1
    <2> QED
        BY <2>1, <2>2
<1> QED
    BY <1>4

\* Some socket came last.
LEMMA LastArrival ==
    ASSUME TypeOK, ArrivalsSoFar, NEW T \in SUBSET Sockets, T # {}
    PROVE  \E last \in T : \A ws \in T : arrival[ws] <= arrival[last]
<1> DEFINE gaps == {joined - arrival[ws] : ws \in T}
<1>1. \A ws \in T : joined - arrival[ws] \in Nat
    BY DEF ArrivalsSoFar, TypeOK
<1>2. gaps \in SUBSET Nat /\ gaps # {}
    BY <1>1
<1>3. PICK n \in gaps : \A m \in gaps : n <= m
    <2> HIDE DEF gaps
    <2> QED
        BY <1>2, SmallestOf
<1>4. PICK last \in T : n = joined - arrival[last]
    BY <1>3
<1>5. ASSUME NEW ws \in T
      PROVE  arrival[ws] <= arrival[last]
    <2>1. n <= joined - arrival[ws]
        BY <1>3, <1>5
    <2>2. arrival[ws] \in Nat /\ arrival[last] \in Nat /\ joined \in Nat
        BY <1>4, <1>5 DEF TypeOK
    <2> QED
        BY <1>4, <2>1, <2>2
<1> QED
    BY <1>5

\* No more than n members of a list have a rank up to n.
LEMMA LowRanks ==
    ASSUME TypeOK, ArrivalsSoFar, NEW c \in Convs, NEW n \in Nat,
           NEW T \in SUBSET activeConnections[c],
           \A ws \in T : Rank(c, ws) <= n
    PROVE  IsFiniteSet(T) /\ Cardinality(T) <= n
<1>1. T \in SUBSET Sockets /\ activeConnections[c] \in SUBSET Sockets
    BY DEF TypeOK
<1>2. IsFiniteSet(T) /\ IsFiniteSet(activeConnections[c])
    BY <1>1, SocketsAssumption, FS_Subset
<1>3. CASE T = {}
    BY <1>3, FS_EmptySet
<1>4. CASE T # {}
    <2>1. PICK last \in T : \A ws \in T : arrival[ws] <= arrival[last]
        BY <1>1, <1>4, LastArrival
    <2> DEFINE upTo == {x \in activeConnections[c] : arrival[x] <= arrival[last]}
    <2>2. T \in SUBSET upTo /\ upTo \in SUBSET activeConnections[c]
        BY <2>1
    <2>3. IsFiniteSet(upTo)
        BY <1>2, <2>2, FS_Subset
    <2>4. Cardinality(T) <= Cardinality(upTo) /\ Cardinality(upTo) <= n
        BY <2>2, <2>3, FS_Subset DEF Rank
    <2>5. Cardinality(T) \in Nat /\ Cardinality(upTo) \in Nat
        BY <1>2, <2>3, FS_CardinalityType
    <2> QED
        BY <1>2, <2>4, <2>5
<1> QED
    BY <1>2, <1>3, <1>4

\* Those a loop was to reach have been registered, so they come back to no
\* list; and when its list was deleted, it was empty.
OwedInv ==
    \A t \in Tasks : delivery[t].busy =>
        /\ \A ws \in delivery[t].owed : handler[ws] # "new"
        /\ ~delivery[t].attached =>
               delivery[t].owed \cap activeConnections[delivery[t].conv] = {}

\* No loop runs at the start.
LEMMA InitOwedInv == Init => OwedInv
    BY DEF Init, OwedInv, Idle

\* Lists that only lose members, and handlers that are no longer new, keep it.
LEMMA OwedKept ==
    ASSUME TypeOK, OwedInv, NEW t \in Tasks, delivery[t].busy,
           UNCHANGED delivery,
           \A ws \in Sockets : handler[ws] # "new" => handler'[ws] # "new",
           \A c \in Convs, ws \in Sockets :
               handler[ws] # "new" /\ ws \in activeConnections'[c]
                   => ws \in activeConnections[c]
    PROVE  /\ \A ws \in delivery'[t].owed : handler'[ws] # "new"
           /\ ~delivery'[t].attached =>
                  delivery'[t].owed \cap activeConnections'[delivery'[t].conv] = {}
<1>1. delivery[t] \in Delivery
    BY BusyDelivery
<1>2. delivery[t].owed \subseteq Sockets /\ delivery[t].conv \in Convs
    BY <1>1 DEF Delivery
<1> QED
    BY <1>2 DEF OwedInv

\* A socket that connects was owed to no loop.
LEMMA OwedConnect ==
    ASSUME TypeOK, OwedInv, NEW ws \in Sockets, Connect(ws)
    PROVE  OwedInv'
<1>1. /\ UNCHANGED delivery
      /\ \A y \in Sockets : handler[y] # "new" => handler'[y] # "new"
      /\ \A c \in Convs, y \in Sockets :
             handler[y] # "new" /\ y \in activeConnections'[c]
                 => y \in activeConnections[c]
    BY SocketsAssumption DEF Connect, TypeOK
<1> QED
    BY <1>1, OwedKept DEF OwedInv

\* A list that is deleted is empty.
LEMMA OwedDisconnect ==
    ASSUME TypeOK, OwedInv, NEW ws \in Sockets, Disconnect(ws),
           NEW t \in Tasks, delivery'[t].busy
    PROVE  /\ \A y \in delivery'[t].owed : handler'[y] # "new"
           /\ ~delivery'[t].attached =>
                  delivery'[t].owed \cap activeConnections'[delivery'[t].conv] = {}
<1> DEFINE c == ConvOf[ws]
           deleted == activeConnections[c] = {ws}
<1>1. /\ c \in Convs
      /\ \A y \in Sockets : handler[y] # "new" => handler'[y] # "new"
      /\ \A d \in Convs : activeConnections'[d] \subseteq activeConnections[d]
      /\ deleted => activeConnections'[c] = {}
      /\ delivery'[t] = IF deleted /\ delivery[t].conv = c
                        THEN [delivery[t] EXCEPT !.attached = FALSE]
                        ELSE delivery[t]
    BY SocketsAssumption DEF Disconnect, RegistryWithout, TypeOK
<1>2. delivery[t] \in Delivery
    <2>1. CASE delivery[t] = Idle
        BY <1>1, <2>1, DisjointAssumption DEF Idle
    <2> QED
        BY <2>1 DEF TypeOK
<1>3. /\ delivery[t].busy
      /\ delivery[t].owed \in SUBSET Sockets
      /\ delivery[t].conv \in Convs
    BY <1>2 DEF Delivery
<1>4. /\ \A y \in delivery[t].owed : handler[y] # "new"
      /\ ~delivery[t].attached =>
             delivery[t].owed \cap activeConnections[delivery[t].conv] = {}
    BY <1>3 DEF OwedInv
<1>5. CASE deleted /\ delivery[t].conv = c
    <2>1. /\ delivery'[t].owed = delivery[t].owed
          /\ delivery'[t].conv = c
        BY <1>1, <1>2, <1>5 DEF Delivery
    <2> QED
        BY <1>1, <1>3, <1>4, <2>1, <1>5
<1>6. CASE ~ (deleted /\ delivery[t].conv = c)
    <2>1. delivery'[t] = delivery[t]
        BY <1>1, <1>6
    <2> QED
        BY <1>1, <1>3, <1>4, <2>1
<1> QED
    BY <1>5, <1>6

\* Every step keeps it.
LEMMA NextOwedInv ==
    TypeOK /\ RegistriesNameRunningHandlers /\ OwedInv /\ [Next]_vars => OwedInv'
<1> SUFFICES ASSUME TypeOK, RegisteredHandlersRun, OwedInv, [Next]_vars
             PROVE  OwedInv'
    BY DEF RegistriesNameRunningHandlers
<1>1. ASSUME NEW ws \in Sockets, Connect(ws)
      PROVE  OwedInv'
    BY <1>1, OwedConnect
<1>2. ASSUME NEW ws \in Sockets, Disconnect(ws)
      PROVE  OwedInv'
    BY <1>2, OwedDisconnect DEF OwedInv
<1>3. ASSUME NEW t \in Tasks, NEW ok \in BOOLEAN, SendAndContinue(t, ok)
      PROVE  OwedInv'
    <2>1. UNCHANGED <<registryVars, handler>>
        BY <1>3 DEF SendAndContinue, taskVars
    <2>2. delivery[t] \in Delivery
        BY <1>3, BusyDelivery DEF SendAndContinue
    <2>3. /\ delivery[t].busy
          /\ delivery'[t].owed = delivery[t].owed
          /\ delivery'[t].conv = delivery[t].conv
          /\ delivery'[t].attached = delivery[t].attached
          /\ \A x \in Tasks : x # t => delivery'[x] = delivery[x]
        BY <1>3, <2>2 DEF SendAndContinue, TypeOK, Delivery
    <2>4. ASSUME NEW x \in Tasks, delivery'[x].busy
          PROVE  /\ delivery[x].busy
                 /\ delivery'[x].owed = delivery[x].owed
                 /\ delivery'[x].conv = delivery[x].conv
                 /\ delivery'[x].attached = delivery[x].attached
        <3>1. CASE x = t
            BY <2>3, <3>1
        <3>2. CASE x # t
            BY <2>3, <2>4, <3>2
        <3> QED
            BY <3>1, <3>2
    <2> QED
        BY <2>1, <2>4 DEF OwedInv, registryVars
<1>4. ASSUME NEW t \in Tasks, NEW ok \in BOOLEAN, SendAndFinish(t, ok)
      PROVE  OwedInv'
    <2>1. /\ \A c \in Convs : activeConnections'[c] \subseteq activeConnections[c]
          /\ UNCHANGED handler
          /\ delivery' = [delivery EXCEPT ![t] = Idle]
        BY <1>4 DEF SendAndFinish, taskVars, TypeOK
    <2>2. ASSUME NEW x \in Tasks, delivery'[x].busy
          PROVE  delivery'[x] = delivery[x]
        BY <2>1, <2>2 DEF TypeOK, Idle
    <2>3. ASSUME NEW x \in Tasks, delivery[x].busy
          PROVE  delivery[x].conv \in Convs
        BY <2>3, BusyDelivery DEF Delivery
    <2> QED
        BY <2>1, <2>2, <2>3 DEF OwedInv
<1>5. ASSUME NEW t \in Tasks, NEW c \in Convs, BeginDelivery(t, c),
             UNCHANGED <<registryVars, handler>>
      PROVE  OwedInv'
    <2>1. CASE UNCHANGED delivery
        BY <1>5, <2>1 DEF OwedInv, registryVars
    <2>2. CASE delivery' # delivery
        <3>1. PICK ws \in ListItem(c, 1) :
                  delivery' = [delivery EXCEPT ![t] =
                      [busy |-> TRUE, conv |-> c, pos |-> 1, target |-> ws,
                       attached |-> TRUE, failed |-> {}, attempted |-> {ws},
                       owed |-> activeConnections[c]]]
            BY <1>5, <2>2 DEF BeginDelivery
        <3>2. /\ delivery'[t].owed = activeConnections[c]
              /\ delivery'[t].attached
              /\ \A x \in Tasks : x # t => delivery'[x] = delivery[x]
            BY <3>1 DEF TypeOK
        <3>3. \A y \in activeConnections[c] : handler'[y] # "new"
            BY <1>5 DEF RegisteredHandlersRun
        <3>4. ASSUME NEW x \in Tasks, delivery'[x].busy
              PROVE  /\ \A y \in delivery'[x].owed : handler'[y] # "new"
                     /\ ~delivery'[x].attached =>
                            delivery'[x].owed
                                \cap activeConnections'[delivery'[x].conv] = {}
            <4>1. CASE x = t
                BY <3>2, <3>3, <4>1
            <4>2. CASE x # t
                BY <1>5, <3>2, <3>4, <4>2 DEF OwedInv, registryVars
            <4> QED
                BY <4>1, <4>2
        <3> QED
            BY <3>4 DEF OwedInv
    <2> QED
        BY <2>1, <2>2
<1>6. CASE Restart
    BY <1>6 DEF Restart, OwedInv, Idle
<1>7. CASE UNCHANGED <<registryVars, handler, delivery>>
    BY <1>7 DEF OwedInv, registryVars
<1> QED
    BY <1>1, <1>2, <1>3, <1>4, <1>5, <1>6, <1>7, DeliveryFrame

\* A finite set has as many members as it has in another and out of it.
LEMMA InAndOut ==
    ASSUME NEW A, IsFiniteSet(A), NEW B
    PROVE  Cardinality(A) = Cardinality(A \cap B) + Cardinality(A \ B)
<1>1. Cardinality(A \ B) = Cardinality(A) - Cardinality(A \cap B)
    BY FS_Difference
<1>2. IsFiniteSet(A \cap B)
    BY FS_Subset
<1>3. Cardinality(A) \in Nat /\ Cardinality(A \cap B) \in Nat
    BY <1>2, FS_CardinalityType
<1> QED
    BY <1>1, <1>3

\* Those skipped and those sent to that are still listed are apart, and all
\* of a rank up to pos; there are pos sent to.
LEMMA SkipsTakePlaces ==
    ASSUME TypeOK, DeliveryInv, OwedInv, NEW t \in Tasks, delivery[t].busy
    PROVE  Cardinality(Skipped(t)) <=
               Cardinality(delivery[t].attempted
                               \ activeConnections[delivery[t].conv])
<1> DEFINE d == delivery[t]
<1>1. d \in Delivery
    BY BusyDelivery
<1>2. PICK c \in Convs : c = d.conv
    BY <1>1 DEF Delivery
<1> DEFINE here == d.attempted \cap activeConnections[c]
           gone == d.attempted \ activeConnections[c]
<1>3. /\ d.pos \in Nat
      /\ d.attempted \in SUBSET Sockets
      /\ activeConnections[c] \in SUBSET Sockets
    BY <1>1 DEF Delivery, TypeOK
<1>4. IsFiniteSet(d.attempted) /\ IsFiniteSet(here) /\ IsFiniteSet(gone)
    BY <1>3, SocketsAssumption, FS_Subset
<1>5. /\ Cardinality(here) \in Nat
      /\ Cardinality(gone) \in Nat
    BY <1>4, FS_CardinalityType
<1>6. Cardinality(here) + Cardinality(gone) = d.pos
    <2>1. Cardinality(d.attempted) = Cardinality(here) + Cardinality(gone)
        BY <1>4, InAndOut
    <2>2. Cardinality(d.attempted) = d.pos
        BY DEF DeliveryInv, LoopInv
    <2> QED
        BY <1>3, <1>5, <2>1, <2>2
<1>7. CASE d.attached
    <2> DEFINE low == Skipped(t) \cup here
    <2>1. low \in SUBSET activeConnections[c]
        BY <1>2 DEF Skipped
    <2>2. \A ws \in low : Rank(c, ws) <= d.pos
        BY <1>2, <1>7 DEF Skipped, DeliveryInv, LoopInv
    <2>3. Cardinality(low) <= d.pos
        <3> HIDE DEF low, d
        <3> QED
            BY <1>3, <2>1, <2>2, LowRanks DEF DeliveryInv
    <2>4. Skipped(t) \cap here = {} /\ Skipped(t) \in SUBSET Sockets
        BY <1>2, <1>3 DEF Skipped
    <2>5. IsFiniteSet(Skipped(t))
        BY <2>4, SocketsAssumption, FS_Subset
    <2>6. Cardinality(low) = Cardinality(Skipped(t)) + Cardinality(here)
        <3>1. Cardinality(low) = Cardinality(Skipped(t)) + Cardinality(here)
                                     - Cardinality(Skipped(t) \cap here)
            <4> HIDE DEF here
            <4> QED
                BY <1>4, <2>5, FS_Union
        <3>2. Cardinality(Skipped(t) \cap here) = 0
            BY <2>4, FS_EmptySet
        <3>3. Cardinality(Skipped(t)) \in Nat
            BY <2>5, FS_CardinalityType
        <3> QED
            BY <1>5, <3>1, <3>2, <3>3
    <2>7. Cardinality(Skipped(t)) \in Nat
        BY <2>5, FS_CardinalityType
    <2>8. Cardinality(Skipped(t)) <= Cardinality(gone)
        <3> HIDE DEF here, gone, low, d
        <3> QED
            BY <1>3, <1>5, <1>6, <2>3, <2>6, <2>7
    <2> QED
        BY <1>2, <2>8
<1>8. CASE ~d.attached
    <2>1. Skipped(t) = {}
        BY <1>2, <1>8 DEF Skipped, OwedInv
    <2>2. Cardinality(Skipped(t)) = 0
        BY <2>1, FS_EmptySet
    <2> QED
        BY <1>2, <1>5, <2>2
<1> QED
    BY <1>7, <1>8

\* A delivery loop passes over no more participants, connected since it
\* began, than it has lost of those it had sent to: without a departure
\* behind its iterator everybody is reached.
THEOREM ChatSkips == Spec => []SkipsNeedDepartures
<1>1. TypeOK /\ DeliveryInv /\ OwedInv => SkipsNeedDepartures
    BY SkipsTakePlaces DEF SkipsNeedDepartures
<1> QED
    BY InitDeliveryInv, NextDeliveryInv, InitRegistries, NextRegistries,
       ChatTypes, InitOwedInv, NextOwedInv, <1>1, PTL DEF Spec

=============================================================================
