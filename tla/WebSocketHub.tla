----------------------------- MODULE WebSocketHub -----------------------------
(***************************************************************************)
(* services/notifications/src/realtime/websocket-server.ts: the client     *)
(* connections, the two indexes from users and channels to connections,    *)
(* and what is sent over them.  A handler runs to its end before the next  *)
(* one starts, so it is one action; a send may throw, and then the         *)
(* connection is dropped within the same handler.                          *)
(***************************************************************************)
CONSTANTS
    Conns,      \* connection ids: each is handed out once
    Users, NoUser,
    Channels,
    Roles,
    Vanishing   \* the connections whose client may vanish: all, but for a bound

VARIABLES
    connections,
    userConnections,
    channelSubscriptions,
    vanished,     \* clients that are gone without closing their socket
    delivered     \* the last notice sent, and the connections that got it

vars == <<connections, userConnections, channelSubscriptions, vanished, delivered>>

ASSUME HubAssumption == NoUser \notin Users

Fresh == [phase |-> "fresh"]
Gone == [phase |-> "gone"]
Connection == [phase : {"open"}, userId : Users \union {NoUser}, channels : SUBSET Channels,
               roles : SUBSET Roles, isAlive : BOOLEAN]
NewConnection == [phase |-> "open", userId |-> NoUser, channels |-> {}, roles |-> {},
                  isAlive |-> TRUE]
Open(c) == connections[c].phase = "open"

\* A notice for a user, for roles and for a channel; each may be absent.
Notices == [userId : Users \union {NoUser}, roles : SUBSET Roles,
            channels : {{}} \union {{ch} : ch \in Channels}]
NoNotice == [userId |-> NoUser, roles |-> {}, channels |-> {}]

-----------------------------------------------------------------------------
\* Faulty variant: the channel index keeps the connection.
ForgetKeepingChannels(conns, byUser, byChannel, F) ==
    /\ connections' = [c \in Conns |-> IF c \in F THEN Gone ELSE conns[c]]
    /\ userConnections' = [u \in Users |-> byUser[u] \ {c \in F : conns[c].userId = u}]
    /\ channelSubscriptions' = byChannel

\* Faulty variant: the connection is only marked as gone.
ForgetMarking(conns, byUser, byChannel, F) ==
    /\ connections' = [c \in Conns |-> IF c \in F THEN [conns[c] EXCEPT !.phase = "gone"]
                                                ELSE conns[c]]
    /\ userConnections' = [u \in Users |-> byUser[u] \ {c \in F : conns[c].userId = u}]
    /\ channelSubscriptions' =
           [ch \in Channels |-> byChannel[ch] \ {c \in F : ch \in conns[c].channels}]

\* handleDisconnection of the open connections F, from the given state.
Forget(conns, byUser, byChannel, F) ==
    /\ connections' = [c \in Conns |-> IF c \in F THEN Gone ELSE conns[c]]
    /\ userConnections' = [u \in Users |-> byUser[u] \ {c \in F : conns[c].userId = u}]
    /\ channelSubscriptions' =
           [ch \in Channels |-> byChannel[ch] \ {c \in F : ch \in conns[c].channels}]

\* sendToConnection to each of T: only an open connection that is alive is sent to.
Reachable(T) == {c \in T : Open(c) /\ connections[c].isAlive}

\* An answer to c ends a handler that has brought about the given state; the
\* answer may throw, and drop the connection.
Answer(c, conns, byUser, byChannel) ==
    \E F \in SUBSET {c} :
        /\ F = {c} => conns[c].isAlive
        /\ Forget(conns, byUser, byChannel, F)

-----------------------------------------------------------------------------
Init ==
    /\ connections = [c \in Conns |-> Fresh]
    /\ userConnections = [u \in Users |-> {}]
    /\ channelSubscriptions = [ch \in Channels |-> {}]
    /\ vanished = {}
    /\ delivered = [notice |-> NoNotice, to |-> {}]

handleConnection(c) ==
    /\ connections[c] = Fresh
    /\ Answer(c, [connections EXCEPT ![c] = NewConnection], userConnections, channelSubscriptions)
    /\ UNCHANGED <<vanished, delivered>>

Subscribed(x, u, chans, roles) ==
    [x EXCEPT !.userId = u, !.channels = @ \union chans, !.roles = @ \union roles]

\* Faulty variant: only the first subscription enters the user index.
handleSubscriptionOnce(c, u, chans, roles) ==
    /\ Open(c) /\ c \notin vanished
    /\ Answer(c,
           [connections EXCEPT ![c] = Subscribed(@, u, chans, roles)],
           [userConnections EXCEPT ![u] = IF @ = {} THEN {c} ELSE @],
           [ch \in Channels |-> IF ch \in chans THEN channelSubscriptions[ch] \union {c}
                                                ELSE channelSubscriptions[ch]])
    /\ UNCHANGED <<vanished, delivered>>

\* An entry of the indexes that is absent is the same as one that is empty.
handleSubscription(c, u, chans, roles) ==
    /\ Open(c) /\ c \notin vanished
    /\ Answer(c,
           [connections EXCEPT ![c] = Subscribed(@, u, chans, roles)],
           [userConnections EXCEPT ![u] = @ \union {c}],
           [ch \in Channels |-> IF ch \in chans THEN channelSubscriptions[ch] \union {c}
                                                ELSE channelSubscriptions[ch]])
    /\ UNCHANGED <<vanished, delivered>>

\* From the given channels; a message that names none is for all of them.
handleUnsubscription(c, chans) ==
    /\ Open(c) /\ c \notin vanished
    /\ Answer(c, [connections EXCEPT ![c].channels = @ \ chans], userConnections,
           [ch \in Channels |-> IF ch \in chans THEN channelSubscriptions[ch] \ {c}
                                                ELSE channelSubscriptions[ch]])
    /\ UNCHANGED <<vanished, delivered>>

handleHeartbeat(c) ==
    /\ Open(c) /\ c \notin vanished
    /\ Answer(c, [connections EXCEPT ![c].isAlive = TRUE], userConnections,
              channelSubscriptions)
    /\ UNCHANGED <<vanished, delivered>>

\* The socket's close or error event.
handleDisconnection(c) ==
    /\ Open(c) /\ c \notin vanished
    /\ Forget(connections, userConnections, channelSubscriptions, {c})
    /\ UNCHANGED <<vanished, delivered>>

Vanish(c) ==
    /\ c \in Vanishing
    /\ Open(c) /\ c \notin vanished
    /\ vanished' = vanished \union {c}
    /\ UNCHANGED <<connections, userConnections, channelSubscriptions, delivered>>

\* To the connections T, of which those in F throw.
Send(notice, T, F) ==
    /\ F \subseteq Reachable(T)
    /\ Forget(connections, userConnections, channelSubscriptions, F)
    /\ delivered' = [notice |-> notice, to |-> Reachable(T) \ F]
    /\ UNCHANGED vanished

WithRole(roles) == {c \in Conns : Open(c) /\ roles \intersect connections[c].roles # {}}

\* Faulty variant: roles are looked up only for notices without a user.
getNotificationTargetsElse(n) ==
    UNION {IF n.userId # NoUser THEN userConnections[n.userId] ELSE WithRole(n.roles),
           UNION {channelSubscriptions[ch] : ch \in n.channels}}

getNotificationTargets(n) ==
    UNION {IF n.userId # NoUser THEN userConnections[n.userId] ELSE {},
           WithRole(n.roles),
           UNION {channelSubscriptions[ch] : ch \in n.channels}}

sendNotification(n, F) == n.channels # {} /\ Send(n, getNotificationTargets(n), F)

ToUser(u) == [userId |-> u, roles |-> {}, channels |-> {}]
ToChannel(ch) == [userId |-> NoUser, roles |-> {}, channels |-> {ch}]
ToRole(r) == [userId |-> NoUser, roles |-> {r}, channels |-> {}]

sendToUser(u, F) == Send(ToUser(u), userConnections[u], F)
sendToChannel(ch, F) == Send(ToChannel(ch), channelSubscriptions[ch], F)
sendToRole(r, F) == Send(ToRole(r), WithRole({r}), F)

\* Faulty variant: the connections stay marked as heard from.
heartbeatUnmarked ==
    /\ Forget(connections, userConnections, channelSubscriptions,
              {c \in Conns : Open(c) /\ ~connections[c].isAlive})
    /\ UNCHANGED <<vanished, delivered>>

\* The interval of setupHeartbeat.  It marks a connection before it pings it, and
\* nothing is sent to a marked connection: no ping leaves.
heartbeat ==
    /\ Forget([c \in Conns |-> IF Open(c) /\ connections[c].isAlive
                               THEN [connections[c] EXCEPT !.isAlive = FALSE]
                               ELSE connections[c]],
              userConnections, channelSubscriptions,
              {c \in Conns : Open(c) /\ ~connections[c].isAlive})
    /\ UNCHANGED <<vanished, delivered>>

-----------------------------------------------------------------------------
Client(c) ==
    \/ handleConnection(c)
    \/ \E u \in Users, chans \in SUBSET Channels, roles \in SUBSET Roles :
          handleSubscription(c, u, chans, roles)
    \/ \E chans \in SUBSET Channels : handleUnsubscription(c, chans)
    \/ handleHeartbeat(c)
    \/ handleDisconnection(c)
    \/ Vanish(c)

Sender(F) ==
    \/ \E n \in Notices : sendNotification(n, F)
    \/ \E u \in Users : sendToUser(u, F)
    \/ \E ch \in Channels : sendToChannel(ch, F)
    \/ \E r \in Roles : sendToRole(r, F)

Server == heartbeat \/ \E F \in SUBSET Conns : Sender(F)

Next == Server \/ \E c \in Conns : Client(c)
Spec == Init /\ [][Next]_vars

\* The heartbeat is a timer of the process: it keeps firing.
LiveSpec == Spec /\ WF_vars(heartbeat)
-----------------------------------------------------------------------------
TypeOK ==
    /\ connections \in [Conns -> Connection \union {Fresh, Gone}]
    /\ userConnections \in [Users -> SUBSET Conns]
    /\ channelSubscriptions \in [Channels -> SUBSET Conns]
    /\ vanished \subseteq Conns
    /\ delivered \in [notice : Notices, to : SUBSET Conns]

\* The channel index holds exactly the open connections that subscribed to the
\* channel, whatever was dropped in the middle of a handler.
ChannelsIndexed ==
    \A ch \in Channels :
        channelSubscriptions[ch] = {c \in Conns : Open(c) /\ ch \in connections[c].channels}

\* Every open connection is found under the user it belongs to.
UsersIndexed == \A c \in Conns, u \in Users :
    Open(c) /\ connections[c].userId = u => c \in userConnections[u]

\* A client that vanished is dropped in the end, though nothing tells the server.
VanishedIsDropped == \A c \in Conns : (c \in vanished) ~> (connections[c] = Gone)

\* The two indexes are invisible: a notice reaches exactly the sessions that have
\* subscribed as its user, with one of its roles or to its channel, less those not
\* heard from and those whose send throws, which are closed.
SessionOf(c, x, byUser) ==
    IF x.phase = "open"
    THEN [users    |-> {u \in Users : c \in byUser[u]},
          channels |-> x.channels,
          roles    |-> x.roles]
    ELSE [users |-> {}]
SessionsOf(conns, byUser) == [c \in Conns |-> SessionOf(c, conns[c], byUser)]
QuietOf(conns) == {c \in Conns : conns[c].phase = "open" /\ ~conns[c].isAlive}

Ideal == INSTANCE IdealHub WITH sessions <- SessionsOf(connections, userConnections),
                                quiet <- QuietOf(connections)
ImplementsIdeal == Ideal!Spec
=============================================================================
