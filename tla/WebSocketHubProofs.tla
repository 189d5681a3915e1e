-------------------------- MODULE WebSocketHubProofs --------------------------
(***************************************************************************)
(* The hub's indexes, for any clients, users, channels and roles.  A       *)
(* handler first brings about a state and then drops the connections whose *)
(* send threw, so the invariant is stated of three values and the two      *)
(* halves of a handler are treated one after the other.                    *)
(***************************************************************************)
EXTENDS WebSocketHub, TLAPS

\* The state (conns, byUser, byChannel) is typed and its indexes are complete;
\* no user has a connection that was not made yet.
Good(conns, byUser, byChannel) ==
    /\ conns \in [Conns -> Connection \union {Fresh, Gone}]
    /\ byUser \in [Users -> SUBSET Conns]
    /\ byChannel \in [Channels -> SUBSET Conns]
    /\ \A ch \in Channels : byChannel[ch] =
           {c \in Conns : conns[c].phase = "open" /\ ch \in conns[c].channels}
    /\ \A c \in Conns, u \in Users :
           conns[c].phase = "open" /\ conns[c].userId = u => c \in byUser[u]
    /\ \A c \in Conns, u \in Users : c \in byUser[u] => conns[c].phase # "fresh"

IInv ==
    /\ Good(connections, userConnections, channelSubscriptions)
    /\ vanished \subseteq Conns
    /\ delivered \in [notice : Notices, to : SUBSET Conns]

\* A connection is open, or Fresh, or Gone, and its phase tells which.
LEMMA Phases ==
    ASSUME NEW x \in Connection \union {Fresh, Gone}
    PROVE  /\ x.phase = "open" <=> x \in Connection
           /\ x \in Connection => /\ x.userId \in Users \union {NoUser}
                                  /\ x.channels \in SUBSET Channels
                                  /\ x.roles \in SUBSET Roles
                                  /\ x.isAlive \in BOOLEAN
           /\ x = Fresh => x.phase = "fresh"
           /\ x = Gone => x.phase = "gone"
BY DEF Connection, Fresh, Gone

\* A subscription changes a connection to a connection.
LEMMA Resubscribed ==
    ASSUME NEW x \in Connection, NEW u \in Users,
           NEW chans \in SUBSET Channels, NEW roles \in SUBSET Roles
    PROVE  LET y == Subscribed(x, u, chans, roles)
           IN  /\ y \in Connection /\ y.phase = "open" /\ y.userId = u
               /\ y.channels = x.channels \union chans
BY DEF Connection, Subscribed

\* Dropping open connections keeps the indexes right.
LEMMA ForgetIsGood ==
    ASSUME NEW conns, NEW byUser, NEW byChannel, NEW F \in SUBSET Conns,
           Good(conns, byUser, byChannel),
           Forget(conns, byUser, byChannel, F)
    PROVE  Good(connections, userConnections, channelSubscriptions)'
<1>1. connections' \in [Conns -> Connection \union {Fresh, Gone}]
    BY DEF Good, Forget
<1>2. userConnections' \in [Users -> SUBSET Conns]
    BY DEF Good, Forget
<1>3. channelSubscriptions' \in [Channels -> SUBSET Conns]
    BY DEF Good, Forget
<1>4. \A c \in Conns : connections'[c].phase = "open"
                       <=> conns[c].phase = "open" /\ c \notin F
    BY DEF Good, Forget, Gone
<1>5. \A c \in Conns \ F : connections'[c] = conns[c]
    BY DEF Forget
<1>6. ASSUME NEW ch \in Channels
      PROVE  channelSubscriptions'[ch] =
             {c \in Conns : connections'[c].phase = "open" /\ ch \in connections'[c].channels}
    <2>1. channelSubscriptions'[ch] = byChannel[ch] \ {c \in F : ch \in conns[c].channels}
        BY DEF Forget
    <2>2. byChannel[ch] = {c \in Conns : conns[c].phase = "open" /\ ch \in conns[c].channels}
        BY DEF Good
    <2> QED BY <2>1, <2>2, <1>4, <1>5
<1>7. ASSUME NEW c \in Conns, NEW u \in Users,
             connections'[c].phase = "open", connections'[c].userId = u
      PROVE  c \in userConnections'[u]
    <2>1. c \notin F /\ connections'[c] = conns[c]
        BY <1>4, <1>5, <1>7
    <2>2. c \in byUser[u]
        BY <2>1, <1>7 DEF Good
    <2> QED BY <2>1, <2>2 DEF Forget
<1>8. ASSUME NEW c \in Conns, NEW u \in Users, c \in userConnections'[u]
      PROVE  connections'[c].phase # "fresh"
    <2>1. c \in byUser[u] /\ conns[c].phase # "fresh"
        BY <1>8 DEF Forget, Good
    <2>2. connections'[c] = Gone \/ connections'[c] = conns[c]
        BY DEF Forget
    <2> QED BY <2>1, <2>2 DEF Gone
<1> QED BY <1>1, <1>2, <1>3, <1>6, <1>7, <1>8 DEF Good

LEMMA AnswerIsGood ==
    ASSUME NEW conns, NEW byUser, NEW byChannel, NEW c \in Conns,
           Good(conns, byUser, byChannel),
           Answer(c, conns, byUser, byChannel)
    PROVE  Good(connections, userConnections, channelSubscriptions)'
<1>1. PICK F \in SUBSET {c} : Forget(conns, byUser, byChannel, F)
    BY DEF Answer
<1>2. F \in SUBSET Conns
    OBVIOUS
<1> QED BY <1>1, <1>2, ForgetIsGood

\* Each message handler brings about a good state before it answers.
LEMMA ConnectIsGood ==
    ASSUME IInv, NEW c \in Conns, handleConnection(c)
    PROVE  Good([connections EXCEPT ![c] = NewConnection], userConnections,
                channelSubscriptions)
<1> DEFINE conns == [connections EXCEPT ![c] = NewConnection]
<1>1. connections \in [Conns -> Connection \union {Fresh, Gone}]
    BY DEF IInv, Good
<1>2. NewConnection \in Connection /\ NewConnection.channels = {}
      /\ NewConnection.userId = NoUser /\ NoUser \notin Users
    BY HubAssumption DEF NewConnection, Connection
<1>3. connections[c].phase # "open"
    BY DEF handleConnection, Fresh
<1>4. conns \in [Conns -> Connection \union {Fresh, Gone}]
    BY <1>1, <1>2
<1>5. conns[c] = NewConnection /\ \A d \in Conns \ {c} : conns[d] = connections[d]
    BY <1>1
<1>6. ASSUME NEW ch \in Channels
      PROVE  channelSubscriptions[ch] =
             {d \in Conns : conns[d].phase = "open" /\ ch \in conns[d].channels}
    <2>1. channelSubscriptions[ch] =
             {d \in Conns : connections[d].phase = "open" /\ ch \in connections[d].channels}
        BY DEF IInv, Good
    <2> QED BY <2>1, <1>2, <1>3, <1>5
<1>7. ASSUME NEW d \in Conns, NEW u \in Users, conns[d].phase = "open", conns[d].userId = u
      PROVE  d \in userConnections[u]
    <2>1. d # c
        BY <1>7, <1>5, <1>2
    <2> QED BY <2>1, <1>7, <1>5 DEF IInv, Good
<1>8. \A d \in Conns, u \in Users : d \in userConnections[u] => conns[d].phase # "fresh"
    BY <1>5 DEF IInv, Good, NewConnection
<1> HIDE DEF conns
<1>9. Good(conns, userConnections, channelSubscriptions)
    BY <1>4, <1>6, <1>7, <1>8 DEF IInv, Good
<1> QED BY <1>9 DEF conns

LEMMA SubscribeIsGood ==
    ASSUME IInv, NEW c \in Conns, Open(c), NEW u \in Users,
           NEW chans \in SUBSET Channels, NEW roles \in SUBSET Roles
    PROVE  Good([connections EXCEPT ![c] = Subscribed(@, u, chans, roles)],
                [userConnections EXCEPT ![u] = @ \union {c}],
                [ch \in Channels |-> IF ch \in chans THEN channelSubscriptions[ch] \union {c}
                                                     ELSE channelSubscriptions[ch]])
<1> DEFINE conns == [connections EXCEPT ![c] = Subscribed(@, u, chans, roles)]
           byUser == [userConnections EXCEPT ![u] = @ \union {c}]
           byChannel == [ch \in Channels |->
                            IF ch \in chans THEN channelSubscriptions[ch] \union {c}
                                            ELSE channelSubscriptions[ch]]
<1>1. /\ connections \in [Conns -> Connection \union {Fresh, Gone}]
      /\ userConnections \in [Users -> SUBSET Conns]
      /\ channelSubscriptions \in [Channels -> SUBSET Conns]
    BY DEF IInv, Good
<1>2. connections[c] \in Connection
    BY <1>1, Phases DEF Open
<1>3. conns[c] = Subscribed(connections[c], u, chans, roles)
      /\ \A d \in Conns \ {c} : conns[d] = connections[d]
    BY <1>1
<1>4. /\ conns[c] \in Connection /\ conns[c].phase = "open" /\ conns[c].userId = u
      /\ conns[c].channels = connections[c].channels \union chans
    <2> HIDE DEF conns
    <2> QED BY <1>2, <1>3, Resubscribed
<1>5. conns \in [Conns -> Connection \union {Fresh, Gone}]
    BY <1>1, <1>3, <1>4
<1>6. byUser \in [Users -> SUBSET Conns] /\ byChannel \in [Channels -> SUBSET Conns]
    BY <1>1
<1>7. ASSUME NEW ch \in Channels
      PROVE  byChannel[ch] =
             {d \in Conns : conns[d].phase = "open" /\ ch \in conns[d].channels}
    <2>1. channelSubscriptions[ch] =
             {d \in Conns : connections[d].phase = "open" /\ ch \in connections[d].channels}
        BY DEF IInv, Good
    <2>2. connections[c].phase = "open"
        BY DEF Open
    <2>3. byChannel[ch] = IF ch \in chans THEN channelSubscriptions[ch] \union {c}
                                          ELSE channelSubscriptions[ch]
        OBVIOUS
    <2> HIDE DEF conns, byChannel
    <2>4. CASE ch \in chans
        BY <2>1, <2>2, <2>3, <2>4, <1>3, <1>4
    <2>5. CASE ch \notin chans
        <3>1. \A d \in Conns : /\ conns[d].phase = "open" <=> connections[d].phase = "open"
                               /\ ch \in conns[d].channels <=> ch \in connections[d].channels
            BY <2>2, <2>5, <1>3, <1>4
        <3>2. byChannel[ch] = channelSubscriptions[ch]
            BY <2>3, <2>5
        <3> QED BY <3>1, <3>2, <2>1
    <2> QED BY <2>4, <2>5
<1>8. ASSUME NEW d \in Conns, NEW v \in Users, conns[d].phase = "open", conns[d].userId = v
      PROVE  d \in byUser[v]
    <2>1. byUser[u] = userConnections[u] \union {c}
          /\ \A w \in Users \ {u} : byUser[w] = userConnections[w]
        BY <1>1
    <2> HIDE DEF conns, byUser
    <2>2. CASE d = c
        BY <2>2, <2>1, <1>4, <1>8
    <2>3. CASE d # c
        <3>1. d \in userConnections[v]
            BY <2>3, <1>3, <1>8 DEF IInv, Good
        <3> QED BY <3>1, <2>1
    <2> QED BY <2>2, <2>3
<1>9. ASSUME NEW d \in Conns, NEW v \in Users, d \in byUser[v]
      PROVE  conns[d].phase # "fresh"
    <2>1. d = c \/ d \in userConnections[v]
        BY <1>1, <1>9
    <2> HIDE DEF conns, byUser
    <2> QED BY <2>1, <1>3, <1>4 DEF IInv, Good
<1> HIDE DEF conns, byUser, byChannel
<1>10. Good(conns, byUser, byChannel)
    BY <1>5, <1>6, <1>7, <1>8, <1>9 DEF Good
<1> QED BY <1>10 DEF conns, byUser, byChannel

LEMMA UnsubscribeIsGood ==
    ASSUME IInv, NEW c \in Conns, Open(c), NEW chans \in SUBSET Channels
    PROVE  Good([connections EXCEPT ![c].channels = @ \ chans], userConnections,
                [ch \in Channels |-> IF ch \in chans THEN channelSubscriptions[ch] \ {c}
                                                     ELSE channelSubscriptions[ch]])
<1> DEFINE conns == [connections EXCEPT ![c].channels = @ \ chans]
           byChannel == [ch \in Channels |->
                            IF ch \in chans THEN channelSubscriptions[ch] \ {c}
                                            ELSE channelSubscriptions[ch]]
<1>1. /\ connections \in [Conns -> Connection \union {Fresh, Gone}]
      /\ userConnections \in [Users -> SUBSET Conns]
      /\ channelSubscriptions \in [Channels -> SUBSET Conns]
    BY DEF IInv, Good
<1>2. connections[c] \in Connection
    BY <1>1, Phases DEF Open
<1>3. conns[c] = [connections[c] EXCEPT !.channels = @ \ chans]
      /\ \A d \in Conns \ {c} : conns[d] = connections[d]
    BY <1>1
<1>4. /\ conns[c] \in Connection /\ conns[c].phase = "open"
      /\ conns[c].userId = connections[c].userId
      /\ conns[c].channels = connections[c].channels \ chans
    BY <1>2, <1>3 DEF Connection
<1>5. conns \in [Conns -> Connection \union {Fresh, Gone}]
    BY <1>1, <1>3, <1>4
<1>6. byChannel \in [Channels -> SUBSET Conns]
    BY <1>1
<1>7. ASSUME NEW ch \in Channels
      PROVE  byChannel[ch] =
             {d \in Conns : conns[d].phase = "open" /\ ch \in conns[d].channels}
    <2>1. channelSubscriptions[ch] =
             {d \in Conns : connections[d].phase = "open" /\ ch \in connections[d].channels}
        BY DEF IInv, Good
    <2>2. connections[c].phase = "open"
        BY DEF Open
    <2>3. byChannel[ch] = IF ch \in chans THEN channelSubscriptions[ch] \ {c}
                                          ELSE channelSubscriptions[ch]
        OBVIOUS
    <2> HIDE DEF conns, byChannel
    <2>4. CASE ch \in chans
        BY <2>1, <2>2, <2>3, <2>4, <1>3, <1>4
    <2>5. CASE ch \notin chans
        <3>1. \A d \in Conns : /\ conns[d].phase = "open" <=> connections[d].phase = "open"
                               /\ ch \in conns[d].channels <=> ch \in connections[d].channels
            BY <2>2, <2>5, <1>3, <1>4
        <3>2. byChannel[ch] = channelSubscriptions[ch]
            BY <2>3, <2>5
        <3> QED BY <3>1, <3>2, <2>1
    <2> QED BY <2>4, <2>5
<1>8. ASSUME NEW d \in Conns, NEW v \in Users, conns[d].phase = "open", conns[d].userId = v
      PROVE  d \in userConnections[v]
    <2>1. connections[d].phase = "open" /\ connections[d].userId = v
        BY <1>8, <1>3, <1>4 DEF Open
    <2> QED BY <2>1 DEF IInv, Good
<1>9. \A d \in Conns, v \in Users : d \in userConnections[v] => conns[d].phase # "fresh"
    BY <1>3, <1>4 DEF IInv, Good
<1> HIDE DEF conns, byChannel
<1>10. Good(conns, userConnections, byChannel)
    BY <1>1, <1>5, <1>6, <1>7, <1>8, <1>9 DEF Good
<1> QED BY <1>10 DEF conns, byChannel

\* Marking a connection as heard from, or not, leaves the indexes alone.
LEMMA HeardIsGood ==
    ASSUME IInv, NEW c \in Conns, Open(c)
    PROVE  Good([connections EXCEPT ![c].isAlive = TRUE], userConnections,
                channelSubscriptions)
<1> DEFINE conns == [connections EXCEPT ![c].isAlive = TRUE]
<1>1. connections \in [Conns -> Connection \union {Fresh, Gone}]
    BY DEF IInv, Good
<1>2. connections[c] \in Connection
    BY <1>1, Phases DEF Open
<1>3. conns \in [Conns -> Connection \union {Fresh, Gone}]
    BY <1>1, <1>2 DEF Connection
<1>4. \A d \in Conns : /\ conns[d].phase = connections[d].phase
                       /\ conns[d].phase = "open" =>
                             /\ conns[d].userId = connections[d].userId
                             /\ conns[d].channels = connections[d].channels
    BY <1>1, <1>2 DEF Connection
<1> HIDE DEF conns
<1>5. Good(conns, userConnections, channelSubscriptions)
    BY <1>3, <1>4 DEF IInv, Good
<1> QED BY <1>5 DEF conns

LEMMA MarkedIsGood ==
    ASSUME IInv
    PROVE  Good([c \in Conns |-> IF Open(c) /\ connections[c].isAlive
                                 THEN [connections[c] EXCEPT !.isAlive = FALSE]
                                 ELSE connections[c]],
                userConnections, channelSubscriptions)
<1> DEFINE conns == [c \in Conns |-> IF Open(c) /\ connections[c].isAlive
                                     THEN [connections[c] EXCEPT !.isAlive = FALSE]
                                     ELSE connections[c]]
<1>1. connections \in [Conns -> Connection \union {Fresh, Gone}]
    BY DEF IInv, Good
<1>2. \A d \in Conns : Open(d) => connections[d] \in Connection
    BY <1>1, Phases DEF Open
<1>3. ASSUME NEW d \in Conns
      PROVE  /\ conns[d] \in Connection \union {Fresh, Gone}
             /\ conns[d].phase = connections[d].phase
             /\ conns[d].phase = "open" =>
                   /\ conns[d].userId = connections[d].userId
                   /\ conns[d].channels = connections[d].channels
    BY <1>1, <1>2 DEF Connection
<1>4. conns \in [Conns -> Connection \union {Fresh, Gone}]
    BY <1>3
<1> HIDE DEF conns
<1>5. Good(conns, userConnections, channelSubscriptions)
    BY <1>3, <1>4 DEF IInv, Good
<1> QED BY <1>5 DEF conns

-----------------------------------------------------------------------------
\* A client's message, or its silence, keeps the invariant.
LEMMA ClientSteps ==
    ASSUME IInv, NEW c \in Conns, Client(c)
    PROVE  IInv'
<1>1. CASE handleConnection(c)
    <2>1. Good(connections, userConnections, channelSubscriptions)'
        BY <1>1, ConnectIsGood, AnswerIsGood DEF handleConnection
    <2> QED BY <1>1, <2>1 DEF handleConnection, IInv
<1>2. ASSUME NEW u \in Users, NEW chans \in SUBSET Channels, NEW roles \in SUBSET Roles,
             handleSubscription(c, u, chans, roles)
      PROVE  IInv'
    <2>1. Good([connections EXCEPT ![c] = Subscribed(@, u, chans, roles)],
               [userConnections EXCEPT ![u] = @ \union {c}],
               [ch \in Channels |-> IF ch \in chans THEN channelSubscriptions[ch] \union {c}
                                                    ELSE channelSubscriptions[ch]])
        BY <1>2, SubscribeIsGood DEF handleSubscription
    <2>2. Good(connections, userConnections, channelSubscriptions)'
        BY <1>2, <2>1, AnswerIsGood DEF handleSubscription
    <2> QED BY <1>2, <2>2 DEF handleSubscription, IInv
<1>3. ASSUME NEW chans \in SUBSET Channels, handleUnsubscription(c, chans)
      PROVE  IInv'
    <2>1. Good([connections EXCEPT ![c].channels = @ \ chans], userConnections,
               [ch \in Channels |-> IF ch \in chans THEN channelSubscriptions[ch] \ {c}
                                                    ELSE channelSubscriptions[ch]])
        BY <1>3, UnsubscribeIsGood DEF handleUnsubscription
    <2>2. Good(connections, userConnections, channelSubscriptions)'
        BY <1>3, <2>1, AnswerIsGood DEF handleUnsubscription
    <2> QED BY <1>3, <2>2 DEF handleUnsubscription, IInv
<1>4. CASE handleHeartbeat(c)
    <2>1. Good([connections EXCEPT ![c].isAlive = TRUE], userConnections,
               channelSubscriptions)
        BY <1>4, HeardIsGood DEF handleHeartbeat
    <2>2. Good(connections, userConnections, channelSubscriptions)'
        BY <1>4, <2>1, AnswerIsGood DEF handleHeartbeat
    <2> QED BY <1>4, <2>2 DEF handleHeartbeat, IInv
<1>5. CASE handleDisconnection(c)
    <2>1. Good(connections, userConnections, channelSubscriptions)'
        BY <1>5, ForgetIsGood DEF handleDisconnection, IInv
    <2> QED BY <1>5, <2>1 DEF handleDisconnection, IInv
<1>6. CASE Vanish(c)
    BY <1>6 DEF Vanish, IInv, Good
<1> QED BY <1>1, <1>2, <1>3, <1>4, <1>5, <1>6 DEF Client

\* So does the heartbeat, and any notice.
LEMMA SendSteps ==
    ASSUME IInv, NEW notice \in Notices, NEW T, NEW F, Send(notice, T, F), T \subseteq Conns
    PROVE  IInv'
<1>1. F \in SUBSET Conns
    BY DEF Send, Reachable
<1>2. Good(connections, userConnections, channelSubscriptions)'
    BY <1>1, ForgetIsGood DEF Send, IInv
<1>3. delivered' \in [notice : Notices, to : SUBSET Conns]
    BY DEF Send, Reachable
<1> QED BY <1>2, <1>3 DEF Send, IInv

\* The connections that a notice is looked up for are connections.
LEMMA TargetsAreConns ==
    ASSUME IInv
    PROVE  /\ \A n \in Notices : getNotificationTargets(n) \subseteq Conns
           /\ \A u \in Users : userConnections[u] \subseteq Conns
           /\ \A ch \in Channels : channelSubscriptions[ch] \subseteq Conns
           /\ \A roles : WithRole(roles) \subseteq Conns
<1>1. /\ \A u \in Users : userConnections[u] \subseteq Conns
      /\ \A ch \in Channels : channelSubscriptions[ch] \subseteq Conns
      /\ \A roles : WithRole(roles) \subseteq Conns
    BY DEF IInv, Good, WithRole
<1>2. ASSUME NEW n \in Notices
      PROVE  getNotificationTargets(n) \subseteq Conns
    <2>1. n.userId # NoUser => n.userId \in Users
        BY DEF Notices
    <2>2. n.channels \subseteq Channels
        BY DEF Notices
    <2> QED BY <1>1, <2>1, <2>2 DEF getNotificationTargets
<1> QED BY <1>1, <1>2

LEMMA NoticesAreNotices ==
    /\ \A u \in Users : ToUser(u) \in Notices
    /\ \A ch \in Channels : ToChannel(ch) \in Notices
    /\ \A r \in Roles : ToRole(r) \in Notices
    /\ NoNotice \in Notices
BY DEF ToUser, ToChannel, ToRole, NoNotice, Notices

LEMMA ServerSteps ==
    ASSUME IInv, Server
    PROVE  IInv'
<1>1. CASE heartbeat
    <2> DEFINE marked == [c \in Conns |-> IF Open(c) /\ connections[c].isAlive
                                          THEN [connections[c] EXCEPT !.isAlive = FALSE]
                                          ELSE connections[c]]
    <2>1. Good(marked, userConnections, channelSubscriptions)
        BY MarkedIsGood
    <2>2. Good(connections, userConnections, channelSubscriptions)'
        BY <1>1, <2>1, ForgetIsGood DEF heartbeat
    <2> QED BY <1>1, <2>2 DEF heartbeat, IInv
<1>2. ASSUME NEW F, Sender(F)
      PROVE  IInv'
    BY <1>2, SendSteps, TargetsAreConns, NoticesAreNotices
       DEF Sender, sendNotification, sendToUser, sendToChannel, sendToRole
<1> QED BY <1>1, <1>2 DEF Server

LEMMA InitIsGood == ASSUME Init PROVE IInv
BY NoticesAreNotices DEF Init, IInv, Good, Fresh

LEMMA HubInductive == Spec => []IInv
<1>1. IInv /\ [Next]_vars => IInv'
    <2>1. ASSUME IInv, UNCHANGED vars PROVE IInv'
        BY <2>1 DEF vars, IInv, Good
    <2> QED BY <2>1, ClientSteps, ServerSteps DEF Next
<1> QED BY <1>1, InitIsGood, PTL DEF Spec

\* Every variable of the hub keeps its type.
THEOREM HubTypeCorrect == Spec => []TypeOK
<1>1. IInv => TypeOK
    BY DEF IInv, Good, TypeOK
<1> QED BY <1>1, HubInductive, PTL

\* The channel index is exactly the subscriptions of the open connections.
THEOREM ChannelIndexIsExact == Spec => []ChannelsIndexed
<1>1. IInv => ChannelsIndexed
    BY DEF IInv, Good, ChannelsIndexed, Open
<1> QED BY <1>1, HubInductive, PTL

\* Every open connection is found under the user it belongs to.
THEOREM UserIndexIsComplete == Spec => []UsersIndexed
<1>1. IInv => UsersIndexed
    BY DEF IInv, Good, UsersIndexed, Open
<1> QED BY <1>1, HubInductive, PTL
-----------------------------------------------------------------------------

\* The session that a connection amounts to, after a handler and its answer: the
\* connections whose send threw are closed, the others as the handler left them.
LEMMA ForgetCloses ==
    ASSUME NEW conns, NEW byUser, NEW byChannel, NEW F \in SUBSET Conns,
           Good(conns, byUser, byChannel),
           Forget(conns, byUser, byChannel, F)
    PROVE  /\ SessionsOf(connections, userConnections)' =
                  [c \in Conns |-> IF c \in F THEN Ideal!Closed ELSE SessionOf(c, conns[c], byUser)]
           /\ QuietOf(connections)' = QuietOf(conns) \ F
<1>1. \A c \in Conns : connections'[c] = IF c \in F THEN Gone ELSE conns[c]
    BY DEF Forget
<1>2. Gone.phase # "open"
    BY DEF Gone
<1>3. ASSUME NEW c \in Conns
      PROVE  SessionOf(c, connections'[c], userConnections')
                 = IF c \in F THEN Ideal!Closed ELSE SessionOf(c, conns[c], byUser)
    <2>1. CASE c \in F
        BY <2>1, <1>1, <1>2 DEF SessionOf, Ideal!Closed
    <2>2. CASE c \notin F
        <3>1. \A u \in Users : c \in userConnections'[u] <=> c \in byUser[u]
            BY <2>2 DEF Forget
        <3>2. {u \in Users : c \in userConnections'[u]} = {u \in Users : c \in byUser[u]}
            BY <3>1
        <3> QED BY <2>2, <3>2, <1>1 DEF SessionOf
    <2> QED BY <2>1, <2>2
<1>4. SessionsOf(connections, userConnections)' =
          [c \in Conns |-> IF c \in F THEN Ideal!Closed ELSE SessionOf(c, conns[c], byUser)]
    BY <1>3 DEF SessionsOf
<1>5. QuietOf(connections)' = QuietOf(conns) \ F
    BY <1>1, <1>2 DEF QuietOf
<1> QED BY <1>4, <1>5

\* A session is closed exactly when its connection is not open.
LEMMA OpenSessions ==
    ASSUME connections \in [Conns -> Connection \union {Fresh, Gone}]
    PROVE  /\ Ideal!Open = {c \in Conns : Open(c)}
           /\ \A c \in Conns : Open(c) => SessionsOf(connections, userConnections)[c] =
                  [users    |-> {u \in Users : c \in userConnections[u]},
                   channels |-> connections[c].channels,
                   roles    |-> connections[c].roles]
           /\ \A c \in Conns : ~Open(c) =>
                  SessionsOf(connections, userConnections)[c] = Ideal!Closed
<1>1. \A c \in Conns : Open(c) => SessionsOf(connections, userConnections)[c] =
                  [users    |-> {u \in Users : c \in userConnections[u]},
                   channels |-> connections[c].channels,
                   roles    |-> connections[c].roles]
    BY DEF SessionsOf, SessionOf, Open
<1>2. \A c \in Conns : ~Open(c) =>
          SessionsOf(connections, userConnections)[c] = Ideal!Closed
    BY DEF SessionsOf, SessionOf, Open, Ideal!Closed
<1>3. ASSUME NEW x, NEW y, NEW z
      PROVE  [users |-> x, channels |-> y, roles |-> z] # Ideal!Closed
    <2>1. "roles" \in DOMAIN [users |-> x, channels |-> y, roles |-> z]
        OBVIOUS
    <2>2. "roles" \notin DOMAIN Ideal!Closed
        BY DEF Ideal!Closed
    <2> QED BY <2>1, <2>2
<1>4. \A c \in Conns : Open(c) => SessionsOf(connections, userConnections)[c] # Ideal!Closed
    BY <1>1, <1>3
<1>5. Ideal!Open = {c \in Conns : Open(c)}
    BY <1>2, <1>4 DEF Ideal!Open
<1> QED BY <1>1, <1>2, <1>5

\* A connection of which no user index knows opens a session without users.
LEMMA ConnectRefines ==
    ASSUME IInv, NEW c \in Conns, handleConnection(c)
    PROVE  [Ideal!Next]_(Ideal!vars)
<1> DEFINE conns == [connections EXCEPT ![c] = NewConnection]
           S == SessionsOf(connections, userConnections)
<1>1. connections \in [Conns -> Connection \union {Fresh, Gone}] /\ connections[c] = Fresh
    BY DEF IInv, Good, handleConnection
<1>2. Good(conns, userConnections, channelSubscriptions)
    BY ConnectIsGood
<1>3. PICK F \in SUBSET {c} :
          Forget(conns, userConnections, channelSubscriptions, F)
    BY DEF handleConnection, Answer
<1>4. conns[c] = NewConnection /\ \A d \in Conns \ {c} : conns[d] = connections[d]
    BY <1>1
<1>5. ~Open(c) /\ c \notin QuietOf(connections)
    BY <1>1 DEF Open, Fresh, QuietOf
<1>6. SessionOf(c, NewConnection, userConnections) = Ideal!Opened
      /\ NewConnection.isAlive /\ NewConnection.phase = "open"
    <2>1. {u \in Users : c \in userConnections[u]} = {}
        BY <1>1 DEF IInv, Good, Fresh
    <2> QED BY <2>1 DEF SessionOf, NewConnection, Ideal!Opened
<1> HIDE DEF conns
<1>7. QuietOf(conns) = QuietOf(connections)
    BY <1>4, <1>5, <1>6 DEF QuietOf
<1>8. F \in SUBSET Conns
    OBVIOUS
<1>9. S' = [d \in Conns |-> IF d \in F THEN Ideal!Closed
                            ELSE SessionOf(d, conns[d], userConnections)]
    BY <1>2, <1>3, <1>8, ForgetCloses
<1>10. QuietOf(connections)' = QuietOf(connections)
    <2>1. QuietOf(connections)' = QuietOf(conns) \ F
        BY <1>2, <1>3, <1>8, ForgetCloses
    <2> QED BY <2>1, <1>5, <1>7
<1>11. delivered' = delivered
    BY DEF handleConnection
<1>12. S[c] = Ideal!Closed
       /\ \A d \in Conns \ {c} : S[d] = SessionOf(d, conns[d], userConnections)
    BY <1>1, <1>4, <1>5, OpenSessions DEF SessionsOf
<1>13. S = [d \in Conns |-> S[d]]
    BY DEF SessionsOf
<1> HIDE DEF S
<1>14. CASE F = {c}
    <2>1. S' = S
        BY <1>9, <1>12, <1>13, <1>14
    <2> QED BY <2>1, <1>10, <1>11 DEF Ideal!vars, S
<1>15. CASE F = {}
    <2>1. S' = [S EXCEPT ![c] = Ideal!Opened]
        BY <1>4, <1>6, <1>9, <1>12, <1>13, <1>15
    <2>2. c \notin Ideal!Open
        BY <1>1, <1>5, OpenSessions
    <2>3. Ideal!Connect(c)
        BY <2>1, <2>2, <1>10, <1>11 DEF Ideal!Connect, S
    <2> QED BY <2>3 DEF Ideal!Next
<1> QED BY <1>3, <1>14, <1>15

\* A message from an open connection: the handler changes its session to one
\* with no user less, and the answer may close it.
LEMMA MessageRefines ==
    ASSUME IInv, NEW c \in Conns, Open(c), NEW conns, NEW byUser, NEW byChannel,
           Good(conns, byUser, byChannel),
           NEW x \in Connection, conns[c] = x,
           \A d \in Conns \ {c} : conns[d] = connections[d],
           x.isAlive = connections[c].isAlive,
           \A u \in Users : c \in userConnections[u] => c \in byUser[u],
           \A u \in Users, d \in Conns \ {c} : d \in userConnections[u] <=> d \in byUser[u],
           Answer(c, conns, byUser, byChannel), delivered' = delivered
    PROVE  [Ideal!Next]_(Ideal!vars)
<1> DEFINE S == SessionsOf(connections, userConnections)
           s == [users    |-> {u \in Users : c \in byUser[u]},
                 channels |-> x.channels,
                 roles    |-> x.roles]
<1>1. PICK F \in SUBSET {c} : /\ F = {c} => conns[c].isAlive
                             /\ Forget(conns, byUser, byChannel, F)
    BY DEF Answer
<1>2. connections \in [Conns -> Connection \union {Fresh, Gone}]
      /\ conns \in [Conns -> Connection \union {Fresh, Gone}]
    BY DEF IInv, Good
<1>3. conns[c] = x /\ \A d \in Conns \ {c} : conns[d] = connections[d]
    OBVIOUS
<1>4. connections[c] \in Connection /\ x.phase = "open" /\ connections[c].phase = "open"
    BY <1>2, Phases DEF Open, Connection
<1>5. QuietOf(conns) = QuietOf(connections)
    BY <1>3, <1>4 DEF QuietOf
<1>6. F \in SUBSET Conns
    OBVIOUS
<1>7. QuietOf(connections)' = QuietOf(connections) \ F
    <2>1. QuietOf(connections)' = QuietOf(conns) \ F
        BY <1>1, <1>6, ForgetCloses
    <2> QED BY <2>1, <1>5
<1>8. S' = [d \in Conns |-> IF d \in F THEN Ideal!Closed ELSE SessionOf(d, conns[d], byUser)]
    BY <1>1, <1>6, ForgetCloses
<1>9. c \in Ideal!Open
    BY <1>2, OpenSessions
<1>10. ASSUME NEW d \in Conns \ {c}
       PROVE  SessionOf(d, conns[d], byUser) = S[d]
    <2>1. {u \in Users : d \in byUser[u]} = {u \in Users : d \in userConnections[u]}
        OBVIOUS
    <2> QED BY <2>1, <1>3 DEF SessionsOf, SessionOf
<1>11. SessionOf(c, conns[c], byUser) = s
    BY <1>3, <1>4 DEF SessionOf
<1>12. S[c].users = {u \in Users : c \in userConnections[u]}
    BY <1>4 DEF SessionsOf, SessionOf
<1>13. S = [d \in Conns |-> S[d]]
    BY DEF SessionsOf
<1>14. s \in Ideal!Session
    BY DEF Connection, Ideal!Session
<1>15. S[c].users \subseteq s.users
    BY <1>12
<1> HIDE DEF S, s
<1>16. CASE F = {c}
    <2>1. S' = [d \in Conns |-> IF d \in {c} THEN Ideal!Closed ELSE S[d]]
        BY <1>8, <1>10, <1>16
    <2>2. Ideal!Disconnect(c)
        BY <2>1, <1>7, <1>9, <1>16 DEF Ideal!Disconnect, Ideal!Close, S
    <2> QED BY <2>2 DEF Ideal!Next
<1>17. CASE F = {}
    <2>1. S' = [S EXCEPT ![c] = s]
        BY <1>8, <1>10, <1>11, <1>13, <1>17
    <2>2. S'[c] = s
        BY <2>1, <1>13
    <2>3. QuietOf(connections)' = QuietOf(connections)
        BY <1>7, <1>17
    <2>4. Ideal!Update(c)
        BY <2>1, <2>2, <2>3, <1>9, <1>14, <1>15 DEF Ideal!Update, S
    <2> QED BY <2>4 DEF Ideal!Next
<1> QED BY <1>1, <1>16, <1>17

LEMMA SubscribeRefines ==
    ASSUME IInv, NEW c \in Conns, NEW u \in Users,
           NEW chans \in SUBSET Channels, NEW roles \in SUBSET Roles,
           handleSubscription(c, u, chans, roles)
    PROVE  [Ideal!Next]_(Ideal!vars)
<1> DEFINE x == Subscribed(connections[c], u, chans, roles)
           conns == [connections EXCEPT ![c] = x]
           byUser == [userConnections EXCEPT ![u] = @ \union {c}]
           byChannel == [ch \in Channels |->
                            IF ch \in chans THEN channelSubscriptions[ch] \union {c}
                                            ELSE channelSubscriptions[ch]]
<1>1. Open(c)
    BY DEF handleSubscription
<1>2. connections \in [Conns -> Connection \union {Fresh, Gone}]
      /\ userConnections \in [Users -> SUBSET Conns]
    BY DEF IInv, Good
<1>3. connections[c] \in Connection
    BY <1>1, <1>2, Phases DEF Open
<1>4. x \in Connection
    BY <1>3, Resubscribed
<1>5. x.isAlive = connections[c].isAlive
    BY <1>3 DEF Subscribed, Connection
<1>6. Good(conns, byUser, byChannel)
    BY <1>1, SubscribeIsGood
<1>7. conns[c] = x /\ \A d \in Conns \ {c} : conns[d] = connections[d]
    BY <1>2
<1>8. byUser[u] = userConnections[u] \union {c}
      /\ \A v \in Users \ {u} : byUser[v] = userConnections[v]
    BY <1>2
<1>9. Answer(c, conns, byUser, byChannel) /\ delivered' = delivered
    BY DEF handleSubscription
<1> HIDE DEF x, conns, byUser, byChannel
<1>10. /\ \A v \in Users : c \in userConnections[v] => c \in byUser[v]
       /\ \A v \in Users, d \in Conns \ {c} : d \in userConnections[v] <=> d \in byUser[v]
    BY <1>8
<1> QED BY <1>1, <1>4, <1>5, <1>6, <1>7, <1>9, <1>10, MessageRefines

LEMMA UnsubscribeRefines ==
    ASSUME IInv, NEW c \in Conns, NEW chans \in SUBSET Channels,
           handleUnsubscription(c, chans)
    PROVE  [Ideal!Next]_(Ideal!vars)
<1> DEFINE x == [connections[c] EXCEPT !.channels = @ \ chans]
           conns == [connections EXCEPT ![c] = x]
           byChannel == [ch \in Channels |->
                            IF ch \in chans THEN channelSubscriptions[ch] \ {c}
                                            ELSE channelSubscriptions[ch]]
<1>1. Open(c) /\ connections \in [Conns -> Connection \union {Fresh, Gone}]
    BY DEF handleUnsubscription, IInv, Good
<1>2. connections[c] \in Connection
    BY <1>1, Phases DEF Open
<1>3. x \in Connection /\ x.isAlive = connections[c].isAlive
    BY <1>2 DEF Connection
<1>4. conns = [connections EXCEPT ![c].channels = @ \ chans]
    OBVIOUS
<1>5. Good(conns, userConnections, byChannel)
    BY <1>1, UnsubscribeIsGood
<1>6. Answer(c, conns, userConnections, byChannel) /\ delivered' = delivered
    BY DEF handleUnsubscription
<1>7. conns[c] = x /\ \A d \in Conns \ {c} : conns[d] = connections[d]
    BY <1>1
<1> HIDE DEF x, conns, byChannel
<1> QED BY <1>1, <1>3, <1>5, <1>6, <1>7, MessageRefines

LEMMA HeartbeatMessageRefines ==
    ASSUME IInv, NEW c \in Conns, handleHeartbeat(c)
    PROVE  [Ideal!Next]_(Ideal!vars)
<1> DEFINE conns == [connections EXCEPT ![c].isAlive = TRUE]
           S == SessionsOf(connections, userConnections)
<1>1. Open(c) /\ connections \in [Conns -> Connection \union {Fresh, Gone}]
      /\ delivered' = delivered
    BY DEF handleHeartbeat, IInv, Good
<1>2. connections[c] \in Connection
    BY <1>1, Phases DEF Open
<1>3. Good(conns, userConnections, channelSubscriptions)
    BY <1>1, HeardIsGood
<1>4. PICK F \in SUBSET {c} : Forget(conns, userConnections, channelSubscriptions, F)
    BY DEF handleHeartbeat, Answer
<1>5. F \in SUBSET Conns
    OBVIOUS
<1>6. /\ SessionOf(c, conns[c], userConnections) = SessionOf(c, connections[c], userConnections)
      /\ conns[c].isAlive /\ conns[c].phase = "open"
      /\ \A d \in Conns \ {c} : conns[d] = connections[d]
    BY <1>1, <1>2 DEF Connection, SessionOf
<1> HIDE DEF conns
<1>7. QuietOf(conns) = QuietOf(connections) \ {c}
    BY <1>6 DEF QuietOf
<1>8. QuietOf(connections)' = QuietOf(connections) \ {c}
    <2>1. QuietOf(connections)' = QuietOf(conns) \ F
        BY <1>3, <1>4, <1>5, ForgetCloses
    <2> QED BY <2>1, <1>7
<1>9. S' = [d \in Conns |-> IF d \in F THEN Ideal!Closed
                            ELSE SessionOf(d, conns[d], userConnections)]
    BY <1>3, <1>4, <1>5, ForgetCloses
<1>10. S' = [d \in Conns |-> IF d \in F THEN Ideal!Closed ELSE S[d]]
    BY <1>6, <1>9 DEF SessionsOf
<1>11. c \in Ideal!Open
    BY <1>1, OpenSessions
<1>12. CASE F = {c}
    <2>1. Ideal!Disconnect(c)
        BY <1>1, <1>8, <1>10, <1>11, <1>12 DEF Ideal!Disconnect, Ideal!Close
    <2> QED BY <2>1 DEF Ideal!Next
<1>13. CASE F = {}
    <2>1. S' = S
        BY <1>10, <1>13 DEF SessionsOf
    <2>2. Ideal!Hear(c)
        BY <2>1, <1>1, <1>8, <1>11 DEF Ideal!Hear
    <2> QED BY <2>2 DEF Ideal!Next
<1> QED BY <1>4, <1>12, <1>13

\* The other steps of a client: its socket closes, or falls silent.
LEMMA DisconnectRefines ==
    ASSUME IInv, NEW c \in Conns, handleDisconnection(c)
    PROVE  [Ideal!Next]_(Ideal!vars)
<1> DEFINE S == SessionsOf(connections, userConnections)
<1>1. /\ Forget(connections, userConnections, channelSubscriptions, {c})
      /\ Open(c) /\ delivered' = delivered
      /\ Good(connections, userConnections, channelSubscriptions)
    BY DEF handleDisconnection, IInv
<1>2. connections \in [Conns -> Connection \union {Fresh, Gone}] /\ {c} \in SUBSET Conns
    BY <1>1 DEF Good
<1>3. S' = [d \in Conns |-> IF d \in {c} THEN Ideal!Closed
                            ELSE SessionOf(d, connections[d], userConnections)]
    BY <1>1, <1>2, ForgetCloses
<1>4. QuietOf(connections)' = QuietOf(connections) \ {c}
    BY <1>1, <1>2, ForgetCloses
<1>5. S' = [d \in Conns |-> IF d \in {c} THEN Ideal!Closed ELSE S[d]]
    BY <1>3 DEF SessionsOf
<1>6. c \in Ideal!Open
    BY <1>1, <1>2, OpenSessions
<1>7. Ideal!Disconnect(c)
    BY <1>1, <1>4, <1>5, <1>6 DEF Ideal!Disconnect, Ideal!Close
<1> QED BY <1>7 DEF Ideal!Next

LEMMA ClientRefines ==
    ASSUME IInv, NEW c \in Conns, Client(c)
    PROVE  [Ideal!Next]_(Ideal!vars)
<1>1. CASE Vanish(c)
    BY <1>1 DEF Vanish, Ideal!vars, SessionsOf, SessionOf, QuietOf
<1> QED BY <1>1, ConnectRefines, SubscribeRefines, UnsubscribeRefines, HeartbeatMessageRefines,
           DisconnectRefines DEF Client

\* The sessions that a notice is looked up for are the ones it is for.
LEMMA TargetsAreFor ==
    ASSUME IInv
    PROVE  /\ \A n \in Notices :
                  {c \in getNotificationTargets(n) : Open(c)} = Ideal!For(n)
           /\ \A u \in Users : {c \in userConnections[u] : Open(c)} = Ideal!For(ToUser(u))
           /\ \A ch \in Channels :
                  {c \in channelSubscriptions[ch] : Open(c)} = Ideal!For(ToChannel(ch))
           /\ \A r \in Roles : {c \in WithRole({r}) : Open(c)} = Ideal!For(ToRole(r))
<1>1. connections \in [Conns -> Connection \union {Fresh, Gone}]
      /\ \A u \in Users : userConnections[u] \subseteq Conns
    BY DEF IInv, Good
<1>2. \A ch \in Channels :
          channelSubscriptions[ch] = {c \in Conns : Open(c) /\ ch \in connections[c].channels}
    BY DEF IInv, Good, Open
<1>3. ASSUME NEW n \in Notices
      PROVE  Ideal!For(n) = {c \in Conns : Open(c) /\
                 \/ n.userId \in Users /\ c \in userConnections[n.userId]
                 \/ n.roles \intersect connections[c].roles # {}
                 \/ n.channels \intersect connections[c].channels # {}}
    <2>1. Ideal!Open = {c \in Conns : Open(c)}
        BY <1>1, OpenSessions
    <2>2. ASSUME NEW c \in Conns, Open(c)
          PROVE  LET s == SessionsOf(connections, userConnections)[c]
                 IN  /\ s.users = {u \in Users : c \in userConnections[u]}
                     /\ s.roles = connections[c].roles
                     /\ s.channels = connections[c].channels
        BY <2>2 DEF SessionsOf, SessionOf, Open
    <2> QED BY <2>1, <2>2 DEF Ideal!For
<1>4. ASSUME NEW n \in Notices
      PROVE  {c \in getNotificationTargets(n) : Open(c)} = Ideal!For(n)
    <2>1. n.userId \in Users \union {NoUser} /\ n.channels \subseteq Channels
        BY DEF Notices
    <2>2. \A c : c \in getNotificationTargets(n) <=>
              \/ n.userId # NoUser /\ c \in userConnections[n.userId]
              \/ c \in WithRole(n.roles)
              \/ \E ch \in n.channels : c \in channelSubscriptions[ch]
        BY DEF getNotificationTargets
    <2>3. n.userId # NoUser <=> n.userId \in Users
        BY <2>1, HubAssumption
    <2>4. \A c : c \in getNotificationTargets(n) /\ Open(c) <=> c \in Conns /\ Open(c) /\
              \/ n.userId \in Users /\ c \in userConnections[n.userId]
              \/ n.roles \intersect connections[c].roles # {}
              \/ n.channels \intersect connections[c].channels # {}
        BY <2>1, <2>2, <2>3, <1>1, <1>2 DEF WithRole
    <2> QED BY <2>4, <1>3
<1>5. ASSUME NEW u \in Users
      PROVE  {c \in userConnections[u] : Open(c)} = Ideal!For(ToUser(u))
    <2>1. ToUser(u) \in Notices /\ ToUser(u).userId = u /\ ToUser(u).roles = {}
          /\ ToUser(u).channels = {}
        BY NoticesAreNotices DEF ToUser
    <2> QED BY <2>1, <1>1, <1>3
<1>6. ASSUME NEW ch \in Channels
      PROVE  {c \in channelSubscriptions[ch] : Open(c)} = Ideal!For(ToChannel(ch))
    <2>1. ToChannel(ch) \in Notices /\ ToChannel(ch).userId \notin Users
          /\ ToChannel(ch).roles = {} /\ ToChannel(ch).channels = {ch}
        BY NoticesAreNotices, HubAssumption DEF ToChannel
    <2> QED BY <2>1, <1>2, <1>3
<1>7. ASSUME NEW r \in Roles
      PROVE  {c \in WithRole({r}) : Open(c)} = Ideal!For(ToRole(r))
    <2>1. ToRole(r) \in Notices /\ ToRole(r).userId \notin Users
          /\ ToRole(r).roles = {r} /\ ToRole(r).channels = {}
        BY NoticesAreNotices, HubAssumption DEF ToRole
    <2> QED BY <2>1, <1>3 DEF WithRole
<1> QED BY <1>4, <1>5, <1>6, <1>7

LEMMA SendRefines ==
    ASSUME IInv, NEW n \in Notices, NEW T \in SUBSET Conns, NEW F, Send(n, T, F),
           {c \in T : Open(c)} = Ideal!For(n)
    PROVE  [Ideal!Next]_(Ideal!vars)
<1> DEFINE S == SessionsOf(connections, userConnections)
<1>1. /\ Good(connections, userConnections, channelSubscriptions)
      /\ Forget(connections, userConnections, channelSubscriptions, F)
      /\ F \in SUBSET Conns
    BY DEF Send, Reachable, IInv
<1>2. S' = [d \in Conns |-> IF d \in F THEN Ideal!Closed
                            ELSE SessionOf(d, connections[d], userConnections)]
    BY <1>1, ForgetCloses
<1>3. QuietOf(connections)' = QuietOf(connections) \ F
    BY <1>1, ForgetCloses
<1>4. Reachable(T) = Ideal!For(n) \ QuietOf(connections)
    BY DEF Reachable, QuietOf, Open
<1>5. F \subseteq Ideal!For(n) \ QuietOf(connections)
      /\ delivered' = [notice |-> n, to |-> (Ideal!For(n) \ QuietOf(connections)) \ F]
    BY <1>4 DEF Send
<1>6. QuietOf(connections)' = QuietOf(connections)
    BY <1>3, <1>5
<1>7. S' = [d \in Conns |-> IF d \in F THEN Ideal!Closed ELSE S[d]]
    BY <1>2 DEF SessionsOf
<1>8. delivered'.notice = n
    BY <1>5
<1>9. Ideal!Deliver(F)
    BY <1>5, <1>6, <1>7, <1>8 DEF Ideal!Deliver, Ideal!Close
<1> QED BY <1>1, <1>9 DEF Ideal!Next

LEMMA SenderRefines ==
    ASSUME IInv, NEW F, Sender(F)
    PROVE  [Ideal!Next]_(Ideal!vars)
<1>1. ASSUME NEW n \in Notices, sendNotification(n, F)
      PROVE  [Ideal!Next]_(Ideal!vars)
    <2>1. {c \in getNotificationTargets(n) : Open(c)} = Ideal!For(n)
          /\ getNotificationTargets(n) \in SUBSET Conns
        BY TargetsAreFor, TargetsAreConns
    <2> QED BY <1>1, <2>1, SendRefines DEF sendNotification
<1>2. ASSUME NEW u \in Users, sendToUser(u, F)
      PROVE  [Ideal!Next]_(Ideal!vars)
    <2>1. {c \in userConnections[u] : Open(c)} = Ideal!For(ToUser(u))
          /\ userConnections[u] \in SUBSET Conns /\ ToUser(u) \in Notices
        BY TargetsAreFor, TargetsAreConns, NoticesAreNotices
    <2> QED BY <1>2, <2>1, SendRefines DEF sendToUser
<1>3. ASSUME NEW ch \in Channels, sendToChannel(ch, F)
      PROVE  [Ideal!Next]_(Ideal!vars)
    <2>1. {c \in channelSubscriptions[ch] : Open(c)} = Ideal!For(ToChannel(ch))
          /\ channelSubscriptions[ch] \in SUBSET Conns /\ ToChannel(ch) \in Notices
        BY TargetsAreFor, TargetsAreConns, NoticesAreNotices
    <2> QED BY <1>3, <2>1, SendRefines DEF sendToChannel
<1>4. ASSUME NEW r \in Roles, sendToRole(r, F)
      PROVE  [Ideal!Next]_(Ideal!vars)
    <2>1. {c \in WithRole({r}) : Open(c)} = Ideal!For(ToRole(r))
          /\ WithRole({r}) \in SUBSET Conns /\ ToRole(r) \in Notices
        BY TargetsAreFor, TargetsAreConns, NoticesAreNotices
    <2> QED BY <1>4, <2>1, SendRefines DEF sendToRole
<1> QED BY <1>1, <1>2, <1>3, <1>4 DEF Sender

LEMMA HeartbeatRefines ==
    ASSUME IInv, heartbeat
    PROVE  [Ideal!Next]_(Ideal!vars)
<1> DEFINE marked == [c \in Conns |-> IF Open(c) /\ connections[c].isAlive
                                      THEN [connections[c] EXCEPT !.isAlive = FALSE]
                                      ELSE connections[c]]
           F == QuietOf(connections)
           S == SessionsOf(connections, userConnections)
<1>1. connections \in [Conns -> Connection \union {Fresh, Gone}] /\ delivered' = delivered
    BY DEF heartbeat, IInv, Good
<1>2. Good(marked, userConnections, channelSubscriptions)
    BY MarkedIsGood
<1>3. Forget(marked, userConnections, channelSubscriptions, F)
    BY DEF heartbeat, QuietOf, Open
<1>4. F \in SUBSET Conns
    BY DEF QuietOf
<1>5. \A c \in Conns : Open(c) => connections[c] \in Connection
    BY <1>1, Phases DEF Open
<1>6. ASSUME NEW c \in Conns
      PROVE  /\ SessionOf(c, marked[c], userConnections)
                    = SessionOf(c, connections[c], userConnections)
             /\ marked[c].phase = connections[c].phase
             /\ marked[c].phase = "open" => ~marked[c].isAlive
    BY <1>5 DEF Connection, SessionOf, Open
<1> HIDE DEF marked, F
<1>7. QuietOf(marked) = {c \in Conns : Open(c)}
    BY <1>6 DEF QuietOf, Open
<1>8. QuietOf(connections)' = Ideal!Open \ F
    <2>1. QuietOf(connections)' = QuietOf(marked) \ F
        BY <1>2, <1>3, <1>4, ForgetCloses
    <2>2. Ideal!Open = {c \in Conns : Open(c)}
        BY <1>1, OpenSessions
    <2> QED BY <2>1, <2>2, <1>7
<1>9. S' = [c \in Conns |-> IF c \in F THEN Ideal!Closed
                            ELSE SessionOf(c, marked[c], userConnections)]
    BY <1>2, <1>3, <1>4, ForgetCloses
<1>10. S' = [c \in Conns |-> IF c \in F THEN Ideal!Closed ELSE S[c]]
    BY <1>6, <1>9 DEF SessionsOf
<1>11. Ideal!Heartbeat
    BY <1>1, <1>8, <1>10 DEF Ideal!Heartbeat, Ideal!Close, F
<1> QED BY <1>11 DEF Ideal!Next

\* The hub implements IdealHub: the indexes are invisible, and every notice
\* reaches exactly the sessions it is for, less the quiet and the broken ones.
THEOREM HubImplementsIdeal == Spec => ImplementsIdeal
<1>1. ASSUME Init PROVE Ideal!Init
    <2>1. SessionsOf(connections, userConnections) = [c \in Conns |-> Ideal!Closed]
          /\ QuietOf(connections) = {}
        BY <1>1 DEF Init, SessionsOf, SessionOf, QuietOf, Fresh, Ideal!Closed
    <2> QED BY <1>1, <2>1, NoticesAreNotices DEF Init, Ideal!Init
<1>2. ASSUME IInv, Next PROVE [Ideal!Next]_(Ideal!vars)
    BY <1>2, ClientRefines, SenderRefines, HeartbeatRefines DEF Next, Server
<1>3. ASSUME UNCHANGED vars PROVE [Ideal!Next]_(Ideal!vars)
    BY <1>3 DEF vars, Ideal!vars, SessionsOf, SessionOf, QuietOf
<1>4. IInv /\ [Next]_vars => [Ideal!Next]_(Ideal!vars)
    BY <1>2, <1>3
<1> QED BY <1>1, <1>4, HubInductive, PTL DEF Spec, ImplementsIdeal, Ideal!Spec
=============================================================================
