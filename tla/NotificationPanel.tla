--------------------------- MODULE NotificationPanel ---------------------------
(***************************************************************************)
(* packages/ui-kit, useNotifications: the WebSocket of a page, with its    *)
(* handlers, the timer of the next attempt, the heartbeat, and what has    *)
(* been received.  Handlers of sockets given up long ago still run, and    *)
(* act on the references of the present one.                               *)
(***************************************************************************)
EXTENDS Integers, FiniteSets, Sequences

CONSTANTS
    Sockets,              \* the WebSockets a page opens, each once
    NoSocket,
    Messages,             \* ids of notifications
    KeepLast,             \* notifications kept, 100 in the code
    MaxReconnectAttempts,
    MaxArrived            \* bounds the notifications that arrive

ASSUME PanelAssumption ==
    NoSocket \notin Sockets /\ KeepLast \in Nat \ {0} /\ MaxReconnectAttempts \in Nat \ {0}

VARIABLES
    socket,          \* readyState of each socket
    wsRef, isSocketOpen, isConnecting, panelError,
    reconnectAttempts,
    attempts,        \* the attempts that wait, of the sockets they follow
    timerRef,        \* reconnectTimeoutRef: the last of them
    beats,           \* sockets whose heartbeat interval runs
    beatRef,         \* heartbeatIntervalRef
    notifications,   \* newest first
    readNotifications,
    arrived,         \* history: what arrived since the list was last cleared, newest first
    left,            \* history: disconnect() was called last, not connect()
    overlapped       \* history: a socket was opened or given up while another, or an attempt, was due

PanelVars == <<socket, wsRef, isSocketOpen, isConnecting, panelError, reconnectAttempts, attempts, timerRef,
               beats, beatRef, notifications, readNotifications, arrived, left, overlapped>>

PanelInit ==
    /\ socket = [s \in Sockets |-> "unused"] /\ wsRef = NoSocket
    /\ isSocketOpen = FALSE /\ isConnecting = FALSE /\ panelError = FALSE /\ reconnectAttempts = 0
    /\ attempts = {} /\ timerRef = NoSocket /\ beats = {} /\ beatRef = NoSocket
    /\ notifications = <<>> /\ readNotifications = {} /\ arrived = <<>> /\ left = FALSE /\ overlapped = FALSE

UnchangedList == UNCHANGED <<notifications, readNotifications, arrived>>
Busy == \E s \in Sockets : socket[s] \in {"connecting", "closing"}

-----------------------------------------------------------------------------
\* Nothing if the present socket is open; one that is still connecting is given up, not closed,
\* and an attempt that waits goes on waiting.
Connects(waiting) ==
    IF wsRef # NoSocket /\ socket[wsRef] = "open" THEN UNCHANGED <<socket, wsRef, isConnecting, panelError, overlapped>>
    ELSE /\ \E s \in Sockets :
              socket[s] = "unused" /\ socket' = [socket EXCEPT ![s] = "connecting"] /\ wsRef' = s
         /\ isConnecting' = TRUE /\ panelError' = FALSE /\ overlapped' = (overlapped \/ Busy \/ waiting # {})
connectPanel ==
    /\ Connects(attempts) /\ left' = FALSE
    /\ UNCHANGED <<isSocketOpen, reconnectAttempts, attempts, timerRef, beats, beatRef>> /\ UnchangedList
\* setTimeout(reconnect, delay).
Reconnects(s) ==
    /\ s \in attempts /\ attempts' = attempts \ {s}
    /\ reconnectAttempts' = reconnectAttempts + 1
    /\ Connects(attempts \ {s})
    /\ UNCHANGED <<isSocketOpen, timerRef, beats, beatRef, left>> /\ UnchangedList

\* Its interval is the one to be cleared, whatever interval was so before.
onopen(s) ==
    /\ socket[s] = "connecting" /\ socket' = [socket EXCEPT ![s] = "open"]
    /\ isSocketOpen' = TRUE /\ isConnecting' = FALSE /\ panelError' = FALSE /\ reconnectAttempts' = 0
    /\ beats' = beats \union {s} /\ beatRef' = s
    /\ UNCHANGED <<wsRef, attempts, timerRef, left, overlapped>> /\ UnchangedList

\* Faulty variant: the next attempt is made whatever ended the connection.
TriesAgainAlways(normally) == reconnectAttempts < MaxReconnectAttempts

TriesAgain(normally) == ~normally /\ reconnectAttempts < MaxReconnectAttempts
\* Only a close handshake that ends, or that the server begins, has the code 1000; a socket
\* closed while it is connecting, or one that is lost, has not.
onclose(s, normally) ==
    /\ socket[s] \in {"connecting", "open", "closing", "aborted"}
    /\ normally => socket[s] \in {"open", "closing"}
    /\ socket' = [socket EXCEPT ![s] = "closed"]
    /\ isSocketOpen' = FALSE /\ isConnecting' = FALSE
    /\ beats' = beats \ {beatRef} /\ beatRef' = NoSocket
    /\ attempts' = IF TriesAgain(normally) THEN attempts \union {s} ELSE attempts
    /\ timerRef' = IF TriesAgain(normally) THEN s ELSE timerRef
    /\ \E onerror \in {socket[s] \in {"connecting", "aborted"}, ~normally} :
           panelError' = (panelError \/ onerror \/ reconnectAttempts >= MaxReconnectAttempts)
    /\ overlapped' = (overlapped \/ (\E other \in Sockets \ {s} : socket[other] \in {"connecting", "open"})
                      \/ (left /\ ~normally))
    /\ UNCHANGED <<wsRef, reconnectAttempts, left>> /\ UnchangedList

\* disconnect(), also when the page goes or the effect runs anew: the last timer and the
\* last interval are cleared, the present socket is closed.
disconnectPanel ==
    /\ attempts' = attempts \ {timerRef} /\ timerRef' = NoSocket
    /\ beats' = beats \ {beatRef} /\ beatRef' = NoSocket
    /\ socket' = [s \in Sockets |-> CASE s = wsRef /\ socket[s] = "open" -> "closing"
                                      [] s = wsRef /\ socket[s] = "connecting" -> "aborted"
                                      [] OTHER -> socket[s]]
    /\ wsRef' = NoSocket /\ isSocketOpen' = FALSE /\ isConnecting' = FALSE /\ panelError' = FALSE
    /\ reconnectAttempts' = 0 /\ left' = TRUE
    /\ overlapped' = (overlapped \/ \E s \in Sockets : socket[s] = "connecting")
    /\ UnchangedList

-----------------------------------------------------------------------------
UnchangedSockets ==
    UNCHANGED <<socket, wsRef, isSocketOpen, isConnecting, reconnectAttempts, attempts, timerRef, beats, beatRef,
                left, overlapped>>
\* Faulty variant: one is dropped too early.
KeptBefore(list) == SubSeq(list, 1, IF Len(list) < KeepLast - 2 THEN Len(list) ELSE KeepLast - 2)

\* prev.slice(0, 99).
Kept(list) == SubSeq(list, 1, IF Len(list) < KeepLast - 1 THEN Len(list) ELSE KeepLast - 1)
handleMessage(s, m) ==
    /\ socket[s] \in {"open", "closing"} /\ Len(arrived) < MaxArrived
    /\ notifications' = <<m>> \o Kept(notifications) /\ arrived' = <<m>> \o arrived
    /\ UNCHANGED <<readNotifications, panelError>> /\ UnchangedSockets
ErrorMessage(s) ==
    /\ socket[s] \in {"open", "closing"} /\ panelError' = TRUE
    /\ UnchangedList /\ UnchangedSockets
clearNotifications ==
    /\ notifications' = <<>> /\ arrived' = <<>>
    /\ UNCHANGED <<readNotifications, panelError>> /\ UnchangedSockets
markAsRead(m) ==
    /\ \E n \in DOMAIN notifications : notifications[n] = m
    /\ readNotifications' = readNotifications \union {m}
    /\ UNCHANGED <<notifications, arrived, panelError>> /\ UnchangedSockets
unreadCount == Cardinality({n \in DOMAIN notifications : notifications[n] \notin readNotifications})

ConnectionNext ==
    \/ connectPanel \/ disconnectPanel
    \/ \E s \in Sockets :
        \/ Reconnects(s) \/ onopen(s) \/ ErrorMessage(s)
        \/ \E normally \in BOOLEAN : onclose(s, normally)
\* What is shown, while connections come and go.
ListNext ==
    \/ connectPanel \/ clearNotifications
    \/ \E s \in Sockets : onopen(s) \/ onclose(s, TRUE) \/ \E m \in Messages : handleMessage(s, m)
    \/ \E m \in Messages : markAsRead(m)
PanelSpec == PanelInit /\ [][ConnectionNext \/ ListNext]_PanelVars

-----------------------------------------------------------------------------
\* The hook's state and references are what its handlers leave.
PanelTypeOK ==
    /\ socket \in [Sockets -> {"unused", "connecting", "open", "closing", "aborted", "closed"}]
    /\ {wsRef, timerRef, beatRef} \subseteq Sockets \union {NoSocket}
    /\ attempts \union beats \subseteq Sockets /\ reconnectAttempts \in Nat /\ unreadCount \in 0 .. KeepLast

\* Unless a socket was opened, or closed, while another or an attempt was on its way, the page says it is
\* connected just when its socket is open, and the heartbeat of that socket is what runs.
ConnectedIsOpen ==
    overlapped \/ /\ isSocketOpen = (wsRef # NoSocket /\ socket[wsRef] = "open")
                  /\ beats = (IF isSocketOpen THEN {wsRef} ELSE {})

\* After disconnect(), with the same exception, no attempt waits and no socket lives on.
QuietAfterDisconnect ==
    (left /\ ~overlapped) => attempts = {} /\ beats = {} /\ \A s \in Sockets : socket[s] \notin {"connecting", "open"}

\* With the same exception, no more attempts are made in a row than configured.
GivesUpInTime == overlapped \/ reconnectAttempts <= MaxReconnectAttempts

\* The list is the latest that arrived, through any number of connections.
LatestAreKept ==
    notifications = SubSeq(arrived, 1, IF Len(arrived) < KeepLast THEN Len(arrived) ELSE KeepLast)
=============================================================================
