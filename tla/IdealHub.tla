------------------------------- MODULE IdealHub -------------------------------
(***************************************************************************)
(* What the WebSocket hub promises, without its indexes: a set of client   *)
(* sessions, and notices that reach exactly the sessions they are for.  A  *)
(* session that was not heard from since the last heartbeat is quiet: it   *)
(* gets nothing, and the next heartbeat closes it.                         *)
(***************************************************************************)
CONSTANTS Conns, Users, Channels, Roles, Notices

VARIABLES
    sessions,    \* the open ones: [users, channels, roles], or Closed
    quiet,       \* sessions not heard from since the last heartbeat
    delivered    \* the last notice, and the sessions that got it

vars == <<sessions, quiet, delivered>>

Closed == [users |-> {}]
Opened == [users |-> {}, channels |-> {}, roles |-> {}]
Open == {c \in Conns : sessions[c] # Closed}

\* users: whoever the client has subscribed as since it connected.
Session == [users : SUBSET Users, channels : SUBSET Channels, roles : SUBSET Roles]

For(n) == {c \in Open : \/ n.userId \in sessions[c].users
                        \/ n.roles \intersect sessions[c].roles # {}
                        \/ n.channels \intersect sessions[c].channels # {}}

Init ==
    /\ sessions = [c \in Conns |-> Closed]
    /\ quiet = {}
    /\ \E n \in Notices : delivered = [notice |-> n, to |-> {}]

Close(C) == sessions' = [c \in Conns |-> IF c \in C THEN Closed ELSE sessions[c]]

Connect(c) ==
    /\ c \notin Open
    /\ sessions' = [sessions EXCEPT ![c] = Opened]
    /\ UNCHANGED <<quiet, delivered>>

\* A session stays open, and with every user it has named.
Update(c) ==
    /\ c \in Open
    /\ sessions' = [sessions EXCEPT ![c] = sessions'[c]]
    /\ sessions'[c] \in Session
    /\ sessions[c].users \subseteq sessions'[c].users
    /\ UNCHANGED <<quiet, delivered>>

Hear(c) ==
    /\ c \in Open
    /\ quiet' = quiet \ {c}
    /\ UNCHANGED <<sessions, delivered>>

Disconnect(c) ==
    /\ c \in Open
    /\ Close({c})
    /\ quiet' = quiet \ {c}
    /\ UNCHANGED delivered

\* Whoever a notice is for either gets it or is found broken and closed.
Deliver(broken) ==
    /\ UNCHANGED quiet
    /\ delivered'.notice \in Notices
    /\ broken \subseteq For(delivered'.notice) \ quiet
    /\ Close(broken)
    /\ delivered' = [notice |-> delivered'.notice,
                     to     |-> (For(delivered'.notice) \ quiet) \ broken]

Heartbeat ==
    /\ Close(quiet)
    /\ quiet' = Open \ quiet
    /\ UNCHANGED delivered

Next ==
    \/ \E c \in Conns : Connect(c) \/ Update(c) \/ Hear(c) \/ Disconnect(c)
    \/ \E broken \in SUBSET Conns : Deliver(broken)
    \/ Heartbeat

Spec == Init /\ [][Next]_vars
=============================================================================
