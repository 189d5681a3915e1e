----------------------------- MODULE SessionStore -----------------------------
(***************************************************************************)
(* libs/cache/src/session-service.ts: the sessions of one user.  A call is *)
(* a sequence of Redis commands, one per step, each carrying what the call *)
(* read before; commands of different calls interleave, and the clock may  *)
(* move between two of them.  Times are what is left of them, in ticks.    *)
(***************************************************************************)
EXTENDS Integers, FiniteSets

CONSTANTS
    Sessions,      \* session ids: generateSessionId never repeats one
    Callers,       \* requests in flight at the same time
    Ops,           \* the operations they use
    maxSessions,
    TTL,           \* ttlSeconds
    ClockMoves,    \* FALSE: the runs end within a tick
    RedisMayFail   \* TRUE: a command may fail, which CacheService hides

VARIABLES
    session,    \* what Redis holds under each session's key
    index,      \* the user's set of session ids: its members and its expiry
    call,       \* the request each caller is in
    destroyed   \* the sessions destroySession deleted while no other call had them

vars == <<session, index, call, destroyed>>

\* Ids are random strings of one length: there are some, and finitely many.
ASSUME SessionAssumption == /\ Sessions # {} /\ IsFiniteSet(Sessions)
                            /\ TTL \in Nat \ {0} /\ maxSessions \in Nat \ {0}
                            /\ Ops \subseteq {"create", "validate", "update", "destroy", "destroyUser"}

Never == TTL + 1        \* the ttl of a key that does not expire
Expired == -1
Lefts == Expired .. TTL
MaxOwed == 2            \* of more nested destroySession frames only the parity is kept

Fresh == [phase |-> "fresh"]
Gone == [phase |-> "gone"]
Stored(left, ttl) == [phase |-> "stored", left |-> left, ttl |-> ttl]
Live(s) == session[s].phase = "stored"
NoIndex == [members |-> {}, ttl |-> Never]

Pcs == {"set", "sadd", "expire", "members", "get", "extend", "put", "del", "srem", "clear"}
Idle == [pc |-> "idle"]
\* own: the id createSession drew; sid: the session in hand; copy: its expiresAt
\* as read; left, ttl: expiresAt and ttl of the next write; found: getSession
\* returned the session; owed: destroySession frames still to delete it; todo:
\* sessions still to be destroyed by this call.
Call == [pc : Pcs, op : Ops, own : Sessions, sid : Sessions, copy : Lefts, left : Lefts,
         ttl : 0 .. TTL, found : BOOLEAN, owed : 0 .. MaxOwed, todo : SUBSET Sessions]
Begin(op, pc, s, owed) == [pc |-> pc, op |-> op, own |-> s, sid |-> s, copy |-> TTL,
                           left |-> TTL, ttl |-> TTL, found |-> FALSE, owed |-> owed, todo |-> {}]

At(c, pc) == call[c].pc = pc
Busy(c) == call[c] # Idle
Alone(c, s) == \A d \in Callers \ {c} : Busy(d) => call[d].sid # s
Step(c, k) == call' = [call EXCEPT ![c] = k]
GoTo(c, pc) == Step(c, [call[c] EXCEPT !.pc = pc])

Init ==
    /\ session = [s \in Sessions |-> Fresh]
    /\ index = NoIndex
    /\ call = [c \in Callers |-> Idle]
    /\ destroyed = {}

-----------------------------------------------------------------------------
Creating(s) == \E c \in Callers : Busy(c) /\ call[c].op = "create" /\ call[c].own = s
Known(s) == session[s] # Fresh /\ ~Creating(s)    \* createSession has returned the id

createSession(c) == \E s \in Sessions : session[s] = Fresh /\ ~Creating(s)
                                        /\ Step(c, Begin("create", "set", s, 0))
validateSession(c) == \E s \in Sessions : Known(s) /\ Step(c, Begin("validate", "get", s, 0))
updateSession(c) == \E s \in Sessions : Known(s) /\ Step(c, Begin("update", "get", s, 0))
destroySession(c) == \E s \in Sessions : Known(s) /\ Step(c, Begin("destroy", "get", s, 1))
destroyUserSessions(c) ==
    Step(c, Begin("destroyUser", "members", CHOOSE s \in Sessions : TRUE, 0))

Request(c) ==
    /\ ~Busy(c)
    /\ \/ "create" \in Ops /\ createSession(c)
       \/ "validate" \in Ops /\ validateSession(c)
       \/ "update" \in Ops /\ updateSession(c)
       \/ "destroy" \in Ops /\ destroySession(c)
       \/ "destroyUser" \in Ops /\ destroyUserSessions(c)
    /\ UNCHANGED <<session, index, destroyed>>

-----------------------------------------------------------------------------
\* CacheService swallows a failed command: the call goes on as if it had run.
Write(s, left, ttl) ==
    \/ session' = [session EXCEPT ![s] = Stored(left, ttl)]
    \/ RedisMayFail /\ session' = [session EXCEPT ![s] = IF @ = Fresh THEN Gone ELSE @]

\* Faulty variant: a session stays among those to be destroyed.
ProceedAgain(c, k) ==
    IF k.owed > 0 THEN Step(c, [k EXCEPT !.pc = "del"])
    ELSE IF k.todo # {}
    THEN \E s \in k.todo : Step(c, [k EXCEPT !.pc = "get", !.sid = s, !.owed = 1])
    ELSE Step(c, IF k.op = "destroyUser" THEN [k EXCEPT !.pc = "clear"] ELSE Idle)

\* Call k has returned from a getSession or destroySession of its own.
Proceed(c, k) ==
    IF k.owed > 0 THEN Step(c, [k EXCEPT !.pc = "del"])
    ELSE IF k.todo # {}
    THEN \E s \in k.todo : Step(c, [k EXCEPT !.pc = "get", !.sid = s, !.owed = 1,
                                             !.todo = @ \ {s}])
    ELSE Step(c, IF k.op = "destroyUser" THEN [k EXCEPT !.pc = "clear"] ELSE Idle)

\* createSession: the session's key, then the user's set.
Set(c) ==
    /\ At(c, "set")
    /\ Write(call[c].sid, call[c].left, call[c].ttl)
    /\ GoTo(c, "sadd") /\ UNCHANGED <<index, destroyed>>

\* Faulty variant: the new session replaces the set.
SaddAlone(c) ==
    /\ At(c, "sadd")
    /\ index' = [index EXCEPT !.members = {call[c].sid}]
    /\ GoTo(c, "expire") /\ UNCHANGED <<session, destroyed>>

Sadd(c) ==
    /\ At(c, "sadd")
    /\ \/ index' = [index EXCEPT !.members = @ \union {call[c].sid}]
       \/ RedisMayFail /\ UNCHANGED index
    /\ GoTo(c, "expire") /\ UNCHANGED <<session, destroyed>>

Expire(c) ==
    /\ At(c, "expire")
    /\ \/ index' = IF index.members = {} THEN index ELSE [index EXCEPT !.ttl = TTL]
       \/ RedisMayFail /\ UNCHANGED index
    /\ GoTo(c, "members") /\ UNCHANGED <<session, destroyed>>

\* Faulty variant: one session is left over the limit.
ExcessByOne(members) ==
    {E \in SUBSET members :
        Cardinality(E) = IF Cardinality(members) > maxSessions + 1
                         THEN Cardinality(members) - maxSessions - 1 ELSE 0}

\* enforceMaxSessions: as many of the first members as are in excess; the
\* order of smembers is Redis's own.
Excess(members) ==
    {E \in SUBSET members :
        Cardinality(E) = IF Cardinality(members) > maxSessions
                         THEN Cardinality(members) - maxSessions ELSE 0}

\* smembers: for enforceMaxSessions, or for getUserSessions in destroyUserSessions.
Members(c) ==
    /\ At(c, "members")
    /\ \/ \E E \in IF call[c].op = "create" THEN Excess(index.members) ELSE {index.members} :
              Proceed(c, [call[c] EXCEPT !.todo = E])
       \/ RedisMayFail /\ Proceed(c, call[c])
    /\ UNCHANGED <<session, index, destroyed>>

\* getSession: an absent session ends it; one past its expiresAt is destroyed,
\* and destroySession begins with getSession again; another is extended.
Get(c) ==
    LET k == [call[c] EXCEPT !.found = FALSE]
        held == session[k.sid] IN
    /\ At(c, "get")
    /\ \/ (Live(k.sid) => RedisMayFail) /\ Proceed(c, k)
       \/ /\ Live(k.sid)
          /\ Step(c, IF held.left = Expired
                     THEN [k EXCEPT !.owed = IF @ < MaxOwed THEN @ + 1 ELSE @ - 1]
                     ELSE [k EXCEPT !.pc = "extend", !.copy = held.left, !.left = TTL,
                                    !.ttl = TTL, !.found = TRUE])
    /\ UNCHANGED <<session, index, destroyed>>

\* getSession returns the copy it read; updateSession writes it back.
Returned(c) ==
    LET k == call[c] IN
    IF k.op = "update" /\ k.owed = 0
    THEN Step(c, [k EXCEPT !.pc = "put", !.left = k.copy,
                           !.ttl = IF k.copy = Expired THEN 0 ELSE k.copy])
    ELSE Proceed(c, k)

\* extendSession: the copy is written with a new expiresAt, whether or not the
\* session is still there.
Extend(c) ==
    /\ At(c, "extend")
    /\ Write(call[c].sid, call[c].left, call[c].ttl)
    /\ Returned(c) /\ UNCHANGED <<index, destroyed>>

\* updateSession writes the expiresAt of the copy over the extended one; to
\* CacheService, a ttl of 0 is no ttl.
Put(c) ==
    /\ At(c, "put")
    /\ Write(call[c].sid, call[c].left, IF call[c].ttl = 0 THEN Never ELSE call[c].ttl)
    /\ Step(c, Idle) /\ UNCHANGED <<index, destroyed>>

\* Faulty variant: destroySession only removes the member.
DelNothing(c) ==
    /\ At(c, "del")
    /\ UNCHANGED <<session, index>>
    /\ destroyed' = destroyed \union {call[c].sid}
    /\ Proceed(c, [call[c] EXCEPT !.owed = @ - 1, !.found = FALSE])

\* destroySession deletes the key, and then the member if getSession found the
\* session, which only the innermost of nested calls can have.
Del(c) ==
    LET k == [call[c] EXCEPT !.owed = @ - 1] IN
    /\ At(c, "del")
    /\ \/ /\ session' = [session EXCEPT ![k.sid] = IF Live(k.sid) THEN Gone ELSE @]
          /\ destroyed' = IF Alone(c, k.sid) THEN destroyed \union {k.sid} ELSE destroyed
       \/ RedisMayFail /\ UNCHANGED <<session, destroyed>>
    /\ IF k.found THEN Step(c, [k EXCEPT !.pc = "srem"]) ELSE Proceed(c, k)
    /\ UNCHANGED index

\* removeUserSession; Redis removes a set with no members.
Srem(c) ==
    LET left == index.members \ {call[c].sid} IN
    /\ At(c, "srem")
    /\ \/ index' = IF left = {} THEN NoIndex ELSE [index EXCEPT !.members = left]
       \/ RedisMayFail /\ UNCHANGED index
    /\ Proceed(c, [call[c] EXCEPT !.found = FALSE])
    /\ UNCHANGED <<session, destroyed>>

\* destroyUserSessions deletes the user's set.
Clear(c) ==
    /\ At(c, "clear")
    /\ index' = NoIndex \/ (RedisMayFail /\ UNCHANGED index)
    /\ Step(c, Idle) /\ UNCHANGED <<session, destroyed>>

-----------------------------------------------------------------------------
Aged(left) == IF left = Expired THEN Expired ELSE left - 1

\* Redis drops the keys whose time is over.
Tick ==
    /\ ClockMoves
    /\ session' = [s \in Sessions |->
           IF ~Live(s) THEN session[s]
           ELSE IF session[s].ttl = Never THEN Stored(Aged(session[s].left), Never)
           ELSE IF session[s].ttl = 0 THEN Gone
           ELSE Stored(Aged(session[s].left), session[s].ttl - 1)]
    /\ index' = IF index.ttl = Never THEN index
                ELSE IF index.ttl = 0 THEN NoIndex ELSE [index EXCEPT !.ttl = @ - 1]
    /\ call' = [c \in Callers |->
           IF Busy(c) THEN [call[c] EXCEPT !.copy = Aged(@), !.left = Aged(@)] ELSE Idle]
    /\ UNCHANGED destroyed

Command(c) ==
    \/ Set(c) \/ Sadd(c) \/ Expire(c) \/ Members(c) \/ Get(c)
    \/ Extend(c) \/ Put(c) \/ Del(c) \/ Srem(c) \/ Clear(c)
Next == Tick \/ \E c \in Callers : Request(c) \/ Command(c)
Spec == Init /\ [][Next]_vars

\* A command is answered in the end, also with an error, and time passes.
LiveSpec == Spec /\ WF_vars(Tick) /\ \A c \in Callers : WF_vars(Command(c))

-----------------------------------------------------------------------------
\* The types of the store and of the calls in flight.
TypeOK ==
    /\ session \in [Sessions -> {Fresh, Gone}
                        \union [phase : {"stored"}, left : Lefts, ttl : 0 .. Never]]
    /\ index \in [members : SUBSET Sessions, ttl : 0 .. Never]
    /\ index.members = {} => index = NoIndex
    /\ call \in [Callers -> Call \union {Idle}]
    /\ destroyed \subseteq Sessions

AllIdle == \A c \in Callers : ~Busy(c)
LiveSessions == {s \in Sessions : Live(s)}

\* A session that was deleted while no other call had it in hand is never written
\* back, whatever fails and expires.  (A call that overlaps the deletion writes
\* back the copy it holds.)
DestroyedIsGone == destroyed \intersect LiveSessions = {}

\* Between calls the user has at most maxSessions sessions.
LimitKept == AllIdle => Cardinality(LiveSessions) <= maxSessions

\* Between calls the user's set has every session of the user: it is all that
\* destroyUserSessions and enforceMaxSessions can find.
LiveIsIndexed == AllIdle => LiveSessions \subseteq index.members

\* A session in the store will expire there.
KeysExpire == \A s \in LiveSessions : session[s].ttl # Never

\* Every call returns, although getSession and destroySession call each other
\* and commands fail.  It goes on only as long as the session has no ttl or
\* others keep writing it back.
CallsReturn ==
    \A c \in Callers :
        Busy(c) ~> \/ ~Busy(c)
                   \/ ~KeysExpire
                   \/ \E d \in Callers \ {c} : At(d, "extend") \/ At(d, "put")
=============================================================================
