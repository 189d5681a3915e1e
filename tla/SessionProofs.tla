----------------------------- MODULE SessionProofs -----------------------------
(***************************************************************************)
(* The sessions of a user, for any ids, callers, limit and ttl: what is    *)
(* deleted stays deleted, and the limit on sessions holds.                 *)
(***************************************************************************)
EXTENDS SessionStore, FiniteSetTheorems, TLAPS

-----------------------------------------------------------------------------
\* What is deleted stays deleted, with every operation, failure and expiry.

\* The steps at which a call has in hand a session that has been created.
Handling == {"sadd", "expire", "get", "extend", "put", "del", "srem"}

\* A call handles only sessions that have been created, and is not about to
\* write one that was deleted while no other call had it.
CallOK(k) ==
    \/ k = Idle
    \/ /\ k \in Call
       /\ k.pc = "del" => k.owed > 0
       /\ k.pc \in {"set", "sadd", "expire", "members"} => k.owed = 0
       /\ k.pc \in Handling => session[k.sid] # Fresh
       /\ \A s \in k.todo : session[s] # Fresh
       /\ k.sid \in destroyed => k.pc \notin {"set", "extend", "put"}

Held == {Fresh, Gone} \union [phase : {"stored"}, left : Lefts, ttl : 0 .. Never]

StoreOK ==
    /\ session \in [Sessions -> Held]
    /\ index \in [members : SUBSET Sessions, ttl : 0 .. Never]
    /\ index.members = {} => index = NoIndex
    /\ \A s \in index.members : session[s] # Fresh
    /\ destroyed \subseteq Sessions
    /\ \A s \in destroyed : session[s] = Gone

CallsOK == call \in [Callers -> Call \union {Idle}] /\ \A c \in Callers : CallOK(call[c])

StoreInv == StoreOK /\ CallsOK

-----------------------------------------------------------------------------
LEMMA Parts ==
    /\ Fresh # Gone /\ Fresh.phase = "fresh" /\ Gone.phase = "gone"
    /\ Gone \in Held /\ Fresh \in Held
    /\ \A left \in Lefts, ttl \in 0 .. Never :
          /\ Stored(left, ttl) \in Held /\ Stored(left, ttl) # Fresh
          /\ Stored(left, ttl) # Gone /\ Stored(left, ttl).phase = "stored"
          /\ Stored(left, ttl).left = left /\ Stored(left, ttl).ttl = ttl
    /\ Idle \notin Call /\ Idle.pc = "idle" /\ \A k \in Call : k.pc \in Pcs
    /\ TTL \in Nat /\ TTL > 0 /\ Never \in Nat /\ TTL \in Lefts /\ NoIndex.members = {}
    /\ NoIndex \in [members : SUBSET Sessions, ttl : 0 .. Never]
<1>1. TTL \in Nat /\ TTL > 0 /\ Never = TTL + 1 /\ Never \in Nat
  BY SessionAssumption DEF Never
<1>2. Idle \notin Call
  <2>1. ASSUME Idle \in Call PROVE FALSE
    <3>1. Idle.pc \in Pcs
      BY <2>1 DEF Call
    <3> QED
      BY <3>1 DEF Idle, Pcs
  <2> QED
    BY <2>1
<1>3. Fresh.phase = "fresh" /\ Gone.phase = "gone"
  BY DEF Fresh, Gone
<1>4. ASSUME NEW left \in Lefts, NEW ttl \in 0 .. Never
      PROVE  /\ Stored(left, ttl) \in Held
             /\ Stored(left, ttl).phase = "stored"
             /\ Stored(left, ttl).left = left /\ Stored(left, ttl).ttl = ttl
  BY <1>4 DEF Stored, Held
<1>5. \A left \in Lefts, ttl \in 0 .. Never :
         /\ Stored(left, ttl) \in Held /\ Stored(left, ttl) # Fresh
         /\ Stored(left, ttl) # Gone /\ Stored(left, ttl).phase = "stored"
         /\ Stored(left, ttl).left = left /\ Stored(left, ttl).ttl = ttl
  BY <1>3, <1>4
<1>6. Idle.pc = "idle" /\ \A k \in Call : k.pc \in Pcs
  BY DEF Idle, Call
<1>7. TTL \in Lefts
  BY <1>1 DEF Lefts, Expired
<1>8. NoIndex.members = {} /\ NoIndex \in [members : SUBSET Sessions, ttl : 0 .. Never]
  BY <1>1 DEF NoIndex
<1>9. Fresh \in Held /\ Gone \in Held
  BY DEF Held
<1> QED
  BY <1>1, <1>2, <1>3, <1>5, <1>6, <1>7, <1>8, <1>9

\* Call k goes on with a deletion it owes, with the next session, or ends.
Follows(k, n) ==
    \/ n = Idle
    \/ /\ n \in Call /\ n.op = k.op /\ n.own = k.own /\ n.left = k.left
       /\ \/ /\ n.pc = "del" /\ k.owed > 0
             /\ n.owed = k.owed /\ n.sid = k.sid /\ n.todo = k.todo /\ n.found = k.found
          \/ /\ n.pc = "get" /\ k.owed = 0
             /\ n.owed = 1 /\ n.sid \in k.todo /\ n.todo = k.todo \ {n.sid}
          \/ n.pc = "clear" /\ k.owed = 0 /\ n.todo = {} /\ n.op = "destroyUser"

\* The fields of a call, and those of one that differs in some.
LEMMA CallFields ==
    ASSUME NEW k \in Call
    PROVE  /\ k.pc \in Pcs /\ k.op \in Ops /\ k.own \in Sessions /\ k.sid \in Sessions
           /\ k.copy \in Lefts /\ k.left \in Lefts /\ k.ttl \in 0 .. TTL /\ k.found \in BOOLEAN
           /\ k.owed \in 0 .. MaxOwed /\ k.todo \in SUBSET Sessions /\ k # Idle
  BY Parts DEF Call

LEMMA MovesTo ==
    ASSUME NEW k \in Call, NEW pc \in Pcs
    PROVE  LET n == [k EXCEPT !.pc = pc]
           IN  /\ n \in Call /\ n.pc = pc /\ n.op = k.op /\ n.own = k.own /\ n.sid = k.sid /\ n.copy = k.copy
               /\ n.left = k.left /\ n.ttl = k.ttl /\ n.found = k.found /\ n.owed = k.owed /\ n.todo = k.todo
<1> DEFINE n == [k EXCEPT !.pc = pc]
<1>1. n \in Call
  BY DEF Call
<1> QED
  BY <1>1 DEF Call

LEMMA Goes ==
    ASSUME NEW c \in Callers, NEW k \in Call, Proceed(c, k)
    PROVE  \E n : Follows(k, n) /\ call' = [call EXCEPT ![c] = n]
                  /\ (n = Idle => k.owed = 0 /\ k.todo = {})
<1>0. k.owed \in 0 .. 2 /\ k.todo \in SUBSET Sessions
  BY CallFields DEF MaxOwed
<1>1. CASE k.owed > 0
  <2>1. PICK n : n = [k EXCEPT !.pc = "del"]
    OBVIOUS
  <2>2. "del" \in Pcs
    BY DEF Pcs
  <2>3. Follows(k, n) /\ n # Idle
    BY <1>1, <2>1, <2>2, MovesTo, CallFields DEF Follows
  <2>4. call' = [call EXCEPT ![c] = n]
    BY <1>1, <2>1 DEF Proceed, Step
  <2> QED
    BY <2>3, <2>4
<1>2. CASE k.owed = 0 /\ k.todo # {}
  <2>0. ~(k.owed > 0)
    BY <1>2
  <2>1. PICK s \in k.todo : call' = [call EXCEPT ![c] =
            [k EXCEPT !.pc = "get", !.sid = s, !.owed = 1, !.todo = k.todo \ {s}]]
    BY <1>2, <2>0 DEF Proceed, Step
  <2>2. PICK m : m = [k EXCEPT !.pc = "get"]
    OBVIOUS
  <2>3. PICK n : n = [m EXCEPT !.sid = s, !.owed = 1, !.todo = k.todo \ {s}]
    OBVIOUS
  <2>4. n = [k EXCEPT !.pc = "get", !.sid = s, !.owed = 1, !.todo = k.todo \ {s}]
    BY <2>2, <2>3
  <2>5. "get" \in Pcs
    BY DEF Pcs
  <2>6. m \in Call /\ m.pc = "get" /\ m.op = k.op /\ m.own = k.own /\ m.left = k.left
    BY <2>2, <2>5, MovesTo
  <2>7. n \in Call /\ n.pc = m.pc /\ n.op = m.op /\ n.own = m.own /\ n.left = m.left
    <3>1. s \in Sessions /\ 1 \in 0 .. MaxOwed /\ k.todo \ {s} \in SUBSET Sessions
      BY <1>0 DEF MaxOwed
    <3>2. PICK t, o : t = k.todo \ {s} /\ o = 1
      OBVIOUS
    <3>3. n = [m EXCEPT !.sid = s, !.owed = o, !.todo = t]
      BY <2>3, <3>2
    <3>4. n \in Call
      BY <2>6, <3>1, <3>2, <3>3 DEF Call
    <3> QED
      BY <2>6, <3>3, <3>4 DEF Call
  <2>8. n.owed = 1 /\ n.sid = s /\ n.todo = k.todo \ {s}
    BY <2>3, <2>6 DEF Call
  <2>9. Follows(k, n) /\ n # Idle
    BY <1>2, <2>6, <2>7, <2>8, CallFields DEF Follows
  <2> QED
    BY <2>1, <2>4, <2>9
<1>3. CASE k.owed = 0 /\ k.todo = {} /\ k.op = "destroyUser"
  <2>1. PICK n : n = [k EXCEPT !.pc = "clear"]
    OBVIOUS
  <2>2. "clear" \in Pcs /\ ~(k.owed > 0)
    BY <1>3 DEF Pcs
  <2>3. Follows(k, n) /\ n # Idle
    BY <1>3, <2>1, <2>2, MovesTo, CallFields DEF Follows
  <2>4. call' = [call EXCEPT ![c] = n]
    BY <1>3, <2>1, <2>2 DEF Proceed, Step
  <2> QED
    BY <2>3, <2>4
<1>4. CASE k.owed = 0 /\ k.todo = {} /\ k.op # "destroyUser"
  BY <1>4 DEF Follows, Proceed, Step
<1> QED
  BY <1>0, <1>1, <1>2, <1>3, <1>4

\* No step makes a session fresh again.
Fades == \A s \in Sessions : session[s] # Fresh => session'[s] # Fresh

LEMMA Writes ==
    ASSUME StoreInv, NEW s \in Sessions, NEW left \in Lefts, NEW ttl \in 0 .. Never,
           Write(s, left, ttl)
    PROVE  /\ Fades /\ session' \in [Sessions -> Held] /\ session'[s] # Fresh
           /\ \A x \in Sessions \ {s} : session'[x] = session[x]
  BY Parts DEF StoreInv, StoreOK, Write, Fades

\* What a step of one call has to keep.
LEMMA CommandKeeps ==
    ASSUME StoreInv, StoreOK', Fades, NEW c \in Callers, NEW n, CallOK(n)',
           call' = [call EXCEPT ![c] = n],
           \A s \in destroyed' \ destroyed : Alone(c, s)
    PROVE  StoreInv'
<1>1. ASSUME NEW d \in Callers \ {c} PROVE CallOK(call[d])'
  <2>1. PICK k : k = call[d]
    OBVIOUS
  <2>2. call'[d] = k
    BY <1>1, <2>1 DEF StoreInv, CallsOK
  <2>3. CallOK(k)
    BY <2>1 DEF StoreInv, CallsOK
  <2>4. k # Idle => k.sid \in Sessions /\ k.todo \subseteq Sessions
    BY <2>3 DEF CallOK, Call
  <2>5. k # Idle => k.sid \notin destroyed' \ destroyed
    BY <2>1 DEF Alone, Busy
  <2>6. CallOK(k)'
    BY <2>3, <2>4, <2>5 DEF CallOK, Fades
  <2> QED
    BY <2>2, <2>6
<1>2. call'[c] = n /\ call' \in [Callers -> Call \union {Idle}]
  BY DEF StoreInv, CallsOK, CallOK
<1>3. CallOK(call[c])'
  BY <1>2
<1> QED
  BY <1>1, <1>2, <1>3 DEF StoreInv, CallsOK

\* A call that goes on with what it had is as good as it was.
LEMMA FollowingOK ==
    ASSUME NEW k \in Call, NEW n, Follows(k, n), StoreOK', Fades,
           k.owed > 0 => session'[k.sid] # Fresh,
           \A s \in k.todo : session'[s] # Fresh
    PROVE  CallOK(n)'
  BY DEF Follows, CallOK, Handling, Call

LEMMA StoreInitially == Init => StoreInv
  BY Parts DEF Init, StoreInv, StoreOK, CallsOK, CallOK

LEMMA RequestKeeps ==
    ASSUME StoreInv, NEW c \in Callers, Request(c)
    PROVE  StoreInv'
<1>1. StoreOK' /\ Fades /\ destroyed' = destroyed
  BY DEF Request, StoreInv, StoreOK, Fades, Live
<1>2. ASSUME NEW op, NEW pc, NEW s, NEW owed
      PROVE  /\ op \in Ops /\ pc \in Pcs /\ s \in Sessions /\ owed \in 0 .. MaxOwed => Begin(op, pc, s, owed) \in Call
             /\ Begin(op, pc, s, owed).pc = pc /\ Begin(op, pc, s, owed).sid = s
             /\ Begin(op, pc, s, owed).owed = owed /\ Begin(op, pc, s, owed).todo = {}
  BY Parts DEF Begin, Call
<1>3. CASE "create" \in Ops /\ createSession(c)
  <2>1. PICK s \in Sessions : session[s] = Fresh /\ Step(c, Begin("create", "set", s, 0))
    BY <1>3 DEF createSession
  <2>2. CallOK(Begin("create", "set", s, 0))'
    <3>1. s \notin destroyed' /\ session'[s] = Fresh
      BY <1>1, <2>1, Parts DEF StoreInv, StoreOK, Request
    <3> QED
      BY <1>2, <1>3, <3>1 DEF CallOK, Handling, Pcs, MaxOwed
  <2> QED
    BY <1>1, <2>1, <2>2, CommandKeeps DEF Step
<1>4. ASSUME NEW op \in Ops, NEW s \in Sessions, Known(s), NEW owed \in {0, 1},
             Step(c, Begin(op, "get", s, owed))
      PROVE  StoreInv'
  <2>1. CallOK(Begin(op, "get", s, owed))'
    <3>1. session'[s] # Fresh
      BY <1>1, <1>4 DEF Known, Fades
    <3> QED
      BY <1>2, <1>4, <3>1 DEF CallOK, Handling, Pcs, MaxOwed
  <2> QED
    BY <1>1, <1>4, <2>1, CommandKeeps DEF Step
<1>5. CASE "destroyUser" \in Ops /\ destroyUserSessions(c)
  <2>1. PICK s \in Sessions : Step(c, Begin("destroyUser", "members", s, 0))
    BY <1>5, SessionAssumption DEF destroyUserSessions
  <2>2. CallOK(Begin("destroyUser", "members", s, 0))'
    BY <1>2, <1>5 DEF CallOK, Handling, Pcs, MaxOwed
  <2> QED
    BY <1>1, <2>1, <2>2, CommandKeeps DEF Step
<1> QED
  BY <1>3, <1>4, <1>5 DEF Request, validateSession, updateSession, destroySession


-----------------------------------------------------------------------------
\* The call of a command: what it has in hand has been created.
LEMMA InHand ==
    ASSUME StoreInv, NEW c \in Callers, call[c].pc \in Pcs
    PROVE  /\ call[c] \in Call /\ CallOK(call[c])
           /\ call[c].todo \in SUBSET Sessions /\ \A s \in call[c].todo : session[s] # Fresh
           /\ call[c].pc \in Handling => session[call[c].sid] # Fresh
<1>1. call[c] # Idle
  BY DEF Idle, Pcs
<1> QED
  BY <1>1, CallFields DEF StoreInv, CallsOK, CallOK

\* A step that leaves the store alone keeps it well.
LEMMA StoreStays ==
    ASSUME StoreInv, UNCHANGED <<session, index, destroyed>>
    PROVE  StoreOK' /\ Fades
  BY DEF StoreInv, StoreOK, Fades

\* A call on its way, with what it had, from one step to another that handles a session.
LEMMA WalkingOK ==
    ASSUME NEW k \in Call, NEW pc \in {"sadd", "expire", "members", "srem"}, CallOK(k), Fades,
           session'[k.sid] # Fresh, pc # "srem" => k.owed = 0
    PROVE  CallOK([k EXCEPT !.pc = pc])'
<1>1. pc \in Pcs
  BY DEF Pcs
<1>2. PICK n : n = [k EXCEPT !.pc = pc]
  OBVIOUS
<1>3. n \in Call /\ n.pc = pc /\ n.sid = k.sid /\ n.todo = k.todo /\ n.owed = k.owed
  BY <1>1, <1>2, MovesTo
<1>4. \A s \in n.todo : session'[s] # Fresh
  BY <1>3, CallFields DEF CallOK, Fades
<1> QED
  BY <1>2, <1>3, <1>4 DEF CallOK

LEMMA SetKeeps == ASSUME StoreInv, NEW c \in Callers, Set(c) PROVE StoreInv'
<1>1. PICK k : k = call[c]
  OBVIOUS
<1>2. k \in Call /\ CallOK(k) /\ k.sid \in Sessions /\ k.left \in Lefts /\ k.ttl \in 0 .. Never
      /\ k.pc = "set" /\ k.owed = 0
  BY <1>1, InHand, CallFields, SessionAssumption DEF Set, At, Pcs, Never, CallOK, Idle
<1>3. /\ Fades /\ session' \in [Sessions -> Held] /\ session'[k.sid] # Fresh
      /\ \A x \in Sessions \ {k.sid} : session'[x] = session[x]
  BY <1>1, <1>2, Writes DEF Set
<1>4. k.sid \notin destroyed
  BY <1>2, Parts DEF CallOK
<1>5. StoreOK'
  BY <1>3, <1>4 DEF Set, StoreInv, StoreOK, Fades
<1>6. CallOK([k EXCEPT !.pc = "sadd"])'
  BY <1>2, <1>3, WalkingOK
<1> QED
  BY <1>1, <1>3, <1>5, <1>6, CommandKeeps DEF Set, GoTo, Step

LEMMA SaddKeeps == ASSUME StoreInv, NEW c \in Callers, Sadd(c) PROVE StoreInv'
<1>1. PICK k : k = call[c]
  OBVIOUS
<1>2. k \in Call /\ CallOK(k) /\ k.sid \in Sessions /\ session[k.sid] # Fresh /\ k.owed = 0
  BY <1>1, InHand, CallFields DEF Sadd, At, Pcs, Handling, CallOK
<1>3. StoreOK' /\ Fades
  BY <1>1, <1>2 DEF Sadd, StoreInv, StoreOK, Fades
<1>4. CallOK([k EXCEPT !.pc = "expire"])'
  BY <1>2, <1>3, WalkingOK DEF Sadd
<1> QED
  BY <1>1, <1>3, <1>4, CommandKeeps DEF Sadd, GoTo, Step

LEMMA ExpireKeeps == ASSUME StoreInv, NEW c \in Callers, Expire(c) PROVE StoreInv'
<1>1. PICK k : k = call[c]
  OBVIOUS
<1>2. k \in Call /\ CallOK(k) /\ k.sid \in Sessions /\ session[k.sid] # Fresh /\ k.owed = 0
  BY <1>1, InHand, CallFields DEF Expire, At, Pcs, Handling, CallOK
<1>3. StoreOK' /\ Fades
  <2>1. index' = index \/ (index.members # {} /\ index' = [index EXCEPT !.ttl = TTL])
    BY DEF Expire
  <2>2. TTL \in 0 .. Never
    BY SessionAssumption DEF Never
  <2> QED
    BY <2>1, <2>2 DEF Expire, StoreInv, StoreOK, Fades
<1>4. CallOK([k EXCEPT !.pc = "members"])'
  BY <1>2, <1>3, WalkingOK DEF Expire
<1> QED
  BY <1>1, <1>3, <1>4, CommandKeeps DEF Expire, GoTo, Step

\* The sessions a call has still to destroy are replaced.
LEMMA Todo ==
    ASSUME NEW k \in Call, NEW E \in SUBSET Sessions
    PROVE  LET n == [k EXCEPT !.todo = E]
           IN  /\ n \in Call /\ n.pc = k.pc /\ n.op = k.op /\ n.own = k.own /\ n.sid = k.sid
               /\ n.left = k.left /\ n.owed = k.owed /\ n.todo = E /\ n.found = k.found
<1> DEFINE n == [k EXCEPT !.todo = E]
<1>1. n \in Call
  BY DEF Call
<1> QED
  BY <1>1 DEF Call

LEMMA MembersKeeps == ASSUME StoreInv, NEW c \in Callers, Members(c) PROVE StoreInv'
<1>1. PICK k : k = call[c]
  OBVIOUS
<1>2. k \in Call /\ CallOK(k) /\ k.owed = 0
  BY <1>1, InHand, CallFields DEF Members, At, Pcs, CallOK
<1>3. StoreOK' /\ Fades /\ UNCHANGED <<session, index, destroyed>>
  BY StoreStays DEF Members
<1>4. PICK E \in SUBSET Sessions :
         /\ \A s \in E : session[s] # Fresh
         /\ Proceed(c, [k EXCEPT !.todo = E])
  <2>1. CASE \E E \in IF k.op = "create" THEN Excess(index.members) ELSE {index.members} :
                Proceed(c, [k EXCEPT !.todo = E])
    BY <2>1 DEF Excess, StoreInv, StoreOK
  <2>2. CASE Proceed(c, k)
    <3>1. k.todo \in SUBSET Sessions /\ (\A s \in k.todo : session[s] # Fresh)
      BY <1>2, CallFields DEF CallOK
    <3>2. k = [k EXCEPT !.todo = k.todo]
      BY <1>2 DEF Call
    <3> QED
      BY <2>2, <3>1, <3>2
  <2> QED
    BY <1>1, <2>1, <2>2 DEF Members
<1>5. PICK m : m = [k EXCEPT !.todo = E]
  OBVIOUS
<1>6. m \in Call /\ m.owed = k.owed /\ m.sid = k.sid /\ m.todo = E
  BY <1>2, <1>5, Todo
<1>7. PICK n : Follows(m, n) /\ call' = [call EXCEPT ![c] = n]
  BY <1>4, <1>5, <1>6, Goes
<1>8. CallOK(n)'
  BY <1>2, <1>3, <1>4, <1>6, <1>7, FollowingOK DEF Fades
<1> QED
  BY <1>3, <1>7, <1>8, CommandKeeps

\* The flag that getSession returned the session, and the deletions owed.
LEMMA Flagged ==
    ASSUME NEW k \in Call, NEW b \in BOOLEAN
    PROVE  LET n == [k EXCEPT !.found = b]
           IN  /\ n \in Call /\ n.pc = k.pc /\ n.op = k.op /\ n.own = k.own /\ n.sid = k.sid
               /\ n.left = k.left /\ n.owed = k.owed /\ n.todo = k.todo /\ n.found = b
<1> DEFINE n == [k EXCEPT !.found = b]
<1>1. n \in Call
  BY DEF Call
<1> QED
  BY <1>1 DEF Call

LEMMA Owing ==
    ASSUME NEW k \in Call, NEW o \in 0 .. MaxOwed
    PROVE  LET n == [k EXCEPT !.owed = o]
           IN  /\ n \in Call /\ n.pc = k.pc /\ n.op = k.op /\ n.own = k.own /\ n.sid = k.sid
               /\ n.left = k.left /\ n.owed = o /\ n.todo = k.todo /\ n.found = k.found
<1> DEFINE n == [k EXCEPT !.owed = o]
<1>1. n \in Call
  BY DEF Call
<1> QED
  BY <1>1 DEF Call

\* A call is about to write the copy it holds.
Copied(k, pc, copy, left, ttl, found) ==
    [k EXCEPT !.pc = pc, !.copy = copy, !.left = left, !.ttl = ttl, !.found = found]

LEMMA Copying ==
    ASSUME NEW k \in Call, NEW pc \in {"extend", "put"}, NEW copy \in Lefts, NEW left \in Lefts,
           NEW ttl \in 0 .. TTL, NEW found \in BOOLEAN
    PROVE  LET n == Copied(k, pc, copy, left, ttl, found)
           IN  /\ n \in Call /\ n.pc = pc /\ n.op = k.op /\ n.own = k.own /\ n.sid = k.sid
               /\ n.owed = k.owed /\ n.todo = k.todo /\ n.found = found
<1>0. PICK n : n = Copied(k, pc, copy, left, ttl, found)
  OBVIOUS
<1>1. pc \in Pcs
  BY DEF Pcs
<1>2. n \in Call
  BY <1>0, <1>1 DEF Call, Copied
<1> QED
  BY <1>0, <1>2 DEF Call, Copied

\* A call goes on after a command that changed no session.
LEMMA ProceedKeeps ==
    ASSUME StoreInv, StoreOK', Fades, UNCHANGED destroyed, NEW c \in Callers, NEW k \in Call,
           Proceed(c, k), k.owed > 0 => session'[k.sid] # Fresh,
           \A s \in k.todo : session[s] # Fresh
    PROVE  StoreInv'
<1>1. PICK n : Follows(k, n) /\ call' = [call EXCEPT ![c] = n]
  BY Goes
<1>2. \A s \in k.todo : session'[s] # Fresh
  BY CallFields DEF Fades
<1>3. CallOK(n)'
  BY <1>1, <1>2, FollowingOK
<1> QED
  BY <1>1, <1>3, CommandKeeps

LEMMA GetKeeps == ASSUME StoreInv, NEW c \in Callers, Get(c) PROVE StoreInv'
<1>1. PICK j : j = call[c]
  OBVIOUS
<1>2. /\ j \in Call /\ CallOK(j) /\ j.sid \in Sessions /\ session[j.sid] # Fresh
      /\ j.pc = "get" /\ \A s \in j.todo : session[s] # Fresh
  BY <1>1, InHand, CallFields DEF Get, At, Pcs, Handling
<1>3. StoreOK' /\ Fades /\ UNCHANGED <<session, index, destroyed>>
  BY StoreStays DEF Get
<1>4. PICK k : k = [j EXCEPT !.found = FALSE]
  OBVIOUS
<1>5. /\ k \in Call /\ k.pc = "get" /\ k.sid = j.sid /\ k.owed = j.owed /\ k.todo = j.todo
      /\ k.owed \in 0 .. 2
  <2>1. k \in Call /\ k.pc = "get" /\ k.sid = j.sid /\ k.owed = j.owed /\ k.todo = j.todo
    BY <1>2, <1>4, Flagged
  <2> QED
    BY <2>1, CallFields DEF MaxOwed
<1>6. CASE Proceed(c, k)
  BY <1>2, <1>3, <1>5, <1>6, ProceedKeeps
<1>7. ASSUME Live(k.sid), session[k.sid].left = Expired,
             Step(c, [k EXCEPT !.owed = IF @ < MaxOwed THEN @ + 1 ELSE @ - 1])
      PROVE  StoreInv'
  <2>1. PICK o : o = IF k.owed < 2 THEN k.owed + 1 ELSE k.owed - 1
    OBVIOUS
  <2>2. o \in 0 .. MaxOwed
    BY <1>5, <2>1 DEF MaxOwed
  <2>3. PICK n : n = [k EXCEPT !.owed = o]
    OBVIOUS
  <2>4. call' = [call EXCEPT ![c] = n]
    BY <1>7, <2>1, <2>3 DEF Step, MaxOwed
  <2>5. n \in Call /\ n.pc = "get" /\ n.sid = j.sid /\ n.todo = j.todo
    BY <1>5, <2>2, <2>3, Owing
  <2>6. CallOK(n)'
    BY <1>2, <1>3, <2>5 DEF CallOK
  <2> QED
    BY <1>3, <2>4, <2>6, CommandKeeps
<1>8. ASSUME Live(k.sid),
             Step(c, [k EXCEPT !.pc = "extend", !.copy = session[k.sid].left, !.left = TTL,
                               !.ttl = TTL, !.found = TRUE])
      PROVE  StoreInv'
  <2>1. session[k.sid].left \in Lefts /\ TTL \in Lefts /\ TTL \in 0 .. TTL
    BY <1>2, <1>5, <1>8, Parts DEF Live, StoreInv, StoreOK, Held
  <2>2. PICK copy \in Lefts : copy = session[k.sid].left
    BY <2>1
  <2>3. PICK n : n = Copied(k, "extend", copy, TTL, TTL, TRUE)
    OBVIOUS
  <2>4. n \in Call /\ n.pc = "extend" /\ n.sid = j.sid /\ n.todo = j.todo
    <3>0. PICK left \in Lefts, ttl \in 0 .. TTL : left = TTL /\ ttl = TTL
      BY <2>1
    <3>1. PICK found \in BOOLEAN : found = TRUE
      OBVIOUS
    <3>2. n = Copied(k, "extend", copy, left, ttl, found) /\ k \in Call
      BY <1>5, <2>3, <3>0, <3>1
    <3>3. n \in Call /\ n.pc = "extend" /\ n.sid = k.sid /\ n.todo = k.todo
      BY <3>2, Copying
    <3> QED
      BY <1>5, <3>3
  <2>5. j.sid \notin destroyed
    BY <1>2, <1>5, <1>8, Parts DEF Live, StoreInv, StoreOK
  <2>6. CallOK(n)'
    BY <1>2, <1>3, <2>4, <2>5 DEF CallOK
  <2>7. call' = [call EXCEPT ![c] = n]
    <3>1. n = [k EXCEPT !.pc = "extend", !.copy = session[k.sid].left, !.left = TTL,
                        !.ttl = TTL, !.found = TRUE]
      BY <2>2, <2>3 DEF Copied
    <3> QED
      BY <1>8, <3>1 DEF Step
  <2> QED
    BY <1>3, <2>6, <2>7, CommandKeeps
<1> QED
  BY <1>1, <1>4, <1>6, <1>7, <1>8 DEF Get

LEMMA ExtendKeeps == ASSUME StoreInv, NEW c \in Callers, Extend(c) PROVE StoreInv'
<1>1. PICK k : k = call[c]
  OBVIOUS
<1>2. /\ k \in Call /\ CallOK(k) /\ k.sid \in Sessions /\ k.left \in Lefts /\ k.copy \in Lefts
      /\ k.ttl \in 0 .. Never /\ k.found \in BOOLEAN /\ k.pc = "extend"
      /\ \A s \in k.todo : session[s] # Fresh
  BY <1>1, InHand, CallFields, SessionAssumption DEF Extend, At, Pcs, Never
<1>3. /\ Fades /\ session' \in [Sessions -> Held] /\ session'[k.sid] # Fresh
      /\ \A x \in Sessions \ {k.sid} : session'[x] = session[x]
  BY <1>1, <1>2, Writes DEF Extend
<1>4. k.sid \notin destroyed
  BY <1>2, Parts DEF CallOK
<1>5. StoreOK'
  BY <1>3, <1>4 DEF Extend, StoreInv, StoreOK, Fades
<1>6. CASE Proceed(c, k)
  BY <1>2, <1>3, <1>5, <1>6, ProceedKeeps DEF Extend
<1>7. CASE Step(c, [k EXCEPT !.pc = "put", !.left = k.copy,
                             !.ttl = IF k.copy = Expired THEN 0 ELSE k.copy])
  <2>1. PICK ttl : ttl = IF k.copy = Expired THEN 0 ELSE k.copy
    OBVIOUS
  <2>2. ttl \in 0 .. TTL
    BY <1>2, <2>1, SessionAssumption DEF Lefts, Expired
  <2>3. PICK n : n = Copied(k, "put", k.copy, k.copy, ttl, k.found)
    OBVIOUS
  <2>4. n = [k EXCEPT !.pc = "put", !.left = k.copy, !.ttl = ttl]
    BY <1>2, <2>3 DEF Call, Copied
  <2>5. n \in Call /\ n.pc = "put" /\ n.sid = k.sid /\ n.todo = k.todo
    BY <1>2, <2>2, <2>3, Copying
  <2>6. \A s \in n.todo : session'[s] # Fresh
    BY <1>2, <1>3, <2>5, CallFields DEF Fades
  <2>7. CallOK(n)'
    BY <1>3, <1>4, <2>5, <2>6 DEF CallOK, Extend
  <2>8. call' = [call EXCEPT ![c] = n]
    BY <1>7, <2>1, <2>4 DEF Step
  <2> QED
    BY <1>3, <1>5, <2>7, <2>8, CommandKeeps DEF Extend
<1> QED
  BY <1>1, <1>6, <1>7 DEF Extend, Returned

LEMMA PutKeeps == ASSUME StoreInv, NEW c \in Callers, Put(c) PROVE StoreInv'
<1>1. PICK k : k = call[c]
  OBVIOUS
<1>2. k \in Call /\ CallOK(k) /\ k.sid \in Sessions /\ k.left \in Lefts /\ k.ttl \in 0 .. TTL
      /\ k.pc = "put"
  BY <1>1, InHand, CallFields DEF Put, At, Pcs
<1>3. PICK ttl \in 0 .. Never : Write(k.sid, k.left, ttl)
  BY <1>1, <1>2, SessionAssumption DEF Put, Never
<1>4. /\ Fades /\ session' \in [Sessions -> Held] /\ session'[k.sid] # Fresh
      /\ \A x \in Sessions \ {k.sid} : session'[x] = session[x]
  BY <1>2, <1>3, Writes
<1>5. k.sid \notin destroyed
  BY <1>2, Parts DEF CallOK
<1>6. StoreOK'
  BY <1>4, <1>5 DEF Put, StoreInv, StoreOK, Fades
<1>7. CallOK(Idle)'
  BY DEF CallOK
<1> QED
  BY <1>4, <1>6, <1>7, CommandKeeps DEF Put, Step

LEMMA DelKeeps == ASSUME StoreInv, NEW c \in Callers, Del(c) PROVE StoreInv'
<1>1. PICK j : j = call[c]
  OBVIOUS
<1>2. /\ j \in Call /\ CallOK(j) /\ j.sid \in Sessions /\ session[j.sid] # Fresh /\ j.pc = "del"
      /\ j.owed \in 1 .. 2 /\ j.found \in BOOLEAN /\ \A s \in j.todo : session[s] # Fresh
  <2>1. /\ j \in Call /\ CallOK(j) /\ j.sid \in Sessions /\ session[j.sid] # Fresh /\ j.pc = "del"
        /\ j.owed \in 0 .. 2 /\ j.found \in BOOLEAN /\ \A s \in j.todo : session[s] # Fresh
    BY <1>1, InHand, CallFields DEF Del, At, Pcs, Handling, MaxOwed
  <2>2. j.owed > 0
    BY <2>1, Parts DEF CallOK
  <2> QED
    BY <2>1, <2>2
<1>3. PICK k : k = [j EXCEPT !.owed = j.owed - 1]
  OBVIOUS
<1>4. /\ k \in Call /\ k.sid = j.sid /\ k.owed = j.owed - 1 /\ k.todo = j.todo
      /\ k.found = j.found
  <2>1. PICK o \in 0 .. MaxOwed : o = j.owed - 1
    BY <1>2 DEF MaxOwed
  <2>2. k = [j EXCEPT !.owed = o]
    BY <1>3, <2>1
  <2> QED
    BY <1>2, <2>1, <2>2, Owing
<1>5. \/ /\ session' = [session EXCEPT ![j.sid] = IF Live(j.sid) THEN Gone ELSE @]
         /\ destroyed' = IF Alone(c, j.sid) THEN destroyed \union {j.sid} ELSE destroyed
      \/ UNCHANGED <<session, destroyed>>
  BY <1>1, <1>3, <1>4 DEF Del
<1>6. index' = index /\ (IF k.found THEN Step(c, [k EXCEPT !.pc = "srem"]) ELSE Proceed(c, k))
  BY <1>1, <1>3 DEF Del
<1>7. /\ session' \in [Sessions -> Held] /\ session'[j.sid] # Fresh
      /\ \A s \in Sessions \ {j.sid} : session'[s] = session[s]
      /\ session[j.sid] = Gone => session'[j.sid] = Gone
      /\ j.sid \in destroyed' \ destroyed => session'[j.sid] = Gone
      /\ destroyed \subseteq destroyed' /\ destroyed' \subseteq destroyed \union {j.sid}
  BY <1>2, <1>5, Parts DEF StoreInv, StoreOK, Live, Held
<1>8. StoreOK' /\ Fades
  BY <1>2, <1>6, <1>7 DEF StoreInv, StoreOK, Fades
<1>9. \A s \in destroyed' \ destroyed : Alone(c, s)
  BY <1>5
<1>10. \A s \in k.todo : session'[s] # Fresh
  BY <1>2, <1>4, <1>8, CallFields DEF Fades
<1>11. PICK n : CallOK(n)' /\ call' = [call EXCEPT ![c] = n]
  <2>1. CASE k.found
    <3>1. PICK n : n = [k EXCEPT !.pc = "srem"]
      OBVIOUS
    <3>2. n \in Call /\ n.pc = "srem" /\ n.sid = j.sid /\ n.todo = k.todo
      BY <1>4, <3>1, MovesTo DEF Pcs
    <3>3. CallOK(n)'
      BY <1>7, <1>10, <3>2 DEF CallOK
    <3> QED
      BY <1>6, <2>1, <3>1, <3>3 DEF Step
  <2>2. CASE ~k.found
    <3>1. PICK n : Follows(k, n) /\ call' = [call EXCEPT ![c] = n]
      BY <1>4, <1>6, <2>2, Goes
    <3>2. CallOK(n)'
      BY <1>4, <1>7, <1>8, <1>10, <3>1, FollowingOK
    <3> QED
      BY <3>1, <3>2
  <2> QED
    BY <2>1, <2>2
<1> QED
  BY <1>8, <1>9, <1>11, CommandKeeps

LEMMA SremKeeps == ASSUME StoreInv, NEW c \in Callers, Srem(c) PROVE StoreInv'
<1>1. PICK j : j = call[c]
  OBVIOUS
<1>2. /\ j \in Call /\ session[j.sid] # Fresh /\ j.sid \in Sessions
      /\ \A s \in j.todo : session[s] # Fresh
  BY <1>1, InHand, CallFields DEF Srem, At, Pcs, Handling
<1>3. StoreOK' /\ Fades
  BY Parts DEF Srem, StoreInv, StoreOK, Fades
<1>4. PICK k : k = [j EXCEPT !.found = FALSE]
  OBVIOUS
<1>5. k \in Call /\ k.sid = j.sid /\ k.todo = j.todo
  BY <1>2, <1>4, Flagged
<1> QED
  BY <1>1, <1>2, <1>3, <1>4, <1>5, ProceedKeeps DEF Srem, Fades

LEMMA ClearKeeps == ASSUME StoreInv, NEW c \in Callers, Clear(c) PROVE StoreInv'
<1>1. StoreOK' /\ Fades
  BY Parts DEF Clear, StoreInv, StoreOK, Fades
<1>2. CallOK(Idle)'
  BY DEF CallOK
<1> QED
  BY <1>1, <1>2, CommandKeeps DEF Clear, Step

\* Time makes sessions and the copies of them older, and ends some.
LEMMA TickKeeps == ASSUME StoreInv, Tick PROVE StoreInv'
<1>1. \A left \in Lefts : Aged(left) \in Lefts
  BY SessionAssumption DEF Aged, Lefts, Expired
<1>2. ASSUME NEW s \in Sessions
      PROVE  /\ session'[s] \in Held /\ (session[s] # Fresh => session'[s] # Fresh)
             /\ session[s] = Gone => session'[s] = Gone
  <2>1. CASE ~Live(s)
    <3>1. session'[s] = session[s]
      BY <2>1 DEF Tick
    <3> QED
      BY <3>1 DEF StoreInv, StoreOK
  <2>2. CASE Live(s)
    <3>1. session[s].left \in Lefts /\ session[s].ttl \in 0 .. Never /\ session[s] # Gone
      BY <2>2, Parts DEF Live, StoreInv, StoreOK, Held
    <3>2. PICK left, ttl : left = session[s].left /\ ttl = session[s].ttl
      OBVIOUS
    <3>3. \/ session'[s] = Gone
          \/ session'[s] = Stored(Aged(left), Never)
          \/ ttl # 0 /\ session'[s] = Stored(Aged(left), ttl - 1)
      BY <2>2, <3>2 DEF Tick
    <3>4. CASE session'[s] = Gone
      BY <3>1, <3>4, Parts
    <3>5. \A l \in Lefts, t \in 0 .. Never : Stored(l, t) \in Held /\ Stored(l, t) # Fresh
      BY Parts
    <3>6. Never \in 0 .. Never /\ (ttl # 0 => ttl - 1 \in 0 .. Never) /\ Aged(left) \in Lefts
      <4>1. Never \in Nat
        BY Parts
      <4>2. ttl \in 0 .. Never /\ left \in Lefts
        BY <3>1, <3>2
      <4> QED
        BY <1>1, <4>1, <4>2
    <3>7. session'[s] # Gone => session'[s] \in Held /\ session'[s] # Fresh
      BY <3>3, <3>5, <3>6
    <3> QED
      BY <3>1, <3>4, <3>7
  <2> QED
    BY <2>1, <2>2
<1>3. session' \in [Sessions -> Held]
  BY <1>2 DEF Tick
<1>4. /\ index' \in [members : SUBSET Sessions, ttl : 0 .. Never]
      /\ index'.members = {} => index' = NoIndex
      /\ index'.members \subseteq index.members
  <2>1. CASE index' = index \/ index' = NoIndex
    BY <2>1, Parts DEF StoreInv, StoreOK
  <2>2. CASE index.ttl # Never /\ index.ttl # 0 /\ index' = [index EXCEPT !.ttl = @ - 1]
    <3>1. index.ttl - 1 \in 0 .. Never /\ index.members # {}
      BY <2>2, Parts DEF StoreInv, StoreOK, NoIndex
    <3> QED
      BY <2>2, <3>1 DEF StoreInv, StoreOK
  <2> QED
    BY <2>1, <2>2 DEF Tick
<1>5. StoreOK' /\ Fades
  BY <1>2, <1>3, <1>4 DEF StoreInv, StoreOK, Fades, Tick
<1>6. ASSUME NEW c \in Callers
      PROVE  CallOK(call[c])' /\ call'[c] \in Call \union {Idle}
  <2>1. PICK k : k = call[c]
    OBVIOUS
  <2>2. CASE k = Idle
    BY <2>1, <2>2 DEF Tick, Busy, CallOK
  <2>3. CASE k # Idle
    <3>1. k \in Call /\ CallOK(k) /\ k.copy \in Lefts /\ k.left \in Lefts /\ k.todo \in SUBSET Sessions
          /\ k.sid \in Sessions
      BY <2>1, <2>3, CallFields DEF StoreInv, CallsOK
    <3>2. PICK copy \in Lefts, left \in Lefts : copy = Aged(k.copy) /\ left = Aged(k.left)
      BY <1>1, <3>1
    <3>3. PICK n : n = [k EXCEPT !.copy = copy, !.left = left]
      OBVIOUS
    <3>4. n \in Call
      BY <3>1, <3>2, <3>3 DEF Call
    <3>5. n.pc = k.pc /\ n.sid = k.sid /\ n.owed = k.owed /\ n.todo = k.todo
      BY <3>1, <3>3, <3>4 DEF Call
    <3>6. call'[c] = n
      BY <2>1, <2>3, <3>2, <3>3 DEF Tick, Busy
    <3>7. CallOK(n)'
      BY <1>5, <2>3, <3>1, <3>4, <3>5 DEF CallOK, Fades, Tick
    <3> QED
      BY <3>4, <3>6, <3>7
  <2> QED
    BY <2>2, <2>3
<1>7. call' \in [Callers -> Call \union {Idle}]
  BY <1>6 DEF Tick
<1> QED
  BY <1>5, <1>6, <1>7 DEF StoreInv, CallsOK

LEMMA StoreKept == StoreInv /\ [Next]_vars => StoreInv'
<1> SUFFICES ASSUME StoreInv, [Next]_vars PROVE StoreInv'
  OBVIOUS
<1>1. CASE UNCHANGED vars
  BY <1>1 DEF vars, StoreInv, StoreOK, CallsOK, CallOK
<1>2. CASE Tick
  BY <1>2, TickKeeps
<1>3. ASSUME NEW c \in Callers, Request(c) PROVE StoreInv'
  BY <1>3, RequestKeeps
<1>4. ASSUME NEW c \in Callers, Command(c) PROVE StoreInv'
  BY <1>4, SetKeeps, SaddKeeps, ExpireKeeps, MembersKeeps, GetKeeps, ExtendKeeps,
     PutKeeps, DelKeeps, SremKeeps, ClearKeeps DEF Command
<1> QED
  BY <1>1, <1>2, <1>3, <1>4 DEF Next

LEMMA StoreHolds == Spec => []StoreInv
<1>1. Init => StoreInv
  BY StoreInitially
<1> QED
  BY <1>1, StoreKept, PTL DEF Spec

\* TypeOK (session-service.ts): whatever calls interleave, fail and expire, what Redis
\* holds under a session's key and in the user's set, and what the calls carry from one
\* command to the next, are well formed; a set with no members is no set.
THEOREM SessionTypeCorrect == Spec => []TypeOK
<1>1. StoreInv => TypeOK
  BY DEF StoreInv, StoreOK, CallsOK, TypeOK, Held
<1> QED
  BY <1>1, StoreHolds, PTL

\* DestroyedIsGone (destroySession): a session deleted while no other call had it in hand
\* is never written back, by whichever calls, failures and expiries follow.
THEOREM DestroyedStayGone == Spec => []DestroyedIsGone
<1>1. StoreInv => DestroyedIsGone
  BY Parts DEF StoreInv, StoreOK, DestroyedIsGone, LiveSessions, Live
<1> QED
  BY <1>1, StoreHolds, PTL

-----------------------------------------------------------------------------
\* The limit, when no command fails within the tick and sessions are created
\* and destroyed only.
Quiet == Ops \subseteq {"create", "destroy"} /\ ~ClockMoves /\ ~RedisMayFail

Adding == {"sadd", "expire", "members"}
Ending == {"get", "extend", "del"}

\* A call owes one deletion from the moment it takes a session up to end it, and
\* what it creates is its own.
CallQuiet(k) ==
    \/ k = Idle
    \/ /\ k.pc \in {"set"} \union Adding \union Ending \union {"srem"}
       /\ k.pc \in {"set"} \union Adding => k.op = "create" /\ k.owed = 0 /\ k.todo = {}
       /\ k.pc \in Ending => k.owed = 1
       /\ k.pc = "srem" => k.owed = 0
       /\ k.pc = "set" => k.own = k.sid /\ session[k.sid] = Fresh
       /\ k.left = TTL
CallsQuiet ==
    /\ \A c \in Callers : CallQuiet(call[c])
    /\ \A c, d \in Callers : At(c, "set") /\ At(d, "set") /\ call[c].sid = call[d].sid => c = d
    /\ \A s \in Sessions : Live(s) => session[s].left = TTL

AtWith(c, pcs, s) == call[c].pc \in pcs /\ call[c].sid = s

\* A session is found through the user's set, or a call will yet put it there or
\* delete it; and what is written back behind a deletion is deleted again before
\* the member goes.
Found == \A s \in Sessions : Live(s) =>
            s \in index.members \/ \E c \in Callers : AtWith(c, {"sadd", "del"}, s)
DeletedAgain == \A c \in Callers : At(c, "srem") /\ Live(call[c].sid) =>
            \E d \in Callers : AtWith(d, {"del"}, call[c].sid)

\* The sessions that calls in flight will end.
Dooms(k, s) == k # Idle /\ (s \in k.todo \/ (k.pc \in Ending /\ k.sid = s))
Doomed == {s \in Sessions : \E c \in Callers : Dooms(call[c], s)}

\* Either a call that has added a session has still to count, or what no call
\* will end is within the limit.
WithinLimit ==
    \/ \E c \in Callers : call[c].pc \in Adding
    \/ Cardinality(LiveSessions \ Doomed) <= maxSessions

QuietInv == StoreInv /\ CallsQuiet /\ Found /\ DeletedAgain /\ WithinLimit

-----------------------------------------------------------------------------
\* Call k has returned from a deletion or a count, and takes up the next session.
Onward(k, n) ==
    \/ n = Idle /\ k.todo = {}
    \/ /\ n \in Call /\ n.pc = "get" /\ n.owed = 1 /\ n.left = TTL
       /\ n.sid \in k.todo /\ n.todo = k.todo \ {n.sid}

\* Call k goes on to step pc with the session it has in hand.
Along(k, n, pc) ==
    /\ n \in Call /\ n.pc = pc /\ n.op = k.op /\ n.own = k.own /\ n.sid = k.sid
    /\ n.left = TTL /\ n.todo = k.todo

\* With creations and destructions only, a call that owes nothing goes on with what is left.
LEMMA GoesOnward ==
    ASSUME Quiet, NEW c \in Callers, NEW k \in Call, k.owed = 0, k.left = TTL, Proceed(c, k)
    PROVE  \E n : Onward(k, n) /\ call' = [call EXCEPT ![c] = n]
<1>1. PICK n : Follows(k, n) /\ call' = [call EXCEPT ![c] = n] /\ (n = Idle => k.todo = {})
  BY Goes
<1>2. n = Idle \/ n.op # "destroyUser"
  BY <1>1, CallFields DEF Follows, Quiet
<1>3. Onward(k, n)
  BY <1>1, <1>2 DEF Follows, Onward
<1> QED
  BY <1>1, <1>3

\* ... and one that owes a deletion makes it.
LEMMA GoesToDel ==
    ASSUME NEW c \in Callers, NEW k \in Call, k.owed = 1, k.left = TTL, Proceed(c, k)
    PROVE  \E n : Along(k, n, "del") /\ n.owed = 1 /\ n.found = k.found
                  /\ call' = [call EXCEPT ![c] = n]
<1>1. PICK n : Follows(k, n) /\ call' = [call EXCEPT ![c] = n] /\ (n = Idle => k.owed = 0)
  BY Goes
<1>2. Along(k, n, "del") /\ n.owed = 1 /\ n.found = k.found
  BY <1>1 DEF Follows, Along
<1> QED
  BY <1>1, <1>2

LEMMA QuietCall ==
    ASSUME StoreInv, CallsQuiet, NEW c \in Callers, call[c].pc \in Pcs
    PROVE  /\ call[c] \in Call /\ CallQuiet(call[c]) /\ call[c] # Idle
           /\ call[c].sid \in Sessions /\ call[c].left = TTL
           /\ call[c].pc \in Handling => session[call[c].sid] # Fresh
  BY InHand, CallFields DEF CallsQuiet, CallQuiet

\* What each command does to the call and the store, when none fails.
LEMMA QuietSet ==
    ASSUME Quiet, StoreInv, CallsQuiet, NEW c \in Callers, Set(c)
    PROVE  \E k, n : /\ k = call[c] /\ k.pc = "set" /\ k.sid \in Sessions /\ CallQuiet(k)
                     /\ Along(k, n, "sadd") /\ n.owed = 0
                     /\ session' = [session EXCEPT ![k.sid] = Stored(TTL, k.ttl)]
                     /\ k.ttl \in 0 .. Never
                     /\ call' = [call EXCEPT ![c] = n] /\ UNCHANGED index
<1>1. PICK k : k = call[c]
  OBVIOUS
<1>2. k \in Call /\ CallQuiet(k) /\ k # Idle /\ k.sid \in Sessions /\ k.left = TTL /\ k.pc = "set"
  BY <1>1, QuietCall DEF Set, At, Pcs
<1>3. PICK n : n = [k EXCEPT !.pc = "sadd"]
  OBVIOUS
<1>4. Along(k, n, "sadd") /\ n.owed = 0
  BY <1>2, <1>3, MovesTo DEF Along, Pcs, CallQuiet
<1>5. session' = [session EXCEPT ![k.sid] = Stored(TTL, k.ttl)] /\ index' = index
  BY <1>1, <1>2 DEF Set, Write, Quiet
<1>6. k.ttl \in 0 .. Never
  BY <1>2, CallFields, SessionAssumption DEF Never
<1>7. call' = [call EXCEPT ![c] = n]
  BY <1>1, <1>3 DEF Set, GoTo, Step
<1> QED
  BY <1>1, <1>2, <1>4, <1>5, <1>6, <1>7

LEMMA QuietSadd ==
    ASSUME Quiet, StoreInv, CallsQuiet, NEW c \in Callers, Sadd(c)
    PROVE  \E k, n : /\ k = call[c] /\ k.pc = "sadd" /\ k.sid \in Sessions /\ CallQuiet(k)
                     /\ Along(k, n, "expire") /\ n.owed = 0
                     /\ index'.members = index.members \union {k.sid}
                     /\ call' = [call EXCEPT ![c] = n] /\ UNCHANGED session
<1>1. PICK k : k = call[c]
  OBVIOUS
<1>2. k \in Call /\ CallQuiet(k) /\ k # Idle /\ k.sid \in Sessions /\ k.left = TTL /\ k.pc = "sadd"
  BY <1>1, QuietCall DEF Sadd, At, Pcs
<1>3. PICK n : n = [k EXCEPT !.pc = "expire"]
  OBVIOUS
<1>4. Along(k, n, "expire") /\ n.owed = 0
  BY <1>2, <1>3, MovesTo DEF Along, Pcs, CallQuiet, Adding
<1>5. index'.members = index.members \union {k.sid} /\ session' = session
  BY <1>1 DEF Sadd, Quiet, StoreInv, StoreOK
<1>6. call' = [call EXCEPT ![c] = n]
  BY <1>1, <1>3 DEF Sadd, GoTo, Step
<1> QED
  BY <1>1, <1>2, <1>4, <1>5, <1>6

LEMMA QuietExpire ==
    ASSUME Quiet, StoreInv, CallsQuiet, NEW c \in Callers, Expire(c)
    PROVE  \E k, n : /\ k = call[c] /\ k.pc = "expire" /\ k.sid \in Sessions /\ CallQuiet(k)
                     /\ Along(k, n, "members") /\ n.owed = 0
                     /\ index'.members = index.members
                     /\ call' = [call EXCEPT ![c] = n] /\ UNCHANGED session
<1>1. PICK k : k = call[c]
  OBVIOUS
<1>2. k \in Call /\ CallQuiet(k) /\ k # Idle /\ k.sid \in Sessions /\ k.left = TTL /\ k.pc = "expire"
  BY <1>1, QuietCall DEF Expire, At, Pcs
<1>3. PICK n : n = [k EXCEPT !.pc = "members"]
  OBVIOUS
<1>4. Along(k, n, "members") /\ n.owed = 0
  BY <1>2, <1>3, MovesTo DEF Along, Pcs, CallQuiet, Adding
<1>5. index'.members = index.members /\ session' = session
  BY <1>1 DEF Expire, Quiet, StoreInv, StoreOK
<1>6. call' = [call EXCEPT ![c] = n]
  BY <1>1, <1>3 DEF Expire, GoTo, Step
<1> QED
  BY <1>1, <1>2, <1>4, <1>5, <1>6

LEMMA QuietMembers ==
    ASSUME Quiet, StoreInv, CallsQuiet, NEW c \in Callers, Members(c)
    PROVE  \E k, m, n : /\ k = call[c] /\ k.pc = "members" /\ CallQuiet(k)
                        /\ m.todo \in Excess(index.members) /\ Onward(m, n)
                        /\ call' = [call EXCEPT ![c] = n] /\ UNCHANGED <<session, index>>
<1>1. PICK k : k = call[c]
  OBVIOUS
<1>2. k \in Call /\ CallQuiet(k) /\ k # Idle /\ k.left = TTL /\ k.pc = "members"
  BY <1>1, QuietCall DEF Members, At, Pcs
<1>3. k.op = "create" /\ k.owed = 0
  BY <1>2 DEF CallQuiet, Adding
<1>4. PICK E \in Excess(index.members) : Proceed(c, [k EXCEPT !.todo = E])
  BY <1>1, <1>3 DEF Members, Quiet
<1>5. E \in SUBSET Sessions
  BY <1>4 DEF Excess, StoreInv, StoreOK
<1>6. PICK m : m = [k EXCEPT !.todo = E]
  OBVIOUS
<1>7. m \in Call /\ m.owed = 0 /\ m.left = TTL /\ m.todo = E
  BY <1>2, <1>3, <1>5, <1>6, Todo
<1>8. PICK n : Onward(m, n) /\ call' = [call EXCEPT ![c] = n]
  BY <1>4, <1>6, <1>7, GoesOnward
<1> QED
  BY <1>1, <1>2, <1>4, <1>7, <1>8 DEF Members

LEMMA QuietGet ==
    ASSUME Quiet, StoreInv, CallsQuiet, NEW c \in Callers, Get(c)
    PROVE  \E k, n : /\ k = call[c] /\ k.pc = "get" /\ CallQuiet(k) /\ n.owed = 1
                     /\ Along(k, n, "extend") \/ Along(k, n, "del")
                     /\ call' = [call EXCEPT ![c] = n] /\ UNCHANGED <<session, index>>
<1>1. PICK j : j = call[c]
  OBVIOUS
<1>2. /\ j \in Call /\ CallQuiet(j) /\ j # Idle /\ j.left = TTL /\ j.pc = "get"
      /\ j.sid \in Sessions /\ j.owed = 1
  BY <1>1, QuietCall DEF Get, At, Pcs, CallQuiet, Ending
<1>3. PICK k : k = [j EXCEPT !.found = FALSE]
  OBVIOUS
<1>4. /\ k \in Call /\ k.sid = j.sid /\ k.owed = 1 /\ k.todo = j.todo /\ k.left = TTL
      /\ k.op = j.op /\ k.own = j.own
  BY <1>2, <1>3, Flagged
<1>5. CASE Proceed(c, k)
  <2>1. PICK n : Along(k, n, "del") /\ n.owed = 1 /\ call' = [call EXCEPT ![c] = n]
    BY <1>4, <1>5, GoesToDel
  <2>2. Along(j, n, "del")
    BY <1>4, <2>1 DEF Along
  <2> QED
    BY <1>1, <1>2, <2>1, <2>2 DEF Get
<1>6. ASSUME Live(k.sid), session[k.sid].left = Expired PROVE FALSE
  BY <1>2, <1>4, <1>6, SessionAssumption DEF CallsQuiet, Expired
<1>7. ASSUME Live(k.sid),
             Step(c, [k EXCEPT !.pc = "extend", !.copy = session[k.sid].left, !.left = TTL,
                               !.ttl = TTL, !.found = TRUE])
      PROVE  \E n : Along(k, n, "extend") /\ n.owed = 1 /\ call' = [call EXCEPT ![c] = n]
  <2>1. PICK copy \in Lefts, left \in Lefts, ttl \in 0 .. TTL :
           copy = session[k.sid].left /\ left = TTL /\ ttl = TTL
    BY <1>2, <1>4, <1>7, Parts DEF Live, StoreInv, StoreOK, Held
  <2>2. PICK found \in BOOLEAN : found = TRUE
    OBVIOUS
  <2>3. PICK n : n = Copied(k, "extend", copy, left, ttl, found)
    OBVIOUS
  <2>4. /\ n \in Call /\ n.pc = "extend" /\ n.sid = k.sid /\ n.todo = k.todo /\ n.owed = k.owed
        /\ n.op = k.op /\ n.own = k.own
    BY <1>4, <2>3, Copying
  <2>5. n.left = left
    BY <1>4, <2>3, <2>4 DEF Copied, Call
  <2>6. call' = [call EXCEPT ![c] = n]
    <3>1. n = [k EXCEPT !.pc = "extend", !.copy = session[k.sid].left, !.left = TTL,
                        !.ttl = TTL, !.found = TRUE]
      BY <2>1, <2>2, <2>3 DEF Copied
    <3> QED
      BY <1>7, <3>1 DEF Step
  <2> QED
    BY <1>4, <2>1, <2>4, <2>5, <2>6 DEF Along
<1>8. \/ Proceed(c, k)
      \/ \E n : Along(k, n, "extend") /\ n.owed = 1 /\ call' = [call EXCEPT ![c] = n]
  BY <1>1, <1>3, <1>6, <1>7 DEF Get
<1>9. CASE \E n : Along(k, n, "extend") /\ n.owed = 1 /\ call' = [call EXCEPT ![c] = n]
  <2>1. PICK n : Along(k, n, "extend") /\ n.owed = 1 /\ call' = [call EXCEPT ![c] = n]
    BY <1>9
  <2>2. Along(j, n, "extend")
    BY <1>4, <2>1 DEF Along
  <2> QED
    BY <1>1, <1>2, <2>1, <2>2 DEF Get
<1> QED
  BY <1>5, <1>8, <1>9

LEMMA QuietExtend ==
    ASSUME Quiet, StoreInv, CallsQuiet, NEW c \in Callers, Extend(c)
    PROVE  \E k, n : /\ k = call[c] /\ k.pc = "extend" /\ k.sid \in Sessions /\ CallQuiet(k)
                     /\ session[k.sid] # Fresh
                     /\ Along(k, n, "del") /\ n.owed = 1
                     /\ session' = [session EXCEPT ![k.sid] = Stored(TTL, k.ttl)]
                     /\ k.ttl \in 0 .. Never
                     /\ call' = [call EXCEPT ![c] = n] /\ UNCHANGED index
<1>1. PICK k : k = call[c]
  OBVIOUS
<1>2. /\ k \in Call /\ CallQuiet(k) /\ k # Idle /\ k.left = TTL /\ k.pc = "extend"
      /\ k.sid \in Sessions /\ k.owed = 1 /\ session[k.sid] # Fresh
  BY <1>1, QuietCall DEF Extend, At, Pcs, CallQuiet, Ending, Handling
<1>3. Proceed(c, k)
  BY <1>1, <1>2 DEF Extend, Returned
<1>4. PICK n : Along(k, n, "del") /\ n.owed = 1 /\ call' = [call EXCEPT ![c] = n]
  BY <1>2, <1>3, GoesToDel
<1>5. session' = [session EXCEPT ![k.sid] = Stored(TTL, k.ttl)] /\ index' = index
  BY <1>1, <1>2 DEF Extend, Write, Quiet
<1>6. k.ttl \in 0 .. Never
  BY <1>2, CallFields, SessionAssumption DEF Never
<1> QED
  BY <1>1, <1>2, <1>4, <1>5, <1>6

LEMMA QuietDel ==
    ASSUME Quiet, StoreInv, CallsQuiet, NEW c \in Callers, Del(c)
    PROVE  \E k, n : /\ k = call[c] /\ k.pc = "del" /\ k.sid \in Sessions /\ CallQuiet(k)
                     /\ session' = [session EXCEPT ![k.sid] = IF Live(k.sid) THEN Gone ELSE @]
                     /\ (Along(k, n, "srem") /\ n.owed = 0) \/ Onward(k, n)
                     /\ call' = [call EXCEPT ![c] = n] /\ UNCHANGED index
<1>1. PICK j : j = call[c]
  OBVIOUS
<1>2. /\ j \in Call /\ CallQuiet(j) /\ j # Idle /\ j.left = TTL /\ j.pc = "del"
      /\ j.sid \in Sessions /\ j.owed = 1
  BY <1>1, QuietCall DEF Del, At, Pcs, CallQuiet, Ending
<1>3. PICK o \in 0 .. MaxOwed : o = j.owed - 1
  BY <1>2 DEF MaxOwed
<1>4. PICK k : k = [j EXCEPT !.owed = o]
  OBVIOUS
<1>5. /\ k \in Call /\ k.sid = j.sid /\ k.owed = 0 /\ k.todo = j.todo /\ k.left = TTL
      /\ k.op = j.op /\ k.own = j.own /\ k.found = j.found
  BY <1>2, <1>3, <1>4, Owing
<1>6. k = [j EXCEPT !.owed = j.owed - 1]
  BY <1>3, <1>4
<1>7. /\ session' = [session EXCEPT ![j.sid] = IF Live(j.sid) THEN Gone ELSE @] /\ index' = index
      /\ IF k.found THEN Step(c, [k EXCEPT !.pc = "srem"]) ELSE Proceed(c, k)
  BY <1>1, <1>5, <1>6 DEF Del, Quiet
<1>8. PICK n : call' = [call EXCEPT ![c] = n] /\ ((Along(j, n, "srem") /\ n.owed = 0) \/ Onward(j, n))
  <2>1. CASE k.found
    <3>1. PICK n : n = [k EXCEPT !.pc = "srem"]
      OBVIOUS
    <3>2. Along(j, n, "srem") /\ n.owed = 0
      BY <1>5, <3>1, MovesTo DEF Along, Pcs
    <3> QED
      BY <1>7, <2>1, <3>1, <3>2 DEF Step
  <2>2. CASE ~k.found
    <3>1. PICK n : Onward(k, n) /\ call' = [call EXCEPT ![c] = n]
      BY <1>5, <1>7, <2>2, GoesOnward
    <3>2. Onward(j, n)
      BY <1>5, <3>1 DEF Onward
    <3> QED
      BY <3>1, <3>2
  <2> QED
    BY <2>1, <2>2
<1> QED
  BY <1>1, <1>2, <1>7, <1>8

LEMMA QuietSrem ==
    ASSUME Quiet, StoreInv, CallsQuiet, NEW c \in Callers, Srem(c)
    PROVE  \E k, n : /\ k = call[c] /\ k.pc = "srem" /\ k.sid \in Sessions /\ CallQuiet(k)
                     /\ index'.members = index.members \ {k.sid}
                     /\ Onward(k, n)
                     /\ call' = [call EXCEPT ![c] = n] /\ UNCHANGED session
<1>1. PICK j : j = call[c]
  OBVIOUS
<1>2. /\ j \in Call /\ CallQuiet(j) /\ j # Idle /\ j.left = TTL /\ j.pc = "srem"
      /\ j.sid \in Sessions /\ j.owed = 0
  BY <1>1, QuietCall DEF Srem, At, Pcs, CallQuiet
<1>3. PICK k : k = [j EXCEPT !.found = FALSE]
  OBVIOUS
<1>4. k \in Call /\ k.owed = 0 /\ k.todo = j.todo /\ k.left = TTL
  BY <1>2, <1>3, Flagged
<1>5. Proceed(c, k) /\ session' = session
  BY <1>1, <1>3 DEF Srem
<1>6. PICK n : Onward(k, n) /\ call' = [call EXCEPT ![c] = n]
  BY <1>4, <1>5, GoesOnward
<1>7. Onward(j, n)
  BY <1>4, <1>6 DEF Onward
<1>8. index'.members = index.members \ {j.sid}
  BY <1>1, Parts DEF Srem, Quiet, StoreInv, StoreOK
<1> QED
  BY <1>1, <1>2, <1>5, <1>6, <1>7, <1>8

-----------------------------------------------------------------------------
\* What a step of one call has to keep of the calls.
LEMMA CallsKept ==
    ASSUME StoreInv, CallsQuiet, StoreInv', NEW c \in Callers, NEW n,
           call' = [call EXCEPT ![c] = n], CallQuiet(n)',
           n.pc = "set" => \A d \in Callers \ {c} : ~(At(d, "set") /\ call[d].sid = n.sid),
           \A s \in Sessions : session[s] = Fresh /\ session'[s] # Fresh => AtWith(c, {"set"}, s),
           \A s \in Sessions : session'[s].phase = "stored" => session'[s].left = TTL
    PROVE  CallsQuiet'
<1>1. call'[c] = n /\ \A d \in Callers \ {c} : call'[d] = call[d]
  BY DEF StoreInv, CallsOK
<1>2. ASSUME NEW d \in Callers \ {c} PROVE CallQuiet(call[d])'
  <2>1. PICK k : k = call[d]
    OBVIOUS
  <2>2. CallQuiet(k) /\ call'[d] = k
    BY <1>1, <2>1 DEF CallsQuiet
  <2>3. k # Idle /\ k.pc = "set" => session'[k.sid] = Fresh
    <3>1. k # Idle => k.sid \in Sessions
      BY <2>1, CallFields DEF StoreInv, CallsOK
    <3>2. k.pc = "set" => ~AtWith(c, {"set"}, k.sid)
      BY <2>1 DEF CallsQuiet, AtWith, At
    <3> QED
      BY <2>2, <3>1, <3>2 DEF CallQuiet
  <2>4. CallQuiet(k)'
    BY <2>2, <2>3 DEF CallQuiet
  <2> QED
    BY <2>2, <2>4
<1>3. CallQuiet(call[c])'
  BY <1>1
<1>4. \A d \in Callers : CallQuiet(call[d])'
  BY <1>2, <1>3
<1>5. \A d, e \in Callers : (At(d, "set") /\ At(e, "set") /\ call[d].sid = call[e].sid)' => d = e
  BY <1>1 DEF CallsQuiet, At
<1> QED
  BY <1>4, <1>5 DEF CallsQuiet, Live

\* The call that follows is quiet too.
LEMMA AlongQuiet ==
    ASSUME Quiet, NEW k, k.pc \in {"set"} \union Adding \union Ending, CallQuiet(k), NEW n,
           \/ k.pc \in {"set"} \union Adding /\ n.owed = 0 /\ (\E pc \in Adding : Along(k, n, pc))
           \/ k.pc \in Ending /\ n.owed = 1 /\ (\E pc \in Ending : Along(k, n, pc))
           \/ k.pc \in Ending /\ n.owed = 0 /\ Along(k, n, "srem")
    PROVE  CallQuiet(n)'
  BY DEF Along, CallQuiet, Adding, Ending, Idle

LEMMA OnwardQuiet ==
    ASSUME NEW k, NEW n, Onward(k, n)
    PROVE  CallQuiet(n)'
  BY DEF Onward, CallQuiet, Adding, Ending

LEMMA Others ==
    ASSUME StoreInv, NEW c \in Callers, NEW n, call' = [call EXCEPT ![c] = n]
    PROVE  call'[c] = n /\ \A d \in Callers \ {c} : call'[d] = call[d]
  BY DEF StoreInv, CallsOK

\* A step that neither counts nor adds to what no call will end keeps the limit.
LEMMA LimitStays ==
    ASSUME StoreInv, WithinLimit, NEW c \in Callers, NEW k, k = call[c], NEW n,
           call' = [call EXCEPT ![c] = n], k.pc \in Adding => n.pc \in Adding,
           \A s \in Sessions : Live(s)' => Live(s) \/ Dooms(n, s),
           \A s \in Sessions : Live(s)' /\ Dooms(k, s) => Dooms(n, s)
    PROVE  WithinLimit'
<1>1. call'[c] = n /\ \A d \in Callers \ {c} : call'[d] = call[d]
  BY Others
<1>2. CASE \E d \in Callers : call[d].pc \in Adding
  BY <1>1, <1>2 DEF WithinLimit
<1>3. CASE Cardinality(LiveSessions \ Doomed) <= maxSessions
  <2>1. ASSUME NEW s \in Sessions, Live(s)', s \notin Doomed' PROVE Live(s) /\ s \notin Doomed
    <3>1. ~Dooms(n, s)
      BY <1>1, <2>1 DEF Doomed, Dooms
    <3>2. Live(s) /\ ~Dooms(k, s)
      BY <2>1, <3>1
    <3>3. \A d \in Callers \ {c} : ~Dooms(call[d], s)
      BY <1>1, <2>1 DEF Doomed, Dooms
    <3> QED
      BY <3>2, <3>3 DEF Doomed
  <2>2. LiveSessions' \ Doomed' \subseteq LiveSessions \ Doomed
    BY <2>1 DEF LiveSessions
  <2>3. IsFiniteSet(LiveSessions \ Doomed)
    BY SessionAssumption, FS_Subset DEF LiveSessions
  <2>4. Cardinality(LiveSessions' \ Doomed') <= Cardinality(LiveSessions \ Doomed)
    BY <2>2, <2>3, FS_Subset
  <2>5. /\ Cardinality(LiveSessions' \ Doomed') \in Nat /\ Cardinality(LiveSessions \ Doomed) \in Nat
        /\ maxSessions \in Nat
    BY <2>2, <2>3, FS_Subset, FS_CardinalityType, SessionAssumption
  <2> QED
    BY <1>3, <2>4, <2>5 DEF WithinLimit
<1> QED
  BY <1>2, <1>3 DEF WithinLimit

\* What a call that goes on will end.
LEMMA OnwardDooms ==
    ASSUME NEW k, NEW n, Onward(k, n)
    PROVE  \A s : s \in k.todo => Dooms(n, s)
  BY Parts DEF Onward, Dooms, Ending

Wary == CallsQuiet /\ Found /\ DeletedAgain

LEMMA SetQuiet ==
    ASSUME Quiet, StoreInv, Wary, NEW c \in Callers, Set(c)
    PROVE  Wary' /\ WithinLimit'
<1>1. StoreInv'
  BY SetKeeps
<1>2. PICK k, n : /\ k = call[c] /\ k.pc = "set" /\ k.sid \in Sessions /\ CallQuiet(k)
                  /\ Along(k, n, "sadd") /\ n.owed = 0
                  /\ session' = [session EXCEPT ![k.sid] = Stored(TTL, k.ttl)]
                  /\ k.ttl \in 0 .. Never
                  /\ call' = [call EXCEPT ![c] = n] /\ UNCHANGED index
  BY QuietSet DEF Wary
<1>3. call'[c] = n /\ \A d \in Callers \ {c} : call'[d] = call[d]
  BY <1>2, Others
<1>4. n.pc = "sadd" /\ n.sid = k.sid /\ session[k.sid] = Fresh
  BY <1>2, Parts DEF Along, CallQuiet
<1>5. /\ session'[k.sid].phase = "stored" /\ session'[k.sid].left = TTL
      /\ \A s \in Sessions \ {k.sid} : session'[s] = session[s]
  BY <1>2, Parts DEF StoreInv, StoreOK
<1>6. CallsQuiet'
  <2>1. CallQuiet(n)'
    BY <1>2, AlongQuiet DEF Adding
  <2>2. \A s \in Sessions : session'[s].phase = "stored" => session'[s].left = TTL
    BY <1>5 DEF Wary, CallsQuiet, Live
  <2>3. \A s \in Sessions : session[s] = Fresh /\ session'[s] # Fresh => AtWith(c, {"set"}, s)
    BY <1>2, <1>5 DEF AtWith
  <2> QED
    BY <1>1, <1>2, <1>4, <2>1, <2>2, <2>3, CallsKept DEF Wary
<1>7. Found'
  BY <1>2, <1>3, <1>4, <1>5 DEF Wary, Found, AtWith, Live
<1>8. DeletedAgain'
  <2>1. ASSUME NEW d \in Callers \ {c}, call[d].pc = "srem" PROVE call[d].sid # k.sid /\ call[d].sid \in Sessions
    BY <1>4, <2>1, QuietCall DEF Wary, Pcs, Handling
  <2> QED
    BY <1>2, <1>3, <1>4, <1>5, <2>1 DEF Wary, DeletedAgain, AtWith, Live, At
<1>9. WithinLimit'
  BY <1>3, <1>4 DEF WithinLimit, Adding
<1> QED
  BY <1>6, <1>7, <1>8, <1>9 DEF Wary

LEMMA SaddQuiet ==
    ASSUME Quiet, StoreInv, Wary, NEW c \in Callers, Sadd(c)
    PROVE  Wary' /\ WithinLimit'
<1>1. StoreInv'
  BY SaddKeeps
<1>2. PICK k, n : /\ k = call[c] /\ k.pc = "sadd" /\ k.sid \in Sessions /\ CallQuiet(k)
                  /\ Along(k, n, "expire") /\ n.owed = 0
                  /\ index'.members = index.members \union {k.sid}
                  /\ call' = [call EXCEPT ![c] = n] /\ UNCHANGED session
  BY QuietSadd DEF Wary
<1>3. call'[c] = n /\ \A d \in Callers \ {c} : call'[d] = call[d]
  BY <1>2, Others
<1>4. n.pc = "expire"
  BY <1>2 DEF Along
<1>5. CallsQuiet'
  <2>1. CallQuiet(n)'
    BY <1>2, AlongQuiet DEF Adding
  <2> QED
    BY <1>1, <1>2, <1>4, <2>1, CallsKept DEF Wary, CallsQuiet, Live
<1>6. Found'
  BY <1>2, <1>3 DEF Wary, Found, AtWith, Live
<1>7. DeletedAgain'
  BY <1>2, <1>3, <1>4 DEF Wary, DeletedAgain, AtWith, Live, At
<1>8. WithinLimit'
  BY <1>3, <1>4 DEF WithinLimit, Adding
<1> QED
  BY <1>5, <1>6, <1>7, <1>8 DEF Wary

LEMMA ExpireQuiet ==
    ASSUME Quiet, StoreInv, Wary, NEW c \in Callers, Expire(c)
    PROVE  Wary' /\ WithinLimit'
<1>1. StoreInv'
  BY ExpireKeeps
<1>2. PICK k, n : /\ k = call[c] /\ k.pc = "expire" /\ k.sid \in Sessions /\ CallQuiet(k)
                  /\ Along(k, n, "members") /\ n.owed = 0
                  /\ index'.members = index.members
                  /\ call' = [call EXCEPT ![c] = n] /\ UNCHANGED session
  BY QuietExpire DEF Wary
<1>3. call'[c] = n /\ \A d \in Callers \ {c} : call'[d] = call[d]
  BY <1>2, Others
<1>4. n.pc = "members"
  BY <1>2 DEF Along
<1>5. CallsQuiet'
  <2>1. CallQuiet(n)'
    BY <1>2, AlongQuiet DEF Adding
  <2> QED
    BY <1>1, <1>2, <1>4, <2>1, CallsKept DEF Wary, CallsQuiet, Live
<1>6. Found'
  BY <1>2, <1>3 DEF Wary, Found, AtWith, Live
<1>7. DeletedAgain'
  BY <1>2, <1>3, <1>4 DEF Wary, DeletedAgain, AtWith, Live, At
<1>8. WithinLimit'
  BY <1>3, <1>4 DEF WithinLimit, Adding
<1> QED
  BY <1>5, <1>6, <1>7, <1>8 DEF Wary

\* Leaving at most maxSessions members is within the limit.
LEMMA ExcessLeaves ==
    ASSUME NEW M \in SUBSET Sessions, NEW E \in Excess(M)
    PROVE  E \subseteq M /\ Cardinality(M \ E) <= maxSessions /\ IsFiniteSet(M \ E)
<1>1. IsFiniteSet(M) /\ maxSessions \in Nat /\ E \subseteq M
  BY SessionAssumption, FS_Subset DEF Excess
<1>2. IsFiniteSet(E) /\ IsFiniteSet(M \ E)
  BY <1>1, FS_Subset
<1>3. /\ Cardinality(M \ E) = Cardinality(M) - Cardinality(M \cap E)
      /\ Cardinality(M) \in Nat /\ Cardinality(E) \in Nat
  BY <1>1, <1>2, FS_Difference, FS_CardinalityType
<1>4. M \cap E = E
  BY <1>1
<1>5. Cardinality(E) = IF Cardinality(M) > maxSessions THEN Cardinality(M) - maxSessions ELSE 0
  BY DEF Excess
<1>6. Cardinality(M \ E) = Cardinality(M) - Cardinality(E)
  BY <1>3, <1>4
<1>7. PICK m, e \in Nat : m = Cardinality(M) /\ e = Cardinality(E)
  BY <1>3
<1>8. m \in Nat /\ Cardinality(M \ E) <= maxSessions
  BY <1>1, <1>3, <1>5, <1>6, <1>7
<1> QED
  BY <1>1, <1>2, <1>8

LEMMA MembersQuiet ==
    ASSUME Quiet, StoreInv, Wary, WithinLimit, NEW c \in Callers, Members(c)
    PROVE  Wary' /\ WithinLimit'
<1>1. StoreInv'
  BY MembersKeeps
<1>2. PICK k, m, n : /\ k = call[c] /\ k.pc = "members" /\ CallQuiet(k)
                     /\ m.todo \in Excess(index.members) /\ Onward(m, n)
                     /\ call' = [call EXCEPT ![c] = n] /\ UNCHANGED <<session, index>>
  BY QuietMembers DEF Wary
<1>3. call'[c] = n /\ \A d \in Callers \ {c} : call'[d] = call[d]
  BY <1>2, Others
<1>4. n.pc \in {"idle", "get"}
  BY <1>2, Parts DEF Onward
<1>5. CallsQuiet'
  <2>1. CallQuiet(n)'
    BY <1>2, OnwardQuiet
  <2> QED
    BY <1>1, <1>2, <1>4, <2>1, CallsKept DEF Wary, CallsQuiet, Live
<1>6. Found'
  BY <1>2, <1>3 DEF Wary, Found, AtWith, Live
<1>7. DeletedAgain'
  BY <1>2, <1>3, <1>4 DEF Wary, DeletedAgain, AtWith, Live, At
<1>8. WithinLimit'
  <2>1. CASE \E d \in Callers \ {c} : call[d].pc \in Adding
    BY <1>3, <2>1 DEF WithinLimit
  <2>2. CASE \A d \in Callers \ {c} : call[d].pc \notin Adding
    <3>1. PICK E \in Excess(index.members) : E = m.todo
      BY <1>2
    <3>2. index.members \in SUBSET Sessions
      BY DEF StoreInv, StoreOK
    <3>3. ASSUME NEW s \in Sessions, Live(s)', s \notin Doomed' PROVE s \in index.members \ E
      <4>1. ~Dooms(n, s) /\ s \notin E
        BY <1>2, <1>3, <3>1, <3>3, OnwardDooms DEF Doomed, Dooms
      <4>2. \A d \in Callers \ {c} : ~AtWith(d, {"sadd", "del"}, s)
        <5>1. ASSUME NEW d \in Callers \ {c}, AtWith(d, {"del"}, s) PROVE FALSE
          <6>1. call[d] # Idle
            BY <5>1, Parts DEF AtWith
          <6> QED
            BY <1>3, <3>3, <5>1, <6>1 DEF Doomed, Dooms, AtWith, Ending
        <5> QED
          BY <2>2, <5>1 DEF AtWith, Adding
      <4>3. ~AtWith(c, {"sadd", "del"}, s)
        BY <1>2 DEF AtWith
      <4> QED
        BY <1>2, <3>3, <4>1, <4>2, <4>3 DEF Wary, Found, Live
    <3>4. LiveSessions' \ Doomed' \subseteq index.members \ E
      BY <3>3 DEF LiveSessions
    <3>5. Cardinality(index.members \ E) <= maxSessions /\ IsFiniteSet(index.members \ E)
      BY <3>1, <3>2, ExcessLeaves
    <3>6. Cardinality(LiveSessions' \ Doomed') <= Cardinality(index.members \ E)
      BY <3>4, <3>5, FS_Subset
    <3>7. /\ Cardinality(LiveSessions' \ Doomed') \in Nat /\ Cardinality(index.members \ E) \in Nat
          /\ maxSessions \in Nat
      BY <3>4, <3>5, FS_Subset, FS_CardinalityType, SessionAssumption
    <3> QED
      BY <3>5, <3>6, <3>7 DEF WithinLimit
  <2> QED
    BY <2>1, <2>2
<1> QED
  BY <1>5, <1>6, <1>7, <1>8 DEF Wary

LEMMA GetQuiet ==
    ASSUME Quiet, StoreInv, Wary, WithinLimit, NEW c \in Callers, Get(c)
    PROVE  Wary' /\ WithinLimit'
<1>1. StoreInv'
  BY GetKeeps
<1>2. PICK k, n : /\ k = call[c] /\ k.pc = "get" /\ CallQuiet(k) /\ n.owed = 1
                  /\ Along(k, n, "extend") \/ Along(k, n, "del")
                  /\ call' = [call EXCEPT ![c] = n] /\ UNCHANGED <<session, index>>
  BY QuietGet DEF Wary
<1>3. call'[c] = n /\ \A d \in Callers \ {c} : call'[d] = call[d]
  BY <1>2, Others
<1>4. n.pc \in {"extend", "del"} /\ n.sid = k.sid /\ n.todo = k.todo /\ n # Idle
  BY <1>2, Parts DEF Along
<1>5. CallsQuiet'
  <2>1. CallQuiet(n)'
    BY <1>2, AlongQuiet DEF Ending
  <2> QED
    BY <1>1, <1>2, <1>4, <2>1, CallsKept DEF Wary, CallsQuiet, Live
<1>6. Found'
  BY <1>2, <1>3 DEF Wary, Found, AtWith, Live
<1>7. DeletedAgain'
  BY <1>2, <1>3, <1>4 DEF Wary, DeletedAgain, AtWith, Live, At
<1>8. WithinLimit'
  BY <1>2, <1>4, LimitStays DEF Live, Dooms, Adding, Ending
<1> QED
  BY <1>5, <1>6, <1>7, <1>8 DEF Wary

LEMMA ExtendQuiet ==
    ASSUME Quiet, StoreInv, Wary, WithinLimit, NEW c \in Callers, Extend(c)
    PROVE  Wary' /\ WithinLimit'
<1>1. StoreInv'
  BY ExtendKeeps
<1>2. PICK k, n : /\ k = call[c] /\ k.pc = "extend" /\ k.sid \in Sessions /\ CallQuiet(k)
                  /\ session[k.sid] # Fresh
                  /\ Along(k, n, "del") /\ n.owed = 1
                  /\ session' = [session EXCEPT ![k.sid] = Stored(TTL, k.ttl)]
                  /\ k.ttl \in 0 .. Never
                  /\ call' = [call EXCEPT ![c] = n] /\ UNCHANGED index
  BY QuietExtend DEF Wary
<1>3. call'[c] = n /\ \A d \in Callers \ {c} : call'[d] = call[d]
  BY <1>2, Others
<1>4. n.pc = "del" /\ n.sid = k.sid /\ n.todo = k.todo /\ n # Idle
  BY <1>2, Parts DEF Along
<1>5. /\ session'[k.sid].phase = "stored" /\ session'[k.sid].left = TTL
      /\ \A s \in Sessions \ {k.sid} : session'[s] = session[s]
  BY <1>2, Parts DEF StoreInv, StoreOK
<1>6. CallsQuiet'
  <2>1. CallQuiet(n)'
    BY <1>2, AlongQuiet DEF Ending
  <2>2. \A s \in Sessions : session'[s].phase = "stored" => session'[s].left = TTL
    BY <1>5 DEF Wary, CallsQuiet, Live
  <2>3. \A s \in Sessions : ~(session[s] = Fresh /\ session'[s] # Fresh)
    BY <1>2, <1>5
  <2> QED
    BY <1>1, <1>2, <1>4, <2>1, <2>2, <2>3, CallsKept DEF Wary
<1>7. Found'
  BY <1>2, <1>3, <1>4, <1>5 DEF Wary, Found, AtWith, Live
<1>8. DeletedAgain'
  <2>1. \A d \in Callers \ {c} : call[d].pc = "srem" => call[d].sid \in Sessions
    BY QuietCall DEF Wary, Pcs
  <2> QED
    BY <1>2, <1>3, <1>4, <1>5, <2>1 DEF Wary, DeletedAgain, AtWith, Live, At
<1>9. WithinLimit'
  <2>1. k.pc \notin Adding /\ Dooms(n, k.sid) /\ \A s : Dooms(k, s) => Dooms(n, s)
    BY <1>2, <1>4 DEF Dooms, Adding, Ending
  <2>2. \A s \in Sessions : Live(s)' => Live(s) \/ Dooms(n, s)
    BY <1>5, <2>1 DEF Live
  <2> QED
    BY <1>2, <2>1, <2>2, LimitStays
<1> QED
  BY <1>6, <1>7, <1>8, <1>9 DEF Wary

LEMMA DelQuiet ==
    ASSUME Quiet, StoreInv, Wary, WithinLimit, NEW c \in Callers, Del(c)
    PROVE  Wary' /\ WithinLimit'
<1>1. StoreInv'
  BY DelKeeps
<1>2. PICK k, n : /\ k = call[c] /\ k.pc = "del" /\ k.sid \in Sessions /\ CallQuiet(k)
                  /\ session' = [session EXCEPT ![k.sid] = IF Live(k.sid) THEN Gone ELSE @]
                  /\ (Along(k, n, "srem") /\ n.owed = 0) \/ Onward(k, n)
                  /\ call' = [call EXCEPT ![c] = n] /\ UNCHANGED index
  BY QuietDel DEF Wary
<1>3. call'[c] = n /\ \A d \in Callers \ {c} : call'[d] = call[d]
  BY <1>2, Others
<1>4. n.pc \in {"srem", "idle", "get"} /\ (n.pc = "srem" => n.sid = k.sid)
  BY <1>2, Parts DEF Along, Onward
<1>5. /\ ~Live(k.sid)' /\ (session[k.sid] = Fresh => session'[k.sid] = Fresh)
      /\ \A s \in Sessions \ {k.sid} : session'[s] = session[s]
  BY <1>2, Parts DEF StoreInv, StoreOK, Live
<1>6. CallsQuiet'
  <2>1. CallQuiet(n)'
    BY <1>2, AlongQuiet, OnwardQuiet DEF Ending
  <2>2. \A s \in Sessions : session'[s].phase = "stored" => session'[s].left = TTL
    BY <1>5 DEF Wary, CallsQuiet, Live
  <2>3. \A s \in Sessions : ~(session[s] = Fresh /\ session'[s] # Fresh)
    BY <1>2, <1>5
  <2> QED
    BY <1>1, <1>2, <1>4, <2>1, <2>2, <2>3, CallsKept DEF Wary
<1>7. Found'
  BY <1>2, <1>3, <1>5 DEF Wary, Found, AtWith, Live
<1>8. DeletedAgain'
  <2>1. \A d \in Callers \ {c} : call[d].pc = "srem" => call[d].sid \in Sessions
    BY QuietCall DEF Wary, Pcs
  <2> QED
    BY <1>2, <1>3, <1>4, <1>5, <2>1 DEF Wary, DeletedAgain, AtWith, Live, At
<1>9. WithinLimit'
  <2>1. \A s \in Sessions : Live(s)' /\ Dooms(k, s) => Dooms(n, s)
    <3>1. \A s \in k.todo : Dooms(n, s)
      BY <1>2, <1>4, Parts, OnwardDooms DEF Along, Dooms
    <3> QED
      BY <1>2, <1>5, <3>1 DEF Dooms
  <2>2. \A s \in Sessions : Live(s)' => Live(s)
    BY <1>5 DEF Live
  <2> QED
    BY <1>2, <2>1, <2>2, LimitStays DEF Adding
<1> QED
  BY <1>6, <1>7, <1>8, <1>9 DEF Wary

LEMMA SremQuiet ==
    ASSUME Quiet, StoreInv, Wary, WithinLimit, NEW c \in Callers, Srem(c)
    PROVE  Wary' /\ WithinLimit'
<1>1. StoreInv'
  BY SremKeeps
<1>2. PICK k, n : /\ k = call[c] /\ k.pc = "srem" /\ k.sid \in Sessions /\ CallQuiet(k)
                  /\ index'.members = index.members \ {k.sid}
                  /\ Onward(k, n)
                  /\ call' = [call EXCEPT ![c] = n] /\ UNCHANGED session
  BY QuietSrem DEF Wary
<1>3. call'[c] = n /\ \A d \in Callers \ {c} : call'[d] = call[d]
  BY <1>2, Others
<1>4. n.pc \in {"idle", "get"}
  BY <1>2, Parts DEF Onward
<1>5. CallsQuiet'
  <2>1. CallQuiet(n)'
    BY <1>2, OnwardQuiet
  <2> QED
    BY <1>1, <1>2, <1>4, <2>1, CallsKept DEF Wary, CallsQuiet, Live
<1>6. Found'
  BY <1>2, <1>3 DEF Wary, Found, DeletedAgain, AtWith, At, Live
<1>7. DeletedAgain'
  BY <1>2, <1>3, <1>4 DEF Wary, DeletedAgain, AtWith, Live, At
<1>8. WithinLimit'
  <2>1. \A s \in Sessions : Dooms(k, s) => Dooms(n, s)
    BY <1>2, OnwardDooms DEF Dooms, Ending
  <2> QED
    BY <1>2, <2>1, LimitStays DEF Live, Adding
<1> QED
  BY <1>5, <1>6, <1>7, <1>8 DEF Wary

LEMMA RequestQuiet ==
    ASSUME Quiet, StoreInv, Wary, WithinLimit, NEW c \in Callers, Request(c)
    PROVE  Wary' /\ WithinLimit'
<1>1. StoreInv'
  BY RequestKeeps
<1>2. PICK op \in {"create", "destroy"}, pc \in {"set", "get"}, s \in Sessions, owed \in {0, 1} :
         /\ \/ op = "create" /\ pc = "set" /\ owed = 0 /\ session[s] = Fresh /\ ~Creating(s)
            \/ op = "destroy" /\ pc = "get" /\ owed = 1
         /\ call' = [call EXCEPT ![c] = Begin(op, pc, s, owed)]
  <2>1. Ops \subseteq {"create", "destroy"}
    BY DEF Quiet
  <2>2. createSession(c) \/ destroySession(c)
    BY <2>1 DEF Request
  <2> QED
    BY <2>2 DEF createSession, destroySession, Step
<1>3. PICK k, n : k = call[c] /\ n = Begin(op, pc, s, owed)
  OBVIOUS
<1>4. k = Idle /\ UNCHANGED <<session, index>>
  BY <1>3 DEF Request, Busy
<1>5. /\ n.op = op /\ n.pc = pc /\ n.own = s /\ n.sid = s /\ n.left = TTL /\ n.owed = owed
      /\ n.todo = {} /\ n # Idle
  <2>1. /\ n.op = op /\ n.pc = pc /\ n.own = s /\ n.sid = s /\ n.left = TTL /\ n.owed = owed
        /\ n.todo = {}
    BY <1>3 DEF Begin
  <2> QED
    BY <1>2, <2>1, Parts
<1>6. call' = [call EXCEPT ![c] = n]
  BY <1>2, <1>3
<1>7. call'[c] = n /\ \A d \in Callers \ {c} : call'[d] = call[d]
  BY <1>6, Others
<1>8. CallsQuiet'
  <2>1. CallQuiet(n)'
    BY <1>2, <1>4, <1>5 DEF CallQuiet, Adding, Ending
  <2>2. n.pc = "set" => \A d \in Callers \ {c} : ~(At(d, "set") /\ call[d].sid = n.sid)
    <3>1. ASSUME n.pc = "set", NEW d \in Callers \ {c}, At(d, "set"), call[d].sid = s PROVE FALSE
      <4>1. CallQuiet(call[d]) /\ call[d] # Idle
        BY <3>1, QuietCall DEF Wary, At, Pcs
      <4>2. call[d].op = "create" /\ call[d].own = s
        BY <3>1, <4>1 DEF CallQuiet, At
      <4> QED
        BY <1>2, <1>5, <3>1, <4>1, <4>2 DEF Creating, Busy
    <3> QED
      BY <1>5, <3>1
  <2> QED
    BY <1>1, <1>4, <1>6, <2>1, <2>2, CallsKept DEF Wary, CallsQuiet, Live
<1>9. Found'
  <2>1. \A x : ~AtWith(c, {"sadd", "del"}, x)
    BY <1>3, <1>4, Parts DEF AtWith
  <2> QED
    BY <1>4, <1>7, <2>1 DEF Wary, Found, AtWith, Live
<1>10. DeletedAgain'
  <2>1. (\A x : ~AtWith(c, {"del"}, x)) /\ n.pc # "srem"
    BY <1>2, <1>3, <1>4, <1>5, Parts DEF AtWith
  <2> QED
    BY <1>4, <1>7, <2>1 DEF Wary, DeletedAgain, AtWith, Live, At
<1>11. WithinLimit'
  <2>1. k.pc \notin Adding /\ \A x : ~Dooms(k, x)
    BY <1>4, Parts DEF Adding, Dooms
  <2> QED
    BY <1>3, <1>4, <1>6, <2>1, LimitStays DEF Live
<1> QED
  BY <1>8, <1>9, <1>10, <1>11 DEF Wary

LEMMA QuietInitially == Init => QuietInv
<1> SUFFICES ASSUME Init PROVE QuietInv
  OBVIOUS
<1>1. StoreInv
  BY StoreInitially
<1>2. \A s \in Sessions : ~Live(s)
  BY Parts DEF Init, Live
<1>3. \A c \in Callers : call[c] = Idle
  BY DEF Init
<1>4. CallsQuiet
  BY <1>2, <1>3, Parts DEF CallsQuiet, CallQuiet, At
<1>5. Found /\ DeletedAgain
  BY <1>2, <1>3, Parts DEF Found, DeletedAgain, At
<1>6. LiveSessions \ Doomed = {}
  BY <1>2 DEF LiveSessions
<1>7. WithinLimit
  BY <1>6, FS_EmptySet, SessionAssumption DEF WithinLimit
<1> QED
  BY <1>1, <1>4, <1>5, <1>7 DEF QuietInv

LEMMA QuietKept == ASSUME Quiet PROVE QuietInv /\ [Next]_vars => QuietInv'
<1> SUFFICES ASSUME QuietInv, [Next]_vars PROVE QuietInv'
  OBVIOUS
<1>1. StoreInv /\ Wary /\ WithinLimit
  BY DEF QuietInv, Wary
<1>2. StoreInv'
  BY <1>1, StoreKept
<1>3. CASE UNCHANGED vars
  <2>1. UNCHANGED <<session, index, call>>
    BY <1>3 DEF vars
  <2>2. CallsQuiet'
    BY <1>1, <2>1 DEF Wary, CallsQuiet, CallQuiet, At, Live
  <2>3. Found' /\ DeletedAgain'
    BY <1>1, <2>1 DEF Wary, Found, DeletedAgain, AtWith, At, Live
  <2>4. WithinLimit'
    BY <1>1, <2>1 DEF WithinLimit, LiveSessions, Live, Doomed, Dooms
  <2> QED
    BY <1>2, <2>2, <2>3, <2>4 DEF QuietInv
<1>4. CASE Tick
  BY <1>4 DEF Tick, Quiet
<1>5. ASSUME NEW c \in Callers, Request(c) PROVE Wary' /\ WithinLimit'
  BY <1>1, <1>5, RequestQuiet
<1>6. ASSUME NEW c \in Callers, Put(c) \/ Clear(c) PROVE FALSE
  <2>1. call[c].pc \in {"put", "clear"} /\ call[c].pc \in Pcs
    BY <1>6 DEF Put, Clear, At, Pcs
  <2>2. CallQuiet(call[c]) /\ call[c] # Idle
    BY <1>1, <2>1, QuietCall DEF Wary
  <2> QED
    BY <2>1, <2>2 DEF CallQuiet, Adding, Ending
<1>7. ASSUME NEW c \in Callers, Command(c) PROVE Wary' /\ WithinLimit'
  BY <1>1, <1>6, <1>7, SetQuiet, SaddQuiet, ExpireQuiet, MembersQuiet, GetQuiet, ExtendQuiet,
     DelQuiet, SremQuiet DEF Command
<1>8. CASE Next
  BY <1>2, <1>4, <1>5, <1>7, <1>8 DEF Next, QuietInv, Wary
<1> QED
  BY <1>3, <1>8

LEMMA QuietHolds == ASSUME Quiet PROVE Spec => []QuietInv
<1>1. Init => QuietInv
  BY QuietInitially
<1>2. QuietInv /\ [Next]_vars => QuietInv'
  BY QuietKept
<1> QED
  BY <1>1, <1>2, PTL DEF Spec

\* LiveIsIndexed (createSession, destroySession): while sessions are created and destroyed
\* only, within a tick and without a failing command, the user's set has every session of
\* the user between calls, however they interleave.
THEOREM LiveStayIndexed == ASSUME Quiet PROVE Spec => []LiveIsIndexed
<1>1. QuietInv => LiveIsIndexed
  BY Parts DEF QuietInv, Found, AllIdle, Busy, AtWith, LiveIsIndexed, LiveSessions
<1> QED
  BY <1>1, QuietHolds, PTL

\* LimitKept (enforceMaxSessions): under the same conditions the user has at most
\* maxSessions sessions between calls, although enforceMaxSessions reads the set in one
\* command and destroys in others.
THEOREM LimitIsKept == ASSUME Quiet PROVE Spec => []LimitKept
<1>1. ASSUME QuietInv, AllIdle PROVE Cardinality(LiveSessions) <= maxSessions
  <2>1. \A c \in Callers : call[c].pc \notin Adding
    BY <1>1, Parts DEF AllIdle, Busy, Adding
  <2>2. LiveSessions \ Doomed = LiveSessions
    BY <1>1 DEF AllIdle, Busy, Doomed, Dooms
  <2> QED
    BY <1>1, <2>1, <2>2 DEF QuietInv, WithinLimit
<1>2. QuietInv => LimitKept
  BY <1>1 DEF LimitKept
<1> QED
  BY <1>2, QuietHolds, PTL
=============================================================================
