------------------------------ MODULE UserRoutes -------------------------------
(***************************************************************************)
(* apps/api: registration, login and tokens, user administration,          *)
(* passwords, API keys, credit scores and what is shown of a user.  A      *)
(* token is signed and not stored: what it says of its user's role was     *)
(* read at login and is not read again.  A password is its number, every   *)
(* one set a new one; whoever asks to change their own knows the one in    *)
(* force.  Names are left out.                                             *)
(***************************************************************************)
EXTENDS Requests

CONSTANTS Users, Emails, Roles, Keys,
          Founder, FoundersEmail,    \* an administrator who was there first
          Draws,                     \* what Math.random adds to a score
          MaxTokens, MaxPasswords    \* bound the tokens signed, and how often a password is set

ASSUME UsersAssumption == {"user", "admin"} \subseteq Roles     \* varchar: user, admin, super_admin
ASSUME DrawsAssumption == Draws \subseteq -100 .. 99

VARIABLES
    userRows,      \* users
    tokens,        \* signed so far: [user, role, late]; late: history, its user could not
                   \* have logged in when it was signed.  None expires: a token need not be used
    keyRows,       \* api_keys
    passwords,     \* users.passwordHash: how often it was set
    scores,        \* users.creditScore, 0 for none
    serving,       \* the request each client is in
    barred,        \* history: users barred, or whose password was set, while a request that had
                   \* looked at the row was to log them in or to change their password
    undone,        \* history: users whose password was replaced by somebody who had shown an older one
    staffed        \* history: users whose row ever said that they were staff

UsersVars == <<userRows, tokens, keyRows, passwords, scores, serving, barred, undone, staffed>>

UserRow == [email : Emails \union {FoundersEmail}, role : Roles, isActive : BOOLEAN]
KeyRow == [user : Users, isActive : BOOLEAN]
Gone == [status |-> "deleted"]
Registered(u) == userRows[u] \in UserRow
Welcome(u) == Registered(u) /\ userRows[u].isActive
StaffRoles == {"admin", "moderator"}
Signed(u, role) == [user |-> u, role |-> role, late |-> ~Welcome(u)]
Sign(token) ==
    /\ tokens' = tokens \union {token}
    /\ Cardinality(tokens \union {token}) <= MaxTokens
IsStaff(token) == token.role \in StaffRoles      \* requireAdminAccess
IsAdmin(token) == token.role = "admin"
requireUserAccess(token, u) == IsAdmin(token) \/ token.user = u
LoggingIn(u) == \E k \in Clients : serving[k].pc = "signIn" /\ serving[k].user = u
ChangingPassword(k, u) == serving[k].pc = "changePassword" /\ serving[k].user = u

UsersInit ==
    /\ userRows = [u \in Users |-> IF u # Founder THEN Unused
                      ELSE [email |-> FoundersEmail, role |-> "admin", isActive |-> TRUE]]
    /\ tokens = {} /\ keyRows = [i \in Keys |-> Unused]
    /\ passwords = [u \in Users |-> 0] /\ scores = [u \in Users |-> 0]
    /\ serving = [k \in Clients |-> Resting] /\ barred = {} /\ undone = {} /\ staffed = {Founder}

Serve(k, call) ==
    /\ serving' = [serving EXCEPT ![k] = call]
    /\ UNCHANGED <<userRows, tokens, keyRows, passwords, scores, barred, undone, staffed>>
Written(k) == serving' = [serving EXCEPT ![k] = Resting]
UnchangedUsers == UNCHANGED <<userRows, barred, staffed>>
UnchangedSecrets == UNCHANGED <<passwords, scores, undone>>
StaffedBy(u, row) == IF row.role \in StaffRoles THEN staffed \union {u} ELSE staffed

-----------------------------------------------------------------------------
\* What a handler reads first.
Taken(e) == \E u \in Users : Registered(u) /\ userRows[u].email = e

register(k) ==
    \E e \in Emails : ~Taken(e) /\ Serve(k, [pc |-> "insertUser", signs |-> TRUE,
                                             row |-> [email |-> e, role |-> "user", isActive |-> TRUE]])
createUser(k, token) ==
    \E row \in UserRow : IsStaff(token) /\ row.email \in Emails /\ ~Taken(row.email)
                         /\ Serve(k, [pc |-> "insertUser", signs |-> FALSE, row |-> row])

\* Between the query and the signatures the password is compared.
login(k) ==
    \E u \in Users : /\ Welcome(u)
                     /\ Serve(k, [pc |-> "signIn", user |-> u, role |-> userRows[u].role, password |-> passwords[u]])

\* Faulty variant: whoever still exists.
refreshAnyone(token) ==
    /\ Registered(token.user)
    /\ Sign(Signed(token.user, token.role))
    /\ UNCHANGED <<keyRows, serving>> /\ UnchangedUsers /\ UnchangedSecrets

\* Access tokens are accepted too, also after a logout or a change of the password; the role is
\* the old token's.
refresh(token) ==
    /\ Welcome(token.user)
    /\ Sign(Signed(token.user, token.role))
    /\ UNCHANGED <<keyRows, serving>> /\ UnchangedUsers /\ UnchangedSecrets

\* One's own name and telephone number change nothing here.
updateUser(k, token) ==
    \E u \in Users, row \in UserRow :
        /\ IsAdmin(token) /\ Registered(u) /\ row.email = userRows[u].email
        /\ Serve(k, [pc |-> "setUser", user |-> u, row |-> row])
deleteUser(k, token) ==
    \E u \in Users : /\ IsStaff(token) /\ u # token.user /\ Registered(u)
                     /\ Serve(k, [pc |-> "deleteUser", user |-> u])

\* The current password is compared before the new one is stored; staff need not know it.
changePassword(k, token) ==
    LET u == token.user IN
    Registered(u) /\ Serve(k, [pc |-> "changePassword", user |-> u, password |-> passwords[u]])
updateUserPassword(k, token) ==
    \E u \in Users : IsStaff(token) /\ Registered(u) /\ Serve(k, [pc |-> "resetPassword", user |-> u])

\* Without an id it is one's own score.
calculateScore(k, token) ==
    \E u \in Users : /\ IsStaff(token) /\ Registered(u)
                     /\ Serve(k, [pc |-> "setScore", user |-> u, by |-> token.user, about |-> {u}])

\* What is shown of users: between a query and its answer.
Show(k, token, about) ==
    /\ \A u \in about : Registered(u)
    /\ Serve(k, [pc |-> "answer", by |-> token.user, about |-> about])
getUsers(k, token) == IsStaff(token) /\ Show(k, token, {u \in Users : Registered(u)})
getUser(k, token) == \E u \in Users : requireUserAccess(token, u) /\ Show(k, token, {u})
me(k, token) == Show(k, token, {token.user})
getScore(k, token) == Show(k, token, {token.user})
\* Averages and counts of all of them.
getDashboard(k, token) == IsAdmin(token) /\ Show(k, token, {u \in Users : Registered(u)})
\* The cookie is cleared, the token is as good as before.
logout(k, token) == Show(k, token, {})
\* Some other program writes credit_reports.
getReport(k, token) == \E u \in Users : (IsAdmin(token) \/ u = token.user) /\ Show(k, token, {u})

\* admin.ts: here moderators are not enough.
createApiKey(k, token) ==
    IsAdmin(token) /\ Serve(k, [pc |-> "insertKey", row |-> [user |-> token.user, isActive |-> TRUE]])
updateApiKey(k, token) ==
    \E i \in Keys, active \in BOOLEAN : /\ IsAdmin(token) /\ OnRecord(keyRows[i])
                                        /\ Serve(k, [pc |-> "setKey", key |-> i, isActive |-> active])
deleteApiKey(k, token) ==
    \E i \in Keys : IsAdmin(token) /\ OnRecord(keyRows[i]) /\ Serve(k, [pc |-> "deleteKey", key |-> i])

-----------------------------------------------------------------------------
NewUsers == {u \in Users : userRows[u] = Unused}
NewUser == CHOOSE u \in NewUsers : TRUE     \* defaultRandom()

\* Faulty variant: without the unique index on email.
InsertUserAnyway(k) ==
    LET call == serving[k] IN
    /\ call.pc = "insertUser" /\ Written(k)
    /\ NewUsers # {} /\ userRows' = [userRows EXCEPT ![NewUser] = call.row]
    /\ staffed' = StaffedBy(NewUser, call.row)
    /\ IF call.signs THEN Sign([user |-> NewUser, role |-> "user", late |-> FALSE]) ELSE UNCHANGED tokens
    /\ UNCHANGED <<keyRows, barred>> /\ UnchangedSecrets

\* An email that was taken meanwhile violates the unique index.
InsertUser(k) ==
    LET call == serving[k] IN
    /\ call.pc = "insertUser" /\ Written(k)
    /\ IF Taken(call.row.email) THEN UNCHANGED <<userRows, tokens, staffed>>
       ELSE /\ NewUsers # {} /\ userRows' = [userRows EXCEPT ![NewUser] = call.row]
            /\ staffed' = StaffedBy(NewUser, call.row)
            /\ IF call.signs THEN Sign([user |-> NewUser, role |-> "user", late |-> FALSE])
               ELSE UNCHANGED tokens
    /\ UNCHANGED <<keyRows, barred>> /\ UnchangedSecrets
SignIn(k) ==
    LET call == serving[k] IN
    /\ call.pc = "signIn" /\ Written(k)
    /\ Sign([user |-> call.user, role |-> call.role,
             late |-> ~Welcome(call.user) \/ passwords[call.user] # call.password])
    /\ UNCHANGED keyRows /\ UnchangedUsers /\ UnchangedSecrets
SetUser(k) ==
    LET call == serving[k] IN
    /\ call.pc = "setUser" /\ Written(k)
    /\ userRows' = IF Registered(call.user) THEN [userRows EXCEPT ![call.user] = call.row] ELSE userRows
    /\ staffed' = IF Registered(call.user) THEN StaffedBy(call.user, call.row) ELSE staffed
    /\ barred' = IF ~call.row.isActive /\ LoggingIn(call.user) THEN barred \union {call.user} ELSE barred
    /\ UNCHANGED <<tokens, keyRows>> /\ UnchangedSecrets

\* A user to whom a key refers stays.
RemoveUser(k) ==
    LET u == serving[k].user IN
    /\ serving[k].pc = "deleteUser" /\ Written(k)
    /\ IF \A i \in Keys : OnRecord(keyRows[i]) => keyRows[i].user # u
       THEN /\ userRows' = [userRows EXCEPT ![u] = Gone]
            /\ barred' = IF LoggingIn(u) THEN barred \union {u} ELSE barred
       ELSE UNCHANGED <<userRows, barred>>
    /\ UNCHANGED <<tokens, keyRows, staffed>> /\ UnchangedSecrets

\* Whatever password is in force by now.
Replace(k, u) ==
    /\ Written(k)
    /\ IF Registered(u)
       THEN /\ passwords[u] < MaxPasswords /\ passwords' = [passwords EXCEPT ![u] = @ + 1]
            /\ barred' = IF LoggingIn(u) \/ \E other \in Clients \ {k} : ChangingPassword(other, u)
                         THEN barred \union {u} ELSE barred
       ELSE UNCHANGED <<passwords, barred>>
    /\ UNCHANGED <<userRows, tokens, keyRows, scores, staffed>>
ReplacePassword(k) ==
    LET u == serving[k].user IN
    /\ serving[k].pc = "changePassword" /\ Replace(k, u)
    /\ undone' = IF Registered(u) /\ passwords[u] # serving[k].password THEN undone \union {u} ELSE undone
ResetPassword(k) == serving[k].pc = "resetPassword" /\ Replace(k, serving[k].user) /\ UNCHANGED undone

NewScore(draw) == LET score == 650 + draw IN IF score < 300 THEN 300 ELSE IF score > 850 THEN 850 ELSE score
SetScore(k) ==
    LET u == serving[k].user IN
    /\ serving[k].pc = "setScore" /\ Written(k)
    /\ \E draw \in Draws : scores' = IF Registered(u) THEN [scores EXCEPT ![u] = NewScore(draw)] ELSE scores
    /\ UNCHANGED <<tokens, keyRows, passwords, undone>> /\ UnchangedUsers
Answer(k) ==
    /\ serving[k].pc = "answer" /\ Written(k)
    /\ UNCHANGED <<tokens, keyRows>> /\ UnchangedUsers /\ UnchangedSecrets

\* The token's user must be on record.
InsertKey(k) ==
    LET call == serving[k] IN
    /\ call.pc = "insertKey" /\ Written(k)
    /\ IF Registered(call.row.user)
       THEN \E i \in Keys : keyRows[i] = Unused /\ keyRows' = [keyRows EXCEPT ![i] = call.row]
       ELSE UNCHANGED keyRows
    /\ UNCHANGED tokens /\ UnchangedUsers /\ UnchangedSecrets
SetKey(k) ==
    LET call == serving[k] IN
    /\ call.pc = "setKey" /\ Written(k)
    /\ keyRows' = IF OnRecord(keyRows[call.key])
                  THEN [keyRows EXCEPT ![call.key].isActive = call.isActive] ELSE keyRows
    /\ UNCHANGED tokens /\ UnchangedUsers /\ UnchangedSecrets
RemoveKey(k) ==
    /\ serving[k].pc = "deleteKey" /\ Written(k)
    /\ keyRows' = [keyRows EXCEPT ![serving[k].key] = Unused]
    /\ UNCHANGED tokens /\ UnchangedUsers /\ UnchangedSecrets

UsersNext ==
    \/ \E token \in tokens : refresh(token)
    \/ \E k \in Clients :
        \/ serving[k] = Resting /\ (register(k) \/ login(k))
        \/ serving[k] = Resting /\ \E token \in tokens :
               \/ createUser(k, token) \/ updateUser(k, token) \/ deleteUser(k, token)
               \/ createApiKey(k, token) \/ updateApiKey(k, token) \/ deleteApiKey(k, token)
        \/ InsertUser(k) \/ SignIn(k) \/ SetUser(k) \/ RemoveUser(k)
        \/ InsertKey(k) \/ SetKey(k) \/ RemoveKey(k)
SecretsNext ==
    \/ \E token \in tokens : refresh(token)
    \/ \E k \in Clients :
        \/ serving[k] = Resting /\ (register(k) \/ login(k))
        \/ serving[k] = Resting /\ \E token \in tokens :
               \/ updateUser(k, token) \/ changePassword(k, token) \/ updateUserPassword(k, token)
               \/ calculateScore(k, token) \/ getUsers(k, token) \/ getUser(k, token) \/ me(k, token)
               \/ getScore(k, token) \/ getReport(k, token) \/ getDashboard(k, token) \/ logout(k, token)
        \/ InsertUser(k) \/ SignIn(k) \/ SetUser(k)
        \/ ReplacePassword(k) \/ ResetPassword(k) \/ SetScore(k) \/ Answer(k)
UsersSpec == UsersInit /\ [][UsersNext \/ SecretsNext]_UsersVars

-----------------------------------------------------------------------------
\* The rows are of the types of db/schema.ts.
UsersTypeOK ==
    /\ \A u \in Users : Registered(u) \/ userRows[u] \in {Unused, Gone}
    /\ keyRows \in [Keys -> KeyRow \union {Unused}]
    /\ tokens \subseteq [user : Users, role : Roles, late : BOOLEAN]
    /\ passwords \in [Users -> Nat] /\ scores \in [Users -> {0} \union 300 .. 850]

\* A token is signed for a user who is deactivated or deleted, or by a password that is no
\* longer in force, only if that happened while the user was logging in: refreshing a token
\* asks again whether its user is welcome.
SessionsAreWelcome == \A token \in tokens : token.late => token.user \in barred

\* A password that its user or the staff have set is replaced only by the staff or by somebody
\* who has shown it, unless two requests to set it overlapped.
PasswordsHold == undone \subseteq barred

\* Whatever becomes of roles and tokens meanwhile, nobody is shown another's row, score or
\* report who never was a member of the staff.
ReadersAreEntitled ==
    \A k \in Clients : serving[k].pc \in {"answer", "setScore"}
        => serving[k].about \subseteq {serving[k].by} \/ serving[k].by \in staffed

\* However registrations race and users are deleted, no two users have one email address,
\* and an API key's user is on record.
UsersAreDistinct ==
    /\ \A u, v \in Users : Registered(u) /\ Registered(v) /\ u # v => userRows[u].email # userRows[v].email
    /\ \A i \in Keys : OnRecord(keyRows[i]) => Registered(keyRows[i].user)
=============================================================================
