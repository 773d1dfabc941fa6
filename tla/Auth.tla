-------------------------------- MODULE Auth --------------------------------
(***************************************************************************)
(* The auth service: accounts, logins with lockout, refresh tokens,        *)
(* password change and reset, email verification and API keys.  A request  *)
(* meets the others only in the database, so it is a sequence of steps, one*)
(* per statement it sends.  A token that is revoked, used or past its      *)
(* expiry is "ended".                                                      *)
(***************************************************************************)
EXTENDS Naturals

CONSTANTS
    UserIds,            \* accounts, one per email
    Passwords,          \* passwords that validatePassword accepts
    RefreshTokens,      \* refresh tokens that can be issued
    ApiKeys,            \* API keys that can be created
    Requests,           \* requests in flight
    MaxLoginAttempts,   \* config.MaxLoginAttempts
    RequireEmailVerify, \* config.RequireEmailVerify
    WrongBound,         \* wrong passwords tried per account
    NoUser

VARIABLES
    users,              \* users table: id -> row or NoUser
    refreshTokens,      \* token -> [user, state]
    resetTokens,        \* id -> state of its password reset token
    verifyTokens,       \* id -> state of its email verification token
    apiKeys,            \* key -> [user, state]
    access,             \* users that hold an unexpired access token
    request,            \* request -> [pc, user, row, password, token]
    wrongTries,         \* history: id -> wrong passwords given
    mayHold             \* history: id -> passwords explained by what was set

tokenVars == <<refreshTokens, resetTokens, verifyTokens, apiKeys>>
historyVars == <<wrongTries, mayHold>>
authVars == <<users, tokenVars, access, request, historyVars>>

NewUser(p) ==
    [password |-> p, failed |-> 0, locked |-> FALSE, status |-> "active",
     verified |-> FALSE]

Blank == [pc |-> "idle", user |-> NoUser, row |-> NoUser,
          password |-> "", token |-> ""]

Init ==
    /\ users = [u \in UserIds |-> NoUser]
    /\ refreshTokens = [t \in RefreshTokens |-> [user |-> NoUser, state |-> "none"]]
    /\ resetTokens = [u \in UserIds |-> "none"]
    /\ verifyTokens = [u \in UserIds |-> "none"]
    /\ apiKeys = [k \in ApiKeys |-> [user |-> NoUser, state |-> "none"]]
    /\ access = {}
    /\ request = [r \in Requests |-> Blank]
    /\ wrongTries = [u \in UserIds |-> 0]
    /\ mayHold = [u \in UserIds |-> {}]

-------------------------------------------------------------------------------
\* The repositories.
FindByID(u) == users[u]
FindByEmail(u) == users[u]
ExistsByEmail(u) == users[u] # NoUser
Create(u, row) == users' = [users EXCEPT ![u] = row]
\* gorm's Save: every column of the row, whatever it has become meanwhile.
Update(u, row) == users' = [users EXCEPT ![u] = row]
\* Logins that have loaded the row and not yet written it back.
Overlapping(u) ==
    {r \in Requests : request[r].user = u /\ request[r].pc \in {"failed", "passed"}}
UpdatePassword(u, p) ==
    /\ users' = [users EXCEPT ![u].password = p]
    /\ mayHold' = [mayHold EXCEPT
          ![u] = {p} \union {request[r].row.password : r \in Overlapping(u)}]
VerifyEmail(u) == users' = [users EXCEPT ![u].verified = TRUE]

SaveRefreshToken(t, u) ==
    refreshTokens' = [refreshTokens EXCEPT ![t] = [user |-> u, state |-> "valid"]]
FindRefreshToken(t) == refreshTokens[t]
RevokeRefreshToken(t) ==
    refreshTokens' = [refreshTokens EXCEPT
        ![t].state = IF @ = "none" THEN @ ELSE "ended"]
RevokeAllUserTokens(u) ==
    refreshTokens' = [t \in RefreshTokens |->
        IF refreshTokens[t].user = u
        THEN [refreshTokens[t] EXCEPT !.state = "ended"]
        ELSE refreshTokens[t]]
MarkPasswordResetTokenUsed(u) == resetTokens' = [resetTokens EXCEPT ![u] = "ended"]
MarkEmailVerificationTokenUsed(u) ==
    verifyTokens' = [verifyTokens EXCEPT ![u] = "ended"]

\* A token is valid when it is neither spent nor past its expiry.
IsValid(t) == t.state = "valid"
ResetIsValid(u) == resetTokens[u] = "valid"
VerifyIsValid(u) == verifyTokens[u] = "valid"

\* The hash in the row accepts exactly the password it was made from.
verifyPassword(p, row) == p = row.password

-------------------------------------------------------------------------------
\* How a request moves: it waits for its next statement, or answers.
Goto(r, pc) == request' = [request EXCEPT ![r].pc = pc]
Done(r) == request' = [request EXCEPT ![r] = Blank]
Begin(r, q) == request' = [request EXCEPT ![r] = q]
At(r, pc) == request[r].pc = pc

\* generateTokenPair: the last statement of login, registration and refresh.
generateTokenPair(r) ==
    /\ At(r, "issue")
    /\ \E t \in RefreshTokens :
          /\ refreshTokens[t].state = "none"
          /\ SaveRefreshToken(t, request[r].user)
    /\ access' = access \union {request[r].user}
    /\ Done(r)
    /\ UNCHANGED <<users, resetTokens, verifyTokens, apiKeys, historyVars>>

\* The test for the email and the insert are two statements; the unique index
\* refuses the second of two inserts.
Register(r, u, p) ==
    /\ At(r, "idle")
    /\ IF ExistsByEmail(u) THEN Done(r)
       ELSE Begin(r, [Blank EXCEPT !.pc = "create", !.user = u, !.password = p])
    /\ UNCHANGED <<users, tokenVars, access, historyVars>>

RegisterCreate(r) ==
    LET u == request[r].user IN
    /\ At(r, "create")
    /\ IF users[u] # NoUser
       THEN Done(r) /\ UNCHANGED <<users, mayHold>>
       ELSE /\ Create(u, NewUser(request[r].password))
            /\ mayHold' = [mayHold EXCEPT ![u] = {request[r].password}]
            /\ Goto(r, "issue")
    /\ UNCHANGED <<tokenVars, access, wrongTries>>

\* What Login decides from the row it loaded, one early return after the other.
LoginCheck(row, p) ==
    IF row = NoUser THEN "refused"
    ELSE IF row.locked THEN "locked"
    ELSE IF row.status # "active" THEN "refused"
    ELSE IF ~verifyPassword(p, row) THEN "wrong"
    ELSE IF RequireEmailVerify /\ ~row.verified THEN "refused" ELSE "ok"

Login(r, u, p) ==
    LET row == FindByEmail(u)
        check == LoginCheck(row, p)
        Loaded(pc) == [Blank EXCEPT !.pc = pc, !.user = u, !.row = row] IN
    /\ At(r, "idle")
    /\ CASE check = "locked" -> Done(r)
         [] check = "refused" -> Done(r)
         [] check = "wrong" -> Begin(r, Loaded("failed"))
         [] check = "ok" -> Begin(r, Loaded("passed"))
    /\ check = "wrong" => wrongTries[u] < WrongBound
    /\ wrongTries' = [wrongTries EXCEPT ![u] = IF check = "wrong" THEN @ + 1 ELSE @]
    /\ UNCHANGED <<users, tokenVars, access, mayHold>>

FailedRow_Early(row) ==
    [row EXCEPT !.failed = @ + 1,
                !.locked = row.failed + 2 >= MaxLoginAttempts \/ @]

\* The loaded row with one failure more, locked at the limit.
FailedRow(row) ==
    [row EXCEPT !.failed = @ + 1,
                !.locked = row.failed + 1 >= MaxLoginAttempts \/ @]

handleFailedLogin(r) ==
    /\ At(r, "failed")
    /\ Update(request[r].user, FailedRow(request[r].row))
    /\ Done(r)
    /\ UNCHANGED <<tokenVars, access, historyVars>>

LoginUpdate(r) ==
    /\ At(r, "passed")
    /\ Update(request[r].user,
              [request[r].row EXCEPT !.failed = 0, !.locked = FALSE])
    /\ Goto(r, "issue")
    /\ UNCHANGED <<tokenVars, access, historyVars>>

RefreshTokensOf(r, t) ==
    LET found == FindRefreshToken(t) IN
    /\ At(r, "idle")
    /\ IF ~IsValid(found) \/ FindByID(found.user) = NoUser THEN Done(r)
       ELSE Begin(r, [Blank EXCEPT !.pc = "rotate", !.user = found.user,
                                   !.token = t])
    /\ UNCHANGED <<users, tokenVars, access, historyVars>>

RefreshRevoke(r) ==
    /\ At(r, "rotate")
    /\ RevokeRefreshToken(request[r].token)
    /\ Goto(r, "issue")
    /\ UNCHANGED <<users, resetTokens, verifyTokens, apiKeys, access,
                   historyVars>>

LogoutSession(t) ==
    /\ RevokeRefreshToken(t)
    /\ UNCHANGED <<users, resetTokens, verifyTokens, apiKeys, access, request,
                   historyVars>>

-------------------------------------------------------------------------------
\* Passwords.
ChangePassword(r, u, p, new) ==
    /\ At(r, "idle")
    /\ IF ~verifyPassword(p, FindByID(u)) THEN Done(r)
       ELSE Begin(r, [Blank EXCEPT !.pc = "change", !.user = u, !.password = new])
    /\ UNCHANGED <<users, tokenVars, access, historyVars>>

ChangePasswordWrite(r) ==
    /\ At(r, "change")
    /\ UpdatePassword(request[r].user, request[r].password)
    /\ Goto(r, "revoke")
    /\ UNCHANGED <<tokenVars, access, wrongTries>>

RevokeAll(r) ==
    /\ At(r, "revoke")
    /\ RevokeAllUserTokens(request[r].user)
    /\ Done(r)
    /\ UNCHANGED <<users, resetTokens, verifyTokens, apiKeys, access, historyVars>>

\* An unknown email is answered like a known one.
RequestPasswordReset(u) ==
    /\ resetTokens' = [resetTokens EXCEPT ![u] =
                          IF FindByEmail(u) = NoUser THEN @ ELSE "valid"]
    /\ UNCHANGED <<users, refreshTokens, verifyTokens, apiKeys, access, request,
                   historyVars>>

ResetPassword(r, u, new) ==
    /\ At(r, "idle")
    /\ IF ~ResetIsValid(u) THEN Done(r)
       ELSE Begin(r, [Blank EXCEPT !.pc = "reset", !.user = u, !.password = new])
    /\ UNCHANGED <<users, tokenVars, access, historyVars>>

ResetPasswordWrite(r) ==
    /\ At(r, "reset")
    /\ UpdatePassword(request[r].user, request[r].password)
    /\ Goto(r, "spend")
    /\ UNCHANGED <<tokenVars, access, wrongTries>>

ResetPasswordSpend(r) ==
    /\ At(r, "spend")
    /\ MarkPasswordResetTokenUsed(request[r].user)
    /\ Goto(r, "revoke")
    /\ UNCHANGED <<users, refreshTokens, verifyTokens, apiKeys, access,
                   historyVars>>

-------------------------------------------------------------------------------
\* Email verification and API keys.
SendEmailVerification(u) ==
    /\ IF FindByID(u).verified
       THEN UNCHANGED verifyTokens
       ELSE verifyTokens' = [verifyTokens EXCEPT ![u] = "valid"]
    /\ UNCHANGED <<users, refreshTokens, resetTokens, apiKeys, access, request,
                   historyVars>>

VerifyEmailToken(r, u) ==
    /\ At(r, "idle")
    /\ IF ~VerifyIsValid(u) THEN Done(r) /\ UNCHANGED users
       ELSE /\ VerifyEmail(u)
            /\ Begin(r, [Blank EXCEPT !.pc = "verified", !.user = u])
    /\ UNCHANGED <<tokenVars, access, historyVars>>

VerifyEmailSpend(r) ==
    /\ At(r, "verified")
    /\ MarkEmailVerificationTokenUsed(request[r].user)
    /\ Done(r)
    /\ UNCHANGED <<users, refreshTokens, resetTokens, apiKeys, access, historyVars>>

ApiKeyStep(key, row) ==
    /\ apiKeys' = [apiKeys EXCEPT ![key] = row]
    /\ UNCHANGED <<users, refreshTokens, resetTokens, verifyTokens, access, request,
                   historyVars>>

CreateAPIKey(u, key) ==
    /\ apiKeys[key].state = "none"
    /\ ApiKeyStep(key, [user |-> u, state |-> "valid"])

\* FindByID, then the owner's test.
RevokeAPIKey(u, key) ==
    LET k == apiKeys[key]
        mine == k.state # "none" /\ k.user = u IN
    /\ ApiKeyStep(key, IF mine THEN [k EXCEPT !.state = "ended"] ELSE k)

-------------------------------------------------------------------------------
\* Time: locks, tokens and keys run out.
Expire ==
    /\ \/ /\ \E u \in UserIds : users[u] # NoUser /\ users[u].locked
                                /\ users' = [users EXCEPT ![u].locked = FALSE]
          /\ UNCHANGED <<refreshTokens, resetTokens, verifyTokens, access>>
       \/ /\ \E t \in RefreshTokens :
                IsValid(refreshTokens[t])
                /\ refreshTokens' = [refreshTokens EXCEPT ![t].state = "ended"]
          /\ UNCHANGED <<users, resetTokens, verifyTokens, access>>
       \/ /\ \E u \in UserIds : ResetIsValid(u)
                /\ resetTokens' = [resetTokens EXCEPT ![u] = "ended"]
          /\ UNCHANGED <<users, refreshTokens, verifyTokens, access>>
       \/ /\ \E u \in UserIds : VerifyIsValid(u)
                /\ verifyTokens' = [verifyTokens EXCEPT ![u] = "ended"]
          /\ UNCHANGED <<users, refreshTokens, resetTokens, access>>
       \/ /\ \E u \in access : access' = access \ {u}
          /\ UNCHANGED <<users, refreshTokens, resetTokens, verifyTokens>>
    /\ UNCHANGED <<apiKeys, request, historyVars>>

\* The handlers: what a request may carry. Those behind the Auth middleware
\* act for the user of a valid access token.
HandleRegister(r) == \E u \in UserIds, p \in Passwords : Register(r, u, p)
HandleLogin(r) == \E u \in UserIds, p \in Passwords : Login(r, u, p)
HandleRefresh(r) == \E t \in RefreshTokens : RefreshTokensOf(r, t)
HandleLogout == \E t \in RefreshTokens : LogoutSession(t)
HandleForgotPassword == \E u \in UserIds : RequestPasswordReset(u)
HandleResetPassword(r) ==
    \E u \in UserIds, new \in Passwords : ResetPassword(r, u, new)
HandleChangePassword(r) ==
    \E u \in access, p, new \in Passwords : ChangePassword(r, u, p, new)
HandleVerifyEmail(r) == \E u \in UserIds : VerifyEmailToken(r, u)
HandleResendVerification == \E u \in access : SendEmailVerification(u)
HandleCreateAPIKey == \E u \in access, key \in ApiKeys : CreateAPIKey(u, key)
HandleRevokeAPIKey == \E u \in access, key \in ApiKeys : RevokeAPIKey(u, key)

Arrive ==
    \/ \E r \in Requests :
          \/ HandleRegister(r) \/ HandleLogin(r) \/ HandleRefresh(r)
          \/ HandleResetPassword(r) \/ HandleChangePassword(r)
          \/ HandleVerifyEmail(r)
    \/ HandleLogout \/ HandleForgotPassword \/ HandleResendVerification
    \/ HandleCreateAPIKey \/ HandleRevokeAPIKey

Continue(r) ==
    \/ generateTokenPair(r) \/ RegisterCreate(r)
    \/ handleFailedLogin(r) \/ LoginUpdate(r)
    \/ RefreshRevoke(r) \/ ChangePasswordWrite(r) \/ RevokeAll(r)
    \/ ResetPasswordWrite(r) \/ ResetPasswordSpend(r) \/ VerifyEmailSpend(r)

Next == Arrive \/ Expire \/ \E r \in Requests : Continue(r)

Spec == Init /\ [][Next]_authVars

-------------------------------------------------------------------------------
\* An account is locked only when MaxLoginAttempts wrong passwords were given
\* for it and its row says so, whatever the interleaving of logins that count
\* from stale rows, password writes and expiries (auth_service.go:658-670).
LockIsEarned ==
    \A u \in UserIds :
        users[u] # NoUser /\ users[u].locked =>
            /\ users[u].failed >= MaxLoginAttempts
            /\ wrongTries[u] >= users[u].failed

\* A password stays as registration, change or reset set it, unless a login had
\* loaded the row before: its Save writes the old hash back
\* (auth_service.go:293, 659, auth_repository.go:77).
PasswordExplained ==
    \A u \in UserIds :
        users[u] # NoUser => users[u].password \in mayHold[u]
\* Why: no row, stored or loaded by a login under way, counts more failures
\* than there were, is locked below the limit or has a password of its own.
Rows == [password : Passwords, failed : Nat, locked : BOOLEAN,
         status : {"active"}, verified : BOOLEAN]
Exists(u) == u \in UserIds /\ users[u] # NoUser
Explained(u, row) ==
    /\ row \in Rows /\ row.password \in mayHold[u] /\ row.failed <= wrongTries[u]
    /\ row.locked => row.failed >= MaxLoginAttempts
KnownRequest(r) ==
    LET q == request[r] IN
    /\ q = [pc |-> q.pc, user |-> q.user, row |-> q.row, password |-> q.password, token |-> q.token]
    /\ q.pc = "create" => q.user \in UserIds
    /\ q.pc \in {"create", "change", "reset"} => q.password \in Passwords
    /\ q.pc \notin {"idle", "create"} => Exists(q.user)
    /\ q.pc \in {"failed", "passed"} => Explained(q.user, q.row) /\ ~q.row.locked
    /\ q.pc = "failed" => q.row.failed < wrongTries[q.user]
KnownToken(t) ==
    LET token == refreshTokens[t] IN
    /\ token = [user |-> token.user, state |-> token.state]
    /\ IsValid(token) => token.user \in UserIds
AuthInv ==
    /\ DOMAIN users = UserIds /\ DOMAIN mayHold = UserIds /\ DOMAIN request = Requests
    /\ wrongTries \in [UserIds -> Nat]
    /\ DOMAIN refreshTokens = RefreshTokens /\ \A t \in RefreshTokens : KnownToken(t)
    /\ DOMAIN resetTokens = UserIds /\ DOMAIN verifyTokens = UserIds
    /\ \A u \in UserIds :
         /\ users[u] # NoUser => Explained(u, users[u])
         /\ ResetIsValid(u) \/ VerifyIsValid(u) => users[u] # NoUser
    /\ \A u \in access : Exists(u)
    /\ \A r \in Requests : KnownRequest(r)
===============================================================================
