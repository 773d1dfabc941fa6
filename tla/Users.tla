-------------------------------- MODULE Users --------------------------------
(***************************************************************************)
(* Users and organizations: handlers, service and repositories.  Requests  *)
(* run statement by statement, without transactions.  A user row keeps its *)
(* status, its roles, its organization and what is stored as its password; *)
(* an organization keeps its creator, and a table of its own its members.  *)
(* The two tables are external: the migrations name other columns.         *)
(***************************************************************************)
EXTENDS FiniteSets

CONSTANTS
    Accounts,           \* users that can register, by e-mail and user name
    OrgIds,             \* organizations that can be created
    Secrets,            \* passwords that clients give
    UserCalls,          \* requests in flight
    NoRow

VARIABLES
    userTable,          \* user -> row or NoRow
    orgTable,           \* organization -> its creator or NoRow
    orgMembers,         \* the member rows <<organization, user>>
    tokens,             \* users that were given a token
    userCall,           \* request -> the statement it sends next
    disturbed           \* history: organizations two requests worked on at
                        \* once, or whose request failed half-way

userVars == <<userTable, orgTable, orgMembers, tokens, userCall, disturbed>>

Finished == [pc |-> "none"]
Init ==
    /\ userTable = [u \in Accounts |-> NoRow]
    /\ orgTable = [o \in OrgIds |-> NoRow]
    /\ orgMembers = {} /\ tokens = {} /\ disturbed = {}
    /\ userCall = [r \in UserCalls |-> Finished]

-------------------------------------------------------------------------------
\* The aggregates. A password can be wrong for the account or unfit as one.
NewUser(secret) ==
    [status |-> "active", hash |-> secret, org |-> NoRow, roles |-> {"user"}]
VerifyPassword(row, secret) == row.hash = secret
ChangePassword(row, secret) == [row EXCEPT !.hash = secret]
Block(row) == [row EXCEPT !.status = "blocked"]
Unblock(row) == [row EXCEPT !.status = "active"]
\* A failed attempt counts from the zero that every load brings back; the
\* fifth would lock the account.
recordFailedAttempt(row) == row
SetOrganization(row, o) == [row EXCEPT !.org = o]
AssignRole(row, role) == [row EXCEPT !.roles = @ \union {role}]

NewOrganization(u) == [owner |-> u, members |-> {u}]
AddMember_Alone(members, u) == {u}
AddMember(members, u) == members \union {u}

-------------------------------------------------------------------------------
\* The repositories. The insert of a user stores a fixed text as the password
\* hash; an update writes every column but that, and zero failed attempts.
Placeholder == "hashed_password"
UserSave(u, row) ==
    userTable' = [userTable EXCEPT ![u] = [row EXCEPT !.hash = Placeholder]]
FindByID(u) == userTable[u]
UserUpdate(u, row) ==
    userTable' = [userTable EXCEPT ![u] = [row EXCEPT !.hash = userTable[u].hash]]
ExistsByEmail(u) == userTable[u] # NoRow

OrgSave(o, u) == orgTable' = [orgTable EXCEPT ![o] = u]
deleteMembers(o) == orgMembers' = {m \in orgMembers : m[1] # o}
saveMember(o, u) == orgMembers' = orgMembers \union {<<o, u>>}
loadMembers(o) == {u \in Accounts : <<o, u>> \in orgMembers}

-------------------------------------------------------------------------------
At(r, pc) == userCall[r].pc = pc
Goto(r, q) == userCall' = [userCall EXCEPT ![r] = q]
Finish(r) == Goto(r, Finished)
WorksOn(r, o) == userCall[r].pc # "none" /\ "org" \in DOMAIN userCall[r]
                 /\ userCall[r].org = o

\* Registration looks the names up, then inserts; the insert of a name that
\* was taken meanwhile violates the table's key.
Register(r, u, secret) ==
    /\ At(r, "none")
    /\ ~ExistsByEmail(u)
    /\ Goto(r, [pc |-> "register", user |-> u, row |-> NewUser(secret)])
    /\ UNCHANGED <<userTable, tokens>>
SaveUser(r) ==
    LET q == userCall[r] IN
    /\ At(r, "register")
    /\ IF ExistsByEmail(q.user) THEN UNCHANGED userTable
       ELSE UserSave(q.user, q.row)
    /\ Finish(r)
    /\ UNCHANGED tokens

\* A login writes the row back, with the attempt or the login recorded, and
\* answers with a token when the password was right.
Login(r, u, secret) ==
    LET row == FindByID(u)
        right == VerifyPassword(row, secret) IN
    /\ At(r, "none") /\ row # NoRow
    /\ Goto(r, [pc |-> "write", user |-> u,
                row |-> IF right THEN row ELSE recordFailedAttempt(row)])
    /\ tokens' = IF right THEN tokens \union {u} ELSE tokens
    /\ UNCHANGED userTable

\* Load, change, write back. A change that is refused ends the request.
Change(r, u, allowed, row) ==
    /\ At(r, "none") /\ FindByID(u) # NoRow
    /\ IF allowed THEN Goto(r, [pc |-> "write", user |-> u, row |-> row])
       ELSE Finish(r)
    /\ UNCHANGED <<userTable, tokens>>
UpdateProfile(r, u) == Change(r, u, TRUE, FindByID(u))
BlockUser(r, u) ==
    Change(r, u, FindByID(u).status # "blocked", Block(FindByID(u)))
UnblockUser(r, u) ==
    Change(r, u, FindByID(u).status = "blocked", Unblock(FindByID(u)))
ChangeUserPassword(r, u, old, new) ==
    Change(r, u, VerifyPassword(FindByID(u), old), ChangePassword(FindByID(u), new))

WriteUser(r) ==
    /\ At(r, "write")
    /\ UserUpdate(userCall[r].user, userCall[r].row)
    /\ Finish(r)
    /\ UNCHANGED tokens

\* The routes and the inputs they take.
RegisterHandler(r) == \E u \in Accounts, s \in Secrets : Register(r, u, s)
LoginHandler(r) == \E u \in Accounts, s \in Secrets : Login(r, u, s)
UpdateProfileHandler(r) == \E u \in Accounts : UpdateProfile(r, u)
BlockUserHandler(r) == \E u \in Accounts : BlockUser(r, u)
UnblockUserHandler(r) == \E u \in Accounts : UnblockUser(r, u)
ChangePasswordHandler(r) ==
    \E u \in Accounts, s, t \in Secrets : ChangeUserPassword(r, u, s, t)
UserRequest(r) ==
    /\ \/ RegisterHandler(r) \/ LoginHandler(r) \/ UpdateProfileHandler(r)
       \/ BlockUserHandler(r) \/ UnblockUserHandler(r) \/ ChangePasswordHandler(r)
    /\ UNCHANGED <<orgTable, orgMembers, disturbed>>
UserStep(r) == (SaveUser(r) \/ WriteUser(r))
               /\ UNCHANGED <<orgTable, orgMembers, disturbed>>

-------------------------------------------------------------------------------
\* An organization is inserted, then the row of its only member, then the
\* creator's row is loaded and written back. The caller need not exist.
CreateOrganization(r, u, o) ==
    /\ At(r, "none") /\ orgTable[o] = NoRow
    /\ OrgSave(o, NewOrganization(u).owner)
    /\ Goto(r, [pc |-> "insert", org |-> o, user |-> u, role |-> "owner",
                rest |-> NewOrganization(u).members])
    /\ UNCHANGED <<userTable, orgMembers, disturbed>>

\* A new member: the members are loaded, then all deleted, then inserted with
\* the new one, a statement each.
AddOrganizationMember(r, u, o) ==
    /\ At(r, "none") /\ orgTable[o] # NoRow
    /\ IF u \in loadMembers(o) THEN Finish(r)
       ELSE Goto(r, [pc |-> "delete", org |-> o, user |-> u, role |-> "member",
                     rest |-> AddMember(loadMembers(o), u)])
    /\ disturbed' = IF \E p \in UserCalls : WorksOn(p, o)
                    THEN disturbed \union {o} ELSE disturbed
    /\ UNCHANGED <<userTable, orgTable, orgMembers>>
DeleteMembers(r) ==
    /\ At(r, "delete")
    /\ deleteMembers(userCall[r].org)
    /\ Goto(r, [userCall[r] EXCEPT !.pc = "insert"])
    /\ UNCHANGED <<userTable, orgTable, disturbed>>
InsertMember(r) ==
    LET q == userCall[r] IN
    /\ At(r, "insert") /\ q.rest # {}
    /\ \/ \E m \in q.rest : /\ saveMember(q.org, m)
                            /\ Goto(r, [q EXCEPT !.rest = @ \ {m}])
          /\ UNCHANGED disturbed
       \/ /\ Finish(r)
          /\ disturbed' = disturbed \union {q.org}
          /\ UNCHANGED orgMembers
    /\ UNCHANGED <<userTable, orgTable>>
LoadMember(r) ==
    LET q == userCall[r] IN
    /\ At(r, "insert") /\ q.rest = {}
    /\ IF FindByID(q.user) = NoRow THEN Finish(r)
       ELSE Goto(r, [pc |-> "write", user |-> q.user,
                     row |-> AssignRole(SetOrganization(FindByID(q.user), q.org),
                                        q.role)])
    /\ UNCHANGED <<userTable, orgTable, orgMembers, disturbed>>

CreateOrganizationHandler(r) ==
    \E u \in Accounts, o \in OrgIds : CreateOrganization(r, u, o)
AddOrganizationMemberHandler(r) ==
    \E u \in Accounts, o \in OrgIds : AddOrganizationMember(r, u, o)
OrgStep(r) ==
    /\ \/ CreateOrganizationHandler(r) \/ AddOrganizationMemberHandler(r)
       \/ DeleteMembers(r) \/ InsertMember(r) \/ LoadMember(r)
    /\ UNCHANGED tokens

Next == \E r \in UserCalls : UserRequest(r) \/ UserStep(r) \/ OrgStep(r)

Spec == Init /\ [][Next]_userVars

-------------------------------------------------------------------------------
\* An organization keeps its creator and everybody whose row names it, although
\* every new member deletes and re-inserts all of them: the list is incomplete
\* only while a request is rewriting it, after two requests worked on it at
\* once, or after an insert failed (organization_repository.go:241-258).
BelongsTo(o) == {orgTable[o]} \union
                {u \in Accounts : userTable[u] # NoRow /\ userTable[u].org = o}
MembersAreKept ==
    \A o \in OrgIds :
        /\ orgTable[o] # NoRow
        /\ o \notin disturbed
        /\ ~\E r \in UserCalls : WorksOn(r, o)
        => BelongsTo(o) \subseteq loadMembers(o)
\* Why: whoever belongs to an organization, or is about to by a row that waits
\* to be written, is in its list or in the hands of the one request that
\* rewrites it.
KnownRow(row) ==
    /\ row = [status |-> row.status, hash |-> row.hash, org |-> row.org, roles |-> row.roles]
    /\ row.org \in OrgIds => orgTable[row.org] # NoRow
KnownCall(r) ==
    LET q == userCall[r] IN
    /\ q.pc \in {"none", "register", "write", "delete", "insert"}
    /\ q.pc \in {"register", "write"} =>
         /\ q = [pc |-> q.pc, user |-> q.user, row |-> q.row]
         /\ q.user \in Accounts /\ KnownRow(q.row)
    /\ At(r, "register") => q.row.org = NoRow
    /\ q.pc \in {"delete", "insert"} =>
         /\ q = [pc |-> q.pc, org |-> q.org, user |-> q.user, role |-> q.role, rest |-> q.rest]
         /\ q.org \in OrgIds /\ orgTable[q.org] # NoRow
         /\ q.user \in Accounts
Claims(u, o) ==
    \/ u = orgTable[o]
    \/ userTable[u] # NoRow /\ userTable[u].org = o
    \/ \E r \in UserCalls : At(r, "write") /\ userCall[r].user = u /\ userCall[r].row.org = o
Held(u, o) == u \in loadMembers(o) \/ \E r \in UserCalls : WorksOn(r, o) /\ u \in userCall[r].rest
Listed(o) ==
    /\ \A r, q \in UserCalls : WorksOn(r, o) /\ WorksOn(q, o) => r = q
    /\ \A u \in Accounts : Claims(u, o) => Held(u, o)
    /\ \A r \in UserCalls : WorksOn(r, o) =>
         /\ Held(userCall[r].user, o)
         /\ At(r, "delete") => /\ userCall[r].user \in userCall[r].rest
                               /\ \A u \in Accounts : Claims(u, o) => u \in userCall[r].rest
UserInv ==
    /\ DOMAIN userTable = Accounts /\ DOMAIN orgTable = OrgIds /\ DOMAIN userCall = UserCalls
    /\ \A u \in Accounts : userTable[u] # NoRow => KnownRow(userTable[u])
    /\ \A r \in UserCalls : KnownCall(r)
    /\ \A o \in OrgIds : orgTable[o] # NoRow => /\ orgTable[o] \in Accounts
                                                /\ o \notin disturbed => Listed(o)
===============================================================================
