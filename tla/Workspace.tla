------------------------------ MODULE Workspace ------------------------------
(***************************************************************************)
(* Workspaces, their members and invitations.  A request first reads what  *)
(* it decides on and then writes, in statements of their own, so that      *)
(* other requests run in between.  A workspace is named by its slug, a     *)
(* member row by the workspace and the user it joins; member rows are      *)
(* fetched by their id alone.                                              *)
(***************************************************************************)
EXTENDS Naturals, FiniteSets

CONSTANTS
    Slugs,              \* workspaces that can be created
    People,             \* users
    Invitations,        \* invitations that can be sent
    Requests,           \* requests in flight
    MaxMembers,         \* limit of the plan; 0 or less is none
    NoOne

VARIABLES
    workspaces,         \* slug -> [state, owner]
    members,            \* <<slug, user>> -> role or "none"
    invitations,        \* invitation -> [slug, role, status]
    workspaceRequest    \* request -> the write it is about to send

workspaceVars == <<workspaces, members, invitations, workspaceRequest>>

Roles == {"owner", "admin", "member"}
MemberIds == Slugs \X People
Blank == [pc |-> "idle"]

Init ==
    /\ workspaces = [s \in Slugs |-> [state |-> "none", owner |-> NoOne]]
    /\ members = [m \in MemberIds |-> "none"]
    /\ invitations = [i \in Invitations |->
                         [slug |-> NoOne, role |-> "none", status |-> "none"]]
    /\ workspaceRequest = [r \in Requests |-> Blank]

-------------------------------------------------------------------------------
\* Model and repositories.
CanManageMembers(role) == role \in {"owner", "admin"}
IsValid(i) == invitations[i].status = "pending"

FindByID(s) == workspaces[s].state = "live"
FindBySlug(s) == workspaces[s].state = "live"
CreateRow(s, owner) ==
    workspaces' = [workspaces EXCEPT ![s] = [state |-> "live", owner |-> owner]]
DeleteRow(s) == workspaces' = [workspaces EXCEPT ![s].state = "deleted"]

FindMember(m) == members[m]
FindByWorkspaceAndUser(s, u) == members[<<s, u>>]
AddMember(m, role) == members' = [members EXCEPT ![m] = role]
\* UPDATE and DELETE by id: nothing happens to a row that is gone.
UpdateRole(m, role) ==
    members' = [members EXCEPT ![m] = IF @ = "none" THEN @ ELSE role]
RemoveRow(m) == members' = [members EXCEPT ![m] = "none"]
CountByWorkspace(s) == Cardinality({u \in People : members[<<s, u>>] # "none"})

CreateInvitation(i, s, role) ==
    invitations' = [invitations EXCEPT
        ![i] = [slug |-> s, role |-> role, status |-> "pending"]]
FindByEmail(s) == {i \in Invitations : invitations[i].slug = s /\ IsValid(i)}
UpdateInvitation(i, status) ==
    invitations' = [invitations EXCEPT ![i].status = status]

-------------------------------------------------------------------------------
At(r, pc) == workspaceRequest[r].pc = pc
Begin(r, q) == workspaceRequest' = [workspaceRequest EXCEPT ![r] = q]
Done(r) == Begin(r, Blank)

\* The test for the slug ignores deleted workspaces, the unique index of the
\* insert does not.
CreateWorkspace(r, s, u) ==
    /\ At(r, "idle") /\ ~FindBySlug(s)
    /\ IF workspaces[s].state = "none"
       THEN CreateRow(s, u) /\ Begin(r, [pc |-> "addOwner", member |-> <<s, u>>])
       ELSE UNCHANGED <<workspaces, workspaceRequest>>
    /\ UNCHANGED <<members, invitations>>

\* Adding the owner may fail: the workspace then stays without members.
AddOwner(r) ==
    /\ At(r, "addOwner")
    /\ AddMember(workspaceRequest[r].member, "owner") \/ UNCHANGED members
    /\ Done(r)
    /\ UNCHANGED <<workspaces, invitations>>

DeleteWorkspace(s, u) ==
    /\ FindByID(s) /\ workspaces[s].owner = u
    /\ DeleteRow(s)
    /\ UNCHANGED <<members, invitations, workspaceRequest>>

\* Read the actor, the workspace, the count and the invitations, then insert.
InviteMember(r, s, u, role) ==
    /\ At(r, "idle")
    /\ CanManageMembers(FindByWorkspaceAndUser(s, u))
    /\ FindByID(s)
    /\ ~(MaxMembers > 0 /\ CountByWorkspace(s) >= MaxMembers)
    /\ FindByEmail(s) = {}
    /\ Begin(r, [pc |-> "invite", slug |-> s, role |-> role])
    /\ UNCHANGED <<workspaces, members, invitations>>

InviteInsert(r) ==
    /\ At(r, "invite")
    /\ \E i \in Invitations :
          /\ invitations[i].status = "none"
          /\ CreateInvitation(i, workspaceRequest[r].slug, workspaceRequest[r].role)
    /\ Done(r)
    /\ UNCHANGED <<workspaces, members>>

\* The holder of the token becomes a member, whatever the limit is by now.
AcceptInvitation(r, i, u) ==
    LET inv == invitations[i] IN
    /\ At(r, "idle") /\ IsValid(i)
    /\ FindByWorkspaceAndUser(inv.slug, u) = "none"
    /\ Begin(r, [pc |-> "join", invitation |-> i, member |-> <<inv.slug, u>>,
                 role |-> inv.role])
    /\ UNCHANGED <<workspaces, members, invitations>>

\* The unique index refuses a second row for the same user.
AcceptAdd(r) ==
    LET q == workspaceRequest[r] IN
    /\ At(r, "join")
    /\ IF members[q.member] # "none" THEN Done(r) /\ UNCHANGED members
       ELSE AddMember(q.member, q.role) /\ Begin(r, [q EXCEPT !.pc = "accepted"])
    /\ UNCHANGED <<workspaces, invitations>>

AcceptUpdate(r) ==
    /\ At(r, "accepted")
    /\ UpdateInvitation(workspaceRequest[r].invitation, "accepted")
    /\ Done(r)
    /\ UNCHANGED <<workspaces, members>>

DeclineInvitation(i) ==
    /\ invitations[i].status # "none"
    /\ UpdateInvitation(i, "declined")
    /\ UNCHANGED <<workspaces, members, workspaceRequest>>

InvitationExpires(i) ==
    /\ IsValid(i)
    /\ UpdateInvitation(i, "expired")
    /\ UNCHANGED <<workspaces, members, workspaceRequest>>

MayManage_AnyTarget(s, u, m) ==
    /\ CanManageMembers(FindByWorkspaceAndUser(s, u))
    /\ FindMember(m) # "none"

\* What UpdateMemberRole and RemoveMember ask before they write: the actor's
\* role in the workspace of the request, and that the target is no owner.
MayManage(s, u, m) ==
    /\ CanManageMembers(FindByWorkspaceAndUser(s, u))
    /\ FindMember(m) \notin {"none", "owner"}

UpdateMemberRole(r, s, u, m, role) ==
    /\ At(r, "idle") /\ MayManage(s, u, m)
    /\ Begin(r, [pc |-> "role", member |-> m, role |-> role])
    /\ UNCHANGED <<workspaces, members, invitations>>

UpdateRoleWrite(r) ==
    /\ At(r, "role")
    /\ UpdateRole(workspaceRequest[r].member, workspaceRequest[r].role)
    /\ Done(r)
    /\ UNCHANGED <<workspaces, invitations>>

RemoveMember(r, s, u, m) ==
    /\ At(r, "idle") /\ MayManage(s, u, m)
    /\ Begin(r, [pc |-> "remove", member |-> m])
    /\ UNCHANGED <<workspaces, members, invitations>>

LeaveWorkspace(r, s, u) ==
    /\ At(r, "idle")
    /\ FindByWorkspaceAndUser(s, u) \notin {"none", "owner"}
    /\ Begin(r, [pc |-> "remove", member |-> <<s, u>>])
    /\ UNCHANGED <<workspaces, members, invitations>>

RemoveWrite(r) ==
    /\ At(r, "remove")
    /\ RemoveRow(workspaceRequest[r].member)
    /\ Done(r)
    /\ UNCHANGED <<workspaces, invitations>>

-------------------------------------------------------------------------------
\* The handlers.
createWorkspace(r) == \E s \in Slugs, u \in People : CreateWorkspace(r, s, u)
deleteWorkspace == \E s \in Slugs, u \in People : DeleteWorkspace(s, u)
inviteMember(r) ==
    \E s \in Slugs, u \in People, role \in Roles : InviteMember(r, s, u, role)
acceptInvitation(r) ==
    \E i \in Invitations, u \in People : AcceptInvitation(r, i, u)
declineInvitation == \E i \in Invitations : DeclineInvitation(i)
updateMemberRole(r) ==
    \E s \in Slugs, u \in People, m \in MemberIds, role \in Roles :
        UpdateMemberRole(r, s, u, m, role)
removeMember(r) ==
    \E s \in Slugs, u \in People, m \in MemberIds : RemoveMember(r, s, u, m)

Next ==
    \/ \E r \in Requests :
          \/ createWorkspace(r) \/ inviteMember(r) \/ acceptInvitation(r)
          \/ updateMemberRole(r) \/ removeMember(r)
          \/ \E s \in Slugs, u \in People : LeaveWorkspace(r, s, u)
          \/ AddOwner(r) \/ InviteInsert(r) \/ AcceptAdd(r) \/ AcceptUpdate(r)
          \/ UpdateRoleWrite(r) \/ RemoveWrite(r)
    \/ deleteWorkspace \/ declineInvitation
    \/ \E i \in Invitations : InvitationExpires(i)

Spec == Init /\ [][Next]_workspaceVars

-------------------------------------------------------------------------------
\* A workspace with any member has its creator as a member, with the role of
\* an owner: nobody can demote or remove the creator, although the check of
\* the target and the write are two statements, admins of one workspace reach
\* member rows of another, roles are given freely and adding the owner may
\* fail (workspace_service.go:321-347,350-380).
CreatorStaysOwner ==
    \A s \in Slugs :
        CountByWorkspace(s) > 0 => members[<<s, workspaces[s].owner>>] = "owner"
\* Why: until the creator is seated nobody and nothing reaches the workspace,
\* and a request that was let in aims at somebody else.
Seated(s) ==
    /\ workspaces[s].state # "none"
    /\ members[<<s, workspaces[s].owner>>] = "owner"
Empty(s) == \A u \in People : members[<<s, u>>] = "none"
Aimed(r) ==
    LET q == workspaceRequest[r] IN
    /\ At(r, "addOwner") =>
         \E s \in Slugs : workspaces[s].state # "none" /\ q.member = <<s, workspaces[s].owner>>
    /\ At(r, "invite") => q.slug \in Slugs /\ Seated(q.slug)
    /\ At(r, "join") =>
         /\ q = [pc |-> "join", invitation |-> q.invitation, member |-> q.member, role |-> q.role]
         /\ \E s \in Slugs, u \in People : q.member = <<s, u>> /\ Seated(s)
    /\ q.pc \in {"role", "remove"} =>
         \E s \in Slugs, u \in People :
            q.member = <<s, u>> /\ Seated(s) /\ u # workspaces[s].owner
SeatKept(s) ==
    /\ workspaces[s] = [state |-> workspaces[s].state, owner |-> workspaces[s].owner]
    /\ workspaces[s].state # "none" => workspaces[s].owner \in People
    /\ Seated(s) \/ Empty(s)
Invited(i) ==
    LET inv == invitations[i] IN
    /\ inv = [slug |-> inv.slug, role |-> inv.role, status |-> inv.status]
    /\ inv.status = "pending" => inv.slug \in Slugs /\ Seated(inv.slug)
WorkInv ==
    /\ DOMAIN workspaces = Slugs /\ DOMAIN members = MemberIds
    /\ DOMAIN invitations = Invitations /\ DOMAIN workspaceRequest = Requests
    /\ \A s \in Slugs : SeatKept(s)
    /\ \A i \in Invitations : Invited(i)
    /\ \A r \in Requests : Aimed(r)
===============================================================================
