------------------------------- MODULE Sharing -------------------------------
(***************************************************************************)
(* Sharing a workflow with users, workspaces, by link and in public.       *)
(* The repository keeps pointers in a map behind a lock that is held for   *)
(* one call only; a service call is a sequence of such calls and holds no  *)
(* lock of its own.  What a caller fetched it shares with the map, even    *)
(* after it was deleted.  Copy flags, passwords and timestamps are left    *)
(* out.                                                                    *)
(***************************************************************************)
EXTENDS Naturals, FiniteSets

CONSTANTS
    Workflows, Users,
    Shares,             \* shares that can be created
    ShareInvitations,   \* invitations that can be sent
    SharingRequests,    \* calls in flight
    Grants,             \* permissions that are given
    MaxUsesOf,          \* limits a link can be given; 0 is none
    UseBound,           \* uses of a link without limit
    Nothing

VARIABLES
    share,              \* heap: share -> object or Nothing
    listed,             \* InMemoryShareRepository.shares
    shareInvitation,    \* invitation -> [workflow, inviter, perm, status]
    sharing             \* call -> the repository call it makes next

shareVars == <<share, listed, shareInvitation>>
sharingVars == <<shareVars, sharing>>

Idle == [pc |-> "idle"]

Init ==
    /\ share = [h \in Shares |-> Nothing] /\ listed = {}
    /\ shareInvitation = [i \in ShareInvitations |-> Nothing]
    /\ sharing = [r \in SharingRequests |-> Idle]

At(r, pc) == sharing[r].pc = pc
Goto(r, q) == sharing' = [sharing EXCEPT ![r] = q]
Done(r) == Goto(r, Idle)

-------------------------------------------------------------------------------
\* InMemoryShareRepository.
Create(s) ==
    \E h \in Shares : /\ share[h] = Nothing
                      /\ share' = [share EXCEPT ![h] = s]
                      /\ listed' = listed \union {h}
FindByWorkflowID(w) == {h \in listed : share[h].workflow = w}
FindByTargetID(u, kind) ==
    {h \in listed : share[h].target = u /\ share[h].kind = kind}
FindByLinkToken(h) == h \in listed /\ share[h].kind = "link"
\* Puts the object into the map, also one that was deleted meanwhile.
Update(h, s) ==
    /\ share' = [share EXCEPT ![h] = s]
    /\ listed' = listed \union {h}
Delete(h) == listed' = listed \ {h} /\ UNCHANGED share
DeleteByWorkflowID(w) == listed' = listed \ FindByWorkflowID(w)
IncrementUseCount(h) ==
    share' = IF h \in listed THEN [share EXCEPT ![h].uses = @ + 1] ELSE share
UpdateInvitation(i, status) ==
    shareInvitation' = [shareInvitation EXCEPT ![i].status = status]

NewShare(w, owner, kind, target, perm, maxUses) ==
    [workflow |-> w, owner |-> owner, kind |-> kind, target |-> target,
     perm |-> perm, max |-> maxUses, uses |-> 0, expired |-> FALSE]

-------------------------------------------------------------------------------
\* SharingService. Looking for an earlier share and creating one are two calls.
AlreadyShared(w, u) ==
    \E h \in FindByTargetID(u, "user") : share[h].workflow = w

ShareWithUser(r, w, owner, u, perm, next) ==
    IF owner = u \/ AlreadyShared(w, u) THEN Done(r)
    ELSE Goto(r, [pc |-> "create", next |-> next,
                  share |-> NewShare(w, owner, "user", u, perm, 0)])

CreateStep(r) ==
    /\ At(r, "create")
    /\ Create(sharing[r].share)
    /\ Goto(r, sharing[r].next)
    /\ UNCHANGED shareInvitation

ShareWithWorkspace(w, owner, workspace, perm) ==
    Create(NewShare(w, owner, "workspace", workspace, perm, 0))

CreateShareLink(w, owner, perm, maxUses) ==
    Create(NewShare(w, owner, "link", Nothing, perm, maxUses))

\* A public share that exists is updated (its flags are left out here).
MakePublic(r, w, owner) ==
    LET public == {h \in FindByWorkflowID(w) : share[h].kind = "public"} IN
    IF public # {}
    THEN \E h \in public : Goto(r, [pc |-> "update", id |-> h])
    ELSE Goto(r, [pc |-> "create", next |-> Idle,
                  share |-> NewShare(w, owner, "public", Nothing, "view", 0)])

UpdateStep(r) ==
    /\ At(r, "update")
    /\ Update(sharing[r].id, share[sharing[r].id])
    /\ Done(r)
    /\ UNCHANGED shareInvitation

MakePrivate(r, w, owner) ==
    LET mine == {h \in FindByWorkflowID(w) :
                    share[h].kind = "public" /\ share[h].owner = owner} IN
    IF mine = {} THEN Done(r) ELSE \E h \in mine : Goto(r, [pc |-> "delete", id |-> h])

DeleteStep(r) ==
    /\ At(r, "delete")
    /\ Delete(sharing[r].id)
    /\ Done(r)
    /\ UNCHANGED shareInvitation

\* A link that is used up is refused; the use is counted by a later call.
UsedUp_OffByOne(s) == s.max > 0 /\ s.uses > s.max
UsedUp(s) == s.max > 0 /\ s.uses >= s.max
AccessShareLink(r, h) ==
    IF ~FindByLinkToken(h) \/ share[h].expired \/ UsedUp(share[h]) THEN Done(r)
    ELSE share[h].uses < UseBound /\ Goto(r, [pc |-> "count", id |-> h])

CountStep(r) ==
    /\ At(r, "count")
    /\ IncrementUseCount(sharing[r].id)
    /\ Done(r)
    /\ UNCHANGED <<listed, shareInvitation>>

\* The fetched object is changed in place, then put back.
UpdateShare(r, h, requester, perm) ==
    IF h \notin listed \/ share[h].owner # requester
    THEN Done(r) /\ UNCHANGED share
    ELSE /\ share' = [share EXCEPT ![h].perm = perm]
         /\ Goto(r, [pc |-> "update", id |-> h])

RevokeShare(r, h, requester) ==
    IF h \notin listed \/ share[h].owner # requester THEN Done(r)
    ELSE Goto(r, [pc |-> "delete", id |-> h])

RevokeAllShares(w) == DeleteByWorkflowID(w)

CreateInvitation(i, w, inviter, perm) ==
    /\ shareInvitation[i] = Nothing
    /\ shareInvitation' = [shareInvitation EXCEPT
          ![i] = [workflow |-> w, inviter |-> inviter, perm |-> perm,
                  status |-> "pending"]]

AcceptInvitation(r, i, u) ==
    IF shareInvitation[i] = Nothing \/ shareInvitation[i].status # "pending"
    THEN Done(r)
    ELSE Goto(r, [pc |-> "share", id |-> i, user |-> u])

AcceptShareStep(r) ==
    LET q == sharing[r] inv == shareInvitation[sharing[r].id] IN
    /\ At(r, "share")
    /\ ShareWithUser(r, inv.workflow, inv.inviter, q.user, inv.perm,
                     [pc |-> "accepted", id |-> q.id])
    /\ UNCHANGED shareVars

AcceptedStep(r) ==
    /\ At(r, "accepted")
    /\ UpdateInvitation(sharing[r].id, "accepted")
    /\ Done(r)
    /\ UNCHANGED <<share, listed>>

Expires ==
    \/ /\ \E h \in Shares : share[h] # Nothing /\ share[h].kind = "link"
                            /\ share' = [share EXCEPT ![h].expired = TRUE]
       /\ UNCHANGED <<listed, shareInvitation, sharing>>
    \/ /\ \E i \in ShareInvitations :
             shareInvitation[i] # Nothing /\ shareInvitation[i].status = "pending"
             /\ UpdateInvitation(i, "expired")
       /\ UNCHANGED <<share, listed, sharing>>

ShareCall(r) ==
    /\ At(r, "idle")
    /\ \E w \in Workflows, u, v \in Users, p \in Grants :
          \/ ShareWithUser(r, w, u, v, p, Idle) /\ UNCHANGED shareVars
          \/ MakePublic(r, w, u) /\ UNCHANGED shareVars
          \/ MakePrivate(r, w, u) /\ UNCHANGED shareVars
          \/ \E h \in Shares :
                \/ AccessShareLink(r, h) /\ UNCHANGED shareVars
                \/ RevokeShare(r, h, u) /\ UNCHANGED shareVars
                \/ UpdateShare(r, h, u, p) /\ UNCHANGED <<listed, shareInvitation>>
          \/ \E i \in ShareInvitations :
                AcceptInvitation(r, i, u) /\ UNCHANGED shareVars

ShareAtOnce ==
    /\ \E w \in Workflows, u \in Users, p \in Grants :
          \/ ShareWithWorkspace(w, u, w, p) /\ UNCHANGED shareInvitation
          \/ /\ \E n \in MaxUsesOf : CreateShareLink(w, u, p, n)
             /\ UNCHANGED shareInvitation
          \/ RevokeAllShares(w) /\ UNCHANGED <<share, shareInvitation>>
          \/ /\ \E i \in ShareInvitations : CreateInvitation(i, w, u, p)
             /\ UNCHANGED <<share, listed>>
    /\ UNCHANGED sharing

ShareStep(r) ==
    CreateStep(r) \/ UpdateStep(r) \/ DeleteStep(r) \/ CountStep(r)
    \/ AcceptShareStep(r) \/ AcceptedStep(r)

Next ==
    \/ ShareAtOnce \/ Expires
    \/ \E r \in SharingRequests : ShareCall(r) \/ ShareStep(r)

Spec == Init /\ [][Next]_sharingVars

-------------------------------------------------------------------------------
\* A link with a limit is used at most that often, and once more for every
\* call that was let in before the others were counted: AccessShareLink
\* tests the count and raises it in two calls (sharing.go:300-311).
LinkUseIsBounded ==
    \A h \in Shares :
        share[h] # Nothing /\ share[h].max > 0 =>
            share[h].uses <= share[h].max + Cardinality(SharingRequests) - 1
===============================================================================
