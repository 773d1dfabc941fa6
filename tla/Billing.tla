------------------------------- MODULE Billing -------------------------------
(***************************************************************************)
(* Billing of one workspace: the local customer and subscription rows, and *)
(* Stripe, which keeps its own.  The service calls Stripe and writes the   *)
(* row in two steps; Stripe changes by itself as well and reports it by    *)
(* webhook requests.  The handler does not verify who sent one             *)
(* (billing_handler.go:513-515): it takes any event about any subscription *)
(* at any time, Stripe's own, late, twice or out of order, among them.     *)
(***************************************************************************)
CONSTANTS
    Subscriptions,      \* subscriptions that Stripe can open
    Plans,              \* plans on sale
    Requests,           \* requests in flight
    NoSub

VARIABLES
    customer,           \* the workspace has a customer row
    stripe,             \* Stripe: subscription -> [state, ending]
    subscriptions,      \* rows: subscription -> row or NoSub
    claimed,            \* subscriptions that an event called deleted while
                        \* Stripe had them
    billingRequest      \* request -> what it is about to do

billingVars == <<customer, stripe, subscriptions, claimed, billingRequest>>

Blank == [pc |-> "idle"]
NoStripe == [state |-> "none", ending |-> FALSE]

Init ==
    /\ customer = FALSE
    /\ stripe = [s \in Subscriptions |-> NoStripe]
    /\ subscriptions = [s \in Subscriptions |-> NoSub]
    /\ claimed = {}
    /\ billingRequest = [r \in Requests |-> Blank]

At(r, pc) == billingRequest[r].pc = pc
Begin(r, q) == billingRequest' = [billingRequest EXCEPT ![r] = q]
Done(r) == Begin(r, Blank)

-------------------------------------------------------------------------------
\* Model and repositories.
NewSubscription(plan, status) ==
    [status |-> status, ending |-> FALSE, plan |-> plan]
Cancel(row) == [row EXCEPT !.ending = TRUE]

FindCustomer == customer
\* SELECT ... WHERE workspace_id without an order: any row of the workspace.
FindByWorkspaceID == {s \in Subscriptions : subscriptions[s] # NoSub}
FindByStripeID(s) == subscriptions[s]
CreateRow(s, row) == subscriptions' = [subscriptions EXCEPT ![s] = row]
\* Every column of the loaded object is written.
UpdateRow(s, row) == subscriptions' = [subscriptions EXCEPT ![s] = row]

-------------------------------------------------------------------------------
\* Stripe. A live subscription renews, falls behind or ends, a canceled one
\* stays canceled.
Live(s) == stripe[s].state \in {"active", "past_due"}
StripeSet(s, row) == stripe' = [stripe EXCEPT ![s] = row]

StripeMoves ==
    /\ \E s \in Subscriptions :
          /\ Live(s)
          /\ \E state \in {"active", "past_due", "canceled"} :
                StripeSet(s, [stripe[s] EXCEPT !.state = state])
    /\ UNCHANGED <<customer, subscriptions, claimed, billingRequest>>

-------------------------------------------------------------------------------
\* The service.  Saving the customer may fail after Stripe has one.
CreateCustomer ==
    /\ ~FindCustomer
    /\ customer' \in BOOLEAN
    /\ UNCHANGED <<stripe, subscriptions, claimed, billingRequest>>

CreateSubscription(r, plan) ==
    /\ At(r, "idle") /\ FindCustomer
    /\ \E s \in Subscriptions :
          /\ stripe[s].state = "none"
          /\ StripeSet(s, [state |-> "active", ending |-> FALSE])
          /\ Begin(r, [pc |-> "create", sub |-> s,
                       row |-> NewSubscription(plan, "active")])
    /\ UNCHANGED <<customer, subscriptions, claimed>>

\* The insert may fail: Stripe then charges what no row knows.
CreateSubscriptionRow(r) ==
    LET q == billingRequest[r] IN
    /\ At(r, "create")
    /\ CreateRow(q.sub, q.row) \/ UNCHANGED subscriptions
    /\ Done(r)
    /\ UNCHANGED <<customer, stripe, claimed>>

\* Load, call Stripe (an error ends the request), then write the loaded row.
CancelSubscription(r, immediate) ==
    /\ At(r, "idle")
    /\ \E s \in FindByWorkspaceID :
          Begin(r, [pc |-> "cancel", sub |-> s, row |-> subscriptions[s],
                    immediate |-> immediate])
    /\ UNCHANGED <<customer, stripe, subscriptions, claimed>>

CanceledRow_Always(row, immediate) == [Cancel(row) EXCEPT !.status = "canceled"]

CanceledRow(row, immediate) ==
    LET c == Cancel(row) IN
    IF immediate THEN [c EXCEPT !.status = "canceled"] ELSE c

CancelInStripe(r) ==
    LET q == billingRequest[r] IN
    /\ At(r, "cancel")
    /\ \/ /\ Live(q.sub)
          /\ IF q.immediate
             THEN StripeSet(q.sub, [stripe[q.sub] EXCEPT !.state = "canceled"])
             ELSE StripeSet(q.sub, [stripe[q.sub] EXCEPT !.ending = TRUE])
          /\ Begin(r, [pc |-> "update", sub |-> q.sub,
                       row |-> CanceledRow(q.row, q.immediate)])
       \/ Done(r) /\ UNCHANGED stripe
    /\ UNCHANGED <<customer, subscriptions, claimed>>

ChangePlan(r, plan) ==
    /\ At(r, "idle")
    /\ \E s \in FindByWorkspaceID :
          Begin(r, [pc |-> "change", sub |-> s,
                    row |-> [subscriptions[s] EXCEPT !.plan = plan]])
    /\ UNCHANGED <<customer, stripe, subscriptions, claimed>>

ChangeInStripe(r) ==
    LET q == billingRequest[r] IN
    /\ At(r, "change")
    /\ \/ /\ Live(q.sub)
          /\ StripeSet(q.sub, stripe[q.sub])
          /\ Begin(r, [q EXCEPT !.pc = "update"])
       \/ Done(r) /\ UNCHANGED stripe
    /\ UNCHANGED <<customer, subscriptions, claimed>>

\* The write may fail and the request with it.
WriteBack(r) ==
    /\ At(r, "update")
    /\ UpdateRow(billingRequest[r].sub, billingRequest[r].row) \/ UNCHANGED subscriptions
    /\ Done(r)
    /\ UNCHANGED <<customer, stripe, claimed>>

\* An update event: load the row, ask Stripe for its state by now (an error
\* ends the request), write.
handleSubscriptionUpdate(r, s) ==
    LET row == FindByStripeID(s) IN
    /\ At(r, "idle")
    /\ row # NoSub
    /\ Begin(r, [pc |-> "ask", sub |-> s, row |-> row])
    /\ UNCHANGED <<customer, stripe, subscriptions, claimed>>

GetSubscription(r) ==
    LET q == billingRequest[r] IN
    /\ At(r, "ask")
    /\ \/ Begin(r, [q EXCEPT !.pc = "update",
                             !.row = [@ EXCEPT !.status = stripe[q.sub].state,
                                               !.ending = stripe[q.sub].ending]])
       \/ Done(r)
    /\ UNCHANGED <<customer, stripe, subscriptions, claimed>>

\* A delete event: load the row and write it as canceled; Stripe is not asked.
handleSubscriptionDeleted(r, s) ==
    LET row == FindByStripeID(s) IN
    /\ At(r, "idle")
    /\ row # NoSub
    /\ Begin(r, [pc |-> "update", sub |-> s,
                 row |-> [row EXCEPT !.status = "canceled"]])
    /\ claimed' = IF Live(s) THEN claimed \union {s} ELSE claimed
    /\ UNCHANGED <<customer, stripe, subscriptions>>

HandleWebhook(r, s) ==
    handleSubscriptionUpdate(r, s) \/ handleSubscriptionDeleted(r, s)

-------------------------------------------------------------------------------
\* The handlers.
createCustomer == CreateCustomer
createSubscription(r) == \E plan \in Plans : CreateSubscription(r, plan)
cancelSubscription(r) == \E immediate \in BOOLEAN : CancelSubscription(r, immediate)
changePlan(r) == \E plan \in Plans : ChangePlan(r, plan)
handleWebhook(r) == \E s \in Subscriptions : HandleWebhook(r, s)

Next ==
    \/ createCustomer \/ StripeMoves
    \/ \E r \in Requests :
          \/ createSubscription(r) \/ cancelSubscription(r) \/ changePlan(r)
          \/ handleWebhook(r)
          \/ CreateSubscriptionRow(r) \/ CancelInStripe(r) \/ ChangeInStripe(r)
          \/ GetSubscription(r) \/ WriteBack(r)

Spec == Init /\ [][Next]_billingVars

-------------------------------------------------------------------------------
\* A workspace is shown as canceled while Stripe still charges it only if an
\* event that nobody verified said so, and no row exists for a subscription
\* Stripe does not have: apart from that event Stripe is always asked before
\* the row is written, and what late, repeated or reordered events and stale
\* writers put into a row was Stripe's state once
\* (billing_service.go:262-281,461-498, billing_handler.go:513-515).  The
\* converse does not hold: a stale writer may put "active" back.
CutOffExplained ==
    \A s \in Subscriptions :
        subscriptions[s] # NoSub =>
            /\ stripe[s].state # "none"
            /\ subscriptions[s].status = "canceled" =>
                  stripe[s].state = "canceled" \/ s \in claimed
\* Why: a row in a table or in the hands of a request was true of Stripe once
\* or claimed by an event, and Stripe does not take a cancellation back.
WasTrue(s, row) ==
    /\ s \in Subscriptions
    /\ row = [status |-> row.status, ending |-> row.ending, plan |-> row.plan]
    /\ stripe[s].state # "none"
    /\ row.status = "canceled" => stripe[s].state = "canceled" \/ s \in claimed
Carried(r) ==
    LET q == billingRequest[r] IN
    /\ q.pc \in {"create", "cancel", "change", "update", "ask"} => WasTrue(q.sub, q.row)
    /\ q.pc \in {"change", "ask"} => q = [pc |-> q.pc, sub |-> q.sub, row |-> q.row]
BillInv ==
    /\ DOMAIN stripe = Subscriptions /\ DOMAIN subscriptions = Subscriptions
    /\ DOMAIN billingRequest = Requests
    /\ \A s \in Subscriptions :
         /\ stripe[s] = [state |-> stripe[s].state, ending |-> stripe[s].ending]
         /\ subscriptions[s] # NoSub => WasTrue(s, subscriptions[s])
         /\ stripe[s].state \in {"none", "active", "past_due", "canceled"}
    /\ \A r \in Requests : Carried(r)
===============================================================================
