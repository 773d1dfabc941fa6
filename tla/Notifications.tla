--------------------------- MODULE Notifications ----------------------------
(***************************************************************************)
(* What users are told: the notification service with its channels, and    *)
(* the email service with its queue. The two share no state; each has a    *)
(* specification of its own.                                               *)
(***************************************************************************)
EXTENDS Naturals, Sequences, FiniteSets

(***************************************************************************)
(* The notification service. CreateNotification stores a row and starts a  *)
(* goroutine that sends through one channel after the other, a goroutine   *)
(* of its own for each retry; all of them share the notification in memory *)
(* and write its status to the row.                                        *)
(***************************************************************************)

CONSTANTS
    Notes,                  \* ids of notifications
    InApp, Others,          \* the in-app channel and the other channels
    Registered,             \* those of Others with a sender
    Senders,                \* users
    ChannelBound,           \* longest list of channels in a request
    NoNote, FreshNote

VARIABLES
    noteRows,               \* id -> row or NoNote
    noteObjects,            \* id -> the notification in memory or NoNote
    sending,                \* id -> where the sending goroutine is
    retries,                \* <<id, position>> -> where its retry is
    overtaken               \* history: ids whose row does not have the last
                            \* status: an outdated one was written, or none

noteVars == <<noteRows, noteObjects, sending, retries, overtaken>>

Channels == {InApp} \union Others
MaxRetries == 3
Positions == 1..ChannelBound
Lists == UNION {[1..k -> Channels] : k \in 0..ChannelBound}
Idle == [pc |-> "idle"]

\* RegisterChannel is called for the in-app channel only, by the constructor.
NewNotificationService == {InApp} \union Registered

NoteInit ==
    /\ noteRows = [n \in Notes |-> NoNote]
    /\ noteObjects = [n \in Notes |-> NoNote]
    /\ sending = [n \in Notes |-> Idle]
    /\ retries = [k \in Notes \X Positions |-> Idle]
    /\ overtaken = {}

-------------------------------------------------------------------------------
\* The aggregate.  Its delivery map has one entry per distinct channel.
NewNotification(u, list) ==
    LET cs == IF list = <<>> THEN <<InApp>> ELSE list IN
    [user |-> u, channels |-> cs, status |-> "pending",
     delivery |-> [c \in {cs[i] : i \in DOMAIN cs} |-> [status |-> "pending", tries |-> 0]]]

AllIn(delivery, statuses) == \A c \in DOMAIN delivery : delivery[c].status \in statuses
Overall(o, reached, status) == IF reached THEN [o EXCEPT !.status = status] ELSE o
SetDelivery(o, c, status) == [o EXCEPT !.delivery[c].status = status]

MarkChannelSent_All(o, c) ==
    LET p == SetDelivery(o, c, "sent") IN
    Overall(p, AllIn(p.delivery, {"sent"}), "sent")
MarkChannelSent(o, c) ==
    LET p == SetDelivery(o, c, "sent") IN
    Overall(p, AllIn(p.delivery, {"sent", "delivered", "failed"}), "sent")
MarkChannelDelivered(o, c) ==
    LET p == SetDelivery(o, c, "delivered") IN
    Overall(p, AllIn(p.delivery, {"delivered", "failed"}), "delivered")
MarkChannelFailed(o, c) ==
    LET p == [SetDelivery(o, c, "failed") EXCEPT !.delivery[c].tries = @ + 1] IN
    Overall(p, AllIn(p.delivery, {"failed"}), "failed")
MarkAsRead(o) == [o EXCEPT !.status = "read"]
ShouldRetry(o, c) ==
    o.delivery[c].status = "failed" /\ o.delivery[c].tries < MaxRetries

-------------------------------------------------------------------------------
\* The repository.  A row keeps neither the delivery map nor its changes, and
\* what is read back has an id of its own.
Save(n, o) ==
    noteRows' = [noteRows EXCEPT
        ![n] = [user |-> o.user, channels |-> o.channels, status |-> o.status]]
Update(n, status) ==
    noteRows' = IF n \in Notes THEN [noteRows EXCEPT ![n].status = status] ELSE noteRows
scanNotification(n) ==
    LET o == NewNotification(noteRows[n].user, noteRows[n].channels) IN
    [id |-> FreshNote, note |-> IF noteRows[n].status = "read" THEN MarkAsRead(o) ELSE o]
FindByID(n) == noteRows[n] # NoNote

-------------------------------------------------------------------------------
CreateNotification(n, u, list) ==
    /\ noteRows[n] = NoNote
    /\ Save(n, NewNotification(u, list))
    /\ noteObjects' = [noteObjects EXCEPT ![n] = NewNotification(u, list)]
    /\ sending' = [sending EXCEPT ![n] = [pc |-> "send", at |-> 1]]
    /\ UNCHANGED <<retries, overtaken>>

\* The in-app sender delivers; the others answer or fail.
InAppSend(o) == MarkChannelDelivered(o, InApp)
Sent(o, c) == MarkChannelSent(IF c = InApp THEN InAppSend(o) ELSE o, c)
Advance(n, k) ==
    sending' = [sending EXCEPT ![n] =
        IF k < Len(noteObjects[n].channels) THEN [pc |-> "send", at |-> k + 1]
        ELSE [pc |-> "read"]]
Outcome(n, o) == noteObjects' = [noteObjects EXCEPT ![n] = o]

sendNotification(n) ==
    LET k == sending[n].at  o == noteObjects[n]  c == o.channels[k] IN
    /\ sending[n].pc = "send"
    /\ Advance(n, k)
    /\ \/ c \in NewNotificationService /\ Outcome(n, Sent(o, c)) /\ UNCHANGED retries
       \/ c \notin NewNotificationService
          /\ Outcome(n, MarkChannelFailed(o, c)) /\ UNCHANGED retries
       \/ c \in Registered
          /\ LET p == MarkChannelFailed(o, c) IN
             /\ Outcome(n, p)
             /\ retries' = IF ShouldRetry(p, c)
                           THEN [retries EXCEPT ![<<n, k>>] = [pc |-> "wait"]] ELSE retries
    /\ UNCHANGED <<noteRows, overtaken>>

\* The status is read from memory when Update is called, and written later. The
\* database may refuse it, and nobody looks at the error.
Writes(n, status) ==
    \/ /\ Update(n, status)
       /\ overtaken' = IF status # noteObjects[n].status THEN overtaken \union {n}
                       ELSE overtaken \ {n}
    \/ UNCHANGED noteRows /\ overtaken' = overtaken \union {n}
UpdateCalled(n) ==
    /\ sending[n].pc = "read"
    /\ sending' = [sending EXCEPT ![n] = [pc |-> "write", status |-> noteObjects[n].status]]
    /\ UNCHANGED <<noteRows, noteObjects, retries, overtaken>>
UpdateWritten(n) ==
    /\ sending[n].pc = "write"
    /\ Writes(n, sending[n].status)
    /\ sending' = [sending EXCEPT ![n] = [pc |-> "done"]]
    /\ UNCHANGED <<noteObjects, retries>>

retryNotification(n, k) ==
    LET o == noteObjects[n]  c == o.channels[k] IN
    /\ retries[<<n, k>>].pc = "wait"
    /\ \E p \in {Sent(o, c), MarkChannelFailed(o, c)} :
          /\ Outcome(n, p)
          /\ retries' = [retries EXCEPT ![<<n, k>>] = [pc |-> "write", status |-> p.status]]
    /\ UNCHANGED <<noteRows, sending, overtaken>>
RetryWritten(n, k) ==
    /\ retries[<<n, k>>].pc = "write"
    /\ Writes(n, retries[<<n, k>>].status)
    /\ retries' = [retries EXCEPT ![<<n, k>>] = [pc |-> "done"]]
    /\ UNCHANGED <<noteObjects, sending>>

\* A restart loses the notifications in memory: nobody sends on what is stored.
Forgotten(call) ==
    [pc |-> CASE call.pc = "wait" -> "done"
              [] call.pc \in {"send", "read", "write"} -> "lost"
              [] OTHER -> call.pc]
NoteRestart ==
    /\ \E n \in Notes : sending[n].pc \in {"send", "read", "write"}
                       \/ \E k \in Positions : retries[<<n, k>>].pc \in {"wait", "write"}
    /\ sending' = [n \in Notes |-> Forgotten(sending[n])]
    /\ retries' = [k \in Notes \X Positions |-> Forgotten(retries[k])]
    /\ UNCHANGED <<noteRows, noteObjects, overtaken>>

MarkAsReadService(n, u) ==
    LET found == scanNotification(n) IN
    /\ FindByID(n) /\ found.note.user = u /\ found.note.status # "read"
    /\ Update(found.id, MarkAsRead(found.note).status)

CreateNotificationHandler ==
    \E n \in Notes, u \in Senders, list \in Lists : CreateNotification(n, u, list)
MarkAsReadHandler ==
    /\ \E n \in Notes, u \in Senders : MarkAsReadService(n, u)
    /\ UNCHANGED <<noteObjects, sending, retries, overtaken>>

NoteNext ==
    \/ CreateNotificationHandler \/ MarkAsReadHandler \/ NoteRestart
    \/ \E n \in Notes :
          \/ sendNotification(n) \/ UpdateCalled(n) \/ UpdateWritten(n)
          \/ \E k \in Positions : retryNotification(n, k) \/ RetryWritten(n, k)

NoteSpec == NoteInit /\ [][NoteNext]_noteVars

-------------------------------------------------------------------------------
Settled(n) ==
    /\ sending[n].pc \in {"done", "lost"}
    /\ \A k \in Positions : retries[<<n, k>>].pc \in {"idle", "done", "lost"}
CutOff(n) ==
    sending[n].pc = "lost" \/ \E k \in Positions : retries[<<n, k>>].pc = "lost"

\* Once every goroutine of a notification is over, its row still says pending
\* only if its last channel failed after another had succeeded, which no
\* marker turns into a status (notification.go:215-294), if a restart cut one
\* of them off before it wrote, or if the last status did not reach the row:
\* an outdated one was written after it, or the write failed unnoticed
\* (notification_service.go:180, 198).
PendingExplained ==
    \A n \in Notes :
        Settled(n) /\ noteRows[n].status = "pending" /\ n \notin overtaken =>
            LET d == noteObjects[n].delivery  cs == noteObjects[n].channels IN
            \/ CutOff(n)
            \/ d[cs[Len(cs)]].status = "failed" /\ ~AllIn(d, {"failed"})

\* Why: what has been tried is no longer pending, and every goroutine that ends
\* has written what it knew; a retry that waits has nothing to write yet.
NoteStatuses == {"pending", "sent", "delivered", "failed"}
IsNote(o) ==
    LET cs == o.channels IN
    /\ cs \in Seq(Channels) /\ cs # <<>>
    /\ o = [user |-> o.user, channels |-> cs, status |-> o.status, delivery |-> o.delivery]
    /\ o.status \in NoteStatuses /\ o.user \in Senders
    /\ o.delivery \in [{cs[i] : i \in DOMAIN cs} -> [status : NoteStatuses, tries : Nat]]
Tried(o, k) ==
    \A i \in DOMAIN o.channels : i < k => o.delivery[o.channels[i]].status # "pending"
LastFailed(o) ==
    /\ o.delivery[o.channels[Len(o.channels)]].status = "failed"
    /\ ~AllIn(o.delivery, {"failed"})
StaysPending(o) == o.status = "pending" => LastFailed(o)
Quiet(n) ==
    /\ sending[n].pc = "done"
    /\ \A k \in Positions : retries[<<n, k>>].pc \in {"idle", "wait", "done"}
Stored(n) ==
    LET o == noteObjects[n] IN
    /\ IsNote(o)
    /\ noteRows[n] = [user |-> o.user, channels |-> o.channels, status |-> noteRows[n].status]
    /\ noteRows[n].status \in NoteStatuses
    /\ sending[n].pc = "send" => sending[n].at \in DOMAIN o.channels /\ Tried(o, sending[n].at)
    /\ sending[n].pc \in {"read", "write", "done"} => Tried(o, Len(o.channels) + 1) /\ StaysPending(o)
    /\ sending[n].pc = "write" => sending[n].status \in NoteStatuses
    /\ Quiet(n) /\ n \notin overtaken => noteRows[n].status = o.status
Retried(n, k) ==
    /\ retries[<<n, k>>].pc \in {"idle", "wait", "write", "done", "lost"}
    /\ retries[<<n, k>>].pc # "idle" => noteRows[n] # NoNote /\ k \in DOMAIN noteObjects[n].channels
    /\ retries[<<n, k>>].pc = "write" => retries[<<n, k>>].status \in NoteStatuses
NoteTyped ==
    /\ DOMAIN noteRows = Notes /\ DOMAIN noteObjects = Notes /\ DOMAIN sending = Notes
    /\ DOMAIN retries = Notes \X Positions
NoteFollowed(n) ==
    /\ sending[n].pc \in {"idle", "send", "read", "write", "done", "lost"}
    /\ sending[n].pc # "idle" => noteRows[n] # NoNote
    /\ noteRows[n] # NoNote => Stored(n)
    /\ \A k \in Positions : Retried(n, k)
NoteInv == NoteTyped /\ \A n \in Notes : NoteFollowed(n)
-----------------------------------------------------------------------------
(***************************************************************************)
(* The email service. An email is stored as pending, handed to the         *)
(* provider and marked; ProcessPendingEmails sends again what is still     *)
(* pending. The write that records an outcome may fail, and nobody looks.  *)
(***************************************************************************)

CONSTANTS
    EmailIds,               \* emails
    EmailMaxRetries,        \* config.MaxRetries
    Batches,                \* calls of ProcessPendingEmails at a time
    DeliveryBound,          \* bounds how often one email goes out
    NoEmail

VARIABLES
    emails,                 \* id -> row or NoEmail
    mail,                   \* id -> where queueAndSend is, with its email
    batch,                  \* ProcessPendingEmails: b -> id -> listed email or NoEmail
    posting,                \* b -> the email it has just sent, or NoEmail
    goneOut,                \* history: id -> times the provider accepted it
    unrecorded              \* history: ids with an outcome that was lost, or that
                            \* were listed while somebody else had them

emailVars == <<emails, mail, batch, posting, goneOut, unrecorded>>

\* Only four of the ten types have a template.
DefaultTemplates == {"password_reset", "email_verification", "workspace_invitation", "welcome"}
DirectTypes == {"payment_success", "payment_failed", "trial_ending",
                "execution_alert", "usage_limit_warning"}

NewEmail == [status |-> "pending", retries |-> 0]
MarkSent(e) == [e EXCEPT !.status = "sent"]
MarkFailed(e) == [e EXCEPT !.status = "failed", !.retries = @ + 1]

IdleMail == [pc |-> "idle"]
EmptyBatch == [i \in EmailIds |-> NoEmail]
NewEmailService ==
    /\ emails = [i \in EmailIds |-> NoEmail]
    /\ mail = [i \in EmailIds |-> IdleMail]
    /\ batch = [b \in Batches |-> EmptyBatch] /\ posting = [b \in Batches |-> NoEmail]
MailInit ==
    /\ NewEmailService
    /\ goneOut = [i \in EmailIds |-> 0] /\ unrecorded = {}

-------------------------------------------------------------------------------
\* The repository of emails, of which the source has the interface only.
Create(i, e) == emails' = [emails EXCEPT ![i] = e]
UpdateEmail(i, e) == emails' = [emails EXCEPT ![i] = e]
ListPending == {i \in EmailIds : emails[i] # NoEmail /\ emails[i].status = "pending"}

\* The provider accepts the email or refuses it.
Outcomes(e) == {MarkSent(e), MarkFailed(e)}
ProviderSend(i, e, after) ==
    /\ after \in Outcomes(e)
    /\ goneOut[i] < DeliveryBound
    /\ goneOut' = [goneOut EXCEPT ![i] = IF after.status = "sent" THEN @ + 1 ELSE @]

queueAndSend(i) ==
    /\ emails[i] = NoEmail /\ Create(i, NewEmail)
    /\ mail' = [mail EXCEPT ![i] = [pc |-> "send", email |-> NewEmail]]
    /\ UNCHANGED <<batch, posting, goneOut, unrecorded>>
ImmediateSend(i) ==
    /\ mail[i].pc = "send"
    /\ \E after \in Outcomes(mail[i].email) :
          /\ ProviderSend(i, mail[i].email, after)
          /\ mail' = [mail EXCEPT ![i] = [pc |-> "update", email |-> after]]
    /\ UNCHANGED <<emails, batch, posting, unrecorded>>
\* An update that fails is not noticed.
ImmediateUpdate(i) ==
    /\ mail[i].pc = "update"
    /\ mail' = [mail EXCEPT ![i] = [pc |-> "done"]]
    /\ \/ UpdateEmail(i, mail[i].email) /\ UNCHANGED unrecorded
       \/ UNCHANGED emails /\ unrecorded' = unrecorded \union {i}
    /\ UNCHANGED <<batch, posting, goneOut>>

sendTemplateEmail(i, type) == type \in DefaultTemplates /\ queueAndSend(i)
SendTemplated(i) == \E type \in DefaultTemplates : sendTemplateEmail(i, type)
SendDirect(i) == \E type \in DirectTypes : queueAndSend(i)

-------------------------------------------------------------------------------
\* A batch works on the copies it listed. Nothing keeps two of them from
\* listing the same emails, nor one from listing what is being sent.
Holds(b, i) == batch[b][i] # NoEmail
Posts(b, i) == posting[b] # NoEmail /\ posting[b].id = i
Taken(i) == mail[i].pc # "done" \/ \E b \in Batches : Holds(b, i) \/ Posts(b, i)
ProcessPendingEmails(b) ==
    /\ batch[b] = EmptyBatch /\ posting[b] = NoEmail /\ ListPending # {}
    /\ batch' = [batch EXCEPT
          ![b] = [i \in EmailIds |-> IF i \in ListPending THEN emails[i] ELSE NoEmail]]
    /\ unrecorded' = unrecorded \union {i \in ListPending : Taken(i)}
    /\ UNCHANGED <<emails, mail, posting, goneOut>>
BatchOutcome_Unmarked(e, after) == e
BatchOutcome(e, after) == after
BatchSend(b, i) ==
    LET e == batch[b][i] IN
    /\ posting[b] = NoEmail /\ e # NoEmail
    /\ batch' = [batch EXCEPT ![b][i] = NoEmail]
    /\ IF e.retries >= EmailMaxRetries
       THEN UNCHANGED <<posting, goneOut>>
       ELSE \E after \in Outcomes(e) :
               /\ ProviderSend(i, e, after)
               /\ posting' = [posting EXCEPT ![b] = [id |-> i, email |-> BatchOutcome(e, after)]]
    /\ UNCHANGED <<emails, mail, unrecorded>>
BatchUpdate(b) ==
    LET p == posting[b] IN
    /\ p # NoEmail
    /\ \/ UpdateEmail(p.id, p.email) /\ UNCHANGED unrecorded
       \/ UNCHANGED emails /\ unrecorded' = unrecorded \union {p.id}
    /\ posting' = [posting EXCEPT ![b] = NoEmail]
    /\ UNCHANGED <<mail, batch, goneOut>>

\* A restart forgets what was being sent.
Restart ==
    /\ \/ \E b \in Batches : posting[b] # NoEmail \/ batch[b] # EmptyBatch
       \/ \E i \in EmailIds : mail[i].pc \in {"send", "update"}
    /\ mail' = [i \in EmailIds |-> IF mail[i].pc = "idle" THEN IdleMail ELSE [pc |-> "done"]]
    /\ batch' = [b \in Batches |-> EmptyBatch] /\ posting' = [b \in Batches |-> NoEmail]
    /\ unrecorded' = unrecorded \union {i \in EmailIds :
          mail[i].pc = "update" \/ \E b \in Batches : Posts(b, i)}
    /\ UNCHANGED <<emails, goneOut>>

MailNext ==
    \/ \E i \in EmailIds :
          \/ SendTemplated(i) \/ SendDirect(i)
          \/ ImmediateSend(i) \/ ImmediateUpdate(i)
          \/ \E b \in Batches : BatchSend(b, i)
    \/ \E b \in Batches : ProcessPendingEmails(b) \/ BatchUpdate(b)
    \/ Restart

MailSpec == MailInit /\ [][MailNext]_emailVars

-------------------------------------------------------------------------------
\* An email goes out twice only if a batch listed it while its first sending
\* was not over or another batch had it (email_service.go:281-304, 307-329), or
\* an outcome was lost in a failed update or a restart.
SentOnce == \A i \in EmailIds : goneOut[i] > 1 => i \in unrecorded

\* Why: an email whose sending was always recorded is in one pair of hands, and
\* once it has gone out, those hands or the row know.
MailRecords == [status : {"pending", "sent", "failed"}, retries : Nat]
Tracked(i) ==
    /\ mail[i].pc \in {"idle", "send", "update", "done"}
    /\ mail[i].pc = "idle" <=> emails[i] = NoEmail
    /\ mail[i].pc \in {"send", "update"} => mail[i].email \in MailRecords
    /\ \A b \in Batches : Holds(b, i) \/ Posts(b, i) => emails[i] # NoEmail
InBatch(b, i) ==
    /\ mail[i].pc = "done"
    /\ \A c \in Batches : Holds(c, i) \/ Posts(c, i) => c = b
    /\ Holds(b, i) => goneOut[i] = 0
    /\ Posts(b, i) => ~Holds(b, i) /\ (goneOut[i] = 1 => posting[b].email.status = "sent")
Recorded(i) ==
    /\ goneOut[i] <= 1
    /\ \A b \in Batches : Holds(b, i) \/ Posts(b, i) => InBatch(b, i)
    /\ mail[i].pc \in {"idle", "send"} => goneOut[i] = 0
    /\ mail[i].pc = "update" => (goneOut[i] = 1 => mail[i].email.status = "sent")
    /\ mail[i].pc = "done" /\ emails[i].status = "pending" /\ (\A b \in Batches : ~Posts(b, i))
          => goneOut[i] = 0
MailTyped ==
    /\ DOMAIN mail = EmailIds
    /\ emails \in [EmailIds -> MailRecords \union {NoEmail}]
    /\ batch \in [Batches -> [EmailIds -> MailRecords \union {NoEmail}]]
    /\ goneOut \in [EmailIds -> Nat]
    /\ posting \in [Batches -> [id : EmailIds, email : MailRecords] \union {NoEmail}]
MailInv == MailTyped /\ \A i \in EmailIds : Tracked(i) /\ (i \notin unrecorded => Recorded(i))
=============================================================================
