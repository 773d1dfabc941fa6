----------------------------- MODULE MCServices -----------------------------
(***************************************************************************)
(* The services around the engine, side by side: each behaviour runs one   *)
(* of them (focus), whose variables take the slots s1, s2, ... in order.   *)
(* Requests of one service interleave statement by statement; services     *)
(* meet only through what the others' modules take as input.               *)
(***************************************************************************)
EXTENDS Naturals, Sequences, FiniteSets, TLC

CONSTANTS
  None, BlankData, Fresh, Gone,
  Calls,        \* the requests in flight of the service that runs
  \* of the API server
  Emails, SessionTokens, FlowIds, Drawings, RunIds, ScheduleIds, WebhookIds,
  NotificationIds, OrgSlugs, RowBound,
  \* of accounts, workspaces, subscriptions and organizations
  UserIds, Passwords, RefreshTokens, ApiKeys, MaxLoginAttempts,
  RequireEmailVerify, WrongBound,
  Slugs, People, Invitations, MaxMembers,
  SubscriptionIds, Plans,
  AccountIds, OrgIds, Secrets,
  \* of the vault and of the tokens
  CredIds, VarIds, CredValues, Fields, SensitiveFields, Keys,
  Providers, Integrations, StateIds,
  \* of notifications and emails
  Notes, InApp, Others, Registered, Senders, ChannelBound,
  EmailIds, EmailMaxRetries, DeliveryBound,
  \* of migrations, starts and stops, and node definitions
  UpFiles, DownChoices, SeedFiles,
  RequestBound, TaskBound,
  NodeIds, NodeNames, SystemNodes, BootBound,
  \* of the execution stores
  ExecIds, Durations, WriteBound

VARIABLES focus,
          s1, s2, s3, s4, s5, s6, s7, s8, s9

vars == <<focus,
          s1, s2, s3, s4, s5, s6, s7, s8, s9>>

(* The slots a component leaves free hold nothing.                         *)
Free9 == s9 = None
Free8 == s8 = None /\ Free9
Free7 == s7 = None /\ Free8
Free6 == s6 = None /\ Free7
Free5 == s5 = None /\ Free6
Keep5 ==
    UNCHANGED <<focus, s5, s6, s7, s8, s9>>
Keep6 ==
    UNCHANGED <<focus, s6, s7, s8, s9>>
Keep7 ==
    UNCHANGED <<focus, s7, s8, s9>>
Keep9 ==
    UNCHANGED <<focus, s9>>
Keep10 == UNCHANGED focus

(* The API server, between requests that overlap.                          *)
ApiServer == INSTANCE Api WITH
    Tokens <- SessionTokens, ApiCalls <- Calls, NoRow <- None,
    apiUsers <- s1, apiSessions <- s2, apiWorkflows <- s3,
    apiExecutions <- s4, apiTables <- s5, apiCall <- s6, apiRunning <- s7,
    torn <- s8

(* Accounts that log in, refresh, reset and verify.                        *)
AuthService == INSTANCE Auth WITH
    Requests <- Calls, NoUser <- None, users <- s1, refreshTokens <- s2,
    resetTokens <- s3, verifyTokens <- s4, apiKeys <- s5, access <- s6,
    request <- s7, wrongTries <- s8, mayHold <- s9

(* Workspaces, their members and invitations.                              *)
Workspaces == INSTANCE Workspace WITH
    Requests <- Calls, NoOne <- None, workspaces <- s1, members <- s2,
    invitations <- s3, workspaceRequest <- s4

(* Subscriptions, and the unverified events about them.                    *)
Subscriptions == INSTANCE Billing WITH
    Subscriptions <- SubscriptionIds, Requests <- Calls, NoSub <- None,
    customer <- s1, stripe <- s2, subscriptions <- s3, claimed <- s4,
    billingRequest <- s5

(* Users and organizations.                                                *)
Accounts == INSTANCE Users WITH
    Accounts <- AccountIds, UserCalls <- Calls, NoRow <- None,
    userTable <- s1, orgTable <- s2, orgMembers <- s3, tokens <- s4,
    userCall <- s5, disturbed <- s6

(* The credential service, and the encryption of one credential whose key  *)
(* changes with a restart.                                                 *)
Vault == INSTANCE Credentials WITH
    CredCalls <- Calls, Blank <- BlankData, NoCred <- None, NoKey <- None,
    credentials <- s1, variables <- s2, credCall <- s3, written <- s4,
    crossed <- s5, credData <- s1, opening <- s2, cryptKey <- s3,
    original <- s4, failed <- s5

(* Authorization states and the tokens they are exchanged for.             *)
Tokens == INSTANCE OAuth WITH
    OAuthCalls <- Calls, NoIntegration <- None, NoState <- None,
    NoToken <- None, withStores <- s1, configured <- s2, states <- s3,
    tokens <- s4, oauthCall <- s5, exchanges <- s6, shared <- s7,
    withdrawn <- s8, late <- s9

(* Notifications over their channels, and the queue of emails.             *)
Inbox == INSTANCE Notifications WITH
    NoNote <- None, FreshNote <- Fresh, NoEmail <- None, Batches <- Calls,
    noteRows <- s1, noteObjects <- s2, sending <- s3, retries <- s4, overtaken <- s5,
    emails <- s1, mail <- s2, batch <- s3, posting <- s4, goneOut <- s5,
    unrecorded <- s6

(* The schema and the seeds.                                               *)
Schema == INSTANCE Migrations WITH
    MigrationCalls <- Calls, downFiles <- s1, schema <- s2, history <- s3,
    seeded <- s4, migrationCall <- s5, disturbed <- s6

(* Requests and background tasks while a service stops.                    *)
Servers == INSTANCE ServiceLifecycle WITH
    service <- s1, phase <- s2, steps <- s3, opened <- s4, listener <- s5,
    requests <- s6, tasks <- s7, overran <- s8

(* Node definitions, the default ones and those of clients.                *)
Definitions == INSTANCE NodeService WITH
    NodeCalls <- Calls, FreshId <- Fresh, NoNode <- None, nodeRows <- s1,
    nodeCache <- s2, nodeCall <- s3, boot <- s4, unchecked <- s5

(* Workers that share the execution stores.                                *)
Stores == INSTANCE ExecutionStore WITH
    Workers <- Calls, NoRow <- None, heap <- s1, mem <- s2, pg <- s3,
    hand <- s4, writes <- s5, overlap <- s6

(* None stands for no record, and a fresh id for no row.                   *)
ASSUME NoteAssumption ==
    /\ None \notin [user : Senders, channels : Seq(Inbox!Channels), status : Inbox!NoteStatuses]
    /\ Fresh \notin Notes
    /\ ChannelBound \in Nat
ASSUME NodeAssumption ==
    /\ SystemNodes \in Seq(Definitions!SystemNames) /\ Fresh \notin NodeIds
    /\ None \notin [name : [base : Definitions!SystemNames, copies : {0}],
                    ports : {"given"}, system : {FALSE}] \union {Gone}
ASSUME AccountAssumption == None \notin AuthService!Rows /\ MaxLoginAttempts \in Nat
ASSUME KeyAssumption == None \notin Keys /\ SensitiveFields \subseteq Fields
ASSUME UserAssumption == None \notin AccountIds \union OrgIds
\* A version is the number a file name starts with, and 0 says there is none.
ASSUME MigrationAssumption == UpFiles \subseteq Nat \ {0} /\ IsFiniteSet(UpFiles)
ASSUME StoreAssumption == None \notin ExecIds \cup Stores!Records
ASSUME EmailAssumption ==
    /\ None \notin Inbox!MailRecords
    /\ None \notin [id : EmailIds, email : Inbox!MailRecords]

-----------------------------------------------------------------------------
Init ==
    \/ focus = "api" /\ ApiServer!Init /\ Free9
    \/ focus = "auth" /\ AuthService!Init
    \/ focus = "workspace" /\ Workspaces!Init /\ Free5
    \/ focus = "billing" /\ Subscriptions!Init /\ Free6
    \/ focus = "users" /\ Accounts!Init /\ Free7
    \/ focus = "credentials" /\ Vault!VaultInit /\ Free6
    \/ focus = "encryption" /\ Vault!CryptInit /\ Free6
    \/ focus = "oauth" /\ Tokens!Init
    \/ focus = "notifications" /\ Inbox!NoteInit /\ Free6
    \/ focus = "emails" /\ Inbox!MailInit /\ Free7
    \/ focus = "migrations" /\ Schema!Init /\ Free7
    \/ focus = "lifecycle" /\ Servers!Init /\ Free9
    \/ focus = "nodes" /\ Definitions!Init /\ Free6
    \/ focus = "store" /\ Stores!Init /\ Free7

Next ==
    \/ focus = "api" /\ ApiServer!Next /\ Keep9
    \/ focus = "auth" /\ AuthService!Next /\ Keep10
    \/ focus = "workspace" /\ Workspaces!Next /\ Keep5
    \/ focus = "billing" /\ Subscriptions!Next /\ Keep6
    \/ focus = "users" /\ Accounts!Next /\ Keep7
    \/ focus = "credentials" /\ Vault!VaultNext /\ Keep6
    \/ focus = "encryption" /\ Vault!CryptNext /\ Keep6
    \/ focus = "oauth" /\ Tokens!Next /\ Keep10
    \/ focus = "notifications" /\ Inbox!NoteNext /\ Keep6
    \/ focus = "emails" /\ Inbox!MailNext /\ Keep7
    \/ focus = "migrations" /\ Schema!Next /\ Keep7
    \/ focus = "lifecycle" /\ Servers!Next /\ Keep9
    \/ focus = "nodes" /\ Definitions!Next /\ Keep6
    \/ focus = "store" /\ Stores!Next /\ Keep7

Spec == Init /\ [][Next]_vars

-----------------------------------------------------------------------------
(* Limits hold under overlapping requests: an account is locked only by    *)
(* the failures that were made (auth_service.go:658-670), an email goes    *)
(* out twice only if an outcome was lost or a batch listed it while it was *)
(* being sent or another batch had it (email_service.go:281-329), and an   *)
(* authorization state serves twice only where two callbacks met it in a   *)
(* store (oauth.go:345-351).                                               *)
LimitsHold ==
    /\ focus = "auth" => AuthService!LockIsEarned
    /\ focus = "emails" => Inbox!SentOnce
    /\ focus = "oauth" => Tokens!StateUsedOnce

(* What somebody was given is not taken away by a stale or half-done       *)
(* request: the creator of a workspace stays its owner                     *)
(* (workspace_service.go:321-380), a password stays as set unless a login  *)
(* overlapped the change (auth_service.go:293, 403-421), a subscription is *)
(* shown as canceled only when Stripe has ended it or an event that nobody *)
(* verified said so (billing_service.go:262-281, 461-498,                  *)
(* billing_handler.go:513-515), a revoked token comes back only through    *)
(* a call that was under way (oauth.go:378-389, 536-546), an organization   *)
(* keeps its members (organization_repository.go:241-258) and a credential *)
(* its token (credential_service.go:146-179) unless two requests crossed.  *)
RightsSurvive ==
    /\ focus = "workspace" => Workspaces!CreatorStaysOwner
    /\ focus = "auth" => AuthService!PasswordExplained
    /\ focus = "billing" => Subscriptions!CutOffExplained
    /\ focus = "oauth" => Tokens!RevokedStaysRevoked
    /\ focus = "users" => Accounts!MembersAreKept
    /\ focus = "credentials" => Vault!TokenSurvives

(* What is written in several statements is whole again when they are      *)
(* over, and every exception has its cause: nodes and connections of a     *)
(* save (api main.go:879-886), the texts an encrypted credential's flag    *)
(* speaks of (encryption.go:194, 207-224), the schema and its version      *)
(* (migration_service.go:222-303), the status of a notification            *)
(* (notification.go:215-294), and the records of the two execution stores  *)
(* (persistence.go:123).                                                   *)
PartialWritesExplained ==
    /\ focus = "api" => ApiServer!SavedTogether
    /\ focus = "encryption" => Vault!FlagIsTrue
    /\ focus = "migrations" => Schema!SchemaIsCurrent
    /\ focus = "notifications" => Inbox!PendingExplained
    /\ focus = "store" => Stores!StoresAgree

(* Two node definitions are created under one name only where two          *)
(* creations of it overlapped or its lookup failed                         *)
(* (node_service.go:69-72, 130, 423-429).                                  *)
NamesStayUnique == focus = "nodes" => Definitions!NamesAreUnique

(* A service keeps its database open until its requests have ended or      *)
(* their time is over, and a main that returns has closed all it opened,   *)
(* whatever was available at the start (server.go of every service: Start, *)
(* Shutdown).                                                              *)
StopsInOrder ==
    focus = "lifecycle" => Servers!ServedWithDatabase /\ Servers!ClosedWhenReturned

(* A settled execution of the API server changes only when its own run     *)
(* ends, which nobody stopped (api main.go:995-1010).                      *)
KeptAsWritten == [][focus = "api" => ApiServer!SettlesItself]_vars

-----------------------------------------------------------------------------
(* The small instance: a limit of attempts that a login can reach, default *)
(* definitions and seeds in their order.                                   *)
MCSeedFiles == <<"users", "plans">>
MCSystemNodes == <<"sys">>
=============================================================================
