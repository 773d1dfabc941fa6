\* Each behaviour runs one of the services.
SPECIFICATION Spec
CONSTANTS
  None = None
  BlankData = BlankData
  Fresh = Fresh
  Gone = Gone
  \* two requests in flight
  Calls = {"r1", "r2"}
  \* the API server with one row of a kind
  Emails = {"u1"}
  SessionTokens = {"k1"}
  FlowIds = {"w1"}
  Drawings = {1, 2}
  RunIds = {"e1"}
  ScheduleIds = {"s1"}
  WebhookIds = {"h1"}
  NotificationIds = {"n1"}
  OrgSlugs = {"o1"}
  RowBound = 1
  \* one account, locked after two failures
  UserIds = {"u1"}
  Passwords = {"p1", "p2"}
  RefreshTokens = {"t1"}
  ApiKeys = {"k1"}
  MaxLoginAttempts = 2
  RequireEmailVerify = FALSE
  WrongBound = 2
  \* two workspaces, two users, one invitation
  Slugs = {"s1", "s2"}
  People = {"a", "b"}
  Invitations = {"i1"}
  MaxMembers = 2
  \* one subscription, two plans
  SubscriptionIds = {"b1"}
  Plans = {"free", "pro"}
  \* two accounts, one organization
  AccountIds = {"a", "b"}
  OrgIds = {"o"}
  Secrets = {"x"}
  \* one credential and one variable; three fields, two of them sensitive
  CredIds = {"c1"}
  VarIds = {"v1"}
  CredValues = {"x", "y"}
  Fields = {"user", "password", "token"}
  SensitiveFields = {"password", "token"}
  Keys = {"k1", "k2"}
  \* two providers, one integration, two authorization states
  Providers = {"p", "q"}
  Integrations = {"i"}
  StateIds = {"x1", "x2"}
  \* one notification over up to three channels, one of them without a sender
  Notes = {"n"}
  InApp = "inapp"
  Others = {"email", "sms"}
  Registered = {"email"}
  Senders = {"u1", "u2"}
  ChannelBound = 3
  \* two emails with one retry each
  EmailIds = {"e1", "e2"}
  EmailMaxRetries = 1
  DeliveryBound = 2
  \* two migrations, of which the second may lack its down file
  UpFiles = {1, 2}
  DownChoices = {{1, 2}, {1}}
  SeedFiles <- MCSeedFiles
  \* two requests and two background tasks while a service stops
  RequestBound = 2
  TaskBound = 2
  \* two rows, two starts; clients ask for the name of the default node
  NodeIds = {1, 2}
  NodeNames = {"sys"}
  SystemNodes <- MCSystemNodes
  BootBound = 2
  \* two executions
  ExecIds = {1, 2}
  Durations = {1, 2}
  WriteBound = 2
INVARIANTS
  LimitsHold
  RightsSurvive
  PartialWritesExplained
  NamesStayUnique
  StopsInOrder
PROPERTIES
  KeptAsWritten
CHECK_DEADLOCK FALSE
