CONSTANTS
  Jobs = {j1, j2}
  Workers = {p1, p2}
  Hooks <- MCHooks
  Subjects = {"s", "t"}
  MaxAttempts = 2
  Policies = {"latest_wins", "source_wins"}
  NoJob = NoJob
  Processes = {p1, p2}
  Messages <- MCMessages
  ConversationOf <- MCConversationOf
  MediaOf <- MCMediaOf
  NoMedia = NoMedia
  NoOne = NoOne
  NoMessage = NoMessage
  TickProcesses = {p1, p2}
  Events = {e1, e2}
  NoTicker = NoTicker
  NoEvent = NoEvent
  StoreProcesses = {p1, p2}
  Numbers = {n1, n2}
  People = {Owner, Guest, Other}
  Owner = Owner
  Guest = Guest
  Plans <- MCPlans
  Reported = {"active", "trialing", "unpaid"}
  AuditIds = {1, 2}
  AuditCap = 1
  Contents = {"x", "h", "junk"}
  Streams <- MCStreams
  ChunkSizes = {1, 3, 100}
  MaxBytes = 40
  MaxPartBytes = 6
  MaxHeaderBytes = 7
  MaxParts = 2
  FileMemoryBytes = 2
  Flows = {p1, p2}
  Locations = {"l1", "l2"}
  Companies = {"A", "B"}
  GhlUsers = {"g"}
  Boss = Boss
  Admin = Admin
  OauthStates = {s1}
  Installs <- MCInstalls
  Nonces = {"n", "o"}
  NoState = NoState
  NoFlow = NoFlow
  NoLocation = NoLocation
  NoUser = NoUser
  OwaRequests = {p1, p2}
  OwaEvents <- MCOwaEvents
  OwaKeys = {"k"}
  OwaIds = {"stop", "file1", "file2"}
  Outbound = {"file1", "file2"}
  MaxConnections = 2
  OwaAttempts = 2
  NoId = NoId
  TokenProcesses = {p1, p2}
  MaxTokens = 4
  Parts = {"deliveries","webhooks","sync","triggers","numbers","people","billing","media","callback","agency","team","embedded","contacts","session","files","tokens"}
SYMMETRY Symmetry
SPECIFICATION Spec
INVARIANTS RevokedIsSilent NewestWins ReportsAreTrue ChunkingIsInvisible TokenSurvives
PROPERTIES ImportsByIntent RunsByIntent QuotaHolds NothingUnseenIsOverwritten TenantIsFinal
CHECK_DEADLOCK FALSE
