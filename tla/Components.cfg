\* Every component on its own, all in one run.
SPECIFICATION Spec
CONSTANTS
  None = None
  \* flows, schedules, webhooks
  n1 = n1
  n2 = n2
  f1 = f1
  f2 = f2
  ed = ed
  FlowIds = {f1, f2}
  Users = {ed}
  Names = {n1, n2}
  Groups = {}
  SystemAdmins = {}
  Role <- NoRoles
  Triggers <- SomeTriggers
  Unparsable = {"every day"}
  HttpRequests = {1, 2}
  Reconcilers = {1}
  MaxEdits = 3
  MaxKeys = 2
  MaxMishaps = 1
  Callers = {1}
  Secret <- FirstHasSecret
  Limits = {1}
  DefaultLimit = 1
  IpLimit = 1
  Minute = 1
  Hour = 2
  MaxClock = 3
  MaxCalls = 2
  \* nested runs, steps, debug runs
  Top = "top"
  TreeNodes <- SomeNodes
  Trees <- SomeTrees
  MaxDepth = 3
  MaxKills = 1
  MaxThrows = 1
  Line = 2
  GateNode = 1
  Walks = {1, 2}
  Deciders = {1}
  MaxWalks = 3
  MaxLost = 1
  MaxBreaks = 2
  DebugGates = 2
  Approvers = {1, 2}
  HasButtons = TRUE
  MaxTrouble = 2
  \* sandbox, agents, HTTP requests
  Execs = {e1, e2}
  Slots = {1}
  MaxDirs = 3
  MaxRestarts = 1
  MaxStarts = 2
  ProviderTypes = {"openai", "anthropic"}
  ToolSets <- SomeToolSets
  CallLists <- SomeCalls
  KeepRecent = 2
  MaxRounds = 2
  MaxDeaths = 1
  Addresses = {"public", "private"}
  Private = {"private"}
  Methods = {"GET", "POST"}
  \* accounts, secrets, chat, knowledge, catalogue
  People = {ann}
  Requests = {1, 2}
  GroupNames = {"admins", "editors"}
  AdminMapping = {"admins"}
  EditorMapping = {"editors"}
  MaxLogins = 2
  MaxChores = 1
  SecretNames = {s1}
  Vaults = {v1}
  Texts = {t1}
  KeyRequests = {1, 2}
  MaxVersions = 3
  MaxSaves = 2
  Sessions = {c1}
  Turns = {1, 2}
  ChatKeys = {k1}
  MaxMessages = 1
  Docs = {d1, d2}
  StoreNames = {qdrant, other}
  Searched = qdrant
  Processes = {backend, worker}
  Backend = backend
  MaxStoreEdits = 1
  Endpoints = {p1, p2}
  Servers = {m1}
  Providers = {v2}
  Contexts = {x1}
  SiteAdmins = {}
  Writers = {ed}
  GroupAdmins = {}
  Teams = {g1}
  Urls = {a1, a2}
  Writes = {1, 2}
  MaxWrites = 4
  \* Co-Pilot, canvas, overlay
  PanelUsers = {ann, bob}
  PermissionsOf <- MayEditFlows
  Pages <- SomePages
  AskedTools <- SomeAnswers
  PerPage = 2
  MaxConversations = 2
  MaxMoves = 3
  MaxSends = 1
  MaxTurnRounds = 2
  NodeIds = {start, par, node}
  TriggerNode = start
  ParallelNode = par
  StoredFlows <- Unconnected
  Settings = {u1, u2}
  u1 = u1
  MaxUndo = 2
  MaxChanges = 2
  CanvasNodes = {node}
  SubflowOwner = node
  SubflowPath = path
  SubflowNode = inner
  MaxPresses = 3
  MaxSubflows = 2
  \* approvals pages
  PausedExecs = {e1}
  PageGates = {g1, g2}
  Inboxes = {inbox}
  AdminLists = {list}
  InReach <- AllInReach
  MaxPolls = 2
  MaxPauses = 2
  MaxLapses = 1
  \* environments of runs
  EnvNames = {x}
  EnvGroups = {g1}
  EnvVaults = {v1}
  MaxAttempts = 2
  MaxEnvWrites = 1
INVARIANTS
  TypeOK
  AcknowledgedSavesAreCallable
  RateHolds
  RunsWhatWasAuthenticated
  StepsRunOnce
  SubExecutionsEnd
  RestLeavesNoStepRunning
  OneRowPerIteration
  SandboxHeldOnce
  CommandsAreConfined
  NothingTruncatedIsLost
  RequestsAreChecked
  LoginSyncsGroups
  SecretsOpen
  HistoryPrecedesQuestion
  UploadsAreFound
  OneDefaultEndpoint
  EdgesSurviveSync
  CompletedRunsAreSettled
  DecidesTheGateShown
  DelaysKeepEnvironment
PROPERTIES
  SchedulesConverge
  CallsAreAnswered
  StopEndsTurn
  PendingIsShown
\* everything that is bounded comes to an end
CHECK_DEADLOCK FALSE
