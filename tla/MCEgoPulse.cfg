CONSTANTS
  r1 = r1
  r2 = r2
  p1 = p1
  s1 = s1
  s2 = s2
  Runs = {r1, r2}
  Pages = {p1}
  Sockets = {s1, s2}
  NoRun = NoRun
  HistoryLimit = 2
  Capacity = 2
  MaxSockets = 1
  MaxDeltas = 1
  MaxDrops = 1
  ca = ca
  cb = cb
  ia = ia
  ib = ib
  note = note
  picture = picture
  secret = secret
  NoSuchFile = NoSuchFile
  Picture = Picture
  Binary = Binary
  NoLimit = NoLimit
  Paths <- MCPaths
  Guarded <- MCGuarded
  ImagePaths <- MCImagePaths
  Contents <- MCContents
  EditInputs <- MCInputs
  Limits = {0, 1, 2}
  MaxLines = 2
  MaxBytes = 4
  SentKeys <- MCKeys
  Threads <- MCThreads
  MaxChats = 4
  MaxSaid = 1
  Servers <- MCServers
  McpFiles <- MCMcpFiles
  Broken = Broken
  ToolLists <- MCToolLists
  McpCalls = {"k1"}
  Presets <- MCPresets
  Models = {"llama"}
  Keys = {"k2"}
  FileTokens = {"t2"}
  Envs <- MCEnvs
  FirstFile <- MCFile
  Writers = {"w1", "w2"}
  Asked <- MCAsked
  MaxStarts = 2
  HostChannels = {"web", "discord"}
  HostExes = {"bin", "local"}
  HostFiles = {"f1", "f2"}
  MaxEvents = 2
  CallIds = {ca, cb}
  MaxCalls = 2
  MaxIterations = 2
  MaxTurns = 2
  MaxElsewhere = 1
  Processes = {"p", "q"}
  Images = {ia, ib}
  SkillDirs <- MCSkillDirs
  SkillFiles <- MCSkillFiles
  MaxItems = 1
  MaxEdits = 2
  Typed = {"a", "/"}
  HistoryCap = 2
  MaxInput = 2
  MaxSends = 2
  MaxListed = 1
  OthersSay <- MCOthersSay
  MaxStored = 1
  Calls = {"c1"}
  Sizes = {1, 4, 11}
  TailLines = 2
  TailBytes = 5
  LineLimit = 2
  Slack = 1
  Limit = 2
  ToolOutputs <- MCOutputs
  Secrets <- MCSecrets
  Details = {0, 2}
  Overhead = 1
  MaxChars = 4
  Margin = 1
  MaxPrinted = 5
  Words <- MCWords
  Commands <- MCCommands
  Inbound = {"m1", "m2"}
  Origins <- MCOrigins
  Lines <- MCLines
  Replies <- MCReplies
  Drafts <- MCDrafts
  Streams <- MCStreams
  Histories <- MCHistories
  AnswerTexts <- MCTexts
  Wide = "w"
  WideBytes = 2
  MaxLength = 3
  None = None
  NoUnit = NoUnit
  CutUnit = CutUnit
SPECIFICATION EgoSpec
CHECK_DEADLOCK FALSE
INVARIANTS
  PageSeesInOrder
  StreamEndsWithTheEnd
  SocketsHold
  ListedSessionsOpen
  FilesAreFaithful
  ToolResultsAreHonest
  AnswersAreWhole
  ServersAreReached
  EnvTokensStayOut
  InstallTakesEffect
  RepliesArriveWhole
  TurnKeepsItsResults
  CrashLeavesFilesUsable
  UserSkillsComeFirst
PROPERTIES
  AnswersComeTrue
  FailureIsNoticed
  NothingTypedIsLost
  OutputsFit
