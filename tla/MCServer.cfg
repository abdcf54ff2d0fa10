CONSTANTS
  Parts = {"run", "prompt", "prefix", "memory", "knowledge", "chunker", "log", "migration", "settings"}
  PromptBudget = 12
  HistoryCap = 8
  KnowledgeCap = 6
  GroupHistoryCap = 6
  GroupHistoryLen = 3
  TextSizes = {0, 1, 5, 10}
  HistorySizes = {1, 4, 7}
  MaxMessages = 4
  SpeakerName <- MCName
  ReplyTexts <- MCReplies
  MaxChunk = 3
  t1 = t1
  t2 = t2
  per1 = per1
  per2 = per2
  per3 = per3
  Talks = {t1, t2}
  MemoryCast <- MCMemoryCast
  MemoryOps = {o1, o2}
  UpdateStep = 2
  MaxSummaries = 2
  TalkCap = 4
  Scopes = {"user", "p"}
  KnowledgeOps = {1, 2, 3}
  Models = {"m1", "m2"}
  Dimension <- MCDimension
  ChunkCounts = {1, 2}
  MaxDocuments = 2
  MaxChunks = 3
  MaxChars = 6
  MinChars = 3
  Overlap = 2
  SentenceSizes = {1, 2, 4, 7, 13}
  MaxSentences = 3
  Events = {1, 2, 3, 4}
  KeepLogs = 2
  MaxLines = 2
  MaxUnderWay = 2
  StoreFiles = {1, 2}
  MaxStarts = 3
  MaxWrites = 2
  Drafts <- MCDrafts
  DefaultUrl = "u1"
  TypedKeys = {1, 2}
  AllowInsecure = FALSE
  SettingsCalls = {1, 2}
  MaxSteps = 3
SPECIFICATION MCSpec
CHECK_DEADLOCK FALSE
INVARIANTS
  RunLogClosed
  VerdictNamesFirstAbort
  PromptByPriority
  GroupPromptCorrect
  PrefixCorrect
  MemoriesConsistent
  NoOrphans
  FoundMeansListed
  ChunksCover
  QueryMissesNothing
  LastWriteSurvives
  RefusedStartChangesNothing
  SettingsCorrect
PROPERTIES
  SummaryAdvances
  DeletedStaysDeleted
