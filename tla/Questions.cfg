SPECIFICATION QuestionsSpec
CONSTANTS
  Thread = {t1, t2}
  NoThread = NoThread
  Question = {"scores", "name"}
  MaxVersion = 2
  Capacity = 1
  Ttl = 1
  Words <- MCWords
  Packs <- MCPacks
  MaxQueries = 1
  MaxRecords = 2
  MaxSize = 2
  Pdfs = {"a", "b", "c", "d"}
  Chunks <- MCChunks
  Requests <- MCRequests
  Providers = {"e1", "e2"}
  Margin = 6
  Limits <- MCLimits
  DefaultCandidates = 3
  RrfK = 60
  Scale = 30498048
  None = None
INVARIANTS SingleFlight NeverOlderThanKey KeptIsWhole PipelineReconciles AgreedOrderKept UncertaintyVisible EvidenceOfOneKb
PROPERTIES ImplementsCache QuietRequestsReturn
CHECK_DEADLOCK FALSE
