SPECIFICATION WorkspacesSpec
CONSTANTS
  Legacy = {"isct"}
  Slices = {"utokyo"}
  Profiles = {0, 1}
  Preparations = {0, 1}
  Questions = {0, 1, 2}
  Snapshots = {v1, v2}
  Known = v1
  BaseAnswers <- MCBaseAnswers
  ComparisonAnswers <- MCComparisonAnswers
  EvidenceAnswers <- MCEvidenceAnswers
  ReportAnswers <- MCReportAnswers
  Presentation <- MCPresentation
  MaxRestarts = 1
  None = None
  Preparer = {p1, p2}
  Bundle = {b1, b2}
  MaxPrepares = 4
  MaxFailures = 2
  NoRuntime = NoRuntime
  Absent = Absent
  Seeds <- MCSeeds
  Manifests <- MCManifests
  Contracts <- MCContracts
  Configs <- MCConfigs
  Inputs <- MCInputs
  PdfPages <- MCPdfPages
  PdfAt <- MCPdfAt
  Publisher = {w1, w2}
  MaxPublishes = 2
  MaxDamages = 1
  Plans <- MCPlans
  Policies <- MCPolicies
  PlanTrusts <- MCPlanTrusts
  PolicyTrusts <- MCPolicyTrusts
  SliceRequests <- MCSliceRequests
  Releases <- MCReleases
  Reviewed <- MCReviewed
  MaxEdits = 1
  MaxStarts = 1
  pdf1 = pdf1
  pdf2 = pdf2
  cs = cs
  bio = bio
  geo = geo
  earth = earth
  Unset = Unset
  YearFact = "year"
  MaxChanges = 2
  Setups <- MCSetups
  Kbs <- MCKbs
  Entries <- MCEntries
  PdfFiles = {pdf1, pdf2}
  ExamMaps <- MCExamMaps
  BaseQueries <- MCBaseQueries
INVARIANTS NothingLoadsForever
CHECK_DEADLOCK FALSE
