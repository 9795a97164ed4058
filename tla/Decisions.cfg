SPECIFICATION DecisionsSpec
CONSTANTS
  Fields <- AllFields
  BoundedFields <- AllBoundedFields
  CredentialFields = {"degree", "country", "basis", "state", "completed", "expected"}
  LanguageFields = {"score", "kind", "taken", "pdf", "qr", "certificate", "report", "g179", "method"}
  ScopeFields <- MCScopeFields
  SelectionField = "which result"
  Unknown = Unknown
  NoRule = NoRule
  NoName = NoName
  Requests <- AllRequests
  Facts <- MCFacts
  Revisions = {1, 2, 3}
  FactChoices <- AllFactChoices
  Contents <- MCContents
  KbDefect <- MCKbDefect
  PageRoutes <- MCPageRoutes
  CommonTerms = {4, 9}
  Family <- MCFamily
  NoFinding = NoFinding
  NormalForm <- MCNormalForm
  Code <- MCCode
  Digits <- MCDigits
  YearSuffix <- MCYearSuffix
  ScopeWords <- MCScopeWords
  Catalog <- MCCatalog
  TextOf <- MCTextOf
  SubjectsOf <- MCSubjectsOf
  Fragments <- MCFragments
  UnknownRef = UnknownRef
  Forms <- MCForms
  DetailedDocument = "detailed"
  DetailedKb = 1
  GuideFacts <- MCGuideFacts
INVARIANTS
  StagesReconcile
  AnswersSayWhatIsOpen
  NoRuleIsLost
  EvidenceReviewed
  AnswerStaysReviewed
  SettledAnswersAreFinal
  ChecksStand
CHECK_DEADLOCK FALSE
