SPECIFICATION GroundedSpec
CONSTANTS
  Fields <- MCFields
  BoundedFields <- MCBoundedFields
  CredentialFields = {"degree"}
  LanguageFields = {"score"}
  ScopeFields <- MCScopeFields
  SelectionField = "which result"
  Unknown = Unknown
  NoRule = NoRule
  NoName = NoName
  Requests <- MCRequests
  Facts <- MCFacts
  Revisions = {1, 2, 3}
  FactChoices <- MCFactChoices
  Contents <- MCContents
  KbDefect <- MCKbDefect
  PageRoutes <- MCPageRoutes
  CommonTerms = {4, 9}
  Family <- MCFamily
  NoFinding = NoFinding
  NormalForm <- MCNormalForm
  Code <- MCCode
  Digits <- MCDigits
  YearSuffix <- MCYearSuffix
  ScopeWords <- MCScopeWords
  Catalog <- MCCatalog
  TextOf <- MCTextOf
  SubjectsOf <- MCSubjectsOf
  Fragments <- MCFragments
  UnknownRef = UnknownRef
INVARIANT EveryCitationRetrieved
CHECK_DEADLOCK FALSE
