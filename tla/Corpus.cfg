SPECIFICATION Spec
CONSTANTS
  p = p
  q = q
  NoPath = NoPath
  Doc <- MCDoc
  Family <- MCFamily
  IndexPath <- MCIndexPath
  FirstIndexes <- MCFirstIndexes
  FirstManifest <- MCFirstManifest
  Requests <- MCRequests
  Selections <- MCSelections
  Policies <- MCPolicies
  MaxRev = 2
  Updater = {u, v}
  Indexer = {i}
  Reader = {r}
SYMMETRY Alike
INVARIANTS EntriesBound TrueWhenStaged SnapshotConsistent
PROPERTIES UpdatesApplyToCurrent
