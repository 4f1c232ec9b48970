SPECIFICATION Spec
CONSTANTS
  null = null
  tooMany = tooMany
  NULL = null
  TooMany = tooMany
  Relations <- MCRelations
  Mappings = {"m"}
  Scenarios <- MCScenarios
  Targets = {"r", "s"}
  Derived = {"d"}
  Deletes <- MCDeletes
  Updates <- MCUpdates
  NewRows <- MCNewRows
  Queries <- MCQueries
  Reads <- RelationsOf
  Answer <- RowsOf
  Classified <- provsql_classify_query
  LeavesOf <- RowLeaves
  TakenBack <- replace_the_circuit
  Substituted <- substitute_gate
  ContentsOf <- Contents
INVARIANTS ContentIsReplay PastStands CacheAgrees MappingsFollow CertifiedKindHolds
CHECK_DEADLOCK FALSE
