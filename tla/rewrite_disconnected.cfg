SPECIFICATION Spec
CONSTANTS
  null = null
  tooMany = tooMany
  NULL = null
  TooMany = tooMany
  Schema <- MCSchema
  TableInfo <- MCTableInfo
  Queries <- DisconnectedQueries
  Rewrite <- Pass
  Execute <- EvalQuery
INVARIANTS AnswersInEveryWorld
CHECK_DEADLOCK FALSE
