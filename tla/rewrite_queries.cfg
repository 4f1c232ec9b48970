SPECIFICATION Spec
CONSTANTS
  null = null
  tooMany = tooMany
  NULL = null
  TooMany = tooMany
  Schema <- MCSchema
  TableInfo <- MCTableInfo
  Queries <- MCQueries
  Rewrite <- Pass
  Execute <- EvalQuery
INVARIANTS AnswersInEveryWorld WhereCellsCarryTheValue ReadOnce
PROPERTIES EachPassKeepsMeaning
CHECK_DEADLOCK FALSE
