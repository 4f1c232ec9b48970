CONSTANTS
  Circuits <- MCCircuits
  Tolerances <- MCTolerances
  MAX_TREEWIDTH = 4
  kPossibleWorldsSanityMax = 3
  kSieveSanityMaxClauses = 2
  evaluate_as <- EvaluateMethod
  build_as <- buildDD
  Queries <- MCQueries
  compile_as <- compileReachability
SPECIFICATION Spec
INVARIANTS WithinTolerance SomeMethodAnswers CompiledIsDDNNF ValuesAreExpected
CHECK_DEADLOCK FALSE
