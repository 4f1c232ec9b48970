CONSTANTS
  Cases <- MCUpset
  Simplify <- applyLoadTimeSimplification
  Evaluate <- pec
  Comparators <- resolveComparators
  ToBoolean <- getBooleanCircuit
SPECIFICATION Spec
INVARIANT UpsetIsClosed
CHECK_DEADLOCK FALSE
