CONSTANTS
  Cases <- MCCases
  Simplify <- applyLoadTimeSimplification
  Evaluate <- pec
  Comparators <- resolveComparators
  ToBoolean <- getBooleanCircuit
SPECIFICATION Spec
INVARIANTS ValueAsStored ProbabilityAsStored CertificatesHold SemiringLaws
CHECK_DEADLOCK FALSE
