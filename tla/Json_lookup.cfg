CONSTANTS
  Unit <- MCUnit
  Documents <- AnyText
  Pointers <- Paths
  Top = 8
SPECIFICATION SearchSpec
INVARIANTS FindsValue StandsAtDepth SearchStaysInText
PROPERTY SearchAdvances
CHECK_DEADLOCK FALSE
