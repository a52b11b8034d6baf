CONSTANTS
  Unit <- MCUnit
  Top = 64
  Tokens <- MCTokens
  MemberNames <- MCNames
  Capacities <- MCCapacities
  MaxCalls = 6
SPECIFICATION BuildSpec
INVARIANTS CanBeClosed ReadsBack
CHECK_DEADLOCK FALSE
