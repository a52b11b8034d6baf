CONSTANTS
  Unit <- MCUnit
  Documents <- AnyText
  Top = 4
SPECIFICATION Spec
INVARIANTS TypeOK ReadsOnlyText StackIsPath DoneMeansJson
PROPERTIES GivesDocument NestingLimit SkipAdvances
CHECK_DEADLOCK FALSE
