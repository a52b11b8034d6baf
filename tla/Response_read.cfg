CONSTANTS
  Unit <- MCUnit
  Responses <- AnyResponse
  MaxLines = 3
SPECIFICATION FairSpec
INVARIANTS TypeOK ReadsOnlyResponse
PROPERTIES GivesParts LoopsEnd
CHECK_DEADLOCK FALSE
