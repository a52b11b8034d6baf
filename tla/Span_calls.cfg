CONSTANTS
  Starts <- MCStarts
  Numbers <- MCNumbers
  Doubles <- MCDoubles
  Powers = {1, 10, 100}
  MaxWord = 1023
  MaxNumber = 99
  HalfExp = 16
  ValueMax = 8
  StringMax = 4
SPECIFICATION Spec
INVARIANTS ReadsExactly RefusesOnlyTooLarge
PROPERTIES KeepsPromise WritesOnlyRoom
CHECK_DEADLOCK FALSE
