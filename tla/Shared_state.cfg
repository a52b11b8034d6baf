CONSTANTS
  t1 = t1  t2 = t2
  Threads = {t1, t2}
  Room = 3
  GrantLength <- MCGrantLength
  Lifetimes = {1}
  Starts <- MCStarts
  NoList = NoList
  NoPart = NoPart
SPECIFICATION Spec
INVARIANTS WholeUnlessRaced LogNeverFaults
CHECK_DEADLOCK FALSE
