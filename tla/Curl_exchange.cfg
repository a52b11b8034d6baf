SPECIFICATION Spec
CONSTANTS
  Requests <- AllRequests
  Capacity = 4
  MaxRoom = 3
  MaxPart = 3
  MaxReply = 6
INVARIANTS PointsToLive SendsWhole UploadsInOrder GivesWholeReply FreesHandleAndBody
