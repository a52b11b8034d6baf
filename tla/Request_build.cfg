CONSTANTS
  UrlUnit <- MCUrlUnit
  HeaderName <- MCHeaderName
  InitialUrls <- NoQueryUrl
  Paths <- MCPaths
  Parameters <- MCParameters
  HeaderValues = {0, 1}
  MaxUrl = 11
  MaxHeaders = 2
SPECIFICATION Spec
INVARIANTS UrlIsPathThenQuery
PROPERTY RemoveRestoresMarked
CHECK_DEADLOCK FALSE
