CONSTANTS
  UrlUnit <- MCUrlUnit
  HeaderName <- MCHeaderName
  InitialUrls <- QueryUrl
  Paths <- MCPaths
  Parameters <- MCParameters
  HeaderValues = {}
  MaxUrl = 13
  MaxHeaders = 1
SPECIFICATION Spec
INVARIANT UrlIsPathThenQuery
CHECK_DEADLOCK FALSE
