CONSTANTS
  t1 = t1  vault = vault  blob = blob  k1 = k1  k2 = k2
  UrlUnit <- MCUrlUnit
  HeaderName <- MCHeaderName
  Threads <- OneThread
  Clients <- TwoClients
  OwnerOf <- OneOwner
  CredentialOf <- OwnCredential
  ScopeOf <- OwnScope
  ApiVersionIn <- Locations
  UserAgent <- Agents
  Credentials = {k1, k2}
  TooLong = {}
  Operations <- AnyOperation
  MaxUrl = 5
  MaxHeaders = 4
  ResponseRoom <- SmallRooms
  ReplySizes = {1, 2, 3}
  AadReplies <- MixedReplies
  MaxToken = 4
  Margin = 1
  ConnectErrors = {"ERROR_OUT_OF_MEMORY"}
  Listeners = {TRUE}
  Whitelists = {{"HTTP_REQUEST"}}
  ReuseResponse = FALSE
  ClockIsWall = TRUE
  MaxClock = 2
  NoClient = NoClient
  NoScope = NoScope
SPECIFICATION Spec
INVARIANTS TypeOK Authorized RightScope NoTruncatedSuccess
PROPERTY KeepsPromise
