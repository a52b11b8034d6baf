CONSTANTS
  t1 = t1  vault = vault  blob = blob  k1 = k1  k2 = k2
  UrlUnit <- MCUrlUnit
  HeaderName <- MCHeaderName
  Threads <- OneThread
  Clients <- OneClient
  OwnerOf <- VaultOwner
  CredentialOf <- VaultCredential
  ScopeOf <- VaultScope
  ApiVersionIn <- VaultApi
  UserAgent <- VaultAgent
  Credentials = {k1}
  TooLong = {}
  Operations <- OneOperation
  MaxUrl = 5
  MaxHeaders = 4
  ResponseRoom <- RoomForTwo
  ReplySizes = {1}
  AadReplies <- MixedReplies
  MaxToken = 4
  Margin = 1
  ConnectErrors = {"ERROR_OUT_OF_MEMORY"}
  Listeners = {}
  Whitelists = {}
  ReuseResponse = TRUE
  ClockIsWall = TRUE
  MaxClock = 2
  NoClient = NoClient
  NoScope = NoScope
SPECIFICATION Spec
INVARIANT ResponseWrittenFromStart
