CONSTANTS
  t1 = t1  vault = vault  blob = blob  k1 = k1  k2 = k2
  UrlUnit <- MCUrlUnit
  HeaderName <- MCHeaderName
  Threads <- OneThread
  Clients <- TwoClients
  OwnerOf <- OneOwner
  CredentialOf <- OwnCredential
  ScopeOf <- OwnScope
  ApiVersionIn <- Locations
  UserAgent <- Agents
  Credentials = {k1, k2}
  TooLong = {k2}
  Operations <- OneOperation
  MaxUrl = 5
  MaxHeaders = 4
  ResponseRoom <- SmallRooms
  ReplySizes = {1}
  AadReplies <- Lifetimes
  MaxToken = 4
  Margin = 2
  ConnectErrors = {"ERROR_OUT_OF_MEMORY"}
  Listeners = {}
  Whitelists = {}
  ReuseResponse = FALSE
  ClockIsWall = TRUE
  MaxClock = 7
  NoClient = NoClient
  NoScope = NoScope
SPECIFICATION FairSpec
INVARIANT CachedTokenAlive
PROPERTY CallsReturn
