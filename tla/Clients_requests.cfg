CONSTANTS
  Unit <- MCUnit
  Top = 64
  UrlUnit <- MCUrlUnit
  HeaderName <- MCHeaderName
  Uris <- MCUris
  KeyNames <- MCKeyNames
  KeyTypes <- MCKeyTypes
  Options <- MCOptions
  NoOptions <- MCNoOptions
  Sizes <- MCSizes
  UrlCapacity = 10
  BodyCapacity = 50
  HeaderCount = 3
SPECIFICATION ClientSpec
INVARIANTS BodyIsMeant UrlIsMeant RefusesOnlyTooLong
