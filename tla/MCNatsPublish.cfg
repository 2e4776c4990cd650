CONSTANTS
  Callers = {g1}
  Subjects = {x, y}
  Gateway = {y}
  Tokens = {t}
  Malformed = Malformed
  NoToken = NoToken
  Sizes = {2, 3}
  TransportMax = 2
  HostMaxes <- HostCeilings
  WireBound = 1
  ErrBound = 1
SPECIFICATION FairSpec
INVARIANTS
  TypeOK
  AtMostOneLateSend
  PublishWithinCeiling
  TokenStaysWithGateway
PROPERTIES
  RefusedOrReturned
