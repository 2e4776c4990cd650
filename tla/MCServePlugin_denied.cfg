CONSTANTS
  Hooks = {ready, health}
  Caps = {durable, services}
  Needs = {services}
  TransportCaps = {services}
  Features = {lifecycle}
  Required = {lifecycle}
  WorkloadAuth = auth
  Majors = {2}
  Major = 2
  Ids = {files}
  Id = files
  NoId = NoId
  Generations = {gen1}
  NoGeneration = NoGeneration
  Tokens = {}
  Malformed = Malformed
  NoToken = NoToken
  NoReply = NoReply
  NoBinding = NoBinding
SPECIFICATION FairSpec
PROPERTIES
  DeniedMountStops
