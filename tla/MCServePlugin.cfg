CONSTANTS
  Hooks = {ready, health}
  Caps = {durable, services}
  Needs = {services}
  TransportCaps = {services}
  Features = {auth, lifecycle}
  Required = {lifecycle}
  WorkloadAuth = auth
  Majors = {1, 2}
  Major = 2
  Ids = {files, other}
  Id = files
  NoId = NoId
  Generations = {gen1, gen2}
  NoGeneration = NoGeneration
  Tokens = {t}
  Malformed = Malformed
  NoToken = NoToken
  NoReply = NoReply
  NoBinding = NoBinding
SPECIFICATION FairSpec
INVARIANTS
  TypeOK
  BindingIsOneGeneration
  HooksRunInsideTheStart
  ReturnReleases
PROPERTIES
  ImplementsLifecycle
  ServeComesBack
