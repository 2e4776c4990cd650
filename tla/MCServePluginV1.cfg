CONSTANTS
  Hooks = {activation, ready, health}
  Activation = activation
  Ready = ready
SPECIFICATION Spec
INVARIANTS
  TypeOK
  HooksOnOneSide
  ReturnReleases
PROPERTIES
  ImplementsLifecycle
