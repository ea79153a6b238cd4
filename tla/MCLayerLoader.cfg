SPECIFICATION Spec
CONSTANTS
  LayerBegin = 1
  LayerEnd = 4
  NBuffers = 2
  NRoles = 2
  MaxCalls = 4
INVARIANTS
  TypeOK
  ConsumerSafe
  ReadyIsWhole
  NoLostClaim
PROPERTIES
  CallsReturn
  DestructorReturns
  ImplementsService

