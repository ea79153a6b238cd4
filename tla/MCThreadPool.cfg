SPECIFICATION Spec
CONSTANTS
  NThreads = 3
  MaxTotal = 5
  MaxCalls = 2
  Fixed = 3
  Parts = 1
  AdaptiveMin = 2
INVARIANTS
  TypeOK
  FieldsStable
  BarrierCounts
PROPERTIES
  CallReturns
  DestructorReturns
  ImplementsParallelLoop
