SPECIFICATION Spec
CONSTANTS
  MaxRuns = 2
  Setups <- MCSetups
INVARIANTS TypeOK PermitsConserved SidecarBacked FailureHasCause
PROPERTIES CompletedIsRight CancelLeavesNothing StopsSettle
CHECK_DEADLOCK FALSE
