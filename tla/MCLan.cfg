SPECIFICATION Spec
CONSTANTS
  Workers = 2
  Coords = {c1, c2}
  Misfits = {c2}
  MaxCtx = 3
  Batches = {1, 2, 3}
  FrameMax = 2
  MaxPasses = 3
  MaxFaults = 1
INVARIANTS TypeOK SplitIsExact
PROPERTIES WaitsEnd WorkerFreed
CHECK_DEADLOCK FALSE
