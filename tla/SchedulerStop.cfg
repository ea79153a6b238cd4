SPECIFICATION Spec
CONSTANTS
  Tasks = {t1, t2, t3}
  MaxQueue = 2
  MaxStarts = 1
PROPERTIES
  StopReturns
CHECK_DEADLOCK FALSE
