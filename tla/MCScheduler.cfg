SPECIFICATION Spec
CONSTANTS
  Tasks = {t1, t2, t3}
  MaxQueue = 2
  MaxStarts = 1
INVARIANTS
  TypeOK
  QueueBounded
  NoTaskMislaid
PROPERTIES
  AnsweredOnce
  AcceptedIsAnswered
CHECK_DEADLOCK FALSE
