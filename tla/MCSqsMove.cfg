\* Two tasks that move out of a standard queue, to a FIFO queue and to itself.
SPECIFICATION Spec
CONSTANTS
  Queues = {"s", "d"}
  Fifo = {"s"}
  Bodies = {b1}
  Tasks = {t1, t2}
  Moves <- RedriveAndSelf
  MaxCopies = 4
  None = None
INVARIANTS NotLost MovedOnce OneMover
PROPERTIES CancelEnds
CHECK_DEADLOCK FALSE
