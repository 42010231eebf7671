\* A FIFO queue and its dead-letter queue; policies set and removed at any time.
SPECIFICATION Spec
CONSTANTS
  Queues = {"s", "d"}
  FifoQueues = {"s", "d"}
  Sources = {"s"}
  RateLimited = {}
  Groups = {g}
  DedupIds = {x, y}
  Delays = {0}
  Timeouts = {0}
  BatchSizes = {1}
  AttemptIds = {"a"}
  Created <- PolicySD2
  Redrives <- PolicySD
  Retention = 9
  DedupWindow = 9
  AttemptTTL = 1
  PurgeCooldown = 9
  FifoTPS = 9
  MaxInFlight = 2
  MaxDedup = 9
  LockWait = 0
  MaxMsgs = 2
  MaxHandles = 2
  MaxTime = 1
  MaxRestarts = 1
  None = None
INVARIANTS SeqAscending
PROPERTIES PoisonBounded RoutedByPolicy
CHECK_DEADLOCK FALSE
SYMMETRY Symmetry
