\* A standard queue and its dead-letter queue: delays, an in-flight cap, a restart.
SPECIFICATION Spec
CONSTANTS
  Queues = {"s", "d"}
  FifoQueues = {}
  Sources = {"s"}
  RateLimited = {}
  Groups = {}
  DedupIds = {}
  Delays = {0, 1}
  Timeouts = {0}
  BatchSizes = {1, 2}
  AttemptIds = {}
  Created <- PolicySD
  Redrives = {}
  Retention = 1
  DedupWindow = 2
  AttemptTTL = 2
  PurgeCooldown = 2
  FifoTPS = 9
  MaxInFlight = 2
  MaxDedup = 9
  LockWait = 0
  MaxMsgs = 2
  MaxHandles = 3
  MaxTime = 2
  MaxRestarts = 1
  None = None
INVARIANTS NoLoss OnePlace HandleIndex ActivityFlag
PROPERTIES LeaseRespected ImplementsLease
CHECK_DEADLOCK FALSE
