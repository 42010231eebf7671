\* One FIFO queue of high throughput: group order, leases, requeueing,
\* the deduplication window and the send rate.
SPECIFICATION Spec
CONSTANTS
  Queues = {"q"}
  FifoQueues = {"q"}
  Sources = {"q"}
  RateLimited = {"q"}
  Groups = {g, h}
  DedupIds = {x, y}
  Delays = {0}
  Timeouts = {0}
  BatchSizes = {1, 2}
  AttemptIds = {}
  Created = {}
  Redrives = {}
  Retention = 9
  DedupWindow = 2
  AttemptTTL = 1
  PurgeCooldown = 9
  FifoTPS = 1
  MaxInFlight = 2
  MaxDedup = 9
  LockWait = 1
  MaxMsgs = 3
  MaxHandles = 3
  MaxTime = 2
  MaxRestarts = 0
  None = None
INVARIANTS GroupExclusive DedupOnce RateBounded
PROPERTIES DeliverInOrder
CHECK_DEADLOCK FALSE
SYMMETRY Symmetry
