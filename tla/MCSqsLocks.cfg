\* Two request goroutines and the janitor.
SPECIFICATION Spec
CONSTANTS
  t1 = t1
  t2 = t2
  t3 = t3
  Threads = {t1, t2, t3}
  Queues = {"s", "d"}
  Dlq <- SourceAndDlq
  NoQueue = NoQueue
  Calls <- Ordered
INVARIANTS NoDeadlock
PROPERTIES EveryCallReturns
