\* A sender, an attribute change and a reader.
SPECIFICATION Spec
CONSTANTS
  t1 = t1
  t2 = t2
  t3 = t3
  Threads = {t1, t2, t3}
  Queues = {"s", "d"}
  Dlq <- SourceAndDlq
  NoQueue = NoQueue
  Calls <- WithSend
INVARIANTS NoDeadlock
