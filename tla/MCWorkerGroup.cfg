\* Goroutines, callbacks and two calls of Stop.
SPECIFICATION WGSpec
CONSTANTS
  Workers = {w1, w2}
  Callbacks = {c1, c2}
  Stoppers = {s1, s2}
INVARIANTS Joined NothingPending
PROPERTIES StopReturns
CHECK_DEADLOCK FALSE
