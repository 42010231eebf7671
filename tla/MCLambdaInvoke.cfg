\* One synchronous and one Event invocation at a limit of one.
SPECIFICATION Spec
CONSTANTS
  Sync = {s1}
  Event = {e1}
  Cancellable = {s1}
  Limits = {1}
  QueueSize = 1
  MaxRetries = 1
  Failing = {s1}
  Grace = 1
INVARIANTS NoSlotLeak OneAnswer AcceptedDelivered HungRuntimeRetired
PROPERTIES CallsEnd
CHECK_DEADLOCK FALSE
